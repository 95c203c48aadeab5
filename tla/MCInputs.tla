------------------------------ MODULE MCInputs ------------------------------
(***************************************************************************)
(* Three small instances of HumanInputs in one run: one request answered in *)
(* a file and in the console; one request whose answers two people review  *)
(* while the general operations move the review work; and two requests     *)
(* that one work item waits for, with one text and one reviewer.           *)
(***************************************************************************)
EXTENDS MCHumanInputs

CONSTANT r2
VARIABLE scenario

OneRequest == ~Exists(r2)'

Saves == UNION {{reply'[r][n] : n \in DOMAIN reply'[r]} : r \in Requests}

\* Whoever answers or reviews, it is the same one.
OneText     == Cardinality({p.text : p \in Saves}) <= 1
OneReviewer == Cardinality({p.owner : p \in Saves} \ {Queue}) <= 1
\* Nobody pauses review work, takes it up again after its end, or begins it in
\* the name of the queue.
Running ==
  /\ \A p \in Saves : /\ p.status \notin {"todo", "blocked"}
                      /\ p.status = "in_progress" => p.owner # Queue
  /\ \A r \in Requests : \A n \in DOMAIN reply[r] :
       reply[r][n].status \in {"done", "cancelled"} => reply'[r][n] = reply[r][n]
\* Reviews find an answer sufficient or leave the question as it is.
Findings == \A r \in Requests : verdict'[r].outcome \in {"none", "sufficient", "partial"}

Console == UNCHANGED <<file, preview>>

Begin == Init /\ scenario \in {"file", "review", "shared"}

Step ==
  /\ Next
  /\ UNCHANGED scenario
  /\ \/ /\ scenario = "file" /\ OneRequest /\ OneReviewer /\ Running /\ Findings
        /\ UNCHANGED <<dep, blocked>>
     \/ scenario = "review" /\ OneRequest /\ OneText /\ Console
     \/ /\ scenario = "shared" /\ OneText /\ OneReviewer /\ Running /\ Findings /\ Console
        /\ Len(reply'[r2]) <= 1
        /\ \E r \in Requests : request'[r].revision <= 1

Scenarios == Begin /\ [][Step]_<<vars, scenario>>
=============================================================================
