----------------------------- MODULE MCStepRuns -----------------------------
(***************************************************************************)
(* One request key, submitted for both kinds of step by two processes that *)
(* may stop, and that recover runs when they have no other call to make.   *)
(* Keys share only processes and maps.                                     *)
(***************************************************************************)
EXTENDS StepRuns
=============================================================================
