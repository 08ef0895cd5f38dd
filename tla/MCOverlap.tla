----------------------------- MODULE MCOverlap ------------------------------
(***************************************************************************)
(* Overlapping targets and changing accounts, as two slices of one         *)
(* instance: in "deploys" the worker and the handlers run and nobody's     *)
(* standing changes, in "accounts" environments and users are patched      *)
(* around the handlers and the worker does not run.                        *)
(***************************************************************************)
EXTENDS MCReleaseSystem

VARIABLE slice

SliceInit == Init /\ slice \in {"deploys", "accounts"}

SliceNext ==
  /\ Next
  /\ slice = "deploys" => accounts' = accounts
  /\ slice = "accounts" => workerVars' = workerVars
  /\ UNCHANGED slice

SliceSpec == SliceInit /\ [][SliceNext]_<<vars, slice>>
=============================================================================
