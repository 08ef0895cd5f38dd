--------------------------- MODULE MCK8sRollout -----------------------------
(***************************************************************************)
(* An instance of K8sRollout for TLC: of the two containers one may go     *)
(* missing, and so may the other things that are checked, one at a time.  *)
(***************************************************************************)
EXTENDS K8sRollout

CONSTANTS c1, c2

OneMissing == {{}} \cup {{x} : x \in Checked \ {c2}}
=============================================================================
