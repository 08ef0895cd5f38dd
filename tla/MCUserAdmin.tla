---------------------------- MODULE MCUserAdmin -----------------------------
(***************************************************************************)
(* Instances of UserAdmin for TLC, as two slices of one instance: "named"  *)
(* has the first administrator u2 and u1, whom the name admin protects;    *)
(* "plain" has u2 and u3, whom nothing protects but the count, for fewer   *)
(* versions and without new passwords.  Clients are interchangeable.       *)
(***************************************************************************)
EXTENDS UserAdmin, TLC

CONSTANTS u1, u2, u3

\* The bound on session_version in the slice "plain".
PlainVersion == 2

VARIABLE slice

Interchangeable == Permutations(Client)

SliceInit == UserInit /\ slice \in {"named", "plain"}

SliceNext ==
  /\ UserNext
  /\ slice = "named" => account'[u3] = Absent
  /\ slice = "plain" =>
       /\ account'[u1] = Absent
       /\ \A u \in User : account'[u] \in Account => account'[u].version <= PlainVersion
       /\ \A c \in Client : step'[c] # "set_password"
  /\ UNCHANGED slice

SliceSpec == SliceInit /\ [][SliceNext]_<<vars, slice>>
=============================================================================
