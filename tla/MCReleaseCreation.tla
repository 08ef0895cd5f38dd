------------------------- MODULE MCReleaseCreation --------------------------
(***************************************************************************)
(* An instance of ReleaseCreation for TLC; t1 and t2 are targets of one    *)
(* service and environment.  What rollbacks and retries choose is a matter *)
(* of what was deployed before, and what keys promise one of requests that *)
(* cross, so a behaviour is in one of four slices and the run explores     *)
(* all: one client with all targets and endings and two versions           *)
(* (History), one client whose rollbacks leave the version to be chosen    *)
(* among three releases that end well (Recommending), two clients that     *)
(* differ in their creators (Crossing), or two clients of one              *)
(* creator whose releases fail and are retried (Retrying).                 *)
(***************************************************************************)
EXTENDS ReleaseCreation, Integers, TLC

CONSTANTS line, c1, t1

VARIABLE slice

OneLine == [t \in Target |-> line]

Interchangeable ==
  Permutations(Release) \cup Permutations(Key) \cup Permutations(Creator) \cup Permutations(Version)

Pairs == {vs \in SUBSET Version : Cardinality(vs) = 2}

History ==
  {[clients |-> {c1}, targets |-> Target, versions |-> vs \cup {NoVersion}, creators |-> {u},
    endings |-> Ending, audited |-> Audited, releases |-> 2, unnamed |-> FALSE] : u \in Creator, vs \in Pairs}

Recommending ==
  {[clients |-> {c1}, targets |-> {t1}, versions |-> Version \cup {NoVersion}, creators |-> {u},
    endings |-> {"success"}, audited |-> {}, releases |-> 3, unnamed |-> TRUE] : u \in Creator}

Crossing ==
  {[clients |-> Client, targets |-> {t1}, versions |-> {v}, creators |-> Creator,
    endings |-> {}, audited |-> {}, releases |-> 2, unnamed |-> FALSE] : v \in Version}

Retrying ==
  {[clients |-> Client, targets |-> {t1}, versions |-> {v}, creators |-> {u},
    endings |-> {"failed"}, audited |-> {}, releases |-> 2, unnamed |-> FALSE] : v \in Version, u \in Creator}

Inside(asked) ==
  /\ asked.target \in slice.targets
  /\ asked.version \in slice.versions
  /\ asked.creator \in slice.creators
  /\ slice.unnamed /\ asked.op = "rollback" => asked.version = NoVersion

InSlice ==
  /\ \A c \in Client \ slice.clients : step'[c] = "idle"
  /\ \A c \in Client : call'[c] # NoCall => Inside(call'[c])
  /\ \A r \in Release : row'[r] # NoRelease => row'[r].status \in {"pending"} \cup slice.endings
  /\ Cardinality(Inserted') <= slice.releases
  /\ events' \subseteq Release \X slice.audited

SliceInit == CreationInit /\ slice \in History \cup Recommending \cup Crossing \cup Retrying

SliceNext == CreationNext /\ InSlice /\ UNCHANGED slice

SliceSpec == SliceInit /\ [][SliceNext]_<<vars, slice>>
=============================================================================
