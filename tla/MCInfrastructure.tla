-------------------------- MODULE MCInfrastructure --------------------------
(***************************************************************************)
(* An instance of Infrastructure for TLC.  Servers and targets share       *)
(* nothing but credentials, and gateways and credentials are checked by    *)
(* themselves, so a behaviour takes one slice of the tables, and the run   *)
(* explores all: three servers with requests that cross, clusters and      *)
(* targets with requests that cross, and servers with a credential that    *)
(* is deleted, two of them or two requests for one.                        *)
(***************************************************************************)
EXTENDS Infrastructure, Integers, FiniteSets, TLC

CONSTANTS login, kube

VARIABLE slice

\* login is a private key, the others are kubeconfigs.
TypesOfCredentials == [k \in Credential |-> IF k = login THEN "private_key" ELSE "kubeconfig"]

Interchangeable == Permutations(Client) \cup Permutations(Server)

Pairs == {ss \in SUBSET Server : Cardinality(ss) = 2}

Slices ==
  {[tables |-> {"server"}, servers |-> Server, credentials |-> {}, requests |-> 2],
   [tables |-> {"cluster", "target"}, servers |-> {}, credentials |-> Credential, requests |-> 2]}
    \cup {[tables |-> {"server"}, servers |-> ss, credentials |-> {login}, requests |-> 1] : ss \in Pairs}
    \cup {[tables |-> {"server"}, servers |-> {s}, credentials |-> {login}, requests |-> 2] : s \in Server}

Inside(q) ==
  /\ q.table \in slice.tables
  /\ q.table = "server" => {q.id, q.row.gateway} \subseteq slice.servers \cup {None}

InSlice ==
  /\ \A c \in Client : request'[c] # None => Inside(request'[c])
  /\ Cardinality({c \in Client : request'[c] # None}) <= slice.requests
  /\ \A k \in Credential \ slice.credentials : credential'[k] = None

SliceInit == Init /\ slice \in Slices

SliceNext == Next /\ InSlice /\ UNCHANGED slice

SliceSpec == SliceInit /\ [][SliceNext]_<<vars, slice>>
=============================================================================
