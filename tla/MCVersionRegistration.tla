----------------------- MODULE MCVersionRegistration ------------------------
(***************************************************************************)
(* Instances of VersionRegistration for TLC: ids, clients, keys, contents, *)
(* numbers and metadata are interchangeable.                               *)
(***************************************************************************)
EXTENDS VersionRegistration, TLC

Interchangeable ==
  UNION {Permutations(S) : S \in {Entry, Client, Service, Name, Content, Metadata, Key}}
=============================================================================
