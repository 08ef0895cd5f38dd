-------------------------- MODULE MCReleaseSystem ---------------------------
(***************************************************************************)
(* Instances of ReleaseSystem for TLC.  r1 and r2 are releases to a server *)
(* group, r3 is a release to a single server, which is one of the group    *)
(* or, in DisjointMemberships, a server of its own.                        *)
(***************************************************************************)
EXTENDS ReleaseInvariant

CONSTANTS r1, r2, r3, group, single, e1, e2, s1, s2, adm, usr, key

GroupTargetOf == [r \in Release |-> IF r = r3 THEN single ELSE group]

OneEnvironment == [t \in Target |-> e1]
EnvironmentPerTarget == [t \in Target |-> IF t = group THEN e1 ELSE e2]

OneService == [t \in Target |-> s1]
ServicePerTarget == [t \in Target |-> IF t = group THEN s1 ELSE s2]

LastRef == {ref \in Ref : \A other \in Ref : other <= ref}

\* The group always has all the servers, the single target is the last one.
FixedMemberships == [t \in Target |-> IF t = group THEN {Ref} ELSE {LastRef}]

\* The members of the group are edited between confirmations; an empty group
\* cannot be confirmed.
EditedMemberships == [t \in Target |-> IF t = group THEN {Ref, {1}, {}} ELSE {LastRef}]

\* The single target is not a server of the group.
DisjointMemberships == [t \in Target |-> IF t = group THEN {Ref \ LastRef} ELSE {LastRef}]

FirstStandings == [u \in User |-> IF u = adm THEN "admin" ELSE "member"]

AllByAdmin == [r \in Release |-> adm]
MixedCreators == [r \in Release |-> IF r = r1 THEN usr ELSE key]
=============================================================================
