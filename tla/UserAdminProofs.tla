-------------------------- MODULE UserAdminProofs ---------------------------
(***************************************************************************)
(* Proofs about UserAdmin, for any users, requests and session versions.   *)
(***************************************************************************)
EXTENDS UserAdmin, FiniteSetTheorems, TLAPS

\* The first version of a user is one.
LEMMA FirstVersion ==
  ASSUME NEW role \in Role
  PROVE  [role |-> role, enabled |-> TRUE, version |-> 1] \in Account \ {Absent, Deleted}
<1>1. 1 \in 1 .. MaxVersion
  BY UserAssumption
<1>2. [role |-> role, enabled |-> TRUE, version |-> 1] \in Account
  BY <1>1 DEF Account
<1>3. {Absent, Deleted} \cap Account = {}
  BY UserAssumption
<1> QED
  BY <1>2, <1>3

\* A step that leaves the users alone keeps what is said of them.
LEMMA AccountsKept ==
  ASSUME UserInv, UNCHANGED account, tokens' = tokens
  PROVE  ProtectedAreAdmins' /\ TokensAreOld'
BY DEF UserInv, ProtectedAreAdmins, TokensAreOld, EnabledAdmins, Existing

\* A request that starts, about a user there is.
LEMMA BeginKeeps ==
  ASSUME UserInv, NEW c \in Client, NEW a \in User \cup {NoUser}, NEW u \in Existing,
         NEW s \in {"patch", "delete_check", "set_password"}, Begin(c, s, a, u),
         UNCHANGED <<account, tokens>>,
         next' = next \/ \E standing \in Standing : next' = [next EXCEPT ![c] = standing],
         s = "patch" => \E standing \in Standing : next' = [next EXCEPT ![c] = standing],
         s = "delete_check" => u \notin Protected
  PROVE  UserInv'
<1>1. u \in User /\ account[u] # Absent /\ account[u] \in Account
  BY DEF Existing, UserInv, UserTypeOK
<1>2. UserTypeOK'
  BY <1>1 DEF UserInv, UserTypeOK, Begin, StandingOf, Standing, Account
<1>3. RequestsProtect'
  BY <1>1 DEF UserInv, UserTypeOK, RequestsProtect, Begin
<1>4. ReadsHold'
  BY <1>1 DEF UserInv, UserTypeOK, ReadsHold, Begin, StandingOf, EnabledAdmins, Existing
<1> QED
  BY <1>2, <1>3, <1>4, AccountsKept DEF UserInv

\* More than one administrator: one besides any given user.
LEMMA AnotherAdmin ==
  ASSUME EnoughAdmins, NEW u
  PROVE  \E v \in EnabledAdmins : v # u
<1> SUFFICES ASSUME EnabledAdmins \subseteq {u}
             PROVE  FALSE
  OBVIOUS
<1>1. Cardinality({u}) = 1 /\ IsFiniteSet({u})
  BY FS_Singleton
<1>2. Cardinality(EnabledAdmins) <= 1 /\ Cardinality(EnabledAdmins) \in Nat
  BY <1>1, FS_Subset, FS_CardinalityType
<1> QED
  BY <1>2 DEF EnoughAdmins

\* A request that passes its check.
LEMMA CheckKeeps ==
  ASSUME UserInv, NEW c \in Client, PatchCheck(c) \/ DeleteCheck(c)
  PROVE  UserInv'
<1>1. UserTypeOK'
  BY DEF UserInv, UserTypeOK, PatchCheck, DeleteCheck
<1>2. RequestsProtect'
  BY DEF UserInv, UserTypeOK, RequestsProtect, PatchCheck, DeleteCheck, ProtectionAllows
<1>3. ASSUME NEW d \in Client \ overtaken, step'[d] # "idle"
      PROVE  /\ target[d] \in Existing
             /\ seen[d] = StandingOf(target[d])
             /\ \/ step'[d] = "update" /\ IsAdmin(seen[d]) /\ ~IsAdmin(next[d])
                \/ step'[d] = "delete" /\ IsAdmin(seen[d])
                => \E u \in EnabledAdmins : u # target[d]
  <2>1. CASE d = c
    BY <1>3, <2>1, AnotherAdmin DEF UserInv, UserTypeOK, ReadsHold, PatchCheck, DeleteCheck
  <2>2. CASE d # c
    BY <1>3, <2>2 DEF UserInv, UserTypeOK, ReadsHold, PatchCheck, DeleteCheck
  <2> QED
    BY <2>1, <2>2
<1>4. ReadsHold'
  BY <1>3 DEF ReadsHold, PatchCheck, DeleteCheck, StandingOf, EnabledAdmins, Existing
<1> QED
  BY <1>1, <1>2, <1>4, AccountsKept DEF UserInv, PatchCheck, DeleteCheck

\* What a request read holds as long as no role or flag changes and no user goes.
LEMMA ReadsKept ==
  ASSUME UserInv,
         \A u \in Existing : u \in Existing' /\ StandingOf(u)' = StandingOf(u),
         \A d \in Client : step'[d] # "idle" =>
           /\ UNCHANGED <<step[d], target[d], seen[d], next[d]>>
           /\ d \in overtaken => d \in overtaken'
  PROVE  ReadsHold'
<1>1. \A u \in EnabledAdmins : u \in EnabledAdmins'
  BY DEF EnabledAdmins, StandingOf, IsAdmin
<1>2. ASSUME NEW d \in Client \ overtaken', step'[d] # "idle"
      PROVE  /\ target[d] \in Existing
             /\ seen[d] = StandingOf(target[d])
             /\ \/ step[d] = "update" /\ IsAdmin(seen[d]) /\ ~IsAdmin(next[d])
                \/ step[d] = "delete" /\ IsAdmin(seen[d])
                => \E u \in EnabledAdmins : u # target[d]
             /\ UNCHANGED <<step[d], target[d], seen[d], next[d]>>
  <2>1. d \notin overtaken /\ step[d] # "idle" /\ UNCHANGED <<step[d], target[d], seen[d], next[d]>>
    BY <1>2
  <2> QED
    BY <2>1 DEF UserInv, ReadsHold
<1>3. ASSUME NEW d \in Client \ overtaken', step'[d] # "idle"
      PROVE  (target[d] \in Existing /\ seen[d] = StandingOf(target[d]))'
  <2>1. PICK u \in Existing : u = target[d] /\ u = target'[d]
    BY <1>2, <1>3
  <2>2. u \in Existing' /\ StandingOf(u)' = StandingOf(u)
    BY <2>1
  <2>3. seen'[d] = StandingOf(u)
    BY <1>2, <1>3, <2>1
  <2> QED
    BY <2>1, <2>2, <2>3 DEF StandingOf
<1> QED
  BY <1>1, <1>2, <1>3 DEF ReadsHold

\* Nothing is said of what overtaken requests read.
LEMMA ReadsOvertaken ==
  ASSUME UserInv, NEW c \in Client, EndOvertaking(c)
  PROVE  ReadsHold' /\ overtaken' \subseteq Client
BY DEF EndOvertaking, End, ReadsHold, UserInv, UserTypeOK

\* A request that ends, with or without a write.
LEMMA EndKeeps ==
  ASSUME UserInv, NEW c \in Client, End(c), tokens' = tokens,
         overtaken' \subseteq Client, ReadsHold',
         account' \in [User -> Account \cup {Absent, Deleted}],
         \A u \in User : account[u] # Absent => account'[u] # Absent,
         ProtectedAreAdmins', TokensAreOld'
  PROVE  UserInv'
<1>1. UserTypeOK'
  BY DEF UserInv, UserTypeOK, End
<1>2. RequestsProtect'
  BY DEF UserInv, UserTypeOK, RequestsProtect, End
<1> QED
  BY <1>1, <1>2 DEF UserInv

\* Every step preserves the invariant.
LEMMA StepKeeps ==
  ASSUME UserInv, UserNext
  PROVE  UserInv'
<1>1. ASSUME NEW u \in User, Login(u)
      PROVE  UserInv'
  <2>1. account[u] \in Account
    BY <1>1 DEF Login, Existing, UserInv, UserTypeOK
  <2>2. UserTypeOK'
    BY <1>1, <2>1 DEF Login, UserInv, UserTypeOK, Account, request
  <2>3. RequestsProtect'
    BY <1>1 DEF Login, UserInv, RequestsProtect, request
  <2>4. ProtectedAreAdmins'
    BY <1>1 DEF Login, UserInv, ProtectedAreAdmins, EnabledAdmins, Existing
  <2>5. TokensAreOld'
    BY <1>1, <2>1 DEF Login, UserInv, TokensAreOld, Existing, Account
  <2>6. ReadsHold'
    BY <1>1 DEF Login, UserInv, ReadsHold, StandingOf, EnabledAdmins, Existing, request
  <2> QED
    BY <2>2, <2>3, <2>4, <2>5, <2>6 DEF UserInv
<1>2. ASSUME NEW u \in User, NEW role \in Role, CreateSessionUser(u, role)
      PROVE  UserInv'
  <2> DEFINE new == [role |-> role, enabled |-> TRUE, version |-> 1]
  <2>1. new \in Account /\ new \notin {Absent, Deleted}
    BY FirstVersion
  <2>2. account' = [account EXCEPT ![u] = new] /\ account[u] = Absent
    BY <1>2 DEF CreateSessionUser
  <2> HIDE DEF new
  <2>3. UserTypeOK'
    BY <1>2, <2>1, <2>2 DEF CreateSessionUser, UserInv, UserTypeOK, request
  <2>4. RequestsProtect'
    BY <1>2, <2>1, <2>2 DEF CreateSessionUser, UserInv, UserTypeOK, RequestsProtect, request
  <2>5. ProtectedAreAdmins'
    BY <2>2 DEF UserInv, UserTypeOK, ProtectedAreAdmins, EnabledAdmins, Existing
  <2>6. TokensAreOld'
    BY <1>2, <2>1, <2>2 DEF CreateSessionUser, UserInv, UserTypeOK, TokensAreOld, Existing
  <2>7. ReadsHold'
    <3>1. \A v \in Existing : v \in Existing' /\ StandingOf(v)' = StandingOf(v)
      BY <2>2 DEF Existing, StandingOf, UserInv, UserTypeOK
    <3> QED
      BY <1>2, <3>1, ReadsKept DEF CreateSessionUser, request
  <2> QED
    BY <2>3, <2>4, <2>5, <2>6, <2>7 DEF UserInv
<1>3. ASSUME NEW c \in Client, Handle(c)
      PROVE  UserInv'
  <2>1. ASSUME NEW a \in User \cup {NoUser}, NEW u \in User, NEW standing \in Standing,
               PatchBegin(c, a, u, standing)
        PROVE  UserInv'
    BY <2>1, BeginKeeps DEF PatchBegin
  <2>2. ASSUME NEW a \in User, NEW u \in User, DeleteBegin(c, a, u)
        PROVE  UserInv'
    BY <2>2, BeginKeeps DEF DeleteBegin
  <2>3. ASSUME NEW a \in User, NEW u \in User, ResetBegin(c, a, u)
        PROVE  UserInv'
    BY <2>3, BeginKeeps DEF ResetBegin
  <2>4. CASE PatchCheck(c) \/ DeleteCheck(c)
    BY <2>4, CheckKeeps
  <2>5. CASE UpdateUser(c)
    <3> DEFINE u == target[c]
               new == [role |-> next[c].role, enabled |-> next[c].enabled,
                       version |-> NextVersion(account[u].version)]
    <3>1. u \in User /\ account[u] \in Account /\ next[c] \in Standing
      BY <2>5 DEF UpdateUser, Existing, UserInv, UserTypeOK, RequestsProtect
    <3>2. new \in Account /\ new \notin {Absent, Deleted}
      BY <2>5, <3>1, UserAssumption DEF UpdateUser, NextVersion, Account, Standing
    <3>3. account' = [account EXCEPT ![u] = new]
      BY <2>5 DEF UpdateUser
    <3>4. new.version > account[u].version
      BY <3>1 DEF NextVersion, Account
    <3>5. u \in Protected => IsAdmin(new)
      BY <2>5, <3>1 DEF UpdateUser, UserInv, RequestsProtect, IsAdmin
    <3> HIDE DEF new
    <3>6. ProtectedAreAdmins'
      BY <3>1, <3>2, <3>3, <3>5 DEF UserInv, UserTypeOK, ProtectedAreAdmins, EnabledAdmins, Existing
    <3>7. TokensAreOld'
      <4>1. ASSUME NEW t \in tokens, t[1] = u
            PROVE  t[2] <= new.version
        <5>1. t[2] \in Nat /\ account[u].version \in Nat /\ new.version \in Nat
          BY <3>1, <3>2, <4>1 DEF UserInv, UserTypeOK, Account
        <5>2. t[2] <= account[u].version
          BY <2>5, <4>1 DEF UserInv, TokensAreOld, UpdateUser
        <5> QED
          BY <3>4, <5>1, <5>2
      <4> QED
        BY <2>5, <3>1, <3>2, <3>3, <4>1 DEF UpdateUser, UserInv, UserTypeOK, TokensAreOld, Existing
    <3> QED
      BY <2>5, <3>1, <3>2, <3>3, <3>6, <3>7, EndKeeps, ReadsOvertaken
         DEF UpdateUser, EndOvertaking, UserInv, UserTypeOK
  <2>6. CASE DeleteUser(c)
    <3> DEFINE u == target[c]
    <3>1. u \in User \ Protected /\ account[u] # Absent
      BY <2>6 DEF DeleteUser, UserInv, RequestsProtect
    <3>2. account' = [account EXCEPT ![u] = Deleted]
      BY <2>6 DEF DeleteUser
    <3>3. ProtectedAreAdmins'
      BY <3>1, <3>2 DEF UserInv, UserTypeOK, ProtectedAreAdmins, EnabledAdmins, Existing
    <3>4. \A v \in User : account[v] # Absent => account'[v] # Absent
      <4>1. account[u] = Deleted \/ account[u] \in Account
        BY <3>1 DEF UserInv, UserTypeOK
      <4> QED
        BY <3>1, <3>2, UserAssumption DEF UserInv, UserTypeOK
    <3>5. TokensAreOld'
      BY <2>6, <3>2, <3>4 DEF DeleteUser, UserInv, UserTypeOK, TokensAreOld, Existing
    <3> QED
      BY <2>6, <3>2, <3>3, <3>4, <3>5, EndKeeps, ReadsOvertaken
         DEF DeleteUser, EndOvertaking, UserInv, UserTypeOK
  <2>7. CASE SetUserPassword(c)
    <3> DEFINE u == target[c]
               new == [account[u] EXCEPT !.version = @ + 1]
    <3>1. u \in User /\ account[u] \in Account
      BY <2>7 DEF SetUserPassword, Existing, UserInv, UserTypeOK
    <3>2. new \in Account /\ new \notin {Absent, Deleted}
      BY <2>7, <3>1, UserAssumption DEF SetUserPassword, Account
    <3>3. account' = [account EXCEPT ![u] = new]
      BY <2>7 DEF SetUserPassword
    <3>4. new.version = account[u].version + 1 /\ (IsAdmin(new) <=> IsAdmin(account[u]))
      BY <3>1 DEF Account, IsAdmin
    <3> HIDE DEF new
    <3>5. ProtectedAreAdmins'
      BY <3>1, <3>2, <3>3, <3>4 DEF UserInv, UserTypeOK, ProtectedAreAdmins, EnabledAdmins, Existing
    <3>6. TokensAreOld'
      <4>1. ASSUME NEW t \in tokens, t[1] = u
            PROVE  t[2] <= new.version
        <5>1. t[2] \in Nat /\ account[u].version \in Nat
          BY <3>1, <4>1 DEF UserInv, UserTypeOK, Account
        <5>2. t[2] <= account[u].version
          BY <2>7, <4>1 DEF UserInv, TokensAreOld, SetUserPassword
        <5> QED
          BY <3>4, <5>1, <5>2
      <4> QED
        BY <2>7, <3>1, <3>2, <3>3, <4>1 DEF SetUserPassword, UserInv, UserTypeOK, TokensAreOld, Existing
    <3>7. ReadsHold'
      <4>1. new.role = account[u].role /\ new.enabled = account[u].enabled
        BY <3>1 DEF new, Account
      <4>2. \A v \in Existing : v \in Existing' /\ StandingOf(v)' = StandingOf(v)
        BY <3>1, <3>2, <3>3, <4>1 DEF Existing, StandingOf, UserInv, UserTypeOK
      <4>3. \A d \in Client : step'[d] # "idle" =>
              /\ UNCHANGED <<step[d], target[d], seen[d], next[d]>>
              /\ d \in overtaken => d \in overtaken'
        BY <2>7 DEF SetUserPassword, EndQuietly, End, UserInv, UserTypeOK
      <4> QED
        BY <4>2, <4>3, ReadsKept
    <3> QED
      BY <2>7, <3>1, <3>2, <3>3, <3>5, <3>6, <3>7, EndKeeps
         DEF SetUserPassword, EndQuietly, UserInv, UserTypeOK
  <2>8. CASE GiveUp(c)
    <3>1. ReadsHold'
      <4>1. \A v \in Existing : v \in Existing' /\ StandingOf(v)' = StandingOf(v)
        BY <2>8 DEF GiveUp, Existing, StandingOf
      <4>2. \A d \in Client : step'[d] # "idle" =>
              /\ UNCHANGED <<step[d], target[d], seen[d], next[d]>>
              /\ d \in overtaken => d \in overtaken'
        BY <2>8 DEF GiveUp, EndQuietly, End, UserInv, UserTypeOK
      <4> QED
        BY <4>1, <4>2, ReadsKept
    <3> QED
      BY <2>8, <3>1, AccountsKept, EndKeeps DEF GiveUp, EndQuietly, UserInv, UserTypeOK
  <2> QED
    BY <1>3, <2>1, <2>2, <2>3, <2>4, <2>5, <2>6, <2>7, <2>8 DEF Handle
<1> QED
  BY <1>1, <1>2, <1>3 DEF UserNext

\* The invariant holds of every reachable state.
THEOREM UserInvariant == UserSpec => []UserInv
<1>1. UserInit => UserInv
  <2> SUFFICES ASSUME UserInit
               PROVE  UserInv
    OBVIOUS
  <2> DEFINE founder == [role |-> "admin", enabled |-> TRUE, version |-> 1]
  <2>1. founder \in Account /\ founder \notin {Absent, Deleted} /\ IsAdmin(founder)
    BY FirstVersion DEF Role, IsAdmin
  <2>2. \A u \in User : account[u] = IF u \in Founders THEN founder ELSE Absent
    BY DEF UserInit
  <2>3. account \in [User -> Account \cup {Absent, Deleted}]
    BY <2>1 DEF UserInit
  <2> HIDE DEF founder
  <2>4. UserTypeOK
    BY <2>3 DEF UserInit, UserTypeOK
  <2>5. ProtectedAreAdmins
    BY <2>1, <2>2, UserAssumption DEF ProtectedAreAdmins, EnabledAdmins, Existing, Protected
  <2> QED
    BY <2>4, <2>5 DEF UserInit, UserInv, RequestsProtect, ReadsHold, TokensAreOld
<1>2. UserInv /\ [UserNext]_vars => UserInv'
  <2> SUFFICES ASSUME UserInv, [UserNext]_vars
               PROVE  UserInv'
    OBVIOUS
  <2>1. CASE UserNext
    BY <2>1, StepKeeps
  <2>2. CASE UNCHANGED vars
    BY <2>2, AccountsKept DEF vars, UserInv, UserTypeOK, RequestsProtect, ReadsHold, StandingOf,
       EnabledAdmins, Existing
  <2> QED
    BY <2>1, <2>2
<1> QED
  BY <1>1, <1>2, PTL DEF UserSpec

-----------------------------------------------------------------------------
(* What follows.                                                           *)

\* Where a protected user is among the first administrators there is always an
\* enabled administrator (AlwaysAnAdmin), however the requests that demote,
\* disable and delete users cross.
THEOREM ProtectedAdminStays ==
  ASSUME Protected \cap Founders # {}
  PROVE  UserSpec => []AlwaysAnAdmin
<1>1. UserInv => AlwaysAnAdmin
  BY DEF UserInv, ProtectedAreAdmins, AlwaysAnAdmin
<1> QED
  BY <1>1, UserInvariant, PTL

\* A write takes away no administrator but the one it is about, and not that one
\* when it is protected.
LEMMA OneAdminAtATime ==
  ASSUME UserInv, UserNext, NEW u \in EnabledAdmins, u \notin EnabledAdmins'
  PROVE  \E c \in Client :
           /\ (UpdateUser(c) /\ ~IsAdmin(next[c])) \/ DeleteUser(c)
           /\ target[c] = u
           /\ u \notin Protected
<1>0. u \in User /\ account[u] \in Account /\ account[u] \notin {Absent, Deleted}
  BY DEF EnabledAdmins, Existing, UserInv, UserTypeOK
<1>1. account'[u] # account[u]
  BY <1>0 DEF EnabledAdmins, Existing
<1>2. ASSUME NEW v \in User, Login(v) \/ \E role \in Role : CreateSessionUser(v, role)
      PROVE  FALSE
  BY <1>0, <1>1, <1>2 DEF Login, CreateSessionUser, UserInv, UserTypeOK
<1>3. ASSUME NEW c \in Client, Handle(c)
      PROVE  /\ (UpdateUser(c) /\ ~IsAdmin(next[c])) \/ DeleteUser(c)
             /\ target[c] = u
             /\ u \notin Protected
  <2>1. CASE UpdateUser(c)
    <3>1. target[c] = u
      BY <1>0, <1>1, <2>1 DEF UpdateUser, UserInv, UserTypeOK
    <3> DEFINE new == [role |-> next[c].role, enabled |-> next[c].enabled,
                       version |-> NextVersion(account[u].version)]
    <3>2. account' = [account EXCEPT ![u] = new]
      BY <2>1, <3>1 DEF UpdateUser
    <3>3. account'[u] = new
      BY <1>0, <3>2 DEF UserInv, UserTypeOK
    <3>4. new \in Account
      <4>1. next[c] \in Standing /\ NextVersion(account[u].version) <= MaxVersion
        BY <2>1, <3>1 DEF UpdateUser, UserInv, RequestsProtect
      <4>2. NextVersion(account[u].version) \in 1 .. MaxVersion
        BY <1>0, <4>1, UserAssumption DEF NextVersion, Account
      <4> QED
        BY <4>1, <4>2 DEF Account, Standing
    <3>5. new \notin {Absent, Deleted}
      BY <3>4, UserAssumption
    <3>6. ~IsAdmin(new)
      BY <1>0, <3>3, <3>5 DEF EnabledAdmins, Existing
    <3>7. ~IsAdmin(next[c])
      BY <3>6 DEF IsAdmin
    <3> QED
      BY <2>1, <3>1, <3>7 DEF UpdateUser, UserInv, RequestsProtect
  <2>2. CASE DeleteUser(c)
    <3>1. target[c] = u
      BY <1>0, <1>1, <2>2 DEF DeleteUser, UserInv, UserTypeOK
    <3> QED
      BY <2>2, <3>1 DEF DeleteUser, UserInv, RequestsProtect
  <2>3. CASE SetUserPassword(c)
    <3> DEFINE new == [account[u] EXCEPT !.version = @ + 1]
    <3>1. target[c] = u
      BY <1>0, <1>1, <2>3 DEF SetUserPassword, UserInv, UserTypeOK
    <3>2. account' = [account EXCEPT ![u].version = @ + 1]
      BY <2>3, <3>1 DEF SetUserPassword
    <3>3. account'[u] = new
      BY <1>0, <3>2 DEF UserInv, UserTypeOK
    <3>4. IsAdmin(account[u]) /\ IsAdmin(new)
      BY <1>0 DEF EnabledAdmins, IsAdmin, Account
    <3>5. new \in Account
      <4>1. account[u].version \in 1 .. MaxVersion /\ account[u].version < MaxVersion
        BY <1>0, <2>3, <3>1 DEF SetUserPassword, Account
      <4> QED
        BY <1>0, <4>1, UserAssumption DEF Account
    <3>6. new \notin {Absent, Deleted}
      BY <3>5, UserAssumption
    <3> QED
      BY <1>0, <3>3, <3>4, <3>6 DEF EnabledAdmins, Existing
  <2> QED
    BY <1>1, <1>3, <2>1, <2>2, <2>3 DEF Handle, PatchBegin, DeleteBegin, ResetBegin, PatchCheck,
       DeleteCheck, GiveUp
<1> QED
  BY <1>2, <1>3 DEF UserNext

\* The count of administrators fails only by being stale (LastAdminStays), for
\* any users and requests, and whoever is protected.
THEOREM CountFailsOnlyStale == UserSpec => LastAdminStays
<1>1. ASSUME UserInv, [UserNext]_vars, EnabledAdmins # {}, EnabledAdmins' = {}
      PROVE  /\ EnabledAdmins \cap Protected = {}
             /\ \E c \in overtaken : UpdateUser(c) \/ DeleteUser(c)
  <2>1. UserNext
    BY <1>1 DEF vars, EnabledAdmins, Existing
  <2>2. EnabledAdmins \cap Protected = {}
    BY <1>1, <2>1, OneAdminAtATime
  <2>3. PICK u \in EnabledAdmins : TRUE
    BY <1>1
  <2>4. PICK c \in Client : /\ (UpdateUser(c) /\ ~IsAdmin(next[c])) \/ DeleteUser(c)
                           /\ target[c] = u
    BY <1>1, <2>1, <2>3, OneAdminAtATime
  <2>5. \A v \in EnabledAdmins : v = u
    <3>1. ASSUME NEW v \in EnabledAdmins
          PROVE  \E d \in Client : (UpdateUser(d) \/ DeleteUser(d)) /\ target[d] = v
      BY <1>1, <2>1, <3>1, OneAdminAtATime
    <3>2. ASSUME NEW d \in Client, UpdateUser(d) \/ DeleteUser(d)
          PROVE  d = c
      <4>1. step[d] # "idle" /\ step'[d] = "idle"
        BY <1>1, <3>2 DEF UpdateUser, DeleteUser, EndOvertaking, End, UserInv, UserTypeOK
      <4>2. step' = [step EXCEPT ![c] = "idle"]
        BY <2>4 DEF UpdateUser, DeleteUser, EndOvertaking, End
      <4> QED
        BY <1>1, <4>1, <4>2 DEF UserInv, UserTypeOK
    <3> QED
      BY <2>4, <3>1, <3>2
  <2>6. CASE c \notin overtaken
    <3>1. step[c] \in {"update", "delete"} /\ step[c] # "idle"
      BY <2>4 DEF UpdateUser, DeleteUser
    <3>2. seen[c] = StandingOf(u)
      BY <1>1, <2>4, <2>6, <3>1 DEF UserInv, ReadsHold
    <3>3. IsAdmin(seen[c])
      BY <2>3, <3>2 DEF StandingOf, EnabledAdmins, IsAdmin
    <3>4. \E v \in EnabledAdmins : v # u
      BY <1>1, <2>4, <2>6, <3>1, <3>3 DEF UserInv, ReadsHold, UpdateUser, DeleteUser
    <3> QED
      BY <2>5, <3>4
  <2> QED
    BY <2>2, <2>4, <2>6
<1>2. UserInv /\ [UserNext]_vars =>
        [EnabledAdmins # {} /\ EnabledAdmins' = {} =>
           /\ EnabledAdmins \cap Protected = {}
           /\ \E c \in overtaken : UpdateUser(c) \/ DeleteUser(c)]_vars
  BY <1>1
<1> QED
  BY <1>2, UserInvariant, PTL DEF UserSpec, LastAdminStays

\* What a step may do to a user: nothing, create it with the first version,
\* delete it, or raise its version.
LEMMA VersionOnlyRises ==
  ASSUME UserInv, UserNext, NEW u \in Existing
  PROVE  \/ account'[u] = account[u]
         \/ account'[u] = Deleted
         \/ account'[u] \in Account /\ account'[u].version > account[u].version
<1>0. u \in User /\ account[u] \in Account /\ account[u] # Absent
  BY DEF Existing, UserInv, UserTypeOK
<1>1. ASSUME NEW v \in User, Login(v) \/ \E role \in Role : CreateSessionUser(v, role)
      PROVE  account'[u] = account[u]
  BY <1>0, <1>1 DEF Login, CreateSessionUser, UserInv, UserTypeOK
<1>2. ASSUME NEW c \in Client, Handle(c)
      PROVE  \/ account'[u] = account[u]
             \/ account'[u] = Deleted
             \/ account'[u] \in Account /\ account'[u].version > account[u].version
  <2>0. UserTypeOK'
    BY StepKeeps DEF UserInv
  <2>1. CASE UpdateUser(c)
    <3>1. CASE target[c] = u
      <4>1. account'[u].version = account[u].version + 1
        BY <1>0, <2>1, <3>1 DEF UpdateUser, NextVersion, UserInv, UserTypeOK
      <4>2. account'[u] = [role |-> next[c].role, enabled |-> next[c].enabled,
                           version |-> account[u].version + 1]
        BY <1>0, <2>1, <3>1 DEF UpdateUser, NextVersion, UserInv, UserTypeOK
      <4>3. account[u].version + 1 <= MaxVersion /\ account[u].version \in 1 .. MaxVersion
        BY <1>0, <2>1, <3>1 DEF UpdateUser, NextVersion, Account
      <4>4. next[c] \in Standing
        BY <2>1 DEF UpdateUser, UserInv, RequestsProtect
      <4>5. account'[u] \in Account
        BY <4>2, <4>3, <4>4, UserAssumption DEF Account, Standing
      <4> QED
        BY <4>1, <4>3, <4>5
    <3>2. CASE target[c] # u
      BY <1>0, <2>1, <3>2 DEF UpdateUser, UserInv, UserTypeOK
    <3> QED
      BY <3>1, <3>2
  <2>2. CASE SetUserPassword(c)
    <3>1. CASE target[c] = u
      <4>1. account'[u] = [account[u] EXCEPT !.version = account[u].version + 1]
        BY <1>0, <2>2, <3>1 DEF SetUserPassword, UserInv, UserTypeOK
      <4>2. account[u].version < MaxVersion /\ account[u].version \in 1 .. MaxVersion
        BY <1>0, <2>2, <3>1 DEF SetUserPassword, Account
      <4>3. account'[u] \in Account
        BY <1>0, <4>1, <4>2, UserAssumption DEF Account
      <4>4. account'[u].version = account[u].version + 1
        BY <1>0, <4>1 DEF Account
      <4> QED
        BY <4>2, <4>3, <4>4
    <3>2. CASE target[c] # u
      BY <1>0, <2>2, <3>2 DEF SetUserPassword, UserInv, UserTypeOK
    <3> QED
      BY <3>1, <3>2
  <2>3. CASE DeleteUser(c)
    BY <1>0, <2>3 DEF DeleteUser, UserInv, UserTypeOK
  <2> QED
    BY <1>2, <2>1, <2>2, <2>3 DEF Handle, PatchBegin, DeleteBegin, ResetBegin, PatchCheck, DeleteCheck, GiveUp
<1> QED
  BY <1>1, <1>2 DEF UserNext

\* A deleted user stays deleted.
LEMMA DeletedStays ==
  ASSUME UserInv, UserNext, NEW u \in User, account[u] = Deleted
  PROVE  account'[u] = Deleted
<1>1. u \notin Existing /\ account[u] # Absent
  BY UserAssumption DEF Existing
<1> QED
  BY <1>1 DEF UserNext, Handle, Login, CreateSessionUser, PatchBegin, DeleteBegin, ResetBegin,
     PatchCheck, UpdateUser, DeleteCheck, DeleteUser, SetUserPassword, GiveUp, UserInv, UserTypeOK

\* A revoked session stays revoked (RevokedForGood): versions only rise, so
\* a user that is enabled again does not get the old sessions back.
THEOREM RevocationIsFinal == UserSpec => RevokedForGood
<1>1. ASSUME UserInv, [UserNext]_vars, NEW t \in tokens, ~Valid(t)
      PROVE  ~Valid(t)'
  <2> DEFINE u == t[1]
  <2>1. u \in User /\ account[u] # Absent /\ t[2] \in 1 .. MaxVersion
    BY <1>1 DEF UserInv, UserTypeOK, TokensAreOld
  <2>2. CASE UNCHANGED vars
    BY <1>1, <2>2 DEF vars, Valid, Existing
  <2>3. CASE UserNext /\ account[u] = Deleted
    BY <1>1, <2>1, <2>3, DeletedStays DEF Valid, Existing
  <2>4. CASE UserNext /\ account[u] # Deleted
    <3>1. u \in Existing /\ account[u] \in Account
      BY <2>1, <2>4, <1>1 DEF Existing, UserInv, UserTypeOK
    <3>2. t[2] <= account[u].version
      BY <1>1, <3>1 DEF UserInv, TokensAreOld
    <3>3. CASE account'[u] = account[u]
      BY <1>1, <3>3 DEF Valid, Existing
    <3>4. CASE account'[u] = Deleted
      BY <3>4 DEF Valid, Existing
    <3>5. CASE account'[u] \in Account /\ account'[u].version > account[u].version
      <4>1. account[u].version \in Nat /\ account'[u].version \in Nat /\ t[2] \in Nat
        BY <2>1, <3>1, <3>5, UserAssumption DEF Account
      <4>2. account'[u].version # t[2]
        BY <3>2, <3>5, <4>1
      <4> QED
        BY <4>2 DEF Valid
    <3> QED
      BY <1>1, <2>4, <3>1, <3>3, <3>4, <3>5, VersionOnlyRises
  <2> QED
    BY <1>1, <2>2, <2>3, <2>4
<1>2. UserInv /\ [UserNext]_vars => [\A t \in tokens : ~Valid(t) => ~Valid(t)']_vars
  BY <1>1
<1> QED
  BY <1>2, UserInvariant, PTL DEF UserSpec, RevokedForGood

\* A user whose role or flag changes loses its sessions (ChangeRevokes).
THEOREM ChangesRevoke == UserSpec => ChangeRevokes
<1>1. ASSUME UserInv, [UserNext]_vars, NEW t \in tokens, t[1] \in Existing, t[1] \in Existing',
             StandingOf(t[1])' # StandingOf(t[1])
      PROVE  ~Valid(t)'
  <2> DEFINE u == t[1]
  <2>1. account'[u] # account[u] /\ account'[u] # Deleted
    BY <1>1 DEF StandingOf, Existing
  <2>2. UserNext
    BY <1>1, <2>1 DEF vars
  <2>3. account[u] \in Account /\ t[2] \in 1 .. MaxVersion /\ t[2] <= account[u].version
    BY <1>1 DEF Existing, UserInv, UserTypeOK, TokensAreOld
  <2>4. account'[u] \in Account /\ account'[u].version > account[u].version
    BY <1>1, <2>1, <2>2, VersionOnlyRises
  <2>5. account[u].version \in Nat /\ account'[u].version \in Nat /\ t[2] \in Nat
    BY <2>3, <2>4, UserAssumption DEF Account
  <2>6. account'[u].version # t[2]
    BY <2>3, <2>4, <2>5
  <2> QED
    BY <2>6 DEF Valid
<1>2. UserInv /\ [UserNext]_vars =>
        [\A t \in tokens : t[1] \in Existing /\ t[1] \in Existing' =>
           (StandingOf(t[1])' # StandingOf(t[1]) => ~Valid(t)')]_vars
  BY <1>1
<1> QED
  BY <1>2, UserInvariant, PTL DEF UserSpec, ChangeRevokes

\* Accounts, tokens and requests keep their types (UserTypeOK).
THEOREM UsersTypeCorrect == UserSpec => []UserTypeOK
<1>1. UserInv => UserTypeOK
  BY DEF UserInv
<1> QED
  BY <1>1, UserInvariant, PTL
=============================================================================
