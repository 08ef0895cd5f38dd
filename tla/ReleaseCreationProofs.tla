----------------------- MODULE ReleaseCreationProofs ------------------------
(***************************************************************************)
(* Proofs about ReleaseCreation, for any number of requests: a key has one *)
(* release, a request is given what it asked for, together they keep what  *)
(* IdempotentKeys promises, and rollbacks and retries are of what has been *)
(* deployed and has failed.                                                *)
(***************************************************************************)
EXTENDS ReleaseCreation, TLAPS

\* What a row was inserted with stays: this is all the invariant and the keys
\* know of rows.
RowsKept ==
  \A r \in Inserted :
    /\ r \in Inserted'
    /\ row'[r].target = row[r].target
    /\ row'[r].version = row[r].version
    /\ row'[r].creator = row[r].creator
    /\ row'[r].key = row[r].key

\* The order of the updates relates releases.
LEMMA TouchType ==
  ASSUME NEW r \in Release, newer \subseteq Release \X Release, Touch(r)
  PROVE  newer' \subseteq Release \X Release
BY DEF Touch, Inserted

\* Where a request goes on after Create is one of its steps.
LEMMA AfterCreateType ==
  ASSUME NEW op \in Operation
  PROVE  AfterCreate(op) \in {"link", "op_event", "answered"}
BY DEF AfterCreate, Operation

\* Beginning a request: its call is typed, and it has no item yet.
LEMMA BeginKeeps ==
  ASSUME CreationInv, NEW c \in Client, NEW asked \in Call,
         NEW resolved \in Version \cup {NoVersion}, Begin(c, asked, resolved)
  PROVE  CreationInv'
<1> USE DEF CreationInv, Begin, Goto, tables
<1>1. CreationTypeOK'
  BY DEF CreationTypeOK, Step
<1>2. Resolved'
  BY DEF CreationTypeOK, Resolved
<1>3. OneReleasePerKey'
  BY DEF OneReleasePerKey, Inserted
<1>4. AnswerIsWhatWasAsked'
  BY DEF CreationTypeOK, AnswerIsWhatWasAsked, HasItem, Inserted
<1> QED
  BY <1>1, <1>2, <1>3, <1>4

\* A step of a request that leaves the rows, the calls and the items alone and
\* goes to a step it is prepared for.
LEMMA MoveKeeps ==
  ASSUME CreationInv, NEW c \in Client, NEW s \in Step, Goto(c, s),
         UNCHANGED <<row, newer, later, call, version, item>>,
         events' \subseteq Release \X {"release_created", "rollback_requested", "release_retried"},
         s \in {"lookup", "insert", "created_event", "link", "op_event", "answered"} =>
           call[c] \in Call /\ version[c] \in Version,
         s = "choose" => call[c] \in Call,
         s \in {"created_event", "link", "op_event", "answered"} => HasItem(c)
  PROVE  CreationInv'
<1> USE DEF CreationInv, Goto
<1>1. CreationTypeOK'
  BY DEF CreationTypeOK
<1>2. Resolved'
  BY DEF CreationTypeOK, Resolved
<1>3. OneReleasePerKey'
  BY DEF OneReleasePerKey, Inserted
<1>4. AnswerIsWhatWasAsked'
  BY DEF CreationTypeOK, AnswerIsWhatWasAsked, HasItem, Inserted
<1> QED
  BY <1>1, <1>2, <1>3, <1>4

\* The insert under the unique index.
LEMMA InsertKeeps ==
  ASSUME CreationInv, NEW c \in Client, NEW r \in Release, CreateReleaseRequest(c, r)
  PROVE  CreationInv' /\ RowsKept
<1> DEFINE new == [target |-> call[c].target, version |-> version[c], key |-> call[c].key,
                   creator |-> call[c].creator, named |-> call[c].version, op |-> call[c].op,
                   rollbackOf |-> NoRelease, status |-> "pending"]
<1> USE DEF CreationInv
<1>1. call[c] \in Call /\ version[c] \in Version
  BY DEF CreateReleaseRequest, Resolved
<1>2. new \in Row
  BY <1>1 DEF Call, Row
<1>3. new # NoRelease
  BY <1>2, RowAssumption
<1>4. row' = [row EXCEPT ![r] = new]
  BY DEF CreateReleaseRequest
<1> HIDE DEF new
<1>5. Inserted' = Inserted \cup {r} /\ r \notin Inserted
  BY <1>3, <1>4 DEF CreateReleaseRequest, Inserted, CreationTypeOK
<1>6. \A s \in Inserted : row'[s] = row[s]
  BY <1>4, <1>5 DEF CreationTypeOK, Inserted
<1>7. row'[r] = new
  BY <1>4 DEF CreationTypeOK
<1>8. CreationTypeOK'
  <2>1. row' \in [Release -> Row \cup {NoRelease}]
    BY <1>2, <1>4 DEF CreationTypeOK
  <2>2. newer' \subseteq Release \X Release
    BY TouchType DEF CreateReleaseRequest, CreationTypeOK
  <2> QED
    BY <2>1, <2>2 DEF CreateReleaseRequest, CreationTypeOK, Goto, Step
<1>9. Resolved'
  BY <1>1 DEF CreateReleaseRequest, Resolved, Goto, CreationTypeOK
<1>10. OneReleasePerKey'
  <2>1. new.key = call[c].key
    BY DEF new
  <2>2. \A s \in Inserted : new.key \in Key => row[s].key # new.key
    BY <2>1, CreationAssumption DEF CreateReleaseRequest, KeyIsFree, WithKey
  <2> QED
    BY <1>5, <1>6, <1>7, <2>2 DEF OneReleasePerKey
<1>11. AnswerIsWhatWasAsked'
  <2>1. ASSUME NEW d \in Client, HasItem(d)'
        PROVE  /\ item'[d] \in Inserted'
               /\ row'[item'[d]].target = call'[d].target
               /\ row'[item'[d]].version = version'[d]
               /\ row'[item'[d]].creator = call'[d].creator
               /\ row'[item'[d]].key = call'[d].key
    <3>1. CASE d = c
      <4>1. item'[d] = r
        BY <3>1 DEF CreateReleaseRequest, CreationTypeOK
      <4> QED
        BY <3>1, <4>1, <1>5, <1>7 DEF CreateReleaseRequest, new
    <3>2. CASE d # c
      <4>1. HasItem(d) /\ item'[d] = item[d] /\ call'[d] = call[d] /\ version'[d] = version[d]
        BY <2>1, <3>2 DEF CreateReleaseRequest, HasItem, Goto, CreationTypeOK
      <4> QED
        BY <4>1, <1>5, <1>6 DEF AnswerIsWhatWasAsked
    <3> QED
      BY <3>1, <3>2
  <2> QED
    BY <2>1 DEF AnswerIsWhatWasAsked
<1> QED
  BY <1>5, <1>6, <1>8, <1>9, <1>10, <1>11 DEF RowsKept

\* A write to a row that keeps what it was inserted with.
LEMMA UpdateKeeps ==
  ASSUME CreationInv, NEW r \in Inserted, NEW new \in Row,
         row' = [row EXCEPT ![r] = new], Touch(r),
         new.target = row[r].target, new.version = row[r].version,
         new.creator = row[r].creator, new.key = row[r].key,
         later' \subseteq Release \X Release, UNCHANGED <<events, call, version, item>>,
         step' \in [Client -> Step],
         \A c \in Client : step'[c] = step[c] \/ (step[c] = "link" /\ step'[c] = "op_event")
  PROVE  CreationInv' /\ RowsKept
<1> USE DEF CreationInv
<1>1. r \in Release /\ new # NoRelease
  BY RowAssumption DEF Inserted
<1>2. Inserted' = Inserted
  BY <1>1 DEF Inserted, CreationTypeOK
<1>3. RowsKept
  BY <1>1, <1>2 DEF RowsKept, CreationTypeOK, Inserted
<1>4. CreationTypeOK'
  <2>1. newer' \subseteq Release \X Release
    BY <1>1, TouchType DEF CreationTypeOK
  <2> QED
    BY <1>1, <2>1 DEF CreationTypeOK
<1>5. Resolved'
  BY DEF Resolved
<1>6. OneReleasePerKey'
  BY <1>2, <1>3 DEF OneReleasePerKey, RowsKept
<1>7. AnswerIsWhatWasAsked'
  BY <1>2, <1>3 DEF AnswerIsWhatWasAsked, RowsKept, HasItem
<1> QED
  BY <1>3, <1>4, <1>5, <1>6, <1>7

\* Every step of a request keeps the invariant and what the rows were
\* inserted with.
LEMMA HandleKeeps ==
  ASSUME CreationInv, NEW c \in Client, Handle(c)
  PROVE  CreationInv' /\ RowsKept
<1> USE DEF CreationInv
<1>0. ASSUME UNCHANGED row
      PROVE  RowsKept
  BY <1>0 DEF RowsKept, Inserted
<1>1. ASSUME NEW t \in Target, NEW v \in Version, NEW k \in Key \cup {NoKey}, NEW u \in Creator,
             CreateBegin(c, t, v, k, u)
      PROVE  CreationInv' /\ RowsKept
  <2> DEFINE asked == [op |-> "create", original |-> NoRelease, version |-> v,
                       target |-> t, key |-> k, creator |-> u]
  <2>1. asked \in Call /\ Begin(c, asked, v)
    BY <1>1 DEF CreateBegin, Call, Operation
  <2> QED
    BY <2>1, <1>0, BeginKeeps DEF Begin, tables
<1>2. ASSUME NEW o \in Release, NEW v \in Version \cup {NoVersion}, NEW k \in Key \cup {NoKey},
             NEW u \in Creator, RollbackBegin(c, o, v, k, u)
      PROVE  CreationInv' /\ RowsKept
  <2> DEFINE asked == [op |-> "rollback", original |-> o, version |-> v,
                       target |-> row[o].target, key |-> k, creator |-> u]
  <2>1. row[o].target \in Target
    BY <1>2 DEF RollbackBegin, CreationTypeOK, Row
  <2>2. asked \in Call /\ Begin(c, asked, v)
    BY <2>1, <1>2 DEF RollbackBegin, Call, Operation
  <2> QED
    BY <2>2, <1>0, BeginKeeps DEF Begin, tables
<1>3. ASSUME NEW o \in Release, NEW k \in Key \cup {NoKey}, NEW u \in Creator, RetryBegin(c, o, k, u)
      PROVE  CreationInv' /\ RowsKept
  <2> DEFINE asked == [op |-> "retry", original |-> o, version |-> row[o].version,
                       target |-> row[o].target, key |-> k, creator |-> u]
  <2>1. row[o].target \in Target /\ row[o].version \in Version
    BY <1>3 DEF RetryBegin, CreationTypeOK, Row
  <2>2. asked \in Call /\ Begin(c, asked, row[o].version)
    BY <2>1, <1>3 DEF RetryBegin, Call, Operation
  <2> QED
    BY <2>1, <2>2, <1>0, BeginKeeps DEF Begin, tables
<1>4. ASSUME NEW r \in Release, RollbackChoose(c, r)
      PROVE  CreationInv' /\ RowsKept
  <2>1. row[r] \in Row /\ call[c] \in Call
    BY <1>4 DEF RollbackChoose, Newest, Candidates, Deployed, Inserted, CreationTypeOK, Resolved
  <2>2. VersionOf(r) \in Version
    BY <2>1 DEF VersionOf, Row
  <2>3. CreationTypeOK'
    BY <1>4, <2>2 DEF RollbackChoose, CreationTypeOK, Goto, tables, Step
  <2>4. Resolved'
    BY <1>4, <2>1, <2>2 DEF RollbackChoose, CreationTypeOK, Resolved, Goto
  <2>5. OneReleasePerKey' /\ RowsKept
    BY <1>4, <1>0 DEF RollbackChoose, OneReleasePerKey, Inserted, tables
  <2>6. AnswerIsWhatWasAsked'
    BY <1>4 DEF RollbackChoose, AnswerIsWhatWasAsked, HasItem, Goto, Inserted, tables, CreationTypeOK
  <2> QED
    BY <2>3, <2>4, <2>5, <2>6
<1>5. CASE LookupMisses(c)
  BY <1>5, <1>0, MoveKeeps DEF LookupMisses, Step, Resolved, CreationTypeOK, tables
<1>6. ASSUME NEW r \in Release, Replay(c, r)
      PROVE  CreationInv' /\ RowsKept
  <2>1. call[c] \in Call /\ version[c] \in Version
    BY <1>6 DEF Replay, Resolved
  <2>2. AfterCreate(call[c].op) \in {"link", "op_event", "answered"}
    BY <2>1, AfterCreateType DEF Call
  <2>3. CreationTypeOK'
    BY <1>6, <2>2 DEF Replay, CreationTypeOK, Goto, tables, Step
  <2>4. Resolved'
    BY <1>6, <2>1, <2>2 DEF Replay, CreationTypeOK, Resolved, Goto
  <2>5. OneReleasePerKey' /\ RowsKept
    BY <1>6, <1>0 DEF Replay, OneReleasePerKey, Inserted, tables
  <2>6. r \in Inserted /\ row[r].key = call[c].key
    BY <1>6 DEF Replay, WithKey
  <2>7. AnswerIsWhatWasAsked'
    BY <1>6, <2>6 DEF Replay, SameIdempotentCreate, AnswerIsWhatWasAsked, HasItem, Goto,
                      Inserted, tables, CreationTypeOK
  <2> QED
    BY <2>3, <2>4, <2>5, <2>7
<1>7. ASSUME NEW r \in Release, Conflict(c, r)
      PROVE  CreationInv' /\ RowsKept
  BY <1>7, <1>0, MoveKeeps DEF Conflict, Step, CreationTypeOK, tables
<1>8. ASSUME NEW r \in Release, CreateReleaseRequest(c, r)
      PROVE  CreationInv' /\ RowsKept
  BY <1>8, InsertKeeps
<1>9. CASE InsertRefused(c)
  BY <1>9, <1>0, MoveKeeps DEF InsertRefused, Step, CreationTypeOK, tables
<1>10. CASE CreatedEvent(c)
  <2>1. call[c] \in Call /\ version[c] \in Version /\ HasItem(c)
    BY <1>10 DEF CreatedEvent, Resolved, HasItem
  <2>2. AfterCreate(call[c].op) \in {"link", "op_event", "answered"}
    BY <2>1, AfterCreateType DEF Call
  <2>3. item[c] \in Release
    BY <2>1 DEF AnswerIsWhatWasAsked, Inserted
  <2>4. events' \subseteq Release \X {"release_created", "rollback_requested", "release_retried"}
    BY <1>10, <2>3 DEF CreatedEvent, WriteEvent, CreationTypeOK
  <2> QED
    BY <1>10, <1>0, <2>1, <2>2, <2>4, MoveKeeps DEF CreatedEvent, WriteEvent, Step
<1>11. CASE SetReleaseRollbackOf(c)
  <2>1. HasItem(c) /\ item[c] \in Inserted /\ call[c] \in Call
    BY <1>11 DEF SetReleaseRollbackOf, AnswerIsWhatWasAsked, HasItem, Resolved
  <2> DEFINE new == [row[item[c]] EXCEPT !.rollbackOf = call[c].original]
  <2>2. row[item[c]] \in Row
    BY <2>1 DEF Inserted, CreationTypeOK
  <2>3. new \in Row
    BY <2>1, <2>2 DEF Row, Call
  <2>4. /\ new.target = row[item[c]].target /\ new.version = row[item[c]].version
        /\ new.creator = row[item[c]].creator /\ new.key = row[item[c]].key
    BY <2>2 DEF Row
  <2>5. row' = [row EXCEPT ![item[c]] = new] /\ Touch(item[c])
    BY <1>11 DEF SetReleaseRollbackOf
  <2>6. /\ step' \in [Client -> Step]
        /\ \A d \in Client : step'[d] = step[d] \/ (step[d] = "link" /\ step'[d] = "op_event")
    BY <1>11 DEF SetReleaseRollbackOf, Goto, CreationTypeOK, Step
  <2>7. later' \subseteq Release \X Release /\ UNCHANGED <<events, call, version, item>>
    BY <1>11 DEF SetReleaseRollbackOf, CreationTypeOK
  <2> HIDE DEF new
  <2> QED
    BY <2>1, <2>3, <2>4, <2>5, <2>6, <2>7, UpdateKeeps
<1>12. CASE OperationEvent(c)
  <2>1. call[c] \in Call /\ version[c] \in Version /\ HasItem(c)
    BY <1>12 DEF OperationEvent, Resolved, HasItem
  <2>2. item[c] \in Release
    BY <2>1 DEF AnswerIsWhatWasAsked, Inserted
  <2>3. events' \subseteq Release \X {"release_created", "rollback_requested", "release_retried"}
    BY <1>12, <2>2 DEF OperationEvent, WriteEvent, CreationTypeOK
  <2> QED
    BY <1>12, <1>0, <2>1, <2>3, MoveKeeps DEF OperationEvent, WriteEvent, Step
<1>13. CASE GiveUp(c)
  <2>1. CreationTypeOK'
    BY <1>13 DEF GiveUp, CreationTypeOK, Goto, tables, Step
  <2>2. Resolved'
    BY <1>13 DEF GiveUp, Resolved, CreationTypeOK, Goto
  <2>3. OneReleasePerKey' /\ RowsKept
    BY <1>13, <1>0 DEF GiveUp, OneReleasePerKey, Inserted, tables
  <2>4. AnswerIsWhatWasAsked'
    BY <1>13 DEF GiveUp, AnswerIsWhatWasAsked, HasItem, Goto, Inserted, tables, CreationTypeOK
  <2> QED
    BY <2>1, <2>2, <2>3, <2>4
<1> QED
  BY <1>1, <1>2, <1>3, <1>4, <1>5, <1>6, <1>7, <1>8, <1>9, <1>10, <1>11, <1>12, <1>13 DEF Handle

\* So does the end of a release.
LEMMA ConcludeKeeps ==
  ASSUME CreationInv, NEW r \in Release, NEW result \in Ending, Conclude(r, result)
  PROVE  CreationInv' /\ RowsKept
<1> DEFINE new == [row[r] EXCEPT !.status = result]
<1>1. r \in Inserted /\ row[r] \in Row
  BY DEF CreationInv, CreationTypeOK, Conclude, Inserted
<1>2. new \in Row
  BY <1>1 DEF Row
<1>3. /\ new.target = row[r].target /\ new.version = row[r].version
      /\ new.creator = row[r].creator /\ new.key = row[r].key
  BY <1>1 DEF Row
<1>4. row' = [row EXCEPT ![r] = new] /\ Touch(r) /\ UNCHANGED <<events, step, call, version, item>>
  BY DEF Conclude, request
<1>5. step' \in [Client -> Step]
  BY <1>4 DEF CreationInv, CreationTypeOK
<1>6. later' \subseteq Release \X Release
  BY DEF Conclude, Deployed, Inserted, CreationInv, CreationTypeOK
<1> HIDE DEF new
<1> QED
  BY <1>1, <1>2, <1>3, <1>4, <1>5, <1>6, UpdateKeeps

\* The invariant holds of every reachable state.
THEOREM CreationInvariant == CreationSpec => []CreationInv
<1>1. CreationInit => CreationInv
  BY DEF CreationInit, CreationInv, CreationTypeOK, Resolved, OneReleasePerKey,
         AnswerIsWhatWasAsked, HasItem, Inserted, Step
<1>2. CreationInv /\ [CreationNext]_vars => CreationInv'
  <2> SUFFICES ASSUME CreationInv, [CreationNext]_vars
               PROVE  CreationInv'
    OBVIOUS
  <2>1. CASE UNCHANGED vars
    BY <2>1 DEF vars, CreationInv, CreationTypeOK, Resolved, OneReleasePerKey,
                AnswerIsWhatWasAsked, HasItem, Inserted
  <2>2. CASE CreationNext
    BY <2>2, HandleKeeps, ConcludeKeeps DEF CreationNext
  <2> QED
    BY <2>1, <2>2
<1> QED
  BY <1>1, <1>2, PTL DEF CreationSpec

\* However the requests with one key interleave, one release has it
\* (OneReleasePerKey): the lookup may miss, the unique index does not.
THEOREM KeyHasOneRelease == CreationSpec => []OneReleasePerKey
BY CreationInvariant, PTL DEF CreationInv

\* A request is given the release it asked for (AnswerIsWhatWasAsked), be it
\* its own insert or one that another request left under the key.
THEOREM AnswersMatch == CreationSpec => []AnswerIsWhatWasAsked
BY CreationInvariant, PTL DEF CreationInv

-----------------------------------------------------------------------------
(* The refinement of IdempotentKeys.                                       *)

\* A step that inserts nothing and keeps the rows leaves the keys bound as
\* they are.
LEMMA BindingStays ==
  ASSUME CreationInv, RowsKept, NEW k, WithKey(k)' = WithKey(k)
  PROVE  KeyBinding(k)' = KeyBinding(k)
<1>1. CASE WithKey(k) = {}
  BY <1>1 DEF KeyBinding
<1>2. CASE WithKey(k) # {}
  <2> DEFINE r == CHOOSE x \in WithKey(k) : TRUE
  <2>1. r \in Inserted
    BY <1>2 DEF WithKey
  <2>2. r' = r
    OBVIOUS
  <2> QED
    BY <1>2, <2>1, <2>2, ZenonT(60) DEF KeyBinding, RowsKept
<1> QED
  BY <1>1, <1>2

\* The binding of a key that has a release is that release with its content.
LEMMA BindingOfItem ==
  ASSUME CreationInv, NEW r \in Inserted, row[r].key \in Key
  PROVE  /\ KeyBinding(row[r].key) =
              [item |-> r, content |-> [target |-> row[r].target, version |-> row[r].version,
                                        creator |-> row[r].creator]]
         /\ KeyBinding(row[r].key) \in Keys!Binding
         /\ KeyBinding(row[r].key) # NoRelease
<1>1. WithKey(row[r].key) = {r}
  BY DEF CreationInv, OneReleasePerKey, WithKey
<1>2. row[r] \in Row /\ r \in Release
  BY DEF CreationInv, CreationTypeOK, Inserted
<1>3. KeyBinding(row[r].key) =
        [item |-> r, content |-> [target |-> row[r].target, version |-> row[r].version,
                                  creator |-> row[r].creator]]
  BY <1>1 DEF KeyBinding
<1>4. KeyBinding(row[r].key) \in Keys!Binding
  BY <1>2, <1>3 DEF Keys!Binding, Row
<1> QED
  BY <1>3, <1>4, BindingAssumption

\* The keys, as the abstract specification sees them.
bound == [k \in Key |-> KeyBinding(k)]
reply == [c \in Client |-> RequestAnswer(c)]

\* A step of one request that changes no row answers it with the binding of
\* its key, or withdraws its answer, or shows nothing.
LEMMA RequestShows ==
  ASSUME CreationInv, CreationInv', UNCHANGED row, NEW c \in Client,
         \A d \in Client \ {c} : /\ step'[d] = step[d] /\ call'[d] = call[d]
                                  /\ version'[d] = version[d] /\ item'[d] = item[d]
  PROVE  [Keys!KeysNext]_<<bound, reply>>
<1>1. bound' = bound
  <2>1. \A k \in Key : KeyBinding(k)' = KeyBinding(k)
    BY DEF KeyBinding, WithKey, Inserted
  <2> QED
    BY <2>1 DEF bound
<1>2. \A d \in Client \ {c} : RequestAnswer(d)' = RequestAnswer(d)
  BY DEF RequestAnswer
<1>3. reply' = [reply EXCEPT ![c] = RequestAnswer(c)']
  BY <1>2 DEF reply
<1>4. CASE step'[c] = "answered" /\ call'[c].key # NoKey
  <2> DEFINE k == call'[c].key
             r == item'[c]
  <2>1. call'[c] \in Call
    BY <1>4 DEF CreationInv, Resolved
  <2>2. k \in Key
    BY <1>4, <2>1 DEF Call
  <2>3. /\ r \in Inserted
        /\ row[r].target = call'[c].target /\ row[r].version = version'[c]
        /\ row[r].creator = call'[c].creator /\ row[r].key = k
    BY <1>4 DEF CreationInv, AnswerIsWhatWasAsked, HasItem, Inserted
  <2>4. KeyBinding(k) = [item |-> r, content |-> [target |-> call'[c].target, version |-> version'[c],
                                                  creator |-> call'[c].creator]]
        /\ KeyBinding(k) # NoRelease
    BY <2>2, <2>3, BindingOfItem
  <2>5. RequestAnswer(c)' = [key |-> k, item |-> KeyBinding(k).item, content |-> KeyBinding(k).content]
    BY <1>4, <2>4 DEF RequestAnswer
  <2>6. bound[k] = KeyBinding(k)
    BY <2>2 DEF bound
  <2>7. Keys!Reply(c)
    BY <1>1, <1>3, <2>2, <2>4, <2>5, <2>6, ZenonT(60) DEF Keys!Reply, bound, reply
  <2> QED
    BY <2>7 DEF Keys!KeysNext
<1>5. CASE ~(step'[c] = "answered" /\ call'[c].key # NoKey)
  <2>1. RequestAnswer(c)' = NoRelease
    BY <1>5 DEF RequestAnswer
  <2>2. Keys!CallAgain(c)
    BY <1>1, <1>3, <2>1 DEF Keys!CallAgain, bound, reply
  <2> QED
    BY <2>2 DEF Keys!KeysNext
<1> QED
  BY <1>4, <1>5

\* The insert binds its key, if it has one.
LEMMA InsertShows ==
  ASSUME CreationInv, NEW c \in Client, NEW r \in Release, CreateReleaseRequest(c, r)
  PROVE  [Keys!KeysNext]_<<bound, reply>>
<1>0. PICK key : key = call[c].key
  OBVIOUS
<1>1. CreationInv' /\ RowsKept
  BY InsertKeeps
<1>2. r \notin Inserted /\ r \in Inserted' /\ row'[r].key = key
  <2>1. HasItem(c)' /\ item'[c] = r /\ call' = call
    BY DEF CreateReleaseRequest, Goto, HasItem, CreationInv, CreationTypeOK
  <2>2. r \in Inserted' /\ row'[r].key = key
    BY <1>0, <1>1, <2>1 DEF CreationInv, AnswerIsWhatWasAsked
  <2> QED
    BY <2>2 DEF CreateReleaseRequest, Inserted
<1>3. \A s \in Inserted' : s \in Inserted \/ s = r
  BY DEF CreateReleaseRequest, Inserted, CreationInv, CreationTypeOK
<1>4. \A k : k # key => WithKey(k)' = WithKey(k)
  <2>1. ASSUME NEW k, k # key, NEW s
        PROVE  s \in WithKey(k)' <=> s \in WithKey(k)
    BY <1>1, <1>2, <1>3, <2>1 DEF WithKey, RowsKept
  <2> QED
    BY <2>1 DEF WithKey
<1>5. \A k : k # key => KeyBinding(k)' = KeyBinding(k)
  BY <1>1, <1>4, BindingStays
<1>6. reply' = reply
  <2>1. ASSUME NEW d \in Client
        PROVE  RequestAnswer(d)' = RequestAnswer(d)
    BY DEF CreateReleaseRequest, RequestAnswer, Goto, CreationInv, CreationTypeOK
  <2> QED
    BY <2>1 DEF reply
<1>7. CASE key \in Key
  <2>1. WithKey(key) = {}
    BY <1>0, <1>7, CreationAssumption DEF CreateReleaseRequest, KeyIsFree
  <2>2. KeyBinding(key) = NoRelease
    BY <2>1 DEF KeyBinding
  <2>3. KeyBinding(key)' = [item |-> r, content |-> [target |-> row'[r].target, version |-> row'[r].version,
                                                    creator |-> row'[r].creator]]
    <3>1. WithKey(key)' = {r}
      BY <1>1, <1>2, <1>7 DEF CreationInv, OneReleasePerKey, WithKey
    <3> QED
      BY <3>1 DEF KeyBinding
  <2>4. KeyBinding(key)' \in Keys!Binding
    <3>1. row'[r] \in Row
      BY <1>1, <1>2 DEF CreationInv, CreationTypeOK, Inserted
    <3> QED
      BY <2>3, <3>1 DEF Row, Keys!Binding
  <2>5. ASSUME NEW other \in Key, KeyBinding(other) # NoRelease
        PROVE  KeyBinding(other).item # r
    <3>1. WithKey(other) # {}
      BY <2>5 DEF KeyBinding
    <3>2. (CHOOSE x \in WithKey(other) : TRUE) \in Inserted
      BY <3>1 DEF WithKey
    <3> QED
      BY <1>2, <3>1, <3>2 DEF KeyBinding
  <2>6. bound' = [bound EXCEPT ![key] = KeyBinding(key)']
    BY <1>5 DEF bound
  <2>7. Keys!Bind(key)
    BY <1>6, <1>7, <2>2, <2>3, <2>4, <2>5, <2>6 DEF Keys!Bind, bound, reply
  <2> QED
    BY <1>7, <2>7 DEF Keys!KeysNext
<1>8. CASE key \notin Key
  <2>1. bound' = bound
    BY <1>5, <1>8 DEF bound
  <2> QED
    BY <1>6, <2>1
<1> QED
  BY <1>7, <1>8

\* An update that keeps what rows were inserted with, and answers nobody,
\* shows nothing.
LEMMA UpdateShows ==
  ASSUME CreationInv, RowsKept, Inserted' = Inserted, UNCHANGED <<call, version, item>>,
         \A c \in Client : step'[c] = step[c] \/ (step[c] = "link" /\ step'[c] = "op_event")
  PROVE  UNCHANGED <<bound, reply>>
<1>1. ASSUME NEW k \in Key
      PROVE  KeyBinding(k)' = KeyBinding(k)
  <2>1. WithKey(k)' = WithKey(k)
    BY DEF WithKey, RowsKept
  <2> QED
    BY <2>1, BindingStays
<1>2. ASSUME NEW c \in Client
      PROVE  RequestAnswer(c)' = RequestAnswer(c)
  BY DEF RequestAnswer
<1> QED
  BY <1>1, <1>2 DEF bound, reply

\* The update of the link changes nobody's answer.
LEMMA LinkShows ==
  ASSUME CreationInv, NEW c \in Client, SetReleaseRollbackOf(c)
  PROVE  UNCHANGED <<bound, reply>>
<1>1. RowsKept
  BY HandleKeeps DEF Handle
<1>2. HasItem(c) /\ item[c] \in Inserted /\ call[c] \in Call
  BY DEF SetReleaseRollbackOf, CreationInv, AnswerIsWhatWasAsked, HasItem, Resolved
<1>3. [row[item[c]] EXCEPT !.rollbackOf = call[c].original] \in Row
  BY <1>2 DEF CreationInv, CreationTypeOK, Inserted, Row, Call
<1>4. Inserted' = Inserted
  BY <1>2, <1>3, RowAssumption DEF SetReleaseRollbackOf, Inserted, CreationInv, CreationTypeOK
<1>5. \A d \in Client : step'[d] = step[d] \/ (step[d] = "link" /\ step'[d] = "op_event")
  BY DEF SetReleaseRollbackOf, Goto, CreationInv, CreationTypeOK
<1> QED
  BY <1>1, <1>4, <1>5, UpdateShows DEF SetReleaseRollbackOf

\* Nor does the end of a release.
LEMMA ConcludeShows ==
  ASSUME CreationInv, NEW r \in Release, NEW result \in Ending, Conclude(r, result)
  PROVE  UNCHANGED <<bound, reply>>
<1>1. RowsKept
  BY ConcludeKeeps
<1>2. [row[r] EXCEPT !.status = result] \in Row
  BY DEF Conclude, CreationInv, CreationTypeOK, Row
<1>3. Inserted' = Inserted
  BY <1>2, RowAssumption DEF Conclude, Inserted, CreationInv, CreationTypeOK
<1> QED
  BY <1>1, <1>3, UpdateShows DEF Conclude, request

\* Every step is one of the abstract keys, or shows nothing.
LEMMA StepShows ==
  ASSUME CreationInv, CreationInv', CreationNext
  PROVE  [Keys!KeysNext]_<<bound, reply>>
<1>1. ASSUME NEW c \in Client, Handle(c)
      PROVE  [Keys!KeysNext]_<<bound, reply>>
  <2>1. ASSUME NEW r \in Release, CreateReleaseRequest(c, r)
        PROVE  [Keys!KeysNext]_<<bound, reply>>
    BY <2>1, InsertShows
  <2>2. CASE SetReleaseRollbackOf(c)
    BY <2>2, LinkShows
  <2>3. ASSUME ~SetReleaseRollbackOf(c), \A r \in Release : ~CreateReleaseRequest(c, r)
        PROVE  /\ UNCHANGED row
               /\ \A d \in Client \ {c} : /\ step'[d] = step[d] /\ call'[d] = call[d]
                                         /\ version'[d] = version[d] /\ item'[d] = item[d]
    BY <1>1, <2>3 DEF Handle, CreateBegin, RollbackBegin, RetryBegin, Begin, RollbackChoose,
       LookupMisses, Replay, Conflict, InsertRefused, CreatedEvent, OperationEvent, WriteEvent,
       GiveUp, Goto, tables, CreationInv, CreationTypeOK
  <2> QED
    BY <2>1, <2>2, <2>3, RequestShows
<1>2. ASSUME NEW r \in Release, NEW result \in Ending, Conclude(r, result)
      PROVE  [Keys!KeysNext]_<<bound, reply>>
  BY <1>2, ConcludeShows
<1> QED
  BY <1>1, <1>2 DEF CreationNext

\* Creating releases implements IdempotentKeys (ImplementsIdempotentKeys): a
\* key is bound once, by the insert, and whoever is answered under it asked
\* for the content it is bound to and gets its release, in Create, in
\* CreateRollback and in Retry.
THEOREM CreationImplementsKeys == CreationSpec => ImplementsIdempotentKeys
<1>1. CreationInit => Keys!KeysInit
  BY DEF CreationInit, Keys!KeysInit, KeyBinding, WithKey, Inserted, RequestAnswer
<1>2. CreationInv /\ CreationInv' /\ [CreationNext]_vars => [Keys!KeysNext]_(Keys!keyVars)
  <2> SUFFICES ASSUME CreationInv, CreationInv', [CreationNext]_vars
               PROVE  [Keys!KeysNext]_(Keys!keyVars)
    OBVIOUS
  <2>1. CASE CreationNext
    BY <2>1, StepShows DEF Keys!keyVars, bound, reply
  <2>2. CASE UNCHANGED vars
    BY <2>2 DEF vars, Keys!keyVars, KeyBinding, WithKey, Inserted, RequestAnswer
  <2> QED
    BY <2>1, <2>2
<1> QED
  BY <1>1, <1>2, CreationInvariant, PTL DEF CreationSpec, ImplementsIdempotentKeys, Keys!KeysSpec

\* Rows, events and requests keep their types (CreationTypeOK).
THEOREM CreationTypeCorrect == CreationSpec => []CreationTypeOK
<1>1. CreationInv => CreationTypeOK
  BY DEF CreationInv
<1> QED
  BY <1>1, CreationInvariant, PTL

-----------------------------------------------------------------------------
(* The history: what a rollback is linked to, and what the audit trail     *)
(* says of rollbacks and retries.                                          *)

\* What a request knows of the release it rolls back or retries, and of the
\* one it was given, when it comes to use them.
CallFits(c) ==
  /\ call[c].op \in {"rollback", "retry"} =>
       call[c].original \in Inserted /\ row[call[c].original].target = call[c].target
  /\ call[c].op = "retry" =>
       row[call[c].original].status = "failed" /\ row[call[c].original].version = version[c]
  /\ step[c] \in {"choose", "link"} => call[c].op = "rollback"
  /\ step[c] = "op_event" => call[c].op \in {"rollback", "retry"}
  /\ step[c] = "op_event" /\ call[c].op = "rollback" => row[item[c]].rollbackOf # NoRelease

EventsAreOfRows == \A r \in Release, e \in {"rollback_requested", "release_retried"} :
  <<r, e>> \in events => r \in Inserted

AuditInv == EventsAreOfRows /\ AuditedRollbackIsLinked /\ RetryFollowsFailure

HistoryInv == (\A c \in Client : CallFits(c)) /\ LinkedOnItsTarget /\ AuditInv

\* Rows keep what they were inserted with, how they ended, and that they are
\* linked.
HistoryKept ==
  /\ RowsKept
  /\ \A r \in Inserted :
       /\ row[r].status # "pending" => row'[r].status = row[r].status
       /\ row[r].rollbackOf # NoRelease => row'[r].rollbackOf # NoRelease

-----------------------------------------------------------------------------

\* A request that is not at a step that uses what it knows, or was there
\* before, still knows it.
LEMMA CallKept ==
  ASSUME HistoryKept, AnswerIsWhatWasAsked, NEW c \in Client, CallFits(c),
         call'[c] = call[c], version'[c] = version[c],
         \/ step'[c] \notin {"choose", "link", "op_event"}
         \/ step'[c] = step[c] /\ item'[c] = item[c]
  PROVE  CallFits(c)'
<1>2. call[c].op \in {"rollback", "retry"} =>
        /\ call[c].original \in Inserted'
        /\ row'[call[c].original].target = call[c].target
  BY DEF CallFits, HistoryKept, RowsKept
<1>3. call[c].op = "retry" =>
        row'[call[c].original].status = "failed" /\ row'[call[c].original].version = version[c]
  BY DEF CallFits, HistoryKept, RowsKept
<1>4. step'[c] = "op_event" /\ call[c].op = "rollback" => row'[item'[c]].rollbackOf # NoRelease
  <2> SUFFICES ASSUME step'[c] = "op_event", call[c].op = "rollback"
               PROVE  row'[item'[c]].rollbackOf # NoRelease
    OBVIOUS
  <2>1. step[c] = "op_event" /\ item'[c] = item[c]
    OBVIOUS
  <2>2. item[c] \in Inserted /\ row[item[c]].rollbackOf # NoRelease
    BY <2>1 DEF CallFits, AnswerIsWhatWasAsked, HasItem
  <2> QED
    BY <2>1, <2>2 DEF HistoryKept
<1>5. (step'[c] \in {"choose", "link"} => call[c].op = "rollback")
      /\ (step'[c] = "op_event" => call[c].op \in {"rollback", "retry"})
  BY DEF CallFits
<1> QED
  BY <1>2, <1>3, <1>4, <1>5 DEF CallFits

\* Without a new event the audit trail stays true.
LEMMA AuditKept ==
  ASSUME HistoryKept, AuditInv, events' \cap (Release \X {"rollback_requested", "release_retried"})
                                  \subseteq events
  PROVE  AuditInv'
<1>1. \A r \in Inserted', e \in {"rollback_requested", "release_retried"} :
        <<r, e>> \in events' => <<r, e>> \in events /\ r \in Inserted
  BY DEF AuditInv, EventsAreOfRows, Inserted
<1>2. EventsAreOfRows'
  BY DEF AuditInv, EventsAreOfRows, HistoryKept, RowsKept
<1>3. AuditedRollbackIsLinked'
  BY <1>1 DEF AuditInv, AuditedRollbackIsLinked, HistoryKept
<1>4. RetryFollowsFailure'
  <2> SUFFICES ASSUME NEW r \in Inserted', <<r, "release_retried">> \in events'
               PROVE  \E o \in Inserted' : /\ row'[o].status = "failed"
                                           /\ row'[o].version = row'[r].version
                                           /\ row'[o].target = row'[r].target
    BY DEF RetryFollowsFailure
  <2>1. PICK o \in Inserted : /\ row[o].status = "failed"
                              /\ row[o].version = row[r].version
                              /\ row[o].target = row[r].target
    BY <1>1 DEF AuditInv, RetryFollowsFailure
  <2> QED
    BY <1>1, <2>1 DEF HistoryKept, RowsKept
<1> QED
  BY <1>2, <1>3, <1>4 DEF AuditInv

\* Links that are neither made nor changed stay right.
LEMMA LinksKept ==
  ASSUME HistoryKept, LinkedOnItsTarget,
         \A r \in Inserted' : row'[r].rollbackOf # NoRelease =>
           r \in Inserted /\ row[r].rollbackOf = row'[r].rollbackOf
  PROVE  LinkedOnItsTarget'
BY DEF HistoryKept, RowsKept, LinkedOnItsTarget

\* A step that writes no row.
LEMMA SameRows ==
  ASSUME UNCHANGED row
  PROVE  /\ HistoryKept
         /\ LinkedOnItsTarget => LinkedOnItsTarget'
<1>1. Inserted' = Inserted
  BY DEF Inserted
<1> QED
  BY <1>1 DEF HistoryKept, RowsKept, LinkedOnItsTarget

-----------------------------------------------------------------------------

\* The other requests are where they were.
LEMMA OthersFit ==
  ASSUME CreationInv, HistoryInv, HistoryKept, NEW c \in Client, NEW s, Goto(c, s),
         \A d \in Client \ {c} : call'[d] = call[d] /\ version'[d] = version[d] /\ item'[d] = item[d],
         CallFits(c)'
  PROVE  \A d \in Client : CallFits(d)'
<1> SUFFICES ASSUME NEW d \in Client \ {c}
             PROVE  CallFits(d)'
  OBVIOUS
<1>1. step'[d] = step[d]
  BY DEF Goto, CreationInv, CreationTypeOK
<1> QED
  BY <1>1, CallKept DEF HistoryInv, CreationInv

\* A new request knows what its handler has read.
LEMMA BeginFits ==
  ASSUME CreationInv, HistoryInv, NEW c \in Client, NEW asked \in Call,
         NEW resolved \in Version \cup {NoVersion}, Begin(c, asked, resolved),
         asked.op \in {"rollback", "retry"} =>
           asked.original \in Inserted /\ row[asked.original].target = asked.target,
         asked.op = "retry" =>
           row[asked.original].status = "failed" /\ row[asked.original].version = resolved,
         resolved = NoVersion => asked.op = "rollback"
  PROVE  HistoryInv'
<1> USE DEF CreationInv
<1>1. UNCHANGED row /\ UNCHANGED events
  BY DEF Begin, tables
<1>2. call'[c] = asked /\ version'[c] = resolved /\ step'[c] \in {"choose", "lookup"}
      /\ (step'[c] = "choose" => resolved = NoVersion)
  BY DEF Begin, Goto, CreationTypeOK
<1>3. CallFits(c)'
  BY <1>1, <1>2 DEF CallFits, Inserted
<1>4. \A d \in Client \ {c} : call'[d] = call[d] /\ version'[d] = version[d] /\ item'[d] = item[d]
  BY DEF Begin, CreationTypeOK
<1>5. \A d \in Client : CallFits(d)'
  BY <1>1, <1>3, <1>4, SameRows, OthersFit DEF Begin
<1>6. AuditInv'
  BY <1>1, SameRows, AuditKept DEF HistoryInv
<1> QED
  BY <1>1, <1>5, <1>6, SameRows DEF HistoryInv

-----------------------------------------------------------------------------

\* A request moves on and writes nothing that the history knows.
LEMMA MoveFits ==
  ASSUME CreationInv, HistoryInv, NEW c \in Client, NEW s \in Step, Goto(c, s),
         UNCHANGED <<row, call, version>>,
         \A d \in Client \ {c} : item'[d] = item[d],
         events' \cap (Release \X {"rollback_requested", "release_retried"}) \subseteq events,
         s \in {"choose", "link", "op_event"} =>
           CallFits(c)'
  PROVE  HistoryInv'
<1> USE DEF CreationInv
<1>1. HistoryKept /\ LinkedOnItsTarget'
  BY SameRows DEF HistoryInv
<1>2. step'[c] = s
  BY DEF Goto, CreationTypeOK
<1>3. CallFits(c)'
  BY <1>1, <1>2, CallKept DEF HistoryInv
<1>4. \A d \in Client : CallFits(d)'
  BY <1>1, <1>3, OthersFit
<1>5. AuditInv'
  BY <1>1, AuditKept DEF HistoryInv
<1> QED
  BY <1>1, <1>4, <1>5 DEF HistoryInv

\* After the answer of Create a rollback links it and a retry is audited.
LEMMA AfterCreateFits ==
  ASSUME CreationInv, HistoryInv, NEW c \in Client, call[c] \in Call,
         UNCHANGED <<row, call, version>>, step'[c] = AfterCreate(call[c].op)
  PROVE  CallFits(c)'
<1>1. \/ call[c].op = "create" /\ step'[c] = "answered"
      \/ call[c].op = "rollback" /\ step'[c] = "link"
      \/ call[c].op = "retry" /\ step'[c] = "op_event"
  BY DEF AfterCreate, Call, Operation
<1> QED
  BY <1>1 DEF HistoryInv, CallFits, Inserted

\* A rollback without a version chooses one: it is not a retry.
LEMMA ChooseFits ==
  ASSUME CreationInv, HistoryInv, NEW c \in Client, NEW r \in Release, RollbackChoose(c, r)
  PROVE  HistoryInv'
<1> USE DEF CreationInv
<1>1. UNCHANGED <<row, events, call, item>>
  BY DEF RollbackChoose, tables
<1>2. HistoryKept /\ LinkedOnItsTarget'
  BY <1>1, SameRows DEF HistoryInv
<1>3. call[c].op = "rollback" /\ row[call[c].original].target = call[c].target
      /\ call[c].original \in Inserted
  BY DEF RollbackChoose, HistoryInv, CallFits
<1>4. step'[c] = "lookup"
  BY DEF RollbackChoose, Goto, CreationTypeOK
<1>5. CallFits(c)'
  BY <1>1, <1>3, <1>4 DEF CallFits, Inserted
<1>6. \A d \in Client \ {c} : version'[d] = version[d]
  BY DEF RollbackChoose, CreationTypeOK
<1>7. \A d \in Client : CallFits(d)'
  BY <1>1, <1>2, <1>5, <1>6, OthersFit DEF RollbackChoose
<1>8. AuditInv'
  BY <1>1, <1>2, AuditKept DEF HistoryInv
<1> QED
  BY <1>2, <1>7, <1>8 DEF HistoryInv

\* A new release is not linked and has no event.
LEMMA InsertFits ==
  ASSUME CreationInv, HistoryInv, NEW c \in Client, NEW r \in Release, CreateReleaseRequest(c, r)
  PROVE  HistoryInv'
<1> DEFINE new == [target |-> call[c].target, version |-> version[c], key |-> call[c].key,
                   creator |-> call[c].creator, named |-> call[c].version, op |-> call[c].op,
                   rollbackOf |-> NoRelease, status |-> "pending"]
<1> USE DEF CreationInv
<1>1. row' = [row EXCEPT ![r] = new] /\ r \notin Inserted
  BY DEF CreateReleaseRequest, Inserted
<1>2. new.rollbackOf = NoRelease
  OBVIOUS
<1> HIDE DEF new
<1>3. row'[r] = new /\ \A q \in Release \ {r} : row'[q] = row[q]
  BY <1>1 DEF CreationTypeOK
<1>4. HistoryKept
  BY <1>1, <1>3, InsertKeeps DEF HistoryKept, Inserted
<1>5. LinkedOnItsTarget'
  BY <1>2, <1>3, <1>4, LinksKept DEF HistoryInv, Inserted
<1>6. UNCHANGED <<events, call, version>> /\ step'[c] = "created_event"
      /\ \A d \in Client \ {c} : item'[d] = item[d]
  BY DEF CreateReleaseRequest, Goto, CreationTypeOK
<1>7. CallFits(c)'
  BY <1>4, <1>6, CallKept DEF HistoryInv
<1>8. \A d \in Client : CallFits(d)'
  BY <1>4, <1>6, <1>7, OthersFit DEF CreateReleaseRequest
<1>9. AuditInv'
  BY <1>4, <1>6, AuditKept DEF HistoryInv
<1> QED
  BY <1>5, <1>8, <1>9 DEF HistoryInv

\* The link leads to a release with the target of the one that is linked.
LEMMA LinkFits ==
  ASSUME CreationInv, HistoryInv, NEW c \in Client, SetReleaseRollbackOf(c)
  PROVE  HistoryInv'
<1> USE DEF CreationInv
<1>1. /\ item[c] \in Inserted /\ row[item[c]].target = call[c].target
      /\ row[item[c]] \in Row
  BY DEF SetReleaseRollbackOf, AnswerIsWhatWasAsked, HasItem, CreationTypeOK, Inserted
<1>2. /\ call[c].op = "rollback" /\ call[c].original \in Inserted
      /\ row[call[c].original].target = call[c].target
  BY DEF SetReleaseRollbackOf, HistoryInv, CallFits
<1>3. call[c].original # NoRelease
  BY <1>2, CreationAssumption DEF Inserted
<1> DEFINE new == [row[item[c]] EXCEPT !.rollbackOf = call[c].original]
<1>4. row' = [row EXCEPT ![item[c]] = new]
  BY DEF SetReleaseRollbackOf
<1>5. /\ new.status = row[item[c]].status /\ new.rollbackOf = call[c].original
      /\ new.target = row[item[c]].target
  BY <1>1 DEF Row
<1> HIDE DEF new
<1>6. row'[item[c]] = new /\ \A q \in Release \ {item[c]} : row'[q] = row[q]
  BY <1>1, <1>4 DEF CreationTypeOK, Inserted
<1>7. RowsKept
  BY HandleKeeps DEF Handle
<1>8. HistoryKept
  BY <1>3, <1>5, <1>6, <1>7 DEF HistoryKept, Inserted
<1>9. Inserted' \subseteq Inserted
  BY <1>1, <1>6 DEF Inserted
<1>10. LinkedOnItsTarget'
  <2> SUFFICES ASSUME NEW r \in Inserted', row'[r].rollbackOf # NoRelease
               PROVE  /\ row'[r].rollbackOf \in Inserted'
                      /\ row'[row'[r].rollbackOf].target = row'[r].target
    BY DEF LinkedOnItsTarget
  <2>1. r \in Inserted
    BY <1>9
  <2>2. CASE r = item[c]
    BY <1>1, <1>2, <1>5, <1>6, <1>7, <2>2 DEF RowsKept
  <2>3. CASE r # item[c]
    <3>1. row'[r] = row[r]
      BY <1>6, <2>1, <2>3 DEF Inserted
    <3>2. row[r].rollbackOf \in Inserted /\ row[row[r].rollbackOf].target = row[r].target
      BY <2>1, <3>1 DEF HistoryInv, LinkedOnItsTarget
    <3> QED
      BY <1>7, <2>1, <3>1, <3>2 DEF RowsKept
  <2> QED
    BY <2>2, <2>3
<1>11. UNCHANGED <<events, call, version, item>> /\ step'[c] = "op_event"
  BY DEF SetReleaseRollbackOf, Goto, CreationTypeOK
<1>12. CallFits(c)'
  <2>1. row'[item'[c]].rollbackOf # NoRelease
    BY <1>3, <1>5, <1>6, <1>11
  <2>2. call[c].original \in Inserted' /\ row'[call[c].original].target = call[c].target
    BY <1>2, <1>7 DEF RowsKept
  <2> QED
    BY <1>2, <1>11, <2>1, <2>2 DEF CallFits
<1>13. \A d \in Client : CallFits(d)'
  BY <1>8, <1>11, <1>12, OthersFit DEF SetReleaseRollbackOf
<1>14. AuditInv'
  BY <1>8, <1>11, AuditKept DEF HistoryInv
<1> QED
  BY <1>10, <1>13, <1>14 DEF HistoryInv

\* The event of a rollback is about a linked release, that of a retry about
\* one that repeats a failed release.
LEMMA OperationEventFits ==
  ASSUME CreationInv, HistoryInv, NEW c \in Client, OperationEvent(c)
  PROVE  HistoryInv'
<1> USE DEF CreationInv
<1>1. UNCHANGED <<row, call, version, item>> /\ Goto(c, "answered")
  BY DEF OperationEvent, WriteEvent
<1>2. HistoryKept /\ LinkedOnItsTarget' /\ Inserted' = Inserted
  BY <1>1, SameRows DEF HistoryInv, Inserted
<1>3. step'[c] = "answered"
  BY <1>1 DEF Goto, CreationTypeOK
<1>4. CallFits(c)'
  BY <1>1, <1>2, <1>3, CallKept DEF HistoryInv
<1>5. \A d \in Client : CallFits(d)'
  BY <1>1, <1>2, <1>4, OthersFit
<1>6. /\ item[c] \in Inserted
      /\ row[item[c]].target = call[c].target /\ row[item[c]].version = version[c]
  BY DEF OperationEvent, AnswerIsWhatWasAsked, HasItem
<1>7. call[c].op \in {"rollback", "retry"}
  BY DEF OperationEvent, HistoryInv, CallFits
<1>8. CASE call[c].op = "rollback"
  <2>1. events' \subseteq events \cup {<<item[c], "rollback_requested">>}
    BY <1>8 DEF OperationEvent, WriteEvent
  <2>2. row[item[c]].rollbackOf # NoRelease
    BY <1>8 DEF OperationEvent, HistoryInv, CallFits
  <2>3. \A r \in Release : <<r, "release_retried">> \in events' => <<r, "release_retried">> \in events
    BY <2>1
  <2>4. \A r \in Release : <<r, "rollback_requested">> \in events' =>
           <<r, "rollback_requested">> \in events \/ r = item[c]
    BY <2>1
  <2>5. AuditInv'
    BY <1>1, <1>2, <1>6, <2>2, <2>3, <2>4
       DEF HistoryInv, AuditInv, EventsAreOfRows, AuditedRollbackIsLinked, RetryFollowsFailure, Inserted
  <2> QED
    BY <1>2, <1>5, <2>5 DEF HistoryInv
<1>9. CASE call[c].op = "retry"
  <2>1. events' \subseteq events \cup {<<item[c], "release_retried">>}
    BY <1>9 DEF OperationEvent, WriteEvent
  <2>2. /\ call[c].original \in Inserted /\ row[call[c].original].status = "failed"
        /\ row[call[c].original].version = row[item[c]].version
        /\ row[call[c].original].target = row[item[c]].target
    BY <1>6, <1>9 DEF HistoryInv, CallFits
  <2>3. \A r \in Release : <<r, "rollback_requested">> \in events' => <<r, "rollback_requested">> \in events
    BY <2>1
  <2>4. \A r \in Release : <<r, "release_retried">> \in events' =>
           <<r, "release_retried">> \in events \/ r = item[c]
    BY <2>1
  <2>5. EventsAreOfRows' /\ AuditedRollbackIsLinked'
    BY <1>1, <1>2, <1>6, <2>3, <2>4
       DEF HistoryInv, AuditInv, EventsAreOfRows, AuditedRollbackIsLinked, Inserted
  <2>6. RetryFollowsFailure'
    BY <1>1, <1>2, <2>2, <2>4 DEF HistoryInv, AuditInv, RetryFollowsFailure, Inserted
  <2> QED
    BY <1>2, <1>5, <2>5, <2>6 DEF HistoryInv, AuditInv
<1> QED
  BY <1>7, <1>8, <1>9

-----------------------------------------------------------------------------

\* Every step of a request keeps the history.
LEMMA HandleFits ==
  ASSUME CreationInv, HistoryInv, NEW c \in Client, Handle(c)
  PROVE  HistoryInv'
<1> USE DEF CreationInv
<1>1. ASSUME NEW t \in Target, NEW v \in Version, NEW k \in Key \cup {NoKey}, NEW u \in Creator,
             CreateBegin(c, t, v, k, u)
      PROVE  HistoryInv'
  <2> DEFINE asked == [op |-> "create", original |-> NoRelease, version |-> v,
                       target |-> t, key |-> k, creator |-> u]
  <2>1. asked \in Call /\ Begin(c, asked, v)
    BY <1>1 DEF CreateBegin, Call, Operation
  <2> QED
    BY <2>1, CreationAssumption, BeginFits
<1>2. ASSUME NEW o \in Release, NEW v \in Version \cup {NoVersion}, NEW k \in Key \cup {NoKey},
             NEW u \in Creator, RollbackBegin(c, o, v, k, u)
      PROVE  HistoryInv'
  <2> DEFINE asked == [op |-> "rollback", original |-> o, version |-> v,
                       target |-> row[o].target, key |-> k, creator |-> u]
  <2>1. o \in Inserted /\ row[o].target \in Target
    BY <1>2 DEF RollbackBegin, CreationTypeOK, Row, Inserted
  <2>2. asked \in Call /\ Begin(c, asked, v)
    BY <2>1, <1>2 DEF RollbackBegin, Call, Operation
  <2> QED
    BY <2>1, <2>2, BeginFits
<1>3. ASSUME NEW o \in Release, NEW k \in Key \cup {NoKey}, NEW u \in Creator, RetryBegin(c, o, k, u)
      PROVE  HistoryInv'
  <2> DEFINE asked == [op |-> "retry", original |-> o, version |-> row[o].version,
                       target |-> row[o].target, key |-> k, creator |-> u]
  <2>1. o \in Inserted /\ row[o].target \in Target /\ row[o].version \in Version
        /\ row[o].status = "failed"
    BY <1>3 DEF RetryBegin, MayRetry, CreationTypeOK, Row, Inserted
  <2>2. asked \in Call /\ Begin(c, asked, row[o].version)
    BY <2>1, <1>3 DEF RetryBegin, Call, Operation
  <2> QED
    BY <2>1, <2>2, CreationAssumption, BeginFits
<1>4. ASSUME NEW r \in Release, RollbackChoose(c, r)
      PROVE  HistoryInv'
  BY <1>4, ChooseFits
<1>5. CASE LookupMisses(c)
  BY <1>5, MoveFits DEF LookupMisses, Step, tables
<1>6. ASSUME NEW r \in Release, Replay(c, r)
      PROVE  HistoryInv'
  <2>1. call[c] \in Call
    BY <1>6 DEF Replay, Resolved
  <2>2. AfterCreate(call[c].op) \in Step
    BY <2>1, AfterCreateType DEF Call, Step
  <2>3. step'[c] = AfterCreate(call[c].op) /\ \A d \in Client \ {c} : item'[d] = item[d]
    BY <1>6 DEF Replay, Goto, CreationTypeOK
  <2>4. CallFits(c)'
    BY <1>6, <2>1, <2>3, AfterCreateFits DEF Replay, tables
  <2> QED
    BY <1>6, <2>2, <2>3, <2>4, MoveFits DEF Replay, tables
<1>7. ASSUME NEW r \in Release, Conflict(c, r)
      PROVE  HistoryInv'
  BY <1>7, MoveFits DEF Conflict, Step, tables
<1>8. ASSUME NEW r \in Release, CreateReleaseRequest(c, r)
      PROVE  HistoryInv'
  BY <1>8, InsertFits
<1>9. CASE InsertRefused(c)
  BY <1>9, MoveFits DEF InsertRefused, Step, tables
<1>10. CASE CreatedEvent(c)
  <2>1. call[c] \in Call
    BY <1>10 DEF CreatedEvent, Resolved
  <2>2. AfterCreate(call[c].op) \in Step
    BY <2>1, AfterCreateType DEF Call, Step
  <2>3. UNCHANGED <<row, call, version, item>> /\ step'[c] = AfterCreate(call[c].op)
    BY <1>10 DEF CreatedEvent, WriteEvent, Goto, CreationTypeOK
  <2>4. CallFits(c)'
    BY <2>1, <2>3, AfterCreateFits
  <2>5. events' \cap (Release \X {"rollback_requested", "release_retried"}) \subseteq events
    BY <1>10 DEF CreatedEvent, WriteEvent
  <2> QED
    BY <1>10, <2>2, <2>3, <2>4, <2>5, MoveFits DEF CreatedEvent
<1>11. CASE SetReleaseRollbackOf(c)
  BY <1>11, LinkFits
<1>12. CASE OperationEvent(c)
  BY <1>12, OperationEventFits
<1>13. CASE GiveUp(c)
  <2>1. UNCHANGED <<row, events>>
    BY <1>13 DEF GiveUp, tables
  <2>2. call'[c] = NoCall /\ step'[c] = "idle"
        /\ \A d \in Client \ {c} : call'[d] = call[d] /\ version'[d] = version[d] /\ item'[d] = item[d]
    BY <1>13 DEF GiveUp, Goto, CreationTypeOK
  <2>3. CallFits(c)'
    BY <2>2 DEF CallFits, NoCall
  <2>4. \A d \in Client : CallFits(d)'
    BY <1>13, <2>1, <2>2, <2>3, SameRows, OthersFit DEF GiveUp
  <2>5. AuditInv'
    BY <2>1, SameRows, AuditKept DEF HistoryInv
  <2> QED
    BY <2>1, <2>4, <2>5, SameRows DEF HistoryInv
<1> QED
  BY <1>1, <1>2, <1>3, <1>4, <1>5, <1>6, <1>7, <1>8, <1>9, <1>10, <1>11, <1>12, <1>13 DEF Handle

\* So does the end of a release: a status that is final is not written again.
LEMMA ConcludeFits ==
  ASSUME CreationInv, HistoryInv, NEW r \in Release, NEW result \in Ending, Conclude(r, result)
  PROVE  HistoryInv'
<1> USE DEF CreationInv
<1>1. r \in Inserted /\ row[r] \in Row
  BY DEF CreationTypeOK, Conclude, Inserted
<1> DEFINE new == [row[r] EXCEPT !.status = result]
<1>2. new.rollbackOf = row[r].rollbackOf
  BY <1>1 DEF Row
<1>3. row' = [row EXCEPT ![r] = new] /\ UNCHANGED <<events, step, call, version, item>>
  BY DEF Conclude, request
<1> HIDE DEF new
<1>4. row'[r] = new /\ \A q \in Release \ {r} : row'[q] = row[q]
  BY <1>1, <1>3 DEF CreationTypeOK, Inserted
<1>5. HistoryKept
  BY <1>2, <1>4, ConcludeKeeps DEF HistoryKept, Conclude, Inserted
<1>6. LinkedOnItsTarget'
  BY <1>1, <1>2, <1>4, <1>5, LinksKept DEF HistoryInv, Inserted
<1>7. \A c \in Client : CallFits(c)'
  BY <1>3, <1>5, CallKept DEF HistoryInv
<1>8. AuditInv'
  BY <1>3, <1>5, AuditKept DEF HistoryInv
<1> QED
  BY <1>6, <1>7, <1>8 DEF HistoryInv

\* The history holds of every reachable state.
THEOREM HistoryHolds == CreationSpec => []HistoryInv
<1>1. CreationInit => HistoryInv
  BY DEF CreationInit, HistoryInv, CallFits, NoCall, LinkedOnItsTarget, AuditInv, EventsAreOfRows,
         AuditedRollbackIsLinked, RetryFollowsFailure, Inserted
<1>2. CreationInv /\ HistoryInv /\ [CreationNext]_vars => HistoryInv'
  <2> SUFFICES ASSUME CreationInv, HistoryInv, [CreationNext]_vars
               PROVE  HistoryInv'
    OBVIOUS
  <2>1. CASE UNCHANGED vars
    <3>1. UNCHANGED <<row, events, step, call, version, item>>
      BY <2>1 DEF vars
    <3>2. \A c \in Client : CallFits(c)'
      BY <3>1, SameRows, CallKept DEF HistoryInv, CreationInv
    <3> QED
      BY <3>1, <3>2, SameRows, AuditKept DEF HistoryInv
  <2>2. CASE CreationNext
    BY <2>2, HandleFits, ConcludeFits DEF CreationNext
  <2> QED
    BY <2>1, <2>2
<1> QED
  BY <1>1, <1>2, CreationInvariant, PTL DEF CreationSpec

\* A release is linked to one with its own target (LinkedOnItsTarget),
\* although SetReleaseRollbackOf writes to whatever release Create answered.
THEOREM LinksAreRight == CreationSpec => []LinkedOnItsTarget
BY HistoryHolds, PTL DEF HistoryInv

\* rollback_requested is said of linked releases only
\* (AuditedRollbackIsLinked): no link is ever taken away.
THEOREM AuditedAreLinked == CreationSpec => []AuditedRollbackIsLinked
BY HistoryHolds, PTL DEF HistoryInv, AuditInv

\* release_retried is said of releases that repeat a failed one
\* (RetryFollowsFailure), whatever happens between the check and the event.
THEOREM RetriesFollowFailures == CreationSpec => []RetryFollowsFailure
BY HistoryHolds, PTL DEF HistoryInv, AuditInv

-----------------------------------------------------------------------------
(* The order: what a rollback that names no version goes to.               *)

\* The order of updated_at is one, and of two releases that ended well the
\* one that ended later, or was linked later, is the newer.
OrderInv ==
  /\ \A r, q \in Release : <<r, q>> \in newer => <<q, r>> \notin newer
  /\ \A r, q \in Release : <<r, q>> \in later =>
       /\ <<r, q>> \in newer
       /\ r \in Inserted /\ q \in Inserted
       /\ row[r].status # "pending" /\ row[q].status # "pending"

\* What Touch does to a pair.
LEMMA Touched ==
  ASSUME NEW r \in Release, Touch(r), NEW p \in Release, NEW q \in Release
  PROVE  <<p, q>> \in newer' <=> \/ <<p, q>> \in newer /\ r # p /\ r # q
                                 \/ p = r /\ q \in Inserted /\ q # r
BY DEF Touch, Inserted

\* A touched release is newer than all others, and no other pair changes.
LEMMA TouchOrders ==
  ASSUME OrderInv, NEW r \in Release, Touch(r)
  PROVE  \A p, q \in Release : <<p, q>> \in newer' => <<q, p>> \notin newer'
BY Touched DEF OrderInv

\* A step that writes neither rows nor the order.
LEMMA SameOrder ==
  ASSUME OrderInv, UNCHANGED <<row, newer, later>>
  PROVE  OrderInv'
BY DEF OrderInv, Inserted

\* A new release has not ended.
LEMMA InsertOrders ==
  ASSUME CreationInv, OrderInv, NEW c \in Client, NEW r \in Release, CreateReleaseRequest(c, r)
  PROVE  OrderInv'
<1>1. Touch(r) /\ later' = later /\ r \notin Inserted
  BY DEF CreateReleaseRequest, Inserted
<1>2. \A q \in Inserted : q \in Inserted' /\ row'[q] = row[q]
  BY DEF CreateReleaseRequest, Inserted, CreationInv, CreationTypeOK
<1>3. \A p, q \in Release : <<p, q>> \in later' => <<p, q>> \in newer'
  BY <1>1, Touched DEF OrderInv
<1> QED
  BY <1>1, <1>2, <1>3, TouchOrders DEF OrderInv

\* The link takes the pairs with what it touches from the history, or makes
\* it the newer one.
LEMMA LinkOrders ==
  ASSUME CreationInv, OrderInv, NEW c \in Client, SetReleaseRollbackOf(c)
  PROVE  OrderInv'
<1>1. item[c] \in Inserted /\ row[item[c]] \in Row
  BY DEF SetReleaseRollbackOf, CreationInv, AnswerIsWhatWasAsked, HasItem, CreationTypeOK, Inserted
<1>2. item[c] \in Release
  BY <1>1 DEF Inserted
<1> DEFINE new == [row[item[c]] EXCEPT !.rollbackOf = call[c].original]
<1>3. row' = [row EXCEPT ![item[c]] = new] /\ Touch(item[c])
      /\ later' = {p \in later : p[2] # item[c]}
  BY DEF SetReleaseRollbackOf
<1>4. new.status = row[item[c]].status
  BY <1>1 DEF Row
<1> HIDE DEF new
<1>5. row'[item[c]] = new /\ \A q \in Release \ {item[c]} : row'[q] = row[q]
  BY <1>2, <1>3 DEF CreationInv, CreationTypeOK
<1>6. RowsKept
  BY HandleKeeps DEF Handle
<1>7. \A q \in Inserted : q \in Inserted' /\ row'[q].status = row[q].status
  BY <1>4, <1>5, <1>6 DEF RowsKept, Inserted
<1>8. \A p, q \in Release : <<p, q>> \in later' => <<p, q>> \in later /\ q # item[c]
  BY <1>3
<1>9. \A p, q \in Release : <<p, q>> \in later' => <<p, q>> \in newer'
  BY <1>2, <1>3, <1>8, Touched DEF OrderInv
<1> QED
  BY <1>2, <1>3, <1>7, <1>8, <1>9, TouchOrders DEF OrderInv

\* A release that ends well is the last one that did, and the newest.
LEMMA ConcludeOrders ==
  ASSUME CreationInv, OrderInv, NEW r \in Release, NEW result \in Ending, Conclude(r, result)
  PROVE  OrderInv'
<1>1. r \in Inserted /\ row[r] \in Row /\ row[r].status = "pending"
  BY DEF CreationInv, CreationTypeOK, Conclude, Inserted
<1> DEFINE new == [row[r] EXCEPT !.status = result]
<1>2. new.status = result /\ result # "pending"
  BY <1>1, CreationAssumption DEF Row
<1>3. row' = [row EXCEPT ![r] = new] /\ Touch(r)
  BY DEF Conclude
<1> HIDE DEF new
<1>4. row'[r] = new /\ \A q \in Release \ {r} : row'[q] = row[q]
  BY <1>3 DEF CreationInv, CreationTypeOK
<1>5. RowsKept
  BY ConcludeKeeps
<1>6. \A q \in Inserted : q \in Inserted' /\ (row[q].status # "pending" \/ q = r => row'[q].status # "pending")
  BY <1>1, <1>2, <1>4, <1>5 DEF RowsKept, Inserted
<1>7. \A p, q \in Release : <<p, q>> \in later' =>
        \/ <<p, q>> \in later
        \/ p = r /\ q \in Inserted /\ row[q].status # "pending"
  BY DEF Conclude, Deployed
<1>8. \A p, q \in Release : <<p, q>> \in later' => <<p, q>> \in newer'
  BY <1>1, <1>3, <1>7, Touched DEF OrderInv
<1> QED
  BY <1>1, <1>3, <1>6, <1>7, <1>8, TouchOrders DEF OrderInv

\* The order holds of every reachable state.
THEOREM OrderHolds == CreationSpec => []OrderInv
<1>1. CreationInit => OrderInv
  BY DEF CreationInit, OrderInv
<1>2. CreationInv /\ OrderInv /\ [CreationNext]_vars => OrderInv'
  <2> SUFFICES ASSUME CreationInv, OrderInv, [CreationNext]_vars
               PROVE  OrderInv'
    OBVIOUS
  <2>1. CASE UNCHANGED vars
    BY <2>1, SameOrder DEF vars
  <2>2. ASSUME NEW c \in Client, Handle(c)
        PROVE  OrderInv'
    <3>1. ASSUME NEW r \in Release, CreateReleaseRequest(c, r)
          PROVE  OrderInv'
      BY <3>1, InsertOrders
    <3>2. CASE SetReleaseRollbackOf(c)
      BY <3>2, LinkOrders
    <3>3. ASSUME ~SetReleaseRollbackOf(c), \A r \in Release : ~CreateReleaseRequest(c, r)
          PROVE  UNCHANGED <<row, newer, later>>
      BY <2>2, <3>3 DEF Handle, CreateBegin, RollbackBegin, RetryBegin, Begin, RollbackChoose,
         LookupMisses, Replay, Conflict, InsertRefused, CreatedEvent, OperationEvent, WriteEvent,
         GiveUp, tables
    <3> QED
      BY <3>1, <3>2, <3>3, SameOrder
  <2>3. ASSUME NEW r \in Release, NEW result \in Ending, Conclude(r, result)
        PROVE  OrderInv'
    BY <2>3, ConcludeOrders
  <2> QED
    BY <2>1, <2>2, <2>3 DEF CreationNext
<1> QED
  BY <1>1, <1>2, CreationInvariant, PTL DEF CreationSpec

\* A choice takes the last one deployed of those with another version.
LEMMA ChoosesTheLast ==
  ASSUME CreationInv, OrderInv, NEW c \in Client, NEW r \in Release, RollbackChoose(c, r)
  PROVE  LET o == call[c].original IN
         /\ r \in Deployed(o)
         /\ row[r].version = version'[c]
         /\ version'[c] # row[o].version
         /\ \A q \in Deployed(o) : <<q, r>> \in later => row[q].version = row[o].version
<1> DEFINE o == call[c].original
<1>1. r \in Candidates(o) /\ \A q \in Candidates(o) \ {r} : <<r, q>> \in newer
  BY DEF RollbackChoose, Newest
<1>2. r \in Deployed(o) /\ row[r].version # row[o].version
  BY <1>1 DEF Candidates
<1>3. version'[c] = row[r].version
  BY DEF RollbackChoose, VersionOf, CreationInv, CreationTypeOK
<1>4. ASSUME NEW q \in Deployed(o), <<q, r>> \in later, row[q].version # row[o].version
      PROVE  FALSE
  <2>1. q \in Release /\ <<q, r>> \in newer
    BY <1>4 DEF OrderInv, Deployed, Inserted
  <2>2. q # r
    BY <2>1 DEF OrderInv
  <2>3. <<r, q>> \in newer
    BY <1>1, <1>4, <2>2 DEF Candidates
  <2> QED
    BY <2>1, <2>3 DEF OrderInv
<1> QED
  BY <1>2, <1>3, <1>4

\* A rollback that names no version goes to the last version deployed on its
\* service and environment that is not the one it takes back
\* (RecommendedIsTheLast), whatever was deployed, rolled back or linked before.
THEOREM RecommendedAreTheLast == CreationSpec => RecommendedIsTheLast
<1>1. CreationInv /\ OrderInv /\ [CreationNext]_vars =>
        [\A c \in Client : step[c] = "choose" /\ step'[c] = "lookup" =>
           LET o == call[c].original IN
           \E r \in Deployed(o) :
             /\ row[r].version = version'[c]
             /\ version'[c] # row[o].version
             /\ \A q \in Deployed(o) : <<q, r>> \in later => row[q].version = row[o].version]_vars
  <2> SUFFICES ASSUME CreationInv, OrderInv, CreationNext, NEW c \in Client,
                      step[c] = "choose", step'[c] = "lookup"
               PROVE  LET o == call[c].original IN
                      \E r \in Deployed(o) :
                        /\ row[r].version = version'[c]
                        /\ version'[c] # row[o].version
                        /\ \A q \in Deployed(o) : <<q, r>> \in later => row[q].version = row[o].version
    OBVIOUS
  <2>1. ASSUME NEW r \in Release, NEW result \in Ending, Conclude(r, result)
        PROVE  FALSE
    BY <2>1 DEF Conclude, request
  <2>2. PICK d \in Client : Handle(d)
    BY <2>1 DEF CreationNext
  <2>3. d = c
    <3>1. \E s \in Step : Goto(d, s)
      <4>1. ASSUME NEW op \in Operation
            PROVE  AfterCreate(op) \in Step
        BY <4>1, AfterCreateType DEF Step
      <4> QED
        BY <2>2, <4>1 DEF Handle, CreateBegin, RollbackBegin, RetryBegin, Begin, RollbackChoose,
           LookupMisses, Replay, Conflict, CreateReleaseRequest, InsertRefused, CreatedEvent,
           SetReleaseRollbackOf, OperationEvent, GiveUp, CreationInv, Resolved, Call, Step
    <3> QED
      BY <3>1 DEF Goto, CreationInv, CreationTypeOK
  <2>4. \E r \in Release : RollbackChoose(c, r)
    BY <2>2, <2>3 DEF Handle, CreateBegin, RollbackBegin, RetryBegin, Begin, Free, LookupMisses,
       Replay, Conflict, CreateReleaseRequest, InsertRefused, CreatedEvent, SetReleaseRollbackOf,
       OperationEvent, GiveUp, Goto, CreationInv, CreationTypeOK
  <2> QED
    BY <2>4, ChoosesTheLast
<1> QED
  BY <1>1, CreationInvariant, OrderHolds, PTL DEF CreationSpec, RecommendedIsTheLast
=============================================================================
