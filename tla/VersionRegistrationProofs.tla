---------------------- MODULE VersionRegistrationProofs ----------------------
(***************************************************************************)
(* Proofs about VersionRegistration, for any services, numbers, contents,  *)
(* keys and requests.                                                      *)
(***************************************************************************)
EXTENDS VersionRegistration, TLAPS

\* A row is as its source writes it: CI stores the fingerprint of the number
\* and the content, a person neither a fingerprint nor a key.
RowFits(r) ==
  IF r.source = "ci" THEN r.hash = <<r.name, r.content>>
  ELSE r.hash = NoHash /\ r.key = NoKey

RowsFit == \A e \in Registered : RowFits(row[e])

\* A request on its way, or answered, has a call; it looks a key up only if it
\* has one, and a person has none.
CallsFit ==
  \A c \in Client : step[c] # "idle" =>
    /\ call[c] \in Call
    /\ call[c].source = "manual" => call[c].key = NoKey
    /\ step[c] \in {"by_key", "idempotency_conflict"} => call[c].key # NoKey

\* The invariant, preserved by every step.
RegistrationInv ==
  /\ RegistrationTypeOK
  /\ RowsFit
  /\ CallsFit
  /\ NumbersAndKeysAreUnique
  /\ AnswerIsWhatWasAsked
  /\ ConflictHasAReason

-----------------------------------------------------------------------------

\* A step that changes one request and no row keeps the invariant if what the
\* request is and is answered fits.
LEMMA RequestKeeps ==
  ASSUME RegistrationInv, NEW c \in Client,
         UNCHANGED row,
         events' \subseteq Entry \X Audited,
         NEW s \in Step, step' = [step EXCEPT ![c] = s],
         NEW a \in Call \cup {NoCall}, call' = [call EXCEPT ![c] = a],
         NEW i \in Entry \cup {NoEntry}, item' = [item EXCEPT ![c] = i],
         s # "idle" => /\ a \in Call
                       /\ a.source = "manual" => a.key = NoKey
                       /\ s \in {"by_key", "idempotency_conflict"} => a.key # NoKey,
         s \in {"event", "answered"} =>
           /\ i \in Registered
           /\ row[i].service = a.service
           /\ row[i].name = a.name
           /\ row[i].content = a.content,
         s = "version_conflict" /\ a.source = "ci" =>
           \E e \in WithName(a.service, a.name) :
             row[e].content # a.content \/ row[e].source = "manual",
         s = "idempotency_conflict" =>
           \E e \in WithKey(a.service, a.key) :
             row[e].content # a.content \/ row[e].name # a.name
  PROVE  RegistrationInv'
<1>1. /\ step'[c] = s
      /\ call'[c] = a
      /\ item'[c] = i
      /\ \A d \in Client \ {c} :
           step'[d] = step[d] /\ call'[d] = call[d] /\ item'[d] = item[d]
  BY DEF RegistrationInv, RegistrationTypeOK
<1>2. RegistrationTypeOK'
  BY DEF RegistrationInv, RegistrationTypeOK
<1>3. RowsFit' /\ NumbersAndKeysAreUnique'
  BY DEF RegistrationInv, RowsFit, RowFits, NumbersAndKeysAreUnique, Registered
<1>4. CallsFit'
  BY <1>1 DEF RegistrationInv, CallsFit
<1>5. AnswerIsWhatWasAsked'
  BY <1>1 DEF RegistrationInv, AnswerIsWhatWasAsked, Registered
<1>6. ConflictHasAReason'
  <2>1. SUFFICES ASSUME NEW d \in Client
                 PROVE  /\ step'[d] = "version_conflict" /\ call'[d].source = "ci" =>
                             \E e \in WithName(call'[d].service, call'[d].name) :
                               row[e].content # call'[d].content \/ row[e].source = "manual"
                        /\ step'[d] = "idempotency_conflict" =>
                             \E e \in WithKey(call'[d].service, call'[d].key) :
                               row[e].content # call'[d].content \/ row[e].name # call'[d].name
    BY DEF ConflictHasAReason, WithName, WithKey, Registered
  <2>2. CASE d = c
    BY <1>1, <2>2
  <2>3. CASE d # c
    BY <1>1, <2>3 DEF RegistrationInv, ConflictHasAReason
  <2>. QED BY <2>2, <2>3
<1>. QED BY <1>2, <1>3, <1>4, <1>5, <1>6 DEF RegistrationInv

\* The indexes let a row in only if its number and its key are new.
LEMMA InsertKeeps ==
  ASSUME RegistrationInv, RegistrationAssumption,
         NEW c \in Client, NEW e \in Entry, CreateServiceVersion(c, e)
  PROVE  RegistrationInv'
<1> DEFINE new == [source |-> call[c].source, service |-> call[c].service,
                   name |-> call[c].name, content |-> call[c].content,
                   key |-> call[c].key, hash |-> StoredHash(call[c])]
<1>1. /\ step[c] = "insert"
      /\ row[e] = NoEntry
      /\ NameIsFree(call[c].service, call[c].name)
      /\ KeyIsFree(call[c].service, call[c].key)
      /\ row' = [row EXCEPT ![e] = new]
      /\ item' = [item EXCEPT ![c] = e]
      /\ step' = [step EXCEPT ![c] = "event"]
      /\ UNCHANGED <<events, call>>
  BY DEF CreateServiceVersion, Goto
<1>2. call[c] \in Call /\ (call[c].source = "manual" => call[c].key = NoKey)
  BY <1>1 DEF RegistrationInv, CallsFit
<1>3. StoredHash(call[c]) \in (Name \X Content) \cup {NoHash}
  BY <1>2 DEF StoredHash, RegistrationRequestHash, Call
<1>4. new \in Row
  BY <1>2, <1>3 DEF Row, Call
<1>5. RowFits(new)
  BY <1>2 DEF RowFits, StoredHash, RegistrationRequestHash, Call, Source
<1> HIDE DEF new
<1>6. row'[e] = new /\ \A d \in Entry \ {e} : row'[d] = row[d]
  BY <1>1 DEF RegistrationInv, RegistrationTypeOK
<1>7. /\ Registered' = Registered \cup {e}
      /\ e \notin Registered
  BY <1>1, <1>4, <1>6, RowAssumption DEF Registered
<1>8. /\ step'[c] = "event" /\ item'[c] = e /\ call' = call
      /\ \A d \in Client \ {c} : step'[d] = step[d] /\ item'[d] = item[d]
  BY <1>1 DEF RegistrationInv, RegistrationTypeOK
<1>9. /\ new.service = call[c].service /\ new.name = call[c].name
      /\ new.content = call[c].content /\ new.key = call[c].key
  BY DEF new
<1>10. RegistrationTypeOK'
  BY <1>1, <1>4 DEF RegistrationInv, RegistrationTypeOK, Step
<1>11. RowsFit'
  <2>1. ASSUME NEW d \in Registered'
        PROVE  RowFits(row'[d])
    <3>1. CASE d = e
      BY <1>5, <1>6, <3>1
    <3>2. CASE d # e
      BY <1>6, <1>7, <2>1, <3>2 DEF RegistrationInv, RowsFit, Registered
    <3>. QED BY <3>1, <3>2
  <2>. QED BY <2>1 DEF RowsFit, RowFits
<1>12. CallsFit'
  BY <1>2, <1>8 DEF RegistrationInv, CallsFit
<1>13. NumbersAndKeysAreUnique'
  <2>1. ASSUME NEW d \in Registered
        PROVE  ~(/\ row[d].service = new.service
                 /\ row[d].name = new.name \/ (row[d].key = new.key /\ new.key # NoKey))
    BY <1>1, <1>9 DEF NameIsFree, KeyIsFree, WithName, WithKey
  <2>2. \A d \in Registered : d # e /\ row'[d] = row[d]
    BY <1>6, <1>7 DEF Registered
  <2>3. SUFFICES ASSUME NEW d \in Registered', NEW f \in Registered',
                        row'[d].service = row'[f].service,
                        row'[d].name = row'[f].name \/ (row'[d].key = row'[f].key /\ row'[d].key # NoKey)
                 PROVE  d = f
    BY DEF NumbersAndKeysAreUnique
  <2>4. CASE d = e
    BY <1>6, <1>7, <2>1, <2>2, <2>3, <2>4
  <2>5. CASE f = e
    BY <1>6, <1>7, <2>1, <2>2, <2>3, <2>5
  <2>6. CASE d # e /\ f # e
    <3>1. d \in Registered /\ f \in Registered
      BY <1>7, <2>3, <2>6
    <3>. QED BY <2>2, <2>3, <3>1 DEF RegistrationInv, NumbersAndKeysAreUnique
  <2>. QED BY <2>4, <2>5, <2>6
<1>14. AnswerIsWhatWasAsked'
  <2>1. SUFFICES ASSUME NEW d \in Client, step'[d] \in {"event", "answered"}
                 PROVE  /\ item'[d] \in Registered'
                        /\ row'[item'[d]].service = call'[d].service
                        /\ row'[item'[d]].name = call'[d].name
                        /\ row'[item'[d]].content = call'[d].content
    BY DEF AnswerIsWhatWasAsked
  <2>2. CASE d = c
    BY <1>6, <1>7, <1>8, <1>9, <2>2
  <2>3. CASE d # c
    <3>1. /\ item[d] \in Registered
          /\ row[item[d]].service = call[d].service
          /\ row[item[d]].name = call[d].name
          /\ row[item[d]].content = call[d].content
      BY <1>8, <2>1, <2>3 DEF RegistrationInv, AnswerIsWhatWasAsked
    <3>2. row'[item[d]] = row[item[d]]
      BY <1>6, <1>7, <3>1 DEF Registered
    <3>. QED BY <1>7, <1>8, <2>3, <3>1, <3>2
  <2>. QED BY <2>2, <2>3
<1>15. ConflictHasAReason'
  <2>1. \A d \in Registered : d \in Registered' /\ row'[d] = row[d]
    BY <1>6, <1>7 DEF Registered
  <2>2. \A v, n : WithName(v, n) \subseteq WithName(v, n)' /\ WithKey(v, n) \subseteq WithKey(v, n)'
    BY <2>1 DEF WithName, WithKey
  <2>3. \A v, n : \A d \in WithName(v, n) \cup WithKey(v, n) : row'[d] = row[d]
    BY <2>1 DEF WithName, WithKey
  <2>. QED BY <1>8, <2>2, <2>3 DEF RegistrationInv, ConflictHasAReason
<1>. QED BY <1>10, <1>11, <1>12, <1>13, <1>14, <1>15 DEF RegistrationInv

\* What a lookup finds decides as the invariant says: the fingerprints agree
\* only if number and content do.
LEMMA FoundKeeps ==
  ASSUME RegistrationInv, RegistrationAssumption, NEW c \in Client, NEW e \in Entry,
         FindByKey(c, e) \/ FindByName(c, e)
  PROVE  RegistrationInv'
<1>1. /\ e \in Registered /\ row[e] \in Row /\ RowFits(row[e])
      /\ row[e].service = call[c].service
      /\ UNCHANGED <<row, events, call>>
      /\ call[c] \in Call /\ (call[c].source = "manual" => call[c].key = NoKey)
  BY DEF FindByKey, FindByName, Found, WithKey, WithName, RegistrationInv,
         RegistrationTypeOK, RowsFit, CallsFit, Registered
<1>2. call[c] \in Call \cup {NoCall} /\ item[c] \in Entry \cup {NoEntry}
  BY DEF RegistrationInv, RegistrationTypeOK
<1>3. /\ call' = [call EXCEPT ![c] = call[c]]
      /\ events' \subseteq Entry \X Audited
      /\ item = [item EXCEPT ![c] = item[c]]
  BY <1>1 DEF RegistrationInv, RegistrationTypeOK
<1>4. ASSUME row[e].hash = RegistrationRequestHash(call[c]), call[c].source = "ci"
      PROVE  row[e].name = call[c].name /\ row[e].content = call[c].content
  <2>1. <<call[c].name, call[c].content>> \in Name \X Content
    BY <1>1 DEF Call
  <2>2. row[e].hash = <<row[e].name, row[e].content>>
    BY <1>1, <1>4, <2>1, RegistrationAssumption DEF RowFits, RegistrationRequestHash
  <2>. QED BY <1>4, <2>2 DEF RegistrationRequestHash
<1>5. CASE FindByKey(c, e)
  <2>1. step[c] = "by_key" /\ e \in WithKey(call[c].service, call[c].key)
        /\ Found(c, e, "idempotency_conflict")
    BY <1>5 DEF FindByKey
  <2>2. call[c].key # NoKey /\ call[c].source = "ci" /\ row[e].source = "ci"
    BY <1>1, <2>1 DEF RegistrationInv, CallsFit, Call, Row, RowFits, Source, WithKey
  <2>3. CASE row[e].hash = RegistrationRequestHash(call[c])
    <3>1. step' = [step EXCEPT ![c] = "event"] /\ item' = [item EXCEPT ![c] = e]
      BY <2>1, <2>2, <2>3 DEF Found, Goto
    <3>. QED BY <1>1, <1>2, <1>3, <1>4, <2>2, <2>3, <3>1, RequestKeeps DEF Step
  <2>4. CASE row[e].hash # RegistrationRequestHash(call[c])
    <3>1. step' = [step EXCEPT ![c] = "idempotency_conflict"] /\ item' = [item EXCEPT ![c] = item[c]]
      BY <1>3, <2>1, <2>4 DEF Found, Goto
    <3>2. row[e].content # call[c].content \/ row[e].name # call[c].name
      BY <1>1, <2>2, <2>4 DEF RowFits, RegistrationRequestHash
    <3>. QED BY <1>1, <1>2, <1>3, <2>1, <2>2, <3>1, <3>2, RequestKeeps, ZenonT(60) DEF Step
  <2>. QED BY <2>3, <2>4
<1>6. CASE FindByName(c, e)
  <2>1. step[c] = "by_name" /\ e \in WithName(call[c].service, call[c].name)
        /\ Found(c, e, "version_conflict")
    BY <1>6 DEF FindByName
  <2>2. CASE row[e].hash = RegistrationRequestHash(call[c]) /\ call[c].source = "ci"
    <3>1. step' = [step EXCEPT ![c] = "event"] /\ item' = [item EXCEPT ![c] = e]
      BY <2>1, <2>2 DEF Found, Goto
    <3>. QED BY <1>1, <1>2, <1>3, <1>4, <2>2, <3>1, RequestKeeps DEF Step
  <2>3. CASE ~(row[e].hash = RegistrationRequestHash(call[c]) /\ call[c].source = "ci")
    <3>1. step' = [step EXCEPT ![c] = "version_conflict"] /\ item' = [item EXCEPT ![c] = item[c]]
      BY <1>3, <2>1, <2>3 DEF Found, Goto
    <3>2. row[e].name = call[c].name
      BY <2>1 DEF WithName
    <3>3. call[c].source = "ci" => row[e].content # call[c].content \/ row[e].source = "manual"
      BY <1>1, <2>3, <3>2 DEF RowFits, RegistrationRequestHash, Row, Source
    <3>4. call[c].source = "ci" =>
            \E f \in WithName(call[c].service, call[c].name) :
              row[f].content # call[c].content \/ row[f].source = "manual"
      BY <2>1, <3>3
    <3>5. "version_conflict" \in Step
      BY DEF Step
    <3>6. PICK a \in Call : a = call[c]
      BY <1>1
    <3>7. /\ call' = [call EXCEPT ![c] = a]
          /\ a.source = "manual" => a.key = NoKey
          /\ a.source = "ci" => \E f \in WithName(a.service, a.name) :
               row[f].content # a.content \/ row[f].source = "manual"
      BY <1>1, <1>3, <3>4, <3>6
    <3>8. PICK s \in Step :
            /\ step' = [step EXCEPT ![c] = s]
            /\ s \notin {"by_key", "idempotency_conflict", "event", "answered"}
      BY <3>1, <3>5
    <3>. QED BY <1>1, <1>2, <1>3, <3>1, <3>7, <3>8, RequestKeeps
  <2>. QED BY <2>2, <2>3
<1>. QED BY <1>5, <1>6

\* The other steps begin a request, move it on, or end it.
LEMMA StepKeeps ==
  ASSUME RegistrationInv, RegistrationAssumption, NEW c \in Client, Handle(c)
  PROVE  RegistrationInv'
<1>1. /\ call[c] \in Call \cup {NoCall} /\ item[c] \in Entry \cup {NoEntry}
      /\ events \subseteq Entry \X Audited
      /\ call = [call EXCEPT ![c] = call[c]] /\ item = [item EXCEPT ![c] = item[c]]
      /\ step[c] # "idle" => /\ call[c] \in Call
                             /\ call[c].source = "manual" => call[c].key = NoKey
  BY DEF RegistrationInv, RegistrationTypeOK, CallsFit
<1>2. ASSUME NEW a \in Call, Begin(c, a)
      PROVE  RegistrationInv'
  <2>1. PICK s \in {"by_key", "by_name"} :
          step' = [step EXCEPT ![c] = s] /\ (s = "by_key" => a.key # NoKey)
    BY <1>2 DEF Begin, Goto
  <2>2. /\ a.source = "manual" => a.key = NoKey
        /\ call' = [call EXCEPT ![c] = a] /\ item' = [item EXCEPT ![c] = NoEntry]
        /\ UNCHANGED <<row, events>>
    BY <1>2 DEF Begin
  <2>. QED BY <1>1, <2>1, <2>2, RequestKeeps DEF Step
<1>3. ASSUME NEW e \in Entry, FindByKey(c, e) \/ FindByName(c, e) \/ CreateServiceVersion(c, e)
      PROVE  RegistrationInv'
  BY <1>3, FoundKeeps, InsertKeeps, RegistrationAssumption
<1>4. ASSUME KeyNotFound(c) \/ NameNotFound(c) \/ InsertRefused(c)
      PROVE  RegistrationInv'
  <2>1. PICK s \in {"by_name", "insert", "duplicate"} : step' = [step EXCEPT ![c] = s]
    BY <1>4 DEF KeyNotFound, NameNotFound, InsertRefused, Goto
  <2>2. step[c] # "idle" /\ UNCHANGED <<row, events, call, item>>
    BY <1>4 DEF KeyNotFound, NameNotFound, InsertRefused
  <2>3. /\ s \in Step /\ s \notin {"idle", "by_key", "idempotency_conflict", "version_conflict", "event", "answered"}
        /\ call' = [call EXCEPT ![c] = call[c]] /\ item' = [item EXCEPT ![c] = item[c]]
        /\ UNCHANGED row /\ events' \subseteq Entry \X Audited
    BY <1>1, <2>1, <2>2 DEF Step
  <2>. QED BY <1>1, <2>1, <2>2, <2>3, RequestKeeps, ZenonT(60)
<1>5. ASSUME RecordVersionRegistered(c)
      PROVE  RegistrationInv'
  <2>1. /\ step[c] = "event" /\ step' = [step EXCEPT ![c] = "answered"]
        /\ UNCHANGED <<row, call, item>>
    BY <1>5 DEF RecordVersionRegistered, Goto
  <2>2. events' \subseteq Entry \X Audited
    BY <1>1, <1>5 DEF RecordVersionRegistered
  <2>3. /\ item[c] \in Registered
        /\ row[item[c]].service = call[c].service
        /\ row[item[c]].name = call[c].name
        /\ row[item[c]].content = call[c].content
    BY <2>1 DEF RegistrationInv, AnswerIsWhatWasAsked
  <2>4. /\ "answered" \in Step /\ step[c] # "idle" /\ UNCHANGED row
        /\ call' = [call EXCEPT ![c] = call[c]] /\ item' = [item EXCEPT ![c] = item[c]]
    BY <1>1, <2>1 DEF Step
  <2>5. PICK a \in Call, i \in Entry : a = call[c] /\ i = item[c]
    BY <1>1, <2>3, <2>4 DEF Registered
  <2>6. /\ call' = [call EXCEPT ![c] = a] /\ item' = [item EXCEPT ![c] = i]
        /\ a.source = "manual" => a.key = NoKey
        /\ i \in Registered /\ row[i].service = a.service
        /\ row[i].name = a.name /\ row[i].content = a.content
    BY <1>1, <2>3, <2>4, <2>5
  <2>7. PICK s \in Step :
          /\ step' = [step EXCEPT ![c] = s]
          /\ s \notin {"idle", "by_key", "idempotency_conflict", "version_conflict"}
    BY <2>1, <2>4
  <2>8. UNCHANGED row
    BY <2>1
  <2>9. a \in Call \cup {NoCall} /\ i \in Entry \cup {NoEntry}
    BY <2>5
  <2>10. /\ call' = [call EXCEPT ![c] = a]
         /\ item' = [item EXCEPT ![c] = i]
    BY <2>6
  <2>11. s # "idle" => /\ a \in Call
                       /\ a.source = "manual" => a.key = NoKey
                       /\ s \in {"by_key", "idempotency_conflict"} => a.key # NoKey
    BY <2>6, <2>7
  <2>12. s \in {"event", "answered"} =>
           /\ i \in Registered
           /\ row[i].service = a.service
           /\ row[i].name = a.name
           /\ row[i].content = a.content
    BY <2>6
  <2>13. s # "version_conflict" /\ s # "idempotency_conflict"
    BY <2>7
  <2>14. step' = [step EXCEPT ![c] = s]
    BY <2>7
  <2>. QED BY <2>2, <2>8, <2>9, <2>10, <2>11, <2>12, <2>13, <2>14, RequestKeeps
<1>6. ASSUME GiveUp(c)
      PROVE  RegistrationInv'
  <2>1. /\ step' = [step EXCEPT ![c] = "idle"]
        /\ call' = [call EXCEPT ![c] = NoCall] /\ item' = [item EXCEPT ![c] = NoEntry]
        /\ UNCHANGED <<row, events>>
    BY <1>6 DEF GiveUp, Goto
  <2>. QED BY <1>1, <2>1, RequestKeeps DEF Step
<1>. QED BY <1>2, <1>3, <1>4, <1>5, <1>6 DEF Handle

-----------------------------------------------------------------------------

\* RegistrationInv holds in every reachable state.
THEOREM RegistrationInvariant == RegistrationSpec => []RegistrationInv
<1>1. RegistrationInit => RegistrationInv
  BY DEF RegistrationInit, RegistrationInv, RegistrationTypeOK, Registered, RowsFit, CallsFit,
         NumbersAndKeysAreUnique, AnswerIsWhatWasAsked, ConflictHasAReason, Step
<1>2. ASSUME RegistrationInv, [RegistrationNext]_vars
      PROVE  RegistrationInv'
  <2>1. CASE RegistrationNext
    BY <1>2, <2>1, StepKeeps, RegistrationAssumption DEF RegistrationNext
  <2>2. CASE UNCHANGED vars
    BY <1>2, <2>2 DEF vars, RegistrationInv, RegistrationTypeOK, Registered, RowsFit, RowFits, CallsFit,
         NumbersAndKeysAreUnique, AnswerIsWhatWasAsked, ConflictHasAReason, WithName, WithKey
  <2>. QED BY <1>2, <2>1, <2>2
<1>. QED BY <1>1, <1>2, PTL DEF RegistrationSpec

\* Requests that race over a number or a key leave one version of it: the
\* lookups of RegisterVersion decide nothing, the two indexes everything.
THEOREM NumbersAndKeysUnique == RegistrationSpec => []NumbersAndKeysAreUnique
<1>1. RegistrationInv => NumbersAndKeysAreUnique
  BY DEF RegistrationInv
<1>. QED BY <1>1, RegistrationInvariant, PTL

\* RegisterVersion and createServiceVersion answer with a version of the
\* service, number and content asked for.
THEOREM AnswersMatch == RegistrationSpec => []AnswerIsWhatWasAsked
<1>1. RegistrationInv => AnswerIsWhatWasAsked
  BY DEF RegistrationInv
<1>. QED BY <1>1, RegistrationInvariant, PTL

\* RegisterVersion answers a CI job with a conflict only if the version it
\* found has another content or number, or was registered by hand.
THEOREM ConflictsHaveReasons == RegistrationSpec => []ConflictHasAReason
<1>1. RegistrationInv => ConflictHasAReason
  BY DEF RegistrationInv
<1>. QED BY <1>1, RegistrationInvariant, PTL

\* Versions, events and requests keep their types.
THEOREM TypeCorrect == RegistrationSpec => []RegistrationTypeOK
<1>1. RegistrationInv => RegistrationTypeOK
  BY DEF RegistrationInv
<1>. QED BY <1>1, RegistrationInvariant, PTL

-----------------------------------------------------------------------------
(* Registering implements IdempotentKeys, with numbers for keys.           *)

\* A number that has a version is bound to it and to its content.
LEMMA NumberOfVersion ==
  ASSUME RegistrationInv, NEW e \in Registered, NEW k, k = <<row[e].service, row[e].name>>
  PROVE  /\ k \in Service \X Name
         /\ NumberBinding(k) = [item |-> e, content |-> row[e].content]
         /\ NumberBinding(k) \in Numbers!Binding
         /\ NumberBinding(k) # NoEntry
<1>1. k[1] = row[e].service /\ k[2] = row[e].name
  OBVIOUS
<1>2. row[e] \in Row /\ e \in Entry
  BY DEF RegistrationInv, RegistrationTypeOK, Registered
<1>3. WithName(k[1], k[2]) = {e}
  BY <1>1 DEF RegistrationInv, NumbersAndKeysAreUnique, WithName
<1>4. NumberBinding(k) = [item |-> e, content |-> row[e].content]
  BY <1>3 DEF NumberBinding
<1>5. row[e].service \in Service /\ row[e].name \in Name /\ row[e].content \in Content
  BY <1>2 DEF Row
<1>6. NumberBinding(k) \in Numbers!Binding
  BY <1>2, <1>4, <1>5 DEF Numbers!Binding
<1> QED
  BY <1>4, <1>5, <1>6, NumberAssumption

\* The numbers and the answers, as the abstract specification sees them.
bound == [k \in Service \X Name |-> NumberBinding(k)]
reply == [c \in Client |-> RequestAnswer(c)]

\* A step of one request that changes no row answers it with the binding of
\* its number, or withdraws its answer.
LEMMA RequestShows ==
  ASSUME RegistrationInv, RegistrationInv', UNCHANGED row, NEW c \in Client,
         \A d \in Client \ {c} : step'[d] = step[d] /\ call'[d] = call[d] /\ item'[d] = item[d]
  PROVE  [Numbers!KeysNext]_<<bound, reply>>
<1>1. bound' = bound
  BY DEF bound, NumberBinding, WithName, Registered
<1>2. reply' = [reply EXCEPT ![c] = RequestAnswer(c)']
  BY DEF reply, RequestAnswer
<1>3. CASE step'[c] = "answered"
  <2> DEFINE k == <<call'[c].service, call'[c].name>>
             e == item'[c]
  <2>1. /\ e \in Registered
        /\ row[e].service = call'[c].service /\ row[e].name = call'[c].name
        /\ row[e].content = call'[c].content
    BY <1>3 DEF RegistrationInv, AnswerIsWhatWasAsked, Registered
  <2>2. /\ k \in Service \X Name
        /\ NumberBinding(k) = [item |-> e, content |-> call'[c].content]
        /\ NumberBinding(k) # NoEntry
    BY <2>1, NumberOfVersion
  <2>3. bound[k] = NumberBinding(k)
    BY <2>2 DEF bound
  <2>4. RequestAnswer(c)' = [key |-> k, item |-> bound[k].item, content |-> bound[k].content]
    BY <1>3, <2>2, <2>3 DEF RequestAnswer
  <2>5. Numbers!Reply(c)
    BY <1>1, <1>2, <2>2, <2>3, <2>4, ZenonT(60) DEF Numbers!Reply, bound, reply
  <2> QED
    BY <2>5 DEF Numbers!KeysNext
<1>4. CASE step'[c] # "answered"
  <2>1. RequestAnswer(c)' = NoEntry
    BY <1>4 DEF RequestAnswer
  <2>2. Numbers!CallAgain(c)
    BY <1>1, <1>2, <2>1 DEF Numbers!CallAgain, bound, reply
  <2> QED
    BY <2>2 DEF Numbers!KeysNext
<1> QED
  BY <1>3, <1>4

\* The insert binds its number, which was free.
LEMMA InsertShows ==
  ASSUME RegistrationInv, NEW c \in Client, NEW e \in Entry, CreateServiceVersion(c, e)
  PROVE  [Numbers!KeysNext]_<<bound, reply>>
<1> DEFINE k == <<call[c].service, call[c].name>>
<1>1. RegistrationInv'
  BY InsertKeeps, RegistrationAssumption
<1>2. /\ step[c] = "insert" /\ row[e] = NoEntry /\ WithName(call[c].service, call[c].name) = {}
      /\ \A d \in Entry \ {e} : row'[d] = row[d]
      /\ call' = call
      /\ item' = [item EXCEPT ![c] = e] /\ step' = [step EXCEPT ![c] = "event"]
  BY DEF CreateServiceVersion, NameIsFree, Goto, RegistrationInv, RegistrationTypeOK
<1>3. e \notin Registered /\ \A d \in Registered : d # e /\ row'[d] = row[d] /\ d \in Registered'
  BY <1>2 DEF Registered
<1>4. step'[c] = "event" /\ item'[c] = e
  BY <1>2 DEF RegistrationInv, RegistrationTypeOK
<1>5. /\ e \in Registered'
      /\ row'[e].service = call[c].service /\ row'[e].name = call[c].name
  BY <1>1, <1>2, <1>4 DEF RegistrationInv, AnswerIsWhatWasAsked
<1>6. \A d \in Registered' : d \in Registered \/ d = e
  BY <1>2 DEF Registered, RegistrationInv, RegistrationTypeOK
<1>7. /\ k \in Service \X Name
      /\ NumberBinding(k) = NoEntry
      /\ NumberBinding(k)' = [item |-> e, content |-> row'[e].content]
      /\ NumberBinding(k)' \in Numbers!Binding
  <2>1. row'[e] \in Row
    BY <1>1, <1>5 DEF RegistrationInv, RegistrationTypeOK, Registered
  <2>2. row'[e].service \in Service /\ row'[e].name \in Name /\ row'[e].content \in Content
    BY <2>1 DEF Row
  <2>3. WithName(call[c].service, call[c].name)' = {e}
    BY <1>1, <1>2, <1>5 DEF RegistrationInv, NumbersAndKeysAreUnique, WithName
  <2>4. NumberBinding(k) = NoEntry /\ NumberBinding(k)' = [item |-> e, content |-> row'[e].content]
    BY <1>2, <2>3 DEF NumberBinding
  <2> QED
    BY <1>5, <2>2, <2>4 DEF Numbers!Binding
<1>8. ASSUME NEW other \in Service \X Name, other # k
      PROVE  NumberBinding(other)' = NumberBinding(other)
  <2>2. ~(call[c].service = other[1] /\ call[c].name = other[2])
    BY <1>8
  <2>3. WithName(other[1], other[2])' = WithName(other[1], other[2])
    BY <1>3, <1>5, <1>6, <2>2 DEF WithName
  <2>4. \A d \in WithName(other[1], other[2]) : row'[d] = row[d]
    BY <1>3 DEF WithName
  <2>5. CASE WithName(other[1], other[2]) = {}
    BY <2>3, <2>5 DEF NumberBinding
  <2>6. CASE WithName(other[1], other[2]) # {}
    <3> DEFINE x == CHOOSE y \in WithName(other[1], other[2]) : TRUE
    <3>1. x \in WithName(other[1], other[2])
      BY <2>6
    <3>2. row'[x] = row[x]
      BY <2>4, <3>1
    <3> QED
      BY <2>3, <2>6, <3>2 DEF NumberBinding
  <2> QED
    BY <2>5, <2>6
<1>9. ASSUME NEW other \in Service \X Name, NumberBinding(other) # NoEntry
      PROVE  NumberBinding(other).item # e
  <2>1. WithName(other[1], other[2]) # {}
    BY <1>9 DEF NumberBinding
  <2>2. (CHOOSE y \in WithName(other[1], other[2]) : TRUE) \in Registered
    BY <2>1 DEF WithName
  <2> QED
    BY <1>3, <2>1, <2>2 DEF NumberBinding
<1>10. reply' = reply
  <2>1. ASSUME NEW d \in Client
        PROVE  RequestAnswer(d)' = RequestAnswer(d)
    BY <1>2 DEF RequestAnswer, RegistrationInv, RegistrationTypeOK
  <2> QED
    BY <2>1 DEF reply
<1>11. bound' = [bound EXCEPT ![k] = NumberBinding(k)']
  BY <1>2, <1>7, <1>8 DEF bound
<1>12. Numbers!Bind(k)
  BY <1>7, <1>9, <1>10, <1>11 DEF Numbers!Bind, bound, reply
<1> QED
  BY <1>7, <1>12 DEF Numbers!KeysNext

\* The unique index on the number makes registering idempotent for whoever
\* asks for the same content (ImplementsIdempotentNumbers): a number is bound
\* once, by the insert, and every answered request, of CI or by hand, asked
\* for what it is bound to.
THEOREM RegistrationImplementsNumbers == RegistrationSpec => ImplementsIdempotentNumbers
<1>1. RegistrationInit => Numbers!KeysInit
  BY DEF RegistrationInit, Numbers!KeysInit, NumberBinding, WithName, Registered, RequestAnswer
<1>2. RegistrationInv /\ RegistrationInv' /\ [RegistrationNext]_vars => [Numbers!KeysNext]_(Numbers!keyVars)
  <2> SUFFICES ASSUME RegistrationInv, RegistrationInv', [RegistrationNext]_vars
               PROVE  [Numbers!KeysNext]_<<bound, reply>>
    BY DEF Numbers!keyVars, bound, reply
  <2>1. ASSUME NEW c \in Client, Handle(c)
        PROVE  [Numbers!KeysNext]_<<bound, reply>>
    <3>1. ASSUME NEW e \in Entry, CreateServiceVersion(c, e)
          PROVE  [Numbers!KeysNext]_<<bound, reply>>
      BY <3>1, InsertShows
    <3>2. ASSUME \A e \in Entry : ~CreateServiceVersion(c, e)
          PROVE  /\ UNCHANGED row
                 /\ \A d \in Client \ {c} : step'[d] = step[d] /\ call'[d] = call[d] /\ item'[d] = item[d]
      BY <2>1, <3>2 DEF Handle, Begin, FindByKey, FindByName, Found, KeyNotFound, NameNotFound,
         InsertRefused, RecordVersionRegistered, GiveUp, Goto, RegistrationInv, RegistrationTypeOK
    <3> QED
      BY <3>1, <3>2, RequestShows
  <2>2. CASE UNCHANGED vars
    BY <2>2 DEF vars, bound, reply, NumberBinding, WithName, Registered, RequestAnswer
  <2> QED
    BY <2>1, <2>2 DEF RegistrationNext
<1> QED
  BY <1>1, <1>2, RegistrationInvariant, PTL DEF RegistrationSpec, ImplementsIdempotentNumbers, Numbers!KeysSpec
=============================================================================
