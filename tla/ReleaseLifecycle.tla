-------------------------- MODULE ReleaseLifecycle --------------------------
(***************************************************************************)
(* What the release pipeline promises, without queues, leases, workers or  *)
(* requests in flight: the status machine of a release                     *)
(* (docs/domain-model-design.md, 4.14) and the exclusive use of execution  *)
(* targets while releases run (docs/project-requirements.md, 7.3).         *)
(* A release that runs holds a set of targets, gives them back one after   *)
(* the other, and can succeed only when it holds none.                     *)
(***************************************************************************)
CONSTANTS Release, Ref

VARIABLES
  status,  \* the status of each release
  held     \* the targets a running release still works on or waits for

Init ==
  /\ status = [r \in Release |-> "none"]
  /\ held = [r \in Release |-> {}]

Move(r, from, to) ==
  /\ status[r] \in from
  /\ status' = [status EXCEPT ![r] = to]
  /\ UNCHANGED held

Submit(r) == Move(r, {"none"}, "pending_confirm")
Reject(r) == Move(r, {"pending_confirm"}, "rejected")
Cancel(r) == Move(r, {"pending_confirm", "queued"}, "cancelled")
Confirm(r) == Move(r, {"pending_confirm"}, "queued")

Free(r) == {ref \in Ref : \A q \in Release \ {r} : ref \notin held[q]}

Start(r) ==
  /\ status[r] = "queued"
  /\ status' = [status EXCEPT ![r] = "running"]
  /\ \E refs \in SUBSET Free(r) : refs # {} /\ held' = [held EXCEPT ![r] = refs]

GiveBack(r) ==
  /\ status[r] = "running"
  /\ \E refs \in SUBSET held[r] : held' = [held EXCEPT ![r] = refs]
  /\ UNCHANGED status

Succeed(r) == held[r] = {} /\ Move(r, {"running"}, "success")

\* Several releases may fail together: one recovery fails every release whose
\* worker is gone.
Fail(S) ==
  /\ \A r \in S : status[r] = "running"
  /\ status' = [r \in Release |-> IF r \in S THEN "failed" ELSE status[r]]
  /\ held' = [r \in Release |-> IF r \in S THEN {} ELSE held[r]]

Next ==
  \/ \E r \in Release :
       Submit(r) \/ Reject(r) \/ Cancel(r) \/ Confirm(r) \/ Start(r) \/ GiveBack(r) \/ Succeed(r)
  \/ \E S \in SUBSET Release : Fail(S)

Spec == Init /\ [][Next]_<<status, held>>
=============================================================================
