------------------------ MODULE DispatchLedgerProofs ------------------------
(* Theorems about DispatchLedger for every number of workers, lease,       *)
(* timeout and bound that ConstantsAssumption allows.                      *)
EXTENDS DispatchLedger, TLAPS

LEMMA RestingType ==
    ASSUME NEW verdict \in Verdicts PROVE Resting(verdict) \in WorkerState
BY DEF Resting, WorkerState, Steps, Verdicts, NoMarker, Marker, Statuses, Errors

LEMMA ClaimedType ==
    ASSUME NEW record \in Marker, NEW moment \in Nat, NEW lease \in Nat
    PROVE  ClaimedMarker(record, moment, lease, Lease) \in Marker
<1>1. /\ record.attempts + 1 \in Nat /\ moment + Lease \in Nat /\ record.events + 1 \in Nat
      /\ record.error \in Errors
  BY ConstantsAssumption DEF Marker
<1>2. QED
  BY <1>1 DEF Marker, Statuses, ClaimedMarker

LEMMA SettledTypes ==
    ASSUME NEW record \in Marker, NEW error \in Errors
    PROVE  SentMarker(record) \in Marker /\ FailedMarker(record, error) \in Marker
<1> record.events + 1 \in Nat
  BY DEF Marker
<1>1. SentMarker(record) \in Marker
  BY DEF Marker, Statuses, Errors, SentMarker
<1>2. FailedMarker(record, error) \in Marker
  BY DEF Marker, Statuses, FailedMarker
<1>3. QED
  BY <1>1, <1>2

LEMMA PutType ==
    ASSUME TypeOK, NEW w \in Workers, NEW state \in WorkerState, Put(w, state)
    PROVE  worker' \in [Workers -> WorkerState]
BY DEF TypeOK, Put

\* Every worker state the actions write is one.
LEMMA StateTypes ==
    ASSUME NEW s \in WorkerState, NEW step \in Steps
    PROVE  /\ \A time \in Nat : [s EXCEPT !.pc = step, !.started = time] \in WorkerState
           /\ \A time \in Nat : [s EXCEPT !.pc = step, !.moment = time, !.tries = 0] \in WorkerState
           /\ \A record \in Marker : [s EXCEPT !.pc = step, !.seen = record] \in WorkerState
           /\ \A lease \in Nat : [s EXCEPT !.pc = step, !.lease = lease] \in WorkerState
           /\ \A error \in Errors :
                [s EXCEPT !.pc = step, !.tries = 0, !.error = error] \in WorkerState
           /\ [s EXCEPT !.pc = step, !.tries = 0] \in WorkerState
           /\ [s EXCEPT !.pc = step, !.tries = @ + 1] \in WorkerState
<1>1. s.tries + 1 \in Nat
  BY DEF WorkerState
<1>2. QED
  BY <1>1 DEF WorkerState

LEMMA TypeStep == TypeOK /\ [Next]_vars => TypeOK'
<1> SUFFICES ASSUME TypeOK, [Next]_vars PROVE TypeOK'
  OBVIOUS
<1> USE DEF TypeOK
<1>1. CASE Tick
  BY <1>1 DEF Tick
<1>2. ASSUME NEW w \in Workers, Step(w) PROVE TypeOK'
  <2> DEFINE s == worker[w]
  <2>1. s \in WorkerState
    OBVIOUS
  <2>2. {"idle", "queued", "claim_read", "claim_write", "check", "send", "sent_read",
         "sent_write", "fail_read", "fail_write"} = Steps
    BY DEF Steps
  <2>3. Verdicts = {"none", "acked", "returned"} /\ "retryable" \in Errors /\ "permanent" \in Errors
    BY DEF Verdicts, Errors
  <2>4. \A state \in WorkerState : Put(w, state) => worker' \in [Workers -> WorkerState]
    BY PutType
  <2>5. \A step \in Steps : Enter(w, step) \/ Again(w, step) => worker' \in [Workers -> WorkerState]
    <3>1. \A step \in Steps : /\ [s EXCEPT !.pc = step, !.tries = 0] \in WorkerState
                             /\ [s EXCEPT !.pc = step, !.tries = @ + 1] \in WorkerState
      BY <2>1, StateTypes
    <3>2. QED
      BY <2>4, <3>1 DEF Enter, Again
  <2>6. \A verdict \in Verdicts : Settle(w, verdict) => worker' \in [Workers -> WorkerState]
    BY <2>4, RestingType DEF Settle
  <2>7. \A error \in Errors : Fail(w, error) => worker' \in [Workers -> WorkerState]
    BY <2>1, <2>2, <2>4, StateTypes DEF Fail
  <2>8. CASE Deliver(w)
    <3>1. [Resting("none") EXCEPT !.pc = "queued", !.started = now] \in WorkerState
      BY <2>2, <2>3, StateTypes, RestingType
    <3>2. QED
      BY <2>4, <2>8, <3>1 DEF Deliver
  <2>9. CASE BeginClaim(w)
    <3>1. [s EXCEPT !.pc = "claim_read", !.moment = now, !.tries = 0] \in WorkerState
      BY <2>1, <2>2, StateTypes
    <3>2. QED
      BY <2>4, <2>9, <3>1 DEF BeginClaim
  <2>10. CASE ClaimRead(w)
    BY <2>1, <2>2, <2>3, <2>4, <2>6, <2>10, StateTypes DEF ClaimRead
  <2>11. CASE ClaimWrite(w)
    <3>1. ClaimedMarker(s.seen, s.moment, minted + 1, Lease) \in Marker
      <4>1. s.seen \in Marker /\ s.moment \in Nat /\ minted + 1 \in Nat
        BY <2>1 DEF WorkerState
      <4>2. QED
        BY <4>1, ClaimedType
    <3>2. [s EXCEPT !.pc = "check", !.lease = minted + 1] \in WorkerState
      <4>1. minted + 1 \in Nat
        OBVIOUS
      <4>2. QED
        BY <2>1, <2>2, <4>1, StateTypes
    <3>3. marker' \in Marker /\ minted' \in Nat
      BY <2>11, <3>1 DEF ClaimWrite, Stored, Rejected
    <3>4. worker' \in [Workers -> WorkerState]
      BY <2>2, <2>4, <2>5, <2>11, <3>2 DEF ClaimWrite
    <3>5. QED
      BY <2>11, <3>3, <3>4 DEF ClaimWrite
  <2>12. CASE CheckReport(w)
    BY <2>2, <2>3, <2>5, <2>7, <2>12 DEF CheckReport
  <2>13. CASE SendEmail(w)
    BY <2>2, <2>3, <2>5, <2>7, <2>13 DEF SendEmail, RetrySend
  <2>0. lost + Forgotten \in Nat
    BY <2>3 DEF Forgotten
  <2>14. CASE SentRead(w)
    BY <2>0, <2>1, <2>2, <2>3, <2>4, <2>6, <2>14, StateTypes DEF SentRead
  <2>15. CASE SentWrite(w)
    <3>1. SentMarker(s.seen) \in Marker
      BY <2>1, SettledTypes DEF WorkerState, Errors
    <3>2. QED
      BY <2>2, <2>3, <2>5, <2>6, <2>15, <3>1 DEF SentWrite, Stored, Rejected
  <2>16. CASE FailRead(w)
    BY <2>1, <2>2, <2>3, <2>4, <2>6, <2>16, StateTypes DEF FailRead
  <2>17. CASE FailWrite(w)
    <3>1. FailedMarker(s.seen, s.error) \in Marker
      BY <2>1, SettledTypes DEF WorkerState
    <3>2. QED
      BY <2>2, <2>3, <2>5, <2>6, <2>17, <3>1 DEF FailWrite, Stored, Rejected
  <2>18. CASE Die(w)
    BY <2>0, <2>3, <2>6, <2>18 DEF Die
  <2>19. QED
    BY <1>2, <2>8, <2>9, <2>10, <2>11, <2>12, <2>13, <2>14, <2>15, <2>16, <2>17, <2>18 DEF Step
<1>3. CASE UNCHANGED vars
  BY <1>3 DEF vars
<1>4. QED
  BY <1>1, <1>2, <1>3 DEF Next

\* Every variable keeps its type.
THEOREM TypeCorrect == Spec => []TypeOK
<1>1. Init => TypeOK
  BY RestingType DEF Init, TypeOK, Verdicts, NoMarker, Marker, Statuses, Errors
<1>2. QED
  BY <1>1, TypeStep, PTL DEF Spec
-----------------------------------------------------------------------------
\* The other workers keep their state.
Alone(w) == \A v \in Workers : v # w => worker'[v] = worker[v]

\* What a step inside one delivery leaves in w's state, field by field.
Moves(w, step, tries, seen, lease, error) ==
    /\ worker'[w].pc = step
    /\ worker'[w].started = worker[w].started
    /\ worker'[w].moment = worker[w].moment
    /\ worker'[w].tries = tries
    /\ worker'[w].seen = seen
    /\ worker'[w].lease = lease
    /\ worker'[w].error = error
    /\ worker'[w].verdict = worker[w].verdict
    /\ Alone(w)

LEMMA SettleEffect ==
    ASSUME TypeOK, NEW w \in Workers, NEW verdict, Settle(w, verdict)
    PROVE  /\ worker'[w] = Resting(verdict) /\ Alone(w)
           /\ worker'[w].pc = "idle" /\ worker'[w].lease = 0 /\ worker'[w].verdict = verdict
<1>1. worker'[w] = Resting(verdict) /\ Alone(w)
  BY DEF TypeOK, Settle, Put, Alone
<1>2. QED
  BY <1>1 DEF Resting

LEMMA EnterEffect ==
    ASSUME TypeOK, NEW w \in Workers, NEW step, Enter(w, step)
    PROVE  Moves(w, step, 0, worker[w].seen, worker[w].lease, worker[w].error)
BY DEF TypeOK, Enter, Put, Alone, Moves, WorkerState

LEMMA AgainEffect ==
    ASSUME TypeOK, NEW w \in Workers, NEW step, Again(w, step)
    PROVE  Moves(w, step, worker[w].tries + 1, worker[w].seen, worker[w].lease, worker[w].error)
BY DEF TypeOK, Again, Put, Alone, Moves, WorkerState

LEMMA FailEffect ==
    ASSUME TypeOK, NEW w \in Workers, NEW error, Fail(w, error)
    PROVE  Moves(w, "fail_read", 0, worker[w].seen, worker[w].lease, error)
BY DEF TypeOK, Fail, Put, Alone, Moves, WorkerState

LEMMA SeeEffect ==
    ASSUME TypeOK, NEW w \in Workers, NEW step,
           Put(w, [worker[w] EXCEPT !.pc = step, !.seen = marker])
    PROVE  Moves(w, step, worker[w].tries, marker, worker[w].lease, worker[w].error)
BY DEF TypeOK, Put, Alone, Moves, WorkerState

LEMMA ClaimEffect ==
    ASSUME TypeOK, NEW w \in Workers,
           Put(w, [worker[w] EXCEPT !.pc = "check", !.lease = minted + 1])
    PROVE  Moves(w, "check", worker[w].tries, worker[w].seen, minted + 1, worker[w].error)
BY DEF TypeOK, Put, Alone, Moves, WorkerState

\* The two steps that start a delivery.
LEMMA DeliverEffect ==
    ASSUME TypeOK, NEW w \in Workers, Deliver(w)
    PROVE  /\ worker'[w].pc = "queued" /\ worker'[w].started = now /\ worker'[w].lease = 0
           /\ worker'[w].tries = 0 /\ worker'[w].verdict = "none"
           /\ Alone(w)
BY DEF TypeOK, Deliver, Put, Resting, Alone

LEMMA BeginEffect ==
    ASSUME TypeOK, NEW w \in Workers, BeginClaim(w)
    PROVE  /\ worker[w].pc = "queued" /\ worker'[w].pc = "claim_read"
           /\ worker'[w].started = worker[w].started /\ worker'[w].moment = now
           /\ worker'[w].lease = worker[w].lease /\ worker'[w].tries = 0
           /\ worker'[w].verdict = worker[w].verdict
           /\ Alone(w)
BY DEF TypeOK, BeginClaim, At, Put, Alone, WorkerState
-----------------------------------------------------------------------------
\* A step of w that mints no lease keeps the leases distinct.
LEMMA LeasesKept ==
    ASSUME TypeOK, LeasesDistinct, NEW w \in Workers, Alone(w),
           marker'.lease = marker.lease, minted' = minted,
           worker'[w].lease \in {0, worker[w].lease},
           Claimed(w)' => Claimed(w) /\ worker'[w].lease = worker[w].lease
    PROVE  LeasesDistinct'
<1>1. ASSUME NEW v \in Workers
      PROVE  /\ worker'[v].lease <= minted' /\ (Claimed(v)' => worker'[v].lease > 0)
             /\ worker'[v].lease \in {0, worker[v].lease}
  <2>1. worker[v].lease \in Nat /\ minted \in Nat
    BY DEF TypeOK, WorkerState
  <2>2. CASE v = w
    BY <2>1, <2>2 DEF LeasesDistinct
  <2>3. CASE v # w
    BY <2>1, <2>3 DEF LeasesDistinct, Alone, Claimed, Sending, Failing
  <2>4. QED
    BY <2>2, <2>3
<1>2. QED
  BY <1>1 DEF LeasesDistinct

\* A step of w that writes no marker keeps the invariant if w's new state has w's part of it.
LEMMA LocalStep ==
    ASSUME IInv, TypeOK', NEW w \in Workers, Alone(w), UNCHANGED <<marker, now, minted>>,
           worker'[w].lease \in {0, worker[w].lease},
           Claimed(w)' => Claimed(w) /\ worker'[w].lease = worker[w].lease,
           InTime(w)', StepHolds(w)'
    PROVE  IInv'
<1> USE DEF IInv
<1>1. ASSUME NEW v \in Workers PROVE InTime(v)' /\ StepHolds(v)'
  <2>1. CASE v = w
    BY <2>1
  <2>2. CASE v # w
    <3>1. worker'[v] = worker[v] /\ InTime(v) /\ StepHolds(v)
      BY <2>2 DEF Alone
    <3>2. QED
      BY <3>1 DEF InTime, StepHolds, Live, At, Holding, Failing
  <2>3. QED
    BY <2>1, <2>2
<1>2. LeasesDistinct'
  BY LeasesKept
<1>3. ExpiryOfLease'
  BY DEF ExpiryOfLease
<1>4. QED
  BY <1>1, <1>2, <1>3

\* The same for a step that ends a delivery.
LEMMA SettleStep ==
    ASSUME IInv, TypeOK', NEW w \in Workers, NEW verdict, Settle(w, verdict),
           UNCHANGED <<marker, now, minted>>
    PROVE  IInv'
<1>1. worker'[w] = Resting(verdict) /\ Alone(w)
  BY SettleEffect DEF IInv
<1>2. worker'[w].pc = "idle" /\ worker'[w].lease = 0
  BY <1>1 DEF Resting
<1>3. InTime(w)' /\ StepHolds(w)' /\ ~ Claimed(w)'
  BY <1>2 DEF InTime, StepHolds, Live, At, Claimed, Sending, Failing
<1>4. QED
  BY <1>1, <1>2, <1>3, LocalStep

\* ... and for one that moves w from one of its loops to another, its claim unchanged.
LEMMA MoveStep ==
    ASSUME IInv, TypeOK', NEW w \in Workers, NEW step, NEW tries, NEW seen, NEW error,
           At(w, "queued") = FALSE, Live(w),
           Moves(w, step, tries, seen, worker[w].lease, error), step # "queued",
           UNCHANGED <<marker, now, minted>>,
           Claimed(w)' => Claimed(w), StepHolds(w)'
    PROVE  IInv'
<1>1. InTime(w)'
  BY DEF IInv, InTime, Live, At, Moves
<1>2. Alone(w) /\ worker'[w].lease = worker[w].lease
  BY DEF Moves
<1>3. QED
  BY <1>1, <1>2, LocalStep

LEMMA LocalActions ==
    ASSUME IInv, TypeOK', NEW w \in Workers,
           Deliver(w) \/ BeginClaim(w) \/ ClaimRead(w) \/ CheckReport(w) \/ SendEmail(w)
             \/ SentRead(w) \/ FailRead(w) \/ Die(w)
    PROVE  IInv'
<1> USE DEF At
<1>1. TypeOK
  BY DEF IInv
<1>2. CASE Deliver(w)
  <2>1. /\ worker'[w].pc = "queued" /\ worker'[w].started = now /\ worker'[w].lease = 0
        /\ Alone(w)
    BY <1>1, <1>2, DeliverEffect
  <2>2. InTime(w)' /\ StepHolds(w)' /\ ~ Claimed(w)' /\ UNCHANGED <<marker, now, minted>>
    BY <1>1, <1>2, <2>1, ConstantsAssumption
    DEF Deliver, InTime, StepHolds, Live, Claimed, Sending, Failing, TypeOK
  <2>3. QED
    BY <2>1, <2>2, LocalStep
<1>3. CASE BeginClaim(w)
  <2>1. /\ worker[w].pc = "queued" /\ worker'[w].pc = "claim_read"
        /\ worker'[w].started = worker[w].started /\ worker'[w].moment = now
        /\ worker'[w].lease = worker[w].lease
        /\ Alone(w)
    BY <1>1, <1>3, BeginEffect
  <2>2. UNCHANGED <<marker, now, minted>>
    BY <1>3 DEF BeginClaim
  <2>3. InTime(w)' /\ StepHolds(w)' /\ ~ Claimed(w)'
    BY <1>1, <2>1, <2>2 DEF IInv, InTime, StepHolds, Live, Claimed, Sending, Failing, TypeOK
  <2>4. QED
    BY <2>1, <2>2, <2>3, LocalStep
<1>4. CASE ClaimRead(w)
  <2>1. UNCHANGED <<marker, now, minted>> /\ worker[w].pc = "claim_read"
    BY <1>4 DEF ClaimRead
  <2>2. CASE /\ Claimable(marker, worker[w].moment)
             /\ Put(w, [worker[w] EXCEPT !.pc = "claim_write", !.seen = marker])
    <3>1. Moves(w, "claim_write", worker[w].tries, marker, worker[w].lease, worker[w].error)
      BY <1>1, <2>2, SeeEffect
    <3>2. StepHolds(w)' /\ ~ Claimed(w)'
      BY <2>1, <2>2, <3>1 DEF Moves, StepHolds, Claimed, Sending, Failing
    <3>3. QED
      BY <2>1, <3>1, <3>2, MoveStep DEF Live
  <2>3. CASE \E verdict \in Verdicts : Settle(w, verdict)
    BY <2>1, <2>3, SettleStep
  <2>4. QED
    BY <1>4, <2>2, <2>3 DEF ClaimRead, Claimable, Grants, Verdicts
<1>5. ASSUME NEW error \in Errors, Fail(w, error), worker[w].pc \in {"check", "send"},
             UNCHANGED <<marker, now, minted>>
      PROVE  IInv'
  <2>1. Moves(w, "fail_read", 0, worker[w].seen, worker[w].lease, error)
    BY <1>1, <1>5, FailEffect
  <2>2. Holding(w)
    BY <1>5 DEF IInv, StepHolds
  <2>3. StepHolds(w)' /\ Claimed(w)
    BY <1>5, <2>1, <2>2 DEF Moves, StepHolds, Holding, Claimed, Sending, Failing
  <2>4. QED
    BY <1>5, <2>1, <2>3, MoveStep DEF Live
<1>6. ASSUME NEW tries, Moves(w, "send", tries, worker[w].seen, worker[w].lease, worker[w].error),
             worker[w].pc \in {"check", "send"}, UNCHANGED <<marker, now, minted>>
      PROVE  IInv'
  <2>1. Holding(w)
    BY <1>6 DEF IInv, StepHolds
  <2>2. StepHolds(w)' /\ Claimed(w)
    BY <1>6, <2>1 DEF Moves, StepHolds, Holding, Claimed, Sending, Failing
  <2>3. QED
    BY <1>6, <2>2, MoveStep DEF Live
<1>7. CASE CheckReport(w)
  <2>1. UNCHANGED <<marker, now, minted>> /\ worker[w].pc = "check"
    BY <1>7 DEF CheckReport
  <2>2. CASE Enter(w, "send")
    BY <1>1, <1>6, <2>1, <2>2, EnterEffect
  <2>3. CASE \E error \in {"retryable", "permanent"} : Fail(w, error)
    BY <1>5, <2>1, <2>3 DEF Errors
  <2>4. QED
    BY <1>7, <2>2, <2>3 DEF CheckReport
<1>8. CASE SendEmail(w)
  <2>1. UNCHANGED <<marker, now, minted>> /\ worker[w].pc = "send"
    BY <1>8 DEF SendEmail
  <2>2. CASE Enter(w, "sent_read")
    <3>1. Moves(w, "sent_read", 0, worker[w].seen, worker[w].lease, worker[w].error)
      BY <1>1, <2>2, EnterEffect
    <3>2. Holding(w)
      BY <2>1 DEF IInv, StepHolds
    <3>3. StepHolds(w)' /\ Claimed(w)
      BY <2>1, <3>1, <3>2 DEF Moves, StepHolds, Holding, Claimed, Sending, Failing
    <3>4. QED
      BY <2>1, <3>1, <3>3, MoveStep DEF Live
  <2>3. CASE RetrySend(w)
    <3>1. CASE Again(w, "send")
      BY <1>1, <1>6, <2>1, <3>1, AgainEffect
    <3>2. CASE Fail(w, "retryable")
      BY <1>5, <2>1, <3>2 DEF Errors
    <3>3. QED
      BY <2>3, <3>1, <3>2 DEF RetrySend
  <2>4. CASE Fail(w, "permanent")
    BY <1>5, <2>1, <2>4 DEF Errors
  <2>5. QED
    BY <1>8, <2>2, <2>3, <2>4 DEF SendEmail
<1>9. CASE SentRead(w)
  <2>1. UNCHANGED <<marker, now, minted>> /\ worker[w].pc = "sent_read"
    BY <1>9 DEF SentRead
  <2>2. CASE /\ Writable(marker, worker[w].lease)
             /\ Put(w, [worker[w] EXCEPT !.pc = "sent_write", !.seen = marker])
    <3>1. Moves(w, "sent_write", worker[w].tries, marker, worker[w].lease, worker[w].error)
      BY <1>1, <2>2, SeeEffect
    <3>2. \/ Holding(w)
          \/ marker.status = "sent" /\ marker.lease = worker[w].lease
      BY <2>1 DEF IInv, StepHolds
    <3>3. StepHolds(w)' /\ Claimed(w)
      BY <2>1, <2>2, <3>1, <3>2 DEF Moves, StepHolds, Holding, Claimed, Sending, Failing
    <3>4. QED
      BY <2>1, <3>1, <3>3, MoveStep DEF Live
  <2>3. CASE \E verdict \in Verdicts : Settle(w, verdict)
    BY <2>1, <2>3, SettleStep
  <2>4. QED
    BY <1>9, <2>2, <2>3 DEF SentRead, Verdicts
<1>10. CASE FailRead(w)
  <2>1. UNCHANGED <<marker, now, minted>> /\ worker[w].pc = "fail_read"
    BY <1>10 DEF FailRead
  <2>2. CASE /\ Writable(marker, worker[w].lease)
             /\ Put(w, [worker[w] EXCEPT !.pc = "fail_write", !.seen = marker])
    <3>1. Moves(w, "fail_write", worker[w].tries, marker, worker[w].lease, worker[w].error)
      BY <1>1, <2>2, SeeEffect
    <3>2. StepHolds(w)' /\ Claimed(w)
      BY <2>1, <2>2, <3>1 DEF IInv, Moves, StepHolds, Holding, Claimed, Sending, Failing
    <3>3. QED
      BY <2>1, <3>1, <3>2, MoveStep DEF Live
  <2>3. CASE Settle(w, "returned")
    BY <2>1, <2>3, SettleStep
  <2>4. QED
    BY <1>10, <2>2, <2>3 DEF FailRead
<1>11. CASE Die(w)
  BY <1>11, SettleStep DEF Die
<1>12. QED
  BY <1>2, <1>3, <1>4, <1>7, <1>8, <1>9, <1>10, <1>11
-----------------------------------------------------------------------------
\* While v holds the marker, no other claim can be granted on it.
LEMMA HolderIsInFlight ==
    ASSUME IInv, NEW v \in Workers, NEW w \in Workers, Holding(v), Live(v), ~ At(v, "queued"),
           Live(w), ~ At(w, "queued")
    PROVE  ~ Claimable(marker, worker[w].moment) /\ lease_active(marker, now)
<1>1. /\ worker[v].started <= worker[v].moment /\ now <= worker[v].started + LambdaTimeout
      /\ worker[w].moment <= now
  BY DEF IInv, InTime
<1>2. /\ worker[v].started \in Nat /\ worker[v].moment \in Nat /\ worker[w].moment \in Nat
      /\ now \in Nat
  BY DEF IInv, TypeOK, WorkerState
<1>3. marker.expires > now /\ marker.expires > worker[w].moment
  BY <1>1, <1>2, ConstantsAssumption DEF Holding
<1>4. marker.status = "dispatching"
  BY DEF Holding
<1>5. lease_active(marker, now) /\ lease_active(marker, worker[w].moment)
  BY <1>3, <1>4 DEF lease_active
<1>6. ClaimReason(marker, worker[w].moment) = "in_flight"
  BY <1>4, <1>5 DEF ClaimReason, retryable_after
<1>7. QED
  BY <1>5, <1>6 DEF Claimable, Grants

\* Two workers that have claimed never carry the same lease.
LEMMA OneHolder ==
    ASSUME IInv, NEW v \in Workers, NEW w \in Workers, v # w, Claimed(v)
    PROVE  worker[v].lease # worker[w].lease
BY DEF IInv, LeasesDistinct, TypeOK, WorkerState

\* The parts of the invariant that a stored write of w's own outcome could break for others.
LEMMA OutcomeStep ==
    ASSUME IInv, NEW w \in Workers, Claimed(w), Writable(marker, worker[w].lease),
           marker'.lease = marker.lease, Alone(w), UNCHANGED <<now, minted>>,
           NEW v \in Workers, v # w
    PROVE  InTime(v)' /\ StepHolds(v)'
<1>1. marker.lease = worker[w].lease /\ marker.status # "sent"
  BY DEF Writable, holds_lease
<1>2. ~ Holding(v) \/ ~ Claimed(v)
  BY <1>1, OneHolder DEF Holding
<1>3. worker'[v] = worker[v] /\ InTime(v) /\ StepHolds(v)
  BY DEF Alone, IInv
<1>4. ~ Sending(v)
  BY <1>1, <1>2, <1>3 DEF StepHolds, Sending, Claimed
<1>5. Failing(v) => marker'.lease # worker'[v].lease
  BY <1>1, <1>3, OneHolder DEF Claimed
<1>6. QED
  BY <1>3, <1>4, <1>5 DEF InTime, StepHolds, Live, At, Sending, Failing

LEMMA ClaimWriteStep ==
    ASSUME IInv, TypeOK', NEW w \in Workers, ClaimWrite(w)
    PROVE  IInv'
<1> USE DEF At
<1>1. TypeOK
  BY DEF IInv
<1>2. worker[w].pc = "claim_write" /\ now' = now
  BY DEF ClaimWrite
<1>3. CASE Rejected(w) /\ Again(w, "claim_read") /\ UNCHANGED minted
  <2>1. Moves(w, "claim_read", worker[w].tries + 1, worker[w].seen, worker[w].lease, worker[w].error)
    BY <1>1, <1>3, AgainEffect
  <2>2. StepHolds(w)' /\ ~ Claimed(w)'
    BY <2>1 DEF Moves, StepHolds, Claimed, Sending, Failing
  <2>3. QED
    BY <1>2, <1>3, <2>1, <2>2, MoveStep DEF Live, Rejected
<1>4. CASE /\ Stored(w, ClaimedMarker(worker[w].seen, worker[w].moment, minted + 1, Lease))
           /\ minted' = minted + 1
           /\ \/ Put(w, [worker[w] EXCEPT !.pc = "check", !.lease = minted + 1])
              \/ Again(w, "claim_read")
  <2>1. \/ Moves(w, "check", worker[w].tries, worker[w].seen, minted + 1, worker[w].error)
        \/ Moves(w, "claim_read", worker[w].tries + 1, worker[w].seen, worker[w].lease,
                 worker[w].error)
    BY <1>1, <1>4, AgainEffect, ClaimEffect
  <2>2. Claimable(marker, worker[w].moment)
    BY <1>2, <1>4 DEF IInv, StepHolds, Stored
  <2>3. /\ marker'.status = "dispatching" /\ marker'.lease = minted + 1
        /\ marker'.expires = worker[w].moment + Lease
    BY <1>4 DEF Stored, ClaimedMarker
  <2>4. minted \in Nat /\ \A v \in Workers : worker[v].lease \in Nat /\ worker[v].lease <= minted
    BY <1>1 DEF IInv, LeasesDistinct, TypeOK, WorkerState
  <2>5. ASSUME NEW v \in Workers, v # w PROVE InTime(v)' /\ StepHolds(v)'
    <3>1. worker'[v] = worker[v] /\ InTime(v) /\ StepHolds(v)
      BY <2>1, <2>5 DEF Moves, Alone, IInv
    <3>2. ~ Sending(v)
      <4>1. Sending(v) => ~ Holding(v)
        BY <1>2, <2>2, HolderIsInFlight DEF Live, Sending
      <4>2. marker.status # "sent"
        BY <2>2 DEF Claimable, Grants, ClaimReason
      <4>3. QED
        BY <3>1, <4>1, <4>2 DEF StepHolds, Sending
    <3>3. marker'.lease # worker'[v].lease
      BY <2>3, <2>4, <3>1
    <3>4. QED
      BY <1>2, <3>1, <3>2, <3>3 DEF InTime, StepHolds, Live, Sending, Failing
  <2>6. InTime(w)' /\ StepHolds(w)'
    BY <1>2, <2>1, <2>3 DEF Moves, IInv, InTime, StepHolds, Live, Holding, Failing
  <2>7. LeasesDistinct'
    <3>1. worker[w].lease = 0 \/ worker[w].lease \in 0..minted
      BY <2>4
    <3>2. \A v \in Workers : v # w => worker'[v] = worker[v]
      BY <2>1 DEF Moves, Alone
    <3>3. \/ worker'[w].lease = minted + 1 /\ worker'[w].pc = "check"
          \/ worker'[w].lease = worker[w].lease /\ worker'[w].pc = "claim_read"
      BY <2>1 DEF Moves
    <3>4. \A v \in Workers : worker'[v].lease <= minted' /\ (Claimed(v)' => worker'[v].lease > 0)
      BY <1>4, <2>4, <3>2, <3>3 DEF IInv, LeasesDistinct, Claimed, Sending, Failing
    <3>5. \A u, v \in Workers : worker'[u].lease = worker'[v].lease => u = v \/ worker'[u].lease = 0
      BY <2>4, <3>2, <3>3 DEF IInv, LeasesDistinct
    <3>6. QED
      BY <1>4, <2>3, <2>4, <3>4, <3>5 DEF LeasesDistinct
  <2>8. ExpiryOfLease'
    BY <2>3 DEF ExpiryOfLease
  <2>9. QED
    BY <2>5, <2>6, <2>7, <2>8 DEF IInv
<1>5. QED
  BY <1>3, <1>4 DEF ClaimWrite

LEMMA SentWriteStep ==
    ASSUME IInv, TypeOK', NEW w \in Workers, SentWrite(w)
    PROVE  IInv'
<1> USE DEF At
<1>1. TypeOK
  BY DEF IInv
<1>2. worker[w].pc = "sent_write" /\ UNCHANGED <<now, minted>> /\ Claimed(w)
  BY DEF SentWrite, Claimed, Sending
<1>3. worker[w].seen = marker /\ Writable(marker, worker[w].lease)
  BY <1>2 DEF IInv, StepHolds
<1>0. CASE Rejected(w) /\ Again(w, "sent_read")
  <2>1. Moves(w, "sent_read", worker[w].tries + 1, worker[w].seen, worker[w].lease, worker[w].error)
    BY <1>0, <1>1, AgainEffect
  <2>2. StepHolds(w)'
    BY <1>0, <1>2, <2>1 DEF IInv, Moves, StepHolds, Holding, Failing, Rejected
  <2>3. QED
    BY <1>0, <1>2, <2>1, <2>2, MoveStep DEF Live, Rejected
<1> SUFFICES ASSUME marker' = SentMarker(marker), Settle(w, "acked") \/ Again(w, "sent_read")
             PROVE  IInv'
  BY <1>0, <1>3 DEF SentWrite, Stored
<1>4. marker' = SentMarker(marker) /\ (Settle(w, "acked") \/ Again(w, "sent_read"))
  OBVIOUS
<1>5. marker'.status = "sent" /\ marker'.lease = marker.lease /\ marker'.expires = 0
  BY <1>1, <1>4 DEF SentMarker, TypeOK, Marker
<1>6. \/ worker'[w] = Resting("acked") /\ Alone(w)
      \/ Moves(w, "sent_read", worker[w].tries + 1, worker[w].seen, worker[w].lease,
               worker[w].error)
  BY <1>1, <1>4, SettleEffect, AgainEffect
<1>7. /\ Alone(w)
      /\ \/ worker'[w].pc = "idle" /\ worker'[w].lease = 0
         \/ /\ worker'[w].pc = "sent_read" /\ worker'[w].lease = worker[w].lease
            /\ worker'[w].started = worker[w].started /\ worker'[w].moment = worker[w].moment
  BY <1>6 DEF Resting, Moves
<1>8. InTime(w)' /\ StepHolds(w)'
  <2>1. marker.lease = worker[w].lease
    BY <1>3 DEF Writable, holds_lease
  <2>2. QED
    BY <1>2, <1>5, <1>7, <2>1 DEF IInv, InTime, StepHolds, Live, Failing
<1>9. \A v \in Workers : InTime(v)' /\ StepHolds(v)'
  BY <1>2, <1>3, <1>5, <1>7, <1>8, OutcomeStep
<1>10. LeasesDistinct'
  <2>1. Claimed(w)' => worker'[w].lease = worker[w].lease
    BY <1>7 DEF Claimed, Sending, Failing
  <2>2. QED
    BY <1>2, <1>5, <1>7, <2>1, LeasesKept DEF IInv
<1>11. QED
  BY <1>5, <1>9, <1>10 DEF IInv, ExpiryOfLease

LEMMA FailWriteStep ==
    ASSUME IInv, TypeOK', NEW w \in Workers, FailWrite(w)
    PROVE  IInv'
<1> USE DEF At
<1>1. TypeOK
  BY DEF IInv
<1>2. worker[w].pc = "fail_write" /\ UNCHANGED <<now, minted>> /\ Claimed(w)
  BY DEF FailWrite, Claimed, Failing
<1>3. CASE Rejected(w) /\ Again(w, "fail_read")
  <2>1. Moves(w, "fail_read", worker[w].tries + 1, worker[w].seen, worker[w].lease, worker[w].error)
    BY <1>1, <1>3, AgainEffect
  <2>2. StepHolds(w)'
    BY <1>2, <1>3, <2>1 DEF IInv, Moves, StepHolds, Holding, Failing, Rejected
  <2>3. QED
    BY <1>2, <1>3, <2>1, <2>2, MoveStep DEF Live, Rejected
<1>4. CASE /\ Stored(w, FailedMarker(worker[w].seen, worker[w].error))
           /\ Settle(w, "returned") \/ Again(w, "fail_read")
  <2>1. marker' = FailedMarker(marker, worker[w].error) /\ Writable(marker, worker[w].lease)
    BY <1>2, <1>4 DEF IInv, StepHolds, Stored
  <2>2. /\ marker'.status = "failed" /\ marker'.lease = marker.lease /\ marker'.expires = 0
        /\ marker'.error = worker[w].error
    BY <1>1, <2>1 DEF FailedMarker, TypeOK, Marker
  <2>3. \/ worker'[w] = Resting("returned") /\ Alone(w)
        \/ Moves(w, "fail_read", worker[w].tries + 1, worker[w].seen, worker[w].lease,
                 worker[w].error)
    BY <1>1, <1>4, SettleEffect, AgainEffect
  <2>4. /\ Alone(w)
        /\ \/ worker'[w].pc = "idle" /\ worker'[w].lease = 0
           \/ /\ worker'[w].pc = "fail_read" /\ worker'[w].lease = worker[w].lease
              /\ worker'[w].started = worker[w].started /\ worker'[w].moment = worker[w].moment
              /\ worker'[w].error = worker[w].error
    BY <2>3 DEF Resting, Moves
  <2>5. InTime(w)' /\ StepHolds(w)'
    BY <1>2, <2>2, <2>4 DEF IInv, InTime, StepHolds, Live, Failing
  <2>6. \A v \in Workers : InTime(v)' /\ StepHolds(v)'
    BY <1>2, <2>1, <2>2, <2>4, <2>5, OutcomeStep
  <2>7. LeasesDistinct'
    <3>1. Claimed(w)' => worker'[w].lease = worker[w].lease
      BY <2>4 DEF Claimed, Sending, Failing
    <3>2. QED
      BY <1>2, <2>2, <2>4, <3>1, LeasesKept DEF IInv
  <2>8. QED
    BY <2>2, <2>6, <2>7 DEF IInv, ExpiryOfLease
<1>5. QED
  BY <1>3, <1>4 DEF FailWrite

LEMMA TickStep ==
    ASSUME IInv, TypeOK', Tick
    PROVE  IInv'
<1>1. now' = now + 1 /\ UNCHANGED <<marker, worker, minted>>
  BY DEF Tick
<1>2. ASSUME NEW w \in Workers PROVE InTime(w)' /\ StepHolds(w)'
  <2>1. InTime(w) /\ StepHolds(w) /\ (Live(w) => now < worker[w].started + LambdaTimeout)
    BY DEF IInv, Tick
  <2>2. worker[w].started \in Nat /\ worker[w].moment \in Nat /\ now \in Nat
    BY DEF IInv, TypeOK, WorkerState
  <2>3. InTime(w)'
    BY <1>1, <2>1, <2>2, ConstantsAssumption DEF InTime, Live, At
  <2>4. StepHolds(w)'
    BY <1>1, <2>1 DEF StepHolds, At, Holding, Failing
  <2>5. QED
    BY <2>3, <2>4
<1>3. LeasesDistinct' /\ ExpiryOfLease'
  BY <1>1 DEF IInv, LeasesDistinct, ExpiryOfLease, Claimed, Sending, Failing
<1>4. QED
  BY <1>2, <1>3 DEF IInv

LEMMA InvStep == IInv /\ [Next]_vars => IInv'
<1> SUFFICES ASSUME IInv, [Next]_vars PROVE IInv'
  OBVIOUS
<1>1. TypeOK'
  BY TypeStep DEF IInv
<1>2. CASE Tick
  BY <1>1, <1>2, TickStep
<1>3. ASSUME NEW w \in Workers, Step(w) PROVE IInv'
  BY <1>1, <1>3, LocalActions, ClaimWriteStep, SentWriteStep, FailWriteStep DEF Step
<1>4. CASE UNCHANGED vars
  BY <1>4 DEF vars, IInv, TypeOK, InTime, StepHolds, LeasesDistinct, ExpiryOfLease, Live, At,
              Holding, Claimed, Sending, Failing
<1>5. QED
  BY <1>2, <1>3, <1>4 DEF Next

\* The inductive invariant: who holds the marker, and what every worker's step has read.
THEOREM Inductive == Spec => []IInv
<1>1. Init => IInv
  <2>1. Init => TypeOK
    BY RestingType DEF Init, TypeOK, Verdicts, NoMarker, Marker, Statuses, Errors
  <2>2. QED
    BY <2>1 DEF Init, IInv, InTime, StepHolds, LeasesDistinct, ExpiryOfLease, Live, At, Resting,
                Holding, Claimed, Sending, Failing, NoMarker
<1>2. QED
  BY <1>1, InvStep, PTL DEF Spec
-----------------------------------------------------------------------------
LEMMA OneSenderInv == IInv => OneSender
<1> SUFFICES ASSUME IInv, NEW v \in Workers, NEW w \in Workers, Sending(v), Sending(w)
             PROVE  v = w
  BY DEF OneSender
<1>1. marker.lease = worker[v].lease /\ marker.lease = worker[w].lease
  BY DEF IInv, StepHolds, Sending, Holding
<1>2. QED
  BY <1>1, OneHolder DEF Claimed

\* At most one invocation at a time is between its granted claim and the end of mark_sent,
\* for any number of workers and deliveries, whenever the lease outlasts the Lambda timeout.
THEOREM MutualExclusion == Spec => []OneSender
BY Inductive, OneSenderInv, PTL

\* A worker in front of its SES call owns a lease that is still running.
THEOREM LeaseHeldAtSend == Spec => []SenderHoldsLease
<1>1. IInv => SenderHoldsLease
  <2> SUFFICES ASSUME IInv, NEW w \in Workers, worker[w].pc \in {"check", "send"}
               PROVE  lease_active(marker, now) /\ holds_lease(marker, worker[w].lease)
    BY DEF SenderHoldsLease
  <2>1. Holding(w)
    BY DEF IInv, StepHolds
  <2>2. QED
    BY <2>1, HolderIsInFlight DEF Holding, holds_lease, Live, At
<1>2. QED
  BY <1>1, Inductive, PTL

-----------------------------------------------------------------------------
\* The writes a marker can meet, with what the invariant says of the marker they replace.
LEMMA MarkerWrites ==
    ASSUME IInv, [Next]_vars, marker' # marker
    PROVE  \E w \in Workers :
             \/ /\ ClaimWrite(w) /\ Claimable(marker, worker[w].moment) /\ minted' = minted + 1
                /\ marker' = ClaimedMarker(marker, worker[w].moment, minted + 1, Lease)
             \/ /\ SentWrite(w) /\ Holding(w)
                /\ marker' = SentMarker(marker)
             \/ /\ FailWrite(w)
                /\ Holding(w) \/ (marker.status = "failed" /\ marker.error = worker[w].error)
                /\ marker' = FailedMarker(marker, worker[w].error)
<1>1. PICK w \in Workers : ClaimWrite(w) \/ SentWrite(w) \/ FailWrite(w)
  BY DEF Next, Tick, vars, Step, Deliver, BeginClaim, ClaimRead, CheckReport, SendEmail, SentRead,
         FailRead, Die
<1>2. StepHolds(w)
  BY DEF IInv
<1>3. CASE ClaimWrite(w)
  BY <1>2, <1>3 DEF ClaimWrite, Stored, Rejected, StepHolds
<1>4. CASE SentWrite(w)
  BY <1>2, <1>4 DEF SentWrite, Stored, Rejected, StepHolds, At, Writable
<1>5. CASE FailWrite(w)
  <2>1. worker[w].seen = marker /\ marker' = FailedMarker(marker, worker[w].error)
    BY <1>5 DEF FailWrite, Stored, Rejected
  <2>2. marker.lease = worker[w].lease /\ Failing(w)
    BY <1>2, <1>5, <2>1 DEF FailWrite, StepHolds, Writable, holds_lease, At, Failing
  <2>3. QED
    BY <1>2, <1>5, <2>1, <2>2 DEF StepHolds
<1>6. QED
  BY <1>1, <1>3, <1>4, <1>5

\* A `sent` marker is never written again and its agent never emailed again.
THEOREM SentTerminal == Spec => SentIsFinal
<1>1. IInv /\ [Next]_vars => [marker.status = "sent" => UNCHANGED <<marker, mails>>]_vars
  <2> SUFFICES ASSUME IInv, [Next]_vars, marker.status = "sent"
               PROVE  UNCHANGED <<marker, mails>>
    OBVIOUS
  <2>1. marker' = marker
    BY MarkerWrites DEF Claimable, Grants, ClaimReason, lease_active, Holding
  <2>2. \A w \in Workers : worker[w].pc # "send"
    BY DEF IInv, StepHolds, Holding
  <2>3. mails' = mails
    BY <2>2 DEF Next, Tick, vars, Step, Deliver, BeginClaim, ClaimRead, ClaimWrite, CheckReport,
                SendEmail, SentRead, SentWrite, FailRead, FailWrite, Die, At
  <2>4. QED
    BY <2>1, <2>3
<1>2. QED
  BY <1>1, Inductive, PTL DEF Spec, SentIsFinal
-----------------------------------------------------------------------------
\* Acknowledged messages: nothing reopens a closed marker.
LEMMA ClosedStays == IInv /\ [Next]_vars /\ Closed => Closed'
<1> SUFFICES ASSUME IInv, [Next]_vars, Closed, marker' # marker PROVE Closed'
  BY DEF Closed
<1>1. PICK w \in Workers : FailWrite(w) /\ marker.status = "failed"
             /\ marker.error = worker[w].error /\ marker' = FailedMarker(marker, worker[w].error)
  BY MarkerWrites DEF Closed, Claimable, Grants, ClaimReason, lease_active, retryable_after, Holding
<1>2. marker'.status = "failed" /\ marker'.error = marker.error
  BY <1>1 DEF FailedMarker, IInv, TypeOK, Marker
<1>3. QED
  BY <1>1, <1>2 DEF Closed

LEMMA StepAlone ==
    ASSUME TypeOK, NEW w \in Workers, Step(w)
    PROVE  Alone(w)
BY DEF Step, Deliver, BeginClaim, ClaimRead, ClaimWrite, CheckReport, SendEmail, SentRead, SentWrite,
       FailRead, FailWrite, Die, Put, Settle, Enter, Again, Fail, RetrySend, TypeOK, Alone

\* A worker's verdict is the old one until it settles.
LEMMA VerdictKept ==
    ASSUME TypeOK, NEW w \in Workers
    PROVE  /\ \A step : Enter(w, step) \/ Again(w, step) => worker'[w].verdict = worker[w].verdict
           /\ \A error : Fail(w, error) => worker'[w].verdict = worker[w].verdict
           /\ \A step : Put(w, [worker[w] EXCEPT !.pc = step, !.seen = marker]) => worker'[w].verdict = worker[w].verdict
           /\ Put(w, [worker[w] EXCEPT !.pc = "check", !.lease = minted + 1]) => worker'[w].verdict = worker[w].verdict
           /\ \A verdict : Settle(w, verdict) => worker'[w].verdict = verdict
<1>1. ASSUME NEW step, Enter(w, step) PROVE worker'[w].verdict = worker[w].verdict
  BY <1>1, EnterEffect DEF Moves
<1>2. ASSUME NEW step, Again(w, step) PROVE worker'[w].verdict = worker[w].verdict
  BY <1>2, AgainEffect DEF Moves
<1>3. ASSUME NEW error, Fail(w, error) PROVE worker'[w].verdict = worker[w].verdict
  BY <1>3, FailEffect DEF Moves
<1>4. ASSUME NEW step, Put(w, [worker[w] EXCEPT !.pc = step, !.seen = marker]) PROVE worker'[w].verdict = worker[w].verdict
  BY <1>4, SeeEffect DEF Moves
<1>5. ASSUME Put(w, [worker[w] EXCEPT !.pc = "check", !.lease = minted + 1]) PROVE worker'[w].verdict = worker[w].verdict
  BY <1>5, ClaimEffect DEF Moves
<1>6. ASSUME NEW verdict, Settle(w, verdict) PROVE worker'[w].verdict = verdict
  BY <1>6, SettleEffect
<1>7. QED
  BY <1>1, <1>2, <1>3, <1>4, <1>5, <1>6

\* Where a step leaves w.
LEMMA Landing ==
    ASSUME TypeOK, NEW w \in Workers
    PROVE  /\ \A step : Enter(w, step) \/ Again(w, step) => worker'[w].pc = step
           /\ \A error : Fail(w, error) => worker'[w].pc = "fail_read"
           /\ \A step : Put(w, [worker[w] EXCEPT !.pc = step, !.seen = marker]) => worker'[w].pc = step
           /\ Put(w, [worker[w] EXCEPT !.pc = "check", !.lease = minted + 1]) => worker'[w].pc = "check"
           /\ \A verdict : Settle(w, verdict) => worker'[w].pc = "idle"
<1>1. ASSUME NEW step, Enter(w, step) PROVE worker'[w].pc = step
  BY <1>1, EnterEffect DEF Moves
<1>2. ASSUME NEW step, Again(w, step) PROVE worker'[w].pc = step
  BY <1>2, AgainEffect DEF Moves
<1>3. ASSUME NEW error, Fail(w, error) PROVE worker'[w].pc = "fail_read"
  BY <1>3, FailEffect DEF Moves
<1>4. ASSUME NEW step, Put(w, [worker[w] EXCEPT !.pc = step, !.seen = marker]) PROVE worker'[w].pc = step
  BY <1>4, SeeEffect DEF Moves
<1>5. ASSUME Put(w, [worker[w] EXCEPT !.pc = "check", !.lease = minted + 1]) PROVE worker'[w].pc = "check"
  BY <1>5, ClaimEffect DEF Moves
<1>6. ASSUME NEW verdict, Settle(w, verdict) PROVE worker'[w].pc = "idle"
  BY <1>6, SettleEffect
<1>7. QED
  BY <1>1, <1>2, <1>3, <1>4, <1>5, <1>6

LEMMA AckedStep == IInv /\ AckedIsSettled /\ [Next]_vars => AckedIsSettled'
<1> SUFFICES ASSUME IInv, AckedIsSettled, [Next]_vars, NEW w \in Workers,
                    worker'[w].verdict = "acked"
             PROVE  Closed'
  BY DEF AckedIsSettled
<1>1. CASE worker[w].verdict = "acked"
  BY <1>1, ClosedStays DEF AckedIsSettled
<1>2. CASE worker[w].verdict # "acked"
  <2>1. TypeOK
    BY DEF IInv
  <2>2. Step(w)
    BY <1>2, <2>1, StepAlone DEF Next, Tick, vars, Alone
  <2>3. CASE ClaimRead(w)
    <3> DEFINE reason == ClaimReason(marker, worker[w].moment)
    <3>1. reason \notin Grants /\ reason # "in_flight"
      BY <1>2, <2>1, <2>3, VerdictKept DEF ClaimRead, redeliver
    <3>2. marker.status \in Statuses
      BY <2>1 DEF TypeOK, Marker
    <3>3. Closed
      BY <3>1, <3>2 DEF ClaimReason, Grants, Closed, lease_active, retryable_after, Statuses
    <3>4. QED
      BY <2>3, <3>3 DEF ClaimRead, Closed
  <2>4. CASE SentRead(w)
    <3>1. ~ Writable(marker, worker[w].lease) /\ marker' = marker /\ At(w, "sent_read")
      BY <1>2, <2>1, <2>4, VerdictKept DEF SentRead
    <3>2. marker.status = "sent"
      BY <3>1 DEF IInv, StepHolds, Holding, Writable, holds_lease, At
    <3>3. QED
      BY <3>1, <3>2 DEF Closed
  <2>5. CASE SentWrite(w)
    <3>1. worker[w].seen = marker /\ At(w, "sent_write")
      BY <2>5 DEF SentWrite, IInv, StepHolds
    <3>2. marker' = SentMarker(marker)
      BY <1>2, <2>1, <2>5, <3>1, VerdictKept DEF SentWrite, Stored
    <3>3. QED
      BY <2>1, <3>2 DEF SentMarker, Closed, TypeOK, Marker
  <2>6. CASE Deliver(w) \/ BeginClaim(w)
    BY <1>2, <2>1, <2>6, DeliverEffect, BeginEffect
  <2>7. CASE ClaimWrite(w)
    BY <1>2, <2>1, <2>7, VerdictKept DEF ClaimWrite
  <2>8. CASE CheckReport(w) \/ SendEmail(w)
    BY <1>2, <2>1, <2>8, VerdictKept DEF CheckReport, SendEmail, RetrySend
  <2>9. CASE FailRead(w) \/ FailWrite(w) \/ Die(w)
    BY <1>2, <2>1, <2>9, VerdictKept DEF FailRead, FailWrite, Die
  <2>10. QED
    BY <2>2, <2>3, <2>4, <2>5, <2>6, <2>7, <2>8, <2>9 DEF Step
<1>3. QED
  BY <1>1, <1>2

\* A message is acknowledged only once its agent has the email or is failed for the day.
THEOREM AcknowledgedIsSettled == Spec => []AckedIsSettled
<1>1. Init => AckedIsSettled
  BY DEF Init, AckedIsSettled, Resting
<1>2. QED
  BY <1>1, AckedStep, Inductive, PTL DEF Spec
-----------------------------------------------------------------------------
\* Email accounting.  Which step takes a worker into or out of recording a send.
LEMMA OthersRecord ==
    ASSUME NEW w \in Workers, Alone(w), Recording(w)' <=> Recording(w)
    PROVE  (\E v \in Workers : Recording(v))' <=> (\E v \in Workers : Recording(v))
BY DEF Alone, Recording

\* A worker that stops recording without the marker to show for it leaves a lost email.
LEMMA ForgetStep ==
    ASSUME TypeOK, OneSender, EmailsAccounted, NEW w \in Workers, Alone(w),
           Recording(w), ~ Recording(w)', UNCHANGED <<marker, mails>>, lost' = lost + Forgotten
    PROVE  EmailsAccounted'
<1>1. CASE marker.status = "sent"
  BY <1>1 DEF EmailsAccounted, Forgotten, TypeOK
<1>2. CASE marker.status # "sent"
  <2>1. \A v \in Workers : v # w => ~ Recording(v)
    BY DEF OneSender, Sending, Recording
  <2>2. ~ (\E v \in Workers : Recording(v))'
    BY <2>1 DEF Alone, Recording
  <2>3. lost' = lost + 1 /\ mails = lost + 1
    BY <1>2 DEF Forgotten, EmailsAccounted
  <2>4. QED
    BY <1>2, <2>2, <2>3 DEF EmailsAccounted, TypeOK
<1>3. QED
  BY <1>1, <1>2

LEMMA EmailsStep == IInv /\ EmailsAccounted /\ [Next]_vars => EmailsAccounted'
<1> SUFFICES ASSUME IInv, EmailsAccounted, [Next]_vars PROVE EmailsAccounted'
  OBVIOUS
<1> DEFINE Any == \E v \in Workers : Recording(v)
<1>1. TypeOK /\ OneSender
  BY OneSenderInv DEF IInv
<1>2. CASE Tick \/ UNCHANGED vars
  BY <1>2 DEF Tick, vars, EmailsAccounted, Recording
<1>3. ASSUME NEW w \in Workers, Step(w) PROVE EmailsAccounted'
  <2>1. Alone(w)
    BY <1>1, <1>3, StepAlone
  <2>2. ASSUME Recording(w)' <=> Recording(w), UNCHANGED <<mails, lost>>,
               marker'.status = "sent" <=> marker.status = "sent"
        PROVE  EmailsAccounted'
    BY <2>1, <2>2, OthersRecord DEF EmailsAccounted
  <2>3. ASSUME Recording(w), marker'.status = "sent", UNCHANGED <<mails, lost>>
        PROVE  EmailsAccounted'
    BY <2>3 DEF EmailsAccounted
  <2>4. CASE Deliver(w) \/ BeginClaim(w)
    BY <1>1, <2>2, <2>4, DeliverEffect, BeginEffect DEF Deliver, BeginClaim, Recording, At
  <2>5. CASE ClaimRead(w)
    <3>1. ~ Recording(w) /\ ~ Recording(w)'
      BY <1>1, <2>5, Landing DEF ClaimRead, Recording, At
    <3>2. QED
      BY <2>2, <2>5, <3>1 DEF ClaimRead
  <2>6. CASE ClaimWrite(w)
    <3>1. ~ Recording(w) /\ ~ Recording(w)'
      BY <1>1, <2>6, Landing DEF ClaimWrite, Recording, At
    <3>2. marker'.status = "sent" <=> marker.status = "sent"
      <4>1. CASE Rejected(w)
        BY <4>1 DEF Rejected
      <4>2. CASE Stored(w, ClaimedMarker(worker[w].seen, worker[w].moment, minted + 1, Lease))
        <5>1. Claimable(marker, worker[w].moment)
          BY <2>6, <4>2 DEF ClaimWrite, Stored, IInv, StepHolds
        <5>2. marker.status # "sent" /\ marker'.status # "sent"
          BY <4>2, <5>1 DEF Stored, ClaimedMarker, Claimable, Grants, ClaimReason
        <5>3. QED
          BY <5>2
      <4>3. QED
        BY <2>6, <4>1, <4>2 DEF ClaimWrite
    <3>3. QED
      BY <2>2, <2>6, <3>1, <3>2 DEF ClaimWrite
  <2>7. CASE CheckReport(w)
    <3>1. ~ Recording(w) /\ ~ Recording(w)'
      BY <1>1, <2>7, EnterEffect, FailEffect DEF CheckReport, Recording, At, Moves
    <3>2. QED
      BY <2>2, <2>7, <3>1 DEF CheckReport
  <2>8. CASE SendEmail(w)
    <3>1. At(w, "send") /\ marker' = marker /\ marker.status = "dispatching"
      BY <2>8 DEF SendEmail, IInv, StepHolds, Holding, At
    <3>2. ~ Any
      BY <1>1, <3>1 DEF OneSender, Sending, Recording, At
    <3>3. mails = lost /\ mails \in Nat /\ lost \in Nat
      BY <1>1, <3>1, <3>2 DEF EmailsAccounted, TypeOK
    <3>4. CASE Enter(w, "sent_read") /\ mails' = mails + 1 /\ UNCHANGED lost
      <4>1. Recording(w)'
        BY <1>1, <3>4, EnterEffect DEF Recording, Moves
      <4>2. QED
        BY <3>3, <3>4, <4>1 DEF EmailsAccounted
    <3>5. CASE /\ RetrySend(w) \/ Fail(w, "permanent")
               /\ \/ mails' = mails + 1 /\ lost' = lost + 1
                  \/ UNCHANGED <<mails, lost>>
      <4>1. ~ Recording(w)'
        BY <1>1, <3>5, Landing DEF RetrySend, Recording
      <4>2. ~ (\E v \in Workers : Recording(v))'
        BY <2>1, <3>2, <4>1 DEF Alone, Recording
      <4>3. lost' \in Nat /\ mails' = lost' + 0
        BY <3>3, <3>5
      <4>4. marker'.status # "sent"
        BY <3>1
      <4>5. QED
        BY <4>2, <4>3, <4>4 DEF EmailsAccounted
    <3>6. QED
      BY <2>8, <3>4, <3>5 DEF SendEmail
  <2>9. CASE SentRead(w)
    <3>1. At(w, "sent_read") /\ marker' = marker /\ mails' = mails /\ Recording(w)
      BY <2>9 DEF SentRead, Recording, At
    <3> DEFINE Goes ==
                  IF Writable(marker, worker[w].lease)
                  THEN Put(w, [worker[w] EXCEPT !.pc = "sent_write", !.seen = marker])
                  ELSE Settle(w, "acked")
    <3>2. CASE marker.status = "sent" /\ UNCHANGED lost
      BY <2>3, <3>1, <3>2
    <3>3. CASE Settle(w, "returned") /\ lost' = lost + Forgotten
      <4>1. ~ Recording(w)'
        BY <1>1, <3>3, Landing DEF Recording
      <4>2. QED
        BY <1>1, <2>1, <3>1, <3>3, <4>1, ForgetStep
    <3>4. CASE marker.status # "sent" /\ UNCHANGED lost /\ Goes
      <4>1. Writable(marker, worker[w].lease)
        BY <3>1, <3>4 DEF IInv, StepHolds, At, Holding, Writable, holds_lease
      <4>2. Recording(w)'
        BY <1>1, <3>4, <4>1, Landing DEF Recording
      <4>3. QED
        BY <2>2, <3>1, <3>4, <4>2
    <3>5. (Settle(w, "returned") /\ lost' = lost + Forgotten) \/ (UNCHANGED lost /\ Goes)
      BY <2>9 DEF SentRead
    <3>6. QED
      BY <3>2, <3>3, <3>4, <3>5
  <2>10. CASE SentWrite(w)
    <3>1. At(w, "sent_write") /\ worker[w].seen = marker /\ UNCHANGED <<mails, lost>>
      BY <2>10 DEF SentWrite, IInv, StepHolds
    <3>2. CASE marker' = SentMarker(marker)
      <4>1. marker'.status = "sent"
        BY <1>1, <3>2 DEF SentMarker, TypeOK, Marker
      <4>2. QED
        BY <2>3, <3>1, <4>1 DEF Recording, At
    <3>3. CASE Rejected(w) /\ Again(w, "sent_read")
      <4>1. Recording(w) /\ Recording(w)'
        BY <1>1, <3>1, <3>3, Landing DEF Recording, At
      <4>2. QED
        BY <2>2, <3>1, <3>3, <4>1 DEF Rejected
    <3>4. QED
      BY <2>10, <3>1, <3>2, <3>3 DEF SentWrite, Stored
  <2>11. CASE FailRead(w)
    <3>1. ~ Recording(w) /\ ~ Recording(w)'
      BY <1>1, <2>11, Landing DEF FailRead, Recording, At
    <3>2. QED
      BY <2>2, <2>11, <3>1 DEF FailRead
  <2>12. CASE FailWrite(w)
    <3>1. ~ Recording(w) /\ ~ Recording(w)'
      BY <1>1, <2>12, Landing DEF FailWrite, Recording, At
    <3>2. marker'.status = "sent" <=> marker.status = "sent"
      <4>1. CASE Rejected(w)
        BY <4>1 DEF Rejected
      <4>2. CASE Stored(w, FailedMarker(worker[w].seen, worker[w].error))
        <5>1. Writable(marker, worker[w].lease)
          BY <2>12, <4>2 DEF FailWrite, Stored, IInv, StepHolds
        <5>2. marker.status # "sent" /\ marker'.status = "failed"
          BY <1>1, <4>2, <5>1 DEF Stored, FailedMarker, Writable, TypeOK, Marker
        <5>3. QED
          BY <5>2
      <4>3. QED
        BY <2>12, <4>1, <4>2 DEF FailWrite
    <3>3. QED
      BY <2>2, <2>12, <3>1, <3>2 DEF FailWrite
  <2>13. CASE Die(w)
    <3>1. ~ Recording(w)' /\ marker' = marker /\ mails' = mails
      BY <1>1, <2>13, Landing DEF Die, Recording
    <3>2. CASE Recording(w)
      <4>1. lost' = lost + Forgotten
        BY <2>13, <3>2 DEF Die, Recording
      <4>2. QED
        BY <1>1, <2>1, <3>1, <3>2, <4>1, ForgetStep
    <3>3. CASE ~ Recording(w)
      BY <2>2, <2>13, <3>1, <3>3 DEF Die, Recording
    <3>4. QED
      BY <3>2, <3>3
  <2>14. QED
    BY <1>3, <2>4, <2>5, <2>6, <2>7, <2>8, <2>9, <2>10, <2>11, <2>12, <2>13 DEF Step
<1>4. QED
  BY <1>2, <1>3 DEF Next

\* Every email beyond the recorded one was accepted by SES for a sender that died before it
\* could record it, or never heard of it.
THEOREM EmailAccounting == Spec => []EmailsAccounted
<1>1. Init => EmailsAccounted
  BY DEF Init, EmailsAccounted, Recording, Resting, NoMarker
<1>2. QED
  BY <1>1, EmailsStep, Inductive, PTL DEF Spec
-----------------------------------------------------------------------------
\* The refinement.  Each stored write is a Grant, a Close or (a failure written twice) a stutter.
LEMMA WriteLeavesClock == [Next]_vars /\ marker' # marker => now' = now
BY DEF Next, Tick, vars, Step, Deliver, BeginClaim, ClaimRead, ClaimWrite, CheckReport, SendEmail,
       SentRead, SentWrite, FailRead, FailWrite, Die

LEMMA GrantStep ==
    ASSUME IInv, NEW w \in Workers, ClaimWrite(w), Claimable(marker, worker[w].moment), now' = now,
           marker' = ClaimedMarker(marker, worker[w].moment, minted + 1, Lease)
    PROVE  Register!Grant
<1>1. /\ worker[w].started <= worker[w].moment /\ worker[w].moment <= now
      /\ now <= worker[w].started + LambdaTimeout
  BY DEF IInv, InTime, ClaimWrite, Live, At
<1>2. /\ worker[w].started \in Nat /\ worker[w].moment \in Nat /\ now \in Nat
      /\ marker.expires \in Nat /\ marker.attempts \in Nat
  BY DEF IInv, TypeOK, WorkerState, Marker
<1>3. RegisterState = "free" \/ (RegisterState = "held" /\ marker.expires <= now)
  <2>1. CASE marker.status = "dispatching"
    <3>1. ~ lease_active(marker, worker[w].moment)
      BY <2>1 DEF Claimable, Grants, ClaimReason, retryable_after
    <3>2. QED
      BY <1>1, <1>2, <2>1, <3>1 DEF lease_active, RegisterState
  <2>2. CASE marker.status # "dispatching"
    BY <2>2 DEF Claimable, Grants, ClaimReason, lease_active, retryable_after, RegisterState
  <2>3. QED
    BY <2>1, <2>2
<1>4. /\ marker'.status = "dispatching" /\ marker'.attempts = marker.attempts + 1
      /\ marker'.expires = worker[w].moment + Lease
  BY DEF ClaimedMarker
<1>5. marker'.expires \in (now + 1)..(now + Lease)
  BY <1>1, <1>2, <1>4, ConstantsAssumption
<1>6. RegisterState' = "held"
  BY <1>4 DEF RegisterState
<1>7. QED
  BY <1>3, <1>4, <1>5, <1>6 DEF Register!Grant

LEMMA CloseStep ==
    ASSUME IInv, NEW w \in Workers, Holding(w), Claimed(w), now' = now,
           NEW error \in Errors,
           marker' = SentMarker(marker) \/ marker' = FailedMarker(marker, error)
    PROVE  \E outcome \in {"free", "done", "dead"} : Register!Close(outcome)
<1>1. RegisterState = "held"
  BY DEF Holding, RegisterState
<1>2. now < marker.expires
  <2>1. Live(w) /\ ~ At(w, "queued")
    BY DEF Claimed, Sending, Failing, Live, At
  <2>2. lease_active(marker, now) /\ now \in Nat /\ marker.expires \in Nat
    BY <2>1, HolderIsInFlight DEF IInv, TypeOK, Marker
  <2>3. QED
    BY <2>2 DEF lease_active
<1>3. /\ marker'.expires = 0 /\ marker'.attempts = marker.attempts
      /\ marker'.status \in {"sent", "failed"}
  BY DEF SentMarker, FailedMarker, IInv, TypeOK, Marker
<1>4. RegisterState' \in {"free", "done", "dead"}
  BY <1>3 DEF RegisterState
<1>5. QED
  BY <1>1, <1>2, <1>3, <1>4 DEF Register!Close

LEMMA RegisterStep == IInv /\ [Next]_vars => [Register!Next]_(Register!vars)
<1> SUFFICES ASSUME IInv, [Next]_vars PROVE [Register!Next]_(Register!vars)
  OBVIOUS
<1>1. CASE marker' = marker
  <2>1. UNCHANGED <<RegisterState, marker.attempts, marker.expires>>
    BY <1>1 DEF RegisterState
  <2>2. now' = now \/ now' = now + 1
    BY DEF Next, Tick, vars, Step, Deliver, BeginClaim, ClaimRead, ClaimWrite, CheckReport, SendEmail,
           SentRead, SentWrite, FailRead, FailWrite, Die
  <2>3. QED
    BY <2>1, <2>2 DEF Register!Next, Register!Tick, Register!vars
<1>2. CASE marker' # marker
  <2>1. now' = now
    BY <1>2, WriteLeavesClock
  <2>2. PICK w \in Workers :
             \/ /\ ClaimWrite(w) /\ Claimable(marker, worker[w].moment) /\ minted' = minted + 1
                /\ marker' = ClaimedMarker(marker, worker[w].moment, minted + 1, Lease)
             \/ /\ SentWrite(w) /\ Holding(w)
                /\ marker' = SentMarker(marker)
             \/ /\ FailWrite(w)
                /\ Holding(w) \/ (marker.status = "failed" /\ marker.error = worker[w].error)
                /\ marker' = FailedMarker(marker, worker[w].error)
    BY <1>2, MarkerWrites
  <2>3. CASE /\ ClaimWrite(w) /\ Claimable(marker, worker[w].moment)
             /\ marker' = ClaimedMarker(marker, worker[w].moment, minted + 1, Lease)
    BY <2>1, <2>3, GrantStep DEF Register!Next
  <2>4. CASE SentWrite(w) /\ Holding(w) /\ marker' = SentMarker(marker)
    <3>1. Claimed(w) /\ "none" \in Errors
      BY <2>4 DEF SentWrite, At, Claimed, Sending, Errors
    <3>2. QED
      BY <2>1, <2>4, <3>1, CloseStep DEF Register!Next
  <2>5. CASE FailWrite(w) /\ marker' = FailedMarker(marker, worker[w].error)
    <3>1. Claimed(w) /\ worker[w].error \in Errors
      BY <2>5 DEF FailWrite, At, Claimed, Failing, IInv, TypeOK, WorkerState
    <3>2. CASE Holding(w)
      BY <2>1, <2>5, <3>1, <3>2, CloseStep DEF Register!Next
    <3>3. CASE marker.status = "failed" /\ marker.error = worker[w].error
      <4>1. marker.expires = 0
        BY <3>3 DEF IInv, ExpiryOfLease
      <4>2. /\ marker'.status = marker.status /\ marker'.error = marker.error
            /\ marker'.attempts = marker.attempts /\ marker'.expires = marker.expires
        BY <2>5, <3>3, <4>1 DEF FailedMarker, IInv, TypeOK, Marker
      <4>3. RegisterState' = RegisterState
        BY <4>2 DEF RegisterState
      <4>4. QED
        BY <2>1, <4>2, <4>3 DEF Register!vars
    <3>4. QED
      BY <2>2, <2>5, <3>2, <3>3 DEF FailWrite, ClaimWrite, SentWrite, At
  <2>6. QED
    BY <2>2, <2>3, <2>4, <2>5
<1>3. QED
  BY <1>1, <1>2

\* The ledger's loops of reads and conditional writes implement the lease register.
THEOREM Refinement == Spec => ImplementsRegister
<1>1. Init => Register!Init
  BY DEF Init, NoMarker, RegisterState, Register!Init
<1>2. QED
  BY <1>1, RegisterStep, Inductive, PTL DEF Spec, ImplementsRegister, Register!Spec
=============================================================================
