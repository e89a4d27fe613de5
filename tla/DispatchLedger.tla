--------------------------- MODULE DispatchLedger ---------------------------
(***************************************************************************)
(* One dispatch marker and the dispatcher invocations that work on it.     *)
(*                                                                         *)
(* A worker is a Lambda container that SQS has handed a message for this   *)
(* (report_date, agent_id).  Deliveries are at least once and may be       *)
(* concurrent: nothing here stops two workers from holding a copy of the   *)
(* message at once.  Each takes the message through dispatch_one: claim,   *)
(* the report checks, the SES call, mark_sent or mark_failed, where every  *)
(* ledger call is a loop of one read and one conditional write.  A worker  *)
(* may die at any step, and is killed when its invocation reaches          *)
(* LambdaTimeout.                                                          *)
(***************************************************************************)
EXTENDS DispatchRecord

CONSTANTS
    Workers,        \* the concurrent dispatcher invocations
    Lease,          \* DEFAULT_LEASE_SECONDS
    LambdaTimeout,  \* the dispatcher function's timeout
    MaxCas,         \* MAX_CAS_ATTEMPTS
    MaxSes,         \* SES_SEND_POLICY.max_attempts
    MaxDeliveries,  \* bound: how often SQS hands out a message for this key
    MaxClock        \* bound: how far the clock runs

\* The lease outlives the invocation that took it (idempotency.py:65-68).
ASSUME ConstantsAssumption ==
    /\ Lease \in Nat /\ LambdaTimeout \in Nat /\ LambdaTimeout < Lease
    /\ MaxCas \in Nat \ {0} /\ MaxSes \in Nat \ {0}
    /\ MaxDeliveries \in Nat /\ MaxClock \in Nat

VARIABLES
    marker,      \* the object in the state bucket, or NoMarker
    worker,      \* what each invocation knows and where it is
    now,         \* the clock
    minted,      \* lease ids stored so far
    deliveries,  \* messages handed to workers so far
    mails,       \* history: emails SES has accepted for this agent and date
    lost         \* history: accepted emails whose sender never learned or recorded it

vars == <<marker, worker, now, minted, deliveries, mails, lost>>

-----------------------------------------------------------------------------
Steps == {"idle", "queued", "claim_read", "claim_write", "check", "send",
          "sent_read", "sent_write", "fail_read", "fail_write"}

\* What became of a worker's last message: acknowledged, or left for SQS to redeliver.
Verdicts == {"none", "acked", "returned"}

WorkerState == [pc: Steps, started: Nat, moment: Nat, tries: Nat, seen: Marker,
                lease: Nat, error: Errors, verdict: Verdicts]

\* started: when the invocation began.  moment: claim()'s `now`.  tries: passes through the
\* loop the worker is in.  seen: the marker read last.  lease: the lease id of its own claim.
Resting(verdict) ==
    [pc |-> "idle", started |-> 0, moment |-> 0, tries |-> 0, seen |-> NoMarker,
     lease |-> 0, error |-> "none", verdict |-> verdict]

TypeOK ==
    /\ marker \in Marker
    /\ worker \in [Workers -> WorkerState]
    /\ now \in Nat
    /\ minted \in Nat
    /\ deliveries \in Nat
    /\ mails \in Nat
    /\ lost \in Nat

At(w, step) == worker[w].pc = step
Live(w) == worker[w].pc # "idle"

Put(w, state) == worker' = [worker EXCEPT ![w] = state]
Settle(w, verdict) == Put(w, Resting(verdict))

\* Entering one of the retry loops, and going round it once more.
Enter(w, step) == Put(w, [worker[w] EXCEPT !.pc = step, !.tries = 0])
Again(w, step) == Put(w, [worker[w] EXCEPT !.pc = step, !.tries = @ + 1])

Init ==
    /\ marker = NoMarker
    /\ worker = [w \in Workers |-> Resting("none")]
    /\ now = 0
    /\ minted = 0
    /\ deliveries = 0
    /\ mails = 0
    /\ lost = 0
-----------------------------------------------------------------------------
\* SQS starts an invocation whose batch holds a message for this key.
Deliver(w) ==
    /\ At(w, "idle")
    /\ deliveries < MaxDeliveries
    /\ deliveries' = deliveries + 1
    /\ Put(w, [Resting("none") EXCEPT !.pc = "queued", !.started = now])
    /\ UNCHANGED <<marker, now, minted, mails, lost>>

\* run_dispatcher reaches the message, maybe late in its batch, and claim() takes the time.
BeginClaim(w) ==
    /\ At(w, "queued")
    /\ Put(w, [worker[w] EXCEPT !.pc = "claim_read", !.moment = now, !.tries = 0])
    /\ UNCHANGED <<marker, now, minted, deliveries, mails, lost>>

\* claim() reads the marker and decides; after MaxCas passes it gives up as "contended".
ClaimRead(w) ==
    /\ At(w, "claim_read")
    /\ LET reason == IF worker[w].tries = MaxCas
                     THEN "contended"
                     ELSE ClaimReason(marker, worker[w].moment)
       IN  \/ /\ reason \in Grants
              /\ Put(w, [worker[w] EXCEPT !.pc = "claim_write", !.seen = marker])
           \/ reason \notin Grants /\ redeliver(reason) /\ Settle(w, "returned")
           \/ reason \notin Grants /\ ~ redeliver(reason) /\ Settle(w, "acked")
    /\ UNCHANGED <<marker, now, minted, deliveries, mails, lost>>

\* Fault: a write that ignores the version it was computed from.
StoredBlindly(w, next) == marker' = next

\* A conditional write of the record next, as ConditionalStore has it: applied only to the
\* version read.  The writer may be told that it lost although it was applied (the SDK repeats
\* a PUT whose response it missed, and the repetition meets its own version: 412), or because
\* it met another write (409 ConditionalRequestConflict).
Stored(w, next) == marker = worker[w].seen /\ marker' = next

Writing(v) == worker[v].pc \in {"claim_write", "sent_write", "fail_write"}
Rejected(w) ==
    /\ marker # worker[w].seen \/ \E v \in Workers \ {w} : Writing(v)
    /\ UNCHANGED marker

ClaimWrite(w) ==
    /\ At(w, "claim_write")
    /\ \/ /\ Stored(w, ClaimedMarker(worker[w].seen, worker[w].moment, minted + 1, Lease))
          /\ minted' = minted + 1
          /\ \/ Put(w, [worker[w] EXCEPT !.pc = "check", !.lease = minted + 1])
             \/ Again(w, "claim_read")
       \/ Rejected(w) /\ Again(w, "claim_read") /\ UNCHANGED minted
    /\ UNCHANGED <<now, deliveries, mails, lost>>

Fail(w, error) == Put(w, [worker[w] EXCEPT !.pc = "fail_read", !.tries = 0, !.error = error])

\* The report exists and is read, the link is minted and the email rendered; or one of these
\* raises: a missing report or a throttled read (retryable), an unreadable one (permanent).
CheckReport(w) ==
    /\ At(w, "check")
    /\ \/ Enter(w, "send")
       \/ \E error \in {"retryable", "permanent"} : Fail(w, error)
    /\ UNCHANGED <<marker, now, minted, deliveries, mails, lost>>

\* A failed attempt is retried inside the invocation until SES_SEND_POLICY is used up.
RetrySend(w) ==
    IF worker[w].tries + 1 < MaxSes THEN Again(w, "send") ELSE Fail(w, "retryable")

\* One ses.send_email call: accepted; accepted with the answer lost; throttled; refused.
SendEmail(w) ==
    /\ At(w, "send")
    /\ \/ Enter(w, "sent_read") /\ mails' = mails + 1 /\ UNCHANGED lost
       \/ RetrySend(w) /\ mails' = mails + 1 /\ lost' = lost + 1
       \/ RetrySend(w) /\ UNCHANGED <<mails, lost>>
       \/ Fail(w, "permanent") /\ UNCHANGED <<mails, lost>>
    /\ UNCHANGED <<marker, now, minted, deliveries>>

\* An email SES has confirmed is forgotten with its worker if the marker does not show it.
Forgotten == IF marker.status = "sent" THEN 0 ELSE 1

\* mark_sent: the marker is already sent, or another worker's, and is returned as it is (the
\* message counts as delivered); or it is to be written; or the loop is used up (an error).
SentRead(w) ==
    /\ At(w, "sent_read")
    /\ \/ /\ worker[w].tries = MaxCas \/ marker.status = "absent"
          /\ Settle(w, "returned")
          /\ lost' = lost + Forgotten
       \/ /\ worker[w].tries < MaxCas /\ marker.status # "absent"
          /\ IF Writable(marker, worker[w].lease)
             THEN Put(w, [worker[w] EXCEPT !.pc = "sent_write", !.seen = marker])
             ELSE Settle(w, "acked")
          /\ UNCHANGED lost
    /\ UNCHANGED <<marker, now, minted, deliveries, mails>>

SentWrite(w) ==
    /\ At(w, "sent_write")
    /\ \/ /\ Stored(w, SentMarker(worker[w].seen))
          /\ Settle(w, "acked") \/ Again(w, "sent_read")
       \/ Rejected(w) /\ Again(w, "sent_read")
    /\ UNCHANGED <<now, minted, deliveries, mails, lost>>

\* mark_failed: whatever it does, the failure goes into batchItemFailures.
FailRead(w) ==
    /\ At(w, "fail_read")
    /\ IF worker[w].tries < MaxCas /\ Writable(marker, worker[w].lease)
       THEN Put(w, [worker[w] EXCEPT !.pc = "fail_write", !.seen = marker])
       ELSE Settle(w, "returned")
    /\ UNCHANGED <<marker, now, minted, deliveries, mails, lost>>

FailWrite(w) ==
    /\ At(w, "fail_write")
    /\ \/ /\ Stored(w, FailedMarker(worker[w].seen, worker[w].error))
          /\ Settle(w, "returned") \/ Again(w, "fail_read")
       \/ Rejected(w) /\ Again(w, "fail_read")
    /\ UNCHANGED <<now, minted, deliveries, mails, lost>>

\* The invocation ends without an answer: a crash, the Lambda timeout, or an exception that
\* is not an AgentReportsError.  Nothing is acknowledged.
Die(w) ==
    /\ Live(w)
    /\ Settle(w, "returned")
    /\ lost' = IF worker[w].pc \in {"sent_read", "sent_write"} THEN lost + Forgotten ELSE lost
    /\ UNCHANGED <<marker, now, minted, deliveries, mails>>

\* No invocation outlives its timeout.
Tick ==
    /\ now < MaxClock
    /\ \A w \in Workers : Live(w) => now < worker[w].started + LambdaTimeout
    /\ now' = now + 1
    /\ UNCHANGED <<marker, worker, minted, deliveries, mails, lost>>

Step(w) ==
    \/ Deliver(w) \/ BeginClaim(w) \/ ClaimRead(w) \/ ClaimWrite(w) \/ CheckReport(w)
    \/ SendEmail(w) \/ SentRead(w) \/ SentWrite(w) \/ FailRead(w) \/ FailWrite(w) \/ Die(w)

Next == Tick \/ \E w \in Workers : Step(w)

Spec == Init /\ [][Next]_vars
-----------------------------------------------------------------------------
(* What the ledger is for. *)

\* The steps of dispatch_one between a granted claim and the end of mark_sent.
Sending(w) == worker[w].pc \in {"check", "send", "sent_read", "sent_write"}

\* "Two writers must never both email the same agent": whatever the deliveries, deaths and
\* lost answers, at most one invocation at a time is between its claim and its mark_sent.
OneSender == \A v, w \in Workers : Sending(v) /\ Sending(w) => v = w

\* A worker about to call SES owns the marker in the store at that very moment: the lease in
\* it is its own and still running, although the worker reads neither again before sending.
SenderHoldsLease ==
    \A w \in Workers : worker[w].pc \in {"check", "send"} =>
        lease_active(marker, now) /\ holds_lease(marker, worker[w].lease)

\* The emails of one agent and date are one, for the send the marker shows or a worker is
\* recording, and the ones whose acceptance their sender did not live or did not hear to
\* record.  So a marker is `sent` only after an email, and a second email needs a lost one.
Recording(w) == worker[w].pc \in {"sent_read", "sent_write"}
EmailsAccounted ==
    mails = lost + (IF marker.status = "sent" \/ \E w \in Workers : Recording(w) THEN 1 ELSE 0)

\* A message is acknowledged, and so deleted, only when its agent needs no attempt any more:
\* the marker is sent, or failed for a permanent reason.
Closed == marker.status = "sent" \/ (marker.status = "failed" /\ marker.error = "permanent")
AckedIsSettled == \A w \in Workers : worker[w].verdict = "acked" => Closed

\* `sent` is terminal: nobody writes the marker or emails the agent after it.
SentIsFinal == [][marker.status = "sent" => UNCHANGED <<marker, mails>>]_vars

\* The marker seen as the lease register it implements.
RegisterState ==
    CASE marker.status = "dispatching" -> "held"
      [] marker.status = "sent" -> "done"
      [] marker.status = "failed" /\ marker.error = "permanent" -> "dead"
      [] OTHER -> "free"

Register == INSTANCE LeaseRegister WITH
    state <- RegisterState,
    term <- marker.attempts,
    until <- marker.expires

\* Every conditional write takes the marker through a step of the register, and nothing else
\* changes it: the read and the write of each ledger call act as one.
ImplementsRegister == Register!Spec

-----------------------------------------------------------------------------
(* The inductive invariant behind the safety properties. *)

\* An invocation is within its timeout, and claim() read the clock after it began.
InTime(w) ==
    Live(w) =>
        /\ worker[w].started <= now /\ now <= worker[w].started + LambdaTimeout
        /\ ~ At(w, "queued") => worker[w].started <= worker[w].moment /\ worker[w].moment <= now

Failing(w) == worker[w].pc \in {"fail_read", "fail_write"}
Claimed(w) == Sending(w) \/ Failing(w)

\* Stored leases were minted, and no two workers have claimed with the same one.
LeasesDistinct ==
    /\ marker.lease <= minted
    /\ \A w \in Workers : worker[w].lease <= minted /\ (Claimed(w) => worker[w].lease > 0)
    /\ \A v, w \in Workers : worker[v].lease = worker[w].lease => v = w \/ worker[v].lease = 0

\* The marker carries w's lease, which outlasts w's invocation.
Holding(w) ==
    /\ marker.status = "dispatching"
    /\ marker.lease = worker[w].lease
    /\ marker.expires = worker[w].moment + Lease

\* A worker's step says what it has read and what it owns.  Only a write of its own that it was
\* not told of takes Holding away from a worker that is marking its outcome.
StepHolds(w) ==
    /\ At(w, "claim_write") => Claimable(worker[w].seen, worker[w].moment)
    /\ worker[w].pc \in {"check", "send"} => Holding(w)
    /\ worker[w].pc \in {"sent_read", "sent_write"} =>
          \/ Holding(w)
          \/ marker.status = "sent" /\ marker.lease = worker[w].lease
    /\ At(w, "sent_write") => /\ Writable(worker[w].seen, worker[w].lease)
                              /\ worker[w].seen = marker
    /\ At(w, "fail_write") => Writable(worker[w].seen, worker[w].lease)
    /\ Failing(w) /\ marker.lease = worker[w].lease =>
          Holding(w) \/ (marker.status = "failed" /\ marker.error = worker[w].error)

\* Only a dispatching marker carries an expiry, and an absent one was never claimed.
ExpiryOfLease ==
    /\ marker.status # "dispatching" => marker.expires = 0
    /\ marker.status = "absent" => marker = NoMarker

IInv ==
    /\ TypeOK
    /\ \A w \in Workers : InTime(w) /\ StepHolds(w)
    /\ LeasesDistinct
    /\ ExpiryOfLease
-----------------------------------------------------------------------------
(* What the documents say and the program does not do. *)

\* "An agent+date report is never emailed twice" (idempotency.py:1, RUNBOOK.md:161).
NeverEmailedTwice == mails <= 1

\* "The only message acknowledged without a send is an unparseable payload"
\* (dispatcher.py:20-21, RUNBOOK.md:182): an acknowledged message's agent has the email.
AckedMeansSent == \A w \in Workers : worker[w].verdict = "acked" => marker.status = "sent"
=============================================================================
