------------------------------ MODULE Delivery ------------------------------
(***************************************************************************)
(* The fan-out queue and the dispatcher invocations that empty it.         *)
(*                                                                         *)
(* SQS hands batches of visible messages to invocations of the dispatcher, *)
(* hides them for Visibility, counts their receives and moves a message    *)
(* received MaxReceives times to the dead-letter queue.  An invocation     *)
(* takes its batch message by message and returns the ones to redeliver    *)
(* (batchItemFailures); SQS deletes the rest.  An invocation that dies     *)
(* deletes nothing.                                                        *)
(*                                                                         *)
(* The marker of an agent is the lease register that DispatchLedger        *)
(* implements: claim, mark_sent and mark_failed are one step each.  Times  *)
(* are countdowns, so no run has to end for lack of clock.                 *)
(***************************************************************************)
EXTENDS Naturals, FiniteSets

CONSTANTS
    Messages, Agents, Workers,
    Nobody,         \* not a message: the invocation has none in hand
    AgentOf,        \* the agent each message is for
    Malformed,      \* the messages parse_message refuses
    BatchSize,      \* batch_size of the event source mapping
    MaxReceives,    \* maxReceiveCount
    Lease, LambdaTimeout, Visibility,
    MaxFaults       \* bound: failures of any kind in one behaviour

ASSUME ConstantsAssumption ==
    /\ AgentOf \in [Messages -> Agents]
    /\ Malformed \subseteq Messages /\ Nobody \notin Messages
    /\ BatchSize \in Nat \ {0} /\ MaxReceives \in Nat \ {0} /\ MaxFaults \in Nat
    /\ Lease \in Nat /\ LambdaTimeout \in Nat /\ Visibility \in Nat
    /\ LambdaTimeout < Lease /\ LambdaTimeout < Visibility

VARIABLES
    place,        \* where SQS keeps each message
    receives,     \* its receive count
    hidden,       \* time until a message in flight is visible again
    last,         \* history: what its latest receive came to
    register,     \* each agent's marker
    lease,        \* time left of the lease in it
    run,          \* the invocations
    quarantined,  \* messages copied to state/quarantine
    faults        \* failures so far

queueVars == <<place, receives, hidden>>
ledgerVars == <<register, lease>>
vars == <<place, receives, hidden, last, register, lease, run, quarantined, faults>>

\* batch: the records of the event.  todo: those the loop has not come to.  current: the one
\* dispatch_one has claimed.  failures: batch_item_failures.  left: time until the timeout.
Runs == [step: {"idle", "loop", "send", "mark"}, batch: SUBSET Messages, todo: SUBSET Messages,
         current: Messages \cup {Nobody}, failures: SUBSET Messages, left: 0..LambdaTimeout]

Idle == [step |-> "idle", batch |-> {}, todo |-> {}, current |-> Nobody, failures |-> {}, left |-> 0]

TypeOK ==
    /\ place \in [Messages -> {"queue", "flight", "deleted", "dlq"}]
    /\ receives \in [Messages -> 0..MaxReceives]
    /\ hidden \in [Messages -> 0..Visibility]
    /\ last \in [Messages -> {"none", "deferred", "contended", "attempted"}]
    /\ register \in [Agents -> {"free", "held", "done", "dead"}]
    /\ lease \in [Agents -> 0..Lease]
    /\ run \in [Workers -> Runs]
    /\ quarantined \subseteq Messages
    /\ faults \in 0..MaxFaults

Init ==
    /\ place = [m \in Messages |-> "queue"]
    /\ receives = [m \in Messages |-> 0]
    /\ hidden = [m \in Messages |-> 0]
    /\ last = [m \in Messages |-> "none"]
    /\ register = [a \in Agents |-> "free"]
    /\ lease = [a \in Agents |-> 0]
    /\ run = [w \in Workers |-> Idle]
    /\ quarantined = {}
    /\ faults = 0

Fault == faults < MaxFaults /\ faults' = faults + 1
-----------------------------------------------------------------------------
\* SQS.

\* Fault: no limit to the receives.
ReceivableForever(m) == place[m] = "queue"

Receivable(m) == place[m] = "queue" /\ receives[m] < MaxReceives

\* Fault: a visibility timeout shorter than an invocation.
HiddenBriefly == LambdaTimeout - 1

HiddenFor == Visibility

\* The event source mapping polls a batch and invokes the function with it.
Receive(w, batch) ==
    /\ run[w].step = "idle"
    /\ \A m \in batch : Receivable(m)
    /\ place' = [m \in Messages |-> IF m \in batch THEN "flight" ELSE place[m]]
    /\ receives' = [m \in Messages |-> IF m \in batch THEN receives[m] + 1 ELSE receives[m]]
    /\ hidden' = [m \in Messages |-> IF m \in batch THEN HiddenFor ELSE hidden[m]]
    /\ last' = [m \in Messages |-> IF m \in batch THEN "none" ELSE last[m]]
    /\ run' = [run EXCEPT ![w] = [Idle EXCEPT !.step = "loop", !.batch = batch, !.todo = batch,
                                              !.left = LambdaTimeout]]
    /\ UNCHANGED <<ledgerVars, quarantined, faults>>

\* The visibility timeout of a message nobody deleted runs out.
Reappear(m) ==
    /\ place[m] = "flight" /\ hidden[m] = 0
    /\ place' = [place EXCEPT ![m] = "queue"]
    /\ UNCHANGED <<receives, hidden, last, ledgerVars, run, quarantined, faults>>

\* The redrive policy: a message received too often is moved instead of being received again.
DeadLetter(m) ==
    /\ place[m] = "queue" /\ receives[m] = MaxReceives
    /\ place' = [place EXCEPT ![m] = "dlq"]
    /\ UNCHANGED <<receives, hidden, last, ledgerVars, run, quarantined, faults>>
-----------------------------------------------------------------------------
\* One record of run_dispatcher's loop.

Comes(w, m) == run[w].step = "loop" /\ m \in run[w].todo

\* Faults: a message to redeliver is acknowledged; a deferred message is tried again in place.
ReturnedAcked(w, m) == run' = [run EXCEPT ![w].todo = @ \ {m}]
ReturnedInPlace(w, m) == run' = [run EXCEPT ![w].failures = @ \cup {m}]

Done(w, m) == run' = [run EXCEPT ![w].todo = @ \ {m}]
Returned(w, m) == run' = [run EXCEPT ![w].todo = @ \ {m}, ![w].failures = @ \cup {m}]

\* A payload that does not parse is stored under state/quarantine and left to be deleted.
Quarantine(w, m) ==
    /\ Comes(w, m) /\ m \in Malformed
    /\ quarantined' = quarantined \cup {m}
    /\ Done(w, m)
    /\ UNCHANGED <<queueVars, last, ledgerVars, faults>>

Claiming(w, m) == Comes(w, m) /\ m \notin Malformed
Active(a) == register[a] = "held" /\ lease[a] > 0
Open(a) == register[a] = "free" \/ (register[a] = "held" /\ lease[a] = 0)

\* claim(): already_sent or permanent_failure.
Suppress(w, m) ==
    /\ Claiming(w, m) /\ register[AgentOf[m]] \in {"done", "dead"}
    /\ Done(w, m)
    /\ UNCHANGED <<queueVars, last, ledgerVars, quarantined, faults>>

\* claim(): in_flight.
Defer(w, m) ==
    /\ Claiming(w, m) /\ Active(AgentOf[m])
    /\ Returned(w, m)
    /\ last' = [last EXCEPT ![m] = "deferred"]
    /\ UNCHANGED <<queueVars, ledgerVars, quarantined, faults>>

\* Fault: a lease no longer than an invocation.
GrantedBriefly(a) ==
    /\ register' = [register EXCEPT ![a] = "held"]
    /\ lease' = [lease EXCEPT ![a] = LambdaTimeout]

\* Fault: a lease that outlasts every redelivery.
LeaseForTheDay == Visibility * MaxReceives

LeaseFor == Lease

Granted(a) ==
    /\ register' = [register EXCEPT ![a] = "held"]
    /\ lease' = [lease EXCEPT ![a] = LeaseFor]

\* claim(): new, retry or stale_lease.
Claim(w, m) ==
    /\ Claiming(w, m) /\ Open(AgentOf[m])
    /\ Granted(AgentOf[m])
    /\ last' = [last EXCEPT ![m] = "attempted"]
    /\ run' = [run EXCEPT ![w].todo = @ \ {m}, ![w].current = m, ![w].step = "send"]
    /\ UNCHANGED <<queueVars, quarantined, faults>>

\* claim() stores its marker but is not told so, and then meets its own lease: in_flight.
ClaimUnheard(w, m) ==
    /\ Claiming(w, m) /\ Open(AgentOf[m]) /\ Fault
    /\ Granted(AgentOf[m])
    /\ last' = [last EXCEPT ![m] = "deferred"]
    /\ Returned(w, m)
    /\ UNCHANGED <<queueVars, quarantined>>

\* claim() uses its compare-and-set attempts up, others writing the marker meanwhile: contended.
Contended(w, m) ==
    /\ Claiming(w, m) /\ Fault
    /\ last' = [last EXCEPT ![m] = "contended"]
    /\ Returned(w, m)
    /\ UNCHANGED <<queueVars, ledgerVars, quarantined>>

Mine(w) == AgentOf[run[w].current]

Closed(a, state) ==
    /\ register' = [register EXCEPT ![a] = state]
    /\ lease' = [lease EXCEPT ![a] = 0]

\* SES accepts the email.
Send(w) ==
    /\ run[w].step = "send"
    /\ run' = [run EXCEPT ![w].step = "mark"]
    /\ UNCHANGED <<queueVars, last, ledgerVars, quarantined, faults>>

\* The error that leaves dispatch_one puts the record in batch_item_failures.
CurrentReturned(w) ==
    run' = [run EXCEPT ![w].step = "loop", ![w].current = Nobody,
                       ![w].failures = @ \cup {run[w].current}]

\* The report or the send failed and mark_failed records it.
SendFails(w, state) ==
    /\ run[w].step = "send" /\ Fault
    /\ Closed(Mine(w), state)
    /\ CurrentReturned(w)
    /\ UNCHANGED <<queueVars, last, quarantined>>

\* mark_sent or mark_failed uses its compare-and-set attempts up and raises: the lease stays.
Unrecorded(w) ==
    /\ run[w].step \in {"send", "mark"} /\ Fault
    /\ CurrentReturned(w)
    /\ UNCHANGED <<queueVars, last, ledgerVars, quarantined>>

MarkSent(w) ==
    /\ run[w].step = "mark"
    /\ Closed(Mine(w), "done")
    /\ run' = [run EXCEPT ![w].step = "loop", ![w].current = Nobody]
    /\ UNCHANGED <<queueVars, last, quarantined, faults>>

\* The batch is answered and SQS deletes what is not in batchItemFailures.
Answer(w) ==
    /\ run[w].step = "loop" /\ run[w].todo = {}
    /\ place' = [m \in Messages |-> IF m \in run[w].batch \ run[w].failures
                                    THEN "deleted" ELSE place[m]]
    /\ run' = [run EXCEPT ![w] = Idle]
    /\ UNCHANGED <<receives, hidden, last, ledgerVars, quarantined, faults>>

\* The invocation ends with nothing deleted: a crash, the timeout, an error of the ledger's
\* or the quarantine's storage that run_dispatcher does not catch, a lost answer.
Die(w) ==
    /\ run[w].step # "idle" /\ Fault
    /\ run' = [run EXCEPT ![w] = Idle]
    /\ UNCHANGED <<queueVars, last, ledgerVars, quarantined>>
-----------------------------------------------------------------------------
Less(n) == IF n = 0 THEN 0 ELSE n - 1

\* Time passes; no invocation outlives its timeout.
Tick ==
    /\ \A w \in Workers : run[w].step # "idle" => run[w].left > 0
    /\ hidden' = [m \in Messages |-> Less(hidden[m])]
    /\ lease' = [a \in Agents |-> Less(lease[a])]
    /\ run' = [w \in Workers |-> [run[w] EXCEPT !.left = Less(@)]]
    /\ UNCHANGED <<place, receives, last, register, quarantined, faults>>

Batches == {batch \in SUBSET Messages : batch # {} /\ Cardinality(batch) <= BatchSize}
Poll == \E w \in Workers, batch \in Batches : Receive(w, batch)

Work(w) ==
    \/ \E m \in Messages : Quarantine(w, m) \/ Suppress(w, m) \/ Defer(w, m) \/ Claim(w, m)
    \/ Send(w) \/ MarkSent(w) \/ Answer(w)

Mishap(w) ==
    \/ \E m \in Messages : ClaimUnheard(w, m) \/ Contended(w, m)
    \/ \E state \in {"free", "dead"} : SendFails(w, state)
    \/ Unrecorded(w) \/ Die(w)

Next ==
    \/ Tick \/ Poll
    \/ \E m \in Messages : Reappear(m) \/ DeadLetter(m)
    \/ \E w \in Workers : Work(w) \/ Mishap(w)

Spec == Init /\ [][Next]_vars

\* SQS keeps polling and counting, time passes, and a running invocation makes progress.
Fairness ==
    /\ WF_vars(Tick) /\ WF_vars(Poll)
    /\ \A m \in Messages : WF_vars(Reappear(m)) /\ WF_vars(DeadLetter(m))
    /\ \A w \in Workers : WF_vars(Work(w))

FairSpec == Spec /\ Fairness
-----------------------------------------------------------------------------
Sending(w) == run[w].step \in {"send", "mark"}

\* Whatever the batches and however late in its invocation a claim is taken, no two
\* invocations are between claim and mark_sent for the same agent.
OneSender ==
    \A v, w \in Workers : Sending(v) /\ Sending(w) /\ Mine(v) = Mine(w) => v = w

\* The visibility timeout keeps a message with one invocation until that has ended
\* (sqs.tf:3-5), so an answer never deletes a message someone else is working on.
OneInvocation ==
    /\ \A v, w \in Workers : v # w => run[v].batch \cap run[w].batch = {}
    /\ \A w \in Workers : \A m \in run[w].batch : place[m] = "flight"

\* "A message is never deleted silently" (RUNBOOK.md:183): it is deleted only with its agent
\* emailed or failed for good, or with a copy of it in quarantine.
Settled(m) == IF m \in Malformed THEN m \in quarantined ELSE register[AgentOf[m]] \in {"done", "dead"}
NothingLost == \A m \in Messages : place[m] = "deleted" => Settled(m)

\* Every message leaves the queue, whatever fails: it is deleted or dead-lettered.
QueueDrains == \A m \in Messages : <>(place[m] \in {"deleted", "dlq"})

\* One failure anywhere (a dead invocation, a lost answer, an unheard or contended claim, a
\* marker not written, a send that fails for a retryable reason) costs no agent its email: within
\* the receives a message has, the lease it leaves runs out.  A failure recorded as permanent does
\* cost it, see AckedMeansSent of DispatchLedger.
OneRetryableFaultSurvived ==
    \A a \in {AgentOf[m] : m \in Messages \ Malformed} :
        [](faults <= 1 /\ register[a] # "dead") => <>(register[a] = "done")
-----------------------------------------------------------------------------
(* The inductive invariant behind the safety properties. *)

\* What an invocation has in its batch is hidden for longer than it will run.
BatchHidden ==
    \A w \in Workers : \A m \in run[w].batch :
        run[w].step # "idle" /\ place[m] = "flight" /\ hidden[m] > run[w].left

\* A sender's agent is leased for longer than the sender will run.
SenderOwns ==
    \A w \in Workers : Sending(w) =>
        /\ run[w].current \in Messages \ Malformed
        /\ register[Mine(w)] = "held" /\ lease[Mine(w)] > run[w].left

\* A record the loop has come to is in hand, to be returned, or settled.
BatchAccounted ==
    \A w \in Workers : \A m \in run[w].batch :
        \/ m \in run[w].todo \/ m \in run[w].failures
        \/ Sending(w) /\ m = run[w].current
        \/ Settled(m)

IInv ==
    /\ TypeOK /\ OneInvocation /\ BatchHidden
    /\ SenderOwns /\ OneSender
    /\ BatchAccounted /\ NothingLost
-----------------------------------------------------------------------------
(* What the documents say and the program does not do. *)

\* The lease is short enough that a message whose worker died is claimed again "instead of
\* being dead-lettered" (idempotency.py:30-33): its last receive is not refused by a lease.  And
\* "a live lease exists, the message is dropped as a duplicate" (dispatcher.py:7-8): a message that
\* meets one is gone, and is not found in the dead-letter queue either.
DeadLetteredTried == \A m \in Messages : place[m] = "dlq" => last[m] # "deferred"
=============================================================================
