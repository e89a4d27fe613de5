---------------------------- MODULE LocalPipeline ----------------------------
(***************************************************************************)
(* The offline run of the whole day: after the fan-out, run_local_pipeline *)
(* receives batches from the queue and hands them to the dispatcher itself *)
(* until a receive comes back empty or its batch budget is spent.          *)
(*                                                                         *)
(* The queue (moto) hides a received message for no time at all, and moves *)
(* one received MaxReceives times to the dead-letter queue when a receive  *)
(* comes across it.  Messages of one agent with the same receive count are *)
(* not told apart.                                                         *)
(***************************************************************************)
EXTENDS Fanout

CONSTANTS
    own,          \* the orchestrator invocation the pipeline makes
    Unreachable,  \* agents whose roster row has no usable email
    MaxReceives,  \* maxReceiveCount of the offline queue
    Headroom,     \* the constant of dispatch_batch_budget
    MaxLost       \* bound: messages stored by a request that failed

\* maxReceiveCount is 2 offline (testing.py:74) and 3 where deployed (sqs.tf): the budget has three
\* rounds for every batch sent, and 50 more (pipeline.py:65).
ASSUME PipelineAssumption ==
    /\ own \in Runs /\ Unreachable \subseteq Agents /\ MaxLost \in Nat
    /\ MaxReceives \in 1..3 /\ Headroom \in Nat /\ Headroom >= 2 * MaxReceives

VARIABLES
    drain,     \* the loop and the counters of the result
    queue,     \* how many messages there are, per agent and receive count
    hand,      \* those of them that are in the batch being dispatched
    dlq,       \* messages in the dead-letter queue, per agent
    register   \* each agent's marker

drainVars == <<drain, queue, hand, dlq, register>>

Kinds == Agents \X (0..MaxReceives)
Live == Agents \X (0..MaxReceives - 1)
Empty == [k \in Kinds |-> 0]

\* Messages in a bag, numbered from 1 where they are alike.
Messages(bag) == UNION {{k} \X (1..bag[k]) : k \in DOMAIN bag}
Size(bag) == Cardinality(Messages(bag))

DrainTypeOK ==
    /\ drain \in [step: {"wait", "loop", "ended"}, batches: Nat, budget: Nat, emails_sent: Nat,
                  duplicates: Nat, quarantined: Nat, failed: Nat]
    /\ queue \in [Kinds -> Nat] /\ hand \in [Kinds -> Nat] /\ dlq \in [Agents -> Nat]
    /\ register \in [Agents -> {"free", "done", "dead"}]

PipelineTypeOK == TypeOK /\ DrainTypeOK

DrainInit ==
    /\ drain = [step |-> "wait", batches |-> 0, budget |-> 0, emails_sent |-> 0,
                duplicates |-> 0, quarantined |-> 0, failed |-> 0]
    /\ queue = Empty /\ hand = Empty /\ dlq = None
    /\ register = [a \in Agents |-> "free"]

\* Fault: no rounds for redeliveries.
BudgetOnce(enqueued) == (enqueued \div BatchSize) + 1

dispatch_batch_budget(enqueued) == (enqueued \div BatchSize) * 3 + Headroom

\* The fan-out has returned its summary.  run_local_pipeline runs nothing beside it, so its fan-outs
\* are those at whose end the reports are as they were when it began.
BeginDrain ==
    /\ drain.step = "wait" /\ At(own, "done")
    /\ reports = lasting[own] /\ emptied = {}
    /\ drain' = [drain EXCEPT !.step = "loop", !.budget = dispatch_batch_budget(run[own].enqueued)]
    /\ queue' = [k \in Kinds |-> IF k[2] = 0 THEN copies[own][k[1]] ELSE 0]
    /\ UNCHANGED <<hand, dlq, register, vars>>

Rest == drain.step = "loop" /\ hand = Empty

\* The batches a receive may return: as many messages as there are, at most BatchSize.
Batches ==
    {b \in [Live -> 0..BatchSize] :
        /\ \A k \in Live : b[k] <= queue[k]
        /\ \/ Size(b) = BatchSize
           \/ Size(b) < BatchSize /\ \A k \in Live : b[k] = queue[k]}

\* The used-up messages it comes across: all of them if it got to the end of the queue.
Passed(b) ==
    {p \in [Agents -> 0..Size(queue)] :
        \A a \in Agents : /\ p[a] <= queue[<<a, MaxReceives>>]
                          /\ Size(b) < BatchSize => p[a] = queue[<<a, MaxReceives>>]}

\* receive_records, and the redrive policy.
Receive ==
    /\ Rest /\ drain.batches < drain.budget
    /\ \E b \in Batches : \E p \in Passed(b) :
          /\ queue' = [k \in Kinds |-> queue[k] - (IF k \in Live THEN b[k] ELSE p[k[1]])]
          /\ hand' = [k \in Kinds |-> IF k[2] = 0 THEN 0 ELSE b[<<k[1], k[2] - 1>>]]
          /\ dlq' = [a \in Agents |-> dlq[a] + p[a]]
          /\ drain' = IF Size(b) = 0 THEN [drain EXCEPT !.step = "ended"]
                                     ELSE [drain EXCEPT !.batches = @ + 1]
    /\ UNCHANGED <<register, vars>>

BudgetSpent ==
    /\ Rest /\ drain.batches = drain.budget
    /\ drain' = [drain EXCEPT !.step = "ended"]
    /\ UNCHANGED <<queue, hand, dlq, register, vars>>
-----------------------------------------------------------------------------
(* One record of run_dispatcher's loop. *)

Taken(k) == hand[k] > 0 /\ hand' = [hand EXCEPT ![k] = @ - 1]

\* Fault: what failed is deleted too.
LeftDeleted(k) == UNCHANGED queue

\* A record in batch_item_failures is not deleted; it is visible again at once.
Left(k) == queue' = [queue EXCEPT ![k] = @ + 1]

Quarantined(k) ==
    /\ Taken(k) /\ k[1] \in Unreachable
    /\ drain' = [drain EXCEPT !.quarantined = @ + 1]
    /\ UNCHANGED <<queue, dlq, register, vars>>

Sent(k) ==
    /\ Taken(k) /\ k[1] \notin Unreachable /\ register[k[1]] = "free"
    /\ register' = [register EXCEPT ![k[1]] = "done"]
    /\ drain' = [drain EXCEPT !.emails_sent = @ + 1]
    /\ UNCHANGED <<queue, dlq, vars>>

Failed(k, state) ==
    /\ Taken(k) /\ k[1] \notin Unreachable /\ register[k[1]] = "free"
    /\ register' = [register EXCEPT ![k[1]] = state]
    /\ Left(k)
    /\ drain' = [drain EXCEPT !.failed = @ + 1]
    /\ UNCHANGED <<dlq, vars>>

Duplicate(k) ==
    /\ Taken(k) /\ k[1] \notin Unreachable /\ register[k[1]] \in {"done", "dead"}
    /\ drain' = [drain EXCEPT !.duplicates = @ + 1]
    /\ UNCHANGED <<queue, dlq, register, vars>>

Drain ==
    \/ BeginDrain \/ Receive \/ BudgetSpent
    \/ \E k \in Kinds : Quarantined(k) \/ Sent(k) \/ Duplicate(k)
    \/ \E k \in Kinds, state \in {"free", "dead"} : Failed(k, state)

PipelineInit == Init /\ DrainInit

FanoutStep == Next /\ drain.step = "wait" /\ Size(unheard[own])' <= MaxLost /\ UNCHANGED drainVars

PipelineNext == FanoutStep \/ Drain
PipelineSpec == PipelineInit /\ [][PipelineNext]_<<vars, drainVars>> /\ Fairness
-----------------------------------------------------------------------------
Over == drain.step = "ended"

\* Every message is in exactly one place and every counter is a number of messages: what the
\* result reports as sent, suppressed, quarantined and dead-lettered, with what is left, is what
\* the fan-out put in the queue, its unreported copies included; one email per agent emailed.
DrainAccounted ==
    /\ drain.step # "wait" =>
          drain.emails_sent + drain.duplicates + drain.quarantined
            + Size(queue) + Size(hand) + Size(dlq) = Size(copies[own])
    /\ drain.emails_sent = Cardinality({a \in Agents : register[a] = "done"})

\* "if it were fixed, a large day would silently stop part-way through" (pipeline.py:57-60): unless
\* the fan-out undercounts its messages, the budget sees every redelivery through to the DLQ.
BudgetSuffices ==
    Over /\ Size(unheard[own]) = 0 => Size(queue) = 0

\* A queue reported drained has left no agent without an email, a permanent failure on its
\* marker, a copy in quarantine or a message in the DLQ.
DrainedMeansSettled ==
    Over /\ Size(queue) = 0 =>
        \A a \in Agents : copies[own][a] > 0 =>
            \/ a \in Unreachable \/ register[a] \in {"done", "dead"} \/ dlq[a] > 0
=============================================================================
