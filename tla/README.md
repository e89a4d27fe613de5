# agent-report-distribution in TLA+

This directory is the verification project of the report pipeline in `src/`. It holds TLA+
modules that model the program, TLC configurations that check them on small instances, and
theorems about them that TLAPS checks for every instance. `PROJECT.json` lists the components,
the runs, the line numbers every definition is translated from, the hazards and the findings.

Paths below are relative to the repository root (`src/` here is the whole repository).

## 1. The system

Once a day raw CSV partitions become one report per agent, and every agent gets an email with a
pre-signed link to it.

| Component | State it keeps | Operations |
| --- | --- | --- |
| Data generator, `ingest/generator.py` | `raw/…`, one partition file after the other | flush a partition |
| Chunker Lambda, `lambda_handlers/chunker.py`, `common/aggregation.py` | `reports/dt=…/agent_id=…/report.csv` | shard the roster, stream agents, policies and claims, write one report per agent |
| EMR Spark job, `emr/jobs/agent_report_job.py` | the same reports, and staged part files while it writes | read, aggregate, write partitioned, rename the parts into place |
| Orchestrator Lambda, `lambda_handlers/orchestrator.py` | the run manifest | read the roster, list the reports, send one SQS message per agent in batches, retry the rejected entries singly |
| Fan-out queue and DLQ, `infra/terraform/sqs.tf`, `lambda.tf` | messages, receive counts, visibility timeouts | deliver batches at least once, delete what an answer does not return, dead-letter after 3 receives |
| Dispatcher Lambda, `lambda_handlers/dispatcher.py` | none of its own (the marker; `state/quarantine`) | parse or quarantine, claim, check the report, sign a link, send, mark sent or failed, answer with `batchItemFailures` |
| Dispatch ledger, `common/idempotency.py` | one marker per (date, agent): status, attempts, lease, error, history | `claim`, `mark_sent`, `mark_failed`, each a loop of one read and one conditional write |
| Storage, `common/storage.py` | objects and their versions | conditional create and replace, on S3 and on a local directory |
| Presign Lambda, `lambda_handlers/presign.py` | none | authorise a caller, check that the report exists, sign a link |
| Local pipeline, `pipeline.py` | an offline queue and its DLQ | run the whole day and drain the queue within a batch budget |
| Retry driver and errors, `common/retry.py`, `common/errors.py` | attempt counter | classify a failure as retryable or permanent, retry the former |

How they interact: the aggregation and the fan-out share only the reports bucket and a time gap
(01:30 and 02:30); the orchestrator and the dispatcher share only the queue; the dispatchers
share only the markers, through conditional writes. Nothing else orders two invocations.

What is hard here:

* **Concurrency without a coordinator.** Up to 20 dispatcher invocations, at-least-once delivery
  and replayed fan-outs mean that several invocations can work on one agent at once. What keeps
  them apart is a lease in an object, taken by read-then-conditional-write and never checked
  again before the email is sent.
* **Ambiguous outcomes.** A lost SES response, a PUT repeated by the SDK (`common/aws.py:33-41`)
  or refused with 409, and an invocation that dies: in each the caller knows less than happened.
* **Three clocks.** Lease (240 s), Lambda timeout (120 s) and visibility timeout (300 s) have to
  be ordered for claims taken late in a batch, and the receives a message has must outlast a
  lease nobody releases.
* **Deleting is the default.** SQS deletes whatever an answer does not name, so every path that
  should keep a message must name it.
* **Two stores with one contract**, one of them built from a lock file that can be orphaned.
* **Two writers of one prefix.** The chunker's shards and the Spark job write the same reports, may
  be started twice, early or while the other runs, and Spark begins by deleting all of them,
  also from under a fan-out, a dispatcher or a presign request that has just found them.
* **Two implementations of one report**, row by row in Python and with joins in Spark, that must
  agree to the cent on copied, orphaned and empty cells.

What makes each component correct is stated by the properties of section 3; what is left out, and
why, is in section 7.

## 2. The modules

```
DispatchRecord <- DispatchLedger <- MCDispatchLedger        Delivery <- MCDelivery
                        |   \                                   \
                        |    DispatchLedgerProofs                DeliveryProofs
                  LeaseRegister (abstract)
                        . . . . . its register is what Delivery uses for a marker

ConditionalStore (abstract) <- LocalCas,  S3Cas <- MCS3Cas
                                  |         |
                      LocalCasProofs       S3CasProofs
        . . . . . its promise is what DispatchLedger assumes of a conditional write

   Fanout <- LocalPipeline <- MCLocalPipeline        Sharding <- Aggregation <- MCAggregation
       \            \                                             \
        FanoutProofs <- LocalPipelineProofs                        AggregationProofs

Errors, Sharding <- ReportZone <- MCReportZone
                        \
                         ReportZoneProofs
```

**DispatchRecord** has the marker's fields and the pure decisions on it: what a claim decides
(`ClaimReason`), when a refusal sends the message back (`redeliver`), the markers the three
operations write, and who may write (`Writable`). A lease id is a number never used before.
The history is its length, which keeps what matters about it: a rewritten marker never has the
contents, hence the version, of an earlier one.

**DispatchLedger** composes the ledger with `dispatch_one`: one marker, and workers that are
invocations holding a message for it. Each network call is one action, so everything may happen
between a read and the write that follows it, between the claim and the send, and between the
send and `mark_sent`.

| Action | Code |
| --- | --- |
| `Deliver`, `BeginClaim` | the invocation starts; later, in its batch, `claim` takes the time (`dispatcher.py:351-396`, `idempotency.py:229`) |
| `ClaimRead`, `ClaimWrite` | a pass of the claim loop: read and decide; conditional write (`idempotency.py:231-279`) |
| `CheckReport` | the report exists, is read, linked and rendered, or raises (`dispatcher.py:254-279`) |
| `SendEmail` | one SES call under `call_with_retry` (`dispatcher.py:280-299`, `retry.py:84-140`) |
| `SentRead`, `SentWrite` | a pass of `mark_sent` (`idempotency.py:281-325`) |
| `FailRead`, `FailWrite` | a pass of `mark_failed` (`idempotency.py:327-374`) |
| `Die` | crash, Lambda timeout, or an exception `run_dispatcher` does not catch |
| `Tick` | time; no invocation outlives `LambdaTimeout` |

A conditional write is applied and reported; or applied and reported lost (the SDK repeats the
PUT and meets its own version); or refused because the marker moved; or refused with 409 because
another write is in progress, although the marker has not moved. A send is accepted, accepted
with the answer lost, throttled, or refused for good. `mails` and `lost` are history variables.

**LeaseRegister** is what the ledger promises: a register that is free, held until a time, done
or dead, whose operations are single steps. `DispatchLedger!ImplementsRegister` is the
refinement.

**Delivery** models what is around `dispatch_one`: the queue, batches, partial batch answers,
visibility and receive counts, the dead-letter queue, quarantine, and many agents. An agent's
marker is the lease register, which the refinement above entitles it to be. Times are countdowns
in minutes, so behaviours do not end for lack of clock and liveness can be checked.

**ConditionalStore** is the contract of a conditional write. **LocalCas** (lock file, stealing,
compare, replace, hard-link creation) and **S3Cas** (in-process lock, HEAD, conditional PUT on a
backend that may or may not be atomic, repeated and conflicting PUTs) are shown to implement it:
the local store exactly, the S3 store as `Pessimistic`, which is what `Stored` and `Rejected` in
DispatchLedger allow for.

**Errors** is `classify`: which failures `call_with_retry` repeats. A 404 carries its code in the body
of a GET and not in that of a HEAD; both are permanent, `MissingReportError` is not.

**Fanout** is `run_orchestrator`, for any number of overlapping invocations (daily, repeated by Lambda,
replayed), while reports are still being written and Spark's overwrite may remove those there are
(`Emptied`, which ReportZone has in its detail). A request may be stored, wholly or in part, and its
answer be lost; `copies` and `unheard` count what SQS really has.

| Action | Code |
| --- | --- |
| `Report`, `Emptied` | a writer of reports (`chunker.py:122-128`); the overwrite of the day (`agent_report_job.py:365-378`) |
| `Start`, `List` | read the roster; list the reports and plan (`orchestrator.py:156-178`, `plan_fanout`) |
| `BatchAnswered`, `SingleAnswered` | an answer, its `Failed` entries kept for single sends (`orchestrator.py:195-229`) |
| `BatchRepeated`, `SingleRepeated` | a failed attempt with one left (`retry.py:107-130`) |
| `BatchGivenUp`, `SingleGivenUp` | the error of a batch leaves the function, that of a single message is recorded (`orchestrator.py:196,230-238`) |
| `WriteManifest`, `Raise`, `Die` | the manifest, an error around the loop, a crash or timeout |

**LocalPipeline** composes Fanout with the drain loop of `run_local_pipeline`: `BeginDrain` computes
the budget, `Receive` is `receive_records` together with the offline queue's redrive policy,
`Sent`, `Failed`, `Duplicate` and `Quarantined` are what `run_dispatcher` makes of one record (the
marker being the register of DispatchLedger, without leases: nothing runs at the same time, so the
drain is of the fan-outs at whose end the reports are as they were when it began), and
`BudgetSpent` the end of the loop that leaves messages behind. A queue is a bag of messages, by agent
and receive count; `Size` counts its `Messages`.

**Sharding** is `plan_shards`. **Aggregation** reads a day's rows one at a time into one
`RawAggregator` per shard (`add_policy_row`, `add_claim_row`, the capacity guardrail), and defines the
Spark job's result over the same rows as its joins and groupings do (`SparkReports`). Amounts are
integers in cents, and the rounding is computed. It is the reference definition for the chunker, and
the chunker for it. The rows are constants, so the proofs hold for any rows, in any order and number.

**ReportZone** composes everybody who uses the raw and the reports bucket: the generator's flushes, the
chunker's shards, the Spark driver, the orchestrator's listing, the dispatcher's calls about a
report and the presign Lambda's. Each read of a source and each object written is one step; every
invocation may die between two of them and be started again, also before the raw day is complete
and beside the others.

| Action | Code |
| --- | --- |
| `Flush` | one partition file (`generator.py:358-378`, order of `generate_dataset`) |
| `StartShard`, `ShardPolicies`, `ShardClaims`, `ShardWrite`, `ShardDone`, `ShardDies` | `run_chunker`: roster and plan, the sources, one report at a time, in the order of the ids |
| `JobPolicies`, `JobAgents`, `JobClaims` | the table reads of `run_job` |
| `JobEmpties`, `JobCommits` | `mode("overwrite")` deletes the day's prefix; the commit puts the part files there |
| `JobLists`, `JobCreates`, `JobRemoves`, `JobRaises`, `JobDone`, `JobDies` | `finalize_report_layout`: `report.csv`, then the part file's deletion, agent by agent; a directory without a part file raises |
| `List` | `report_agent_ids` |
| `Exists`, `Size`, `LastModified`, `Get` | `dispatcher.py:255`, `:202`, `:203` and `:215`: a missing report is retryable in the first and permanent in the others |
| `Email` | the link is signed, which asks S3 nothing, and emailed (`dispatcher.py:262-299`) |
| `PresignExists`, `PresignSigns`, `PresignRaises` | `presign_report`'s `exists` and `presign_get` (`presign.py:93,99`), and an error between them that leaves the handler |

The `MC…` modules add the symmetry sets and the functions a cfg cannot write. Definitions whose
comment starts with *Fault* are the plausible mistakes the mutants of `PROJECT.json` swap in:
every property fails under one of them.

## 3. What the runs check

| Run (`cfg`) | Properties | What it shows |
| --- | --- | --- |
| `ledger` | `TypeOK`, `OneSender`, `SenderHoldsLease`, `EmailsAccounted`, `AckedIsSettled`, `SentIsFinal`, `ImplementsRegister` | at most one invocation is between claim and mark_sent; it owns the stored marker when it sends; every accepted email is the recorded one or one whose confirmation was lost; only settled messages are acknowledged; `sent` is terminal; the loops act atomically |
| `delivery` | `TypeOK`, `OneSender`, `OneInvocation`, `NothingLost` | the same exclusion with batches and late claims; a message is with one invocation at a time; what is deleted is emailed, failed for good, or quarantined |
| `drain` | `QueueDrains`, `OneRetryableFaultSurvived` | every message is deleted or dead-lettered; one failure that is not recorded as permanent costs no agent its email |
| `local_cas` | `TypeOK`, `OwnsLock`, `ImplementsStore` | the lock file excludes, also across a crash of its holder |
| `s3_cas` | `TypeOK`, `OneWinner`, `LockHasHolder`, `ImplementsStore` | the lock with the HEAD inside a process and If-Match across processes give one winner per version, and nothing leaves a lock taken |
| `pipeline` | `PipelineTypeOK`, `CopiesAccounted`, `ManifestAccounts`, `NobodyOverlooked`, `NoEarlyMessage`, `RunEnds`, `DrainAccounted`, `BudgetSuffices`, `DrainedMeansSettled` | whatever SQS rejects, stores without saying so or refuses, and whatever the aggregation writes and removes meanwhile: nobody is counted without a message, nobody is sent for without a report unless Spark has emptied the day since the listing, a finished fan-out has overlooked nobody whose report stayed and its manifest adds up; offline, the drain's counters account for every message, its budget lasts unless messages were stored unreported, and a queue that is empty has left nobody unsettled |
| `aggregate` | `TypeOK`, `PathsAgree`, `PoliciesReportedOnce`, `ClaimsAccounted`, `CapacityExact` | chunker and Spark job produce the same reports from rows in any order with copies, stale agents, orphans and empty amounts; nothing is lost or doubled between shards; a shard counts all the claims of its policies, whatever agents they name, and no others; the guardrail counts policies and not rows |
| `reports` | `TypeOK`, `ReportsWhole`, `DayComplete`, `NoLeftovers`, `RefusedOnlyIfOverwritten`, `DeadLinkOnlyIfOverwritten` | with repetitions, deaths and early starts of both writers, a report of the complete day has all its rows, finished writers leave every agent a report, what an early start wrote is replaced, and only Spark's overwrite makes a listed report missing, a found one fail its agent for good, or a link lead to nothing |

Four runs end in a violation, each of what the repository says; one of them contradicts two passages:

| Run | What the repository says | What the code does |
| --- | --- | --- |
| `acked_means_sent` | `dispatcher.py:16-21`, `docs/RUNBOOK.md:180-192`: everything that fails to send reaches the DLQ, only a quarantined message is acknowledged without a send | the redelivery of a permanently failed message is refused as `permanent_failure`, counted as a duplicate and acknowledged (`dispatcher.py:246-247`): no email and no DLQ entry |
| `emailed_once` | `idempotency.py:1`, `docs/RUNBOOK.md:161,212`: never emailed twice | a lost SES answer is retried, and a death before `mark_sent` leads to a second claim |
| `reclaimed` | `idempotency.py:29-33`, `docs/RUNBOOK.md:258-261`: a dead worker's message is claimed again instead of being dead-lettered | a claim late in its batch leaves a lease that refuses the next receive; with one earlier failure that was the last receive |
| `reclaimed` | `dispatcher.py:7-8`: a message that meets a live lease is "dropped as a duplicate" | it is returned and comes back, in the same behaviour (`dispatcher.py:236-245`, whose comment, like the docstring's lines 23-24, says so) |
| `local_steal` | `storage.py:456-463,595`: exactly one contender wins | two contenders that saw the same orphaned lock as stale both unlink it, the second one removing the first one's new lock |

`AckedIsSettled` and `NothingLost` are stated with `permanent_failure` counted as settled, which
is what the code does; `acked_means_sent` is the gap between that and the documents. For the same
reason `OneRetryableFaultSurvived` leaves out the behaviours in which the one failure is recorded as
permanent: there the agent does lose its email.

Two exceptions are stated in the properties about the buckets, and both are needed (TLC finds a
counterexample without them): `NoLeftovers` excepts an early invocation that still writes beside the
one on the complete day, since the later writer wins; and `NoEarlyMessage`, `RefusedOnlyIfOverwritten`
and `DeadLinkOnlyIfOverwritten` except what happened since Spark emptied the day. What the last two
then leave is the code's exposure: between `exists` and the calls after it an overwrite turns a report
that will be back in minutes into a marker failed for good, or a link to nothing.

## 4. Bounds

* `Ledger.cfg`: three workers, because a takeover, the worker it replaces and a bystander that is
  refused are three; three deliveries, one each. `Lease = 2`, `LambdaTimeout = 1` keep the order of
  the real values, and `MaxClock = 3` lets a lease taken late expire and be taken over.
  `MaxCas = 2` and `MaxSes = 2` let each loop go round once and be used up. The violations use
  two workers and the deployed `MaxCas = 5`, `MaxSes = 4`.
* `Delivery.cfg`: a duplicated fan-out (two messages of one agent) and a malformed message, two
  invocations, batches of two. `Lease = 4`, `LambdaTimeout = 2`, `Visibility = 5` are the deployed
  240, 120 and 300 seconds in minutes, `MaxReceives = 3` is the deployed one. `MaxFaults = 2`:
  `DeadLetteredTried` already needs two. `Drain.cfg` has two messages and three faults, so that a
  message can be dead-lettered.
* `LocalCas.cfg`: two writers, one of which may die: at most one contender for an orphaned lock,
  which is the case the code is right in. `Prompt` says that a living holder releases its lock
  within `stale_after` (its critical section is a read and a rename; 30 s). `LocalSteal.cfg` adds
  the second contender and nothing else.
* `S3Cas.cfg`: three writers in two processes, in every placement: two threads and a third
  process are the smallest instance in which both guards matter at once.
* `LocalPipeline.cfg`: three agents and `BatchSize = 2` make a full and a partial batch; one agent is
  unreachable, so that quarantine happens. `MissingKept = 1` (100 in the code) overflows with two
  missing agents. `MaxAttempts = 2` is one repetition. Until the drain begins reports come and go
  without a bound. `MaxReceives = 2` is the offline queue's own value,
  `Headroom = 4` stands for 50: the smallest that `PipelineAssumption` allows (`Headroom >= 2 *
  MaxReceives`, `MaxReceives <= 3`: `maxReceiveCount` is 2 in `testing.py:74` and 3 in `variables.tf`),
  so that the budget can be spent; `MaxLost = 2` bounds the messages stored by failed requests, which is
  what makes it run out. One invocation of the orchestrator: that
  overlapping ones do not disturb each other is proved, for any number (section 6).
* `Aggregation.cfg`: every roster of three agents, two shards, three policy rows of seven kinds (a copy,
  the same policy with another agent, an agent outside the roster, empty cells, a half to round up) and
  two claim rows of five kinds, in every order. `MaxPolicies = 2` so that the guardrail can be reached.
* `ReportZone.cfg`: two agents with a policy each, two partitions, two shards, two claims of one policy
  in different partitions; three starts (`MaxStarts`), of shards or of the Spark job, in any order: two
  shards and a job, a job twice, a shard repeated. The message and the link of one agent are followed
  (`Watched`, `Asked`), there is one fan-out that finds something and one Spark driver at a time. The
  constraint `OneReader` lets links be asked for in the behaviours without a fan-out only: the readers
  change no state that another of them, or a writer, reads, so what holds of each holds of both.

Symmetry is used in safety runs only, over sets whose members no definition tells apart.

## 5. Fairness

`FairSpec` of Delivery and `PipelineSpec` have it. In Delivery, `Tick`: time passes. `Poll`: the event source mapping polls a
queue that has a visible message. `Reappear`, `DeadLetter`: SQS keeps its timers. `Work(w)`: a
running invocation goes on, or is ended by `Die`; Lambda guarantees one of the two by the timeout.
No fairness is put on any failure, and none on which message a batch contains: `QueueDrains` holds
because receives are bounded. `OneRetryableFaultSurvived` is a liveness property with its condition
in it: it holds in behaviours with at most one failure, recorded as permanent nowhere, and says nothing
of the others.

In Fanout, `Proceed(r)` is weakly fair: Lambda runs an invocation it has started, and one that stops is
ended by its timeout (`Die`). Which answers SQS gives is left open, so `RunEnds` rests on the bounds in
the code: a batch is repeated at most `MaxAttempts` times, a rejected entry is tried singly and then
recorded; nothing is asked of the writers of reports. The drain and ReportZone have only safety
properties and no fairness.

## 6. What is proved

TLAPS checks, for every set of workers, messages and agents and every value of the constants that
`ConstantsAssumption` allows (the order of lease, timeout and visibility), and for the drain
`PipelineAssumption` (section 4); only *LocalCasProofs* adds a condition, which it names:

*DispatchLedgerProofs*: `TypeCorrect`, `MutualExclusion` (OneSender), `LeaseHeldAtSend`
(SenderHoldsLease), `SentTerminal`, `AcknowledgedIsSettled`, `EmailAccounting` and `Refinement`
(ImplementsRegister). The argument: mutual exclusion is not inductive, because nothing in it says
why a worker may believe in its lease. `IInv` adds it: an invocation is within its timeout
(`InTime`); lease ids are distinct (`LeasesDistinct`); a worker past its claim holds the stored
marker with an expiry `Lease` after its claim, until a write of its own that it was not told of
takes that away (`StepHolds`); only dispatching markers carry an expiry (`ExpiryOfLease`). A
takeover needs an expired lease, which by `InTime` and `LambdaTimeout < Lease` no living sender
has. Accounting and acknowledgement are then shown step by step on top of `IInv`; `EmailsAccounted`
needs that a step is taken by the only recording worker there is (`StepAlone`). The refinement maps
each successful conditional write to a register operation and every other step to a stutter.

*DeliveryProofs*: `TypeCorrect`, `MutualExclusion`, `MessageExclusion` (OneInvocation) and
`DeletedIsSettled` (NothingLost), from `IInv`: what is in a batch is hidden for longer than the
invocation will run (`BatchHidden`), a sender's agent is leased for longer than the sender will run
(`SenderOwns`), and every record of a batch is to come, in hand, to be returned or settled
(`BatchAccounted`).

*FanoutProofs*: `TypesRight`, `EveryCopyAccounted` (CopiesAccounted), `NoMessageBeforeReport`
(NoEarlyMessage), `NobodyIsOverlooked` and `ManifestsAccount`, for any finite set of agents, any
overlapping invocations and any batch size, retry bound and length of the list of the missing. The
counts alone are not inductive: `IInv` adds, for every invocation (`Sound`), that its targets are either
waiting, rejected, failed or none of these (`Apart`), that the plan left out only agents whose report
did not last from the start to the listing, and targeted only agents that still have one if the day has
not been emptied since (`Plans`), and that messages are those counted and those unheard of (`Counts`); and
that a manifest is the summary of an invocation that is over (`Manifested`). Each step changes one
invocation, so one lemma per action says what it does to that one, field by field, and one lemma that
the others are left as they were. The lemmas `Positions`, `LeastOne` and `LeastFull` are about "the n
least of a finite set", which batches and the list of the missing are.

*ReportZoneProofs*: `TypesRight`, `ReportsAreWhole`, `DayIsComplete`, `LeftoversGone` (NoLeftovers),
`RefusalsExplained` and `LinksLead` (DeadLinkOnlyIfOverwritten), for any
number of agents, policies, partitions, shards and starts. `IInv` says what a writer that began on the
complete day has read by each of its steps (`ShardRight`, `JobReads`), which agents are still to be
written by a shard that was not undone and by the job (`ShardRight`, `JobWrites`), that part files are
only where the job has still to come, that files of complete reads are whole (`FilesRight`), and that
what was listed, and what a reader has found, stays until the day is emptied (`ReadersRight`). That every
agent has one shard is proved from the arithmetic of `plan_shards`.

`NoLeftovers` has an invariant of its own on top of `IInv` (`FreshInv`): once the day is complete nobody
begins early, so an invocation that had no early one beside it when it began (a shard), or when it emptied
the day (the job), never gets one (`EarlyStep`); with none at work only fresh reports are written
(`OnlyFreshWritten`, which for the job needs that its part files are its own), so those it has written
stay fresh until the day is emptied (`ShardFresh`, `JobFresh`).

*S3CasProofs*: `TypesRight`, `OneWriterWins` (OneWinner), `NoLockOrphaned` (LockHasHolder) and
`Refinement` (ImplementsStore), for any writers in any processes and any faults. `IInv` says that a
backend that compares and then writes serves one process (`OneProcess`), that who is in its critical
section has its process's lock (`Locked`), and, for each writer (`Right`), that what it brings is newer
than what it expects, that a request of its own that took effect, answered or not, moved the object
past what it expected, and that between the compare and the write of such a backend the object is still
what it expected. The last is where the two guards meet: with an atomic backend no such state exists,
with the other one the lock keeps everybody else out of it.

*LocalCasProofs*: `TypesRight` in any case; `LockOwned` (OwnsLock), `OneWriterWins` (OneWinner) and
`Refinement` (ImplementsStore) under `OneContender`: holders release within `stale_after`, and nobody
dies or there are at most two writers. `Exclusion` carries the proof: a living holder is within its time
(`InTime`), so a lock file old enough to steal was left by a dead writer (`Left`), and then whoever steals
it is the last one alive (`LastAlive`). The condition cannot be dropped: `local_steal` is the same module
with a third writer, where two contenders steal the same orphaned lock and both win.

*AggregationProofs*: `TypesRight`, `GuardrailExact` (CapacityExact), `ClaimsCounted` (ClaimsAccounted),
`ReportedOnce` (PoliciesReportedOnce) and `SameReports` (PathsAgree), for any roster, any number of shards
and any rows, copies, orphans and empty cells among them. The amounts of both paths are sums over finite
sets (`SumFunctionOnSet`, a recursion that takes the elements in an order of its own). The induction theorems are out of
the provers' reach, so what a proof needs of sums is had from a least counterexample, the smallest set
that would be one (`LeastNumber`, from the well-foundedness of `<`): the empty sum is 0 (`SumEmpty`),
a sum of integers is one (`SumType`), equal summands have equal sums (`SumAgrees`), and any element can be
taken out (`SumRemove`), hence put in or raised (`SumAdd`). `IInv` says, for each shard: its policies are
exactly those of the rows in its scope, or it gave up with more than it may keep (`Keeps`); what it has of a policy
is from one of those rows (`Sourced`); a policy's claim count and amounts are the number and the sums of
the claims read so far (`Counts`); and its orphans are the other claims read that name a policy (`Accounts`). That no claim
is read before the last policy (`phase = "policies" => claimRows = <<>>`) is what makes `Counts` inductive: a policy
kept later would lack the claims before it. `SameReports` then compares the two paths policy by policy:
on `WellFormed` rows the row the aggregator kept and the one Spark's `dropDuplicates` chose are the same row.

*LocalPipelineProofs*: `PipelineTypesRight` (PipelineTypeOK), `EveryMessageAccounted` (DrainAccounted),
`EveryoneSettled` (DrainedMeansSettled) and `BudgetIsEnough` (BudgetSuffices), for any agents, batch size
and other invocations of the orchestrator, on top of FanoutProofs' invariant. `PInv` adds where the loop
is (`Phases`), that an agent not settled yet has a message in the queue or in hand (`Placed`), and the pace
of the drain (`Paced`): give every message one receive for each number from its receive count to
`MaxReceives`; then the batches are `full` ones, each of which used `BatchSize` receives, and `partial` ones,
each of which used at least one and left no message with fewer receives than there were partial batches:

    full * BatchSize + partial + Size(Ahead(queue, hand)) <= MaxReceives * Size(copies[own])

A partial batch had every live message in it, so there are at most `MaxReceives` of them; the full ones are
counted by the receives used. Together they are fewer than the budget (`Rounded`), so a loop that is over
did not stop on its budget, but on an empty receive, which leaves an empty queue. `Size(copies[own])` is the
number the budget was computed from only when no message was stored unreported, which is the condition of
BudgetSuffices.

Only model-checked is liveness: `QueueDrains` and `OneRetryableFaultSurvived` of Delivery and `RunEnds` of Fanout
(TLAPS does not do ENABLED or fairness). Every invariant and every other property of the passing runs is
proved, and every listed theorem that names a property states one of a run; `OneWinner` of LocalCas is one
of the run that refutes it without `OneContender`.

## 7. Assumptions, and what is not modelled

* The clocks of Lambda containers agree, and a request does not reach S3 after the invocation that
  sent it has ended. Both are assumptions of the lease's design.
* Markers without a lease id (older versions) and the operator's deletion of a marker (RUNBOOK 5a)
  are left out, and so is the DLQ redrive script, which duplicates a message like a replayed
  fan-out does.
* Message retention (4 days) is left out: no behaviour of interest is that long.
* Spark's commit is one step that puts all part files there (external). moto's queue is modelled from
  how `pipeline.py` and `testing.py` use it (external).
* The presign Lambda's `caller_identity` and `authorize` are decisions about one request, without state
  or order: what they are is in their unit tests, and a model would repeat their definitions.
* The generator writes one fixed data set in a fixed layout; the roster changes only as its files
  appear. A day regenerated with another layout is a hazard no property covers.
* `WellFormed` in `PathsAgree`: copies of a policy row are identical, policy ids, premiums and rates filled. On
  rows without them the two paths differ (an empty premium is 0.00 in one report and empty in the
  other; an empty policy id is skipped by one).
* An agent whose report is written after the fan-out's listing gets no message until somebody replays
  the fan-out: `NobodyOverlooked` says that it is listed as missing, not that it is ever emailed.
* Left out of modelled parts: `agent_ids` of the chunker, columns that are only copied, the summary
  objects of chunker and job, `max_dispatch_batches` and `visibility_timeout` of the offline run, the
  length of backoffs, the URL of a link and its expiry.
* Not modelled at all: metrics, logging, templates, settings, key formatting, the contents of the
  generated rows, the cost model, IAM. They keep no state another component reads, or are formatting.

What is left, in order:

1. Markers without a lease id, the operator's deletion of a marker and the redrive script as actions of
   DispatchLedger and Delivery.
2. A second version of the raw day in ReportZone, with fewer partitions.
3. The local store's plain writes beside its conditional ones.
4. That each agent's marker in Delivery behaves as a LeaseRegister, which is so far by construction of
   its actions: the refinement, checked and proved.
