------------------------------- MODULE Fanout -------------------------------
(***************************************************************************)
(* The orchestrator Lambda.  An invocation reads the roster and lists the  *)
(* reports, sends one message per agent in batches, repeats what SQS       *)
(* rejects one by one, and writes the run manifest.  Invocations overlap:  *)
(* the daily one, its repetition by Lambda, a replay by hand.  While they  *)
(* run, reports are written, and removed by a Spark job that overwrites    *)
(* the day.                                                                *)
(*                                                                         *)
(* An answer can be lost after SQS stored the messages, or some of them;   *)
(* call_with_retry then sends the request again.                           *)
(***************************************************************************)
EXTENDS Errors, FiniteSets

CONSTANTS
    Agents,        \* agent ids; their order is the order of the ids
    Roster,        \* the agents of the day's roster
    Runs,          \* invocations of the orchestrator
    Requested,     \* what each is asked for: a set of agents, {} for the whole roster
    RequireReport, \* the runs that only target agents with a report
    BatchSize,     \* sqs_batch_size, at most 10
    MissingKept,   \* how many agents without a report the result names
    MaxAttempts    \* max_attempts of BATCH_SEND_POLICY

ASSUME ConstantsAssumption ==
    /\ Agents \subseteq Nat /\ IsFiniteSet(Agents)
    /\ Roster \subseteq Agents
    /\ Requested \in [Runs -> SUBSET Agents]
    /\ RequireReport \subseteq Runs
    /\ BatchSize \in Nat \ {0} /\ MissingKept \in Nat /\ MaxAttempts \in Nat \ {0}

VARIABLES
    reports,   \* the agents with a report in the reports bucket
    run,       \* the invocations
    copies,    \* how many messages each of them has put in the queue, per agent
    manifest,  \* the day's run manifest
    unheard,   \* history: of those messages, the ones whose acceptance was never reported
    lasting,   \* history: the reports there from the beginning of each invocation until it lists
    emptied    \* history: the invocations since whose listing the day has been emptied

history == <<lasting, emptied>>
vars == <<reports, run, copies, manifest, unheard, history>>

\* todo: targets not sent in a batch yet.  retries: entries SQS rejected, still to be sent
\* singly.  attempt: failed attempts at the call under way.
RunStates == [step: {"new", "list", "send", "done", "raised", "dead"},
              targets: SUBSET Agents, missing: SUBSET Agents,
              todo: SUBSET Agents, retries: SUBSET Agents, attempt: 0..MaxAttempts - 1,
              enqueued: Nat, failed: SUBSET Agents]

Manifests == [run: Runs, targeted: Nat, missing: SUBSET Agents, enqueued: Nat, failed: SUBSET Agents]

TypeOK ==
    /\ reports \subseteq Agents
    /\ run \in [Runs -> RunStates]
    /\ copies \in [Runs -> [Agents -> Nat]]
    /\ manifest \subseteq Manifests
    /\ unheard \in [Runs -> [Agents -> Nat]]
    /\ lasting \in [Runs -> SUBSET Agents]
    /\ emptied \subseteq Runs

None == [a \in Agents |-> 0]

Init ==
    /\ reports \in SUBSET Agents
    /\ run = [r \in Runs |-> [step |-> "new", targets |-> {}, missing |-> {}, todo |-> {},
                              retries |-> {}, attempt |-> 0, enqueued |-> 0, failed |-> {}]]
    /\ copies = [r \in Runs |-> None]
    /\ manifest = {}
    /\ unheard = [r \in Runs |-> None]
    /\ lasting = [r \in Runs |-> {}]
    /\ emptied = {}

At(r, step) == run[r].step = step
Goto(r, step) == run' = [run EXCEPT ![r].step = step]
Least(n, S) == {a \in S : Cardinality({b \in S : b < a}) < n}
-----------------------------------------------------------------------------
(* The reports, which a chunker and a Spark job may be at work on. *)

\* The aggregation writes a report.
Report(a) ==
    /\ a \notin reports
    /\ reports' = reports \cup {a}
    /\ UNCHANGED <<run, copies, manifest, unheard, history>>

\* mode("overwrite"): Spark deletes the day's reports before it writes them again.
Emptied ==
    /\ reports' = {}
    /\ lasting' = [r \in Runs |-> IF At(r, "list") THEN {} ELSE lasting[r]]
    /\ emptied' = emptied \cup {r \in Runs : run[r].step \notin {"new", "list"}}
    /\ UNCHANGED <<run, copies, manifest, unheard>>
-----------------------------------------------------------------------------

\* The invocation starts and reads the roster.
Start(r) ==
    /\ At(r, "new")
    /\ Goto(r, "list")
    /\ lasting' = [lasting EXCEPT ![r] = reports]
    /\ UNCHANGED <<reports, copies, manifest, unheard, emptied>>

Candidates(r) == Roster \cap (IF Requested[r] = {} THEN Agents ELSE Requested[r])

\* Fault: reports are not looked at.
TargetsUnchecked(r) == Candidates(r)

\* plan_fanout
Targets(r) == IF r \in RequireReport THEN Candidates(r) \cap reports ELSE Candidates(r)
Missing(r) == Least(MissingKept, Candidates(r) \ reports)

\* The reports are listed and the fan-out planned.
List(r) ==
    /\ At(r, "list")
    /\ run' = [run EXCEPT ![r].step = "send", ![r].targets = Targets(r), ![r].todo = Targets(r),
                          ![r].missing = Missing(r)]
    /\ UNCHANGED <<reports, copies, manifest, unheard, history>>
-----------------------------------------------------------------------------
(* The send loop. *)

Batching(r) == At(r, "send") /\ run[r].retries = {} /\ run[r].todo # {}
Batch(r) == Least(BatchSize, run[r].todo)
Retrying(r) == At(r, "send") /\ run[r].retries # {}
Single(r) == Least(1, run[r].retries)

Plus(counts, S) == [a \in Agents |-> IF a \in S THEN counts[a] + 1 ELSE counts[a]]
Store(r, S) == copies' = [copies EXCEPT ![r] = Plus(@, S)]

\* Faults: entries SQS rejected are forgotten; the whole batch is sent again singly.
RejectedForgotten(batch, rejected) == {}
WholeBatch(batch, rejected) == IF rejected = {} THEN {} ELSE batch

\* The entries to retry: those of the answer's Failed list.
Rejected(batch, rejected) == rejected

\* SendMessageBatch is answered: each entry stored, or rejected.
BatchAnswered(r) ==
    /\ Batching(r)
    /\ \E rejected \in SUBSET Batch(r) :
          /\ Store(r, Batch(r) \ rejected)
          /\ run' = [run EXCEPT ![r].todo = @ \ Batch(r),
                                ![r].retries = Rejected(Batch(r), rejected),
                                ![r].attempt = 0,
                                ![r].enqueued = @ + Cardinality(Batch(r) \ rejected)]
    /\ UNCHANGED <<reports, manifest, unheard, history>>

\* SendMessage is answered.
SingleAnswered(r) ==
    /\ Retrying(r)
    /\ Store(r, Single(r))
    /\ run' = [run EXCEPT ![r].retries = @ \ Single(r), ![r].attempt = 0, ![r].enqueued = @ + 1]
    /\ UNCHANGED <<reports, manifest, unheard, history>>

\* Fault: the count starts again before it has reached its end.
AttemptRestarted(r) == (run[r].attempt + 1) % MaxAttempts

Attempt(r) == run[r].attempt + 1

\* Fault: one attempt too many.
AttemptsLeftOneMore(r) == Attempt(r) <= MaxAttempts

AttemptsLeft(r) == Attempt(r) < MaxAttempts

\* An attempt fails for a retryable reason, a part of the request (all of it, nothing) having
\* been stored, and there is an attempt left.
Repeat(r, S) ==
    /\ \E f \in Failures : Retryable(f)
    /\ AttemptsLeft(r)
    /\ Store(r, S)
    /\ unheard' = [unheard EXCEPT ![r] = Plus(@, S)]
    /\ run' = [run EXCEPT ![r].attempt = Attempt(r)]
    /\ UNCHANGED <<reports, manifest, history>>

\* It fails for a permanent reason, or it was the last.
GivesUp(r, S) ==
    /\ \/ \E f \in Failures : ~ Retryable(f) /\ S = {}
       \/ ~ AttemptsLeft(r)
    /\ Store(r, S)
    /\ unheard' = [unheard EXCEPT ![r] = Plus(@, S)]
    /\ UNCHANGED <<reports, manifest, history>>

BatchRepeated(r) == Batching(r) /\ \E S \in SUBSET Batch(r) : Repeat(r, S)
SingleRepeated(r) == Retrying(r) /\ \E S \in SUBSET Single(r) : Repeat(r, S)

\* The error of a batch leaves run_orchestrator.
BatchGivenUp(r) ==
    /\ Batching(r)
    /\ \E S \in SUBSET Batch(r) : GivesUp(r, S)
    /\ Goto(r, "raised")

\* The error of a single message is caught: the agent goes to failed_agent_ids.
SingleGivenUp(r) ==
    /\ Retrying(r)
    /\ \E S \in SUBSET Single(r) : GivesUp(r, S)
    /\ run' = [run EXCEPT ![r].retries = @ \ Single(r), ![r].attempt = 0,
                          ![r].failed = @ \cup Single(r)]

\* Fault: the manifest is built before the failures are known.
SummaryUnfailed(r) ==
    [run |-> r, targeted |-> Cardinality(run[r].targets), missing |-> run[r].missing,
     enqueued |-> run[r].enqueued, failed |-> {}]

Summary(r) ==
    [run |-> r, targeted |-> Cardinality(run[r].targets), missing |-> run[r].missing,
     enqueued |-> run[r].enqueued, failed |-> run[r].failed]

\* The manifest of the day is replaced.
WriteManifest(r) ==
    /\ At(r, "send") /\ run[r].todo = {} /\ run[r].retries = {}
    /\ manifest' = {Summary(r)}
    /\ Goto(r, "done")
    /\ UNCHANGED <<reports, copies, unheard, history>>

\* A read of the roster or the listing, or the write of the manifest, raises.
Raise(r) ==
    /\ At(r, "new") \/ At(r, "list") \/ (At(r, "send") /\ run[r].todo = {} /\ run[r].retries = {})
    /\ Goto(r, "raised")
    /\ UNCHANGED <<reports, copies, manifest, unheard, history>>

Ended(r) == run[r].step \in {"done", "raised", "dead"}

\* The invocation is ended by a crash or by its timeout.
Die(r) ==
    /\ ~ Ended(r) /\ ~ At(r, "new")
    /\ Goto(r, "dead")
    /\ UNCHANGED <<reports, copies, manifest, unheard, history>>

Proceed(r) ==
    \/ Start(r) \/ List(r) \/ Raise(r) \/ WriteManifest(r)
    \/ BatchAnswered(r) \/ BatchRepeated(r) \/ BatchGivenUp(r)
    \/ SingleAnswered(r) \/ SingleRepeated(r) \/ SingleGivenUp(r)

Invocations == \E r \in Runs : Proceed(r) \/ Die(r)

Next == Invocations \/ Emptied \/ \E a \in Agents : Report(a)

Spec == Init /\ [][Next]_vars

\* Lambda runs what it has started, until its timeout.
Fairness == \A r \in Runs : WF_vars(Proceed(r))
-----------------------------------------------------------------------------
\* The targets an invocation counts as enqueued.
Counted(r) == run[r].targets \ (run[r].todo \cup run[r].retries \cup run[r].failed)

\* Every message in the queue is the one its agent is counted for, or one whose acceptance the
\* invocation was not told of: nobody is counted without a message, and only a lost answer
\* puts a second one there, whatever is rejected, repeated or given up.
CopiesAccounted ==
    \A r \in Runs : \A a \in Agents :
        copies[r][a] = unheard[r][a] + (IF a \in Counted(r) THEN 1 ELSE 0)

\* "Anything that still fails is recorded in the manifest instead of being silently dropped"
\* (orchestrator.py:9-11): the manifest's numbers add up to its targets, and the targets that
\* are not among its failures have a message.
ManifestAccounts ==
    \A m \in manifest :
        /\ m.targeted = m.enqueued + Cardinality(m.failed)
        /\ \A a \in run[m.run].targets \ m.failed : copies[m.run][a] > 0

\* An invocation that finished has sent, or recorded as failed, every agent it was asked for
\* whose report was there from when it began until it listed them, whatever came and went
\* meanwhile, and lists the others that had none when it looked, until its list is full.
NobodyOverlooked ==
    \A r \in Runs : At(r, "done") =>
        \A a \in Candidates(r) :
            \/ copies[r][a] > 0 \/ a \in run[r].failed
            \/ /\ r \in RequireReport /\ a \notin lasting[r]
               /\ a \in run[r].missing \/ Cardinality(run[r].missing) >= MissingKept

\* "Never email a link to an object that does not exist" (orchestrator.py:88) holds of the moment
\* the reports are listed: a message is for an agent without a report only if Spark has emptied
\* the day since; nothing else that runs into the fan-out, or repeats it, puts one there.
NoEarlyMessage ==
    \A r \in RequireReport \ emptied : \A a \in Agents : copies[r][a] > 0 => a \in reports

\* However SQS answers, an invocation comes to an end of its own, or by its timeout.
RunEnds == \A r \in Runs : <>Ended(r)
=============================================================================
