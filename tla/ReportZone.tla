----------------------------- MODULE ReportZone -----------------------------
(***************************************************************************)
(* The raw and the report bucket of one day, and everyone who touches      *)
(* them: the generator that writes the raw partitions, the chunker's       *)
(* shards and the Spark job that turn them into reports (both may run, and *)
(* may be started again after a crash), the orchestrator that lists the    *)
(* reports, the dispatcher that reads them, the presign Lambda.            *)
(*                                                                         *)
(* Nothing orders them but the clock of the scheduler.  A report is the    *)
(* set of rows that went into it; what is computed from them is the        *)
(* subject of Aggregation.                                                 *)
(***************************************************************************)
EXTENDS Sharding, Errors

CONSTANTS
    NAgents, PoliciesPerAgent,
    ClaimPolicy,  \* the policy of each claim, in the order of the claims
    Partitions, Shards,
    NoReport,     \* not a report
    Watched,      \* bound: the agents whose messages are followed
    Asked,        \* bound: the agents whose links are asked for
    MaxStarts     \* bound: invocations of shards and of the job

Agents == 1..NAgents
Policies == 0..NAgents * PoliciesPerAgent - 1
Claims == DOMAIN ClaimPolicy
Parts == 0..Partitions - 1
Reports == [policies: SUBSET Policies, claims: SUBSET Claims, full: BOOLEAN]

ASSUME ConstantsAssumption ==
    /\ NAgents \in Nat /\ PoliciesPerAgent \in Nat \ {0}
    /\ Claims \subseteq Nat /\ ClaimPolicy \in [Claims -> Policies]
    /\ Partitions \in Nat \ {0} /\ Shards \in Nat \ {0}
    /\ NoReport \notin Reports /\ MaxStarts \in Nat

\* iter_rows: the agent of a policy.
AgentOf(policy) == policy \div PoliciesPerAgent + 1

VARIABLES
    raw,     \* the partition files, <<source, part>>
    shard,   \* the chunker's invocations
    job,     \* the Spark driver
    report,  \* report.csv of each agent
    part,    \* Spark's part file of each agent
    listed,  \* the followed agents the orchestrator has sent a message for
    check,   \* how far the dispatcher is with each of them
    link,    \* how far the presign Lambda is with the request for an agent's report
    starts,  \* invocations so far
    cleared, \* history: the job has emptied the day since it was listed
    found    \* history: which reader has found whose report, since the job last emptied the day

vars == <<raw, shard, job, report, part, listed, check, link, starts, cleared, found>>

\* policies, claims: the rows read.  todo: the agents to write.  full: the raw day was complete
\* when it started.  undone: history: the job has emptied the day since.  crossed: history: it
\* began on the complete day, with an invocation that had not still running.
ShardStates == [step: {"idle", "policies", "claims", "write", "done"}, planned: SUBSET Agents,
                policies: SUBSET Policies, claims: SUBSET Claims, todo: SUBSET Agents,
                full: BOOLEAN, undone: BOOLEAN, crossed: BOOLEAN]

\* todo: the directories to finalize.  renamed: the one whose part file is still to be removed.
\* crossed: history: it has emptied the complete day, with an early invocation still running.
JobStates == [step: {"idle", "agents", "claims", "empty", "commit", "list", "finalize", "done", "raised"},
              agents: SUBSET Agents, policies: SUBSET Policies, claims: SUBSET Claims,
              todo: SUBSET Agents, renamed: SUBSET Agents, full: BOOLEAN, crossed: BOOLEAN]

Checks == {"none", "exists", "sized", "dated", "read", "emailed", "missing", "refused"}

\* The rows of its policies, and of claims on those.
Of(a, rows) ==
    /\ \A p \in rows.policies : AgentOf(p) = a
    /\ \A c \in rows.claims : ClaimPolicy[c] \in rows.policies

TypeOK ==
    /\ raw \subseteq {"agents", "policies", "claims"} \X Parts
    /\ shard \in [0..Shards - 1 -> ShardStates] /\ job \in JobStates
    /\ report \in [Agents -> Reports \cup {NoReport}] /\ part \in [Agents -> Reports \cup {NoReport}]
    /\ \A a \in Agents : \A file \in {report[a], part[a]} \ {NoReport} : Of(a, file)
    /\ listed \subseteq Agents
    /\ check \in [Agents -> Checks] /\ link \in [Agents -> {"none", "exists", "signed"}]
    /\ starts \in 0..MaxStarts /\ cleared \in BOOLEAN /\ found \subseteq {"dispatcher", "presign"} \X Agents

IdleShard == [step |-> "idle", planned |-> {}, policies |-> {}, claims |-> {}, todo |-> {},
              full |-> FALSE, undone |-> FALSE, crossed |-> FALSE]
IdleJob == [step |-> "idle", agents |-> {}, policies |-> {}, claims |-> {}, todo |-> {},
            renamed |-> {}, full |-> FALSE, crossed |-> FALSE]
Nothing == [a \in Agents |-> NoReport]

Init ==
    /\ raw = {}
    /\ shard = [w \in 0..Shards - 1 |-> IdleShard] /\ job = IdleJob
    /\ report = Nothing /\ part = Nothing
    /\ listed = {} /\ check = [a \in Agents |-> "none"] /\ link = [a \in Agents |-> "none"]
    /\ starts = 0 /\ cleared = FALSE /\ found = {}

reportVars == <<report, part>>
readerVars == <<listed, check, link, found>>
-----------------------------------------------------------------------------
(* The raw day.  Row i of a source is in partition i % Partitions. *)

Index == [agents |-> {a - 1 : a \in Agents}, policies |-> Policies, claims |-> Claims]

\* The files in the order they are flushed in; empty ones are not written.
Files == {f \in (DOMAIN Index) \X Parts : \E i \in Index[f[1]] : i % Partitions = f[2]}
Before(f, g) ==
    LET Rank == [agents |-> 0, policies |-> 1, claims |-> 2]
    IN  Rank[f[1]] < Rank[g[1]] \/ (f[1] = g[1] /\ f[2] < g[2])

\* A generator that is run again writes the same files again.
Flush(f) ==
    /\ f \notin raw /\ \A g \in Files : Before(g, f) => g \in raw
    /\ raw' = raw \cup {f}
    /\ UNCHANGED <<shard, job, reportVars, readerVars, starts, cleared>>

RawComplete == raw = Files

\* Fault: the last partition is not listed.
source_part_keys_short(source) == {n \in Parts : <<source, n>> \in raw /\ n < Partitions - 1}

source_part_keys(source) == {n \in Parts : <<source, n>> \in raw}

\* iter_source_rows
Rows(source) == {i \in Index[source] : i % Partitions \in source_part_keys(source)}
read_roster == {i + 1 : i \in Rows("agents")}
-----------------------------------------------------------------------------
(* run_chunker *)

Start == starts < MaxStarts /\ starts' = starts + 1

\* An invocation that began on an incomplete day is still at work.
ShardEarly(w) == shard[w].step \in {"policies", "claims", "write"} /\ ~ shard[w].full
JobEarly == job.step \notin {"idle", "done", "raised"} /\ ~ job.full
Early == JobEarly \/ \E w \in DOMAIN shard : ShardEarly(w)

StartShard(w) ==
    /\ shard[w].step \in {"idle", "done"} /\ Start
    /\ shard' = [shard EXCEPT ![w] = [IdleShard EXCEPT
            !.step = "policies", !.planned = plan_shards(read_roster, Shards, w), !.full = RawComplete,
            !.crossed = RawComplete /\ Early]]
    /\ UNCHANGED <<raw, job, reportVars, readerVars, cleared>>

\* The agents' rows are read again before the policies, for their names.
ShardPolicies(w) ==
    /\ shard[w].step = "policies"
    /\ shard' = [shard EXCEPT ![w].step = "claims",
                              ![w].policies = {p \in Rows("policies") : AgentOf(p) \in shard[w].planned}]
    /\ UNCHANGED <<raw, job, reportVars, readerVars, starts, cleared>>

ShardClaims(w) ==
    /\ shard[w].step = "claims"
    /\ shard' = [shard EXCEPT ![w].step = "write",
                              ![w].claims = {c \in Rows("claims") : ClaimPolicy[c] \in shard[w].policies},
                              ![w].todo = {AgentOf(p) : p \in shard[w].policies}]
    /\ UNCHANGED <<raw, job, reportVars, readerVars, starts, cleared>>

\* Fault: every report has the rows of all the agents.
ReportUnfiltered(read, a) == [policies |-> read.policies, claims |-> read.claims, full |-> read.full]

\* The report of an agent from what a reader has read.
Report(read, a) ==
    [policies |-> {p \in read.policies : AgentOf(p) = a},
     claims |-> {c \in read.claims : ClaimPolicy[c] \in read.policies /\ AgentOf(ClaimPolicy[c]) = a},
     full |-> read.full]

\* Fault: a report that is there is not written again.
WrittenOnce(a, file) == report' = IF report[a] = NoReport THEN [report EXCEPT ![a] = file] ELSE report

\* put_bytes replaces whatever is there.
Written(a, file) == report' = [report EXCEPT ![a] = file]

ShardWrite(w) ==
    /\ shard[w].step = "write"
    /\ \E a \in shard[w].todo :
          /\ \A b \in shard[w].todo : a <= b
          /\ Written(a, Report(shard[w], a))
          /\ shard' = [shard EXCEPT ![w].todo = @ \ {a}]
    /\ UNCHANGED <<raw, job, part, readerVars, starts, cleared>>

ShardDone(w) ==
    /\ shard[w].step = "write" /\ shard[w].todo = {}
    /\ shard' = [shard EXCEPT ![w] = [IdleShard EXCEPT !.step = "done", !.full = shard[w].full,
                                        !.undone = shard[w].undone, !.crossed = shard[w].crossed]]
    /\ UNCHANGED <<raw, job, reportVars, readerVars, starts, cleared>>

\* The invocation dies, or a read or a write of it raises.
ShardDies(w) ==
    /\ shard[w].step \in {"policies", "claims", "write"}
    /\ shard' = [shard EXCEPT ![w] = IdleShard]
    /\ UNCHANGED <<raw, job, reportVars, readerVars, starts, cleared>>
-----------------------------------------------------------------------------
(* run_job.  The files of a source are listed when its table is opened. *)

JobStep(from, to) == job.step = from /\ job' = [job EXCEPT !.step = to]

JobPolicies ==
    /\ job.step \in {"idle", "done", "raised"} /\ Start
    /\ job' = [IdleJob EXCEPT !.step = "agents", !.policies = Rows("policies"), !.full = RawComplete]
    /\ UNCHANGED <<raw, shard, reportVars, readerVars, cleared>>

JobAgents ==
    /\ job.step = "agents"
    /\ job' = [job EXCEPT !.step = "claims", !.agents = read_roster]
    /\ UNCHANGED <<raw, shard, reportVars, readerVars, starts, cleared>>

JobClaims ==
    /\ job.step = "claims"
    /\ job' = [job EXCEPT !.step = "empty", !.claims = Rows("claims")]
    /\ UNCHANGED <<raw, shard, reportVars, readerVars, starts, cleared>>

\* mode("overwrite"): everything under the day's prefix is deleted first.
JobEmpties ==
    /\ job.step = "empty"
    /\ job' = [job EXCEPT !.step = "commit", !.crossed = job.full /\ Early]
    /\ report' = Nothing /\ part' = Nothing
    /\ shard' = [w \in DOMAIN shard |-> [shard[w] EXCEPT !.undone = shard[w].step # "idle"]]
    /\ cleared' = (listed # {}) /\ found' = {}
    /\ UNCHANGED <<raw, listed, check, link, starts>>

\* One part file per agent that has a policy and a roster row appears when the write commits.
Reported == {AgentOf(p) : p \in job.policies} \cap job.agents

JobCommits ==
    /\ JobStep("commit", "list")
    /\ part' = [a \in Agents |-> IF a \in Reported THEN Report(job, a) ELSE part[a]]
    /\ UNCHANGED <<raw, shard, report, readerVars, starts, cleared>>

\* finalize_report_layout lists the agents' directories, whoever wrote them.
JobLists ==
    /\ job.step = "list"
    /\ job' = [job EXCEPT !.step = "finalize",
                          !.todo = {a \in Agents : report[a] # NoReport \/ part[a] # NoReport}]
    /\ UNCHANGED <<raw, shard, reportVars, readerVars, starts, cleared>>

Finalizing(a) == job.step = "finalize" /\ job.renamed = {} /\ a \in job.todo

\* The part file becomes report.csv, with the agent's column put back.
JobCreates(a) ==
    /\ Finalizing(a) /\ part[a] # NoReport
    /\ Written(a, part[a])
    /\ job' = [job EXCEPT !.todo = @ \ {a}, !.renamed = {a}]
    /\ UNCHANGED <<raw, shard, part, readerVars, starts, cleared>>

\* Fault: the directory is removed with the part file.
RemovedWithDirectory(a) == part' = [part EXCEPT ![a] = NoReport] /\ report' = [report EXCEPT ![a] = NoReport]

Removed(a) == part' = [part EXCEPT ![a] = NoReport] /\ UNCHANGED report

JobRemoves(a) ==
    /\ a \in job.renamed
    /\ Removed(a)
    /\ job' = [job EXCEPT !.renamed = @ \ {a}]
    /\ UNCHANGED <<raw, shard, readerVars, starts, cleared>>

\* "expected exactly one part file": a directory only the chunker has written to.
JobRaises(a) ==
    /\ Finalizing(a) /\ part[a] = NoReport
    /\ job' = [IdleJob EXCEPT !.step = "raised"]
    /\ UNCHANGED <<raw, shard, reportVars, readerVars, starts, cleared>>

JobDone ==
    /\ job.step = "finalize" /\ job.todo = {} /\ job.renamed = {}
    /\ job' = [IdleJob EXCEPT !.step = "done", !.full = job.full, !.crossed = job.crossed]
    /\ UNCHANGED <<raw, shard, reportVars, readerVars, starts, cleared>>

JobDies ==
    /\ job.step \notin {"idle", "done", "raised"}
    /\ job' = IdleJob
    /\ UNCHANGED <<raw, shard, reportVars, readerVars, starts, cleared>>
-----------------------------------------------------------------------------
(* The readers of the reports: the orchestrator, the dispatcher, presign. *)

\* report_agent_ids: part files are not reports.
Published == {a \in Agents : report[a] # NoReport}

\* Bound: one fan-out that finds something.
List ==
    /\ listed = {} /\ listed' = Published \cap Watched /\ cleared' = FALSE
    /\ UNCHANGED <<raw, shard, job, reportVars, check, link, starts, found>>

\* The object is not there: the message comes back and the report is looked for again, or the
\* agent's marker has failed for good.
Absent(failure) == IF Retryable(failure) THEN "missing" ELSE "refused"

bucketVars == <<raw, shard, job, reportVars, listed, starts, cleared>>
Finds(reader, a) == found' = IF a \in Published THEN found \cup {<<reader, a>>} ELSE found

\* A call of the dispatcher's about a report: it goes on, or fails.
Call(a, from, to, failure) ==
    /\ a \in listed /\ check[a] \in from
    /\ check' = [check EXCEPT ![a] = IF a \in Published THEN to ELSE Absent(failure)]
    /\ UNCHANGED <<bucketVars, link>>

\* storage.exists answers no, and dispatch_one raises; a HEAD or a GET after that fails itself.
\* A message that came back, for whatever reason, begins again.
Exists(a) ==
    /\ Call(a, Checks \ {"emailed", "refused"}, "exists", MissingReportError)
    /\ Finds("dispatcher", a)
Size(a) == Call(a, {"exists"}, "sized", NoSuchObject("head")) /\ UNCHANGED found
LastModified(a) == Call(a, {"sized"}, "dated", NoSuchObject("head")) /\ UNCHANGED found
Get(a) == Call(a, {"dated"}, "read", NoSuchObject("get")) /\ UNCHANGED found

\* The link is signed and the email sent without another look at the bucket; a report over
\* max_report_bytes has not been read.
Email(a) ==
    /\ check[a] \in {"dated", "read"} /\ check' = [check EXCEPT ![a] = "emailed"]
    /\ UNCHANGED <<bucketVars, link, found>>

PresignStep(a, from, to) == a \in Asked /\ link[a] \in from /\ link' = [link EXCEPT ![a] = to]

\* presign_report: no report, and the answer is 404.
PresignExists(a) ==
    /\ PresignStep(a, {"none", "signed"}, IF a \in Published THEN "exists" ELSE "none")
    /\ Finds("presign", a)
    /\ UNCHANGED <<bucketVars, check>>

\* The signature is computed, S3 is not asked.
PresignSigns(a) == PresignStep(a, {"exists"}, "signed") /\ UNCHANGED <<bucketVars, check, found>>

\* An error that is not an AgentReportsError leaves the handler.
PresignRaises(a) ==
    /\ PresignStep(a, {"exists"}, "none") /\ found' = found \ {<<"presign", a>>}
    /\ UNCHANGED <<bucketVars, check>>
-----------------------------------------------------------------------------
Chunk(w) == StartShard(w) \/ ShardPolicies(w) \/ ShardClaims(w) \/ ShardWrite(w) \/ ShardDone(w) \/ ShardDies(w)

Spark ==
    \/ JobPolicies \/ JobAgents \/ JobClaims \/ JobEmpties \/ JobCommits \/ JobLists
    \/ \E a \in Agents : JobCreates(a) \/ JobRemoves(a) \/ JobRaises(a)
    \/ JobDone \/ JobDies

Next ==
    \/ \E f \in Files : Flush(f)
    \/ \E w \in DOMAIN shard : Chunk(w)
    \/ Spark
    \/ List
    \/ \E a \in Agents :
          \/ Exists(a) \/ Size(a) \/ LastModified(a) \/ Get(a) \/ Email(a)
          \/ PresignExists(a) \/ PresignSigns(a) \/ PresignRaises(a)

Spec == Init /\ [][Next]_vars
-----------------------------------------------------------------------------
\* A report written by an invocation that began on the complete raw day has every policy and
\* every claim of its agent, whichever path wrote it and whoever wrote before or after.
ReportsWhole ==
    \A a \in Published : report[a].full =>
        /\ report[a].policies = {p \in Policies : AgentOf(p) = a}
        /\ report[a].claims = {c \in Claims : AgentOf(ClaimPolicy[c]) = a}

\* When all the shards have run on the complete day, and Spark has not emptied it since they
\* started, or when the job has, every agent has its report, and the job leaves no part file.
DayComplete ==
    /\ (\A w \in DOMAIN shard : shard[w].step = "done" /\ shard[w].full /\ ~ shard[w].undone)
          => Published = Agents
    /\ job.step = "done" /\ job.full => Published = Agents
    /\ job.step = "done" => part = Nothing

\* What an early start left behind is gone: once an invocation that began on the complete day is
\* done, every report of its share, or of the day, was made from the complete day.  Excepted are
\* an overwrite after it started, and an early invocation that was still writing beside it.
NoLeftovers ==
    LET Fresh(a) == report[a] # NoReport /\ report[a].full
        Settled(w) == w.step = "done" /\ w.full /\ ~ w.crossed
    IN  /\ \A w \in DOMAIN shard : Settled(shard[w]) /\ ~ shard[w].undone =>
              \A a \in plan_shards(Agents, Shards, w) : Fresh(a)
        /\ Settled(job) => \A a \in Agents : Fresh(a)

\* A report that was listed is missing to the dispatcher only if the Spark job has emptied the day
\* since the listing, and the agent's marker fails for good only if it has done so between exists
\* and one of the calls after it: no other writer takes a report away from under a reader.
RefusedOnlyIfOverwritten ==
    \A a \in Agents :
        /\ check[a] \in {"missing", "refused"} => cleared
        /\ check[a] = "refused" => <<"dispatcher", a>> \notin found

\* A link that was emailed or handed out, both signed some calls after the report was found, leads
\* to nothing only if the Spark job has emptied the day since it was found: nobody else, however
\* they repeat, die or overlap, makes a report vanish that a reader has seen.
DeadLinkOnlyIfOverwritten ==
    \A a \in Agents \ Published :
        /\ check[a] = "emailed" => <<"dispatcher", a>> \notin found
        /\ link[a] = "signed" => <<"presign", a>> \notin found
=============================================================================
