-------------------------- MODULE ReportZoneProofs --------------------------
(* Theorems about ReportZone for every number of agents, policies, claims, *)
(* partitions, shards and invocations that ConstantsAssumption allows.     *)
EXTENDS ReportZone, FiniteSetTheorems, TLAPS

-----------------------------------------------------------------------------
(* Numbers: partitions, agents of policies, shards of agents. *)

LEMMA Quotient ==
    ASSUME NEW p \in Nat, NEW k \in Nat \ {0}
    PROVE  /\ p \div k \in Nat /\ p % k \in 0..k - 1 /\ p = k * (p \div k) + (p % k)
OBVIOUS

LEMMA PartOf == ASSUME NEW i \in Nat PROVE i % Partitions \in Parts
BY Quotient, ConstantsAssumption DEF Parts

LEMMA QuotientBound ==
    ASSUME NEW p \in Nat, NEW k \in Nat, k > 0, NEW n \in Nat, p < n * k
    PROVE  p \div k \in 0..n - 1
<1>1. PICK q \in Nat, e \in Nat : q = p \div k /\ e = p % k /\ p = k * q + e
  BY Quotient
<1>2. k * q \in Nat /\ k * q < k * n
  BY <1>1
<1>3. q < n
  BY <1>1, <1>2
<1>4. QED
  BY <1>1, <1>3

LEMMA AgentOfType == ASSUME NEW p \in Policies PROVE AgentOf(p) \in Agents
<1>1. PoliciesPerAgent \in Nat /\ PoliciesPerAgent > 0 /\ NAgents \in Nat
  BY ConstantsAssumption
<1>2. p \in Nat /\ p < NAgents * PoliciesPerAgent
  BY <1>1 DEF Policies
<1>3. p \div PoliciesPerAgent \in 0..NAgents - 1
  BY <1>1, <1>2, QuotientBound
<1>4. QED
  BY <1>1, <1>3 DEF AgentOf, Agents

LEMMA AgentHasPolicy == ASSUME NEW a \in Agents PROVE \E p \in Policies : AgentOf(p) = a
<1> DEFINE k == PoliciesPerAgent
<1> DEFINE n == a - 1
<1>1. k \in Nat /\ k > 0 /\ NAgents \in Nat /\ n \in Nat /\ n < NAgents
  BY ConstantsAssumption DEF Agents
<1> HIDE DEF n, k
<1>2. k * n \in Nat /\ k * n + k <= k * NAgents
  BY <1>1
<1>3. (k * n) \div k = n
  BY <1>1, <1>2
<1>4. k * n \in Policies
  BY <1>1, <1>2 DEF Policies, k
<1>5. AgentOf(k * n) = a
  BY <1>1, <1>3 DEF AgentOf, n, k, Agents
<1>6. QED
  BY <1>4, <1>5

LEMMA ShardOf ==
    ASSUME NEW a \in Agents
    PROVE  \E w \in 0..Shards - 1 : a \in plan_shards(Agents, Shards, w)
<1> DEFINE below == {b \in Agents : b < a}
<1>1. IsFiniteSet(Agents) /\ below \in SUBSET Agents
  BY FS_Interval, ConstantsAssumption DEF Agents
<1>2. Cardinality(below) \in Nat
  BY <1>1, FS_Subset, FS_CardinalityType
<1>3. Cardinality(below) % Shards \in 0..Shards - 1
  BY <1>2, Quotient, ConstantsAssumption
<1>4. QED
  BY <1>3 DEF plan_shards, Position
-----------------------------------------------------------------------------
(* The inductive invariant. *)

Workers == 0..Shards - 1
Share(w) == plan_shards(Agents, Shards, w)
PoliciesOf(S) == {p \in Policies : AgentOf(p) \in S}
ClaimsOn(Q) == {c \in Claims : ClaimPolicy[c] \in Q}

\* What an invocation that began on the complete day has read, and whom it still has to write.
ShardRight(w) ==
    /\ shard[w].full => raw = Files
    /\ shard[w].full /\ shard[w].step = "policies" => shard[w].planned = Share(w)
    /\ shard[w].full /\ shard[w].step \in {"claims", "write"} => shard[w].policies = PoliciesOf(Share(w))
    /\ shard[w].full /\ shard[w].step = "write" =>
          shard[w].claims = ClaimsOn(PoliciesOf(Share(w))) /\ shard[w].todo \subseteq Share(w)
    /\ shard[w].full /\ ~ shard[w].undone /\ shard[w].step = "write" => Share(w) \ shard[w].todo \subseteq Published
    /\ shard[w].full /\ ~ shard[w].undone /\ shard[w].step = "done" => Share(w) \subseteq Published

\* The same of the job.
JobReads ==
    /\ job.full => raw = Files
    /\ job.full /\ job.step \in {"agents", "claims", "empty", "commit"} => job.policies = Policies
    /\ job.full /\ job.step \in {"claims", "empty", "commit"} => job.agents = Agents
    /\ job.full /\ job.step \in {"empty", "commit"} => job.claims = Claims

\* Part files are only where the job has still to come.
JobWrites ==
    /\ job.full /\ job.step = "list" => \A a \in Agents : part[a] # NoReport
    /\ job.full /\ job.step = "finalize" => Agents \ Published \subseteq job.todo
    /\ job.full /\ job.step = "done" => Published = Agents
    /\ job.step = "finalize" => \A a \in Agents : part[a] # NoReport => a \in job.todo \cup job.renamed
    /\ job.step = "done" => part = Nothing
    /\ job.step # "finalize" => job.renamed = {}

Whole(a, file) ==
    /\ file.policies = {p \in Policies : AgentOf(p) = a}
    /\ file.claims = {c \in Claims : AgentOf(ClaimPolicy[c]) = a}

FilesRight == \A a \in Agents : \A file \in {report[a], part[a]} \ {NoReport} : file.full => Whole(a, file)

\* Until the day is emptied what was listed stays, and what a reader has found; only listed
\* reports are asked for.
ReadersRight ==
    /\ ~ cleared => listed \subseteq Published
    /\ \A a \in Agents : check[a] \in {"missing", "refused"} => cleared
    /\ \A a \in Agents : check[a] # "none" => a \in listed
    /\ \A pair \in found : pair[2] \in Published
    /\ \A a \in Agents : check[a] = "refused" => <<"dispatcher", a>> \notin found

IInv == TypeOK /\ (\A w \in Workers : ShardRight(w)) /\ JobReads /\ JobWrites /\ FilesRight /\ ReadersRight
-----------------------------------------------------------------------------
(* The rows of a source, and the report made of them. *)

LEMMA RowTypes ==
    /\ Rows("policies") \in SUBSET Policies /\ Rows("claims") \in SUBSET Claims
    /\ read_roster \in SUBSET Agents
<1>1. \A source \in DOMAIN Index : Rows(source) \subseteq Index[source]
  BY DEF Rows
<1>2. Rows("agents") \subseteq {a - 1 : a \in Agents}
  BY <1>1 DEF Index
<1>3. \A i \in Rows("agents") : i + 1 \in Agents
  BY <1>2, ConstantsAssumption DEF Agents
<1>4. QED
  BY <1>1, <1>3 DEF Index, read_roster

LEMMA RowsComplete ==
    ASSUME raw = Files
    PROVE  /\ Rows("policies") = Policies /\ Rows("claims") = Claims
           /\ read_roster = Agents
<1>1. ASSUME NEW source \in DOMAIN Index, NEW i \in Index[source], i \in Nat
      PROVE  i \in Rows(source)
  <2>1. i % Partitions \in Parts
    BY <1>1, PartOf
  <2>2. <<source, i % Partitions>> \in Files
    BY <1>1, <2>1 DEF Files
  <2>3. QED
    BY <2>1, <2>2 DEF Rows, source_part_keys
<1>2. Policies \subseteq Nat /\ Claims \subseteq Nat
  BY ConstantsAssumption DEF Policies
<1>3. "agents" \in DOMAIN Index /\ "policies" \in DOMAIN Index /\ "claims" \in DOMAIN Index
  BY DEF Index
<1>4. Policies \subseteq Rows("policies") /\ Claims \subseteq Rows("claims")
  BY <1>1, <1>2, <1>3 DEF Index
<1>5. Index["agents"] = {a - 1 : a \in Agents}
  BY DEF Index
<1>6. \A a \in Agents : a - 1 \in Nat
  BY ConstantsAssumption DEF Agents
<1>7. \A a \in Agents : a - 1 \in Nat /\ a - 1 \in Index["agents"]
  BY <1>5, <1>6
<1>8. \A a \in Agents : a - 1 \in Rows("agents")
  BY <1>1, <1>3, <1>7
<1>9. \A a \in Agents : a \in read_roster
  <2> TAKE a \in Agents
  <2>1. (a - 1) + 1 = a
    BY ConstantsAssumption DEF Agents
  <2>2. QED
    BY <1>8, <2>1 DEF read_roster
<1>10. QED
  BY <1>4, <1>9, RowTypes

LEMMA ReportRight ==
    ASSUME NEW a \in Agents, NEW read, read.policies \in SUBSET Policies,
           read.claims \in SUBSET Claims, read.full \in BOOLEAN
    PROVE  /\ Report(read, a) \in Reports /\ Report(read, a) # NoReport
           /\ Of(a, Report(read, a)) /\ Report(read, a).full = read.full
<1>1. Report(read, a) \in Reports
  BY DEF Report, Reports
<1>2. Report(read, a) # NoReport
  BY <1>1, ConstantsAssumption
<1>3. Of(a, Report(read, a)) /\ Report(read, a).full = read.full
  BY DEF Of, Report
<1>4. QED
  BY <1>1, <1>2, <1>3

LEMMA ReportWhole ==
    ASSUME NEW S, NEW a \in S, NEW read, read.policies = PoliciesOf(S),
           read.claims = ClaimsOn(PoliciesOf(S))
    PROVE  Whole(a, Report(read, a))
<1>1. \A c \in Claims : ClaimPolicy[c] \in Policies
  BY ConstantsAssumption
<1>2. QED
  BY <1>1 DEF Whole, Report, PoliciesOf, ClaimsOn
-----------------------------------------------------------------------------
(* What is kept by a step that does not touch it. *)

LEMMA PublishedKept == ASSUME report' = report PROVE Published' = Published
BY DEF Published

LEMMA ShardKept ==
    ASSUME NEW w \in Workers, ShardRight(w), shard'[w] = shard[w], raw = Files => raw' = raw,
           Published \subseteq Published'
    PROVE  ShardRight(w)'
BY DEF ShardRight, Share

LEMMA JobReadsKept ==
    ASSUME JobReads, job' = job, raw = Files => raw' = raw
    PROVE  JobReads'
BY DEF JobReads

LEMMA JobWritesKept ==
    ASSUME JobWrites, job' = job, part' = part, Published \subseteq Published'
    PROVE  JobWrites'
<1>1. Published' \subseteq Agents
  BY DEF Published
<1>2. QED
  BY <1>1 DEF JobWrites

LEMMA FilesKept == ASSUME FilesRight, report' = report, part' = part PROVE FilesRight'
BY DEF FilesRight, Whole

LEMMA ReadersKept ==
    ASSUME ReadersRight, cleared' = cleared, listed' = listed, check' = check, found' = found,
           Published \subseteq Published'
    PROVE  ReadersRight'
BY DEF ReadersRight

LEMMA ShardTypes ==
    ASSUME TypeOK, NEW w \in Workers
    PROVE  /\ shard[w] \in ShardStates
           /\ shard[w].step \in {"idle", "policies", "claims", "write", "done"}
           /\ shard[w].planned \in SUBSET Agents /\ shard[w].policies \in SUBSET Policies
           /\ shard[w].claims \in SUBSET Claims /\ shard[w].todo \in SUBSET Agents
           /\ shard[w].full \in BOOLEAN /\ shard[w].undone \in BOOLEAN /\ shard[w].crossed \in BOOLEAN
BY DEF TypeOK, ShardStates, Workers

LEMMA JobTypes ==
    ASSUME TypeOK
    PROVE  /\ job.agents \in SUBSET Agents /\ job.policies \in SUBSET Policies
           /\ job.claims \in SUBSET Claims /\ job.todo \in SUBSET Agents
           /\ job.renamed \in SUBSET Agents /\ job.full \in BOOLEAN /\ job.crossed \in BOOLEAN
BY DEF TypeOK, JobStates

\* The shard of w is now s.
Becomes(w, s) ==
    /\ shard' \in [Workers -> ShardStates] /\ shard'[w] = s
    /\ \A v \in Workers \ {w} : shard'[v] = shard[v]

LEMMA Updated ==
    ASSUME TypeOK, NEW w \in Workers, NEW s \in ShardStates, shard' = [shard EXCEPT ![w] = s]
    PROVE  Becomes(w, s)
BY DEF TypeOK, Becomes, Workers

\* A step of a shard that writes nothing.
Reads(w) ==
    UNCHANGED <<raw, job, reportVars, readerVars, cleared>> /\ starts' \in 0..MaxStarts

LEMMA ShardStep ==
    ASSUME IInv, NEW w \in Workers, NEW s, Becomes(w, s), Reads(w), ShardRight(w)'
    PROVE  IInv'
<1>1. /\ raw' = raw /\ job' = job /\ report' = report /\ part' = part /\ listed' = listed
      /\ check' = check /\ link' = link /\ found' = found /\ cleared' = cleared /\ Published' = Published
  BY PublishedKept DEF Reads, reportVars, readerVars
<1>2. TypeOK'
  BY <1>1 DEF IInv, TypeOK, Becomes, Reads, Workers, Of
<1>3. \A v \in Workers : ShardRight(v)'
  BY <1>1, ShardKept DEF IInv, Becomes
<1>4. JobReads' /\ JobWrites' /\ FilesRight' /\ ReadersRight'
  BY <1>1, JobReadsKept, JobWritesKept, FilesKept, ReadersKept DEF IInv
<1>5. QED
  BY <1>2, <1>3, <1>4 DEF IInv
-----------------------------------------------------------------------------
(* The steps of a shard. *)

LEMMA Started == ASSUME TypeOK, Start PROVE starts' \in 0..MaxStarts
BY ConstantsAssumption DEF TypeOK, Start

LEMMA StartShardIInv ==
    ASSUME IInv, NEW w \in Workers, StartShard(w)
    PROVE  IInv'
<1> DEFINE s == [IdleShard EXCEPT !.step = "policies", !.planned = plan_shards(read_roster, Shards, w),
                                  !.full = RawComplete, !.crossed = RawComplete /\ Early]
<1>1. plan_shards(read_roster, Shards, w) \in SUBSET Agents
  BY RowTypes DEF plan_shards
<1>2. RawComplete \in BOOLEAN /\ (RawComplete /\ Early) \in BOOLEAN
  BY DEF RawComplete
<1>3. s \in ShardStates /\ s.step = "policies" /\ s.planned = plan_shards(read_roster, Shards, w) /\ s.full = RawComplete
  BY <1>1, <1>2 DEF IdleShard, ShardStates
<1> HIDE DEF s
<1>4. Becomes(w, s)
  BY <1>3, Updated DEF StartShard, IInv, s
<1>5. Reads(w)
  BY Started DEF StartShard, IInv, Reads
<1>6. ShardRight(w)'
  <2>1. raw' = raw /\ shard'[w] = s
    BY <1>4, <1>5 DEF Becomes, Reads
  <2>2. CASE RawComplete
    BY <1>3, <2>1, <2>2, RowsComplete DEF ShardRight, Share, RawComplete
  <2>3. CASE ~ RawComplete
    BY <1>3, <2>1, <2>3 DEF ShardRight
  <2>4. QED
    BY <2>2, <2>3
<1>7. QED
  BY <1>4, <1>5, <1>6, ShardStep

LEMMA ShardPoliciesIInv ==
    ASSUME IInv, NEW w \in Workers, ShardPolicies(w)
    PROVE  IInv'
<1> DEFINE policies == {p \in Rows("policies") : AgentOf(p) \in shard[w].planned}
<1> DEFINE s == [shard[w] EXCEPT !.step = "claims", !.policies = policies]
<1>1. policies \in SUBSET Policies
  BY RowTypes
<1>2. shard[w] \in ShardStates
  BY ShardTypes DEF IInv
<1> HIDE DEF policies
<1>3. s \in ShardStates /\ s.step = "claims" /\ s.policies = policies /\ s.full = shard[w].full
  BY <1>1, <1>2 DEF ShardStates
<1>4. shard' = [shard EXCEPT ![w] = s]
  BY DEF ShardPolicies, policies
<1> HIDE DEF s
<1>5. Becomes(w, s)
  BY <1>3, <1>4, Updated DEF IInv
<1>6. Reads(w)
  BY DEF ShardPolicies, IInv, TypeOK, Reads
<1>7. shard[w].full => policies = PoliciesOf(Share(w))
  BY RowsComplete DEF ShardPolicies, IInv, ShardRight, PoliciesOf, policies
<1>8. ShardRight(w)'
  BY <1>3, <1>5, <1>6, <1>7 DEF ShardRight, Becomes, Reads, IInv, Share, PoliciesOf
<1>9. QED
  BY <1>5, <1>6, <1>8, ShardStep

LEMMA ShardClaimsIInv ==
    ASSUME IInv, NEW w \in Workers, ShardClaims(w)
    PROVE  IInv'
<1> DEFINE claims == {c \in Rows("claims") : ClaimPolicy[c] \in shard[w].policies}
<1> DEFINE todo == {AgentOf(p) : p \in shard[w].policies}
<1> DEFINE s == [shard[w] EXCEPT !.step = "write", !.claims = claims, !.todo = todo]
<1>1. claims \in SUBSET Claims
  BY RowTypes
<1>2. shard[w] \in ShardStates /\ shard[w].policies \in SUBSET Policies
  BY ShardTypes DEF IInv
<1>3. todo \in SUBSET Agents
  BY <1>2, AgentOfType
<1> HIDE DEF claims, todo
<1>4. /\ s \in ShardStates /\ s.step = "write" /\ s.policies = shard[w].policies /\ s.claims = claims
      /\ s.todo = todo /\ s.full = shard[w].full
  BY <1>1, <1>2, <1>3 DEF ShardStates
<1>5. shard' = [shard EXCEPT ![w] = s]
  BY DEF ShardClaims, claims, todo
<1> HIDE DEF s
<1>6. Becomes(w, s)
  BY <1>4, <1>5, Updated DEF IInv
<1>7. Reads(w)
  BY DEF ShardClaims, IInv, TypeOK, Reads
<1>8. ASSUME shard[w].full
      PROVE  shard[w].policies = PoliciesOf(Share(w)) /\ claims = ClaimsOn(PoliciesOf(Share(w))) /\ todo = Share(w)
  <2>1. raw = Files /\ shard[w].policies = PoliciesOf(Share(w))
    BY <1>8 DEF ShardClaims, IInv, ShardRight
  <2>2. claims = ClaimsOn(PoliciesOf(Share(w)))
    BY <2>1, RowsComplete DEF claims, ClaimsOn
  <2>3. Share(w) \subseteq Agents
    BY DEF Share, plan_shards
  <2>4. todo = Share(w)
    BY <2>1, <2>3, AgentHasPolicy DEF todo, PoliciesOf
  <2>5. QED
    BY <2>1, <2>2, <2>4
<1>9. ShardRight(w)'
  <2>1. Share(w)' = Share(w) /\ PoliciesOf(Share(w))' = PoliciesOf(Share(w)) /\ raw' = raw /\ shard'[w] = s
    BY <1>6, <1>7 DEF Share, Becomes, Reads
  <2>2. shard[w].full => raw = Files
    BY DEF IInv, ShardRight
  <2>3. QED
    BY <1>4, <1>8, <2>1, <2>2 DEF ShardRight, ClaimsOn, PoliciesOf, Share
<1>10. QED
  BY <1>6, <1>7, <1>9, ShardStep

LEMMA ShardDoneIInv ==
    ASSUME IInv, NEW w \in Workers, ShardDone(w)
    PROVE  IInv'
<1> DEFINE s == [IdleShard EXCEPT !.step = "done", !.full = shard[w].full, !.undone = shard[w].undone,
                                  !.crossed = shard[w].crossed]
<1>1. shard[w].full \in BOOLEAN /\ shard[w].undone \in BOOLEAN /\ shard[w].crossed \in BOOLEAN
  BY ShardTypes DEF IInv
<1>2. s \in ShardStates /\ s.step = "done" /\ s.full = shard[w].full /\ s.undone = shard[w].undone
  BY <1>1 DEF IdleShard, ShardStates
<1>3. shard' = [shard EXCEPT ![w] = s]
  BY DEF ShardDone
<1> HIDE DEF s
<1>4. Becomes(w, s)
  BY <1>2, <1>3, Updated DEF IInv
<1>5. Reads(w)
  BY DEF ShardDone, IInv, TypeOK, Reads
<1>6. Published' = Published
  BY <1>5, PublishedKept DEF Reads, reportVars
<1>7. ShardRight(w)'
  BY <1>2, <1>4, <1>5, <1>6 DEF ShardDone, ShardRight, Becomes, Reads, IInv, Share
<1>8. QED
  BY <1>4, <1>5, <1>7, ShardStep

LEMMA ShardDiesIInv ==
    ASSUME IInv, NEW w \in Workers, ShardDies(w)
    PROVE  IInv'
<1>1. IdleShard \in ShardStates /\ IdleShard.full = FALSE
  BY DEF IdleShard, ShardStates
<1>2. Becomes(w, IdleShard)
  BY <1>1, Updated DEF ShardDies, IInv
<1>3. Reads(w)
  BY DEF ShardDies, IInv, TypeOK, Reads
<1>4. ShardRight(w)'
  BY <1>1, <1>2 DEF ShardRight, Becomes
<1>5. QED
  BY <1>2, <1>3, <1>4, ShardStep

\* report.csv of one agent is written, the part files are left alone.
Writes(a, file) == report' = [report EXCEPT ![a] = file] /\ part' = part

LEMMA WriteEffect ==
    ASSUME TypeOK, FilesRight, NEW a \in Agents, NEW file \in Reports, file # NoReport, Of(a, file),
           file.full => Whole(a, file), Writes(a, file)
    PROVE  /\ report' \in [Agents -> Reports \cup {NoReport}] /\ FilesRight'
           /\ Published' = Published \cup {a}
           /\ \A b \in Agents : \A f \in {report'[b], part'[b]} \ {NoReport} : Of(b, f)
<1>1. report'[a] = file /\ \A b \in Agents \ {a} : report'[b] = report[b]
  BY DEF TypeOK, Writes
<1>2. report' \in [Agents -> Reports \cup {NoReport}]
  BY DEF TypeOK, Writes
<1>3. Published' = Published \cup {a}
  BY <1>1 DEF Published
<1>4. FilesRight'
  BY <1>1 DEF FilesRight, Writes, Whole
<1>5. \A b \in Agents : \A f \in {report'[b], part'[b]} \ {NoReport} : Of(b, f)
  BY <1>1 DEF TypeOK, Writes
<1>6. QED
  BY <1>2, <1>3, <1>4, <1>5

LEMMA ShardWriteIInv ==
    ASSUME IInv, NEW w \in Workers, ShardWrite(w)
    PROVE  IInv'
<1>1. PICK a \in shard[w].todo :
          /\ report' = [report EXCEPT ![a] = Report(shard[w], a)]
          /\ shard' = [shard EXCEPT ![w].todo = @ \ {a}]
  BY DEF ShardWrite, Written
<1> DEFINE file == Report(shard[w], a)
<1> DEFINE s == [shard[w] EXCEPT !.todo = @ \ {a}]
<1>2. TypeOK /\ FilesRight /\ ShardRight(w)
  BY DEF IInv
<1>3. shard[w] \in ShardStates /\ a \in Agents /\ shard[w].step = "write"
  BY <1>1, <1>2, ShardTypes DEF ShardWrite
<1>4. /\ file \in Reports /\ file # NoReport /\ Of(a, file) /\ file.full = shard[w].full
  BY <1>2, <1>3, ShardTypes, ReportRight
<1>5. file.full => Whole(a, file)
  <2> SUFFICES ASSUME shard[w].full PROVE Whole(a, file)
    BY <1>4
  <2>1. /\ a \in Share(w) /\ shard[w].policies = PoliciesOf(Share(w))
        /\ shard[w].claims = ClaimsOn(PoliciesOf(Share(w)))
    BY <1>1, <1>2, <1>3 DEF ShardRight
  <2>2. QED
    BY <2>1, ReportWhole
<1>6. Writes(a, file) /\ raw' = raw /\ job' = job /\ part' = part /\ UNCHANGED <<readerVars, starts, cleared>>
  BY <1>1 DEF ShardWrite, Writes
<1> HIDE DEF file
<1>7. /\ report' \in [Agents -> Reports \cup {NoReport}] /\ FilesRight' /\ Published' = Published \cup {a}
      /\ \A b \in Agents : \A f \in {report'[b], part'[b]} \ {NoReport} : Of(b, f)
  BY <1>2, <1>3, <1>4, <1>5, <1>6, WriteEffect
<1>8. /\ s \in ShardStates /\ s.step = "write" /\ s.policies = shard[w].policies /\ s.claims = shard[w].claims
      /\ s.todo = shard[w].todo \ {a} /\ s.full = shard[w].full /\ s.undone = shard[w].undone
  BY <1>3 DEF ShardStates
<1>9. shard' = [shard EXCEPT ![w] = s]
  BY <1>1
<1> HIDE DEF s
<1>10. Becomes(w, s)
  BY <1>2, <1>8, <1>9, Updated
<1>11. ShardRight(w)'
  BY <1>2, <1>3, <1>6, <1>7, <1>8, <1>10 DEF ShardRight, Becomes, Share, PoliciesOf, ClaimsOn
<1>12. \A v \in Workers : ShardRight(v)'
  BY <1>6, <1>7, <1>10, <1>11, ShardKept DEF Becomes, IInv
<1>13. TypeOK'
  BY <1>2, <1>6, <1>7, <1>10 DEF TypeOK, Becomes, Workers, Of, readerVars
<1>14. JobReads' /\ JobWrites' /\ ReadersRight'
  BY <1>6, <1>7, JobReadsKept, JobWritesKept, ReadersKept DEF IInv, readerVars
<1>15. QED
  BY <1>7, <1>12, <1>13, <1>14 DEF IInv
-----------------------------------------------------------------------------
(* The steps of the job. *)

\* A step of the job that writes nothing.
JobOnly ==
    /\ job' \in JobStates /\ UNCHANGED <<raw, shard, reportVars, readerVars, cleared>>
    /\ starts' \in 0..MaxStarts

LEMMA JobOnlyIInv ==
    ASSUME IInv, JobOnly, JobReads', JobWrites'
    PROVE  IInv'
<1>1. /\ raw' = raw /\ shard' = shard /\ report' = report /\ part' = part /\ listed' = listed
      /\ check' = check /\ link' = link /\ found' = found /\ cleared' = cleared /\ Published' = Published
  BY PublishedKept DEF JobOnly, reportVars, readerVars
<1>2. TypeOK'
  BY <1>1 DEF IInv, TypeOK, JobOnly, Of
<1>3. \A v \in Workers : ShardRight(v)'
  BY <1>1, ShardKept DEF IInv
<1>4. FilesRight' /\ ReadersRight'
  BY <1>1, FilesKept, ReadersKept DEF IInv
<1>5. QED
  BY <1>2, <1>3, <1>4 DEF IInv

LEMMA JobPoliciesIInv == ASSUME IInv, JobPolicies PROVE IInv'
<1>1. RawComplete \in BOOLEAN /\ Rows("policies") \in SUBSET Policies
  BY RowTypes DEF RawComplete
<1>2. /\ job' \in JobStates /\ job'.step = "agents" /\ job'.policies = Rows("policies")
      /\ job'.full = RawComplete /\ job'.renamed = {}
  BY <1>1 DEF JobPolicies, IdleJob, JobStates
<1>3. JobOnly
  BY <1>2, Started DEF JobPolicies, JobOnly, IInv
<1>4. JobReads'
  BY <1>2, <1>3, RowsComplete DEF JobReads, JobOnly, RawComplete
<1>5. JobWrites'
  BY <1>2 DEF JobWrites
<1>6. QED
  BY <1>3, <1>4, <1>5, JobOnlyIInv

LEMMA JobAgentsIInv == ASSUME IInv, JobAgents PROVE IInv'
<1>1. job \in JobStates /\ read_roster \in SUBSET Agents
  BY RowTypes DEF IInv, TypeOK
<1>2. /\ job' \in JobStates /\ job'.step = "claims" /\ job'.policies = job.policies
      /\ job'.agents = read_roster /\ job'.full = job.full /\ job'.renamed = job.renamed
  BY <1>1 DEF JobAgents, JobStates
<1>3. JobOnly
  BY <1>2 DEF JobAgents, JobOnly, IInv, TypeOK
<1>4. JobReads'
  BY <1>2, <1>3, RowsComplete DEF JobAgents, JobReads, JobOnly, IInv
<1>5. JobWrites'
  BY <1>2 DEF JobAgents, JobWrites, IInv
<1>6. QED
  BY <1>3, <1>4, <1>5, JobOnlyIInv

LEMMA JobClaimsIInv == ASSUME IInv, JobClaims PROVE IInv'
<1>1. job \in JobStates /\ Rows("claims") \in SUBSET Claims
  BY RowTypes DEF IInv, TypeOK
<1>2. /\ job' \in JobStates /\ job'.step = "empty" /\ job'.policies = job.policies
      /\ job'.agents = job.agents /\ job'.claims = Rows("claims")
      /\ job'.full = job.full /\ job'.renamed = job.renamed
  BY <1>1 DEF JobClaims, JobStates
<1>3. JobOnly
  BY <1>2 DEF JobClaims, JobOnly, IInv, TypeOK
<1>4. JobReads'
  BY <1>2, <1>3, RowsComplete DEF JobClaims, JobReads, JobOnly, IInv
<1>5. JobWrites'
  BY <1>2 DEF JobClaims, JobWrites, IInv
<1>6. QED
  BY <1>3, <1>4, <1>5, JobOnlyIInv

LEMMA JobListsIInv == ASSUME IInv, JobLists PROVE IInv'
<1> DEFINE todo == {a \in Agents : report[a] # NoReport \/ part[a] # NoReport}
<1>1. job \in JobStates /\ todo \in SUBSET Agents
  BY DEF IInv, TypeOK
<1> HIDE DEF todo
<1>2. /\ job' \in JobStates /\ job'.step = "finalize" /\ job'.todo = todo
      /\ job'.full = job.full /\ job'.renamed = job.renamed
  BY <1>1 DEF JobLists, JobStates, todo
<1>3. JobOnly
  BY <1>2 DEF JobLists, JobOnly, IInv, TypeOK
<1>4. JobReads'
  BY <1>2, <1>3 DEF JobLists, JobReads, JobOnly, IInv
<1>5. JobWrites'
  BY <1>2, <1>3 DEF JobLists, JobWrites, JobOnly, IInv, reportVars, todo
<1>6. QED
  BY <1>3, <1>4, <1>5, JobOnlyIInv

LEMMA JobRaisesIInv == ASSUME IInv, NEW a \in Agents, JobRaises(a) PROVE IInv'
<1>1. job' \in JobStates /\ job'.step = "raised" /\ job'.full = FALSE /\ job'.renamed = {}
  BY DEF JobRaises, IdleJob, JobStates
<1>2. JobOnly
  BY <1>1 DEF JobRaises, JobOnly, IInv, TypeOK
<1>3. JobReads' /\ JobWrites'
  BY <1>1 DEF JobReads, JobWrites
<1>4. QED
  BY <1>2, <1>3, JobOnlyIInv

LEMMA JobDiesIInv == ASSUME IInv, JobDies PROVE IInv'
<1>1. job' \in JobStates /\ job'.step = "idle" /\ job'.full = FALSE /\ job'.renamed = {}
  BY DEF JobDies, IdleJob, JobStates
<1>2. JobOnly
  BY <1>1 DEF JobDies, JobOnly, IInv, TypeOK
<1>3. JobReads' /\ JobWrites'
  BY <1>1 DEF JobReads, JobWrites
<1>4. QED
  BY <1>2, <1>3, JobOnlyIInv

LEMMA JobDoneIInv == ASSUME IInv, JobDone PROVE IInv'
<1>1. job.full \in BOOLEAN /\ job.crossed \in BOOLEAN
  BY JobTypes DEF IInv
<1>2. job' \in JobStates /\ job'.step = "done" /\ job'.full = job.full /\ job'.renamed = {}
  BY <1>1 DEF JobDone, IdleJob, JobStates
<1>3. JobOnly
  BY <1>2 DEF JobDone, JobOnly, IInv, TypeOK
<1>4. JobReads'
  BY <1>2, <1>3 DEF JobReads, JobOnly, IInv
<1>5. job.full => Agents \subseteq Published
  BY DEF JobDone, JobWrites, IInv
<1>6. part = Nothing
  BY DEF JobDone, JobWrites, IInv, TypeOK, Nothing
<1>7. Published' = Published /\ part' = part
  BY <1>3, PublishedKept DEF JobOnly, reportVars
<1>8. Published \subseteq Agents
  BY DEF Published
<1>9. JobWrites'
  BY <1>2, <1>5, <1>6, <1>7, <1>8 DEF JobWrites, Nothing
<1>10. QED
  BY <1>3, <1>4, <1>9, JobOnlyIInv

\* What a step of the job that writes keeps of the readers and the raw day.
JobWritesOnly == job' \in JobStates /\ UNCHANGED <<raw, readerVars, starts>>

LEMMA JobWriteIInv ==
    ASSUME IInv, JobWritesOnly, shard' = shard, cleared' = cleared, Published \subseteq Published',
           report' \in [Agents -> Reports \cup {NoReport}], part' \in [Agents -> Reports \cup {NoReport}],
           \A a \in Agents : \A file \in {report'[a], part'[a]} \ {NoReport} : Of(a, file),
           FilesRight', JobReads', JobWrites'
    PROVE  IInv'
<1>1. /\ raw' = raw /\ listed' = listed /\ check' = check /\ link' = link /\ found' = found
      /\ starts' = starts
  BY DEF JobWritesOnly, readerVars
<1>2. TypeOK'
  BY <1>1 DEF IInv, TypeOK, JobWritesOnly, Of
<1>3. \A v \in Workers : ShardRight(v)'
  BY <1>1, ShardKept DEF IInv
<1>4. ReadersRight'
  BY <1>1, ReadersKept DEF IInv
<1>5. QED
  BY <1>2, <1>3, <1>4 DEF IInv

LEMMA JobEmptiesIInv == ASSUME IInv, JobEmpties PROVE IInv'
<1>1. job \in JobStates /\ (job.full /\ Early) \in BOOLEAN
  BY JobTypes DEF IInv, TypeOK
<1>2. /\ job' \in JobStates /\ job'.step = "commit" /\ job'.policies = job.policies
      /\ job'.agents = job.agents /\ job'.claims = job.claims
      /\ job'.full = job.full /\ job'.renamed = job.renamed /\ job.step = "empty"
  BY <1>1 DEF JobEmpties, JobStates
<1>3. /\ report' = Nothing /\ part' = Nothing /\ cleared' = (listed # {}) /\ raw' = raw /\ listed' = listed
      /\ check' = check /\ link' = link /\ found' = {} /\ starts' = starts
  BY DEF JobEmpties
<1>4. shard' \in [Workers -> ShardStates] /\ \A w \in Workers :
          /\ shard'[w].step = shard[w].step /\ shard'[w].planned = shard[w].planned
          /\ shard'[w].policies = shard[w].policies /\ shard'[w].claims = shard[w].claims
          /\ shard'[w].todo = shard[w].todo /\ shard'[w].full = shard[w].full
          /\ shard'[w].undone = (shard[w].step # "idle")
  <2> DEFINE s(w) == [shard[w] EXCEPT !.undone = shard[w].step # "idle"]
  <2>1. ASSUME NEW w \in Workers
        PROVE  /\ s(w) \in ShardStates /\ s(w).step = shard[w].step /\ s(w).planned = shard[w].planned
               /\ s(w).policies = shard[w].policies /\ s(w).claims = shard[w].claims
               /\ s(w).todo = shard[w].todo /\ s(w).full = shard[w].full
               /\ s(w).undone = (shard[w].step # "idle")
    <3>1. shard[w] \in ShardStates /\ (shard[w].step # "idle") \in BOOLEAN
      BY ShardTypes DEF IInv
    <3>2. QED
      BY <3>1 DEF ShardStates
  <2>2. shard' = [w \in Workers |-> s(w)]
    BY DEF JobEmpties, IInv, TypeOK, Workers
  <2> HIDE DEF s
  <2>3. QED
    BY <2>1, <2>2
<1>5. Nothing \in [Agents -> Reports \cup {NoReport}] /\ \A a \in Agents : Nothing[a] = NoReport
  BY DEF Nothing
<1>6. TypeOK'
  BY <1>2, <1>3, <1>4, <1>5 DEF IInv, TypeOK, Workers
<1>7. \A w \in Workers : ShardRight(w)'
  <2> SUFFICES ASSUME NEW w \in Workers PROVE ShardRight(w)'
    OBVIOUS
  <2>1. ShardRight(w)
    BY DEF IInv
  <2>2. QED
    BY <1>3, <1>4, <2>1 DEF ShardRight, Share, PoliciesOf, ClaimsOn
<1>8. JobReads'
  BY <1>2, <1>3 DEF JobReads, IInv
<1>9. JobWrites'
  BY <1>2 DEF JobWrites, IInv
<1>10. FilesRight'
  BY <1>3, <1>5 DEF FilesRight
<1>11. ReadersRight'
  BY <1>3 DEF ReadersRight, IInv
<1>12. QED
  BY <1>6, <1>7, <1>8, <1>9, <1>10, <1>11 DEF IInv

LEMMA JobCommitsIInv == ASSUME IInv, JobCommits PROVE IInv'
<1>1. /\ job.policies \in SUBSET Policies /\ job.claims \in SUBSET Claims /\ job.full \in BOOLEAN
      /\ job \in JobStates /\ job.step = "commit"
  BY JobTypes DEF IInv, TypeOK, JobCommits, JobStep
<1>2. /\ job' \in JobStates /\ job'.step = "list" /\ job'.full = job.full /\ job'.renamed = job.renamed
  BY <1>1 DEF JobCommits, JobStep, JobStates
<1>3. JobWritesOnly /\ shard' = shard /\ cleared' = cleared /\ report' = report /\ Published' = Published
  BY <1>2, PublishedKept DEF JobCommits, JobWritesOnly
<1>4. \A a \in Agents :
          /\ Report(job, a) \in Reports /\ Report(job, a) # NoReport
          /\ Of(a, Report(job, a)) /\ Report(job, a).full = job.full
  BY <1>1, ReportRight
<1>5. \A a \in Agents : part'[a] = IF a \in Reported THEN Report(job, a) ELSE part[a]
  BY DEF JobCommits
<1>6. part' \in [Agents -> Reports \cup {NoReport}]
  BY <1>4 DEF JobCommits, IInv, TypeOK
<1>7. \A a \in Agents : \A file \in {report'[a], part'[a]} \ {NoReport} : Of(a, file)
  BY <1>3, <1>4, <1>5 DEF IInv, TypeOK
<1>8. ASSUME job.full
      PROVE  Reported = Agents /\ \A a \in Agents : Whole(a, Report(job, a))
  <2>1. job.policies = Policies /\ job.agents = Agents /\ job.claims = Claims
    BY <1>1, <1>8 DEF IInv, JobReads
  <2>2. \A p \in Policies : AgentOf(p) \in Agents
    BY AgentOfType
  <2>3. Reported = Agents
    BY <2>1, <2>2, AgentHasPolicy DEF Reported
  <2>4. \A c \in Claims : ClaimPolicy[c] \in Policies
    BY ConstantsAssumption
  <2>5. job.policies = PoliciesOf(Agents) /\ job.claims = ClaimsOn(PoliciesOf(Agents))
    BY <2>1, <2>2, <2>4 DEF PoliciesOf, ClaimsOn
  <2>6. QED
    BY <2>3, <2>5, ReportWhole
<1>9. FilesRight'
  BY <1>3, <1>4, <1>5, <1>8 DEF FilesRight, IInv, Whole
<1>10. JobReads'
  BY <1>1, <1>2, <1>3 DEF JobReads, IInv, JobWritesOnly
<1>11. JobWrites'
  BY <1>1, <1>2, <1>4, <1>5, <1>8 DEF JobWrites, IInv
<1>12. report' \in [Agents -> Reports \cup {NoReport}]
  BY <1>3 DEF IInv, TypeOK
<1>13. QED
  BY <1>3, <1>6, <1>7, <1>9, <1>10, <1>11, <1>12, JobWriteIInv

LEMMA JobCreatesIInv == ASSUME IInv, NEW a \in Agents, JobCreates(a) PROVE IInv'
<1>1. job \in JobStates /\ job.step = "finalize" /\ part[a] \in Reports /\ part[a] # NoReport
  BY DEF IInv, TypeOK, JobCreates, Finalizing
<1>2. /\ job' \in JobStates /\ job'.step = "finalize" /\ job'.full = job.full
      /\ job'.todo = job.todo \ {a} /\ job'.renamed = {a} /\ job.renamed = {}
  BY <1>1 DEF JobCreates, Finalizing, JobStates
<1>3. Of(a, part[a]) /\ (part[a].full => Whole(a, part[a]))
  BY <1>1 DEF IInv, TypeOK, FilesRight
<1>4. Writes(a, part[a])
  BY DEF JobCreates, Writes, Written
<1>5. /\ report' \in [Agents -> Reports \cup {NoReport}] /\ FilesRight' /\ Published' = Published \cup {a}
      /\ \A b \in Agents : \A f \in {report'[b], part'[b]} \ {NoReport} : Of(b, f)
  BY <1>1, <1>3, <1>4, WriteEffect DEF IInv
<1>6. JobWritesOnly /\ shard' = shard /\ cleared' = cleared /\ part' = part
  BY <1>2 DEF JobCreates, JobWritesOnly
<1>7. JobReads'
  BY <1>1, <1>2, <1>6 DEF JobReads, IInv, JobWritesOnly
<1>8. JobWrites'
  BY <1>1, <1>2, <1>5, <1>6 DEF JobWrites, IInv
<1>9. part' \in [Agents -> Reports \cup {NoReport}]
  BY <1>6 DEF IInv, TypeOK
<1>10. QED
  BY <1>5, <1>6, <1>7, <1>8, <1>9, JobWriteIInv

LEMMA JobRemovesIInv == ASSUME IInv, NEW a \in Agents, JobRemoves(a) PROVE IInv'
<1>1. job \in JobStates /\ job.step = "finalize"
  BY DEF IInv, TypeOK, JobWrites, JobRemoves
<1>2. /\ job' \in JobStates /\ job'.step = "finalize" /\ job'.full = job.full
      /\ job'.todo = job.todo /\ job'.renamed = job.renamed \ {a}
  BY <1>1 DEF JobRemoves, JobStates
<1>3. JobWritesOnly /\ shard' = shard /\ cleared' = cleared /\ report' = report /\ Published' = Published
  BY <1>2, PublishedKept DEF JobRemoves, Removed, JobWritesOnly
<1>4. /\ part' \in [Agents -> Reports \cup {NoReport}] /\ part'[a] = NoReport
      /\ \A b \in Agents \ {a} : part'[b] = part[b]
  BY DEF JobRemoves, Removed, IInv, TypeOK
<1>5. report' \in [Agents -> Reports \cup {NoReport}]
  BY <1>3 DEF IInv, TypeOK
<1>6. \A b \in Agents : \A f \in {report'[b], part'[b]} \ {NoReport} : Of(b, f)
  BY <1>3, <1>4 DEF IInv, TypeOK
<1>7. FilesRight'
  BY <1>3, <1>4 DEF FilesRight, IInv, Whole
<1>8. JobReads'
  BY <1>1, <1>2, <1>3 DEF JobReads, IInv, JobWritesOnly
<1>9. JobWrites'
  BY <1>1, <1>2, <1>3, <1>4 DEF JobWrites, IInv
<1>10. QED
  BY <1>3, <1>4, <1>5, <1>6, <1>7, <1>8, <1>9, JobWriteIInv
-----------------------------------------------------------------------------
(* The generator and the readers. *)

LEMMA FlushIInv == ASSUME IInv, NEW f \in Files, Flush(f) PROVE IInv'
<1>1. /\ raw' = raw \cup {f} /\ raw # Files /\ shard' = shard /\ job' = job /\ report' = report
      /\ part' = part /\ listed' = listed /\ check' = check /\ link' = link /\ found' = found
      /\ starts' = starts /\ cleared' = cleared
      /\ Published' = Published
  BY PublishedKept DEF Flush, reportVars, readerVars
<1>2. Files \subseteq {"agents", "policies", "claims"} \X Parts
  BY DEF Files, Index
<1>3. TypeOK'
  BY <1>1, <1>2 DEF IInv, TypeOK, Of
<1>4. (\A w \in Workers : ShardRight(w)') /\ JobReads' /\ JobWrites' /\ FilesRight' /\ ReadersRight'
  BY <1>1, ShardKept, JobReadsKept, JobWritesKept, FilesKept, ReadersKept DEF IInv
<1>5. QED
  BY <1>3, <1>4 DEF IInv

ReaderTypes ==
    /\ listed \in SUBSET Agents /\ check \in [Agents -> Checks] /\ link \in [Agents -> {"none", "exists", "signed"}]
    /\ cleared \in BOOLEAN /\ found \in SUBSET ({"dispatcher", "presign"} \X Agents)

LEMMA ReaderIInv ==
    ASSUME IInv, UNCHANGED <<raw, shard, job, reportVars, starts>>, ReaderTypes', ReadersRight'
    PROVE  IInv'
<1>1. /\ raw' = raw /\ shard' = shard /\ job' = job /\ report' = report /\ part' = part
      /\ starts' = starts /\ Published' = Published
  BY PublishedKept DEF reportVars
<1>2. TypeOK'
  BY <1>1 DEF IInv, TypeOK, ReaderTypes, Of
<1>3. (\A w \in Workers : ShardRight(w)') /\ JobReads' /\ JobWrites' /\ FilesRight'
  BY <1>1, ShardKept, JobReadsKept, JobWritesKept, FilesKept DEF IInv
<1>4. QED
  BY <1>2, <1>3 DEF IInv

LEMMA ListIInv == ASSUME IInv, List PROVE IInv'
<1>1. /\ listed = {} /\ listed' = Published \cap Watched /\ cleared' = FALSE /\ check' = check
      /\ link' = link /\ found' = found /\ UNCHANGED <<raw, shard, job, reportVars, starts>>
  BY DEF List
<1>2. Published \subseteq Agents /\ Published' = Published
  BY <1>1, PublishedKept DEF Published, reportVars
<1>3. ReadersRight'
  BY <1>1, <1>2 DEF ReadersRight, IInv
<1>4. ReaderTypes'
  BY <1>1, <1>2 DEF ReaderTypes, IInv, TypeOK
<1>5. QED
  BY <1>1, <1>3, <1>4, ReaderIInv

\* What a reader does to the buckets, the listing and the other reader's variables: nothing.
LEMMA BucketsKept ==
    ASSUME UNCHANGED bucketVars
    PROVE  /\ UNCHANGED <<raw, shard, job, reportVars, starts>>
           /\ listed' = listed /\ cleared' = cleared /\ Published' = Published
BY PublishedKept DEF bucketVars, reportVars

LEMMA FindsRight ==
    ASSUME IInv, NEW reader \in {"dispatcher", "presign"}, NEW a \in Agents, Finds(reader, a)
    PROVE  /\ found' \in SUBSET ({"dispatcher", "presign"} \X Agents)
           /\ \A pair \in found' : pair[2] \in Published
           /\ a \notin Published => found' = found
           /\ \A pair \in found' : pair \in found \/ pair = <<reader, a>>
<1>1. found \in SUBSET ({"dispatcher", "presign"} \X Agents) /\ \A pair \in found : pair[2] \in Published
  BY DEF IInv, TypeOK, ReadersRight
<1>2. <<reader, a>>[2] = a /\ <<reader, a>> \in {"dispatcher", "presign"} \X Agents
  OBVIOUS
<1>3. QED
  BY <1>1, <1>2 DEF Finds

\* A call that finds the report or not, when what is found is as it should be.
LEMMA CallRight ==
    ASSUME IInv, NEW a \in Agents, NEW from, NEW to \in Checks \ {"missing", "refused"}, NEW failure,
           Call(a, from, to, failure),
           found' \in SUBSET ({"dispatcher", "presign"} \X Agents),
           \A pair \in found' : pair[2] \in Published,
           \A b \in Agents : check[b] = "refused" => <<"dispatcher", b>> \notin found'
    PROVE  IInv'
<1>1. /\ a \in listed /\ link' = link /\ UNCHANGED bucketVars
      /\ check' = [check EXCEPT ![a] = IF a \in Published THEN to ELSE Absent(failure)]
  BY DEF Call
<1>2. Absent(failure) \in {"missing", "refused"} /\ Absent(failure) \in Checks
  BY DEF Absent, Checks
<1>3. check \in [Agents -> Checks]
  BY DEF IInv, TypeOK
<1>4. /\ check' \in [Agents -> Checks]
      /\ check'[a] = (IF a \in Published THEN to ELSE Absent(failure))
      /\ \A b \in Agents \ {a} : check'[b] = check[b]
  BY <1>1, <1>2, <1>3
<1>5. a \notin Published => <<"dispatcher", a>> \notin found'
  <2>1. <<"dispatcher", a>>[2] = a
    OBVIOUS
  <2>2. QED
    BY <2>1
<1>6. ReadersRight'
  BY <1>1, <1>2, <1>4, <1>5, BucketsKept DEF ReadersRight, IInv
<1>7. ReaderTypes'
  BY <1>1, <1>4, BucketsKept DEF ReaderTypes, IInv, TypeOK
<1>8. QED
  BY <1>1, <1>6, <1>7, BucketsKept, ReaderIInv

LEMMA CallIInv ==
    ASSUME IInv, NEW a \in Agents, Exists(a) \/ Size(a) \/ LastModified(a) \/ Get(a)
    PROVE  IInv'
<1>1. \A b \in Agents : check[b] = "refused" => <<"dispatcher", b>> \notin found
  BY DEF IInv, ReadersRight
<1>2. CASE Exists(a)
  <2>1. Call(a, Checks \ {"emailed", "refused"}, "exists", MissingReportError) /\ Finds("dispatcher", a)
    BY <1>2 DEF Exists
  <2>2. check[a] # "refused"
    BY <2>1 DEF Call
  <2>3. \A b \in Agents : check[b] = "refused" => <<"dispatcher", b>> \notin found'
    <3>1. \A b \in Agents : <<"dispatcher", b>> = <<"dispatcher", a>> => b = a
      OBVIOUS
    <3>2. \A pair \in found' : pair \in found \/ pair = <<"dispatcher", a>>
      BY <2>1, FindsRight
    <3>3. QED
      BY <1>1, <2>2, <3>1, <3>2
  <2>4. QED
    BY <2>1, <2>3, FindsRight, CallRight DEF Checks
<1>3. CASE Size(a) \/ LastModified(a) \/ Get(a)
  <2>1. found' = found /\ \E from, failure : \E to \in {"sized", "dated", "read"} : Call(a, from, to, failure)
    BY <1>3 DEF Size, LastModified, Get
  <2>2. found \in SUBSET ({"dispatcher", "presign"} \X Agents) /\ \A pair \in found : pair[2] \in Published
    BY DEF IInv, TypeOK, ReadersRight
  <2>3. QED
    BY <1>1, <2>1, <2>2, CallRight DEF Checks
<1>4. QED
  BY <1>2, <1>3

LEMMA EmailIInv == ASSUME IInv, NEW a \in Agents, Email(a) PROVE IInv'
<1>1. /\ check[a] # "none" /\ UNCHANGED bucketVars /\ link' = link /\ found' = found
      /\ check' = [check EXCEPT ![a] = "emailed"] /\ check \in [Agents -> Checks]
  BY DEF Email, IInv, TypeOK
<1>2. /\ check' \in [Agents -> Checks] /\ check'[a] = "emailed"
      /\ \A b \in Agents \ {a} : check'[b] = check[b]
  BY <1>1 DEF Checks
<1>3. ReadersRight'
  BY <1>1, <1>2, BucketsKept DEF ReadersRight, IInv
<1>4. ReaderTypes'
  BY <1>1, <1>2, BucketsKept DEF ReaderTypes, IInv, TypeOK
<1>5. QED
  BY <1>1, <1>3, <1>4, BucketsKept, ReaderIInv

LEMMA PresignIInv ==
    ASSUME IInv, NEW a \in Agents, PresignExists(a) \/ PresignSigns(a) \/ PresignRaises(a)
    PROVE  IInv'
<1>1. UNCHANGED bucketVars /\ check' = check
  BY DEF PresignExists, PresignSigns, PresignRaises
<1>2. link' \in [Agents -> {"none", "exists", "signed"}]
  BY DEF PresignExists, PresignSigns, PresignRaises, PresignStep, IInv, TypeOK
<1>3. Finds("presign", a) \/ found' = found \/ found' = found \ {<<"presign", a>>}
  BY DEF PresignExists, PresignSigns, PresignRaises
<1>4. /\ found' \in SUBSET ({"dispatcher", "presign"} \X Agents)
      /\ \A pair \in found' : pair[2] \in Published
  BY <1>3, FindsRight DEF IInv, TypeOK, ReadersRight
<1>5. \A b \in Agents : check[b] = "refused" => <<"dispatcher", b>> \notin found'
  <2>1. \A b \in Agents : <<"dispatcher", b>> # <<"presign", a>>
    OBVIOUS
  <2>2. \A pair \in found' : pair \in found \/ pair = <<"presign", a>>
    BY <1>3, FindsRight
  <2>3. QED
    BY <2>1, <2>2 DEF IInv, ReadersRight
<1>6. ReadersRight'
  BY <1>1, <1>4, <1>5, BucketsKept DEF ReadersRight, IInv
<1>7. ReaderTypes'
  BY <1>1, <1>2, <1>4, BucketsKept DEF ReaderTypes, IInv, TypeOK
<1>8. QED
  BY <1>1, <1>6, <1>7, BucketsKept, ReaderIInv
-----------------------------------------------------------------------------
LEMMA InitIInv == Init => IInv
<1> SUFFICES ASSUME Init PROVE IInv
  OBVIOUS
<1>1. IdleShard \in ShardStates /\ IdleShard.full = FALSE
  BY DEF IdleShard, ShardStates
<1>2. IdleJob \in JobStates /\ IdleJob.full = FALSE /\ IdleJob.step = "idle" /\ IdleJob.renamed = {}
  BY DEF IdleJob, JobStates
<1>3. Nothing \in [Agents -> Reports \cup {NoReport}] /\ \A a \in Agents : Nothing[a] = NoReport
  BY DEF Nothing
<1>4. TypeOK
  <2>1. shard \in [0..Shards - 1 -> ShardStates] /\ job \in JobStates
    BY <1>1, <1>2 DEF Init
  <2>2. /\ report \in [Agents -> Reports \cup {NoReport}] /\ part \in [Agents -> Reports \cup {NoReport}]
        /\ \A a \in Agents : report[a] = NoReport /\ part[a] = NoReport
    BY <1>3 DEF Init
  <2>3. /\ check \in [Agents -> Checks] /\ link \in [Agents -> {"none", "exists", "signed"}]
        /\ found \subseteq {"dispatcher", "presign"} \X Agents
    BY DEF Init, Checks
  <2>4. starts \in 0..MaxStarts
    BY ConstantsAssumption DEF Init
  <2>5. cleared \in BOOLEAN
    BY DEF Init
  <2>6. QED
    BY <2>1, <2>2, <2>3, <2>4, <2>5 DEF Init, TypeOK
<1>5. \A w \in Workers : ShardRight(w)
  BY <1>1 DEF Init, Workers, ShardRight
<1>6. JobReads /\ JobWrites
  BY <1>2 DEF Init, JobReads, JobWrites
<1>7. FilesRight /\ ReadersRight
  BY <1>3 DEF Init, FilesRight, ReadersRight
<1>8. QED
  BY <1>4, <1>5, <1>6, <1>7 DEF IInv

LEMMA ChunkIInv == ASSUME IInv, NEW w \in Workers, Chunk(w) PROVE IInv'
BY StartShardIInv, ShardPoliciesIInv, ShardClaimsIInv, ShardWriteIInv, ShardDoneIInv, ShardDiesIInv DEF Chunk

LEMMA SparkIInv == ASSUME IInv, Spark PROVE IInv'
BY JobPoliciesIInv, JobAgentsIInv, JobClaimsIInv, JobEmptiesIInv, JobCommitsIInv, JobListsIInv,
   JobCreatesIInv, JobRemovesIInv, JobRaisesIInv, JobDoneIInv, JobDiesIInv DEF Spark

LEMMA NextIInv == IInv /\ [Next]_vars => IInv'
<1> SUFFICES ASSUME IInv, [Next]_vars PROVE IInv'
  OBVIOUS
<1>1. CASE \E f \in Files : Flush(f)
  BY <1>1, FlushIInv
<1>2. CASE \E w \in DOMAIN shard : Chunk(w)
  BY <1>2, ChunkIInv DEF IInv, TypeOK, Workers
<1>3. CASE Spark
  BY <1>3, SparkIInv
<1>4. CASE List
  BY <1>4, ListIInv
<1>5. CASE \E a \in Agents : \/ Exists(a) \/ Size(a) \/ LastModified(a) \/ Get(a) \/ Email(a)
                            \/ PresignExists(a) \/ PresignSigns(a) \/ PresignRaises(a)
  BY <1>5, CallIInv, EmailIInv, PresignIInv
<1>6. CASE UNCHANGED vars
  <2>1. /\ UNCHANGED <<raw, shard, job, reportVars, starts>> /\ listed' = listed /\ check' = check
        /\ link' = link /\ found' = found /\ cleared' = cleared
    BY <1>6 DEF vars, reportVars
  <2>2. ReadersRight'
    BY <2>1, ReadersKept, PublishedKept DEF IInv, reportVars
  <2>3. ReaderTypes'
    BY <2>1 DEF ReaderTypes, IInv, TypeOK
  <2>4. QED
    BY <2>1, <2>2, <2>3, ReaderIInv
<1>7. QED
  BY <1>1, <1>2, <1>3, <1>4, <1>5, <1>6 DEF Next

LEMMA SpecIInv == Spec => []IInv
BY InitIInv, NextIInv, PTL DEF Spec
-----------------------------------------------------------------------------
(* What an early start leaves behind. *)

Fresh(a) == report[a] # NoReport /\ report[a].full

\* Once the day is complete nobody begins early, so an invocation that began with no early one
\* beside it has none beside it later, and the reports it has written stay fresh.
ShardFresh(w) ==
    shard[w].full /\ ~ shard[w].crossed =>
        /\ ~ Early
        /\ ~ shard[w].undone /\ shard[w].step = "write" => \A a \in Share(w) \ shard[w].todo : Fresh(a)
        /\ ~ shard[w].undone /\ shard[w].step = "done" => \A a \in Share(w) : Fresh(a)

\* After the overwrite there is nothing in the day but what it and those beside it have written.
JobFresh ==
    /\ job.full /\ job.step \in {"commit", "list", "finalize"} =>
          \A a \in Agents : part[a] # NoReport => part[a].full
    /\ job.full /\ ~ job.crossed /\ job.step \in {"commit", "list", "finalize", "done"} =>
          ~ Early /\ \A a \in Published : Fresh(a)

FreshInv == (\A w \in Workers : ShardFresh(w)) /\ JobFresh

\* Only the shards and the job write.
LEMMA Writers ==
    ASSUME IInv, [Next]_vars
    PROVE  UNCHANGED <<shard, job, reportVars>> \/ Spark \/ \E w \in Workers : Chunk(w)
<1>1. DOMAIN shard = Workers
  BY DEF IInv, TypeOK, Workers
<1>2. CASE (\E f \in Files : Flush(f)) \/ List \/ UNCHANGED vars
  BY <1>2 DEF Flush, List, vars, reportVars
<1>3. CASE \E a \in Agents : \/ Exists(a) \/ Size(a) \/ LastModified(a) \/ Get(a) \/ Email(a)
                             \/ PresignExists(a) \/ PresignSigns(a) \/ PresignRaises(a)
  BY <1>3 DEF Exists, Size, LastModified, Get, Call, Email, PresignExists, PresignSigns, PresignRaises, bucketVars
<1>4. QED
  BY <1>1, <1>2, <1>3 DEF Next

\* An invocation at work is not early if it began on the complete day, and stays so.
LEMMA EarlyOnly ==
    ASSUME IInv, IInv', ~ Early,
           \A w \in Workers : ShardEarly(w)' => ShardEarly(w) \/ ~ RawComplete,
           JobEarly' => JobEarly \/ ~ RawComplete, RawComplete
    PROVE  ~ Early'
<1>1. DOMAIN shard = Workers /\ DOMAIN shard' = Workers
  BY DEF IInv, TypeOK, Workers
<1>2. \A w \in Workers : ~ ShardEarly(w)
  BY <1>1 DEF Early
<1>3. ~ JobEarly
  BY DEF Early
<1>4. QED
  BY <1>1, <1>2, <1>3 DEF Early

\* In a step each invocation stays as early as it was, or begins.
LEMMA EarlyStep ==
    ASSUME IInv, IInv', [Next]_vars, RawComplete, ~ Early
    PROVE  ~ Early'
<1>1. ASSUME NEW w \in Workers, ShardEarly(w)', ~ ShardEarly(w) PROVE ~ RawComplete
  <2>1. shard \in [Workers -> ShardStates] /\ shard[w] \in ShardStates
    BY ShardTypes DEF IInv, TypeOK, Workers
  <2>2. CASE shard' = shard
    BY <1>1, <2>2 DEF ShardEarly
  <2>3. CASE JobEmpties
    <3>1. shard'[w] = [shard[w] EXCEPT !.undone = shard[w].step # "idle"]
      BY <2>1, <2>3 DEF JobEmpties
    <3>2. shard'[w].step = shard[w].step /\ shard'[w].full = shard[w].full
      BY <2>1, <3>1 DEF ShardStates
    <3>3. QED
      BY <1>1, <3>2 DEF ShardEarly
  <2>4. ASSUME NEW v \in Workers, Chunk(v) PROVE ~ RawComplete
    <3>1. CASE v # w
      <4>1. shard'[w] = shard[w]
        BY <2>1, <2>4, <3>1 DEF Chunk, StartShard, ShardPolicies, ShardClaims, ShardWrite, ShardDone, ShardDies
      <4>2. QED
        BY <1>1, <4>1 DEF ShardEarly
    <3>2. CASE v = w /\ StartShard(v)
      <4>1. shard'[w].full = RawComplete
        BY <2>1, <3>2 DEF StartShard, IdleShard
      <4>2. QED
        BY <1>1, <4>1 DEF ShardEarly
    <3>3. CASE v = w /\ (ShardPolicies(v) \/ ShardClaims(v) \/ ShardWrite(v))
      <4>1. shard'[w].full = shard[w].full /\ shard[w].step \in {"policies", "claims", "write"}
        <5>1. CASE ShardPolicies(w)
          BY <2>1, <5>1 DEF ShardPolicies, ShardStates
        <5>2. CASE ShardClaims(w)
          BY <2>1, <5>2 DEF ShardClaims, ShardStates
        <5>3. CASE ShardWrite(w)
          BY <2>1, <5>3 DEF ShardWrite, ShardStates
        <5>4. QED
          BY <3>3, <5>1, <5>2, <5>3
      <4>2. QED
        BY <1>1, <4>1 DEF ShardEarly
    <3>4. CASE v = w /\ (ShardDone(v) \/ ShardDies(v))
      <4>1. shard'[w].step \in {"done", "idle"}
        <5>1. CASE ShardDone(w)
          BY <2>1, <5>1 DEF ShardDone, IdleShard
        <5>2. CASE ShardDies(w)
          BY <2>1, <5>2 DEF ShardDies, IdleShard
        <5>3. QED
          BY <3>4, <5>1, <5>2
      <4>2. QED
        BY <1>1, <4>1 DEF ShardEarly
    <3>5. QED
      BY <2>4, <3>1, <3>2, <3>3, <3>4 DEF Chunk
  <2>5. shard' = shard \/ JobEmpties \/ \E v \in Workers : Chunk(v)
    <3>1. CASE Spark
      BY <3>1 DEF Spark, JobPolicies, JobAgents, JobClaims, JobCommits, JobLists, JobCreates, JobRemoves,
                  JobRaises, JobDone, JobDies
    <3>2. QED
      BY <3>1, Writers
  <2>6. QED
    BY <2>2, <2>3, <2>4, <2>5
<1>2. ASSUME JobEarly', ~ JobEarly PROVE ~ RawComplete
  <2>1. job \in JobStates
    BY DEF IInv, TypeOK
  <2>2. CASE job' = job
    BY <1>2, <2>2 DEF JobEarly
  <2>3. CASE JobPolicies
    <3>1. job'.full = RawComplete
      BY <2>3 DEF JobPolicies, IdleJob
    <3>2. QED
      BY <1>2, <3>1 DEF JobEarly
  <2>4. CASE \/ JobAgents \/ JobClaims \/ JobEmpties \/ JobCommits \/ JobLists
             \/ \E a \in Agents : JobCreates(a) \/ JobRemoves(a)
    <3>1. job'.full = job.full /\ job.step \notin {"idle", "done", "raised"}
      <4>1. \A a \in Agents : JobRemoves(a) => job.step = "finalize"
        BY DEF IInv, JobWrites, JobRemoves
      <4>2. QED
        <5>1. CASE JobAgents \/ JobClaims \/ JobLists
          BY <2>1, <5>1 DEF JobAgents, JobClaims, JobLists, JobStates
        <5>2. CASE JobEmpties
          BY <2>1, <5>2 DEF JobEmpties, JobStates
        <5>3. CASE JobCommits
          BY <2>1, <5>3 DEF JobCommits, JobStep, JobStates
        <5>4. ASSUME NEW a \in Agents, JobCreates(a) \/ JobRemoves(a)
              PROVE  job'.full = job.full /\ job.step = "finalize"
          BY <2>1, <4>1, <5>4 DEF JobCreates, JobRemoves, Finalizing, JobStates
        <5>5. QED
          BY <2>4, <5>1, <5>2, <5>3, <5>4
    <3>2. QED
      BY <1>2, <3>1 DEF JobEarly
  <2>5. CASE JobDone \/ JobDies \/ \E a \in Agents : JobRaises(a)
    <3>1. job'.step \in {"done", "idle", "raised"}
      <4>1. CASE JobDone
        BY <4>1 DEF JobDone, IdleJob
      <4>2. CASE JobDies
        BY <4>2 DEF JobDies, IdleJob
      <4>3. ASSUME NEW a \in Agents, JobRaises(a) PROVE job'.step = "raised"
        BY <4>3 DEF JobRaises, IdleJob
      <4>4. QED
        BY <2>5, <4>1, <4>2, <4>3
    <3>2. QED
      BY <1>2, <3>1 DEF JobEarly
  <2>6. CASE \E w \in Workers : Chunk(w)
    <3>1. job' = job
      BY <2>6 DEF Chunk, StartShard, ShardPolicies, ShardClaims, ShardWrite, ShardDone, ShardDies
    <3>2. QED
      BY <2>2, <3>1
  <2>7. QED
    BY <2>2, <2>3, <2>4, <2>5, <2>6, Writers DEF Spark
<1>3. QED
  BY <1>1, <1>2, EarlyOnly

\* A shard's write makes a report of what it has read.
LEMMA ShardWriteEffect ==
    ASSUME IInv, NEW w \in Workers, ShardWrite(w)
    PROVE  \E a \in shard[w].todo :
              /\ report' = [report EXCEPT ![a] = Report(shard[w], a)]
              /\ shard'[w] = [shard[w] EXCEPT !.todo = @ \ {a}]
              /\ a \in Agents /\ report'[a] # NoReport /\ report'[a].full = shard[w].full
<1>1. PICK a \in shard[w].todo :
          /\ report' = [report EXCEPT ![a] = Report(shard[w], a)]
          /\ shard' = [shard EXCEPT ![w].todo = @ \ {a}]
  BY DEF ShardWrite, Written
<1>2. a \in Agents /\ shard \in [Workers -> ShardStates] /\ report \in [Agents -> Reports \cup {NoReport}]
  BY ShardTypes DEF IInv, TypeOK, Workers
<1>3. report'[a] = Report(shard[w], a) /\ shard'[w] = [shard[w] EXCEPT !.todo = @ \ {a}]
  BY <1>1, <1>2
<1>4. Report(shard[w], a) # NoReport /\ Report(shard[w], a).full = shard[w].full
  BY <1>2, ShardTypes, ReportRight DEF IInv
<1>5. QED
  BY <1>1, <1>2, <1>3, <1>4

\* With nobody early at work, only fresh reports are written.
LEMMA OnlyFreshWritten ==
    ASSUME IInv, [Next]_vars, JobFresh, ~ Early, ~ JobEmpties, NEW a \in Agents
    PROVE  report'[a] = report[a] \/ Fresh(a)'
<1>1. report \in [Agents -> Reports \cup {NoReport}] /\ DOMAIN shard = Workers
  BY DEF IInv, TypeOK, Workers
<1>2. ASSUME NEW w \in Workers, ShardWrite(w) PROVE report'[a] = report[a] \/ Fresh(a)'
  <2>1. PICK b \in shard[w].todo :
            /\ report' = [report EXCEPT ![b] = Report(shard[w], b)]
            /\ b \in Agents /\ report'[b] # NoReport /\ report'[b].full = shard[w].full
    BY <1>2, ShardWriteEffect
  <2>2. shard[w].full
    BY <1>1, <1>2 DEF Early, ShardEarly, ShardWrite
  <2>3. QED
    BY <1>1, <2>1, <2>2 DEF Fresh
<1>3. ASSUME NEW b \in Agents, JobCreates(b) PROVE report'[a] = report[a] \/ Fresh(a)'
  <2>1. job.step = "finalize" /\ part[b] # NoReport /\ report' = [report EXCEPT ![b] = part[b]]
    BY <1>3 DEF JobCreates, Finalizing, Written
  <2>2. job.full
    BY <2>1 DEF Early, JobEarly
  <2>3. part[b].full
    BY <2>1, <2>2 DEF JobFresh
  <2>4. QED
    BY <1>1, <2>1, <2>3 DEF Fresh
<1>4. CASE \E w \in Workers : Chunk(w) /\ ~ ShardWrite(w)
  BY <1>4 DEF Chunk, StartShard, ShardPolicies, ShardClaims, ShardDone, ShardDies, reportVars
<1>5. CASE Spark /\ ~ \E b \in Agents : JobCreates(b)
  BY <1>5 DEF Spark, JobPolicies, JobAgents, JobClaims, JobCommits, JobLists, JobRemoves, Removed,
              JobRaises, JobDone, JobDies, reportVars
<1>6. CASE UNCHANGED <<shard, job, reportVars>>
  BY <1>6 DEF reportVars
<1>7. QED
  BY <1>2, <1>3, <1>4, <1>5, <1>6, Writers

\* After the claims, a shard that began on the complete day has its whole share to write.
LEMMA WholeShareToWrite ==
    ASSUME IInv, NEW w \in Workers, ShardClaims(w), shard[w].full
    PROVE  shard'[w].todo = Share(w)
<1>1. shard[w].policies = PoliciesOf(Share(w)) /\ Share(w) \subseteq Agents
  BY DEF ShardClaims, IInv, ShardRight, Share, plan_shards
<1>2. {AgentOf(p) : p \in PoliciesOf(Share(w))} = Share(w)
  BY <1>1, AgentHasPolicy DEF PoliciesOf
<1>3. shard \in [Workers -> ShardStates]
  BY DEF IInv, TypeOK, Workers
<1>4. shard'[w].todo = {AgentOf(p) : p \in shard[w].policies}
  BY <1>3 DEF ShardClaims, ShardStates
<1>5. QED
  BY <1>1, <1>2, <1>4

LEMMA ShardFreshStep ==
    ASSUME IInv, IInv', [Next]_vars, FreshInv, NEW w \in Workers
    PROVE  ShardFresh(w)'
<1>1. /\ shard \in [Workers -> ShardStates] /\ shard[w] \in ShardStates
      /\ \A a \in Share(w) : a \in Agents
  BY ShardTypes DEF IInv, TypeOK, Workers, Share, plan_shards
<1>2. ShardFresh(w) /\ JobFresh /\ (shard[w].full => RawComplete)
  BY DEF FreshInv, IInv, ShardRight, RawComplete
<1>3. shard[w].full /\ ~ shard[w].crossed => ~ Early'
  BY <1>2, EarlyStep DEF ShardFresh
<1>4. ASSUME shard[w].full, ~ shard[w].crossed, ~ JobEmpties
      PROVE  \A a \in Agents : report'[a] = report[a] \/ Fresh(a)'
  BY <1>2, <1>4, OnlyFreshWritten DEF ShardFresh
<1>5. CASE JobEmpties
  <2>1. shard'[w] = [shard[w] EXCEPT !.undone = shard[w].step # "idle"]
    BY <1>1, <1>5 DEF JobEmpties
  <2>2. /\ shard'[w].full = shard[w].full /\ shard'[w].crossed = shard[w].crossed
        /\ shard'[w].step = shard[w].step /\ shard'[w].undone = (shard[w].step # "idle")
    BY <1>1, <2>1 DEF ShardStates
  <2>3. QED
    BY <1>3, <2>2 DEF ShardFresh
<1>6. CASE StartShard(w)
  <2>1. /\ shard'[w].full = RawComplete /\ shard'[w].crossed = (RawComplete /\ Early)
        /\ shard'[w].step = "policies"
    BY <1>1, <1>6 DEF StartShard, IdleShard
  <2>2. RawComplete /\ ~ Early => ~ Early'
    BY EarlyStep
  <2>3. QED
    BY <2>1, <2>2 DEF ShardFresh
<1>7. CASE ShardPolicies(w)
  <2>1. shard'[w].full = shard[w].full /\ shard'[w].crossed = shard[w].crossed /\ shard'[w].step = "claims"
    BY <1>1, <1>7 DEF ShardPolicies, ShardStates
  <2>2. QED
    BY <1>3, <2>1 DEF ShardFresh
<1>8. CASE ShardClaims(w)
  <2>1. shard'[w].full = shard[w].full /\ shard'[w].crossed = shard[w].crossed /\ shard'[w].step = "write"
    BY <1>1, <1>8 DEF ShardClaims, ShardStates
  <2>2. shard[w].full => shard'[w].todo = Share(w)
    BY <1>8, WholeShareToWrite
  <2>3. QED
    BY <1>3, <2>1, <2>2 DEF ShardFresh, Share
<1>9. CASE ShardWrite(w)
  <2>1. PICK a \in shard[w].todo :
            /\ shard'[w] = [shard[w] EXCEPT !.todo = @ \ {a}]
            /\ a \in Agents /\ report'[a] # NoReport /\ report'[a].full = shard[w].full
    BY <1>9, ShardWriteEffect
  <2>2. /\ shard'[w].full = shard[w].full /\ shard'[w].crossed = shard[w].crossed
        /\ shard'[w].step = "write" /\ shard'[w].undone = shard[w].undone
        /\ shard'[w].todo = shard[w].todo \ {a} /\ shard[w].step = "write"
    BY <1>1, <1>9, <2>1 DEF ShardStates, ShardWrite
  <2>3. ~ JobEmpties
    <3>1. part' = part /\ job' = job
      BY <1>9 DEF ShardWrite
    <3>2. job \in JobStates
      BY DEF IInv, TypeOK
    <3>3. QED
      BY <3>1, <3>2 DEF JobEmpties, JobStates
  <2>4. QED
    BY <1>1, <1>2, <1>3, <1>4, <2>1, <2>2, <2>3 DEF ShardFresh, Fresh, Share
<1>10. CASE ShardDone(w)
  <2>1. /\ shard'[w].full = shard[w].full /\ shard'[w].crossed = shard[w].crossed
        /\ shard'[w].step = "done" /\ shard'[w].undone = shard[w].undone
        /\ shard[w].todo = {} /\ shard[w].step = "write" /\ report' = report
    BY <1>1, <1>10 DEF ShardDone, IdleShard, reportVars
  <2>2. QED
    BY <1>2, <1>3, <2>1 DEF ShardFresh, Fresh, Share
<1>11. CASE ShardDies(w)
  BY <1>1, <1>11 DEF ShardDies, IdleShard, ShardFresh
<1>12. CASE shard'[w] = shard[w] /\ ~ JobEmpties
  BY <1>1, <1>2, <1>3, <1>4, <1>12 DEF ShardFresh, Fresh, Share
<1>13. (\E v \in Workers : Chunk(v) /\ v # w) => shard'[w] = shard[w]
  BY <1>1 DEF Chunk, StartShard, ShardPolicies, ShardClaims, ShardWrite, ShardDone, ShardDies
<1>14. JobEmpties \/ shard'[w] = shard[w] \/ Chunk(w)
  <2>1. CASE Spark
    BY <2>1 DEF Spark, JobPolicies, JobAgents, JobClaims, JobCommits, JobLists, JobCreates, JobRemoves,
                JobRaises, JobDone, JobDies
  <2>2. QED
    BY <1>13, <2>1, Writers
<1>15. QED
  BY <1>5, <1>6, <1>7, <1>8, <1>9, <1>10, <1>11, <1>12, <1>14 DEF Chunk

LEMMA JobFreshStep ==
    ASSUME IInv, IInv', [Next]_vars, FreshInv
    PROVE  JobFresh'
<1>1. /\ job \in JobStates /\ JobFresh /\ (job.full => RawComplete)
      /\ part \in [Agents -> Reports \cup {NoReport}] /\ Published' \subseteq Agents
  BY DEF IInv, TypeOK, FreshInv, JobReads, RawComplete, Published
<1>2. job.full /\ ~ Early => ~ Early'
  BY <1>1, EarlyStep
<1>3. ASSUME job.full, ~ job.crossed, job.step \in {"commit", "list", "finalize", "done"}, ~ JobEmpties
      PROVE  ~ Early' /\ \A a \in Published' : Fresh(a)'
  <2>1. ~ Early /\ \A a \in Published : Fresh(a)
    BY <1>1, <1>3 DEF JobFresh
  <2>2. \A a \in Agents : report'[a] = report[a] \/ Fresh(a)'
    BY <1>1, <1>3, <2>1, OnlyFreshWritten
  <2>3. QED
    BY <1>1, <1>2, <1>3, <2>1, <2>2 DEF Fresh, Published
<1>4. CASE JobEmpties
  <2>1. /\ job'.full = job.full /\ job'.crossed = (job.full /\ Early) /\ job'.step = "commit"
        /\ report' = Nothing /\ part' = Nothing
    BY <1>1, <1>4 DEF JobEmpties, JobStates
  <2>2. (\A a \in Agents : part'[a] = NoReport) /\ Published' = {}
    BY <2>1 DEF Nothing, Published
  <2>3. QED
    BY <1>2, <2>1, <2>2 DEF JobFresh
<1>5. CASE JobCommits
  <2>1. /\ job'.full = job.full /\ job'.crossed = job.crossed /\ job'.step = "list" /\ job.step = "commit"
    BY <1>1, <1>5 DEF JobCommits, JobStep, JobStates
  <2>2. \A a \in Agents : Report(job, a).full = job.full
    BY DEF Report
  <2>3. \A a \in Agents : part'[a] = IF a \in Reported THEN Report(job, a) ELSE part[a]
    BY <1>5 DEF JobCommits
  <2>4. ~ JobEmpties
    BY <2>1 DEF JobEmpties
  <2>5. QED
    BY <1>1, <1>3, <2>1, <2>2, <2>3, <2>4 DEF JobFresh
<1>6. CASE JobLists
  <2>1. /\ job'.full = job.full /\ job'.crossed = job.crossed /\ job'.step = "finalize" /\ job.step = "list"
        /\ part' = part
    BY <1>1, <1>6 DEF JobLists, JobStates, reportVars
  <2>2. ~ JobEmpties
    BY <2>1 DEF JobEmpties
  <2>3. QED
    BY <1>1, <1>3, <2>1, <2>2 DEF JobFresh
<1>7. ASSUME NEW a \in Agents, JobCreates(a) \/ JobRemoves(a) PROVE JobFresh'
  <2>1. JobRemoves(a) => job.step = "finalize"
    BY DEF IInv, JobWrites, JobRemoves
  <2>2. /\ job'.full = job.full /\ job'.crossed = job.crossed /\ job'.step = "finalize" /\ job.step = "finalize"
    BY <1>1, <1>7, <2>1 DEF JobCreates, JobRemoves, Finalizing, JobStates
  <2>3. \A b \in Agents : part'[b] # NoReport => part'[b] = part[b]
    BY <1>1, <1>7 DEF JobCreates, JobRemoves, Removed
  <2>4. ~ JobEmpties
    BY <2>2 DEF JobEmpties
  <2>5. QED
    BY <1>1, <1>3, <2>2, <2>3, <2>4 DEF JobFresh
<1>8. CASE JobDone
  <2>1. /\ job'.full = job.full /\ job'.crossed = job.crossed /\ job'.step = "done" /\ job.step = "finalize"
    BY <1>1, <1>8 DEF JobDone, IdleJob
  <2>2. ~ JobEmpties
    BY <2>1 DEF JobEmpties
  <2>3. QED
    BY <1>1, <1>3, <2>1, <2>2 DEF JobFresh
<1>9. CASE JobPolicies
  BY <1>9 DEF JobPolicies, IdleJob, JobFresh
<1>10. CASE JobAgents \/ JobClaims
  <2>1. job'.step \in {"claims", "empty"}
    BY <1>1, <1>10 DEF JobAgents, JobClaims, JobStates
  <2>2. QED
    BY <2>1 DEF JobFresh
<1>11. CASE JobDies \/ \E a \in Agents : JobRaises(a)
  <2>1. job'.step \in {"idle", "raised"}
    <3>1. JobDies => job'.step = "idle"
      BY DEF JobDies, IdleJob
    <3>2. \A a \in Agents : JobRaises(a) => job'.step = "raised"
      BY DEF JobRaises, IdleJob
    <3>3. QED
      BY <1>11, <3>1, <3>2
  <2>2. QED
    BY <2>1 DEF JobFresh
<1>12. CASE job' = job /\ part' = part
  <2>1. ~ JobEmpties
    BY <1>1, <1>12 DEF JobEmpties, JobStates
  <2>2. QED
    BY <1>1, <1>3, <1>12, <2>1 DEF JobFresh
<1>13. (\E w \in Workers : Chunk(w)) => job' = job /\ part' = part
  BY DEF Chunk, StartShard, ShardPolicies, ShardClaims, ShardWrite, ShardDone, ShardDies, reportVars
<1>14. QED
  BY <1>4, <1>5, <1>6, <1>7, <1>8, <1>9, <1>10, <1>11, <1>12, <1>13, Writers DEF Spark, reportVars

LEMMA SpecFresh == Spec => []FreshInv
<1>1. Init => FreshInv
  <2> SUFFICES ASSUME Init PROVE FreshInv
    OBVIOUS
  <2>1. \A w \in Workers : shard[w].full = FALSE
    BY DEF Init, IdleShard, Workers
  <2>2. job.full = FALSE
    BY DEF Init, IdleJob
  <2>3. QED
    BY <2>1, <2>2 DEF FreshInv, ShardFresh, JobFresh
<1>2. IInv /\ IInv' /\ FreshInv /\ [Next]_vars => FreshInv'
  BY ShardFreshStep, JobFreshStep DEF FreshInv
<1>3. QED
  BY <1>1, <1>2, SpecIInv, PTL DEF Spec
-----------------------------------------------------------------------------
(* What it implies. *)

\* Types are right in every state; a report never has a row of another agent, or of a claim on
\* a policy it does not have, on either path (aggregation.py:177-188, agent_report_job.py:262-362).
THEOREM TypesRight == Spec => []TypeOK
<1>1. IInv => TypeOK
  BY DEF IInv
<1>2. QED
  BY <1>1, SpecIInv, PTL

\* A report made by a run that began on the complete raw day has every row of its agent, whatever
\* invocations crashed, repeated or overlapped before (chunker.py:94-128, agent_report_job.py:486-523).
THEOREM ReportsAreWhole == Spec => []ReportsWhole
<1>1. IInv => ReportsWhole
  BY DEF IInv, FilesRight, Whole, ReportsWhole, Published
<1>2. QED
  BY <1>1, SpecIInv, PTL

\* When every shard has run on the complete day and Spark has not emptied it since, or the job has,
\* no agent is without a report and no part file is left (roster.py:95-106, agent_report_job.py:382-421).
THEOREM DayIsComplete == Spec => []DayComplete
<1>1. IInv => DayComplete
  <2> SUFFICES ASSUME IInv PROVE DayComplete
    OBVIOUS
  <2>1. DOMAIN shard = Workers /\ Published \subseteq Agents
    BY DEF IInv, TypeOK, Workers, Published
  <2>2. ASSUME \A w \in Workers : shard[w].step = "done" /\ shard[w].full /\ ~ shard[w].undone
        PROVE  Published = Agents
    <3>1. \A w \in Workers : Share(w) \subseteq Published
      BY <2>2 DEF IInv, ShardRight
    <3>2. \A a \in Agents : \E w \in Workers : a \in Share(w)
      BY ShardOf DEF Share, Workers
    <3>3. QED
      BY <2>1, <3>1, <3>2
  <2>3. job.step = "done" => part = Nothing /\ (job.full => Published = Agents)
    BY DEF IInv, JobWrites
  <2>4. QED
    BY <2>1, <2>2, <2>3 DEF DayComplete
<1>2. QED
  BY <1>1, SpecIInv, PTL

\* What a run on an incomplete day left is gone when one that began on the complete day is done, unless
\* Spark emptied the day after it started or an early one was still at work beside it, whatever died,
\* repeated or overlapped before (chunker.py:122-126, agent_report_job.py:365-421).
THEOREM LeftoversGone == Spec => []NoLeftovers
<1>1. IInv /\ FreshInv => NoLeftovers
  <2> SUFFICES ASSUME IInv, FreshInv PROVE NoLeftovers
    OBVIOUS
  <2>1. DOMAIN shard = Workers /\ (\A w \in Workers : ShardFresh(w)) /\ JobFresh
    BY DEF IInv, TypeOK, Workers, FreshInv
  <2>2. job.step = "done" /\ job.full => Published = Agents
    BY DEF IInv, JobWrites
  <2>3. QED
    BY <2>1, <2>2 DEF NoLeftovers, ShardFresh, JobFresh, Fresh, Share
<1>2. QED
  BY <1>1, SpecIInv, SpecFresh, PTL

\* A listed report is missing to the dispatcher only after Spark's overwrite has emptied the day, and
\* refused for good only if it did so after exists (dispatcher.py:255-260, agent_report_job.py:376).
THEOREM RefusalsExplained == Spec => []RefusedOnlyIfOverwritten
<1>1. IInv => RefusedOnlyIfOverwritten
  BY DEF IInv, ReadersRight, RefusedOnlyIfOverwritten
<1>2. QED
  BY <1>1, SpecIInv, PTL

\* Whatever is repeated, dies or overlaps, the report behind a link that was emailed or handed out is
\* there unless Spark has emptied the day since exists (dispatcher.py:255-266, presign.py:93-101).
THEOREM LinksLead == Spec => []DeadLinkOnlyIfOverwritten
<1>1. IInv => DeadLinkOnlyIfOverwritten
  <2> SUFFICES ASSUME IInv, NEW a \in Agents \ Published, NEW reader \in {"dispatcher", "presign"}
               PROVE  <<reader, a>> \notin found
    BY DEF DeadLinkOnlyIfOverwritten
  <2>1. <<reader, a>>[2] = a
    OBVIOUS
  <2>2. QED
    BY <2>1 DEF IInv, ReadersRight
<1>2. QED
  BY <1>1, SpecIInv, PTL
=============================================================================
