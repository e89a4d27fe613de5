----------------------------- MODULE Aggregation -----------------------------
(***************************************************************************)
(* From raw rows to per-agent reports, on both paths.                      *)
(*                                                                         *)
(* The chunker's aggregators read the day's rows one by one, each keeping  *)
(* those of its shard's agents: all policies, then all claims.  The Spark  *)
(* job computes the same reports with joins and groupings over whole       *)
(* tables.  The aggregators share nothing, so they take each row together. *)
(*                                                                         *)
(* Money is in cents, a commission rate in units of 0.0001; Blank is an    *)
(* empty cell.  Columns that are only copied are left out.                 *)
(***************************************************************************)
EXTENDS Sharding, Sequences, FiniteSetsExt

CONSTANTS
    Agents, Shards,
    NoAgent, NoPolicy,           \* empty id cells
    PolicyRows, ClaimRows,       \* the rows the partitions may have
    MaxPolicies,                 \* chunker_max_policies
    MaxPolicyRows, MaxClaimRows  \* bounds: rows of the day

Blank == -1

Amounts == Nat \cup {Blank}

ASSUME ConstantsAssumption ==
    /\ Agents \subseteq Nat /\ IsFiniteSet(Agents) /\ NoAgent \notin Agents
    /\ Shards \in Nat \ {0} /\ MaxPolicies \in Nat
    /\ MaxPolicyRows \in Nat /\ MaxClaimRows \in Nat
    /\ \A row \in PolicyRows : row.premium \in Amounts /\ row.rate \in Amounts
    /\ \A row \in ClaimRows : row.claimed \in Amounts /\ row.settled \in Amounts

VARIABLES
    roster,      \* the day's agents
    phase,       \* which source is being read
    policyRows,  \* the rows read so far, copies of a partition included
    claimRows,
    aggregator   \* the RawAggregator of each shard

vars == <<roster, phase, policyRows, claimRows, aggregator>>

Invocations == 0..Shards - 1

PolicyIds == {row.policy : row \in PolicyRows} \ {NoPolicy}
Details == [agent: Agents, premium: Nat, commission: Nat,
            claim_count: Nat, claim_amount: Nat, settled_amount: Nat]

TypeOK ==
    /\ roster \subseteq Agents
    /\ phase \in {"policies", "claims", "done"}
    /\ policyRows \in Seq(PolicyRows) /\ claimRows \in Seq(ClaimRows)
    /\ aggregator = [s \in Invocations |-> aggregator[s]]
    /\ \A s \in Invocations : LET policies == aggregator[s].policies IN
          /\ DOMAIN policies \subseteq PolicyIds /\ policies \in [DOMAIN policies -> Details]
          /\ aggregator[s] \in [policies: {policies}, orphan_claims: Nat, failed: BOOLEAN]

Init ==
    /\ roster \in SUBSET Agents
    /\ phase = "policies"
    /\ policyRows = <<>> /\ claimRows = <<>>
    /\ aggregator = [s \in Invocations |-> [policies |-> <<>>, orphan_claims |-> 0, failed |-> FALSE]]
-----------------------------------------------------------------------------
\* Cells.

\* Fault: an empty cell is not looked for.
to_decimal_unchecked(cell) == cell

to_decimal(cell) == IF cell = Blank THEN 0 ELSE cell

HalfUp(n, d) == (2 * n + d) \div (2 * d)

\* The product is rounded, once.
Commission(premium, rate) == HalfUp(premium * rate, 10000)

loss_ratio(claim_amount, premium) ==
    IF premium = 0 THEN 0 ELSE HalfUp(claim_amount * 10000, premium)
-----------------------------------------------------------------------------
\* RawAggregator

Planned(s) == plan_shards(roster, Shards, s)

InScope(s, row) == row.agent \in Planned(s) /\ row.policy # NoPolicy

\* Fault: a copy is not recognised.
KeptAgain(s, row) == FALSE

\* A row of a policy that was seen is a copy; the first one is kept.
Kept(s, row) == row.policy \in DOMAIN aggregator[s].policies

Full(s) == Cardinality(DOMAIN aggregator[s].policies) >= MaxPolicies

NewPolicy(row) ==
    [agent |-> row.agent, premium |-> to_decimal(row.premium),
     commission |-> Commission(to_decimal(row.premium), to_decimal(row.rate)),
     claim_count |-> 0, claim_amount |-> 0, settled_amount |-> 0]

\* An aggregator that raised reads no further.
add_policy_row(s, row) ==
    IF aggregator[s].failed \/ ~ InScope(s, row) \/ Kept(s, row) THEN aggregator[s]
    ELSE IF Full(s) THEN [aggregator[s] EXCEPT !.failed = TRUE]
    ELSE [aggregator[s] EXCEPT !.policies =
            [p \in DOMAIN @ \cup {row.policy} |-> IF p = row.policy THEN NewPolicy(row) ELSE @[p]]]

\* Fault: the agent on the claim decides.
AttachedByAgent(s, row) == row.policy \in DOMAIN aggregator[s].policies /\ row.agent \in Planned(s)

\* A claim belongs to its policy, whatever agent is on it.
Attached(s, row) == row.policy \in DOMAIN aggregator[s].policies

\* Fault: a claim for another shard is passed over.
OrphanDropped(s) == aggregator[s]

Orphan(s) == [aggregator[s] EXCEPT !.orphan_claims = @ + 1]

WithClaim(detail, row) ==
    [detail EXCEPT !.claim_count = @ + 1,
                   !.claim_amount = @ + to_decimal(row.claimed),
                   !.settled_amount = @ + to_decimal(row.settled)]

add_claim_row(s, row) ==
    IF aggregator[s].failed \/ row.policy = NoPolicy THEN aggregator[s]
    ELSE IF ~ Attached(s, row) THEN Orphan(s)
    ELSE [aggregator[s] EXCEPT !.policies[row.policy] = WithClaim(@, row)]

ReadPolicyRow(row) ==
    /\ phase = "policies" /\ Len(policyRows) < MaxPolicyRows
    /\ policyRows' = Append(policyRows, row)
    /\ aggregator' = [s \in Invocations |-> add_policy_row(s, row)]
    /\ UNCHANGED <<roster, phase, claimRows>>

ReadClaimRow(row) ==
    /\ phase = "claims" /\ Len(claimRows) < MaxClaimRows
    /\ claimRows' = Append(claimRows, row)
    /\ aggregator' = [s \in Invocations |-> add_claim_row(s, row)]
    /\ UNCHANGED <<roster, phase, policyRows>>

EndOfSource ==
    /\ phase # "done"
    /\ phase' = IF phase = "policies" THEN "claims" ELSE "done"
    /\ UNCHANGED <<roster, policyRows, claimRows, aggregator>>

Next ==
    \/ \E row \in PolicyRows : ReadPolicyRow(row)
    \/ \E row \in ClaimRows : ReadClaimRow(row)
    \/ EndOfSource

Spec == Init /\ [][Next]_vars
-----------------------------------------------------------------------------
\* Reports: the DETAIL rows by policy, and the TOTAL row.

summarize_details(details) ==
    LET Total(amount) == SumFunction([p \in DOMAIN details |-> details[p][amount]])
    IN [policy_count |-> Cardinality(DOMAIN details), premium |-> Total("premium"),
        commission |-> Total("commission"), claim_count |-> Total("claim_count"),
        claim_amount |-> Total("claim_amount"), settled_amount |-> Total("settled_amount"),
        loss_ratio |-> loss_ratio(Total("claim_amount"), Total("premium"))]

Report(details) ==
    [details |-> [p \in DOMAIN details |->
                    <<details[p], loss_ratio(details[p].claim_amount, details[p].premium)>>],
     total |-> summarize_details(details)]

\* iter_reports
agents_with_policies(s) == {aggregator[s].policies[p].agent : p \in DOMAIN aggregator[s].policies}

report_for(s, a) ==
    Report([p \in {q \in DOMAIN aggregator[s].policies : aggregator[s].policies[q].agent = a} |->
                aggregator[s].policies[p]])

ChunkerReports == UNION {{<<a, report_for(s, a)>> : a \in agents_with_policies(s)} : s \in Invocations}
-----------------------------------------------------------------------------
\* The Spark job.

\* read_policies: one row per policy id.
read_policies ==
    {CHOOSE row \in Range(policyRows) : row.policy = p : p \in {row.policy : row \in Range(policyRows)}}

Claims(p) == {i \in DOMAIN claimRows : claimRows[i].policy = p}

\* aggregate_details: policies left-joined with the claim totals, inner-joined with the roster.
Joined == {row \in read_policies : row.agent \in roster}

aggregate_details(row) ==
    [agent |-> row.agent, premium |-> row.premium,
     commission |-> HalfUp(row.premium * row.rate, 10000),
     claim_count |-> Cardinality(Claims(row.policy)),
     claim_amount |-> SumFunction([i \in Claims(row.policy) |-> to_decimal(claimRows[i].claimed)]),
     settled_amount |-> SumFunction([i \in Claims(row.policy) |-> to_decimal(claimRows[i].settled)])]

SparkReports ==
    {<<a, Report([p \in {row.policy : row \in {r \in Joined : r.agent = a}} |->
                    aggregate_details(CHOOSE row \in Joined : row.policy = p)])>> :
        a \in {row.agent : row \in Joined}}
-----------------------------------------------------------------------------
\* The copies of a policy row, if any, are identical, and its cells are filled.
Copies == \A i, j \in DOMAIN policyRows : policyRows[i].policy = policyRows[j].policy => policyRows[i] = policyRows[j]
WellFormed ==
    /\ Copies
    /\ \A row \in Range(policyRows) : row.policy # NoPolicy /\ row.premium # Blank /\ row.rate # Blank

Complete == phase = "done" /\ \A s \in Invocations : ~ aggregator[s].failed

\* The policies with a row that names one of the shard's agents, and the claims of other policies.
PoliciesOf(s) == {row.policy : row \in {r \in Range(policyRows) : InScope(s, r)}}
OrphansOf(s) == {i \in DOMAIN claimRows : claimRows[i].policy \notin PoliciesOf(s) \cup {NoPolicy}}

\* "byte-identity with the chunker" (agent_report_job.py:227): with partitions delivered twice,
\* policies of agents outside the roster, claims with a stale agent or without a policy, and empty
\* amounts, the shards together report what the Spark job reports, to the cent.
PathsAgree == Complete /\ WellFormed => ChunkerReports = SparkReports

\* No policy of a rostered agent is lost between the shards, and none is reported by two of them
\* unless its rows name agents of both.
PoliciesReportedOnce ==
    Complete => \A row \in Range(policyRows) : row.policy # NoPolicy /\ row.agent \in roster =>
        LET named == {r.agent : r \in {q \in Range(policyRows) : q.policy = row.policy}} \cap roster
            reporters == {s \in Invocations : row.policy \in DOMAIN aggregator[s].policies}
        IN  /\ reporters # {} /\ Cardinality(reporters) <= Cardinality(named)
            /\ \A s \in reporters : aggregator[s].policies[row.policy].agent \in named

\* "The denormalised agent_id on the claim row must not decide scope" (aggregation.py:155-156):
\* whichever agents the claim rows name, a policy of the shard's agents has all its claim rows
\* counted on it, repeated ones included, and the others that name a policy are its orphans.
ClaimsAccounted ==
    Complete => \A s \in Invocations :
        /\ \A p \in PoliciesOf(s) : aggregator[s].policies[p].claim_count = Cardinality(Claims(p))
        /\ aggregator[s].orphan_claims = Cardinality(OrphansOf(s))

\* The guardrail is exact: a shard gives up when it has a policy too many, however many copies of
\* rows it has read, and the other shards are not affected.
CapacityExact ==
    \A s \in Invocations :
        aggregator[s].failed <=> Cardinality(PoliciesOf(s)) > MaxPolicies
=============================================================================
