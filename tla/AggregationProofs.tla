-------------------------- MODULE AggregationProofs --------------------------
(* Theorems about Aggregation for every set of agents and number of shards, *)
(* and for any rows in any order.                                           *)
EXTENDS Aggregation, FiniteSetTheorems, WellFoundedInduction, TLAPS

-----------------------------------------------------------------------------
(* Sums over finite sets: SumFunctionOnSet takes the elements of a set in an *)
(* order of its own, and the order does not matter.  Induction on the size   *)
(* of a set is the choice of a least exception.                              *)

LEMMA LeastNumber == ASSUME NEW T \in SUBSET Nat, T # {} PROVE \E n \in T : \A m \in T : n <= m
<1>1. PICK n \in T : \A m \in T : ~ (<<m, n>> \in OpToRel(<, Nat))
  BY NatLessThanWellFounded, WFMin
<1>2. \A m \in T : ~ (m < n)
  BY <1>1 DEF OpToRel
<1>3. n \in Nat /\ \A m \in T : m \in Nat
  OBVIOUS
<1>4. \A m \in T : n <= m
  BY <1>2, <1>3
<1>5. QED
  BY <1>4

Pick(s) == CHOOSE x \in s : TRUE

LEMMA Picked == ASSUME NEW s, s # {} PROVE Pick(s) \in s
BY DEF Pick

\* The function that SumFunctionOnSet defines by recursion, and its equation.
PartialSum(f, g, s) == IF s = {} THEN 0 ELSE f[Pick(s)] + g[s \ {Pick(s)}]
PartialSums(f, S) == CHOOSE g : g = [s \in SUBSET S |-> PartialSum(f, g, s)]

LEMMA SumIs == ASSUME NEW f, NEW S PROVE SumFunctionOnSet(f, S) = PartialSums(f, S)[S]
BY DEF SumFunctionOnSet, FoldFunctionOnSet, MapThenFoldSet, PartialSums, PartialSum, Pick

Smaller(S, n) == {s \in SUBSET S : Cardinality(s) < n}

LEMMA Sizes ==
    ASSUME NEW S, IsFiniteSet(S)
    PROVE  \A s \in SUBSET S : /\ IsFiniteSet(s) /\ Cardinality(s) \in Nat
                               /\ \A x \in s : s \ {x} \in SUBSET S /\ Cardinality(s \ {x}) < Cardinality(s)
<1> TAKE s \in SUBSET S
<1>1. IsFiniteSet(s) /\ Cardinality(s) \in Nat
  BY FS_Subset, FS_CardinalityType
<1>2. ASSUME NEW x \in s PROVE Cardinality(s \ {x}) < Cardinality(s)
  <2>1. Cardinality(s \ {x}) = Cardinality(s) - 1
    BY <1>1, FS_RemoveElement
  <2>2. QED
    BY <1>1, <2>1
<1>3. QED
  BY <1>1, <1>2

\* The equation has a solution on the sets of less than n elements, for every n.
LEMMA SmallerSums ==
    ASSUME NEW f, NEW S, IsFiniteSet(S), NEW n \in Nat
    PROVE  \E g : g = [s \in Smaller(S, n) |-> PartialSum(f, g, s)]
<1> DEFINE Solved(k) == \E g : g = [s \in Smaller(S, k) |-> PartialSum(f, g, s)]
           T == {k \in Nat : ~ Solved(k)}
<1> SUFFICES ASSUME T # {} PROVE FALSE
  OBVIOUS
<1>1. PICK m \in T : \A k \in T : m <= k
  BY LeastNumber
<1> HIDE DEF T
<1>2. m \in Nat /\ ~ Solved(m) /\ \A k \in Nat : k < m => Solved(k)
  BY <1>1 DEF T
<1>3. m # 0
  <2>1. Smaller(S, 0) = {}
    BY Sizes DEF Smaller
  <2>2. [t \in {} |-> 0] = [s \in Smaller(S, 0) |-> PartialSum(f, [t \in {} |-> 0], s)]
    BY <2>1
  <2>3. QED
    BY <1>2, <2>2
<1>4. m - 1 \in Nat /\ m - 1 < m
  BY <1>2, <1>3
<1>5. PICK g : g = [s \in Smaller(S, m - 1) |-> PartialSum(f, g, s)]
  BY <1>2, <1>4
<1> DEFINE h == [s \in Smaller(S, m) |-> PartialSum(f, g, s)]
<1>6. \A s \in Smaller(S, m - 1) : s \in Smaller(S, m) /\ h[s] = g[s]
  <2> TAKE s \in Smaller(S, m - 1)
  <2>1. s \in Smaller(S, m)
    BY <1>2, Sizes DEF Smaller
  <2>2. g[s] = PartialSum(f, g, s)
    BY <1>5
  <2>3. QED
    BY <2>1, <2>2
<1>7. \A s \in Smaller(S, m) : s # {} => s \ {Pick(s)} \in Smaller(S, m - 1)
  <2> SUFFICES ASSUME NEW s \in Smaller(S, m), s # {} PROVE s \ {Pick(s)} \in Smaller(S, m - 1)
    OBVIOUS
  <2>1. s \in SUBSET S /\ Cardinality(s) < m /\ IsFiniteSet(s) /\ Cardinality(s) \in Nat
    BY Sizes DEF Smaller
  <2>2. Cardinality(s \ {Pick(s)}) = Cardinality(s) - 1
    BY <2>1, Picked, FS_RemoveElement
  <2>3. QED
    BY <1>2, <2>1, <2>2 DEF Smaller
<1> HIDE DEF h
<1>8. \A s \in Smaller(S, m) : PartialSum(f, h, s) = PartialSum(f, g, s)
  BY <1>6, <1>7 DEF PartialSum
<1>9. h = [s \in Smaller(S, m) |-> PartialSum(f, h, s)]
  BY <1>8 DEF h
<1>10. QED
  BY <1>2, <1>9

LEMMA PartialSumsDef ==
    ASSUME NEW f, NEW S, IsFiniteSet(S)
    PROVE  \A s \in SUBSET S : PartialSums(f, S)[s] = PartialSum(f, PartialSums(f, S), s)
<1> DEFINE n == Cardinality(S) + 1
<1>1. Cardinality(S) \in Nat /\ \A s \in SUBSET S : Cardinality(s) \in Nat /\ Cardinality(s) <= Cardinality(S)
  BY FS_Subset, FS_CardinalityType
<1>2. n \in Nat
  BY <1>1
<1>3. Smaller(S, n) = SUBSET S
  BY <1>1 DEF Smaller
<1> HIDE DEF n
<1>4. \E g : g = [s \in SUBSET S |-> PartialSum(f, g, s)]
  <2>1. \E g : g = [s \in Smaller(S, n) |-> PartialSum(f, g, s)]
    BY <1>2, SmallerSums
  <2>2. QED
    BY <1>3, <2>1
<1>5. PartialSums(f, S) = [s \in SUBSET S |-> PartialSum(f, PartialSums(f, S), s)]
  BY <1>4 DEF PartialSums
<1>6. QED
  BY <1>5

\* Any element can be taken out first.
LEMMA PartialSumsRemove ==
    ASSUME NEW f, NEW S, IsFiniteSet(S), \A x \in S : f[x] \in Int
    PROVE  \A s \in SUBSET S :
              /\ PartialSums(f, S)[s] \in Int
              /\ \A x \in s : PartialSums(f, S)[s] = f[x] + PartialSums(f, S)[s \ {x}]
<1> DEFINE g == PartialSums(f, S)
           Good(s) == g[s] \in Int /\ \A x \in s : g[s] = f[x] + g[s \ {x}]
           T == {k \in Nat : \E s \in SUBSET S : Cardinality(s) = k /\ ~ Good(s)}
<1>1. \A s \in SUBSET S : Cardinality(s) \in Nat
  BY Sizes
<1>2. \A s \in SUBSET S : g[s] = PartialSum(f, g, s)
  BY PartialSumsDef
<1> SUFFICES ASSUME T # {} PROVE FALSE
  BY <1>1
<1>3. PICK m \in T : \A k \in T : m <= k
  BY LeastNumber
<1>4. PICK s \in SUBSET S : Cardinality(s) = m /\ ~ Good(s)
  BY <1>3
<1>5. \A t \in SUBSET S : Cardinality(t) < Cardinality(s) => Good(t)
  BY <1>1, <1>3, <1>4
<1> HIDE DEF T, g
<1>6. s # {}
  <2> SUFFICES ASSUME s = {} PROVE FALSE
    OBVIOUS
  <2>1. g[s] = 0
    BY <1>2 DEF PartialSum
  <2>2. QED
    BY <1>4, <2>1
<1> DEFINE y == Pick(s)
<1>7. y \in s
  BY <1>6, Picked
<1>8. g[s] = f[y] + g[s \ {y}]
  BY <1>2, <1>6 DEF PartialSum
<1> HIDE DEF y
<1>9. \A x \in s : Good(s \ {x})
  <2>1. \A x \in s : s \ {x} \in SUBSET S /\ Cardinality(s \ {x}) < Cardinality(s)
    BY Sizes
  <2> HIDE DEF Good
  <2>2. QED
    BY <1>5, <2>1
<1>10. ASSUME NEW x \in s, x # y PROVE g[s] = f[x] + g[s \ {x}]
  <2> DEFINE t == s \ {y}
  <2>1. x \in t /\ y \in s \ {x} /\ t \ {x} = (s \ {x}) \ {y}
    BY <1>7, <1>10
  <2>2. g[t] = f[x] + g[t \ {x}] /\ g[s \ {x}] = f[y] + g[t \ {x}]
    BY <1>7, <1>9, <2>1
  <2>3. t \in SUBSET S /\ Cardinality(t) < Cardinality(s)
    BY <1>7, Sizes
  <2> HIDE DEF t
  <2>4. t \ {x} \in SUBSET S /\ Cardinality(t \ {x}) < Cardinality(t)
    BY <2>1, <2>3, Sizes
  <2>5. Cardinality(t \ {x}) < Cardinality(s)
    <3>1. Cardinality(t \ {x}) \in Nat /\ Cardinality(t) \in Nat /\ Cardinality(s) \in Nat
      BY <1>1, <2>3, <2>4
    <3>2. QED
      BY <2>3, <2>4, <3>1
  <2>6. g[t \ {x}] \in Int
    BY <1>5, <2>4, <2>5
  <2>7. f[x] \in Int /\ f[y] \in Int
    BY <1>7
  <2>8. \A a, b, c \in Int : a + (b + c) = b + (a + c)
    OBVIOUS
  <2>9. g[s] = f[y] + (f[x] + g[t \ {x}])
    BY <1>8, <2>2 DEF t
  <2>10. QED
    BY <2>2, <2>6, <2>7, <2>8, <2>9
<1>11. g[s] \in Int
  <2>1. f[y] \in Int /\ g[s \ {y}] \in Int
    BY <1>7, <1>9
  <2>2. QED
    BY <1>8, <2>1
<1>12. QED
  BY <1>4, <1>8, <1>10, <1>11

\* The sums depend on nothing but the values summed.
LEMMA PartialSumsAgree ==
    ASSUME NEW f, NEW h, NEW S, NEW R \in SUBSET S, IsFiniteSet(S), \A x \in R : f[x] = h[x]
    PROVE  \A s \in SUBSET R : PartialSums(f, S)[s] = PartialSums(h, R)[s]
<1> DEFINE g == PartialSums(f, S)
           k == PartialSums(h, R)
           T == {n \in Nat : \E s \in SUBSET R : Cardinality(s) = n /\ g[s] # k[s]}
<1>1. IsFiniteSet(R) /\ \A s \in SUBSET R : Cardinality(s) \in Nat
  BY Sizes
<1>2. \A s \in SUBSET R : g[s] = PartialSum(f, g, s) /\ k[s] = PartialSum(h, k, s)
  BY <1>1, PartialSumsDef
<1> SUFFICES ASSUME T # {} PROVE FALSE
  BY <1>1
<1>3. PICK m \in T : \A n \in T : m <= n
  BY LeastNumber
<1>4. PICK s \in SUBSET R : Cardinality(s) = m /\ g[s] # k[s]
  BY <1>3
<1>5. \A t \in SUBSET R : Cardinality(t) < Cardinality(s) => g[t] = k[t]
  BY <1>1, <1>3, <1>4
<1> HIDE DEF T, g, k
<1>6. s # {}
  <2> SUFFICES ASSUME s = {} PROVE FALSE
    OBVIOUS
  <2>1. g[s] = 0 /\ k[s] = 0
    BY <1>2 DEF PartialSum
  <2>2. QED
    BY <1>4, <2>1
<1>7. Pick(s) \in s /\ f[Pick(s)] = h[Pick(s)]
  BY <1>6, Picked
<1>8. g[s \ {Pick(s)}] = k[s \ {Pick(s)}]
  BY <1>1, <1>5, <1>7, Sizes
<1>9. g[s] = f[Pick(s)] + g[s \ {Pick(s)}] /\ k[s] = h[Pick(s)] + k[s \ {Pick(s)}]
  BY <1>2, <1>6 DEF PartialSum
<1>10. QED
  BY <1>4, <1>7, <1>8, <1>9

LEMMA SumEmpty == ASSUME NEW f PROVE SumFunctionOnSet(f, {}) = 0
<1>1. SumFunctionOnSet(f, {}) = PartialSum(f, PartialSums(f, {}), {})
  BY SumIs, PartialSumsDef, FS_EmptySet
<1>2. QED
  BY <1>1 DEF PartialSum

LEMMA SumType ==
    ASSUME NEW f, NEW S, IsFiniteSet(S), \A x \in S : f[x] \in Int
    PROVE  SumFunctionOnSet(f, S) \in Int
BY SumIs, PartialSumsRemove

LEMMA SumAgrees ==
    ASSUME NEW f, NEW h, NEW S, IsFiniteSet(S), \A x \in S : f[x] = h[x]
    PROVE  SumFunctionOnSet(f, S) = SumFunctionOnSet(h, S)
BY SumIs, PartialSumsAgree

\* A sum without one of its elements.
LEMMA SumRemove ==
    ASSUME NEW f, NEW S, IsFiniteSet(S), \A x \in S : f[x] \in Int, NEW x \in S
    PROVE  SumFunctionOnSet(f, S) = f[x] + SumFunctionOnSet(f, S \ {x})
<1>1. PartialSums(f, S)[S] = f[x] + PartialSums(f, S)[S \ {x}]
  BY PartialSumsRemove
<1>2. PartialSums(f, S)[S \ {x}] = PartialSums(f, S \ {x})[S \ {x}]
  BY PartialSumsAgree
<1>3. QED
  BY <1>1, <1>2, SumIs

LEMMA SumOver == ASSUME NEW f PROVE SumFunction(f) = SumFunctionOnSet(f, DOMAIN f)
BY DEF SumFunction

\* A sum with one value more.
LEMMA SumAdd ==
    ASSUME NEW f, NEW g, NEW S, IsFiniteSet(S), DOMAIN f = S, \A x \in S : f[x] \in Int /\ g[x] = f[x],
           NEW n, n \notin S, DOMAIN g = S \cup {n}, g[n] \in Int
    PROVE  SumFunction(g) = SumFunction(f) + g[n] /\ SumFunction(f) \in Int
<1>1. IsFiniteSet(S \cup {n}) /\ (S \cup {n}) \ {n} = S
  BY FS_AddElement
<1>2. \A x \in S \cup {n} : g[x] \in Int
  OBVIOUS
<1>3. SumFunctionOnSet(g, S \cup {n}) = g[n] + SumFunctionOnSet(g, S)
  BY <1>1, <1>2, SumRemove
<1>4. SumFunctionOnSet(g, S) = SumFunctionOnSet(f, S) /\ SumFunctionOnSet(f, S) \in Int
  BY SumAgrees, SumType
<1>5. QED
  BY <1>3, <1>4, SumOver
-----------------------------------------------------------------------------
(* The rows read, the amounts in them, and the types. *)

LEMMA HalfUpType ==
    ASSUME NEW n \in Nat, NEW d \in Nat \ {0}
    PROVE  HalfUp(n, d) \in Nat
<1>1. 2 * n + d \in Nat /\ 2 * d \in Nat \ {0}
  OBVIOUS
<1>2. \A x \in Nat, y \in Nat \ {0} : x \div y \in Nat
  OBVIOUS
<1>3. QED
  BY <1>1, <1>2 DEF HalfUp

LEMMA Decimal == ASSUME NEW cell \in Amounts PROVE to_decimal(cell) \in Nat
BY DEF Amounts, to_decimal

LEMMA NewPolicyType ==
    ASSUME TypeOK, NEW s \in Invocations, NEW row \in PolicyRows, InScope(s, row)
    PROVE  /\ NewPolicy(row) \in Details
           /\ row.policy \in PolicyIds
           /\ row.agent \in roster
<1>1. to_decimal(row.premium) \in Nat /\ to_decimal(row.rate) \in Nat
  BY ConstantsAssumption, Decimal
<1>2. to_decimal(row.premium) * to_decimal(row.rate) \in Nat
  BY <1>1
<1>3. Commission(to_decimal(row.premium), to_decimal(row.rate)) \in Nat
  BY <1>2, HalfUpType DEF Commission
<1>4. row.agent \in roster /\ row.agent \in Agents /\ row.policy \in PolicyIds
  BY DEF TypeOK, PolicyIds, InScope, Planned, plan_shards
<1>5. NewPolicy(row) \in Details
  BY <1>1, <1>3, <1>4 DEF NewPolicy, Details
<1>6. QED
  BY <1>4, <1>5

\* A policy row is remembered by the aggregators it is in the scope of.
Remember(s, row) ==
    ~ aggregator[s].failed /\ InScope(s, row) /\ row.policy \notin DOMAIN aggregator[s].policies

LEMMA PolicyEffect ==
    ASSUME TypeOK, NEW row \in PolicyRows, ReadPolicyRow(row), NEW s \in Invocations
    PROVE  /\ ~ Remember(s, row) => aggregator'[s] = aggregator[s]
           /\ Remember(s, row) /\ Full(s) =>
                 /\ aggregator'[s].failed /\ aggregator'[s].policies = aggregator[s].policies
                 /\ aggregator'[s].orphan_claims = aggregator[s].orphan_claims
           /\ Remember(s, row) /\ ~ Full(s) =>
                 /\ ~ aggregator'[s].failed
                 /\ aggregator'[s].orphan_claims = aggregator[s].orphan_claims
                 /\ DOMAIN aggregator'[s].policies = DOMAIN aggregator[s].policies \cup {row.policy}
                 /\ \A p \in DOMAIN aggregator[s].policies : aggregator'[s].policies[p] = aggregator[s].policies[p]
                 /\ aggregator'[s].policies[row.policy] = NewPolicy(row)
<1>1. aggregator'[s] = add_policy_row(s, row)
  BY DEF ReadPolicyRow
<1>2. aggregator[s] \in [policies: {aggregator[s].policies}, orphan_claims: Nat, failed: BOOLEAN]
  BY DEF TypeOK
<1>3. CASE ~ Remember(s, row)
  BY <1>1, <1>3 DEF Remember, add_policy_row, Kept
<1>4. CASE Remember(s, row) /\ Full(s)
  BY <1>1, <1>2, <1>4 DEF Remember, add_policy_row, Kept
<1>5. CASE Remember(s, row) /\ ~ Full(s)
  <2> DEFINE old == aggregator[s].policies
             new == [p \in DOMAIN old \cup {row.policy} |-> IF p = row.policy THEN NewPolicy(row) ELSE old[p]]
  <2>1. aggregator'[s] = [aggregator[s] EXCEPT !.policies = new]
    BY <1>1, <1>5 DEF Remember, add_policy_row, Kept
  <2>2. /\ aggregator'[s].failed = aggregator[s].failed
        /\ aggregator'[s].orphan_claims = aggregator[s].orphan_claims
        /\ aggregator'[s].policies = new
    BY <1>2, <2>1
  <2>3. row.policy \notin DOMAIN old /\ ~ aggregator[s].failed
    BY <1>5 DEF Remember
  <2> HIDE DEF old
  <2>4. /\ DOMAIN new = DOMAIN old \cup {row.policy} /\ new[row.policy] = NewPolicy(row)
        /\ \A p \in DOMAIN old : new[p] = old[p]
    BY <2>3
  <2> HIDE DEF new
  <2>5. QED
    BY <1>5, <2>2, <2>3, <2>4 DEF old
<1>6. QED
  BY <1>3, <1>4, <1>5

\* A claim row goes to the aggregators that know its policy.
LEMMA ClaimEffect ==
    ASSUME TypeOK, NEW row \in ClaimRows, ReadClaimRow(row), NEW s \in Invocations
    PROVE  /\ aggregator'[s].failed = aggregator[s].failed
           /\ DOMAIN aggregator'[s].policies = DOMAIN aggregator[s].policies
           /\ \A p \in DOMAIN aggregator[s].policies :
                 p # row.policy => aggregator'[s].policies[p] = aggregator[s].policies[p]
           /\ aggregator[s].failed \/ row.policy = NoPolicy => aggregator'[s] = aggregator[s]
           /\ ~ aggregator[s].failed /\ row.policy # NoPolicy =>
                 IF row.policy \notin DOMAIN aggregator[s].policies
                 THEN /\ aggregator'[s].orphan_claims = aggregator[s].orphan_claims + 1
                      /\ aggregator'[s].policies = aggregator[s].policies
                 ELSE /\ aggregator'[s].orphan_claims = aggregator[s].orphan_claims
                      /\ aggregator'[s].policies[row.policy] = WithClaim(aggregator[s].policies[row.policy], row)
<1> DEFINE old == aggregator[s]
           q == row.policy
<1>1. aggregator'[s] = add_claim_row(s, row)
  BY DEF ReadClaimRow
<1>2. old \in [policies: {old.policies}, orphan_claims: Nat, failed: BOOLEAN]
  BY DEF TypeOK
<1>3. CASE old.failed \/ q = NoPolicy
  BY <1>1, <1>3 DEF add_claim_row
<1>4. CASE ~ old.failed /\ q # NoPolicy /\ q \notin DOMAIN old.policies
  <2>1. aggregator'[s] = [old EXCEPT !.orphan_claims = @ + 1]
    BY <1>1, <1>4 DEF add_claim_row, Attached, Orphan
  <2>2. QED
    BY <1>2, <1>4, <2>1
<1>5. CASE ~ old.failed /\ q # NoPolicy /\ q \in DOMAIN old.policies
  <2> DEFINE new == WithClaim(old.policies[q], row)
  <2>1. aggregator'[s] = [old EXCEPT !.policies = [@ EXCEPT ![q] = new]]
    BY <1>1, <1>2, <1>5 DEF add_claim_row, Attached
  <2>2. /\ aggregator'[s].failed = old.failed /\ aggregator'[s].orphan_claims = old.orphan_claims
        /\ aggregator'[s].policies = [old.policies EXCEPT ![q] = new]
    BY <1>2, <2>1
  <2> HIDE DEF new
  <2>3. /\ DOMAIN [old.policies EXCEPT ![q] = new] = DOMAIN old.policies
        /\ [old.policies EXCEPT ![q] = new][q] = new
        /\ \A p \in DOMAIN old.policies : p # q => [old.policies EXCEPT ![q] = new][p] = old.policies[p]
    BY <1>5
  <2>4. QED
    BY <1>5, <2>2, <2>3 DEF new
<1>6. QED
  BY <1>3, <1>4, <1>5

LEMMA WithClaimType ==
    ASSUME NEW detail \in Details, NEW row \in ClaimRows
    PROVE  /\ WithClaim(detail, row) \in Details
           /\ WithClaim(detail, row).agent = detail.agent
           /\ WithClaim(detail, row).premium = detail.premium
           /\ WithClaim(detail, row).commission = detail.commission
           /\ WithClaim(detail, row).claim_count = detail.claim_count + 1
           /\ WithClaim(detail, row).claim_amount = detail.claim_amount + to_decimal(row.claimed)
           /\ WithClaim(detail, row).settled_amount = detail.settled_amount + to_decimal(row.settled)
<1>1. to_decimal(row.claimed) \in Nat /\ to_decimal(row.settled) \in Nat
  BY ConstantsAssumption, Decimal
<1>2. ASSUME NEW d \in Details, NEW n \in Nat
      PROVE  /\ [d EXCEPT !.claim_count = n] \in Details
             /\ [d EXCEPT !.claim_amount = n] \in Details
             /\ [d EXCEPT !.settled_amount = n] \in Details
  BY DEF Details
<1>3. /\ detail.claim_count + 1 \in Nat
      /\ detail.claim_amount + to_decimal(row.claimed) \in Nat
      /\ detail.settled_amount + to_decimal(row.settled) \in Nat
  BY <1>1 DEF Details
<1>4. WithClaim(detail, row) \in Details
  BY <1>2, <1>3 DEF WithClaim
<1>5. QED
  BY <1>4 DEF WithClaim, Details

\* What TypeOK says of one aggregator.
Typed(a) ==
    /\ DOMAIN a.policies \subseteq PolicyIds /\ a.policies \in [DOMAIN a.policies -> Details]
    /\ a \in [policies: {a.policies}, orphan_claims: Nat, failed: BOOLEAN]

LEMMA TypeOKInit == Init => TypeOK
<1> SUFFICES ASSUME Init PROVE TypeOK
  OBVIOUS
<1>1. \A s \in Invocations : aggregator[s] = [policies |-> <<>>, orphan_claims |-> 0, failed |-> FALSE]
  BY DEF Init
<1>2. DOMAIN <<>> = {} /\ <<>> \in [DOMAIN <<>> -> Details]
  OBVIOUS
<1>3. aggregator = [s \in Invocations |-> aggregator[s]]
  BY DEF Init
<1>4. ASSUME NEW s \in Invocations PROVE Typed(aggregator[s])
  <2>1. aggregator[s].policies = <<>> /\ aggregator[s].orphan_claims = 0 /\ aggregator[s].failed = FALSE
    BY <1>1
  <2>2. [policies |-> <<>>, orphan_claims |-> 0, failed |-> FALSE]
            \in [policies: {<<>>}, orphan_claims: Nat, failed: BOOLEAN]
    OBVIOUS
  <2>3. aggregator[s] \in [policies: {aggregator[s].policies}, orphan_claims: Nat, failed: BOOLEAN]
    BY <1>1, <2>1, <2>2
  <2>4. QED
    BY <1>2, <2>1, <2>3 DEF Typed
<1>5. QED
  BY <1>3, <1>4 DEF Init, TypeOK, Typed

LEMMA TypeOKPolicy ==
    ASSUME TypeOK, NEW row \in PolicyRows, ReadPolicyRow(row)
    PROVE  TypeOK'
<1>1. ASSUME NEW s \in Invocations PROVE Typed(aggregator'[s])
  <2>1. Typed(aggregator[s])
    BY DEF TypeOK, Typed
  <2>2. CASE ~ Remember(s, row)
    BY <2>1, <2>2, PolicyEffect
  <2>3. CASE Remember(s, row)
    <3> DEFINE new == aggregator'[s]
    <3>1. new \in [policies: {new.policies}, orphan_claims: Nat, failed: BOOLEAN]
      BY <2>3, <1>1 DEF TypeOK, ReadPolicyRow, add_policy_row, Remember, Kept
    <3>2. NewPolicy(row) \in Details /\ row.policy \in PolicyIds
      BY <2>3, NewPolicyType DEF Remember
    <3>3. DOMAIN new.policies \subseteq PolicyIds
      BY <2>1, <2>3, <3>2, PolicyEffect DEF Typed
    <3>4. \A p \in DOMAIN new.policies : new.policies[p] \in Details
      BY <2>1, <2>3, <3>2, PolicyEffect DEF Typed
    <3>5. new.policies = [p \in DOMAIN new.policies |-> new.policies[p]]
      BY <2>3, <2>1 DEF Typed, ReadPolicyRow, add_policy_row, Remember, Kept
    <3> HIDE DEF new
    <3>6. QED
      BY <3>1, <3>3, <3>4, <3>5 DEF Typed, new
  <2>4. QED
    BY <2>2, <2>3
<1>2. aggregator' = [s \in Invocations |-> aggregator'[s]]
  BY DEF ReadPolicyRow
<1>3. policyRows' \in Seq(PolicyRows)
  BY DEF ReadPolicyRow, TypeOK
<1>4. QED
  BY <1>1, <1>2, <1>3 DEF TypeOK, Typed, ReadPolicyRow

LEMMA TypeOKClaim ==
    ASSUME TypeOK, NEW row \in ClaimRows, ReadClaimRow(row)
    PROVE  TypeOK'
<1>1. ASSUME NEW s \in Invocations PROVE Typed(aggregator'[s])
  <2> DEFINE new == aggregator'[s]
  <2>1. Typed(aggregator[s])
    BY DEF TypeOK, Typed
  <2>2. new \in [policies: {new.policies}, orphan_claims: Nat, failed: BOOLEAN]
    <3> DEFINE old == aggregator[s]
    <3>1. \/ new = old
          \/ new = [old EXCEPT !.orphan_claims = @ + 1]
          \/ new = [old EXCEPT !.policies[row.policy] = WithClaim(@, row)]
      BY DEF ReadClaimRow, add_claim_row, Orphan
    <3>2. old \in [policies: {old.policies}, orphan_claims: Nat, failed: BOOLEAN]
      BY <2>1 DEF Typed
    <3> HIDE DEF new, old
    <3>3. QED
      BY <3>1, <3>2
  <2>3. new.policies = [p \in DOMAIN new.policies |-> new.policies[p]]
    BY <2>1 DEF Typed, ReadClaimRow, add_claim_row, Orphan
  <2>4. \A p \in DOMAIN new.policies : new.policies[p] \in Details
    BY <2>1, ClaimEffect, WithClaimType DEF Typed
  <2>5. DOMAIN new.policies \subseteq PolicyIds
    BY <2>1, ClaimEffect DEF Typed
  <2> HIDE DEF new
  <2>6. QED
    BY <2>2, <2>3, <2>4, <2>5 DEF Typed, new
<1>2. aggregator' = [s \in Invocations |-> aggregator'[s]]
  BY DEF ReadClaimRow
<1>3. claimRows' \in Seq(ClaimRows)
  BY DEF ReadClaimRow, TypeOK
<1>4. QED
  BY <1>1, <1>2, <1>3 DEF TypeOK, Typed, ReadClaimRow

LEMMA TypeOKStep == TypeOK /\ [Next]_vars => TypeOK'
<1> SUFFICES ASSUME TypeOK, [Next]_vars PROVE TypeOK'
  OBVIOUS
<1>1. CASE EndOfSource
  BY <1>1 DEF EndOfSource, TypeOK
<1>2. CASE UNCHANGED vars
  BY <1>2 DEF vars, TypeOK
<1>3. QED
  BY <1>1, <1>2, TypeOKPolicy, TypeOKClaim DEF Next

\* The types are right whatever is in the cells (aggregation.py:77-174).
THEOREM TypesRight == Spec => []TypeOK
BY TypeOKInit, TypeOKStep, PTL DEF Spec
-----------------------------------------------------------------------------
(* The inductive invariant. *)

\* A shard has the policies of its agents that were read, or has given up.
Keeps(s) ==
    /\ IsFiniteSet(PoliciesOf(s))
    /\ IF aggregator[s].failed
       THEN Cardinality(PoliciesOf(s)) > MaxPolicies
       ELSE DOMAIN aggregator[s].policies = PoliciesOf(s) /\ Cardinality(PoliciesOf(s)) <= MaxPolicies

\* What is kept of a policy is from one of its rows in the shard's scope.
From(detail, row) ==
    /\ detail.agent = row.agent /\ detail.premium = to_decimal(row.premium)
    /\ detail.commission = Commission(to_decimal(row.premium), to_decimal(row.rate))

Sourced(s) ==
    \A p \in DOMAIN aggregator[s].policies : \E row \in Range(policyRows) :
        InScope(s, row) /\ row.policy = p /\ From(aggregator[s].policies[p], row)

Claimed(p) == [i \in Claims(p) |-> to_decimal(claimRows[i].claimed)]
Settled(p) == [i \in Claims(p) |-> to_decimal(claimRows[i].settled)]

\* Its claims are those of the rows read.
Counts(s) ==
    ~ aggregator[s].failed => \A p \in DOMAIN aggregator[s].policies :
        /\ aggregator[s].policies[p].claim_count = Cardinality(Claims(p))
        /\ aggregator[s].policies[p].claim_amount = SumFunction(Claimed(p))
        /\ aggregator[s].policies[p].settled_amount = SumFunction(Settled(p))

Accounts(s) == ~ aggregator[s].failed => aggregator[s].orphan_claims = Cardinality(OrphansOf(s))

IInv ==
    /\ TypeOK
    /\ phase = "policies" => claimRows = <<>>
    /\ \A s \in Invocations : Keeps(s) /\ Sourced(s) /\ Counts(s) /\ Accounts(s)

LEMMA NoClaims ==
    ASSUME claimRows = <<>>
    PROVE  /\ \A s : OrphansOf(s) = {}
           /\ \A p : Claims(p) = {} /\ SumFunction(Claimed(p)) = 0 /\ SumFunction(Settled(p)) = 0
<1>1. DOMAIN claimRows = {}
  OBVIOUS
<1>2. (\A s : OrphansOf(s) = {}) /\ \A p : Claims(p) = {}
  BY <1>1 DEF OrphansOf, Claims
<1>3. \A p : DOMAIN Claimed(p) = {} /\ DOMAIN Settled(p) = {}
  BY <1>2 DEF Claimed, Settled
<1>4. QED
  BY <1>2, <1>3, SumOver, SumEmpty

LEMMA InitIInv == Init => IInv
<1> SUFFICES ASSUME Init PROVE IInv
  OBVIOUS
<1>1. ASSUME NEW s \in Invocations PROVE Keeps(s) /\ Sourced(s) /\ Counts(s) /\ Accounts(s)
  <2>1. /\ aggregator[s].policies = <<>> /\ DOMAIN aggregator[s].policies = {}
        /\ aggregator[s].orphan_claims = 0 /\ ~ aggregator[s].failed
    BY DEF Init
  <2>2. PoliciesOf(s) = {} /\ MaxPolicies \in Nat
    BY ConstantsAssumption DEF Init, PoliciesOf, Range
  <2>3. OrphansOf(s) = {}
    BY NoClaims DEF Init
  <2>4. Keeps(s)
    BY <2>1, <2>2, FS_EmptySet DEF Keeps
  <2>5. Accounts(s)
    BY <2>1, <2>3, FS_EmptySet DEF Accounts
  <2>6. QED
    BY <2>1, <2>4, <2>5 DEF Sourced, Counts
<1>2. QED
  BY <1>1, TypeOKInit DEF IInv, Init

LEMMA PolicyRead ==
    ASSUME TypeOK, NEW row \in PolicyRows, ReadPolicyRow(row)
    PROVE  /\ Range(policyRows)' = Range(policyRows) \cup {row}
           /\ \A s, r : InScope(s, r)' <=> InScope(s, r)
           /\ \A s : PoliciesOf(s)' = IF InScope(s, row) THEN PoliciesOf(s) \cup {row.policy} ELSE PoliciesOf(s)
<1>1. Range(policyRows)' = Range(policyRows) \cup {row}
  <2>1. policyRows \in Seq(PolicyRows) /\ policyRows' = Append(policyRows, row)
    BY DEF ReadPolicyRow, TypeOK
  <2>2. /\ DOMAIN policyRows = 1..Len(policyRows) /\ DOMAIN policyRows' = 1..(Len(policyRows) + 1)
        /\ Len(policyRows) \in Nat
        /\ \A i \in 1..Len(policyRows) : policyRows'[i] = policyRows[i]
        /\ policyRows'[Len(policyRows) + 1] = row
    BY <2>1
  <2>3. DOMAIN policyRows' = DOMAIN policyRows \cup {Len(policyRows) + 1}
    BY <2>2
  <2>4. QED
    BY <2>2, <2>3 DEF Range
<1>2. \A s, r : InScope(s, r)' <=> InScope(s, r)
  BY DEF ReadPolicyRow, InScope, Planned
<1>3. QED
  BY <1>1, <1>2 DEF PoliciesOf

LEMMA PolicyIInv ==
    ASSUME IInv, NEW row \in PolicyRows, ReadPolicyRow(row)
    PROVE  IInv'
<1> USE DEF IInv
<1>1. claimRows = <<>> /\ claimRows' = claimRows
  BY DEF ReadPolicyRow
<1>2. ASSUME NEW s \in Invocations PROVE Keeps(s)' /\ Sourced(s)' /\ Counts(s)' /\ Accounts(s)'
  <2> DEFINE old == aggregator[s]
             new == aggregator'[s]
  <2>1. Keeps(s) /\ Sourced(s) /\ Counts(s) /\ Accounts(s)
    OBVIOUS
  <2>2. /\ IsFiniteSet(PoliciesOf(s)) /\ IsFiniteSet(PoliciesOf(s)') /\ Cardinality(PoliciesOf(s)) \in Nat
        /\ Cardinality(PoliciesOf(s)') \in Nat /\ MaxPolicies \in Nat
        /\ Cardinality(PoliciesOf(s)') = IF InScope(s, row) /\ row.policy \notin PoliciesOf(s)
                                  THEN Cardinality(PoliciesOf(s)) + 1 ELSE Cardinality(PoliciesOf(s))
    <3>1. IsFiniteSet(PoliciesOf(s)) /\ Cardinality(PoliciesOf(s)) \in Nat /\ MaxPolicies \in Nat
      BY <2>1, FS_CardinalityType, ConstantsAssumption DEF Keeps
    <3>2. PoliciesOf(s)' = IF InScope(s, row) THEN PoliciesOf(s) \cup {row.policy} ELSE PoliciesOf(s)
      BY PolicyRead
    <3>3. /\ IsFiniteSet(PoliciesOf(s) \cup {row.policy})
          /\ Cardinality(PoliciesOf(s) \cup {row.policy}) = IF row.policy \in PoliciesOf(s)
                                                     THEN Cardinality(PoliciesOf(s)) ELSE Cardinality(PoliciesOf(s)) + 1
      BY <3>1, FS_AddElement
    <3>4. QED
      BY <3>1, <3>2, <3>3
  <2>3. \A p : Claims(p)' = {} /\ SumFunction(Claimed(p))' = 0 /\ SumFunction(Settled(p))' = 0
    BY <1>1, NoClaims DEF Claims, Claimed, Settled
  <2>4. /\ OrphansOf(s) = {} /\ OrphansOf(s)' = {} /\ Cardinality({}) = 0
        /\ \A p : Claims(p) = {} /\ SumFunction(Claimed(p)) = 0 /\ SumFunction(Settled(p)) = 0
    BY <1>1, NoClaims, FS_EmptySet DEF OrphansOf
  <2>5. CASE ~ Remember(s, row)
    <3>1. new = old
      BY <2>5, PolicyEffect
    <3>2. Keeps(s)'
      <4>1. CASE old.failed
        <5>1. Cardinality(PoliciesOf(s)) > MaxPolicies
          BY <2>1, <4>1 DEF Keeps
        <5>2. QED
          BY <2>2, <3>1, <4>1, <5>1 DEF Keeps
      <4>2. CASE ~ old.failed
        <5>1. DOMAIN old.policies = PoliciesOf(s) /\ Cardinality(PoliciesOf(s)) <= MaxPolicies
          BY <2>1, <4>2 DEF Keeps
        <5>2. PoliciesOf(s)' = PoliciesOf(s)
          <6>1. InScope(s, row) => row.policy \in PoliciesOf(s)
            BY <2>5, <4>2, <5>1 DEF Remember
          <6>2. PoliciesOf(s)' = IF InScope(s, row) THEN PoliciesOf(s) \cup {row.policy} ELSE PoliciesOf(s)
            BY PolicyRead
          <6>3. QED
            BY <6>1, <6>2
        <5>3. QED
          BY <2>2, <3>1, <4>2, <5>1, <5>2 DEF Keeps
      <4>3. QED
        BY <4>1, <4>2
    <3>3. Sourced(s)'
      BY <2>1, <3>1, PolicyRead DEF Sourced
    <3>4. Counts(s)'
      BY <2>1, <2>3, <2>4, <3>1 DEF Counts
    <3>5. Accounts(s)'
      BY <2>1, <2>4, <3>1 DEF Accounts
    <3>6. QED
      BY <3>2, <3>3, <3>4, <3>5
  <2>6. CASE Remember(s, row) /\ Full(s)
    <3>1. new.failed /\ new.policies = old.policies
      BY <2>6, PolicyEffect
    <3>2. Keeps(s)'
      BY <2>1, <2>2, <2>6, <3>1, PolicyRead DEF Keeps, Remember, Full
    <3>3. Sourced(s)'
      BY <2>1, <3>1, PolicyRead DEF Sourced
    <3>4. QED
      BY <3>1, <3>2, <3>3 DEF Counts, Accounts
  <2>7. CASE Remember(s, row) /\ ~ Full(s)
    <3> DEFINE q == row.policy
    <3>1. /\ ~ old.failed /\ ~ new.failed /\ InScope(s, row) /\ q \notin DOMAIN old.policies
          /\ new.orphan_claims = old.orphan_claims
          /\ DOMAIN new.policies = DOMAIN old.policies \cup {q}
          /\ \A p \in DOMAIN old.policies : new.policies[p] = old.policies[p]
          /\ new.policies[q] = NewPolicy(row)
      BY <2>7, PolicyEffect DEF Remember
    <3>2. DOMAIN old.policies = PoliciesOf(s) /\ Cardinality(PoliciesOf(s)) < MaxPolicies
      BY <2>1, <2>2, <2>7, <3>1 DEF Keeps, Full
    <3>3. Keeps(s)'
      BY <2>2, <3>1, <3>2, PolicyRead DEF Keeps
    <3>4. /\ NewPolicy(row).agent = row.agent /\ NewPolicy(row).premium = to_decimal(row.premium)
          /\ NewPolicy(row).commission = Commission(to_decimal(row.premium), to_decimal(row.rate))
          /\ NewPolicy(row).claim_count = 0
          /\ NewPolicy(row).claim_amount = 0 /\ NewPolicy(row).settled_amount = 0
      BY DEF NewPolicy
    <3>5. Sourced(s)'
      <4> SUFFICES ASSUME NEW p \in DOMAIN new.policies
                   PROVE  \E r \in Range(policyRows)' :
                              InScope(s, r)' /\ r.policy = p /\ From(new.policies[p], r)
        BY DEF Sourced, From
      <4>1. CASE p = q
        BY <4>1, <3>1, <3>4, PolicyRead DEF From
      <4>2. CASE p # q
        <5>1. p \in DOMAIN old.policies /\ new.policies[p] = old.policies[p]
          BY <3>1, <4>2
        <5>2. QED
          BY <5>1, <2>1, PolicyRead DEF Sourced
      <4>3. QED
        BY <4>1, <4>2
    <3>6. Counts(s)'
      <4> SUFFICES ASSUME NEW p \in DOMAIN new.policies
                   PROVE  /\ new.policies[p].claim_count = 0
                          /\ new.policies[p].claim_amount = 0 /\ new.policies[p].settled_amount = 0
        BY <2>3, <2>4 DEF Counts
      <4>1. CASE p = q
        BY <4>1, <3>1, <3>4
      <4>2. CASE p # q
        <5>1. p \in DOMAIN old.policies /\ new.policies[p] = old.policies[p] /\ ~ old.failed
          BY <3>1, <4>2
        <5>2. /\ old.policies[p].claim_count = Cardinality(Claims(p))
              /\ old.policies[p].claim_amount = SumFunction(Claimed(p))
              /\ old.policies[p].settled_amount = SumFunction(Settled(p))
          BY <2>1, <5>1 DEF Counts
        <5>3. QED
          BY <2>4, <5>1, <5>2
      <4>3. QED
        BY <4>1, <4>2
    <3>7. Accounts(s)'
      BY <2>1, <2>4, <3>1 DEF Accounts
    <3>8. QED
      BY <3>3, <3>5, <3>6, <3>7
  <2>8. QED
    BY <2>5, <2>6, <2>7
<1>3. QED
  BY <1>2, TypeOKStep DEF ReadPolicyRow, Next

LEMMA ClaimRead ==
    ASSUME TypeOK, NEW row \in ClaimRows, ReadClaimRow(row)
    PROVE  LET n == Len(claimRows) + 1 IN
           /\ claimRows'[n] = row
           /\ \A p : /\ IsFiniteSet(Claims(p)) /\ n \notin Claims(p)
                     /\ Claims(p)' = IF row.policy = p THEN Claims(p) \cup {n} ELSE Claims(p)
                     /\ \A i \in Claims(p) : claimRows[i] \in ClaimRows /\ claimRows'[i] = claimRows[i]
           /\ \A s : /\ IsFiniteSet(OrphansOf(s)) /\ n \notin OrphansOf(s)
                     /\ OrphansOf(s)' = IF row.policy \notin PoliciesOf(s) \cup {NoPolicy}
                                        THEN OrphansOf(s) \cup {n} ELSE OrphansOf(s)
<1> DEFINE n == Len(claimRows) + 1
<1>1. claimRows \in Seq(ClaimRows) /\ claimRows' = Append(claimRows, row)
  BY DEF ReadClaimRow, TypeOK
<1>2. /\ DOMAIN claimRows = 1..Len(claimRows) /\ DOMAIN claimRows' = 1..n
      /\ Len(claimRows) \in Nat /\ claimRows'[n] = row
      /\ \A i \in 1..Len(claimRows) : claimRows[i] \in ClaimRows /\ claimRows'[i] = claimRows[i]
  BY <1>1
<1>3. DOMAIN claimRows' = DOMAIN claimRows \cup {n} /\ n \notin DOMAIN claimRows
  BY <1>2
<1>4. IsFiniteSet(DOMAIN claimRows)
  BY <1>2, FS_Interval
<1> HIDE DEF n
<1>5. \A p : /\ IsFiniteSet(Claims(p)) /\ n \notin Claims(p)
             /\ \A i \in Claims(p) : claimRows[i] \in ClaimRows /\ claimRows'[i] = claimRows[i]
  <2>1. \A p : Claims(p) \in SUBSET DOMAIN claimRows
    BY DEF Claims
  <2>2. QED
    BY <1>2, <1>3, <1>4, <2>1, FS_Subset
<1>6. \A p : Claims(p)' = IF row.policy = p THEN Claims(p) \cup {n} ELSE Claims(p)
  BY <1>2, <1>3 DEF Claims
<1>7. \A s : IsFiniteSet(OrphansOf(s)) /\ n \notin OrphansOf(s)
  <2>1. \A s : OrphansOf(s) \in SUBSET DOMAIN claimRows
    BY DEF OrphansOf
  <2>2. QED
    BY <1>3, <1>4, <2>1, FS_Subset
<1>8. ASSUME NEW s
      PROVE  OrphansOf(s)' = IF row.policy \notin PoliciesOf(s) \cup {NoPolicy}
                             THEN OrphansOf(s) \cup {n} ELSE OrphansOf(s)
  <2>1. PoliciesOf(s)' = PoliciesOf(s)
    BY DEF ReadClaimRow, PoliciesOf, InScope, Planned
  <2>2. QED
    BY <1>2, <1>3, <2>1 DEF OrphansOf
<1>9. QED
  BY <1>2, <1>5, <1>6, <1>7, <1>8 DEF n

LEMMA AmountsRead ==
    ASSUME TypeOK, NEW row \in ClaimRows, ReadClaimRow(row)
    PROVE  \A p : IF p = row.policy
                 THEN /\ Cardinality(Claims(p)') = Cardinality(Claims(p)) + 1
                      /\ SumFunction(Claimed(p)') = SumFunction(Claimed(p)) + to_decimal(row.claimed)
                      /\ SumFunction(Settled(p)') = SumFunction(Settled(p)) + to_decimal(row.settled)
                 ELSE Claims(p)' = Claims(p) /\ Claimed(p)' = Claimed(p) /\ Settled(p)' = Settled(p)
<1> TAKE p
<1> DEFINE n == Len(claimRows) + 1
<1>1. /\ claimRows'[n] = row /\ IsFiniteSet(Claims(p)) /\ n \notin Claims(p)
      /\ Claims(p)' = IF row.policy = p THEN Claims(p) \cup {n} ELSE Claims(p)
      /\ \A i \in Claims(p) : claimRows[i] \in ClaimRows /\ claimRows'[i] = claimRows[i]
  BY ClaimRead
<1> HIDE DEF n
<1>2. /\ \A i \in Claims(p) : to_decimal(claimRows[i].claimed) \in Int /\ to_decimal(claimRows[i].settled) \in Int
      /\ to_decimal(row.claimed) \in Int /\ to_decimal(row.settled) \in Int
  <2>1. \A r \in ClaimRows : to_decimal(r.claimed) \in Int /\ to_decimal(r.settled) \in Int
    BY ConstantsAssumption, Decimal
  <2>2. QED
    BY <1>1, <2>1
<1>3. CASE p = row.policy
  <2>1. Cardinality(Claims(p)') = Cardinality(Claims(p)) + 1
    <3>1. IsFiniteSet(Claims(p)) /\ n \notin Claims(p) /\ Claims(p)' = Claims(p) \cup {n}
      BY <1>1, <1>3
    <3>2. QED
      BY <3>1, FS_AddElement
  <2>2. SumFunction(Claimed(p)') = SumFunction(Claimed(p)) + to_decimal(row.claimed)
    <3> DEFINE f == Claimed(p)
               g == Claimed(p)'
    <3>1. /\ DOMAIN f = Claims(p) /\ DOMAIN g = Claims(p) \cup {n}
          /\ \A i \in Claims(p) : f[i] \in Int /\ g[i] = f[i]
          /\ g[n] = to_decimal(row.claimed)
      BY <1>1, <1>2, <1>3 DEF Claimed
    <3> HIDE DEF f, g
    <3>2. QED
      BY <1>1, <1>2, <3>1, SumAdd DEF f, g
  <2>3. SumFunction(Settled(p)') = SumFunction(Settled(p)) + to_decimal(row.settled)
    <3> DEFINE f == Settled(p)
               g == Settled(p)'
    <3>1. /\ DOMAIN f = Claims(p) /\ DOMAIN g = Claims(p) \cup {n}
          /\ \A i \in Claims(p) : f[i] \in Int /\ g[i] = f[i]
          /\ g[n] = to_decimal(row.settled)
      BY <1>1, <1>2, <1>3 DEF Settled
    <3> HIDE DEF f, g
    <3>2. QED
      BY <1>1, <1>2, <3>1, SumAdd DEF f, g
  <2>4. QED
    BY <1>3, <2>1, <2>2, <2>3
<1>4. CASE p # row.policy
  <2>1. Claims(p)' = Claims(p)
    BY <1>1, <1>4
  <2>2. QED
    BY <1>1, <1>4, <2>1 DEF Claimed, Settled
<1>5. QED
  BY <1>3, <1>4

LEMMA ClaimIInv ==
    ASSUME IInv, NEW row \in ClaimRows, ReadClaimRow(row)
    PROVE  IInv'
<1> USE DEF IInv
<1>1. /\ policyRows' = policyRows /\ roster' = roster
      /\ \A s : PoliciesOf(s)' = PoliciesOf(s) /\ \A r : InScope(s, r)' <=> InScope(s, r)
  BY DEF ReadClaimRow, PoliciesOf, InScope, Planned
<1>2. ASSUME NEW s \in Invocations PROVE Keeps(s)' /\ Sourced(s)' /\ Counts(s)' /\ Accounts(s)'
  <2> DEFINE old == aggregator[s]
             new == aggregator'[s]
             q == row.policy
             S == DOMAIN old.policies
  <2>1. Keeps(s) /\ Sourced(s) /\ Counts(s) /\ Accounts(s)
    OBVIOUS
  <2>2. new.failed = old.failed /\ DOMAIN new.policies = S
    BY ClaimEffect
  <2>3. /\ S \subseteq PolicyIds /\ NoPolicy \notin S /\ \A p \in S : old.policies[p] \in Details
        /\ old.orphan_claims \in Nat
    BY DEF TypeOK, PolicyIds
  <2>4. \A p \in S : new.policies[p] = IF p = q /\ ~ old.failed THEN WithClaim(old.policies[p], row)
                                       ELSE old.policies[p]
    BY <2>3, ClaimEffect
  <2>5. \A p \in S : /\ new.policies[p].agent = old.policies[p].agent
                     /\ new.policies[p].premium = old.policies[p].premium
                     /\ new.policies[p].commission = old.policies[p].commission
    BY <2>3, <2>4, WithClaimType
  <2>6. Keeps(s)'
    BY <1>1, <2>1, <2>2 DEF Keeps
  <2>7. Sourced(s)'
    BY <1>1, <2>1, <2>2, <2>5 DEF Sourced, From
  <2>8. CASE old.failed
    BY <2>2, <2>6, <2>7, <2>8 DEF Counts, Accounts
  <2>9. CASE ~ old.failed
    <3>1. Counts(s)'
      <4> SUFFICES ASSUME NEW p \in S
                   PROVE  /\ new.policies[p].claim_count = Cardinality(Claims(p)')
                          /\ new.policies[p].claim_amount = SumFunction(Claimed(p)')
                          /\ new.policies[p].settled_amount = SumFunction(Settled(p)')
        BY <2>2 DEF Counts
      <4>1. /\ old.policies[p].claim_count = Cardinality(Claims(p))
            /\ old.policies[p].claim_amount = SumFunction(Claimed(p))
            /\ old.policies[p].settled_amount = SumFunction(Settled(p))
        BY <2>1, <2>9 DEF Counts
      <4>2. CASE p = q
        BY <4>1, <4>2, <2>3, <2>4, <2>9, WithClaimType, AmountsRead
      <4>3. CASE p # q
        BY <4>1, <4>3, <2>4, AmountsRead
      <4>4. QED
        BY <4>2, <4>3
    <3>2. Accounts(s)'
      <4>1. S = PoliciesOf(s) /\ old.orphan_claims = Cardinality(OrphansOf(s))
        BY <2>1, <2>9 DEF Keeps, Accounts
      <4>2. new.orphan_claims = IF q # NoPolicy /\ q \notin S THEN old.orphan_claims + 1 ELSE old.orphan_claims
        BY <2>9, ClaimEffect
      <4>3. Cardinality(OrphansOf(s)') = IF q # NoPolicy /\ q \notin S
                                         THEN Cardinality(OrphansOf(s)) + 1 ELSE Cardinality(OrphansOf(s))
        <5>1. IsFiniteSet(OrphansOf(s)) /\ Len(claimRows) + 1 \notin OrphansOf(s)
          BY ClaimRead
        <5>2. OrphansOf(s)' = IF q \notin S \cup {NoPolicy}
                              THEN OrphansOf(s) \cup {Len(claimRows) + 1} ELSE OrphansOf(s)
          BY <4>1, ClaimRead
        <5>3. QED
          BY <5>1, <5>2, FS_AddElement
      <4>4. QED
        BY <4>1, <4>2, <4>3 DEF Accounts
    <3>3. QED
      BY <2>6, <2>7, <3>1, <3>2
  <2>10. QED
    BY <2>8, <2>9
<1>3. QED
  BY <1>2, TypeOKStep DEF ReadClaimRow, Next

LEMMA NextIInv == IInv /\ [Next]_vars => IInv'
<1> SUFFICES ASSUME IInv, [Next]_vars PROVE IInv'
  OBVIOUS
<1>1. CASE EndOfSource \/ UNCHANGED vars
  <2>1. /\ policyRows' = policyRows /\ roster' = roster /\ aggregator' = aggregator /\ claimRows' = claimRows
        /\ phase' = "policies" => phase = "policies"
    BY <1>1 DEF EndOfSource, vars
  <2>2. TypeOK'
    BY TypeOKStep DEF IInv
  <2>3. \A s : /\ Keeps(s)' <=> Keeps(s)
               /\ Sourced(s)' <=> Sourced(s)
               /\ Counts(s)' <=> Counts(s)
               /\ Accounts(s)' <=> Accounts(s)
    BY <2>1 DEF Keeps, PoliciesOf, InScope, Planned, Sourced, From, Counts, Claims, Claimed, Settled,
                Accounts, OrphansOf
  <2>4. QED
    BY <2>1, <2>2, <2>3 DEF IInv
<1>2. QED
  BY <1>1, PolicyIInv, ClaimIInv DEF Next

LEMMA SpecIInv == Spec => []IInv
BY InitIInv, NextIInv, PTL DEF Spec
-----------------------------------------------------------------------------
(* What follows from it. *)

\* The guardrail of each shard is exact: a shard gives up when its agents have a policy too many,
\* however many copies of rows it has read (aggregation.py:120-127).
THEOREM GuardrailExact == Spec => []CapacityExact
<1>1. IInv => CapacityExact
  <2> SUFFICES ASSUME IInv, NEW s \in Invocations
               PROVE  aggregator[s].failed <=> Cardinality(PoliciesOf(s)) > MaxPolicies
    BY DEF CapacityExact, PoliciesOf
  <2>1. Keeps(s)
    BY DEF IInv
  <2>2. Cardinality(PoliciesOf(s)) \in Nat /\ MaxPolicies \in Nat
    BY <2>1, FS_CardinalityType, ConstantsAssumption DEF Keeps
  <2>3. QED
    BY <2>1, <2>2 DEF Keeps
<1>2. QED
  BY <1>1, SpecIInv, PTL

\* Each shard counts all the claims of its agents' policies, whichever agents they name, and has
\* the others for orphans (aggregation.py:151-174).
THEOREM ClaimsCounted == Spec => []ClaimsAccounted
<1>1. IInv => ClaimsAccounted
  BY DEF IInv, Keeps, Counts, Accounts, ClaimsAccounted, Complete
<1>2. QED
  BY <1>1, SpecIInv, PTL

\* The shard of an agent.
ShardOf(a) == Position(a, roster) % Shards

LEMMA OneShard ==
    ASSUME TypeOK, NEW a \in roster
    PROVE  /\ ShardOf(a) \in Invocations
           /\ \A s \in Invocations : a \in Planned(s) <=> s = ShardOf(a)
<1>1. Shards \in Nat \ {0} /\ IsFiniteSet(Agents) /\ roster \subseteq Agents
  BY ConstantsAssumption DEF TypeOK
<1>2. Position(a, roster) \in Nat
  <2>1. IsFiniteSet({b \in roster : b < a})
    BY <1>1, FS_Subset
  <2>2. QED
    BY <2>1, FS_CardinalityType DEF Position
<1>3. \A n \in Nat, d \in Nat \ {0} : n % d \in 0..d - 1
  OBVIOUS
<1>4. QED
  BY <1>1, <1>2, <1>3 DEF ShardOf, Invocations, Planned, plan_shards

\* Each policy of the roster is reported, and by no more shards than its rows name agents
\* (aggregation.py:96-149, roster.py:95-106).
THEOREM ReportedOnce == Spec => []PoliciesReportedOnce
<1>1. IInv => PoliciesReportedOnce
  <2> SUFFICES ASSUME IInv, Complete, NEW row \in Range(policyRows), row.policy # NoPolicy, row.agent \in roster
               PROVE  LET named == {r.agent : r \in {q \in Range(policyRows) : q.policy = row.policy}} \cap roster
                          reporters == {s \in Invocations : row.policy \in DOMAIN aggregator[s].policies}
                      IN  /\ reporters # {} /\ Cardinality(reporters) <= Cardinality(named)
                          /\ \A s \in reporters : aggregator[s].policies[row.policy].agent \in named
    BY DEF PoliciesReportedOnce
  <2> DEFINE p == row.policy
             named == {r.agent : r \in {q \in Range(policyRows) : q.policy = p}} \cap roster
             reporters == {s \in Invocations : p \in DOMAIN aggregator[s].policies}
             agent(s) == aggregator[s].policies[p].agent
  <2>1. reporters # {}
    <3>1. ShardOf(row.agent) \in Invocations /\ row.agent \in Planned(ShardOf(row.agent))
      BY OneShard DEF IInv
    <3>2. p \in PoliciesOf(ShardOf(row.agent))
      BY <3>1 DEF PoliciesOf, InScope
    <3>3. DOMAIN aggregator[ShardOf(row.agent)].policies = PoliciesOf(ShardOf(row.agent))
      BY <3>1 DEF IInv, Keeps, Complete
    <3>4. QED
      BY <3>1, <3>2, <3>3
  <2>2. \A s \in reporters : agent(s) \in named /\ s = ShardOf(agent(s))
    <3> SUFFICES ASSUME NEW s \in reporters PROVE agent(s) \in named /\ s = ShardOf(agent(s))
      OBVIOUS
    <3>1. PICK r \in Range(policyRows) : InScope(s, r) /\ r.policy = p /\ agent(s) = r.agent
      BY DEF IInv, Sourced, From
    <3>2. r.agent \in Planned(s) /\ r.agent \in roster
      BY <3>1 DEF InScope, Planned, plan_shards
    <3>3. QED
      BY <3>1, <3>2, OneShard DEF IInv
  <2>3. IsFiniteSet(named)
    <3>1. IsFiniteSet(roster)
      BY ConstantsAssumption, FS_Subset DEF IInv, TypeOK
    <3>2. QED
      BY <3>1, FS_Intersection
  <2> HIDE DEF named, reporters, agent, p
  <2>4. [s \in reporters |-> agent(s)] \in Injection(reporters, named)
    BY <2>2 DEF Injection, IsInjective
  <2>5. Cardinality(reporters) <= Cardinality(named)
    BY <2>3, <2>4, FS_Injection
  <2>6. QED
    BY <2>1, <2>2, <2>5 DEF named, reporters, agent, p
<1>2. QED
  BY <1>1, SpecIInv, PTL
-----------------------------------------------------------------------------
(* The two paths, agent by agent. *)

Row(p) == CHOOSE row \in Joined : row.policy = p
ShardDetails(s, a) ==
    [p \in {q \in DOMAIN aggregator[s].policies : aggregator[s].policies[q].agent = a} |-> aggregator[s].policies[p]]
JobDetails(a) == [p \in {row.policy : row \in {r \in Joined : r.agent = a}} |-> aggregate_details(Row(p))]

\* With identical copies a policy has one row, which the job keeps.
LEMMA OneRow ==
    ASSUME WellFormed
    PROVE  /\ \A r, q \in Range(policyRows) : r.policy = q.policy => r = q
           /\ Joined = {row \in Range(policyRows) : row.agent \in roster}
           /\ \A row \in Joined : Row(row.policy) = row
<1>1. \A r, q \in Range(policyRows) : r.policy = q.policy => r = q
  BY DEF WellFormed, Copies, Range
<1>2. read_policies = Range(policyRows)
  <2>1. \A row \in Range(policyRows) : (CHOOSE r \in Range(policyRows) : r.policy = row.policy) = row
    BY <1>1
  <2>2. QED
    BY <2>1 DEF read_policies
<1>3. Joined = {row \in Range(policyRows) : row.agent \in roster}
  BY <1>2 DEF Joined
<1>4. QED
  BY <1>1, <1>3 DEF Row

\* A record of Details is made of its six fields.
LEMMA SameDetail ==
    ASSUME NEW d \in Details, NEW e, e = [agent |-> e.agent, premium |-> e.premium, commission |-> e.commission,
               claim_count |-> e.claim_count, claim_amount |-> e.claim_amount, settled_amount |-> e.settled_amount],
           d.agent = e.agent, d.premium = e.premium, d.commission = e.commission,
           d.claim_count = e.claim_count, d.claim_amount = e.claim_amount, d.settled_amount = e.settled_amount
    PROVE  d = e
BY DEF Details

\* What a shard keeps of a row is what the job computes from it.
LEMMA SameDetails ==
    ASSUME IInv, WellFormed, Complete, NEW s \in Invocations
    PROVE  /\ DOMAIN aggregator[s].policies = {row.policy : row \in {r \in Joined : r.agent \in Planned(s)}}
           /\ \A row \in Joined : row.agent \in Planned(s) =>
                 /\ aggregator[s].policies[row.policy].agent = row.agent
                 /\ aggregator[s].policies[row.policy] = aggregate_details(row)
<1>1. Planned(s) \subseteq roster
  BY DEF Planned, plan_shards
<1>2. \A row \in Range(policyRows) : InScope(s, row) <=> row \in Joined /\ row.agent \in Planned(s)
  BY <1>1, OneRow DEF InScope, WellFormed
<1>3. DOMAIN aggregator[s].policies = {row.policy : row \in {r \in Joined : r.agent \in Planned(s)}}
  <2>1. DOMAIN aggregator[s].policies = PoliciesOf(s)
    BY DEF IInv, Keeps, Complete
  <2>2. Joined \subseteq Range(policyRows)
    BY OneRow
  <2>3. QED
    BY <1>2, <2>1, <2>2 DEF PoliciesOf
<1>4. ASSUME NEW row \in Joined, row.agent \in Planned(s)
      PROVE  /\ aggregator[s].policies[row.policy].agent = row.agent
             /\ aggregator[s].policies[row.policy] = aggregate_details(row)
  <2> DEFINE p == row.policy
             d == aggregator[s].policies[p]
             e == aggregate_details(row)
  <2>1. p \in DOMAIN aggregator[s].policies /\ row \in Range(policyRows)
    BY <1>3, <1>4, OneRow
  <2>2. d \in Details
    BY <2>1 DEF IInv, TypeOK
  <2>3. PICK r \in Range(policyRows) : InScope(s, r) /\ r.policy = p /\ From(d, r)
    BY <2>1 DEF IInv, Sourced
  <2>4. r = row
    BY <2>1, <2>3, OneRow
  <2>5. to_decimal(row.premium) = row.premium /\ to_decimal(row.rate) = row.rate
    BY <2>1 DEF WellFormed, to_decimal
  <2>6. d.agent = e.agent /\ d.premium = e.premium /\ d.commission = e.commission /\ d.agent = row.agent
    BY <2>3, <2>4, <2>5 DEF From, aggregate_details, Commission
  <2>7. /\ d.claim_count = Cardinality(Claims(p))
        /\ d.claim_amount = SumFunction(Claimed(p)) /\ d.settled_amount = SumFunction(Settled(p))
    BY <2>1 DEF IInv, Counts, Complete
  <2>8. d.claim_count = e.claim_count /\ d.claim_amount = e.claim_amount /\ d.settled_amount = e.settled_amount
    BY <2>7 DEF aggregate_details, Claimed, Settled
  <2>9. e = [agent |-> e.agent, premium |-> e.premium, commission |-> e.commission,
             claim_count |-> e.claim_count, claim_amount |-> e.claim_amount, settled_amount |-> e.settled_amount]
    BY DEF aggregate_details
  <2>10. d = e
    BY <2>2, <2>6, <2>8, <2>9, SameDetail
  <2>11. QED
    BY <2>6, <2>10
<1>5. QED
  BY <1>3, <1>4

\* The agents a shard reports, and what it says of them.
LEMMA SameReport ==
    ASSUME IInv, WellFormed, Complete, NEW s \in Invocations
    PROVE  /\ agents_with_policies(s) = {row.agent : row \in {r \in Joined : r.agent \in Planned(s)}}
           /\ \A a \in agents_with_policies(s) : ShardDetails(s, a) = JobDetails(a)
<1> DEFINE policies == aggregator[s].policies
           Mine == {r \in Joined : r.agent \in Planned(s)}
<1>1. DOMAIN policies = {row.policy : row \in Mine}
  BY SameDetails
<1>2. \A row \in Mine : policies[row.policy].agent = row.agent /\ policies[row.policy] = aggregate_details(row)
  BY SameDetails
<1>3. agents_with_policies(s) = {policies[p].agent : p \in DOMAIN policies}
  BY DEF agents_with_policies
<1> HIDE DEF policies, Mine
<1>4. agents_with_policies(s) = {row.agent : row \in Mine}
  BY <1>1, <1>2, <1>3
<1>5. ASSUME NEW a \in agents_with_policies(s) PROVE ShardDetails(s, a) = JobDetails(a)
  <2> DEFINE kept == {q \in DOMAIN policies : policies[q].agent = a}
             wanted == {row.policy : row \in {r \in Joined : r.agent = a}}
  <2>1. {r \in Joined : r.agent = a} = {r \in Mine : r.agent = a}
    BY <1>4 DEF Mine
  <2>2. kept = wanted
    BY <1>1, <1>2, <2>1
  <2>3. \A p \in kept : policies[p] = aggregate_details(Row(p))
    <3> SUFFICES ASSUME NEW p \in kept PROVE policies[p] = aggregate_details(Row(p))
      OBVIOUS
    <3>1. PICK row \in Mine : row.policy = p
      BY <1>1
    <3>2. Row(p) = row
      BY <3>1, OneRow DEF Mine
    <3>3. QED
      BY <1>2, <3>1, <3>2
  <2>4. ShardDetails(s, a) = [p \in kept |-> policies[p]] /\ JobDetails(a) = [p \in wanted |-> aggregate_details(Row(p))]
    BY DEF ShardDetails, JobDetails, policies
  <2> HIDE DEF kept, wanted
  <2>5. QED
    BY <2>2, <2>3, <2>4
<1>6. QED
  BY <1>4, <1>5 DEF Mine

\* The shards' reports are those of the Spark job, for any rows and any number of shards
\* (aggregation.py:114-197, agent_report_job.py:224-259).
THEOREM SameReports == Spec => []PathsAgree
<1>1. IInv => PathsAgree
  <2> SUFFICES ASSUME IInv, Complete, WellFormed PROVE ChunkerReports = SparkReports
    BY DEF PathsAgree
  <2> DEFINE ByShard(s, a) == <<a, report_for(s, a)>>
             ByJob(a) == <<a, Report(JobDetails(a))>>
             Reported == {row.agent : row \in Joined}
  <2>1. ChunkerReports = UNION {{ByShard(s, a) : a \in agents_with_policies(s)} : s \in Invocations}
    BY DEF ChunkerReports
  <2>2. SparkReports = {ByJob(a) : a \in Reported}
    BY DEF SparkReports, JobDetails, Row
  <2>3. \A s \in Invocations : \A a \in agents_with_policies(s) : ByShard(s, a) = ByJob(a) /\ a \in Reported
    <3>1. \A s, a : report_for(s, a) = Report(ShardDetails(s, a))
      BY DEF report_for, ShardDetails
    <3>2. QED
      BY <3>1, SameReport
  <2>4. \A a \in Reported : \E s \in Invocations : a \in agents_with_policies(s)
    <3> SUFFICES ASSUME NEW row \in Joined
                 PROVE  \E s \in Invocations : row.agent \in agents_with_policies(s)
      OBVIOUS
    <3>1. row.agent \in roster
      BY DEF Joined
    <3>2. ShardOf(row.agent) \in Invocations /\ row.agent \in Planned(ShardOf(row.agent))
      BY <3>1, OneShard DEF IInv
    <3>3. QED
      BY <3>2, SameReport
  <2> HIDE DEF ByShard, ByJob, Reported
  <2>5. QED
    BY <2>1, <2>2, <2>3, <2>4
<1>2. QED
  BY <1>1, SpecIInv, PTL
=============================================================================
