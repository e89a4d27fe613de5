---------------------------- MODULE FanoutProofs ----------------------------
(* Theorems about Fanout for every set of agents and of overlapping        *)
(* invocations, whatever each is asked for, and every batch size and       *)
(* number of attempts that ConstantsAssumption allows.                     *)
EXTENDS Fanout, FiniteSetTheorems, TLAPS

-----------------------------------------------------------------------------
(* Sets of agents. *)

LEMMA AgentSets ==
    ASSUME NEW S \in SUBSET Agents
    PROVE  IsFiniteSet(S) /\ Cardinality(S) \in Nat /\ S \subseteq Nat
BY ConstantsAssumption, FS_Subset, FS_CardinalityType

LEMMA LeastPart == ASSUME NEW n, NEW S PROVE Least(n, S) \subseteq S
BY DEF Least

LEMMA Smaller ==
    ASSUME NEW S \in SUBSET Agents, NEW T \in SUBSET S, NEW a \in S, a \notin T
    PROVE  Cardinality(T) < Cardinality(S)
<1>1. /\ IsFiniteSet(S) /\ Cardinality(S) \in Nat /\ Cardinality(T) \in Nat
  BY AgentSets
<1>2. Cardinality(T) <= Cardinality(S) /\ Cardinality(T) # Cardinality(S)
  BY <1>1, FS_Subset
<1>3. QED
  BY <1>1, <1>2

LEMMA Initial == ASSUME NEW n \in Nat PROVE IsFiniteSet(0..n - 1) /\ Cardinality(0..n - 1) = n
<1>1. IsFiniteSet(0..n - 1) /\ Cardinality(0..n - 1) = IF 0 > n - 1 THEN 0 ELSE (n - 1) - 0 + 1
  BY FS_Interval
<1>2. QED
  BY <1>1

\* The position in a set of agents numbers its members, from 0, without a gap.
Position(S, a) == Cardinality({b \in S : b < a})

LEMMA LeastPositions == ASSUME NEW n, NEW S PROVE Least(n, S) = {a \in S : Position(S, a) < n}
BY DEF Least, Position

LEMMA Positions ==
    ASSUME NEW S \in SUBSET Agents
    PROVE  /\ \A a \in S : Position(S, a) \in 0..Cardinality(S) - 1
           /\ \A a, b \in S : Position(S, a) = Position(S, b) => a = b
           /\ \A k \in 0..Cardinality(S) - 1 : \E a \in S : Position(S, a) = k
<1> DEFINE Below(a) == {b \in S : b < a}
<1> DEFINE position == [a \in S |-> Position(S, a)]
<1> DEFINE T == 0..Cardinality(S) - 1
<1>1. IsFiniteSet(S) /\ Cardinality(S) \in Nat /\ S \subseteq Nat
  BY AgentSets
<1>2. \A a \in S : Position(S, a) \in T
  <2> TAKE a \in S
  <2>1. Below(a) \in SUBSET S /\ a \notin Below(a)
    BY <1>1
  <2>2. Cardinality(Below(a)) < Cardinality(S)
    BY <2>1, Smaller
  <2>3. Cardinality(Below(a)) \in Nat
    BY <2>1, AgentSets
  <2>4. QED
    BY <1>1, <2>2, <2>3 DEF Position
<1>3. \A a, b \in S : a < b => Position(S, a) < Position(S, b)
  <2> SUFFICES ASSUME NEW a \in S, NEW b \in S, a < b
               PROVE  Cardinality(Below(a)) < Cardinality(Below(b))
    BY DEF Position
  <2>1. a \in Nat /\ b \in Nat /\ \A x \in S : x < a => x < b
    BY <1>1
  <2>2. Below(b) \in SUBSET Agents /\ Below(a) \in SUBSET Below(b)
    BY <2>1
  <2>3. a \in Below(b) /\ a \notin Below(a)
    BY <2>1
  <2>4. QED
    BY <2>2, <2>3, Smaller
<1>4. \A a, b \in S : Position(S, a) = Position(S, b) => a = b
  <2> SUFFICES ASSUME NEW a \in S, NEW b \in S, Position(S, a) = Position(S, b)
               PROVE  a = b
    OBVIOUS
  <2>1. Position(S, a) \in Nat /\ Position(S, b) \in Nat
    BY <1>1, <1>2
  <2>2. ~ (a < b) /\ ~ (b < a)
    BY <1>3, <2>1
  <2>3. QED
    BY <1>1, <2>2
<1>5. position \in Injection(S, T)
  BY <1>2, <1>4 DEF Injection, IsInjective
<1>6. IsFiniteSet(T) /\ Cardinality(T) = Cardinality(S)
  BY <1>1, Initial
<1>7. position \in Surjection(S, T)
  BY <1>5, <1>6, FS_Injection
<1>8. \A k \in T : \E a \in S : position[a] = k
  BY <1>7 DEF Surjection
<1>9. QED
  BY <1>2, <1>4, <1>8

LEMMA LeastOne ==
    ASSUME NEW S \in SUBSET Agents, S # {}
    PROVE  \E a \in S : Least(1, S) = {a}
<1>1. IsFiniteSet(S) /\ Cardinality(S) \in Nat /\ Cardinality(S) # 0
  BY AgentSets, FS_EmptySet
<1>2. 0 \in 0..Cardinality(S) - 1
  BY <1>1
<1>3. PICK a \in S : Position(S, a) = 0
  BY <1>2, Positions
<1>4. \A b \in S : Position(S, b) \in Nat /\ (Position(S, b) = 0 => b = a)
  BY <1>1, <1>3, Positions
<1>5. \A b \in S : Position(S, b) < 1 <=> b = a
  BY <1>3, <1>4
<1>6. QED
  BY <1>5, LeastPositions

\* Who is left out of the n least is left out because there are n.
LEMMA LeastFull ==
    ASSUME NEW S \in SUBSET Agents, NEW n \in Nat, NEW a \in S, a \notin Least(n, S)
    PROVE  Cardinality(Least(n, S)) >= n
<1> DEFINE T == 0..n - 1
<1> DEFINE f == [b \in Least(n, S) |-> Position(S, b)]
<1>1. /\ IsFiniteSet(S) /\ Cardinality(S) \in Nat
      /\ Least(n, S) \in SUBSET S /\ IsFiniteSet(Least(n, S)) /\ Cardinality(Least(n, S)) \in Nat
  BY AgentSets, LeastPart
<1>2. \A b \in S : Position(S, b) \in Nat /\ Position(S, b) < Cardinality(S)
  BY <1>1, Positions
<1>3. n <= Position(S, a)
  BY <1>2, LeastPositions
<1>4. \A b \in Least(n, S) : Position(S, b) \in T
  BY <1>2, LeastPositions
<1>5. \A k \in T : \E b \in Least(n, S) : Position(S, b) = k
  <2> TAKE k \in T
  <2>1. k \in 0..Cardinality(S) - 1
    BY <1>1, <1>2, <1>3
  <2>2. PICK b \in S : Position(S, b) = k
    BY <2>1, Positions
  <2>3. QED
    BY <2>2, LeastPositions
<1>6. f \in Surjection(Least(n, S), T)
  BY <1>4, <1>5 DEF Surjection
<1>7. Cardinality(T) = n
  BY Initial
<1>8. QED
  BY <1>1, <1>6, <1>7, FS_Surjection
-----------------------------------------------------------------------------
(* The inductive invariant. *)

\* A target is waiting for its batch, or rejected, or failed, or none of these.
Apart(r) ==
    /\ run[r].todo \subseteq run[r].targets /\ run[r].retries \subseteq run[r].targets
    /\ run[r].failed \subseteq run[r].targets
    /\ run[r].todo \cap run[r].retries = {} /\ run[r].todo \cap run[r].failed = {}
    /\ run[r].retries \cap run[r].failed = {}

\* Nothing is targeted before the plan; what the plan leaves out had no report when it was made,
\* and what it targets still has one unless the day has been emptied.
Plans(r) ==
    /\ run[r].step \in {"new", "list"} => run[r].targets = {} /\ run[r].enqueued = 0
    /\ run[r].targets \subseteq Candidates(r)
    /\ r \in RequireReport \ emptied => run[r].targets \subseteq reports
    /\ run[r].step = "list" => lasting[r] \subseteq reports
    /\ run[r].step \in {"send", "done"} =>
          \A a \in Candidates(r) \ run[r].targets :
              /\ r \in RequireReport /\ a \notin lasting[r]
              /\ a \in run[r].missing \/ Cardinality(run[r].missing) >= MissingKept
    /\ run[r].step = "done" => run[r].todo = {} /\ run[r].retries = {}

\* Messages are those counted and those unheard of, and only targets have any.
Counts(r) ==
    /\ \A a \in Agents : copies[r][a] = unheard[r][a] + (IF a \in Counted(r) THEN 1 ELSE 0)
    /\ \A a \in Agents : unheard[r][a] > 0 => a \in run[r].targets
    /\ run[r].enqueued = Cardinality(Counted(r))

Sound(r) == Apart(r) /\ Plans(r) /\ Counts(r)

\* A manifest is the summary of an invocation that is over.
Manifested == \A m \in manifest : At(m.run, "done") /\ m = Summary(m.run)

IInv == TypeOK /\ (\A r \in Runs : Sound(r)) /\ Manifested
-----------------------------------------------------------------------------
(* What the actions do to an invocation, field by field. *)

\* A step of r leaves the other invocations alone.
Alone(r) == \A q \in Runs \ {r} : run'[q] = run[q]

Steps(r, step) == run'[r].step = step /\ run'[r].missing = run[r].missing /\ run'[r].targets = run[r].targets
Lists(r, todo, retries, failed) ==
    run'[r].todo = todo /\ run'[r].retries = retries /\ run'[r].failed = failed

LEMMA RunTypes ==
    ASSUME TypeOK, NEW r \in Runs
    PROVE  /\ run[r] \in RunStates
           /\ run[r].step \in {"new", "list", "send", "done", "raised", "dead"}
           /\ run[r].targets \in SUBSET Agents /\ run[r].missing \in SUBSET Agents
           /\ run[r].todo \in SUBSET Agents /\ run[r].retries \in SUBSET Agents
           /\ run[r].failed \in SUBSET Agents
           /\ run[r].attempt \in 0..MaxAttempts - 1 /\ run[r].enqueued \in Nat
BY DEF TypeOK, RunStates

LEMMA Updated ==
    ASSUME TypeOK, NEW r \in Runs, NEW s \in RunStates, run' = [run EXCEPT ![r] = s]
    PROVE  run' \in [Runs -> RunStates] /\ Alone(r) /\ run'[r] = s
BY DEF TypeOK, Alone

LEMMA GotoEffect ==
    ASSUME TypeOK, NEW r \in Runs, NEW step \in {"new", "list", "send", "done", "raised", "dead"},
           Goto(r, step)
    PROVE  /\ run' \in [Runs -> RunStates] /\ Alone(r)
           /\ Steps(r, step) /\ Lists(r, run[r].todo, run[r].retries, run[r].failed)
           /\ run'[r].enqueued = run[r].enqueued
<1>1. run \in [Runs -> RunStates] /\ run' = [run EXCEPT ![r] = [run[r] EXCEPT !.step = step]]
  BY DEF TypeOK, Goto
<1>2. [run[r] EXCEPT !.step = step] \in RunStates
  BY <1>1 DEF RunStates
<1>3. run' \in [Runs -> RunStates] /\ run'[r] = [run[r] EXCEPT !.step = step] /\ Alone(r)
  BY <1>1, <1>2 DEF Alone
<1>4. run[r] \in RunStates
  BY <1>1
<1>5. QED
  BY <1>3, <1>4 DEF RunStates, Steps, Lists

LEMMA ListEffect ==
    ASSUME TypeOK, NEW r \in Runs, List(r)
    PROVE  /\ run' \in [Runs -> RunStates] /\ Alone(r)
           /\ run'[r].step = "send" /\ run'[r].targets = Targets(r) /\ run'[r].missing = Missing(r)
           /\ Lists(r, Targets(r), run[r].retries, run[r].failed)
           /\ run'[r].enqueued = run[r].enqueued
<1> DEFINE s == [run[r] EXCEPT !.step = "send", !.targets = Targets(r), !.todo = Targets(r),
                               !.missing = Missing(r)]
<1>1. run[r] \in RunStates
  BY DEF TypeOK
<1>2. Targets(r) \subseteq Agents /\ Missing(r) \subseteq Agents
  BY ConstantsAssumption, LeastPart DEF Targets, Missing, Candidates
<1>3. s \in RunStates
  BY <1>1, <1>2 DEF RunStates
<1>4. /\ s.step = "send" /\ s.targets = Targets(r) /\ s.missing = Missing(r) /\ s.todo = Targets(r)
      /\ s.retries = run[r].retries /\ s.failed = run[r].failed /\ s.enqueued = run[r].enqueued
  BY <1>1 DEF RunStates
<1>5. run' = [run EXCEPT ![r] = s]
  BY DEF List
<1>6. run' \in [Runs -> RunStates] /\ Alone(r) /\ run'[r] = s
  BY <1>3, <1>5, Updated
<1>7. QED
  BY <1>4, <1>6 DEF Lists

LEMMA BatchPart ==
    ASSUME TypeOK, NEW r \in Runs
    PROVE  Batch(r) \subseteq run[r].todo /\ Batch(r) \in SUBSET Agents
BY RunTypes, LeastPart DEF Batch

LEMMA SingleMember ==
    ASSUME TypeOK, NEW r \in Runs, Retrying(r)
    PROVE  \E a \in run[r].retries : Single(r) = {a}
BY RunTypes, LeastOne DEF Single, Retrying

LEMMA BatchAnsweredEffect ==
    ASSUME TypeOK, NEW r \in Runs, NEW rejected \in SUBSET Batch(r),
           run' = [run EXCEPT ![r].todo = @ \ Batch(r), ![r].retries = Rejected(Batch(r), rejected),
                              ![r].attempt = 0,
                              ![r].enqueued = @ + Cardinality(Batch(r) \ rejected)]
    PROVE  /\ run' \in [Runs -> RunStates] /\ Alone(r)
           /\ Steps(r, run[r].step) /\ Lists(r, run[r].todo \ Batch(r), rejected, run[r].failed)
           /\ run'[r].enqueued = run[r].enqueued + Cardinality(Batch(r) \ rejected)
<1> DEFINE n == run[r].enqueued + Cardinality(Batch(r) \ rejected)
<1> DEFINE s == [run[r] EXCEPT !.todo = @ \ Batch(r), !.retries = rejected, !.attempt = 0, !.enqueued = n]
<1>1. run[r] \in RunStates
  BY DEF TypeOK
<1>2. n \in Nat /\ rejected \in SUBSET Agents
  BY RunTypes, BatchPart, AgentSets
<1>3. 0 \in 0..MaxAttempts - 1
  BY ConstantsAssumption
<1> HIDE DEF n
<1>4. s \in RunStates
  BY <1>1, <1>2, <1>3 DEF RunStates
<1>5. /\ s.step = run[r].step /\ s.targets = run[r].targets /\ s.missing = run[r].missing
      /\ s.todo = run[r].todo \ Batch(r) /\ s.retries = rejected /\ s.failed = run[r].failed
      /\ s.enqueued = n
  BY <1>1 DEF RunStates
<1>6. run' = [run EXCEPT ![r] = s]
  BY DEF Rejected, n
<1>7. run' \in [Runs -> RunStates] /\ Alone(r) /\ run'[r] = s
  BY <1>4, <1>6, Updated
<1>8. QED
  BY <1>5, <1>7 DEF Steps, Lists, n

LEMMA SingleAnsweredEffect ==
    ASSUME TypeOK, NEW r \in Runs, SingleAnswered(r)
    PROVE  /\ run' \in [Runs -> RunStates] /\ Alone(r)
           /\ Steps(r, run[r].step) /\ Lists(r, run[r].todo, run[r].retries \ Single(r), run[r].failed)
           /\ run'[r].enqueued = run[r].enqueued + 1
<1> DEFINE n == run[r].enqueued + 1
<1> DEFINE s == [run[r] EXCEPT !.retries = @ \ Single(r), !.attempt = 0, !.enqueued = n]
<1>1. run[r] \in RunStates
  BY DEF TypeOK
<1>2. 0 \in 0..MaxAttempts - 1 /\ n \in Nat
  BY RunTypes, ConstantsAssumption
<1> HIDE DEF n
<1>3. s \in RunStates
  BY <1>1, <1>2 DEF RunStates
<1>4. /\ s.step = run[r].step /\ s.targets = run[r].targets /\ s.missing = run[r].missing
      /\ s.todo = run[r].todo /\ s.retries = run[r].retries \ Single(r) /\ s.failed = run[r].failed
      /\ s.enqueued = n
  BY <1>1 DEF RunStates
<1>5. run' = [run EXCEPT ![r] = s]
  BY DEF SingleAnswered, n
<1>6. run' \in [Runs -> RunStates] /\ Alone(r) /\ run'[r] = s
  BY <1>3, <1>5, Updated
<1>7. QED
  BY <1>4, <1>6 DEF Steps, Lists, n

LEMMA RepeatEffect ==
    ASSUME TypeOK, NEW r \in Runs, NEW S, Repeat(r, S)
    PROVE  /\ run' \in [Runs -> RunStates] /\ Alone(r)
           /\ Steps(r, run[r].step) /\ Lists(r, run[r].todo, run[r].retries, run[r].failed)
           /\ run'[r].enqueued = run[r].enqueued
<1> DEFINE s == [run[r] EXCEPT !.attempt = Attempt(r)]
<1>1. run[r] \in RunStates
  BY DEF TypeOK
<1>2. Attempt(r) \in 0..MaxAttempts - 1
  BY RunTypes, ConstantsAssumption DEF Repeat, AttemptsLeft, Attempt
<1>3. s \in RunStates
  BY <1>1, <1>2 DEF RunStates
<1>4. /\ s.step = run[r].step /\ s.targets = run[r].targets /\ s.missing = run[r].missing
      /\ s.todo = run[r].todo /\ s.retries = run[r].retries /\ s.failed = run[r].failed
      /\ s.enqueued = run[r].enqueued
  BY <1>1 DEF RunStates
<1>5. run' = [run EXCEPT ![r] = s]
  BY DEF Repeat
<1>6. run' \in [Runs -> RunStates] /\ Alone(r) /\ run'[r] = s
  BY <1>3, <1>5, Updated
<1>7. QED
  BY <1>4, <1>6 DEF Steps, Lists

LEMMA SingleGivenUpEffect ==
    ASSUME TypeOK, NEW r \in Runs, SingleGivenUp(r)
    PROVE  /\ run' \in [Runs -> RunStates] /\ Alone(r)
           /\ Steps(r, run[r].step)
           /\ Lists(r, run[r].todo, run[r].retries \ Single(r), run[r].failed \cup Single(r))
           /\ run'[r].enqueued = run[r].enqueued
<1> DEFINE s == [run[r] EXCEPT !.retries = @ \ Single(r), !.attempt = 0, !.failed = @ \cup Single(r)]
<1>1. run[r] \in RunStates
  BY DEF TypeOK
<1>2. 0 \in 0..MaxAttempts - 1 /\ Single(r) \subseteq Agents
  BY RunTypes, LeastPart, ConstantsAssumption DEF Single
<1>3. s \in RunStates
  BY <1>1, <1>2 DEF RunStates
<1>4. /\ s.step = run[r].step /\ s.targets = run[r].targets /\ s.missing = run[r].missing
      /\ s.todo = run[r].todo /\ s.retries = run[r].retries \ Single(r)
      /\ s.failed = run[r].failed \cup Single(r) /\ s.enqueued = run[r].enqueued
  BY <1>1 DEF RunStates
<1>5. run' = [run EXCEPT ![r] = s]
  BY DEF SingleGivenUp
<1>6. run' \in [Runs -> RunStates] /\ Alone(r) /\ run'[r] = s
  BY <1>3, <1>5, Updated
<1>7. QED
  BY <1>4, <1>6 DEF Steps, Lists

\* A message is added for each of a set of agents to the counts of one invocation.
Adds(f, g, r, S) == g = [f EXCEPT ![r] = Plus(@, S)]

LEMMA Added ==
    ASSUME NEW f \in [Runs -> [Agents -> Nat]], NEW r \in Runs, NEW S, NEW g, Adds(f, g, r, S)
    PROVE  /\ g \in [Runs -> [Agents -> Nat]] /\ \A q \in Runs \ {r} : g[q] = f[q]
           /\ \A a \in Agents : g[r][a] = f[r][a] + (IF a \in S THEN 1 ELSE 0)
<1> DEFINE h == Plus(f[r], S)
<1>1. h \in [Agents -> Nat] /\ \A a \in Agents : h[a] = f[r][a] + (IF a \in S THEN 1 ELSE 0)
  BY DEF Plus
<1>2. g = [f EXCEPT ![r] = h]
  BY DEF Adds
<1> HIDE DEF h
<1>3. QED
  BY <1>1, <1>2
-----------------------------------------------------------------------------
(* Every action keeps every invocation sound. *)

LEMMA Disjoint ==
    ASSUME NEW S \in SUBSET Agents, NEW T \in SUBSET Agents, S \cap T = {}
    PROVE  Cardinality(S \cup T) = Cardinality(S) + Cardinality(T)
<1>1. IsFiniteSet(S) /\ IsFiniteSet(T) /\ Cardinality(S) \in Nat /\ Cardinality(T) \in Nat
  BY AgentSets
<1>2. Cardinality(S \cup T) = Cardinality(S) + Cardinality(T) - Cardinality(S \cap T)
  BY <1>1, FS_Union
<1>3. Cardinality(S \cap T) = 0
  BY FS_EmptySet
<1>4. QED
  BY <1>1, <1>2, <1>3

LEMMA CountTypes ==
    ASSUME TypeOK, NEW r \in Runs, NEW a \in Agents
    PROVE  copies[r][a] \in Nat /\ unheard[r][a] \in Nat
BY DEF TypeOK

\* The invocations a step leaves alone.
LEMMA ElsewhereSound ==
    ASSUME TypeOK, NEW q \in Runs, Sound(q), reports \subseteq reports', run'[q] = run[q],
           copies'[q] = copies[q], unheard'[q] = unheard[q], lasting'[q] = lasting[q],
           emptied' = emptied
    PROVE  Sound(q)'
<1>1. Apart(q)'
  BY DEF Sound, Apart
<1>2. Plans(q)'
  BY DEF Sound, Plans, Candidates
<1>3. Counts(q)'
  BY DEF Sound, Counts, Counted
<1>4. QED
  BY <1>1, <1>2, <1>3 DEF Sound

\* Targets stay where they are; at most, a message of those in S is stored unheard of.
Stays(r, step, S) ==
    /\ Steps(r, step) /\ Lists(r, run[r].todo, run[r].retries, run[r].failed)
    /\ run'[r].enqueued = run[r].enqueued
    /\ \A a \in Agents : copies'[r][a] = copies[r][a] + (IF a \in S THEN 1 ELSE 0)
    /\ \A a \in Agents : unheard'[r][a] = unheard[r][a] + (IF a \in S THEN 1 ELSE 0)
    /\ S \subseteq run[r].targets /\ reports' = reports /\ emptied' = emptied
    /\ \/ step = run[r].step /\ lasting'[r] = lasting[r]
       \/ step = "list" /\ run[r].step = "new" /\ lasting'[r] \subseteq reports
       \/ step = "done" /\ run[r].step = "send" /\ run[r].todo = {} /\ run[r].retries = {}
          /\ lasting'[r] = lasting[r]
       \/ step \in {"raised", "dead"}

LEMMA UnmovedSound ==
    ASSUME TypeOK, NEW r \in Runs, Sound(r), NEW step, NEW S, Stays(r, step, S)
    PROVE  Sound(r)'
<1>1. Apart(r)'
  BY DEF Stays, Sound, Apart, Steps, Lists
<1>2. Plans(r)'
  BY DEF Stays, Sound, Plans, Candidates, Steps, Lists
<1>3. Counted(r)' = Counted(r)
  BY DEF Stays, Counted, Steps, Lists
<1>4. Counts(r)'
  <2>1. \A a \in Agents : copies'[r][a] = unheard'[r][a] + (IF a \in Counted(r) THEN 1 ELSE 0)
    BY CountTypes DEF Stays, Sound, Counts
  <2>2. \A a \in Agents : unheard'[r][a] > 0 => a \in run[r].targets
    BY CountTypes DEF Stays, Sound, Counts
  <2>3. QED
    BY <1>3, <2>1, <2>2 DEF Stays, Sound, Counts, Steps
<1>5. QED
  BY <1>1, <1>2, <1>4 DEF Sound

\* Nothing was targeted before, so nothing has been sent.
LEMMA ListSound ==
    ASSUME TypeOK, NEW r \in Runs, Sound(r), List(r)
    PROVE  Sound(r)'
<1>1. /\ run[r].targets = {} /\ run[r].enqueued = 0 /\ run[r].retries = {} /\ run[r].failed = {}
  BY DEF Sound, Plans, Apart, List, At
<1>2. /\ run'[r].step = "send" /\ run'[r].targets = Targets(r) /\ run'[r].missing = Missing(r)
      /\ run'[r].todo = Targets(r) /\ run'[r].retries = {} /\ run'[r].failed = {}
      /\ run'[r].enqueued = 0
  BY <1>1, ListEffect DEF Lists
<1>3. reports' = reports /\ copies' = copies /\ unheard' = unheard
      /\ lasting' = lasting /\ emptied' = emptied
  BY DEF List, history
<1>4. Apart(r)'
  BY <1>2 DEF Apart
<1>5. Plans(r)'
  <2>1. lasting[r] \subseteq reports
    BY DEF Sound, Plans, List, At
  <2>2. Targets(r) \subseteq Candidates(r) /\ (r \in RequireReport => Targets(r) \subseteq reports)
    BY DEF Targets
  <2>3. \A a \in Candidates(r) \ Targets(r) :
            /\ r \in RequireReport /\ a \notin lasting[r]
            /\ a \in Missing(r) \/ Cardinality(Missing(r)) >= MissingKept
    <3> TAKE a \in Candidates(r) \ Targets(r)
    <3>1. r \in RequireReport /\ a \notin lasting[r] /\ a \in Candidates(r) \ reports
      BY <2>1 DEF Targets
    <3>2. Candidates(r) \ reports \in SUBSET Agents
      BY ConstantsAssumption DEF Candidates
    <3>3. QED
      BY <3>1, <3>2, LeastFull, ConstantsAssumption DEF Missing
  <2>4. Candidates(r)' = Candidates(r)
    BY DEF Candidates
  <2>5. QED
    BY <1>2, <1>3, <2>1, <2>2, <2>3, <2>4 DEF Plans
<1>6. Counted(r) = {} /\ Counted(r)' = {}
  BY <1>1, <1>2 DEF Counted
<1>7. \A a \in Agents : unheard[r][a] = 0 /\ copies[r][a] = 0
  BY <1>1, <1>6, CountTypes DEF Sound, Counts
<1>8. Counts(r)'
  BY <1>2, <1>3, <1>6, <1>7, FS_EmptySet DEF Counts
<1>9. QED
  BY <1>4, <1>5, <1>8 DEF Sound

\* Targets leave todo or retries for retries or failed, or by being counted; S are the ones a
\* message of which is stored unheard of.
Moves(r, todo, retries, failed, counted, S) ==
    /\ run[r].step = "send" /\ Steps(r, run[r].step) /\ Lists(r, todo, retries, failed)
    /\ todo \subseteq run[r].todo /\ failed \subseteq run[r].targets /\ retries \subseteq run[r].targets
    /\ todo \cap retries = {} /\ todo \cap failed = {} /\ retries \cap failed = {}
    /\ run[r].targets \ (todo \cup retries \cup failed) = Counted(r) \cup counted
    /\ counted \subseteq run[r].targets /\ Counted(r) \cap counted = {}
    /\ run'[r].enqueued = run[r].enqueued + Cardinality(counted)
    /\ \A a \in Agents : copies'[r][a] = copies[r][a] + (IF a \in S \cup counted THEN 1 ELSE 0)
    /\ \A a \in Agents : unheard'[r][a] = unheard[r][a] + (IF a \in S THEN 1 ELSE 0)
    /\ S \subseteq run[r].targets /\ S \cap counted = {}
    /\ reports' = reports /\ lasting' = lasting /\ emptied' = emptied

LEMMA MovedSound ==
    ASSUME TypeOK, NEW r \in Runs, Sound(r),
           NEW todo, NEW retries, NEW failed, NEW counted, NEW S,
           Moves(r, todo, retries, failed, counted, S)
    PROVE  Sound(r)'
<1>1. Apart(r)'
  BY DEF Moves, Sound, Apart, Steps, Lists
<1>2. Plans(r)'
  BY DEF Moves, Sound, Plans, Candidates, Steps, Lists
<1>3. Counted(r)' = Counted(r) \cup counted
  BY DEF Moves, Counted, Steps, Lists
<1>4. Counts(r)'
  <2>1. \A a \in Agents :
            copies'[r][a] = unheard'[r][a] + (IF a \in Counted(r) \cup counted THEN 1 ELSE 0)
    BY CountTypes DEF Moves, Sound, Counts
  <2>2. \A a \in Agents : unheard'[r][a] > 0 => a \in run[r].targets
    BY CountTypes DEF Moves, Sound, Counts
  <2>3. Counted(r) \in SUBSET Agents /\ counted \in SUBSET Agents
    BY RunTypes DEF Moves, Counted
  <2>4. run'[r].enqueued = Cardinality(Counted(r) \cup counted)
    BY <2>3, Disjoint DEF Moves, Sound, Counts
  <2>5. QED
    BY <1>3, <2>1, <2>2, <2>4 DEF Moves, Counts, Steps
<1>5. QED
  BY <1>1, <1>2, <1>4 DEF Sound

\* What the answered and failed sends of r leave of the rest.
LEMMA BatchingTypes ==
    ASSUME TypeOK, NEW r \in Runs, Sound(r), Batching(r)
    PROVE  run[r].step = "send" /\ run[r].retries = {} /\ Batch(r) \subseteq run[r].todo
           /\ Batch(r) \subseteq run[r].targets
BY BatchPart DEF Batching, At, Sound, Apart

LEMMA RetryingTypes ==
    ASSUME TypeOK, NEW r \in Runs, Sound(r), Retrying(r)
    PROVE  run[r].step = "send" /\ Single(r) \subseteq run[r].retries /\ Single(r) \subseteq run[r].targets
BY LeastPart DEF Retrying, At, Single, Sound, Apart

LEMMA StoreEffect ==
    ASSUME TypeOK, NEW r \in Runs, NEW S, Store(r, S)
    PROVE  /\ copies' \in [Runs -> [Agents -> Nat]] /\ \A q \in Runs \ {r} : copies'[q] = copies[q]
           /\ \A a \in Agents : copies'[r][a] = copies[r][a] + (IF a \in S THEN 1 ELSE 0)
<1>1. Adds(copies, copies', r, S) /\ copies \in [Runs -> [Agents -> Nat]]
  BY DEF Store, Adds, TypeOK
<1>2. QED
  BY <1>1, Added

LEMMA UnheardEffect ==
    ASSUME TypeOK, NEW r \in Runs, NEW S, unheard' = [unheard EXCEPT ![r] = Plus(@, S)]
    PROVE  /\ unheard' \in [Runs -> [Agents -> Nat]] /\ \A q \in Runs \ {r} : unheard'[q] = unheard[q]
           /\ \A a \in Agents : unheard'[r][a] = unheard[r][a] + (IF a \in S THEN 1 ELSE 0)
<1>1. Adds(unheard, unheard', r, S) /\ unheard \in [Runs -> [Agents -> Nat]]
  BY DEF Adds, TypeOK
<1>2. QED
  BY <1>1, Added

\* What every step of r keeps, apart from r's own invocation.
Kept(r) ==
    /\ run' \in [Runs -> RunStates] /\ Alone(r)
    /\ copies' \in [Runs -> [Agents -> Nat]] /\ unheard' \in [Runs -> [Agents -> Nat]]
    /\ lasting' \in [Runs -> SUBSET Agents] /\ emptied' = emptied /\ reports' = reports
    /\ \A q \in Runs \ {r} : copies'[q] = copies[q] /\ unheard'[q] = unheard[q] /\ lasting'[q] = lasting[q]

LEMMA BatchAnsweredSound ==
    ASSUME TypeOK, NEW r \in Runs, Sound(r), BatchAnswered(r)
    PROVE  Sound(r)' /\ Kept(r) /\ manifest' = manifest
<1>1. PICK rejected \in SUBSET Batch(r) :
          /\ Store(r, Batch(r) \ rejected)
          /\ run' = [run EXCEPT ![r].todo = @ \ Batch(r),
                                ![r].retries = Rejected(Batch(r), rejected),
                                ![r].attempt = 0,
                                ![r].enqueued = @ + Cardinality(Batch(r) \ rejected)]
  BY DEF BatchAnswered
<1> DEFINE counted == Batch(r) \ rejected
<1>2. /\ reports' = reports /\ manifest' = manifest /\ unheard' = unheard
      /\ lasting' = lasting /\ emptied' = emptied
      /\ run[r].step = "send" /\ run[r].retries = {}
      /\ Batch(r) \subseteq run[r].todo /\ Batch(r) \subseteq run[r].targets
  BY BatchingTypes DEF BatchAnswered, history
<1>3. /\ run' \in [Runs -> RunStates] /\ Alone(r)
      /\ Steps(r, run[r].step) /\ Lists(r, run[r].todo \ Batch(r), rejected, run[r].failed)
      /\ run'[r].enqueued = run[r].enqueued + Cardinality(counted)
  BY <1>1, BatchAnsweredEffect
<1>4. /\ copies' \in [Runs -> [Agents -> Nat]] /\ \A q \in Runs \ {r} : copies'[q] = copies[q]
      /\ \A a \in Agents : copies'[r][a] = copies[r][a] + (IF a \in counted THEN 1 ELSE 0)
  BY <1>1, StoreEffect
<1>5. Kept(r)
  BY <1>2, <1>3, <1>4 DEF Kept, TypeOK
<1>6. /\ run[r].todo \ Batch(r) \subseteq run[r].todo /\ rejected \subseteq run[r].targets
      /\ run[r].failed \subseteq run[r].targets /\ (run[r].todo \ Batch(r)) \cap rejected = {}
      /\ (run[r].todo \ Batch(r)) \cap run[r].failed = {} /\ rejected \cap run[r].failed = {}
      /\ run[r].targets \ ((run[r].todo \ Batch(r)) \cup rejected \cup run[r].failed)
            = Counted(r) \cup counted
      /\ counted \subseteq run[r].targets /\ Counted(r) \cap counted = {}
  BY <1>2 DEF Sound, Apart, Counted
<1>7. \A a \in Agents : unheard'[r][a] = unheard[r][a] + (IF a \in {} THEN 1 ELSE 0)
  BY <1>2, CountTypes
<1>8. \A a \in Agents : copies'[r][a] = copies[r][a] + (IF a \in {} \cup counted THEN 1 ELSE 0)
  BY <1>4
<1> HIDE DEF counted
<1>9. Moves(r, run[r].todo \ Batch(r), rejected, run[r].failed, counted, {})
  BY <1>2, <1>3, <1>6, <1>7, <1>8 DEF Moves
<1>10. QED
  BY <1>2, <1>5, <1>9, MovedSound

LEMMA SingleAnsweredSound ==
    ASSUME TypeOK, NEW r \in Runs, Sound(r), SingleAnswered(r)
    PROVE  Sound(r)' /\ Kept(r) /\ manifest' = manifest
<1> DEFINE counted == Single(r)
<1>1. /\ reports' = reports /\ manifest' = manifest /\ unheard' = unheard
      /\ lasting' = lasting /\ emptied' = emptied
      /\ run[r].step = "send" /\ counted \subseteq run[r].retries /\ counted \subseteq run[r].targets
  BY RetryingTypes DEF SingleAnswered, history
<1>2. Cardinality(counted) = 1
  BY SingleMember, FS_Singleton DEF SingleAnswered
<1>3. /\ run' \in [Runs -> RunStates] /\ Alone(r)
      /\ Steps(r, run[r].step) /\ Lists(r, run[r].todo, run[r].retries \ counted, run[r].failed)
      /\ run'[r].enqueued = run[r].enqueued + Cardinality(counted)
  BY <1>2, SingleAnsweredEffect
<1>4. /\ copies' \in [Runs -> [Agents -> Nat]] /\ \A q \in Runs \ {r} : copies'[q] = copies[q]
      /\ \A a \in Agents : copies'[r][a] = copies[r][a] + (IF a \in counted THEN 1 ELSE 0)
  BY StoreEffect DEF SingleAnswered
<1>5. Kept(r)
  BY <1>1, <1>3, <1>4 DEF Kept, TypeOK
<1>6. /\ run[r].failed \subseteq run[r].targets /\ run[r].retries \ counted \subseteq run[r].targets
      /\ run[r].todo \cap (run[r].retries \ counted) = {}
      /\ run[r].todo \cap run[r].failed = {} /\ (run[r].retries \ counted) \cap run[r].failed = {}
      /\ run[r].targets \ (run[r].todo \cup (run[r].retries \ counted) \cup run[r].failed)
            = Counted(r) \cup counted
      /\ Counted(r) \cap counted = {}
  BY <1>1 DEF Sound, Apart, Counted
<1>7. \A a \in Agents : unheard'[r][a] = unheard[r][a] + (IF a \in {} THEN 1 ELSE 0)
  BY <1>1, CountTypes
<1>8. \A a \in Agents : copies'[r][a] = copies[r][a] + (IF a \in {} \cup counted THEN 1 ELSE 0)
  BY <1>4
<1> HIDE DEF counted
<1>9. Moves(r, run[r].todo, run[r].retries \ counted, run[r].failed, counted, {})
  BY <1>1, <1>3, <1>6, <1>7, <1>8 DEF Moves
<1>10. QED
  BY <1>1, <1>5, <1>9, MovedSound

LEMMA SingleGivenUpSound ==
    ASSUME TypeOK, NEW r \in Runs, Sound(r), SingleGivenUp(r)
    PROVE  Sound(r)' /\ Kept(r) /\ manifest' = manifest
<1>1. PICK S \in SUBSET Single(r) : GivesUp(r, S)
  BY DEF SingleGivenUp
<1>2. /\ reports' = reports /\ manifest' = manifest /\ lasting' = lasting /\ emptied' = emptied
      /\ run[r].step = "send" /\ Single(r) \subseteq run[r].retries /\ S \in SUBSET run[r].targets
  BY <1>1, RetryingTypes DEF SingleGivenUp, GivesUp, history
<1>3. /\ run' \in [Runs -> RunStates] /\ Alone(r) /\ Steps(r, run[r].step)
      /\ Lists(r, run[r].todo, run[r].retries \ Single(r), run[r].failed \cup Single(r))
      /\ run'[r].enqueued = run[r].enqueued
  BY SingleGivenUpEffect
<1>4. /\ copies' \in [Runs -> [Agents -> Nat]] /\ \A q \in Runs \ {r} : copies'[q] = copies[q]
      /\ \A a \in Agents : copies'[r][a] = copies[r][a] + (IF a \in S THEN 1 ELSE 0)
  BY <1>1, StoreEffect DEF GivesUp
<1>5. /\ unheard' \in [Runs -> [Agents -> Nat]] /\ \A q \in Runs \ {r} : unheard'[q] = unheard[q]
      /\ \A a \in Agents : unheard'[r][a] = unheard[r][a] + (IF a \in S THEN 1 ELSE 0)
  BY <1>1, UnheardEffect DEF GivesUp
<1>6. Kept(r)
  BY <1>2, <1>3, <1>4, <1>5 DEF Kept, TypeOK
<1>7. /\ run[r].failed \cup Single(r) \subseteq run[r].targets
      /\ run[r].retries \ Single(r) \subseteq run[r].targets
      /\ run[r].todo \cap (run[r].retries \ Single(r)) = {}
      /\ run[r].todo \cap (run[r].failed \cup Single(r)) = {}
      /\ (run[r].retries \ Single(r)) \cap (run[r].failed \cup Single(r)) = {}
      /\ run[r].targets \ (run[r].todo \cup (run[r].retries \ Single(r)) \cup (run[r].failed \cup Single(r)))
            = Counted(r) \cup {}
  BY <1>2 DEF Sound, Apart, Counted
<1>8. run'[r].enqueued = run[r].enqueued + Cardinality({})
  BY <1>3, RunTypes, FS_EmptySet
<1>9. \A a \in Agents : copies'[r][a] = copies[r][a] + (IF a \in S \cup {} THEN 1 ELSE 0)
  BY <1>4
<1>10. Moves(r, run[r].todo, run[r].retries \ Single(r), run[r].failed \cup Single(r), {}, S)
  BY <1>2, <1>3, <1>5, <1>7, <1>8, <1>9 DEF Moves
<1>11. QED
  BY <1>2, <1>6, <1>10, MovedSound

\* The two counts when nothing is stored.
LEMMA NothingStored ==
    ASSUME TypeOK, NEW r \in Runs, copies' = copies, unheard' = unheard
    PROVE  /\ \A a \in Agents : copies'[r][a] = copies[r][a] + (IF a \in {} THEN 1 ELSE 0)
           /\ \A a \in Agents : unheard'[r][a] = unheard[r][a] + (IF a \in {} THEN 1 ELSE 0)
BY CountTypes

LEMMA StartSound ==
    ASSUME TypeOK, NEW r \in Runs, Sound(r), Start(r)
    PROVE  Sound(r)' /\ Kept(r) /\ manifest' = manifest
<1>1. /\ run[r].step = "new" /\ Goto(r, "list") /\ lasting' = [lasting EXCEPT ![r] = reports]
      /\ emptied' = emptied /\ reports' = reports /\ copies' = copies /\ manifest' = manifest /\ unheard' = unheard
  BY DEF Start, At
<1>2. /\ run' \in [Runs -> RunStates] /\ Alone(r) /\ Steps(r, "list")
      /\ Lists(r, run[r].todo, run[r].retries, run[r].failed) /\ run'[r].enqueued = run[r].enqueued
  BY <1>1, GotoEffect
<1>3. /\ lasting' \in [Runs -> SUBSET Agents] /\ lasting'[r] = reports
      /\ \A q \in Runs \ {r} : lasting'[q] = lasting[q]
  BY <1>1 DEF TypeOK
<1>4. Stays(r, "list", {})
  BY <1>1, <1>2, <1>3, NothingStored DEF Stays
<1>5. Kept(r)
  BY <1>1, <1>2, <1>3 DEF Kept, TypeOK
<1>6. QED
  BY <1>1, <1>4, <1>5, UnmovedSound

\* The other steps that only move the invocation on.
LEMMA EndSound ==
    ASSUME TypeOK, NEW r \in Runs, Sound(r), NEW step \in {"done", "raised", "dead"}, Goto(r, step),
           UNCHANGED <<reports, copies, unheard, history>>,
           step = "done" => run[r].step = "send" /\ run[r].todo = {} /\ run[r].retries = {}
    PROVE  Sound(r)' /\ Kept(r)
<1>1. /\ run' \in [Runs -> RunStates] /\ Alone(r) /\ Steps(r, step)
      /\ Lists(r, run[r].todo, run[r].retries, run[r].failed) /\ run'[r].enqueued = run[r].enqueued
  BY GotoEffect
<1>2. lasting' = lasting /\ emptied' = emptied /\ reports' = reports
  BY DEF history
<1>3. Stays(r, step, {})
  BY <1>1, <1>2, NothingStored DEF Stays
<1>4. Kept(r)
  BY <1>1, <1>2 DEF Kept, TypeOK
<1>5. QED
  BY <1>3, <1>4, UnmovedSound

\* The failed calls after which the invocation's lists are what they were.
LEMMA FailedCallSound ==
    ASSUME TypeOK, NEW r \in Runs, Sound(r), NEW S, S \subseteq run[r].targets, NEW step,
           step = run[r].step \/ step = "raised",
           run' \in [Runs -> RunStates], Alone(r), Steps(r, step),
           Lists(r, run[r].todo, run[r].retries, run[r].failed), run'[r].enqueued = run[r].enqueued,
           Store(r, S), unheard' = [unheard EXCEPT ![r] = Plus(@, S)],
           UNCHANGED <<reports, history>>
    PROVE  Sound(r)' /\ Kept(r)
<1>1. /\ copies' \in [Runs -> [Agents -> Nat]] /\ \A q \in Runs \ {r} : copies'[q] = copies[q]
      /\ \A a \in Agents : copies'[r][a] = copies[r][a] + (IF a \in S THEN 1 ELSE 0)
  BY StoreEffect
<1>2. /\ unheard' \in [Runs -> [Agents -> Nat]] /\ \A q \in Runs \ {r} : unheard'[q] = unheard[q]
      /\ \A a \in Agents : unheard'[r][a] = unheard[r][a] + (IF a \in S THEN 1 ELSE 0)
  BY UnheardEffect
<1>3. lasting' = lasting /\ emptied' = emptied /\ reports' = reports
  BY DEF history
<1>4. Stays(r, step, S)
  BY <1>1, <1>2, <1>3 DEF Stays
<1>5. Kept(r)
  BY <1>1, <1>2, <1>3 DEF Kept, TypeOK
<1>6. QED
  BY <1>4, <1>5, UnmovedSound

LEMMA RepeatSound ==
    ASSUME TypeOK, NEW r \in Runs, Sound(r), NEW S, S \subseteq run[r].targets, Repeat(r, S)
    PROVE  Sound(r)' /\ Kept(r) /\ manifest' = manifest
<1>1. /\ run' \in [Runs -> RunStates] /\ Alone(r) /\ Steps(r, run[r].step)
      /\ Lists(r, run[r].todo, run[r].retries, run[r].failed) /\ run'[r].enqueued = run[r].enqueued
  BY RepeatEffect
<1>2. Store(r, S) /\ unheard' = [unheard EXCEPT ![r] = Plus(@, S)] /\ UNCHANGED <<reports, manifest, history>>
  BY DEF Repeat
<1>3. QED
  BY <1>1, <1>2, FailedCallSound

LEMMA BatchGivenUpSound ==
    ASSUME TypeOK, NEW r \in Runs, Sound(r), BatchGivenUp(r)
    PROVE  Sound(r)' /\ Kept(r) /\ manifest' = manifest
<1>1. PICK S \in SUBSET Batch(r) : GivesUp(r, S)
  BY DEF BatchGivenUp
<1>2. /\ run' \in [Runs -> RunStates] /\ Alone(r) /\ Steps(r, "raised")
      /\ Lists(r, run[r].todo, run[r].retries, run[r].failed) /\ run'[r].enqueued = run[r].enqueued
  BY GotoEffect DEF BatchGivenUp
<1>3. Store(r, S) /\ unheard' = [unheard EXCEPT ![r] = Plus(@, S)] /\ UNCHANGED <<reports, manifest, history>>
  BY <1>1 DEF GivesUp
<1>4. S \subseteq run[r].targets
  BY BatchingTypes DEF BatchGivenUp
<1>5. QED
  BY <1>2, <1>3, <1>4, FailedCallSound

LEMMA StepSound ==
    ASSUME TypeOK, NEW r \in Runs, Sound(r), Proceed(r) \/ Die(r)
    PROVE  /\ Sound(r)' /\ Kept(r) /\ ~ At(r, "done")
           /\ manifest' = manifest \/ WriteManifest(r)
<1>1. CASE Start(r)
  BY <1>1, StartSound DEF Start, At
<1>2. CASE List(r)
  <2>1. Sound(r)'
    BY <1>2, ListSound
  <2>2. Kept(r) /\ manifest' = manifest
    BY <1>2, ListEffect DEF List, Kept, TypeOK, history
  <2>3. QED
    BY <1>2, <2>1, <2>2 DEF List, At
<1>3. CASE Raise(r)
  BY <1>3, EndSound DEF Raise, At
<1>4. CASE WriteManifest(r)
  BY <1>4, EndSound DEF WriteManifest, At
<1>5. CASE BatchAnswered(r)
  BY <1>5, BatchAnsweredSound DEF BatchAnswered, Batching, At
<1>6. CASE BatchRepeated(r)
  <2>1. PICK S \in SUBSET Batch(r) : Repeat(r, S)
    BY <1>6 DEF BatchRepeated
  <2>2. S \subseteq run[r].targets /\ run[r].step = "send"
    BY <1>6, BatchingTypes DEF BatchRepeated
  <2>3. QED
    BY <2>1, <2>2, RepeatSound DEF At
<1>7. CASE BatchGivenUp(r)
  BY <1>7, BatchGivenUpSound DEF BatchGivenUp, Batching, At
<1>8. CASE SingleAnswered(r)
  BY <1>8, SingleAnsweredSound DEF SingleAnswered, Retrying, At
<1>9. CASE SingleRepeated(r)
  <2>1. PICK S \in SUBSET Single(r) : Repeat(r, S)
    BY <1>9 DEF SingleRepeated
  <2>2. S \subseteq run[r].targets /\ run[r].step = "send"
    BY <1>9, RetryingTypes DEF SingleRepeated
  <2>3. QED
    BY <2>1, <2>2, RepeatSound DEF At
<1>10. CASE SingleGivenUp(r)
  BY <1>10, SingleGivenUpSound DEF SingleGivenUp, Retrying, At
<1>11. CASE Die(r)
  BY <1>11, EndSound DEF Die, Ended, At
<1>12. QED
  BY <1>1, <1>2, <1>3, <1>4, <1>5, <1>6, <1>7, <1>8, <1>9, <1>10, <1>11 DEF Proceed

LEMMA SummaryType ==
    ASSUME TypeOK, NEW r \in Runs
    PROVE  Summary(r) \in Manifests
BY RunTypes, AgentSets DEF Summary, Manifests

LEMMA StepManifested ==
    ASSUME IInv, NEW r \in Runs, Proceed(r) \/ Die(r)
    PROVE  manifest' \subseteq Manifests /\ Manifested'
<1>1. /\ Kept(r) /\ ~ At(r, "done") /\ (manifest' = manifest \/ WriteManifest(r))
  BY StepSound DEF IInv
<1>2. CASE manifest' = manifest
  <2>1. \A m \in manifest : m.run \in Runs \ {r}
    BY <1>1 DEF IInv, TypeOK, Manifests, Manifested
  <2>2. \A m \in manifest : run'[m.run] = run[m.run]
    BY <1>1, <2>1 DEF Kept, Alone
  <2>3. Manifested'
    BY <1>2, <2>2 DEF IInv, Manifested, At, Summary
  <2>4. QED
    BY <1>2, <2>3 DEF IInv, TypeOK
<1>3. CASE WriteManifest(r)
  <2>1. manifest' = {Summary(r)} /\ Goto(r, "done")
    BY <1>3 DEF WriteManifest
  <2>2. /\ Steps(r, "done") /\ Lists(r, run[r].todo, run[r].retries, run[r].failed)
        /\ run'[r].enqueued = run[r].enqueued
    BY <2>1, GotoEffect DEF IInv
  <2>3. At(r, "done")' /\ Summary(r)' = Summary(r)
    BY <2>2 DEF At, Summary, Steps, Lists
  <2>4. Summary(r).run = r
    BY DEF Summary
  <2>5. QED
    BY <2>1, <2>3, <2>4, SummaryType DEF IInv, Manifested
<1>4. QED
  BY <1>1, <1>2, <1>3

LEMMA StepIInv ==
    ASSUME IInv, NEW r \in Runs, Proceed(r) \/ Die(r)
    PROVE  IInv'
<1>1. Sound(r)' /\ Kept(r)
  BY StepSound DEF IInv
<1>2. manifest' \subseteq Manifests /\ Manifested'
  BY StepManifested
<1>3. TypeOK'
  BY <1>1, <1>2 DEF IInv, TypeOK, Kept
<1>4. \A q \in Runs \ {r} : Sound(q)'
  BY <1>1, ElsewhereSound DEF IInv, Kept, Alone
<1>5. QED
  BY <1>1, <1>2, <1>3, <1>4 DEF IInv

LEMMA ReportIInv ==
    ASSUME IInv, NEW a \in Agents, Report(a)
    PROVE  IInv'
<1>1. /\ reports' = reports \cup {a} /\ run' = run /\ copies' = copies /\ manifest' = manifest
      /\ unheard' = unheard /\ lasting' = lasting /\ emptied' = emptied
  BY DEF Report, history
<1>2. TypeOK'
  BY <1>1 DEF IInv, TypeOK
<1>3. \A r \in Runs : Sound(r)'
  BY <1>1, ElsewhereSound DEF IInv
<1>4. Manifested'
  BY <1>1 DEF IInv, Manifested, At, Summary
<1>5. QED
  BY <1>2, <1>3, <1>4 DEF IInv

\* Invocations that have listed are in emptied from then on, and the others start over.
LEMMA EmptiedIInv ==
    ASSUME IInv, Emptied
    PROVE  IInv'
<1>1. /\ reports' = {} /\ run' = run /\ copies' = copies /\ manifest' = manifest
      /\ unheard' = unheard
      /\ lasting' = [r \in Runs |-> IF At(r, "list") THEN {} ELSE lasting[r]]
      /\ emptied' = emptied \cup {r \in Runs : run[r].step \notin {"new", "list"}}
  BY DEF Emptied
<1>2. TypeOK'
  BY <1>1 DEF IInv, TypeOK
<1>3. ASSUME NEW r \in Runs PROVE Sound(r)'
  <2>1. Sound(r)
    BY DEF IInv
  <2>2. Apart(r)' /\ Counts(r)'
    BY <1>1, <2>1 DEF Sound, Apart, Counts, Counted
  <2>3. r \notin emptied' => run[r].targets = {}
    BY <1>1, <2>1 DEF Sound, Plans
  <2>4. /\ run[r].step = "list" => lasting'[r] = {}
        /\ run[r].step # "list" => lasting'[r] = lasting[r]
    BY <1>1 DEF At
  <2>5. Plans(r)'
    BY <1>1, <2>1, <2>3, <2>4 DEF Sound, Plans, Candidates
  <2>6. QED
    BY <2>2, <2>5 DEF Sound
<1>4. Manifested'
  BY <1>1 DEF IInv, Manifested, At, Summary
<1>5. QED
  BY <1>2, <1>3, <1>4 DEF IInv

LEMMA StutterIInv ==
    ASSUME IInv, UNCHANGED vars
    PROVE  IInv'
<1>1. /\ reports' = reports /\ run' = run /\ copies' = copies /\ manifest' = manifest
      /\ unheard' = unheard /\ lasting' = lasting /\ emptied' = emptied
  BY DEF vars, history
<1>2. TypeOK'
  BY <1>1 DEF IInv, TypeOK
<1>3. \A r \in Runs : Sound(r)'
  BY <1>1, ElsewhereSound DEF IInv
<1>4. Manifested'
  BY <1>1 DEF IInv, Manifested, At, Summary
<1>5. QED
  BY <1>2, <1>3, <1>4 DEF IInv

LEMMA InitIInv == Init => IInv
<1> SUFFICES ASSUME Init PROVE IInv
  OBVIOUS
<1>1. TypeOK
  BY ConstantsAssumption DEF Init, TypeOK, RunStates, None
<1>2. ASSUME NEW r \in Runs PROVE Sound(r)
  <2>1. /\ run[r].step = "new" /\ run[r].targets = {} /\ run[r].todo = {} /\ run[r].retries = {}
        /\ run[r].failed = {} /\ run[r].enqueued = 0
        /\ \A a \in Agents : copies[r][a] = 0 /\ unheard[r][a] = 0
    BY DEF Init, None
  <2>2. Counted(r) = {}
    BY <2>1 DEF Counted
  <2>3. Apart(r) /\ Plans(r)
    BY <2>1 DEF Apart, Plans
  <2>4. Counts(r)
    BY <2>1, <2>2, FS_EmptySet DEF Counts
  <2>5. QED
    BY <2>3, <2>4 DEF Sound
<1>3. Manifested
  BY DEF Init, Manifested
<1>4. QED
  BY <1>1, <1>2, <1>3 DEF IInv

LEMMA NextIInv == IInv /\ [Next]_vars => IInv'
<1> SUFFICES ASSUME IInv, [Next]_vars PROVE IInv'
  OBVIOUS
<1>1. CASE \E a \in Agents : Report(a)
  BY <1>1, ReportIInv
<1>2. CASE Emptied
  BY <1>2, EmptiedIInv
<1>3. CASE Invocations
  BY <1>3, StepIInv DEF Invocations
<1>4. CASE UNCHANGED vars
  BY <1>4, StutterIInv
<1>5. QED
  BY <1>1, <1>2, <1>3, <1>4 DEF Next

LEMMA SpecIInv == Spec => []IInv
BY InitIInv, NextIInv, PTL DEF Spec
-----------------------------------------------------------------------------
(* What it implies. *)

\* Types are right in every state: in particular the attempts of a call stay below
\* max_attempts, and the entries in hand are agents (run_orchestrator).
THEOREM TypesRight == Spec => []TypeOK
<1>1. IInv => TypeOK
  BY DEF IInv
<1>2. QED
  BY <1>1, SpecIInv, PTL

\* Every message in the queue is its agent's counted one or one nobody was told of, whatever the
\* batches, rejections, repetitions and crashes (orchestrator.py:180-238).
THEOREM EveryCopyAccounted == Spec => []CopiesAccounted
<1>1. IInv => CopiesAccounted
  BY DEF IInv, Sound, Counts, CopiesAccounted
<1>2. QED
  BY <1>1, SpecIInv, PTL

\* A run that requires a report has sent no message for an agent without one, unless the day has
\* been emptied since it listed the reports (orchestrator.py:163-169, agent_report_job.py:376).
THEOREM NoMessageBeforeReport == Spec => []NoEarlyMessage
<1>1. IInv => NoEarlyMessage
  <2> SUFFICES ASSUME IInv, NEW r \in RequireReport \ emptied, NEW a \in Agents, copies[r][a] > 0
               PROVE  a \in reports
    BY DEF NoEarlyMessage
  <2>1. r \in Runs /\ TypeOK /\ Sound(r)
    BY ConstantsAssumption DEF IInv
  <2>2. a \in run[r].targets
    BY <2>1, CountTypes DEF Sound, Counts, Counted
  <2>3. QED
    BY <2>1, <2>2 DEF Sound, Plans
<1>2. QED
  BY <1>1, SpecIInv, PTL

\* A finished invocation has messaged or recorded as failed everybody it was asked for whose
\* report stayed from its start to its listing, however often the day is emptied
\* (orchestrator.py:163-252, agent_report_job.py:376).
THEOREM NobodyIsOverlooked == Spec => []NobodyOverlooked
<1>1. IInv => NobodyOverlooked
  <2> SUFFICES ASSUME IInv, NEW r \in Runs, At(r, "done"), NEW a \in Candidates(r)
               PROVE  \/ copies[r][a] > 0 \/ a \in run[r].failed
                      \/ /\ r \in RequireReport /\ a \notin lasting[r]
                         /\ a \in run[r].missing \/ Cardinality(run[r].missing) >= MissingKept
    BY DEF NobodyOverlooked
  <2>1. TypeOK /\ Sound(r) /\ a \in Agents
    BY ConstantsAssumption DEF IInv, Candidates
  <2>2. CASE a \in run[r].targets
    <3>1. a \in Counted(r) \/ a \in run[r].failed
      BY <2>1, <2>2 DEF Sound, Plans, Counted, At
    <3>2. QED
      BY <2>1, <3>1, CountTypes DEF Sound, Counts
  <2>3. CASE a \notin run[r].targets
    BY <2>1, <2>3 DEF Sound, Plans, At
  <2>4. QED
    BY <2>2, <2>3
<1>2. QED
  BY <1>1, SpecIInv, PTL

\* The manifest's numbers add up, and the targets it does not list as failed have a message
\* (orchestrator.py:240-252).
THEOREM ManifestsAccount == Spec => []ManifestAccounts
<1>1. IInv => ManifestAccounts
  <2> SUFFICES ASSUME IInv, NEW m \in manifest
               PROVE  /\ m.targeted = m.enqueued + Cardinality(m.failed)
                      /\ \A a \in run[m.run].targets \ m.failed : copies[m.run][a] > 0
    BY DEF ManifestAccounts
  <2> DEFINE r == m.run
  <2>1. r \in Runs /\ TypeOK /\ Sound(r) /\ At(r, "done") /\ m = Summary(r)
    BY DEF IInv, TypeOK, Manifests, Manifested
  <2> HIDE DEF r
  <2>2. m.targeted = Cardinality(run[r].targets) /\ m.enqueued = run[r].enqueued /\ m.failed = run[r].failed
    BY <2>1 DEF Summary
  <2>3. Counted(r) = run[r].targets \ run[r].failed
    BY <2>1 DEF Counted, Sound, Plans, At
  <2>4. /\ Counted(r) \in SUBSET Agents /\ run[r].failed \in SUBSET Agents
        /\ Counted(r) \cap run[r].failed = {} /\ Counted(r) \cup run[r].failed = run[r].targets
    BY <2>1, <2>3, RunTypes DEF Sound, Apart
  <2>5. Cardinality(run[r].targets) = run[r].enqueued + Cardinality(run[r].failed)
    BY <2>1, <2>4, Disjoint DEF Sound, Counts
  <2>6. \A a \in Counted(r) : copies[r][a] > 0
    BY <2>1, <2>4, CountTypes DEF Sound, Counts
  <2>7. QED
    BY <2>2, <2>3, <2>5, <2>6 DEF r
<1>2. QED
  BY <1>1, SpecIInv, PTL
=============================================================================
