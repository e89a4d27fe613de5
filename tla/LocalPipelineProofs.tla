------------------------- MODULE LocalPipelineProofs -------------------------
(* Theorems about LocalPipeline for every set of agents and unreachable    *)
(* ones, whatever invocations overlap with the pipeline's own, and every   *)
(* batch size, headroom and receive limit that PipelineAssumption allows.  *)
EXTENDS LocalPipeline, FanoutProofs

-----------------------------------------------------------------------------
(* Bags of messages, counted by the set of their messages. *)

LEMMA MessagesOf ==
    ASSUME NEW D, NEW f \in [D -> Nat]
    PROVE  Messages(f) = {m \in D \X (Nat \ {0}) : m[2] <= f[m[1]]}
<1>1. \A k \in D : 1..f[k] = {n \in Nat \ {0} : n <= f[k]}
  OBVIOUS
<1>2. Messages(f) = UNION {{k} \X {n \in Nat \ {0} : n <= f[k]} : k \in D}
  BY <1>1 DEF Messages
<1>3. QED
  BY <1>2

LEMMA BagFinite ==
    ASSUME NEW D, IsFiniteSet(D), NEW f \in [D -> Nat]
    PROVE  IsFiniteSet(Messages(f)) /\ Size(f) \in Nat
<1> DEFINE Part == [k \in D |-> {k} \X (1..f[k])]
           Parts == {Part[k] : k \in D}
<1>1. IsFiniteSet(Parts)
  <2>1. Part \in Surjection(D, Parts)
    BY DEF Surjection
  <2>2. QED
    BY <2>1, FS_Surjection
<1>2. \A P \in Parts : IsFiniteSet(P)
  <2> TAKE P \in Parts
  <2>1. PICK k \in D : P = {k} \X (1..f[k])
    OBVIOUS
  <2>2. IsFiniteSet({k}) /\ IsFiniteSet(1..f[k])
    <3>1. f[k] \in Int /\ 1 \in Int
      OBVIOUS
    <3>2. QED
      BY <3>1, FS_Singleton, FS_Interval
  <2>3. QED
    BY <2>1, <2>2, FS_Product
<1>3. Messages(f) = UNION Parts
  BY DEF Messages
<1>4. QED
  BY <1>1, <1>2, <1>3, FS_UNION, FS_CardinalityType DEF Size

LEMMA SizeZero ==
    ASSUME NEW D, IsFiniteSet(D), NEW f \in [D -> Nat]
    PROVE  Size(f) = 0 <=> \A k \in D : f[k] = 0
<1>1. Size(f) = 0 <=> Messages(f) = {}
  BY BagFinite, FS_EmptySet DEF Size
<1>2. ASSUME NEW k \in D, f[k] # 0 PROVE <<k, 1>> \in Messages(f)
  BY <1>2, MessagesOf
<1>3. (\A k \in D : f[k] = 0) => Messages(f) = {}
  BY MessagesOf
<1>4. QED
  BY <1>1, <1>2, <1>3

LEMMA SizeLess ==
    ASSUME NEW D, IsFiniteSet(D), NEW f \in [D -> Nat], NEW g \in [D -> Nat], \A k \in D : f[k] <= g[k]
    PROVE  Size(f) <= Size(g)
<1>1. \A m \in D \X (Nat \ {0}) : m[2] <= f[m[1]] => m[2] <= g[m[1]]
  OBVIOUS
<1>2. Messages(f) \in SUBSET Messages(g)
  BY <1>1, MessagesOf
<1>3. QED
  BY <1>2, BagFinite, FS_Subset DEF Size

\* One message more.
LEMMA SizeOne ==
    ASSUME NEW D, IsFiniteSet(D), NEW f \in [D -> Nat], NEW g \in [D -> Nat], NEW k \in D,
           g[k] = f[k] + 1, \A j \in D \ {k} : g[j] = f[j]
    PROVE  Size(g) = Size(f) + 1
<1> DEFINE new == <<k, f[k] + 1>>
<1>1. new \in D \X (Nat \ {0}) /\ new \notin Messages(f)
  BY MessagesOf
<1>2. \A m \in D \X (Nat \ {0}) : m[2] <= g[m[1]] <=> m[2] <= f[m[1]] \/ m = new
  OBVIOUS
<1>3. Messages(g) = Messages(f) \cup {new}
  BY <1>1, <1>2, MessagesOf
<1>4. IsFiniteSet(Messages(f))
  BY BagFinite
<1> HIDE DEF new
<1>5. QED
  BY <1>1, <1>3, <1>4, FS_AddElement DEF Size

\* The same messages under other names.
LEMMA SizeMoved ==
    ASSUME NEW D, IsFiniteSet(D), NEW f \in [D -> Nat], NEW E, NEW g \in [E -> Nat],
           NEW move \in [D -> E], \A j, k \in D : move[j] = move[k] => j = k,
           \A k \in D : g[move[k]] = f[k],
           \A e \in E : g[e] > 0 => \E k \in D : e = move[k]
    PROVE  Size(g) = Size(f)
<1> DEFINE Moved == [m \in Messages(f) |-> <<move[m[1]], m[2]>>]
<1>1. /\ Messages(f) = {m \in D \X (Nat \ {0}) : m[2] <= f[m[1]]}
      /\ Messages(g) = {m \in E \X (Nat \ {0}) : m[2] <= g[m[1]]}
  BY MessagesOf
<1>2. Moved \in Injection(Messages(f), Messages(g))
  BY <1>1 DEF Injection, IsInjective
<1>3. Moved \in Surjection(Messages(f), Messages(g))
  <2>1. ASSUME NEW m \in Messages(g) PROVE \E l \in Messages(f) : Moved[l] = m
    <3>1. m[1] \in E /\ m[2] \in Nat \ {0} /\ m = <<m[1], m[2]>> /\ m[2] <= g[m[1]] /\ g[m[1]] \in Nat
      BY <1>1
    <3>2. PICK k \in D : m[1] = move[k]
      BY <3>1
    <3>3. <<k, m[2]>> \in Messages(f) /\ Moved[<<k, m[2]>>] = m
      BY <1>1, <3>1, <3>2
    <3>4. QED
      BY <3>3
  <2>2. QED
    BY <1>2, <2>1 DEF Surjection, Injection
<1>4. ExistsBijection(Messages(f), Messages(g))
  BY <1>2, <1>3 DEF ExistsBijection, Bijection
<1>5. QED
  BY <1>4, BagFinite, FS_Bijection DEF Size

\* Two bags together.
LEMMA SizePlus ==
    ASSUME NEW D, IsFiniteSet(D), NEW f \in [D -> Nat], NEW g \in [D -> Nat], NEW h \in [D -> Nat],
           \A k \in D : h[k] = f[k] + g[k]
    PROVE  Size(h) = Size(f) + Size(g)
<1> DEFINE Extra == {m \in D \X (Nat \ {0}) : f[m[1]] < m[2] /\ m[2] <= h[m[1]]}
           Above == [m \in Messages(g) |-> <<m[1], f[m[1]] + m[2]>>]
<1>1. /\ Messages(f) = {m \in D \X (Nat \ {0}) : m[2] <= f[m[1]]}
      /\ Messages(g) = {m \in D \X (Nat \ {0}) : m[2] <= g[m[1]]}
      /\ Messages(h) = {m \in D \X (Nat \ {0}) : m[2] <= h[m[1]]}
  BY MessagesOf
<1>2. Above \in [Messages(g) -> Extra]
  BY <1>1
<1>3. Above \in Injection(Messages(g), Extra)
  <2>1. \A l, m \in Messages(g) : Above[l] = Above[m] => l = m
    <3> SUFFICES ASSUME NEW l \in Messages(g), NEW m \in Messages(g), Above[l] = Above[m] PROVE l = m
      OBVIOUS
    <3>1. l[1] = m[1] /\ f[l[1]] + l[2] = f[m[1]] + m[2]
      OBVIOUS
    <3>2. l[2] \in Nat /\ m[2] \in Nat /\ f[l[1]] \in Nat /\ l = <<l[1], l[2]>> /\ m = <<m[1], m[2]>>
      BY <1>1
    <3>3. QED
      BY <3>1, <3>2
  <2>2. QED
    BY <1>2, <2>1 DEF Injection, IsInjective
<1>4. Above \in Surjection(Messages(g), Extra)
  <2>1. ASSUME NEW m \in Extra PROVE \E l \in Messages(g) : Above[l] = m
    <3>1. /\ m[1] \in D /\ m[2] \in Nat /\ m = <<m[1], m[2]>> /\ f[m[1]] < m[2] /\ m[2] <= h[m[1]]
          /\ f[m[1]] \in Nat /\ g[m[1]] \in Nat /\ h[m[1]] = f[m[1]] + g[m[1]]
      OBVIOUS
    <3> DEFINE l == <<m[1], m[2] - f[m[1]]>>
    <3>2. m[2] - f[m[1]] \in Nat \ {0} /\ m[2] - f[m[1]] <= g[m[1]] /\ f[m[1]] + (m[2] - f[m[1]]) = m[2]
      BY <3>1
    <3>3. l \in Messages(g) /\ Above[l] = m
      BY <1>1, <3>1, <3>2
    <3>4. QED
      BY <3>3
  <2>2. QED
    BY <1>2, <2>1 DEF Surjection
<1>5. ExistsBijection(Messages(g), Extra)
  BY <1>3, <1>4 DEF ExistsBijection, Bijection
<1>6. IsFiniteSet(Extra) /\ Cardinality(Extra) = Size(g)
  BY <1>5, BagFinite, FS_Bijection DEF Size
<1>7. Messages(h) = Messages(f) \cup Extra /\ Messages(f) \cap Extra = {}
  <2>1. \A m \in D \X (Nat \ {0}) : m[2] <= h[m[1]] <=> m[2] <= f[m[1]] \/ (f[m[1]] < m[2] /\ m[2] <= h[m[1]])
    OBVIOUS
  <2>2. \A m \in D \X (Nat \ {0}) : ~ (m[2] <= f[m[1]] /\ f[m[1]] < m[2])
    OBVIOUS
  <2>3. QED
    BY <1>1, <2>1, <2>2
<1>8. Cardinality(Messages(h)) = Cardinality(Messages(f)) + Cardinality(Extra) - 0
  BY <1>6, <1>7, BagFinite, FS_Union, FS_EmptySet
<1>9. QED
  BY <1>6, <1>8, BagFinite DEF Size

\* As many messages for each of a set.
LEMMA SizeTimes ==
    ASSUME NEW D, IsFiniteSet(D), NEW f \in [D -> Nat], NEW S, IsFiniteSet(S)
    PROVE  Size([w \in D \X S |-> f[w[1]]]) = Cardinality(S) * Size(f)
<1> DEFINE g == [w \in D \X S |-> f[w[1]]]
<1>0. g \in [D \X S -> Nat]
  OBVIOUS
<1> HIDE DEF g
<1> DEFINE Pair == [m \in S \X Messages(f) |-> <<<<m[2][1], m[1]>>, m[2][2]>>]
<1>1. /\ Messages(f) = {m \in D \X (Nat \ {0}) : m[2] <= f[m[1]]}
      /\ Messages(g) = {m \in (D \X S) \X (Nat \ {0}) : m[2] <= g[m[1]]}
      /\ \A w \in D \X S : g[w] = f[w[1]]
  BY <1>0, MessagesOf DEF g
<1>2. \A m \in Messages(f) : m[1] \in D /\ m[2] \in Nat \ {0} /\ m[2] <= f[m[1]] /\ m = <<m[1], m[2]>>
  BY <1>1
<1>3. Pair \in [S \X Messages(f) -> Messages(g)]
  BY <1>1, <1>2
<1>4. Pair \in Injection(S \X Messages(f), Messages(g))
  <2>1. \A l, m \in S \X Messages(f) : Pair[l] = Pair[m] => l = m
    <3> SUFFICES ASSUME NEW l \in S \X Messages(f), NEW m \in S \X Messages(f), Pair[l] = Pair[m]
                 PROVE  l = m
      OBVIOUS
    <3>1. <<<<l[2][1], l[1]>>, l[2][2]>> = <<<<m[2][1], m[1]>>, m[2][2]>>
      OBVIOUS
    <3>2. l[1] = m[1] /\ l[2][1] = m[2][1] /\ l[2][2] = m[2][2]
      BY <3>1
    <3>3. l[2] = m[2]
      BY <1>2, <3>2
    <3>4. QED
      BY <3>2, <3>3
  <2>2. QED
    BY <1>3, <2>1 DEF Injection, IsInjective
<1>5. Pair \in Surjection(S \X Messages(f), Messages(g))
  <2>1. ASSUME NEW m \in Messages(g) PROVE \E l \in S \X Messages(f) : Pair[l] = m
    <3>1. PICK k \in D, j \in S, n \in Nat \ {0} : m = <<<<k, j>>, n>> /\ n <= g[<<k, j>>]
      BY <1>1
    <3>2. <<j, <<k, n>>>> \in S \X Messages(f) /\ Pair[<<j, <<k, n>>>>] = m
      BY <1>1, <3>1
    <3>3. QED
      BY <3>2
  <2>2. QED
    BY <1>3, <2>1 DEF Surjection
<1>6. ExistsBijection(S \X Messages(f), Messages(g))
  BY <1>4, <1>5 DEF ExistsBijection, Bijection
<1>7. IsFiniteSet(S \X Messages(f)) /\ Cardinality(S \X Messages(f)) = Cardinality(S) * Size(f)
  BY BagFinite, FS_Product DEF Size
<1>8. QED
  BY <1>6, <1>7, FS_Bijection DEF Size, g
-----------------------------------------------------------------------------
(* The types. *)

Drains == [step: {"wait", "loop", "ended"}, batches: Nat, budget: Nat, emails_sent: Nat,
           duplicates: Nat, quarantined: Nat, failed: Nat]

LEMMA KindsOf ==
    /\ IsFiniteSet(Agents) /\ IsFiniteSet(Kinds) /\ IsFiniteSet(Live) /\ Live \subseteq Kinds
    /\ \A k \in Kinds : k[1] \in Agents /\ k[2] \in 0..MaxReceives /\ k = <<k[1], k[2]>>
    /\ \A k \in Kinds : k \notin Live => k[2] = MaxReceives
    /\ \A k \in Live : k[2] \in 0..MaxReceives - 1 /\ <<k[1], k[2] + 1>> \in Kinds
    /\ \A a \in Agents : <<a, MaxReceives>> \in Kinds \ Live /\ <<a, 0>> \in Kinds
    /\ MaxReceives \in 1..3
<1>1. MaxReceives \in Nat \ {0} /\ MaxReceives \in 1..3 /\ IsFiniteSet(Agents)
  BY PipelineAssumption, ConstantsAssumption
<1>2. IsFiniteSet(0..MaxReceives) /\ IsFiniteSet(0..MaxReceives - 1)
  <2>1. 0 \in Int /\ MaxReceives \in Int /\ MaxReceives - 1 \in Int
    BY <1>1
  <2>2. QED
    BY <2>1, FS_Interval
<1>3. IsFiniteSet(Kinds) /\ IsFiniteSet(Live)
  BY <1>1, <1>2, FS_Product DEF Kinds, Live
<1>4. QED
  BY <1>1, <1>3 DEF Kinds, Live

LEMMA Sizes ==
    ASSUME DrainTypeOK
    PROVE  Size(queue) \in Nat /\ Size(hand) \in Nat /\ Size(dlq) \in Nat
BY KindsOf, BagFinite DEF DrainTypeOK

LEMMA NoneLeft ==
    /\ Empty \in [Kinds -> Nat] /\ Size(Empty) = 0
    /\ None \in [Agents -> Nat] /\ Size(None) = 0
<1>1. Empty \in [Kinds -> Nat] /\ \A k \in Kinds : Empty[k] = 0
  BY DEF Empty
<1>2. None \in [Agents -> Nat] /\ \A a \in Agents : None[a] = 0
  BY DEF None
<1>3. QED
  BY <1>1, <1>2, KindsOf, SizeZero

\* The number of rounds is a number.
LEMMA BudgetType == ASSUME NEW n \in Nat PROVE dispatch_batch_budget(n) \in Nat
<1>1. BatchSize \in Nat \ {0} /\ Headroom \in Nat
  BY ConstantsAssumption, PipelineAssumption
<1>2. n \div BatchSize \in Nat
  BY <1>1
<1>3. QED
  BY <1>1, <1>2 DEF dispatch_batch_budget

\* What the steps do to the loop's state.
LEMMA BeginEffect ==
    ASSUME TypeOK, DrainTypeOK, BeginDrain
    PROVE  /\ drain' \in Drains /\ drain'.step = "loop"
           /\ drain'.budget = dispatch_batch_budget(run[own].enqueued) /\ drain'.batches = drain.batches
           /\ drain'.emails_sent = drain.emails_sent /\ drain'.duplicates = drain.duplicates
           /\ drain'.quarantined = drain.quarantined
           /\ queue' \in [Kinds -> Nat] /\ Size(queue') = Size(copies[own])
           /\ \A k \in Kinds : queue'[k] = IF k[2] = 0 THEN copies[own][k[1]] ELSE 0
<1>1. drain \in Drains /\ own \in Runs /\ copies[own] \in [Agents -> Nat]
  BY PipelineAssumption DEF DrainTypeOK, Drains, TypeOK
<1>2. dispatch_batch_budget(run[own].enqueued) \in Nat
  BY <1>1, RunTypes, BudgetType
<1> DEFINE d == [drain EXCEPT !.step = "loop"]
           n == dispatch_batch_budget(run[own].enqueued)
<1>3. /\ d \in Drains /\ d.step = "loop" /\ d.batches = drain.batches /\ d.emails_sent = drain.emails_sent
      /\ d.duplicates = drain.duplicates /\ d.quarantined = drain.quarantined
  BY <1>1 DEF Drains
<1>4. drain' = [d EXCEPT !.budget = n]
  BY DEF BeginDrain
<1> HIDE DEF d, n
<1>5. /\ drain' \in Drains /\ drain'.budget = n /\ drain'.step = d.step /\ drain'.batches = d.batches
      /\ drain'.emails_sent = d.emails_sent /\ drain'.duplicates = d.duplicates
      /\ drain'.quarantined = d.quarantined
  BY <1>2, <1>3, <1>4 DEF Drains, n
<1>6. queue' = [k \in Kinds |-> IF k[2] = 0 THEN copies[own][k[1]] ELSE 0]
  BY DEF BeginDrain
<1>7. queue' \in [Kinds -> Nat]
  BY <1>1, <1>6, KindsOf
<1>8. Size(queue') = Size(copies[own])
  <2> DEFINE move == [a \in Agents |-> <<a, 0>>]
  <2>1. move \in [Agents -> Kinds] /\ \A a, b \in Agents : move[a] = move[b] => a = b
    BY KindsOf
  <2>2. \A a \in Agents : queue'[move[a]] = copies[own][a]
    BY <1>6, KindsOf
  <2>3. \A k \in Kinds : queue'[k] > 0 => \E a \in Agents : k = move[a]
    <3> SUFFICES ASSUME NEW k \in Kinds, queue'[k] > 0 PROVE k = move[k[1]] /\ k[1] \in Agents
      OBVIOUS
    <3>1. k[2] = 0
      BY <1>6
    <3>2. QED
      BY <3>1, KindsOf
  <2> HIDE DEF move
  <2>4. QED
    BY <1>1, <1>7, <2>1, <2>2, <2>3, KindsOf, SizeMoved
<1>9. QED
  BY <1>3, <1>5, <1>6, <1>7, <1>8 DEF n

\* What is received is on its way, and what is passed is in the dead-letter queue.
LEMMA ReceiveEffect ==
    ASSUME DrainTypeOK, NEW b \in Batches, NEW p \in Passed(b),
           queue' = [k \in Kinds |-> queue[k] - (IF k \in Live THEN b[k] ELSE p[k[1]])],
           hand' = [k \in Kinds |-> IF k[2] = 0 THEN 0 ELSE b[<<k[1], k[2] - 1>>]],
           dlq' = [a \in Agents |-> dlq[a] + p[a]]
    PROVE  /\ queue' \in [Kinds -> Nat] /\ hand' \in [Kinds -> Nat] /\ dlq' \in [Agents -> Nat]
           /\ b \in [Live -> Nat] /\ Size(b) \in Nat /\ Size(b) <= BatchSize
           /\ p \in [Agents -> Nat] /\ Size(p) \in Nat
           /\ Size(queue) = Size(queue') + Size(b) + Size(p)
           /\ Size(hand') = Size(b) /\ Size(dlq') = Size(dlq) + Size(p)
<1> DEFINE taken == [k \in Kinds |-> IF k \in Live THEN b[k] ELSE 0]
           passed == [k \in Kinds |-> IF k \in Live THEN 0 ELSE p[k[1]]]
           both == [k \in Kinds |-> taken[k] + passed[k]]
<1>1. queue \in [Kinds -> Nat] /\ hand \in [Kinds -> Nat] /\ dlq \in [Agents -> Nat]
  BY DEF DrainTypeOK
<1>2. b \in [Live -> Nat] /\ Size(b) \in Nat /\ \A k \in Live : b[k] <= queue[k]
  <2>1. BatchSize \in Nat
    BY ConstantsAssumption
  <2>2. b \in [Live -> Nat] /\ \A k \in Live : b[k] <= queue[k]
    BY <2>1 DEF Batches
  <2>3. QED
    BY <2>2, KindsOf, BagFinite
<1>3. Size(b) <= BatchSize
  BY <1>2, ConstantsAssumption DEF Batches
<1>4. p \in [Agents -> Nat] /\ Size(p) \in Nat /\ \A a \in Agents : p[a] <= queue[<<a, MaxReceives>>]
  <2>1. Size(queue) \in Nat
    BY Sizes
  <2>2. p \in [Agents -> Nat] /\ \A a \in Agents : p[a] <= queue[<<a, MaxReceives>>]
    BY <2>1 DEF Passed
  <2>3. QED
    BY <2>2, KindsOf, BagFinite
<1>5. taken \in [Kinds -> Nat] /\ passed \in [Kinds -> Nat] /\ both \in [Kinds -> Nat]
  BY <1>2, <1>4, KindsOf
<1> HIDE DEF taken, passed, both
<1>6. queue' \in [Kinds -> Nat] /\ \A k \in Kinds : queue[k] = queue'[k] + both[k]
  <2> SUFFICES ASSUME NEW k \in Kinds PROVE queue'[k] \in Nat /\ queue[k] = queue'[k] + both[k]
    OBVIOUS
  <2>1. CASE k \in Live
    BY <1>1, <1>2, <2>1 DEF both, taken, passed
  <2>2. CASE k \notin Live
    <3>1. k[1] \in Agents /\ k = <<k[1], MaxReceives>>
      BY <2>2, KindsOf
    <3>2. p[k[1]] \in Nat /\ p[k[1]] <= queue[k] /\ queue[k] \in Nat
      BY <1>1, <1>4, <3>1
    <3>3. QED
      BY <2>2, <3>2 DEF both, taken, passed
  <2>3. QED
    BY <2>1, <2>2
<1>7. hand' \in [Kinds -> Nat]
  <2> SUFFICES ASSUME NEW k \in Kinds, k[2] # 0 PROVE b[<<k[1], k[2] - 1>>] \in Nat
    OBVIOUS
  <2>1. <<k[1], k[2] - 1>> \in Live
    BY KindsOf DEF Live
  <2>2. QED
    BY <1>2, <2>1
<1>8. Size(taken) = Size(b)
  <2> DEFINE move == [k \in Live |-> k]
  <2>1. /\ move \in [Live -> Kinds] /\ \A j, k \in Live : move[j] = move[k] => j = k
        /\ \A k \in Live : taken[move[k]] = b[k]
        /\ \A e \in Kinds : taken[e] > 0 => \E k \in Live : e = move[k]
    BY KindsOf DEF taken
  <2>2. IsFiniteSet(Live)
    BY KindsOf
  <2> HIDE DEF move
  <2>3. QED
    BY <1>2, <1>5, <2>1, <2>2, SizeMoved
<1>9. Size(passed) = Size(p)
  <2> DEFINE move == [a \in Agents |-> <<a, MaxReceives>>]
  <2>1. move \in [Agents -> Kinds] /\ \A a, c \in Agents : move[a] = move[c] => a = c
    BY KindsOf
  <2>2. \A a \in Agents : passed[move[a]] = p[a]
    BY KindsOf DEF passed
  <2>3. \A e \in Kinds : passed[e] > 0 => \E a \in Agents : e = move[a]
    <3> SUFFICES ASSUME NEW e \in Kinds, passed[e] > 0 PROVE e[1] \in Agents /\ e = move[e[1]]
      OBVIOUS
    <3>1. e \notin Live
      BY DEF passed
    <3>2. QED
      BY <3>1, KindsOf
  <2>4. IsFiniteSet(Agents)
    BY KindsOf
  <2> HIDE DEF move
  <2>5. QED
    BY <1>4, <1>5, <2>1, <2>2, <2>3, <2>4, SizeMoved
<1>10. Size(hand') = Size(b)
  <2> DEFINE move == [k \in Live |-> <<k[1], k[2] + 1>>]
             held == hand'
  <2>1. move \in [Live -> Kinds] /\ \A j, k \in Live : move[j] = move[k] => j = k
    BY KindsOf
  <2>2. \A k \in Live : held[move[k]] = b[k]
    <3> SUFFICES ASSUME NEW k \in Live PROVE hand'[<<k[1], k[2] + 1>>] = b[k]
      OBVIOUS
    <3>1. k[2] \in Nat /\ <<k[1], k[2] + 1>> \in Kinds /\ k = <<k[1], k[2]>> /\ (k[2] + 1) - 1 = k[2]
      BY KindsOf
    <3>2. QED
      BY <3>1
  <2>3. \A e \in Kinds : held[e] > 0 => \E k \in Live : e = move[k]
    <3> SUFFICES ASSUME NEW e \in Kinds, hand'[e] > 0 PROVE \E k \in Live : e = move[k]
      OBVIOUS
    <3>1. e[2] # 0
      OBVIOUS
    <3>2. <<e[1], e[2] - 1>> \in Live /\ e = <<e[1], (e[2] - 1) + 1>>
      BY <3>1, KindsOf DEF Live
    <3>3. move[<<e[1], e[2] - 1>>] = e
      BY <3>2
    <3>4. QED
      BY <3>2, <3>3
  <2>4. IsFiniteSet(Live)
    BY KindsOf
  <2>5. b \in [Live -> Nat] /\ held \in [Kinds -> Nat]
    BY <1>2, <1>7
  <2> HIDE DEF move, held
  <2>6. Size(held) = Size(b)
    BY <2>1, <2>2, <2>3, <2>4, <2>5, SizeMoved
  <2>7. QED
    BY <2>6 DEF held
<1>11. Size(both) = Size(b) + Size(p) /\ Size(queue) = Size(queue') + Size(both)
  <2>1. Size(both) = Size(taken) + Size(passed)
    <3>1. \A k \in Kinds : both[k] = taken[k] + passed[k]
      BY DEF both
    <3>2. IsFiniteSet(Kinds)
      BY KindsOf
    <3>3. QED
      BY <1>5, <3>1, <3>2, SizePlus
  <2>2. Size(queue) = Size(queue') + Size(both)
    <3>1. IsFiniteSet(Kinds) /\ \A k \in Kinds : queue[k] = queue'[k] + both[k]
      BY <1>6, KindsOf
    <3>2. queue \in [Kinds -> Nat] /\ queue' \in [Kinds -> Nat] /\ both \in [Kinds -> Nat]
      BY <1>1, <1>5, <1>6
    <3> HIDE DEF Kinds
    <3>3. QED
      BY <3>1, <3>2, SizePlus
  <2>3. QED
    BY <1>8, <1>9, <2>1, <2>2
<1>12. dlq' \in [Agents -> Nat] /\ Size(dlq') = Size(dlq) + Size(p)
  <2>1. dlq' \in [Agents -> Nat] /\ \A a \in Agents : dlq'[a] = dlq[a] + p[a]
    BY <1>1, <1>4
  <2>2. QED
    BY <1>1, <1>4, <2>1, KindsOf, SizePlus
<1>13. Size(queue') \in Nat
  BY <1>6, KindsOf, BagFinite
<1>14. QED
  BY <1>2, <1>3, <1>4, <1>6, <1>7, <1>10, <1>11, <1>12, <1>13

\* A message leaves the batch, and may go back to the queue.
LEMMA TakenEffect ==
    ASSUME DrainTypeOK, NEW k \in Kinds, Taken(k)
    PROVE  /\ hand' \in [Kinds -> Nat] /\ hand[k] > 0 /\ hand'[k] = hand[k] - 1
           /\ \A j \in Kinds \ {k} : hand'[j] = hand[j]
           /\ Size(hand) = Size(hand') + 1
<1>1. hand \in [Kinds -> Nat] /\ hand[k] > 0 /\ hand' = [hand EXCEPT ![k] = hand[k] - 1]
  BY DEF DrainTypeOK, Taken
<1>2. /\ hand' \in [Kinds -> Nat] /\ hand'[k] = hand[k] - 1 /\ hand[k] = hand'[k] + 1
      /\ \A j \in Kinds \ {k} : hand'[j] = hand[j]
  BY <1>1
<1>3. Size(hand) = Size(hand') + 1
  <2>1. /\ IsFiniteSet(Kinds) /\ k \in Kinds /\ hand \in [Kinds -> Nat] /\ hand' \in [Kinds -> Nat]
        /\ hand[k] = hand'[k] + 1 /\ \A j \in Kinds \ {k} : hand[j] = hand'[j]
    BY <1>1, <1>2, KindsOf
  <2> HIDE DEF Kinds
  <2>2. QED
    BY <2>1, SizeOne
<1>4. QED
  BY <1>1, <1>2, <1>3

LEMMA LeftEffect ==
    ASSUME DrainTypeOK, NEW k \in Kinds, Left(k)
    PROVE  /\ queue' \in [Kinds -> Nat] /\ queue'[k] = queue[k] + 1
           /\ \A j \in Kinds \ {k} : queue'[j] = queue[j]
           /\ Size(queue') = Size(queue) + 1
<1>1. queue \in [Kinds -> Nat] /\ queue' = [queue EXCEPT ![k] = queue[k] + 1]
  BY DEF DrainTypeOK, Left
<1>2. /\ queue' \in [Kinds -> Nat] /\ queue'[k] = queue[k] + 1
      /\ \A j \in Kinds \ {k} : queue'[j] = queue[j]
  BY <1>1
<1>3. IsFiniteSet(Kinds) /\ k \in Kinds
  BY KindsOf
<1> HIDE DEF Kinds
<1>4. QED
  BY <1>1, <1>2, <1>3, SizeOne

\* A record is done with: the result's counters.
Tallied(sent, again, held) ==
    /\ drain' \in Drains /\ drain'.step = drain.step /\ drain'.batches = drain.batches
    /\ drain'.budget = drain.budget
    /\ drain'.emails_sent = drain.emails_sent + sent /\ drain'.duplicates = drain.duplicates + again
    /\ drain'.quarantined = drain.quarantined + held

LEMMA RecordEffect ==
    ASSUME DrainTypeOK, NEW k \in Kinds
    PROVE  /\ Quarantined(k) => Tallied(0, 0, 1)
           /\ Sent(k) => Tallied(1, 0, 0)
           /\ Duplicate(k) => Tallied(0, 1, 0)
           /\ \A state : Failed(k, state) => Tallied(0, 0, 0)
<1>1. drain \in Drains
  BY DEF DrainTypeOK, Drains
<1>2. Quarantined(k) => Tallied(0, 0, 1)
  BY <1>1 DEF Quarantined, Tallied, Drains
<1>3. Sent(k) => Tallied(1, 0, 0)
  BY <1>1 DEF Sent, Tallied, Drains
<1>4. Duplicate(k) => Tallied(0, 1, 0)
  BY <1>1 DEF Duplicate, Tallied, Drains
<1>5. \A state : Failed(k, state) => Tallied(0, 0, 0)
  BY <1>1 DEF Failed, Tallied, Drains
<1>6. QED
  BY <1>2, <1>3, <1>4, <1>5
-----------------------------------------------------------------------------
(* The receives that the messages in the queue and in the batch have before them: a message *)
(* received c times has one before it for each number from c + 1 to MaxReceives.            *)

Rounds == 1..MaxReceives
Ahead(q, h) == [w \in Kinds \X Rounds |-> IF w[2] > w[1][2] THEN q[w[1]] + h[w[1]] ELSE 0]

LEMMA RoundsOf ==
    /\ IsFiniteSet(Rounds) /\ Cardinality(Rounds) = MaxReceives
    /\ IsFiniteSet(Kinds \X Rounds) /\ IsFiniteSet(Live \X Rounds) /\ IsFiniteSet(Agents \X Rounds)
<1>1. IsFiniteSet(Rounds) /\ Cardinality(Rounds) = MaxReceives
  <2>1. MaxReceives \in Nat \ {0} /\ 1 \in Int /\ MaxReceives \in Int
    BY KindsOf
  <2>2. /\ IsFiniteSet(1..MaxReceives)
        /\ Cardinality(1..MaxReceives) = IF 1 > MaxReceives THEN 0 ELSE MaxReceives - 1 + 1
    BY <2>1, FS_Interval
  <2>3. QED
    BY <2>1, <2>2 DEF Rounds
<1>2. QED
  BY <1>1, KindsOf, FS_Product

LEMMA AheadType ==
    ASSUME NEW q \in [Kinds -> Nat], NEW h \in [Kinds -> Nat]
    PROVE  Ahead(q, h) \in [Kinds \X Rounds -> Nat] /\ Size(Ahead(q, h)) \in Nat
<1>1. Ahead(q, h) \in [Kinds \X Rounds -> Nat]
  <2>1. \A k \in Kinds : q[k] + h[k] \in Nat
    OBVIOUS
  <2>2. QED
    BY <2>1 DEF Ahead
<1>2. IsFiniteSet(Kinds \X Rounds)
  BY RoundsOf
<1>3. QED
  BY <1>1, <1>2, BagFinite

LEMMA AheadLess ==
    ASSUME NEW q \in [Kinds -> Nat], NEW h \in [Kinds -> Nat],
           NEW r \in [Kinds -> Nat], NEW i \in [Kinds -> Nat],
           \A k \in Kinds : r[k] + i[k] <= q[k] + h[k]
    PROVE  Size(Ahead(r, i)) <= Size(Ahead(q, h))
<1>1. \A w \in Kinds \X Rounds : Ahead(r, i)[w] <= Ahead(q, h)[w]
  BY DEF Ahead
<1>2. IsFiniteSet(Kinds \X Rounds)
  BY RoundsOf
<1>3. QED
  BY <1>1, <1>2, AheadType, SizeLess

LEMMA AheadBegin ==
    ASSUME NEW f \in [Agents -> Nat], NEW q \in [Kinds -> Nat],
           \A k \in Kinds : q[k] = IF k[2] = 0 THEN f[k[1]] ELSE 0
    PROVE  Size(Ahead(q, Empty)) = MaxReceives * Size(f)
<1> DEFINE W == Kinds \X Rounds
           V == Agents \X Rounds
           each == [w \in V |-> f[w[1]]]
           move == [w \in V |-> <<<<w[1], 0>>, w[2]>>]
           all == Ahead(q, Empty)
<1>1. each \in [V -> Nat] /\ \A w \in V : each[w] = f[w[1]]
  OBVIOUS
<1>2. Size(each) = MaxReceives * Size(f)
  <2>1. IsFiniteSet(Agents) /\ IsFiniteSet(Rounds) /\ Cardinality(Rounds) = MaxReceives
    BY KindsOf, RoundsOf
  <2>2. Size(each) = Cardinality(Rounds) * Size(f)
    BY <2>1, SizeTimes, ZenonT(30)
  <2>3. QED
    BY <2>1, <2>2
<1>3. all \in [W -> Nat]
  BY NoneLeft, AheadType
<1>4. move \in [V -> W] /\ \A v, w \in V : move[v] = move[w] => v = w
  <2>1. \A a \in Agents : <<a, 0>> \in Kinds
    BY KindsOf
  <2>2. move \in [V -> W]
    BY <2>1
  <2>3. ASSUME NEW v \in V, NEW w \in V, move[v] = move[w] PROVE v = w
    <3>1. <<<<v[1], 0>>, v[2]>> = <<<<w[1], 0>>, w[2]>>
      BY <2>3
    <3>2. v[1] = w[1] /\ v[2] = w[2]
      BY <3>1
    <3>3. QED
      BY <3>2
  <2>4. QED
    BY <2>2, <2>3
<1>5. \A w \in V : all[move[w]] = each[w]
  <2> SUFFICES ASSUME NEW a \in Agents, NEW j \in Rounds
               PROVE  all[<<<<a, 0>>, j>>] = f[a]
    OBVIOUS
  <2>1. <<a, 0>> \in Kinds /\ <<a, 0>>[1] = a /\ <<a, 0>>[2] = 0 /\ j > 0
    <3>1. j > 0
      BY DEF Rounds
    <3>2. QED
      BY <3>1, KindsOf
  <2>2. Empty[<<a, 0>>] = 0 /\ q[<<a, 0>>] = f[a] /\ f[a] \in Nat
    BY <2>1 DEF Empty
  <2>3. QED
    BY <2>1, <2>2 DEF Ahead
<1>6. \A e \in W : all[e] > 0 => \E w \in V : e = move[w]
  <2> SUFFICES ASSUME NEW k \in Kinds, NEW j \in Rounds, all[<<k, j>>] > 0
               PROVE  \E w \in V : <<k, j>> = move[w]
    OBVIOUS
  <2>1. Empty[k] = 0 /\ q[k] \in Nat
    BY DEF Empty
  <2>2. q[k] > 0
    BY <2>1 DEF Ahead
  <2>3. k[2] = 0 /\ k[1] \in Agents /\ k = <<k[1], 0>>
    BY <2>2, KindsOf
  <2>4. <<k[1], j>> \in V /\ move[<<k[1], j>>] = <<k, j>>
    BY <2>3
  <2>5. QED
    BY <2>4
<1>7. IsFiniteSet(V)
  BY RoundsOf
<1> HIDE DEF each, move, all, V, W
<1>8. Size(all) = Size(each)
  BY <1>1, <1>3, <1>4, <1>5, <1>6, <1>7, SizeMoved
<1>9. QED
  BY <1>2, <1>8 DEF all

\* A receive takes one from each message received.
LEMMA AheadReceive ==
    ASSUME NEW q \in [Kinds -> Nat], NEW r \in [Kinds -> Nat], NEW h \in [Kinds -> Nat], NEW b \in [Live -> Nat],
           \A k \in Live : q[k] = r[k] + b[k],
           \A k \in Kinds : h[k] = IF k[2] = 0 THEN 0 ELSE b[<<k[1], k[2] - 1>>]
    PROVE  Size(Ahead(q, Empty)) = Size(Ahead(r, h)) + Size(b)
<1> DEFINE W == Kinds \X Rounds
           V == Live \X Rounds
           before == Ahead(q, Empty)
           after == Ahead(r, h)
           stay == Ahead(r, Empty)
           come == Ahead(Empty, h)
           go == [w \in W |-> IF w[1] \in Live /\ w[2] > w[1][2] THEN b[w[1]] ELSE 0]
           out == [w \in V |-> IF w[2] > w[1][2] THEN b[w[1]] ELSE 0]
           now == [w \in V |-> IF w[2] = w[1][2] + 1 THEN b[w[1]] ELSE 0]
           later == [w \in V |-> IF w[2] > w[1][2] + 1 THEN b[w[1]] ELSE 0]
<1>1. IsFiniteSet(W) /\ IsFiniteSet(V) /\ IsFiniteSet(Live)
  BY RoundsOf, KindsOf
<1>2. /\ before \in [W -> Nat] /\ after \in [W -> Nat] /\ stay \in [W -> Nat] /\ come \in [W -> Nat]
      /\ Size(stay) \in Nat
  BY NoneLeft, AheadType
<1>3. go \in [W -> Nat] /\ out \in [V -> Nat] /\ now \in [V -> Nat] /\ later \in [V -> Nat]
  OBVIOUS
<1>4. \A k \in Kinds : Empty[k] = 0
  BY DEF Empty
<1>5. Size(after) = Size(stay) + Size(come)
  <2>1. \A w \in W : after[w] = stay[w] + come[w]
    BY <1>4 DEF Ahead
  <2> HIDE DEF after, stay, come, W
  <2>2. QED
    BY <1>1, <1>2, <2>1, SizePlus
<1>6. Size(before) = Size(stay) + Size(go)
  <2>1. \A w \in W : before[w] = stay[w] + go[w]
    <3> SUFFICES ASSUME NEW w \in W PROVE before[w] = stay[w] + go[w]
      OBVIOUS
    <3> DEFINE k == w[1]
               j == w[2]
    <3>0. k \in Kinds /\ j \in Rounds /\ w = <<k, j>>
      OBVIOUS
    <3>1. CASE k \in Live
      <4>1. q[k] \in Nat /\ r[k] \in Nat /\ b[k] \in Nat /\ q[k] = r[k] + b[k] /\ Empty[k] = 0
        BY <1>4, <3>0, <3>1
      <4>2. QED
        BY <3>0, <3>1, <4>1 DEF Ahead
    <3>2. CASE k \notin Live
      <4>1. ~ (j > k[2])
        BY <3>0, <3>2, KindsOf DEF Rounds
      <4>2. QED
        BY <3>0, <3>2, <4>1 DEF Ahead
    <3>3. QED
      BY <3>1, <3>2
  <2> HIDE DEF before, stay, go, W
  <2>2. QED
    BY <1>1, <1>2, <1>3, <2>1, SizePlus
<1>7. Size(go) = Size(out)
  <2> DEFINE move == [w \in V |-> w]
  <2>1. /\ move \in [V -> W] /\ \A v, w \in V : move[v] = move[w] => v = w
        /\ \A w \in V : go[move[w]] = out[w]
        /\ \A e \in W : go[e] > 0 => \E w \in V : e = move[w]
    BY KindsOf
  <2> HIDE DEF move, go, out, V, W
  <2>2. QED
    BY <1>1, <1>3, <2>1, SizeMoved
<1>8. Size(out) = Size(now) + Size(later)
  <2>1. \A w \in V : out[w] = now[w] + later[w]
    <3> SUFFICES ASSUME NEW w \in V PROVE out[w] = now[w] + later[w]
      OBVIOUS
    <3> DEFINE k == w[1]
               j == w[2]
    <3>1. k \in Live /\ j \in Rounds
      OBVIOUS
    <3>2. j \in Int /\ k[2] \in Int /\ b[k] \in Nat
      BY <3>1, KindsOf DEF Rounds
    <3>3. /\ out[w] = IF j > k[2] THEN b[k] ELSE 0
          /\ now[w] = IF j = k[2] + 1 THEN b[k] ELSE 0
          /\ later[w] = IF j > k[2] + 1 THEN b[k] ELSE 0
      OBVIOUS
    <3> HIDE DEF out, now, later, k, j
    <3>4. QED
      BY <3>2, <3>3
  <2> HIDE DEF out, now, later, V
  <2>2. QED
    BY <1>1, <1>3, <2>1, SizePlus
<1>9. Size(now) = Size(b)
  <2> DEFINE move == [k \in Live |-> <<k, k[2] + 1>>]
  <2>1. move \in [Live -> V] /\ \A k \in Live : now[move[k]] = b[k]
    <3>1. \A k \in Live : k[2] + 1 \in Rounds
      <4>1. \A k \in Live : k[2] \in 0..MaxReceives - 1
        BY KindsOf
      <4>2. MaxReceives \in Nat
        BY KindsOf
      <4>3. QED
        BY <4>1, <4>2 DEF Rounds
    <3>2. QED
      BY <3>1
  <2>2. \A j, k \in Live : move[j] = move[k] => j = k
    OBVIOUS
  <2>3. \A e \in V : now[e] > 0 => \E k \in Live : e = move[k]
    BY KindsOf
  <2> HIDE DEF move, now, V
  <2>4. QED
    BY <1>1, <1>3, <2>1, <2>2, <2>3, SizeMoved
<1>10. Size(come) = Size(later)
  <2> DEFINE move == [w \in V |-> <<<<w[1][1], w[1][2] + 1>>, w[2]>>]
  <2>1. move \in [V -> W] /\ \A v, w \in V : move[v] = move[w] => v = w
    <3>1. \A k \in Live : <<k[1], k[2] + 1>> \in Kinds
      BY KindsOf
    <3>2. move \in [V -> W]
      BY <3>1
    <3>3. ASSUME NEW v \in V, NEW w \in V, move[v] = move[w] PROVE v = w
      <4>1. <<<<v[1][1], v[1][2] + 1>>, v[2]>> = <<<<w[1][1], w[1][2] + 1>>, w[2]>>
        BY <3>3
      <4>2. v[1][1] = w[1][1] /\ v[1][2] + 1 = w[1][2] + 1 /\ v[2] = w[2]
        BY <4>1
      <4>3. v[1][2] \in Int /\ w[1][2] \in Int /\ v[1] = <<v[1][1], v[1][2]>> /\ w[1] = <<w[1][1], w[1][2]>>
        BY KindsOf
      <4>4. v[1] = w[1]
        BY <4>2, <4>3
      <4>5. QED
        BY <4>2, <4>4
    <3>4. QED
      BY <3>2, <3>3
  <2>2. \A w \in V : come[move[w]] = later[w]
    <3> SUFFICES ASSUME NEW k \in Live, NEW j \in Rounds
                 PROVE  come[<<<<k[1], k[2] + 1>>, j>>] = later[<<k, j>>]
      OBVIOUS
    <3> DEFINE l == <<k[1], k[2] + 1>>
    <3>0. k \in Kinds /\ k[2] \in 0..MaxReceives - 1 /\ k = <<k[1], k[2]>> /\ l \in Kinds
      BY KindsOf
    <3>1. l \in Kinds /\ l[2] = k[2] + 1 /\ l[2] # 0 /\ <<l[1], l[2] - 1>> = k /\ k[2] \in Nat
      <4>1. l[1] = k[1] /\ l[2] = k[2] + 1
        OBVIOUS
      <4>2. k[2] \in Nat /\ (k[2] + 1) - 1 = k[2] /\ k[2] + 1 # 0
        BY <3>0
      <4> HIDE DEF l
      <4>3. QED
        BY <3>0, <4>1, <4>2
    <3>2. h[l] = b[k] /\ b[k] \in Nat /\ Empty[l] = 0
      BY <1>4, <3>1
    <3>3. come[<<l, j>>] = IF j > l[2] THEN b[k] ELSE 0
      BY <3>1, <3>2 DEF Ahead
    <3>4. QED
      BY <3>1, <3>3
  <2>3. \A e \in W : come[e] > 0 => \E w \in V : e = move[w]
    <3> SUFFICES ASSUME NEW k \in Kinds, NEW j \in Rounds, come[<<k, j>>] > 0
                 PROVE  \E w \in V : <<k, j>> = move[w]
      OBVIOUS
    <3>1. h[k] # 0
      BY <1>4 DEF Ahead
    <3>2. k[2] # 0
      BY <3>1
    <3> DEFINE l == <<k[1], k[2] - 1>>
    <3>3. l \in Live /\ <<l[1], l[2] + 1>> = k
      BY <3>2, KindsOf DEF Live
    <3>4. <<l, j>> \in V /\ move[<<l, j>>] = <<k, j>>
      BY <3>3
    <3>5. QED
      BY <3>4
  <2>4. IsFiniteSet(V) /\ later \in [V -> Nat] /\ come \in [W -> Nat]
    BY <1>1, <1>2, <1>3
  <2> HIDE DEF move, come, later, V, W
  <2>5. QED
    BY <2>1, <2>2, <2>3, <2>4, SizeMoved
<1>11. Size(b) \in Nat /\ Size(later) \in Nat
  BY <1>1, <1>3, BagFinite
<1> HIDE DEF before, after, stay, come, go, out, now, later, W, V
<1>12. QED
  <2>1. Size(before) = Size(after) + Size(b)
    BY <1>2, <1>5, <1>6, <1>7, <1>8, <1>9, <1>10, <1>11
  <2>2. QED
    BY <2>1 DEF before, after
-----------------------------------------------------------------------------
(* The inductive invariant. *)

\* Until the fan-out has returned there is nothing; a batch is in hand only in the loop.
Phases ==
    /\ drain.step = "wait" =>
          /\ drain.batches = 0 /\ drain.emails_sent = 0 /\ drain.duplicates = 0 /\ drain.quarantined = 0
          /\ hand = Empty /\ dlq = None
    /\ drain.step = "ended" => hand = Empty
    /\ drain.step # "wait" => At(own, "done") /\ drain.budget = dispatch_batch_budget(run[own].enqueued)

\* An agent that was sent a message is settled, or a message of its is on the way.
Placed ==
    drain.step # "wait" => \A a \in Agents : copies[own][a] > 0 =>
        \/ a \in Unreachable \/ register[a] \in {"done", "dead"} \/ dlq[a] > 0
        \/ \E k \in Kinds : k[1] = a /\ (queue[k] > 0 \/ hand[k] > 0)

\* Of the batches, some were full, and each of the others had every message still live: what they
\* received is gone from the receives the messages had before them at the start.
Paced(full, partial) ==
    /\ drain.batches = full + partial /\ partial <= MaxReceives
    /\ full * BatchSize + partial + Size(Ahead(queue, hand)) <= MaxReceives * Size(copies[own])
    /\ \A k \in Kinds : queue[k] > 0 \/ hand[k] > 0 => k[2] >= partial

\* The loop ends because nothing was left, or on its budget.
Stopped == drain.step = "ended" => Size(queue) = 0 \/ drain.batches = drain.budget

Budgeted == (drain.step # "wait" => \E full, partial \in Nat : Paced(full, partial)) /\ Stopped

PInv == IInv /\ DrainTypeOK /\ Phases /\ DrainAccounted /\ Placed /\ Budgeted
-----------------------------------------------------------------------------
(* It holds at first, and the fan-out keeps it. *)

LEMMA InitPInv == PipelineInit => PInv
<1> SUFFICES ASSUME PipelineInit PROVE PInv
  OBVIOUS
<1>1. IInv
  BY InitIInv DEF PipelineInit
<1>2. /\ drain = [step |-> "wait", batches |-> 0, budget |-> 0, emails_sent |-> 0,
                  duplicates |-> 0, quarantined |-> 0, failed |-> 0]
      /\ queue = Empty /\ hand = Empty /\ dlq = None /\ register = [a \in Agents |-> "free"]
  BY DEF PipelineInit, DrainInit
<1>3. DrainTypeOK
  BY <1>2, NoneLeft DEF DrainTypeOK
<1>4. {a \in Agents : register[a] = "done"} = {}
  BY <1>2
<1>5. DrainAccounted
  BY <1>2, <1>4, FS_EmptySet DEF DrainAccounted
<1>6. QED
  BY <1>1, <1>2, <1>3, <1>5 DEF PInv, Phases, Placed, Budgeted, Stopped

LEMMA OwnRun == own \in Runs
BY PipelineAssumption

\* Once over, an invocation stays as it is, whatever the others do.
LEMMA OwnDone ==
    ASSUME IInv, At(own, "done"), [Next]_vars
    PROVE  run'[own] = run[own] /\ copies'[own] = copies[own] /\ unheard'[own] = unheard[own]
<1>1. CASE Emptied \/ \E a \in Agents : Report(a)
  BY <1>1 DEF Emptied, Report
<1>2. ASSUME NEW r \in Runs, Proceed(r) \/ Die(r)
      PROVE  run'[own] = run[own] /\ copies'[own] = copies[own] /\ unheard'[own] = unheard[own]
  <2>1. Kept(r) /\ ~ At(r, "done")
    BY <1>2, StepSound DEF IInv
  <2>2. own \in Runs \ {r}
    BY <2>1, OwnRun
  <2>3. QED
    BY <2>1, <2>2 DEF Kept, Alone
<1>3. CASE UNCHANGED vars
  BY <1>3 DEF vars
<1>4. QED
  BY <1>1, <1>2, <1>3 DEF Next, Invocations

LEMMA FanoutPInv ==
    ASSUME PInv, [Next]_vars, UNCHANGED drainVars
    PROVE  PInv'
<1>1. drain' = drain /\ queue' = queue /\ hand' = hand /\ dlq' = dlq /\ register' = register
  BY DEF drainVars
<1>2. IInv'
  BY NextIInv DEF PInv
<1>3. DrainTypeOK'
  BY <1>1 DEF PInv, DrainTypeOK
<1>4. drain.step # "wait" =>
        run'[own] = run[own] /\ copies'[own] = copies[own] /\ unheard'[own] = unheard[own]
  BY OwnDone DEF PInv, Phases
<1>5. Phases'
  BY <1>1, <1>4 DEF PInv, Phases, At
<1>6. DrainAccounted'
  BY <1>1, <1>4 DEF PInv, DrainAccounted
<1>7. Placed'
  BY <1>1, <1>4 DEF PInv, Placed
<1>8. \A full, partial : drain.step # "wait" => (Paced(full, partial)' <=> Paced(full, partial))
  BY <1>1, <1>4 DEF Paced
<1>9. Budgeted'
  BY <1>1, <1>8 DEF PInv, Budgeted, Stopped
<1>10. QED
  BY <1>2, <1>3, <1>5, <1>6, <1>7, <1>9 DEF PInv

\* The types of the sizes that are compared.
LEMMA OwnSize ==
    ASSUME IInv
    PROVE  /\ copies[own] \in [Agents -> Nat] /\ Size(copies[own]) \in Nat
           /\ unheard[own] \in [Agents -> Nat] /\ Size(unheard[own]) \in Nat
<1>1. copies[own] \in [Agents -> Nat] /\ unheard[own] \in [Agents -> Nat]
  BY OwnRun DEF IInv, TypeOK
<1>2. QED
  BY <1>1, KindsOf, BagFinite

LEMMA BeginPInv ==
    ASSUME PInv, BeginDrain
    PROVE  PInv'
<1>1. /\ drain.step = "wait" /\ At(own, "done") /\ UNCHANGED vars
      /\ hand' = hand /\ dlq' = dlq /\ register' = register
      /\ hand = Empty /\ dlq = None /\ drain.batches = 0
      /\ drain.emails_sent = 0 /\ drain.duplicates = 0 /\ drain.quarantined = 0
  BY DEF BeginDrain, PInv, Phases
<1>2. IInv'
  BY <1>1, StutterIInv DEF PInv
<1>3. /\ drain' \in Drains /\ drain'.step = "loop"
      /\ drain'.budget = dispatch_batch_budget(run[own].enqueued) /\ drain'.batches = drain.batches
      /\ drain'.emails_sent = drain.emails_sent /\ drain'.duplicates = drain.duplicates
      /\ drain'.quarantined = drain.quarantined
      /\ queue' \in [Kinds -> Nat] /\ Size(queue') = Size(copies[own])
      /\ \A k \in Kinds : queue'[k] = IF k[2] = 0 THEN copies[own][k[1]] ELSE 0
  BY BeginEffect DEF PInv, IInv
<1>4. run' = run /\ copies' = copies
  BY <1>1 DEF vars
<1>5. DrainTypeOK'
  BY <1>1, <1>3 DEF PInv, DrainTypeOK, Drains
<1>6. Phases'
  BY <1>1, <1>3, <1>4 DEF Phases, At
<1>7. DrainAccounted'
  <2>1. drain'.emails_sent = Cardinality({a \in Agents : register'[a] = "done"})
    BY <1>1, <1>3 DEF PInv, DrainAccounted
  <2>2. Size(queue') \in Nat /\ Size(hand') = 0 /\ Size(dlq') = 0
    BY <1>1, <1>3, NoneLeft, OwnSize DEF PInv
  <2>3. QED
    BY <1>1, <1>3, <1>4, <2>1, <2>2 DEF DrainAccounted
<1>8. Placed'
  <2> SUFFICES ASSUME NEW a \in Agents, copies[own][a] > 0
               PROVE  \E k \in Kinds : k[1] = a /\ queue'[k] > 0
    BY <1>4 DEF Placed
  <2>1. <<a, 0>> \in Kinds /\ <<a, 0>>[1] = a /\ <<a, 0>>[2] = 0
    BY KindsOf
  <2>2. QED
    BY <1>3, <2>1
<1>9. Paced(0, 0)'
  <2>1. Size(Ahead(queue', hand')) = MaxReceives * Size(copies[own])
    BY <1>1, <1>3, OwnSize, AheadBegin DEF PInv
  <2>2. MaxReceives \in Nat /\ Size(copies[own]) \in Nat /\ BatchSize \in Nat
    BY KindsOf, OwnSize, ConstantsAssumption DEF PInv
  <2>3. MaxReceives * Size(copies[own]) \in Nat /\ 0 * BatchSize = 0
    BY <2>2
  <2>4. \A k \in Kinds : k[2] >= 0
    BY KindsOf
  <2>5. QED
    BY <1>1, <1>3, <1>4, <2>1, <2>2, <2>3, <2>4 DEF Paced
<1>10. Budgeted'
  BY <1>3, <1>9 DEF Budgeted, Stopped
<1>11. QED
  BY <1>2, <1>5, <1>6, <1>7, <1>8, <1>10 DEF PInv
-----------------------------------------------------------------------------
(* Receives. *)

LEMMA ReceivePInv ==
    ASSUME PInv, Receive
    PROVE  PInv'
<1>1. /\ drain.step = "loop" /\ hand = Empty /\ drain.batches < drain.budget
      /\ register' = register /\ UNCHANGED vars
  BY DEF Receive, Rest
<1> DEFINE Received(b, p) ==
        /\ queue' = [k \in Kinds |-> queue[k] - (IF k \in Live THEN b[k] ELSE p[k[1]])]
        /\ hand' = [k \in Kinds |-> IF k[2] = 0 THEN 0 ELSE b[<<k[1], k[2] - 1>>]]
        /\ dlq' = [a \in Agents |-> dlq[a] + p[a]]
        /\ drain' = IF Size(b) = 0 THEN [drain EXCEPT !.step = "ended"]
                                   ELSE [drain EXCEPT !.batches = @ + 1]
<1>0. PICK b \in Batches : \E p \in Passed(b) : Received(b, p)
  BY DEF Receive
<1>2. PICK p \in Passed(b) : Received(b, p)
  BY <1>0
<1>3. /\ queue' \in [Kinds -> Nat] /\ hand' \in [Kinds -> Nat] /\ dlq' \in [Agents -> Nat]
      /\ b \in [Live -> Nat] /\ Size(b) \in Nat /\ Size(b) <= BatchSize
      /\ p \in [Agents -> Nat] /\ Size(p) \in Nat
      /\ Size(queue) = Size(queue') + Size(b) + Size(p)
      /\ Size(hand') = Size(b) /\ Size(dlq') = Size(dlq) + Size(p)
  BY <1>2, ReceiveEffect DEF PInv
<1>4. /\ drain' \in Drains /\ drain'.budget = drain.budget /\ drain'.emails_sent = drain.emails_sent
      /\ drain'.duplicates = drain.duplicates /\ drain'.quarantined = drain.quarantined
      /\ Size(b) = 0 => drain'.step = "ended" /\ drain'.batches = drain.batches
      /\ Size(b) # 0 => drain'.step = "loop" /\ drain'.batches = drain.batches + 1
  <2>1. drain \in Drains
    BY DEF PInv, DrainTypeOK, Drains
  <2>2. CASE Size(b) = 0
    BY <1>1, <1>2, <2>1, <2>2 DEF Drains
  <2>3. CASE Size(b) # 0
    BY <1>1, <1>2, <2>1, <2>3 DEF Drains
  <2>4. QED
    BY <2>2, <2>3
<1>5. run' = run /\ copies' = copies
  BY <1>1 DEF vars
<1>6. IInv'
  BY <1>1, StutterIInv DEF PInv
<1>7. DrainTypeOK'
  BY <1>1, <1>3, <1>4 DEF PInv, DrainTypeOK, Drains
\* Where each message of the queue has gone.
<1>8. /\ \A k \in Live : queue[k] = queue'[k] + b[k]
      /\ \A a \in Agents : queue[<<a, MaxReceives>>] = queue'[<<a, MaxReceives>>] + p[a] /\ dlq'[a] = dlq[a] + p[a]
      /\ \A k \in Kinds : hand'[k] = IF k[2] = 0 THEN 0 ELSE b[<<k[1], k[2] - 1>>]
  <2>1. queue \in [Kinds -> Nat] /\ dlq \in [Agents -> Nat]
    BY DEF PInv, DrainTypeOK
  <2>2. \A k \in Live : queue[k] = queue'[k] + b[k]
    BY <1>2, <1>3, <2>1, KindsOf
  <2>3. \A a \in Agents : queue[<<a, MaxReceives>>] = queue'[<<a, MaxReceives>>] + p[a]
    <3> TAKE a \in Agents
    <3> DEFINE k == <<a, MaxReceives>>
    <3>1. k \in Kinds /\ k \notin Live /\ k[1] = a
      BY KindsOf
    <3> HIDE DEF k
    <3>2. queue'[k] = queue[k] - p[a]
      BY <1>2, <3>1
    <3>3. queue[k] \in Nat /\ p[a] \in Nat
      BY <1>3, <2>1, <3>1
    <3>4. QED
      BY <3>2, <3>3 DEF k
  <2>4. QED
    BY <1>2, <2>2, <2>3
<1>9. \A k \in Kinds : queue[k] \in Nat /\ queue'[k] \in Nat /\ queue'[k] <= queue[k]
  <2>1. queue \in [Kinds -> Nat]
    BY DEF PInv, DrainTypeOK
  <2> SUFFICES ASSUME NEW k \in Kinds PROVE queue'[k] <= queue[k]
    BY <1>3, <2>1
  <2>2. CASE k \in Live
    BY <1>3, <1>8, <2>1, <2>2
  <2>3. CASE k \notin Live
    <3>1. k[1] \in Agents /\ k = <<k[1], MaxReceives>>
      BY <2>3, KindsOf
    <3>2. queue[k] = queue'[k] + p[k[1]] /\ p[k[1]] \in Nat
      BY <1>3, <1>8, <3>1
    <3>3. QED
      BY <1>3, <2>1, <3>2
  <2>4. QED
    BY <2>2, <2>3
<1>10. \A k \in Kinds : hand'[k] > 0 =>
          \E l \in Live : l[1] = k[1] /\ l[2] = k[2] - 1 /\ b[l] > 0 /\ queue[l] > 0
  <2> SUFFICES ASSUME NEW k \in Kinds, hand'[k] > 0
               PROVE  \E l \in Live : l[1] = k[1] /\ l[2] = k[2] - 1 /\ b[l] > 0 /\ queue[l] > 0
    OBVIOUS
  <2> DEFINE l == <<k[1], k[2] - 1>>
  <2>1. k[2] # 0 /\ b[l] > 0
    BY <1>8
  <2>2. l \in Live
    BY <2>1, KindsOf DEF Live
  <2>3. l[1] = k[1] /\ l[2] = k[2] - 1
    OBVIOUS
  <2> HIDE DEF l
  <2>4. b[l] \in Nat /\ queue'[l] \in Nat /\ queue[l] = queue'[l] + b[l]
    BY <1>3, <1>8, <2>2, KindsOf
  <2>5. QED
    BY <2>1, <2>2, <2>3, <2>4
<1>11. Phases'
  <2>1. Size(b) = 0 => hand' = Empty
    <3>1. Size(b) = 0 => \A k \in Kinds : hand'[k] = 0
      BY <1>3, KindsOf, SizeZero
    <3>2. QED
      BY <1>3, <3>1 DEF Empty
  <2>2. QED
    BY <1>1, <1>4, <1>5, <2>1 DEF PInv, Phases, At
<1>12. DrainAccounted'
  <2>1. /\ drain.emails_sent \in Nat /\ drain.duplicates \in Nat /\ drain.quarantined \in Nat
        /\ Size(queue') \in Nat /\ Size(dlq) \in Nat /\ Size(hand) = 0
    BY <1>1, <1>3, NoneLeft, KindsOf, BagFinite, Sizes DEF PInv, DrainTypeOK
  <2>2. drain.emails_sent + drain.duplicates + drain.quarantined + Size(queue) + Size(hand) + Size(dlq)
          = Size(copies[own])
    BY <1>1 DEF PInv, DrainAccounted
  <2>3. drain'.emails_sent = Cardinality({a \in Agents : register'[a] = "done"})
    BY <1>1, <1>4 DEF PInv, DrainAccounted
  <2>4. drain'.emails_sent + drain'.duplicates + drain'.quarantined + Size(queue') + Size(hand') + Size(dlq')
          = Size(copies[own])
    BY <1>3, <1>4, <2>1, <2>2
  <2>5. QED
    BY <1>5, <2>3, <2>4 DEF DrainAccounted
<1>13. Placed'
  <2> SUFFICES ASSUME NEW a \in Agents, copies[own][a] > 0,
                      ~ (a \in Unreachable \/ register[a] \in {"done", "dead"})
               PROVE  dlq'[a] > 0 \/ \E k \in Kinds : k[1] = a /\ (queue'[k] > 0 \/ hand'[k] > 0)
    BY <1>1, <1>5 DEF Placed
  <2>1. dlq[a] \in Nat /\ p[a] \in Nat /\ dlq'[a] = dlq[a] + p[a]
    BY <1>3, <1>8 DEF PInv, DrainTypeOK
  <2>2. CASE dlq[a] > 0
    BY <2>1, <2>2
  <2>3. CASE \E k \in Kinds : k[1] = a /\ queue[k] > 0
    <3>1. PICK k \in Kinds : k[1] = a /\ queue[k] > 0
      BY <2>3
    <3>2. CASE k \in Live /\ b[k] > 0
      <4> DEFINE l == <<k[1], k[2] + 1>>
      <4>1. l \in Kinds /\ l[1] = a /\ k[2] \in Nat /\ k = <<k[1], k[2]>>
        BY <3>1, <3>2, KindsOf
      <4>2. l[2] # 0 /\ <<l[1], l[2] - 1>> = k
        BY <4>1
      <4>3. hand'[l] = b[k]
        BY <1>8, <4>1, <4>2
      <4>4. QED
        BY <3>2, <4>1, <4>3
    <3>3. CASE k \in Live /\ ~ (b[k] > 0)
      BY <1>3, <1>8, <3>1, <3>3
    <3>4. CASE k \notin Live
      <4>1. k = <<a, MaxReceives>>
        BY <3>1, <3>4, KindsOf
      <4>2. queue[k] = queue'[k] + p[a] /\ queue'[k] \in Nat
        BY <1>3, <1>8, <4>1
      <4>3. QED
        BY <2>1, <3>1, <4>2
    <3>5. QED
      BY <3>2, <3>3, <3>4
  <2>4. QED
    <3>1. \A k \in Kinds : ~ (hand[k] > 0)
      BY <1>1 DEF Empty
    <3>2. QED
      BY <1>1, <2>2, <2>3, <3>1 DEF PInv, Placed
<1>14. Stopped'
  <2> SUFFICES ASSUME Size(b) = 0 PROVE Size(queue') = 0
    BY <1>4 DEF Stopped
  <2>1. /\ \A k \in Live : b[k] = queue[k]
        /\ \A a \in Agents : p[a] = queue[<<a, MaxReceives>>]
    BY ConstantsAssumption DEF Batches, Passed
  <2>2. \A k \in Kinds : queue'[k] = 0
    <3> TAKE k \in Kinds
    <3>1. CASE k \in Live
      BY <1>3, <1>8, <1>9, <2>1, <3>1
    <3>2. CASE k \notin Live
      <4>1. k[1] \in Agents /\ k = <<k[1], MaxReceives>>
        BY <3>2, KindsOf
      <4>2. queue[k] = queue'[k] + p[k[1]] /\ p[k[1]] = queue[k]
        BY <1>8, <2>1, <4>1
      <4>3. QED
        BY <1>9, <4>2
    <3>3. QED
      BY <3>1, <3>2
  <2>3. QED
    BY <1>3, <2>2, KindsOf, SizeZero
<1>15. \E full, partial \in Nat : Paced(full, partial)'
  <2>1. PICK full \in Nat, partial \in Nat : Paced(full, partial)
    BY <1>1 DEF PInv, Budgeted
  <2> DEFINE ahead == Size(Ahead(queue, hand))
             left == Size(Ahead(queue', hand'))
             all == MaxReceives * Size(copies[own])
  <2>2. ahead = left + Size(b)
    <3>1. queue \in [Kinds -> Nat]
      BY DEF PInv, DrainTypeOK
    <3>2. QED
      BY <1>1, <1>3, <1>8, <3>1, AheadReceive
  <2>3. left \in Nat /\ all \in Nat /\ BatchSize \in Nat \ {0} /\ drain.batches \in Nat
    <3>1. MaxReceives \in Nat /\ Size(copies[own]) \in Nat
      BY KindsOf, OwnSize DEF PInv
    <3>2. QED
      BY <1>3, <3>1, AheadType, ConstantsAssumption DEF PInv, DrainTypeOK
  <2>4. full * BatchSize \in Nat /\ (full + 1) * BatchSize = full * BatchSize + BatchSize
    BY <2>3
  <2>5. /\ drain.batches = full + partial /\ partial <= MaxReceives /\ MaxReceives \in Nat
        /\ full * BatchSize + partial + ahead <= all
        /\ \A k \in Kinds : queue[k] > 0 => k[2] >= partial
    BY <2>1, KindsOf DEF Paced
  <2>6. \A k \in Kinds : /\ queue'[k] > 0 => k[2] >= partial
                         /\ hand'[k] > 0 => k[2] >= partial + 1
    <3> TAKE k \in Kinds
    <3>1. queue'[k] > 0 => k[2] >= partial
      BY <1>9, <2>5
    <3>2. ASSUME hand'[k] > 0 PROVE k[2] >= partial + 1
      <4>1. PICK l \in Live : l[2] = k[2] - 1 /\ queue[l] > 0
        BY <1>10, <3>2
      <4>2. l[2] >= partial /\ k[2] \in Int
        BY <2>5, <4>1, KindsOf
      <4>3. QED
        BY <4>1, <4>2
    <3>3. QED
      BY <3>1, <3>2
  <2>7. \A k \in Kinds : k[2] \in Int
    BY KindsOf
  <2> HIDE DEF ahead, left, all
  <2>8. CASE Size(b) = 0
    <3>1. full * BatchSize + partial + left <= all
      BY <2>2, <2>3, <2>4, <2>5, <2>8
    <3>2. \A k \in Kinds : queue'[k] > 0 \/ hand'[k] > 0 => k[2] >= partial
      BY <2>6, <2>7
    <3>3. Paced(full, partial)'
      BY <1>4, <1>5, <2>5, <2>8, <3>1, <3>2 DEF Paced, left, all
    <3>4. QED
      BY <3>3
  <2>9. CASE Size(b) = BatchSize
    <3>1. (full + 1) * BatchSize + partial + left <= all
      BY <2>2, <2>3, <2>4, <2>5, <2>9
    <3>2. \A k \in Kinds : queue'[k] > 0 \/ hand'[k] > 0 => k[2] >= partial
      BY <2>6, <2>7
    <3>3. drain'.batches = (full + 1) + partial
      BY <1>4, <2>3, <2>5, <2>9
    <3>4. Paced(full + 1, partial)'
      BY <1>5, <2>5, <3>1, <3>2, <3>3 DEF Paced, left, all
    <3>5. full + 1 \in Nat
      OBVIOUS
    <3>6. QED
      BY <3>4, <3>5
  <2>10. CASE Size(b) > 0 /\ Size(b) < BatchSize
    <3>1. full * BatchSize + (partial + 1) + left <= all
      BY <1>3, <2>2, <2>3, <2>4, <2>5, <2>10
    <3>2. \A k \in Live : b[k] = queue[k]
      BY <1>3, <2>3, <2>10 DEF Batches
    <3>3. \A k \in Kinds : queue'[k] > 0 => k[2] = MaxReceives
      BY <1>3, <1>8, <1>9, <3>2, KindsOf
    <3>4. partial + 1 <= MaxReceives
      <4>1. PICK k \in Live : b[k] # 0
        BY <1>3, <2>10, KindsOf, SizeZero
      <4>2. queue[k] > 0 /\ k \in Kinds /\ k[2] \in 0..MaxReceives - 1
        <5>1. b[k] \in Nat /\ queue[k] = b[k]
          BY <1>3, <3>2
        <5>2. queue[k] > 0
          BY <4>1, <5>1
        <5>3. k \in Kinds /\ k[2] \in 0..MaxReceives - 1
          BY KindsOf
        <5>4. QED
          BY <5>2, <5>3
      <4>3. QED
        BY <2>5, <4>2
    <3>5. \A k \in Kinds : queue'[k] > 0 \/ hand'[k] > 0 => k[2] >= partial + 1
      BY <2>6, <3>3, <3>4
    <3>6. drain'.batches = full + (partial + 1)
      BY <1>4, <2>3, <2>5, <2>10
    <3>7. Paced(full, partial + 1)'
      BY <1>5, <3>1, <3>4, <3>5, <3>6 DEF Paced, left, all
    <3>8. partial + 1 \in Nat
      OBVIOUS
    <3>9. QED
      BY <3>7, <3>8
  <2>11. QED
    BY <1>3, <2>3, <2>8, <2>9, <2>10
<1>16. QED
  BY <1>6, <1>7, <1>11, <1>12, <1>13, <1>14, <1>15 DEF PInv, Budgeted

LEMMA BudgetSpentPInv ==
    ASSUME PInv, BudgetSpent
    PROVE  PInv'
<1>1. /\ drain.step = "loop" /\ hand = Empty /\ drain.batches = drain.budget
      /\ drain' = [drain EXCEPT !.step = "ended"]
      /\ UNCHANGED <<queue, hand, dlq, register, vars>>
  BY DEF BudgetSpent, Rest
<1>2. /\ drain' \in Drains /\ drain'.step = "ended" /\ drain'.batches = drain.batches
      /\ drain'.budget = drain.budget /\ drain'.emails_sent = drain.emails_sent
      /\ drain'.duplicates = drain.duplicates /\ drain'.quarantined = drain.quarantined
  BY <1>1 DEF PInv, DrainTypeOK, Drains
<1>3. IInv' /\ run' = run /\ copies' = copies
  BY <1>1, StutterIInv DEF PInv, vars
<1>4. DrainTypeOK'
  BY <1>1, <1>2 DEF PInv, DrainTypeOK, Drains
<1>5. Phases' /\ DrainAccounted' /\ Placed'
  BY <1>1, <1>2, <1>3 DEF PInv, Phases, DrainAccounted, Placed, At
<1>6. \A full, partial : Paced(full, partial)' <=> Paced(full, partial)
  BY <1>1, <1>2, <1>3 DEF Paced
<1>7. Budgeted'
  BY <1>1, <1>2, <1>6 DEF PInv, Budgeted, Stopped
<1>8. QED
  BY <1>3, <1>4, <1>5, <1>7 DEF PInv
-----------------------------------------------------------------------------
(* Records. *)

\* A batch is only in hand in the loop.
LEMMA InLoop ==
    ASSUME PInv, NEW k \in Kinds, Taken(k)
    PROVE  drain.step = "loop"
<1>1. hand # Empty
  BY DEF Taken, Empty
<1>2. QED
  BY <1>1 DEF PInv, Phases, DrainTypeOK

\* What holds after a record that leaves the batch, whether it goes back or not.
LEMMA RecordPInv ==
    ASSUME PInv, NEW k \in Kinds, Taken(k), UNCHANGED vars, dlq' = dlq,
           queue' = queue \/ Left(k),
           NEW sent \in {0, 1}, NEW again \in {0, 1}, NEW held \in {0, 1}, Tallied(sent, again, held),
           Left(k) => sent + again + held = 0,
           ~ Left(k) => sent + again + held = 1,
           register' \in [Agents -> {"free", "done", "dead"}],
           \A a \in Agents : register[a] \in {"done", "dead"} => register'[a] = register[a],
           Cardinality({a \in Agents : register'[a] = "done"})
             = Cardinality({a \in Agents : register[a] = "done"}) + sent,
           Left(k) \/ k[1] \in Unreachable \/ register'[k[1]] \in {"done", "dead"}
    PROVE  PInv'
<1>1. /\ hand' \in [Kinds -> Nat] /\ hand[k] > 0 /\ hand'[k] = hand[k] - 1
      /\ \A j \in Kinds \ {k} : hand'[j] = hand[j]
      /\ Size(hand) = Size(hand') + 1
  BY TakenEffect DEF PInv
<1>2. /\ queue \in [Kinds -> Nat] /\ hand \in [Kinds -> Nat] /\ dlq \in [Agents -> Nat]
      /\ Size(queue) \in Nat /\ Size(hand) \in Nat /\ Size(dlq) \in Nat /\ Size(hand') \in Nat
  BY <1>1, KindsOf, BagFinite, Sizes DEF PInv, DrainTypeOK
<1>3. ~ Left(k) => queue' = queue
  OBVIOUS
<1>4. Left(k) => /\ queue' \in [Kinds -> Nat] /\ queue'[k] = queue[k] + 1
                 /\ \A j \in Kinds \ {k} : queue'[j] = queue[j]
                 /\ Size(queue') = Size(queue) + 1
  BY LeftEffect DEF PInv
<1>5. drain.step = "loop"
  BY InLoop
<1>6. run' = run /\ copies' = copies /\ IInv'
  BY StutterIInv DEF PInv, vars
<1>7. queue' \in [Kinds -> Nat]
  BY <1>2, <1>3, <1>4
<1>8. DrainTypeOK'
  BY <1>1, <1>2, <1>7 DEF PInv, DrainTypeOK, Tallied, Drains
<1>9. Phases'
  BY <1>5, <1>6 DEF PInv, Phases, Tallied, At
<1>10. DrainAccounted'
  <2>1. drain.emails_sent \in Nat /\ drain.duplicates \in Nat /\ drain.quarantined \in Nat
    BY DEF PInv, DrainTypeOK
  <2>2. drain.emails_sent + drain.duplicates + drain.quarantined + Size(queue) + Size(hand) + Size(dlq)
          = Size(copies[own])
    BY <1>5 DEF PInv, DrainAccounted
  <2>3. /\ drain'.emails_sent = drain.emails_sent + sent /\ drain'.duplicates = drain.duplicates + again
        /\ drain'.quarantined = drain.quarantined + held
    BY DEF Tallied
  <2>4. Size(queue') + (sent + again + held) = Size(queue) + 1
    BY <1>2, <1>3, <1>4
  <2>5. Size(queue') \in Nat /\ sent \in Nat /\ again \in Nat /\ held \in Nat
    BY <1>7, KindsOf, BagFinite
  <2>6. drain'.emails_sent + drain'.duplicates + drain'.quarantined + Size(queue') + Size(hand') + Size(dlq)
          = Size(copies[own])
    BY <1>1, <1>2, <2>1, <2>2, <2>3, <2>4, <2>5
  <2>7. drain'.emails_sent = Cardinality({a \in Agents : register'[a] = "done"})
    BY <2>3 DEF PInv, DrainAccounted
  <2>8. QED
    BY <1>6, <2>6, <2>7 DEF DrainAccounted
<1>11. Placed'
  <2> SUFFICES ASSUME NEW a \in Agents, copies[own][a] > 0,
                      ~ (a \in Unreachable \/ register'[a] \in {"done", "dead"} \/ dlq[a] > 0)
               PROVE  \E j \in Kinds : j[1] = a /\ (queue'[j] > 0 \/ hand'[j] > 0)
    BY <1>6 DEF Placed
  <2>1. CASE a = k[1]
    <3>1. queue'[k] = queue[k] + 1 /\ queue[k] \in Nat
      BY <1>2, <1>4, <2>1
    <3>2. QED
      BY <2>1, <3>1
  <2>2. CASE a # k[1]
    <3>1. PICK j \in Kinds : j[1] = a /\ (queue[j] > 0 \/ hand[j] > 0)
      BY <1>5 DEF PInv, Placed
    <3>2. queue'[j] = queue[j] /\ hand'[j] = hand[j]
      BY <1>1, <1>3, <1>4, <2>2, <3>1
    <3>3. QED
      BY <3>1, <3>2
  <2>3. QED
    BY <2>1, <2>2
<1>12. \A full, partial \in Nat : Paced(full, partial) => Paced(full, partial)'
  <2>1. \A j \in Kinds : queue'[j] + hand'[j] <= queue[j] + hand[j]
    <3> SUFFICES ASSUME NEW j \in Kinds PROVE queue'[j] + hand'[j] <= queue[j] + hand[j]
      OBVIOUS
    <3>1. queue[j] \in Nat /\ hand[j] \in Nat
      BY <1>2
    <3>2. QED
      BY <1>1, <1>3, <1>4, <3>1
  <2>2. Size(Ahead(queue', hand')) <= Size(Ahead(queue, hand))
    BY <1>1, <1>2, <1>7, <2>1, AheadLess
  <2>3. \A j \in Kinds : queue'[j] > 0 \/ hand'[j] > 0 => queue[j] > 0 \/ hand[j] > 0
    BY <1>1, <1>2, <1>3, <1>4
  <2>4. Size(Ahead(queue', hand')) \in Nat /\ Size(Ahead(queue, hand)) \in Nat
    BY <1>1, <1>2, <1>7, AheadType
  <2>5. MaxReceives * Size(copies[own]) \in Nat /\ \A full \in Nat : full * BatchSize \in Nat
    <3>1. MaxReceives \in Nat /\ Size(copies[own]) \in Nat /\ BatchSize \in Nat
      BY KindsOf, OwnSize, ConstantsAssumption DEF PInv
    <3>2. QED
      BY <3>1
  <2> SUFFICES ASSUME NEW full \in Nat, NEW partial \in Nat, Paced(full, partial) PROVE Paced(full, partial)'
    OBVIOUS
  <2> DEFINE x == full * BatchSize
             all == MaxReceives * Size(copies[own])
  <2>6. x + partial + Size(Ahead(queue, hand)) <= all /\ x \in Nat /\ all \in Nat
    BY <2>5 DEF Paced
  <2> HIDE DEF x, all
  <2>7. x + partial + Size(Ahead(queue', hand')) <= all
    BY <2>2, <2>4, <2>6
  <2>8. QED
    BY <1>6, <2>3, <2>7 DEF Paced, Tallied, x, all
<1>13. Budgeted'
  BY <1>5, <1>12 DEF PInv, Budgeted, Stopped, Tallied
<1>14. QED
  BY <1>6, <1>8, <1>9, <1>10, <1>11, <1>13 DEF PInv

LEMMA RecordsPInv ==
    ASSUME PInv, NEW k \in Kinds,
           \/ Quarantined(k) \/ Sent(k) \/ Duplicate(k)
           \/ \E state \in {"free", "dead"} : Failed(k, state)
    PROVE  PInv'
<1> DEFINE emailed == {a \in Agents : register[a] = "done"}
<1>1. /\ k[1] \in Agents /\ register \in [Agents -> {"free", "done", "dead"}] /\ queue \in [Kinds -> Nat]
      /\ IsFiniteSet(emailed) /\ Cardinality(emailed) \in Nat
  BY KindsOf, FS_Subset, FS_CardinalityType DEF PInv, DrainTypeOK
<1>2. queue' = queue => ~ Left(k)
  BY <1>1 DEF Left
<1>3. CASE Quarantined(k)
  <2>1. Tallied(0, 0, 1)
    BY <1>3, RecordEffect DEF PInv
  <2>2. /\ Taken(k) /\ k[1] \in Unreachable /\ register' = register /\ queue' = queue /\ dlq' = dlq
        /\ UNCHANGED vars
    BY <1>3 DEF Quarantined
  <2>3. QED
    BY <1>1, <1>2, <2>1, <2>2, RecordPInv
<1>4. CASE Sent(k)
  <2>1. Tallied(1, 0, 0)
    BY <1>4, RecordEffect DEF PInv
  <2>2. /\ Taken(k) /\ register[k[1]] = "free" /\ register' = [register EXCEPT ![k[1]] = "done"]
        /\ queue' = queue /\ dlq' = dlq /\ UNCHANGED vars
    BY <1>4 DEF Sent
  <2>3. /\ register' \in [Agents -> {"free", "done", "dead"}] /\ register'[k[1]] = "done"
        /\ \A a \in Agents \ {k[1]} : register'[a] = register[a]
    BY <1>1, <2>2
  <2>4. {a \in Agents : register'[a] = "done"} = emailed \cup {k[1]} /\ k[1] \notin emailed
    BY <1>1, <2>2, <2>3
  <2>5. Cardinality({a \in Agents : register'[a] = "done"}) = Cardinality(emailed) + 1
    BY <1>1, <2>4, FS_AddElement
  <2>6. \A a \in Agents : register[a] \in {"done", "dead"} => register'[a] = register[a]
    BY <2>2, <2>3
  <2>7. QED
    BY <1>2, <2>1, <2>2, <2>3, <2>5, <2>6, RecordPInv
<1>5. CASE Duplicate(k)
  <2>1. Tallied(0, 1, 0)
    BY <1>5, RecordEffect DEF PInv
  <2>2. /\ Taken(k) /\ register[k[1]] \in {"done", "dead"} /\ register' = register /\ queue' = queue
        /\ dlq' = dlq /\ UNCHANGED vars
    BY <1>5 DEF Duplicate
  <2>3. QED
    BY <1>1, <1>2, <2>1, <2>2, RecordPInv
<1>6. ASSUME NEW state \in {"free", "dead"}, Failed(k, state) PROVE PInv'
  <2>1. Tallied(0, 0, 0)
    BY <1>6, RecordEffect DEF PInv
  <2>2. /\ Taken(k) /\ register[k[1]] = "free" /\ register' = [register EXCEPT ![k[1]] = state]
        /\ Left(k) /\ dlq' = dlq /\ UNCHANGED vars
    BY <1>6 DEF Failed
  <2>3. /\ register' \in [Agents -> {"free", "done", "dead"}] /\ register'[k[1]] = state
        /\ \A a \in Agents \ {k[1]} : register'[a] = register[a]
    BY <1>1, <2>2
  <2>4. {a \in Agents : register'[a] = "done"} = emailed
    BY <1>1, <2>2, <2>3
  <2>5. Cardinality({a \in Agents : register'[a] = "done"}) = Cardinality(emailed) + 0
    BY <1>1, <2>4
  <2>6. \A a \in Agents : register[a] \in {"done", "dead"} => register'[a] = register[a]
    BY <2>2, <2>3
  <2>7. QED
    BY <2>1, <2>2, <2>3, <2>5, <2>6, RecordPInv
<1>7. QED
  BY <1>3, <1>4, <1>5, <1>6

LEMMA NextPInv == PInv /\ [PipelineNext]_<<vars, drainVars>> => PInv'
<1> SUFFICES ASSUME PInv, [PipelineNext]_<<vars, drainVars>> PROVE PInv'
  OBVIOUS
<1>1. CASE FanoutStep \/ UNCHANGED <<vars, drainVars>>
  BY <1>1, FanoutPInv DEF FanoutStep
<1>2. CASE Drain
  BY <1>2, BeginPInv, ReceivePInv, BudgetSpentPInv, RecordsPInv DEF Drain
<1>3. QED
  BY <1>1, <1>2 DEF PipelineNext

LEMMA SpecPInv == PipelineSpec => []PInv
BY InitPInv, NextPInv, PTL DEF PipelineSpec
-----------------------------------------------------------------------------
(* What it implies. *)

\* The types are right, the retry count of a send within its bound and the batch in hand included
\* (retry.py:103-129, pipeline.py:369-396).
THEOREM PipelineTypesRight == PipelineSpec => []PipelineTypeOK
<1>1. PInv => PipelineTypeOK
  BY DEF PInv, IInv, PipelineTypeOK
<1>2. QED
  BY <1>1, SpecPInv, PTL

\* What the result reports, what is left and what is in the DLQ is what the fan-out sent, and
\* each agent that is done was emailed once (pipeline.py:80-108, 369-396).
THEOREM EveryMessageAccounted == PipelineSpec => []DrainAccounted
<1>1. PInv => DrainAccounted
  BY DEF PInv
<1>2. QED
  BY <1>1, SpecPInv, PTL

\* An empty queue has settled every agent that was sent a message (pipeline.py:369-400).
THEOREM EveryoneSettled == PipelineSpec => []DrainedMeansSettled
<1>1. PInv => DrainedMeansSettled
  <2> SUFFICES ASSUME PInv, drain.step = "ended", Size(queue) = 0, NEW a \in Agents, copies[own][a] > 0
               PROVE  a \in Unreachable \/ register[a] \in {"done", "dead"} \/ dlq[a] > 0
    BY DEF DrainedMeansSettled, Over
  <2>1. queue \in [Kinds -> Nat]
    BY DEF PInv, DrainTypeOK
  <2>2. \A k \in Kinds : queue[k] = 0 /\ hand[k] = 0
    BY <2>1, KindsOf, SizeZero DEF PInv, Phases, Empty
  <2>3. QED
    BY <2>2 DEF PInv, Placed
<1>2. QED
  BY <1>1, SpecPInv, PTL

\* Batches of at least B of the R * N receives that N messages may see, and R more that were not
\* full, are fewer than the budget.
LEMMA Rounded ==
    ASSUME NEW B \in Nat \ {0}, NEW R \in 1..3, NEW N \in Nat, NEW full \in Nat, NEW partial \in Nat,
           partial <= R, full * B <= R * N, NEW H \in Nat, H >= 2 * R
    PROVE  full + partial < (N \div B) * 3 + H
<1> DEFINE q == N \div B
<1>1. q \in Nat /\ N < (q + 1) * B
  OBVIOUS
<1> HIDE DEF q
<1>2. full < R * (q + 1)
  <2> SUFFICES ASSUME full >= R * (q + 1) PROVE FALSE
    BY <1>1
  <2>1. R * (q + 1) \in Nat /\ (R * (q + 1)) * B <= full * B
    BY <1>1
  <2>2. R * N < R * ((q + 1) * B)
    BY <1>1
  <2>3. R * ((q + 1) * B) = (R * (q + 1)) * B
    BY <1>1
  <2>4. R * N \in Nat /\ full * B \in Nat /\ (R * (q + 1)) * B \in Nat
    BY <1>1
  <2>5. QED
    BY <2>1, <2>2, <2>3, <2>4
<1>3. full < R * q + R
  BY <1>1, <1>2
<1>4. R * q <= 3 * q /\ R * q \in Nat
  BY <1>1
<1>5. full + partial < q * 3 + H
  BY <1>1, <1>3, <1>4
<1>6. QED
  BY <1>5 DEF q

\* The budget sees every redelivery through, however the batches fall: a message is received
\* MaxReceives times at most, and the headroom is twice that or more (pipeline.py:54-65).
THEOREM BudgetIsEnough == PipelineSpec => []BudgetSuffices
<1>1. PInv => BudgetSuffices
  <2> SUFFICES ASSUME PInv, drain.step = "ended", Size(unheard[own]) = 0 PROVE Size(queue) = 0
    BY DEF BudgetSuffices, Over
  <2>1. /\ run[own].enqueued = Cardinality(Counted(own)) /\ At(own, "done")
        /\ \A a \in Agents : copies[own][a] = unheard[own][a] + (IF a \in Counted(own) THEN 1 ELSE 0)
    BY OwnRun DEF PInv, IInv, Sound, Counts, Phases
  <2>2. Counted(own) \in SUBSET Agents
    BY OwnRun, RunTypes DEF PInv, IInv, Counted
  <2>3. \A a \in Agents : copies[own][a] = IF a \in Counted(own) THEN 1 ELSE 0
    <3>1. \A a \in Agents : unheard[own][a] = 0
      BY OwnSize, KindsOf, SizeZero DEF PInv
    <3>2. QED
      BY <2>1, <3>1
  <2>4. Size(copies[own]) = run[own].enqueued
    <3>1. copies[own] \in [Agents -> Nat]
      BY OwnSize DEF PInv
    <3>2. Messages(copies[own]) = Counted(own) \X {1}
      <4>1. Messages(copies[own]) = {m \in Agents \X (Nat \ {0}) : m[2] <= copies[own][m[1]]}
        BY <3>1, MessagesOf
      <4>2. \A m \in Agents \X (Nat \ {0}) : m[2] <= copies[own][m[1]] <=> m[1] \in Counted(own) /\ m[2] = 1
        BY <2>3
      <4>3. QED
        BY <2>2, <4>1, <4>2
    <3>3. IsFiniteSet(Counted(own)) /\ Cardinality(Counted(own)) \in Nat
      BY <2>2, AgentSets
    <3>4. Cardinality(Counted(own) \X {1}) = Cardinality(Counted(own)) * 1
      <4>1. IsFiniteSet({1}) /\ Cardinality({1}) = 1
        BY FS_Singleton
      <4>2. Cardinality(Counted(own) \X {1}) = Cardinality(Counted(own)) * Cardinality({1})
        BY <3>3, <4>1, FS_Product
      <4>3. QED
        BY <4>1, <4>2
    <3>5. QED
      BY <2>1, <3>2, <3>3, <3>4 DEF Size
  <2>5. PICK full \in Nat, partial \in Nat : Paced(full, partial)
    BY DEF PInv, Budgeted
  <2> DEFINE N == run[own].enqueued
             done == full * BatchSize
             all == MaxReceives * N
  <2>6. N \in Nat /\ BatchSize \in Nat \ {0} /\ MaxReceives \in 1..3 /\ Headroom \in Nat /\ Headroom >= 2 * MaxReceives
    BY <2>4, OwnSize, ConstantsAssumption, PipelineAssumption DEF PInv
  <2>7. Size(Ahead(queue, hand)) \in Nat /\ done \in Nat /\ all \in Nat
    BY <2>6, AheadType DEF PInv, DrainTypeOK
  <2>8. partial <= MaxReceives /\ done + partial + Size(Ahead(queue, hand)) <= all
    BY <2>4, <2>5 DEF Paced
  <2>9. done <= all
    <3> HIDE DEF done, all
    <3>1. QED
      BY <2>7, <2>8
  <2>10. full + partial < (N \div BatchSize) * 3 + Headroom
    BY <2>6, <2>8, <2>9, Rounded
  <2>11. drain.batches = full + partial /\ drain.budget = (N \div BatchSize) * 3 + Headroom
    BY <2>5 DEF Paced, PInv, Phases, dispatch_batch_budget
  <2>12. drain.batches # drain.budget
    <3>1. (N \div BatchSize) * 3 + Headroom \in Nat
      BY <2>6, BudgetType DEF dispatch_batch_budget
    <3>2. QED
      BY <2>10, <2>11, <3>1
  <2>13. QED
    BY <2>12 DEF PInv, Budgeted, Stopped
<1>2. QED
  BY <1>1, SpecPInv, PTL
=============================================================================
