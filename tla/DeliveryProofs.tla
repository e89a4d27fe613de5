--------------------------- MODULE DeliveryProofs ---------------------------
(* Theorems about Delivery for every set of messages, agents and workers   *)
(* and every lease and timeouts that ConstantsAssumption allows.           *)
EXTENDS Delivery, TLAPS

\* A step of w leaves the other invocations alone.
Alone(w) == \A v \in Workers : v # w => run'[v] = run[v]

\* What a step of w leaves of its invocation, field by field.
Keeps(w) == run'[w].batch = run[w].batch /\ run'[w].left = run[w].left
Goes(w, step, current) == run'[w].step = step /\ run'[w].current = current
Lists(w, todo, failures) == run'[w].todo = todo /\ run'[w].failures = failures

LEMMA IdleType == Idle \in Runs
BY ConstantsAssumption DEF Idle, Runs

LEMMA RunTypes ==
    ASSUME TypeOK, NEW w \in Workers
    PROVE  /\ run[w].step \in {"idle", "loop", "send", "mark"}
           /\ run[w].batch \subseteq Messages /\ run[w].todo \subseteq Messages
           /\ run[w].failures \subseteq Messages
           /\ run[w].current \in Messages \cup {Nobody}
           /\ run[w].left \in 0..LambdaTimeout /\ run[w].left \in Nat
<1>1. run[w] \in Runs
  BY DEF TypeOK
<1>2. run[w].left \in 0..LambdaTimeout
  BY <1>1 DEF Runs
<1>3. run[w].left \in Nat
  BY <1>2, ConstantsAssumption
<1>4. QED
  BY <1>1, <1>2, <1>3 DEF Runs

\* The ways an action writes w's invocation.
LEMMA DoneEffect ==
    ASSUME TypeOK, NEW w \in Workers, NEW m \in Messages, Done(w, m)
    PROVE  /\ run' \in [Workers -> Runs] /\ Alone(w) /\ Keeps(w)
           /\ Goes(w, run[w].step, run[w].current)
           /\ Lists(w, run[w].todo \ {m}, run[w].failures)
BY DEF TypeOK, Runs, Done, Alone, Keeps, Goes, Lists

LEMMA ReturnedEffect ==
    ASSUME TypeOK, NEW w \in Workers, NEW m \in Messages, Returned(w, m)
    PROVE  /\ run' \in [Workers -> Runs] /\ Alone(w) /\ Keeps(w)
           /\ Goes(w, run[w].step, run[w].current)
           /\ Lists(w, run[w].todo \ {m}, run[w].failures \cup {m})
<1>1. run' = [run EXCEPT ![w] = [run[w] EXCEPT !.todo = @ \ {m}, !.failures = @ \cup {m}]]
  BY DEF Returned
<1>2. run \in [Workers -> Runs] /\ run[w] \in Runs
  BY DEF TypeOK
<1>3. [run[w] EXCEPT !.todo = @ \ {m}, !.failures = @ \cup {m}] \in Runs
  BY <1>2 DEF Runs
<1>4. QED
  BY <1>1, <1>2, <1>3 DEF Runs, Alone, Keeps, Goes, Lists

LEMMA ClaimEffect ==
    ASSUME TypeOK, NEW w \in Workers, NEW m \in Messages, Claim(w, m)
    PROVE  /\ run' \in [Workers -> Runs] /\ Alone(w) /\ Keeps(w)
           /\ Goes(w, "send", m)
           /\ Lists(w, run[w].todo \ {m}, run[w].failures)
<1> DEFINE claimed == [run[w] EXCEPT !.todo = @ \ {m}, !.current = m, !.step = "send"]
<1>1. run[w] \in Runs
  BY DEF TypeOK
<1>2. claimed \in Runs
  BY <1>1 DEF Runs
<1>3. /\ claimed.step = "send" /\ claimed.current = m /\ claimed.batch = run[w].batch
      /\ claimed.todo = run[w].todo \ {m} /\ claimed.failures = run[w].failures
      /\ claimed.left = run[w].left
  BY <1>1 DEF Runs
<1>4. run' = [run EXCEPT ![w] = claimed]
  BY DEF Claim
<1>5. run' \in [Workers -> Runs] /\ Alone(w) /\ run'[w] = claimed
  BY <1>2, <1>4 DEF TypeOK, Alone
<1>6. QED
  BY <1>3, <1>5 DEF Keeps, Goes, Lists

LEMMA SendEffect ==
    ASSUME TypeOK, NEW w \in Workers, Send(w)
    PROVE  /\ run' \in [Workers -> Runs] /\ Alone(w) /\ Keeps(w)
           /\ Goes(w, "mark", run[w].current)
           /\ Lists(w, run[w].todo, run[w].failures)
BY DEF TypeOK, Runs, Send, Alone, Keeps, Goes, Lists

LEMMA MarkSentEffect ==
    ASSUME TypeOK, NEW w \in Workers, MarkSent(w)
    PROVE  /\ run' \in [Workers -> Runs] /\ Alone(w) /\ Keeps(w)
           /\ Goes(w, "loop", Nobody)
           /\ Lists(w, run[w].todo, run[w].failures)
<1> DEFINE marked == [run[w] EXCEPT !.step = "loop", !.current = Nobody]
<1>1. run[w] \in Runs
  BY DEF TypeOK
<1>2. run' = [run EXCEPT ![w] = marked]
  BY DEF MarkSent
<1>3. marked \in Runs
  BY <1>1 DEF Runs
<1>4. run' \in [Workers -> Runs] /\ Alone(w) /\ run'[w] = marked
  BY <1>2, <1>3 DEF TypeOK, Alone
<1>5. QED
  BY <1>1, <1>4 DEF Runs, Keeps, Goes, Lists

LEMMA CurrentReturnedEffect ==
    ASSUME TypeOK, NEW w \in Workers, CurrentReturned(w), run[w].current \in Messages
    PROVE  /\ run' \in [Workers -> Runs] /\ Alone(w) /\ Keeps(w)
           /\ Goes(w, "loop", Nobody)
           /\ Lists(w, run[w].todo, run[w].failures \cup {run[w].current})
<1> DEFINE failed == [run[w] EXCEPT !.step = "loop", !.current = Nobody,
                                    !.failures = @ \cup {run[w].current}]
<1>1. run[w] \in Runs
  BY DEF TypeOK
<1>2. failed \in Runs
  BY <1>1 DEF Runs
<1>3. /\ failed.step = "loop" /\ failed.current = Nobody /\ failed.batch = run[w].batch
      /\ failed.todo = run[w].todo /\ failed.left = run[w].left
      /\ failed.failures = run[w].failures \cup {run[w].current}
  BY <1>1 DEF Runs
<1>4. run' = [run EXCEPT ![w] = failed]
  BY DEF CurrentReturned
<1>5. run' \in [Workers -> Runs] /\ Alone(w) /\ run'[w] = failed
  BY <1>2, <1>4 DEF TypeOK, Alone
<1>6. QED
  BY <1>3, <1>5 DEF Keeps, Goes, Lists

LEMMA EndEffect ==
    ASSUME TypeOK, NEW w \in Workers, run' = [run EXCEPT ![w] = Idle]
    PROVE  run' \in [Workers -> Runs] /\ Alone(w) /\ run'[w] = Idle
BY IdleType DEF TypeOK, Alone

LEMMA ReceiveEffect ==
    ASSUME TypeOK, NEW w \in Workers, NEW batch \in SUBSET Messages, Receive(w, batch)
    PROVE  /\ run' \in [Workers -> Runs] /\ Alone(w)
           /\ run'[w].step = "loop" /\ run'[w].batch = batch /\ run'[w].todo = batch
           /\ run'[w].left = LambdaTimeout
<1> DEFINE started == [Idle EXCEPT !.step = "loop", !.batch = batch, !.todo = batch,
                                   !.left = LambdaTimeout]
<1>1. LambdaTimeout \in 0..LambdaTimeout
  BY ConstantsAssumption
<1>2. started \in Runs
  BY <1>1 DEF Idle, Runs
<1>3. /\ started.step = "loop" /\ started.batch = batch /\ started.todo = batch
      /\ started.left = LambdaTimeout
  BY DEF Idle
<1>4. run' = [run EXCEPT ![w] = started]
  BY DEF Receive
<1>5. run' \in [Workers -> Runs] /\ Alone(w) /\ run'[w] = started
  BY <1>2, <1>4 DEF TypeOK, Alone
<1>6. QED
  BY <1>3, <1>5

LEMMA LessType == \A k \in Nat : \A n \in 0..k : Less(n) \in 0..k
BY DEF Less

-----------------------------------------------------------------------------
(* Types. *)

LEMMA TypeStep == TypeOK /\ SenderOwns /\ [Next]_vars => TypeOK'
<1> SUFFICES ASSUME TypeOK, SenderOwns, [Next]_vars PROVE TypeOK'
  OBVIOUS
<1>0. Visibility \in 0..Visibility /\ Lease \in 0..Lease /\ 0 \in 0..Lease
  BY ConstantsAssumption
<1>1. CASE Tick
  <2>1. \A m \in Messages : Less(hidden[m]) \in 0..Visibility
    BY LessType, ConstantsAssumption DEF TypeOK
  <2>2. \A a \in Agents : Less(lease[a]) \in 0..Lease
    BY LessType, ConstantsAssumption DEF TypeOK
  <2>3. \A w \in Workers : [run[w] EXCEPT !.left = Less(@)] \in Runs
    <3> SUFFICES ASSUME NEW w \in Workers PROVE [run[w] EXCEPT !.left = Less(@)] \in Runs
      OBVIOUS
    <3>1. run[w] \in Runs
      BY DEF TypeOK
    <3>2. Less(run[w].left) \in 0..LambdaTimeout
      BY RunTypes, LessType, ConstantsAssumption
    <3>3. QED
      BY <3>1, <3>2 DEF Runs
  <2>4. hidden' \in [Messages -> 0..Visibility] /\ lease' \in [Agents -> 0..Lease]
    BY <1>1, <2>1, <2>2 DEF Tick
  <2>5. run' \in [Workers -> Runs]
    BY <1>1, <2>3 DEF Tick
  <2>6. QED
    BY <1>1, <2>4, <2>5 DEF Tick, TypeOK
<1>2. CASE Poll
  <2>1. PICK w \in Workers, batch \in Batches : Receive(w, batch)
    BY <1>2 DEF Poll
  <2>2. batch \in SUBSET Messages
    BY DEF Batches
  <2>3. run' \in [Workers -> Runs]
    BY <2>1, <2>2, ReceiveEffect
  <2>4. receives' \in [Messages -> 0..MaxReceives]
    <3>1. \A m \in Messages : receives[m] \in 0..MaxReceives
      BY DEF TypeOK
    <3>2. \A m \in batch : receives[m] < MaxReceives
      BY <2>1 DEF Receive, Receivable
    <3>3. \A m \in Messages : m \in batch => receives[m] + 1 \in 0..MaxReceives
      BY <3>1, <3>2, ConstantsAssumption
    <3>4. QED
      BY <2>1, <3>1, <3>3 DEF Receive
  <2>5. hidden' \in [Messages -> 0..Visibility]
    BY <1>0, <2>1 DEF Receive, HiddenFor, TypeOK
  <2>6. QED
    BY <2>1, <2>3, <2>4, <2>5 DEF Receive, ledgerVars, TypeOK
<1>3. ASSUME NEW m \in Messages, Reappear(m) \/ DeadLetter(m) PROVE TypeOK'
  BY <1>3 DEF Reappear, DeadLetter, ledgerVars, TypeOK
<1>4. ASSUME NEW w \in Workers, Work(w) \/ Mishap(w) PROVE TypeOK'
  <2>1. (Fault \/ UNCHANGED faults) => faults' \in 0..MaxFaults
    <3>1. faults \in 0..MaxFaults
      BY DEF TypeOK
    <3>2. QED
      BY <3>1, ConstantsAssumption DEF Fault
  <2>2. \A a : Granted(a) => /\ register' \in [Agents -> {"free", "held", "done", "dead"}]
                             /\ lease' \in [Agents -> 0..Lease]
    BY <1>0 DEF Granted, LeaseFor, TypeOK
  <2>3. \A a : \A state \in {"free", "held", "done", "dead"} : Closed(a, state) =>
            /\ register' \in [Agents -> {"free", "held", "done", "dead"}]
            /\ lease' \in [Agents -> 0..Lease]
    BY <1>0 DEF Closed, TypeOK
  <2>4. ASSUME NEW m \in Messages, Quarantine(w, m) PROVE TypeOK'
    BY <2>4, DoneEffect DEF Quarantine, queueVars, ledgerVars, TypeOK
  <2>5. ASSUME NEW m \in Messages, Suppress(w, m) PROVE TypeOK'
    BY <2>5, DoneEffect DEF Suppress, queueVars, ledgerVars, TypeOK
  <2>6. ASSUME NEW m \in Messages, Defer(w, m) PROVE TypeOK'
    BY <2>6, ReturnedEffect DEF Defer, queueVars, ledgerVars, TypeOK
  <2>61. ASSUME NEW m \in Messages, Contended(w, m) PROVE TypeOK'
    <3>1. run' \in [Workers -> Runs]
      BY <2>61, ReturnedEffect DEF Contended
    <3>2. QED
      BY <2>1, <2>61, <3>1 DEF Contended, queueVars, ledgerVars, TypeOK
  <2>7. ASSUME NEW m \in Messages, Claim(w, m) PROVE TypeOK'
    <3>1. run' \in [Workers -> Runs]
      BY <2>7, ClaimEffect
    <3>2. QED
      BY <2>2, <2>7, <3>1 DEF Claim, queueVars, TypeOK
  <2>8. ASSUME NEW m \in Messages, ClaimUnheard(w, m) PROVE TypeOK'
    <3>1. run' \in [Workers -> Runs]
      BY <2>8, ReturnedEffect DEF ClaimUnheard
    <3>2. QED
      BY <2>1, <2>2, <2>8, <3>1 DEF ClaimUnheard, queueVars, TypeOK
  <2>9. CASE Send(w)
    BY <2>9, SendEffect DEF Send, queueVars, ledgerVars, TypeOK
  <2>10. ASSUME NEW state \in {"free", "dead"}, SendFails(w, state) PROVE TypeOK'
    <3>1. run[w].current \in Messages
      BY <2>10 DEF SendFails, SenderOwns, Sending
    <3>2. run' \in [Workers -> Runs]
      BY <2>10, <3>1, CurrentReturnedEffect DEF SendFails
    <3>3. QED
      BY <2>1, <2>3, <2>10, <3>2 DEF SendFails, queueVars, TypeOK
  <2>101. CASE Unrecorded(w)
    <3>1. run[w].current \in Messages
      BY <2>101 DEF Unrecorded, SenderOwns, Sending
    <3>2. run' \in [Workers -> Runs]
      BY <2>101, <3>1, CurrentReturnedEffect DEF Unrecorded
    <3>3. QED
      BY <2>1, <2>101, <3>2 DEF Unrecorded, queueVars, ledgerVars, TypeOK
  <2>11. CASE MarkSent(w)
    <3>1. run' \in [Workers -> Runs]
      BY <2>11, MarkSentEffect
    <3>2. QED
      BY <2>3, <2>11, <3>1 DEF MarkSent, queueVars, TypeOK
  <2>12. CASE Answer(w)
    <3>1. run' \in [Workers -> Runs]
      BY <2>12, EndEffect DEF Answer
    <3>2. QED
      BY <2>12, <3>1 DEF Answer, ledgerVars, TypeOK
  <2>13. CASE Die(w)
    <3>1. run' \in [Workers -> Runs]
      BY <2>13, EndEffect DEF Die
    <3>2. QED
      BY <2>1, <2>13, <3>1 DEF Die, queueVars, ledgerVars, TypeOK
  <2>14. QED
    BY <1>4, <2>4, <2>5, <2>6, <2>61, <2>7, <2>8, <2>9, <2>10, <2>101, <2>11, <2>12, <2>13
       DEF Work, Mishap
<1>5. CASE UNCHANGED vars
  BY <1>5 DEF vars, TypeOK
<1>6. QED
  BY <1>1, <1>2, <1>3, <1>4, <1>5 DEF Next

-----------------------------------------------------------------------------
(* Who has a message. *)

\* A step of w that hides no message for less and gives none to anybody.
LEMMA HiddenKept ==
    ASSUME OneInvocation, BatchHidden,
           \A v \in Workers : \A m \in run'[v].batch :
               /\ m \in run[v].batch
               /\ run'[v].left = run[v].left /\ run'[v].step # "idle"
               /\ place'[m] = place[m] /\ hidden'[m] = hidden[m]
    PROVE  OneInvocation' /\ BatchHidden'
BY DEF OneInvocation, BatchHidden

LEMMA OneInvocationStep ==
    TypeOK /\ OneInvocation /\ BatchHidden /\ SenderOwns /\ [Next]_vars
        => OneInvocation' /\ BatchHidden'
<1> SUFFICES ASSUME TypeOK, OneInvocation, BatchHidden, SenderOwns, [Next]_vars
             PROVE  OneInvocation' /\ BatchHidden'
  OBVIOUS
<1>1. CASE Tick
  <2>1. \A w \in Workers : /\ run'[w].batch = run[w].batch /\ run'[w].step = run[w].step
                           /\ run'[w].left = Less(run[w].left)
    BY <1>1 DEF Tick, TypeOK, Runs
  <2>2. \A w \in Workers : \A m \in run[w].batch : hidden'[m] > run'[w].left
    <3> SUFFICES ASSUME NEW w \in Workers, NEW m \in run[w].batch
                 PROVE  hidden'[m] > run'[w].left
      OBVIOUS
    <3>1. m \in Messages /\ run[w].left \in Nat
      BY RunTypes
    <3>2. hidden[m] \in 0..Visibility /\ hidden[m] > run[w].left /\ run[w].left > 0
      BY <1>1, <3>1 DEF TypeOK, BatchHidden, Tick
    <3>3. hidden'[m] = hidden[m] - 1 /\ run'[w].left = run[w].left - 1
      BY <1>1, <2>1, <3>1, <3>2, ConstantsAssumption DEF Tick, Less
    <3>4. QED
      BY <3>1, <3>2, <3>3, ConstantsAssumption
  <2>3. BatchHidden'
    BY <1>1, <2>1, <2>2 DEF BatchHidden, Tick
  <2>4. OneInvocation'
    BY <1>1, <2>1 DEF OneInvocation, Tick
  <2>5. QED
    BY <2>3, <2>4
<1>2. CASE Poll
  <2>1. PICK w \in Workers, batch \in Batches : Receive(w, batch)
    BY <1>2 DEF Poll
  <2>2. batch \in SUBSET Messages
    BY DEF Batches
  <2>3. /\ Alone(w) /\ run'[w].step = "loop" /\ run'[w].batch = batch
        /\ run'[w].left = LambdaTimeout
    BY <2>1, <2>2, ReceiveEffect
  <2>4. \A m \in batch : place[m] = "queue"
    BY <2>1 DEF Receive, Receivable
  <2>5. \A v \in Workers \ {w} : batch \cap run[v].batch = {}
    BY <2>4 DEF BatchHidden
  <2>6. \A m \in batch : place'[m] = "flight" /\ hidden'[m] = Visibility
    BY <2>1, <2>2 DEF Receive, HiddenFor
  <2>7. \A v \in Workers \ {w} : run'[v] = run[v]
    BY <2>3 DEF Alone
  <2>8. \A v \in Workers \ {w} : \A m \in run[v].batch :
            place'[m] = place[m] /\ hidden'[m] = hidden[m]
    BY <2>1, <2>5, RunTypes DEF Receive
  <2>9. BatchHidden'
    <3>1. \A m \in run'[w].batch : /\ run'[w].step # "idle" /\ place'[m] = "flight"
                                   /\ hidden'[m] > run'[w].left
      BY <2>3, <2>6, ConstantsAssumption
    <3>2. \A v \in Workers \ {w} : \A m \in run'[v].batch :
              run'[v].step # "idle" /\ place'[m] = "flight" /\ hidden'[m] > run'[v].left
      BY <2>7, <2>8 DEF BatchHidden
    <3>3. QED
      BY <3>1, <3>2 DEF BatchHidden
  <2>10. OneInvocation'
    <3>1. \A u, v \in Workers : u # v => run'[u].batch \cap run'[v].batch = {}
      BY <2>3, <2>5, <2>7 DEF OneInvocation
    <3>2. QED
      BY <2>9, <3>1 DEF OneInvocation, BatchHidden
  <2>11. QED
    BY <2>9, <2>10
<1>3. ASSUME NEW m \in Messages, Reappear(m) \/ DeadLetter(m)
      PROVE  OneInvocation' /\ BatchHidden'
  <2>1. \A v \in Workers : m \notin run[v].batch
    <3> SUFFICES ASSUME NEW v \in Workers, m \in run[v].batch PROVE FALSE
      OBVIOUS
    <3>1. place[m] = "flight" /\ hidden[m] > run[v].left /\ run[v].left \in Nat
      BY RunTypes DEF BatchHidden
    <3>2. QED
      BY <1>3, <3>1 DEF Reappear, DeadLetter
  <2>2. UNCHANGED <<run, hidden>> /\ \A n \in Messages \ {m} : place'[n] = place[n]
    BY <1>3 DEF Reappear, DeadLetter, TypeOK
  <2>3. \A v \in Workers : \A n \in run[v].batch : n \in Messages /\ run[v].step # "idle"
    BY RunTypes DEF BatchHidden
  <2>4. QED
    BY <2>1, <2>2, <2>3, HiddenKept
<1>4. ASSUME NEW w \in Workers, Work(w) \/ Mishap(w)
      PROVE  OneInvocation' /\ BatchHidden'
  <2>1. ASSUME Alone(w), Keeps(w), run'[w].step # "idle", UNCHANGED queueVars
        PROVE  OneInvocation' /\ BatchHidden'
    <3>1. \A v \in Workers : \A m \in run'[v].batch :
              /\ m \in run[v].batch /\ run'[v].left = run[v].left /\ run'[v].step # "idle"
              /\ place'[m] = place[m] /\ hidden'[m] = hidden[m]
      BY <2>1 DEF Alone, Keeps, queueVars, BatchHidden
    <3>2. QED
      BY <3>1, HiddenKept
  <2>2. ASSUME Alone(w), run'[w] = Idle, UNCHANGED hidden,
               \A m \in Messages \ run[w].batch : place'[m] = place[m]
        PROVE  OneInvocation' /\ BatchHidden'
    <3>1. run'[w].batch = {}
      BY <2>2 DEF Idle
    <3>2. \A v \in Workers \ {w} : run'[v] = run[v] /\ run[v].batch \cap run[w].batch = {}
      BY <2>2 DEF Alone, OneInvocation
    <3>3. \A v \in Workers \ {w} : \A m \in run[v].batch :
              m \in Messages \ run[w].batch /\ run[v].step # "idle"
      BY <3>2, RunTypes DEF BatchHidden
    <3>4. \A v \in Workers : \A m \in run'[v].batch :
              /\ m \in run[v].batch /\ run'[v].left = run[v].left /\ run'[v].step # "idle"
              /\ place'[m] = place[m] /\ hidden'[m] = hidden[m]
      BY <2>2, <3>1, <3>2, <3>3
    <3>5. QED
      BY <3>4, HiddenKept
  <2>3. ASSUME NEW m \in Messages, Quarantine(w, m) \/ Suppress(w, m)
        PROVE  OneInvocation' /\ BatchHidden'
    BY <2>1, <2>3, DoneEffect DEF Quarantine, Suppress, Claiming, Comes, Goes
  <2>4. ASSUME NEW m \in Messages, Defer(w, m) \/ ClaimUnheard(w, m) \/ Contended(w, m)
        PROVE  OneInvocation' /\ BatchHidden'
    BY <2>1, <2>4, ReturnedEffect DEF Defer, ClaimUnheard, Contended, Claiming, Comes, Goes
  <2>5. ASSUME NEW m \in Messages, Claim(w, m) PROVE OneInvocation' /\ BatchHidden'
    <3>1. Alone(w) /\ Keeps(w) /\ run'[w].step = "send"
      BY <2>5, ClaimEffect DEF Goes
    <3>2. QED
      BY <2>1, <2>5, <3>1 DEF Claim
  <2>6. CASE Send(w)
    BY <2>1, <2>6, SendEffect DEF Send, Goes
  <2>7. CASE MarkSent(w)
    BY <2>1, <2>7, MarkSentEffect DEF MarkSent, Goes
  <2>8. ASSUME Sending(w), CurrentReturned(w), UNCHANGED queueVars
        PROVE  OneInvocation' /\ BatchHidden'
    <3>1. run[w].current \in Messages
      BY <2>8 DEF SenderOwns
    <3>2. Alone(w) /\ Keeps(w) /\ run'[w].step = "loop"
      BY <2>8, <3>1, CurrentReturnedEffect DEF Goes
    <3>3. QED
      BY <2>1, <2>8, <3>2
  <2>9. CASE Answer(w) \/ Die(w)
    <3>1. Alone(w) /\ run'[w] = Idle
      BY <2>9, EndEffect DEF Answer, Die
    <3>2. UNCHANGED hidden /\ \A m \in Messages \ run[w].batch : place'[m] = place[m]
      BY <2>9 DEF Answer, Die, queueVars
    <3>3. QED
      BY <2>2, <3>1, <3>2
  <2>10. QED
    BY <1>4, <2>3, <2>4, <2>5, <2>6, <2>7, <2>8, <2>9
       DEF Work, Mishap, SendFails, Unrecorded, Sending
<1>5. CASE UNCHANGED vars
  BY <1>5 DEF vars, OneInvocation, BatchHidden
<1>6. QED
  BY <1>1, <1>2, <1>3, <1>4, <1>5 DEF Next

-----------------------------------------------------------------------------
(* Who may send. *)

\* A step of w after which every other sender has what it had, and w, if it sends, owns an
\* agent that nobody else sends to.
LEMMA SendersKept ==
    ASSUME SenderOwns, OneSender, NEW w \in Workers, Alone(w),
           \A v \in Workers \ {w} : Sending(v) =>
               /\ register'[AgentOf[run[v].current]] = register[AgentOf[run[v].current]]
               /\ lease'[AgentOf[run[v].current]] = lease[AgentOf[run[v].current]],
           run'[w].step \in {"send", "mark"} =>
               /\ run'[w].current \in Messages \ Malformed
               /\ register'[AgentOf[run'[w].current]] = "held"
               /\ lease'[AgentOf[run'[w].current]] > run'[w].left
               /\ \A v \in Workers \ {w} : Sending(v) =>
                      AgentOf[run[v].current] # AgentOf[run'[w].current]
    PROVE  SenderOwns' /\ OneSender'
<1>1. \A v \in Workers \ {w} : run'[v] = run[v]
  BY DEF Alone
<1>2. ASSUME NEW v \in Workers, run'[v].step \in {"send", "mark"}
      PROVE  /\ run'[v].current \in Messages \ Malformed
             /\ register'[AgentOf[run'[v].current]] = "held"
             /\ lease'[AgentOf[run'[v].current]] > run'[v].left
  <2>1. CASE v = w
    BY <1>2, <2>1
  <2>2. CASE v # w
    BY <1>1, <1>2, <2>2 DEF SenderOwns, Sending, Mine
  <2>3. QED
    BY <2>1, <2>2
<1>3. SenderOwns'
  BY <1>2 DEF SenderOwns, Sending, Mine
<1>4. OneSender'
  BY <1>1 DEF OneSender, Sending, Mine
<1>5. QED
  BY <1>3, <1>4

LEMMA SenderStep ==
    TypeOK /\ SenderOwns /\ OneSender /\ [Next]_vars => SenderOwns' /\ OneSender'
<1> SUFFICES ASSUME TypeOK, SenderOwns, OneSender, [Next]_vars PROVE SenderOwns' /\ OneSender'
  OBVIOUS
<1>1. CASE Tick
  <2>1. \A w \in Workers : /\ run'[w].step = run[w].step /\ run'[w].current = run[w].current
                           /\ run'[w].left = Less(run[w].left)
    BY <1>1 DEF Tick, TypeOK, Runs
  <2>2. ASSUME NEW w \in Workers, Sending(w)
        PROVE  lease'[AgentOf[run[w].current]] > run'[w].left
    <3> DEFINE a == AgentOf[run[w].current]
    <3>1. a \in Agents /\ lease[a] > run[w].left
      BY <2>2, ConstantsAssumption DEF SenderOwns, Mine
    <3>2. lease[a] \in 0..Lease /\ run[w].left \in Nat /\ run[w].left > 0
      BY <1>1, <2>2, <3>1, RunTypes DEF TypeOK, Tick, Sending
    <3>3. lease'[a] = lease[a] - 1 /\ run'[w].left = run[w].left - 1
      BY <1>1, <2>1, <3>1, <3>2, ConstantsAssumption DEF Tick, Less
    <3>4. QED
      BY <3>1, <3>2, <3>3, ConstantsAssumption
  <2>3. SenderOwns'
    BY <1>1, <2>1, <2>2 DEF SenderOwns, Sending, Mine, Tick
  <2>4. OneSender'
    BY <2>1 DEF OneSender, Sending, Mine
  <2>5. QED
    BY <2>3, <2>4
<1>2. CASE Poll
  <2>1. PICK w \in Workers, batch \in Batches : Receive(w, batch)
    BY <1>2 DEF Poll
  <2>2. batch \in SUBSET Messages
    BY DEF Batches
  <2>3. Alone(w) /\ run'[w].step = "loop"
    BY <2>1, <2>2, ReceiveEffect
  <2>4. UNCHANGED <<register, lease>>
    BY <2>1 DEF Receive, ledgerVars
  <2>5. QED
    BY <2>3, <2>4, SendersKept
<1>3. ASSUME NEW m \in Messages, Reappear(m) \/ DeadLetter(m) PROVE SenderOwns' /\ OneSender'
  BY <1>3 DEF Reappear, DeadLetter, ledgerVars, SenderOwns, OneSender, Sending, Mine
<1>4. ASSUME NEW w \in Workers, Work(w) \/ Mishap(w) PROVE SenderOwns' /\ OneSender'
  <2>1. ASSUME NEW m \in Messages, Quarantine(w, m) \/ Suppress(w, m)
        PROVE  SenderOwns' /\ OneSender'
    <3>1. Alone(w) /\ run'[w].step = "loop"
      BY <2>1, DoneEffect DEF Quarantine, Suppress, Claiming, Comes, Goes
    <3>2. UNCHANGED <<register, lease>>
      BY <2>1 DEF Quarantine, Suppress, ledgerVars
    <3>3. QED
      BY <3>1, <3>2, SendersKept
  <2>2. ASSUME NEW m \in Messages, Defer(w, m) \/ Contended(w, m) PROVE SenderOwns' /\ OneSender'
    <3>1. Alone(w) /\ run'[w].step = "loop"
      BY <2>2, ReturnedEffect DEF Defer, Contended, Claiming, Comes, Goes
    <3>2. UNCHANGED <<register, lease>>
      BY <2>2 DEF Defer, Contended, ledgerVars
    <3>3. QED
      BY <3>1, <3>2, SendersKept
  \* A claim is granted only while nobody sends to the agent.
  <2>3. ASSUME NEW m \in Messages, Open(AgentOf[m]), Granted(AgentOf[m])
        PROVE  /\ \A v \in Workers : Sending(v) => AgentOf[run[v].current] # AgentOf[m]
               /\ \A a \in Agents \ {AgentOf[m]} : register'[a] = register[a] /\ lease'[a] = lease[a]
               /\ register'[AgentOf[m]] = "held" /\ lease'[AgentOf[m]] = Lease
    <3>1. AgentOf[m] \in Agents
      BY ConstantsAssumption
    <3>2. ASSUME NEW v \in Workers, Sending(v) PROVE AgentOf[run[v].current] # AgentOf[m]
      <4>1. /\ register[AgentOf[run[v].current]] = "held"
            /\ lease[AgentOf[run[v].current]] > run[v].left /\ run[v].left \in Nat
        BY <3>2, RunTypes DEF SenderOwns, Mine
      <4>2. QED
        BY <2>3, <4>1 DEF Open
    <3>3. QED
      BY <2>3, <3>1, <3>2 DEF Granted, LeaseFor, TypeOK
  <2>4. \A v \in Workers : Sending(v) => AgentOf[run[v].current] \in Agents
    BY ConstantsAssumption DEF SenderOwns
  <2>5. ASSUME NEW m \in Messages, Claim(w, m) PROVE SenderOwns' /\ OneSender'
    <3>1. Alone(w) /\ Keeps(w) /\ run'[w].step = "send" /\ run'[w].current = m
      BY <2>5, ClaimEffect DEF Goes
    <3>2. Lease > run'[w].left
      <4>1. run[w].left \in 0..LambdaTimeout
        BY RunTypes
      <4>2. QED
        BY <3>1, <4>1, ConstantsAssumption DEF Keeps
    <3>3. Open(AgentOf[m]) /\ Granted(AgentOf[m]) /\ m \in Messages \ Malformed
      BY <2>5 DEF Claim, Claiming
    <3>4. QED
      BY <2>3, <2>4, <3>1, <3>2, <3>3, SendersKept
  <2>6. ASSUME NEW m \in Messages, ClaimUnheard(w, m) PROVE SenderOwns' /\ OneSender'
    <3>1. Alone(w) /\ run'[w].step = "loop"
      BY <2>6, ReturnedEffect DEF ClaimUnheard, Claiming, Comes, Goes
    <3>2. Open(AgentOf[m]) /\ Granted(AgentOf[m])
      BY <2>6 DEF ClaimUnheard
    <3>3. QED
      BY <2>3, <2>4, <3>1, <3>2, SendersKept
  <2>7. CASE Send(w)
    <3>1. Sending(w) /\ UNCHANGED <<register, lease>>
      BY <2>7 DEF Send, Sending, ledgerVars
    <3>2. Alone(w) /\ run'[w].left = run[w].left /\ run'[w].current = run[w].current
      BY <2>7, SendEffect DEF Keeps, Goes
    <3>3. \A v \in Workers \ {w} : Sending(v) => AgentOf[run[v].current] # AgentOf[run[w].current]
      BY <3>1 DEF OneSender, Mine
    <3>4. QED
      BY <3>1, <3>2, <3>3, SendersKept DEF SenderOwns, Mine
  \* The marker a sender closes is no other sender's.
  <2>8. ASSUME NEW state, Sending(w), Closed(Mine(w), state), Alone(w), run'[w].step = "loop"
        PROVE  SenderOwns' /\ OneSender'
    <3>1. \A v \in Workers \ {w} : Sending(v) => AgentOf[run[v].current] # Mine(w)
      BY <2>8 DEF OneSender, Mine
    <3>2. \A a \in Agents \ {Mine(w)} : register'[a] = register[a] /\ lease'[a] = lease[a]
      BY <2>8 DEF Closed, TypeOK
    <3>3. QED
      BY <2>4, <2>8, <3>1, <3>2, SendersKept
  <2>9. ASSUME NEW state \in {"free", "dead"}, SendFails(w, state) PROVE SenderOwns' /\ OneSender'
    <3>1. Sending(w) /\ Closed(Mine(w), state)
      BY <2>9 DEF SendFails, Sending
    <3>2. run[w].current \in Messages
      BY <3>1 DEF SenderOwns
    <3>3. Alone(w) /\ run'[w].step = "loop"
      BY <2>9, <3>2, CurrentReturnedEffect DEF SendFails, Goes
    <3>4. QED
      BY <2>8, <3>1, <3>3
  <2>91. CASE Unrecorded(w)
    <3>1. UNCHANGED <<register, lease>> /\ run[w].current \in Messages
      BY <2>91 DEF Unrecorded, Sending, SenderOwns, ledgerVars
    <3>2. Alone(w) /\ run'[w].step = "loop"
      BY <2>91, <3>1, CurrentReturnedEffect DEF Unrecorded, Goes
    <3>3. QED
      BY <3>1, <3>2, SendersKept
  <2>10. CASE MarkSent(w)
    <3>1. Sending(w) /\ Closed(Mine(w), "done")
      BY <2>10 DEF MarkSent, Sending
    <3>2. Alone(w) /\ run'[w].step = "loop"
      BY <2>10, MarkSentEffect DEF Goes
    <3>3. QED
      BY <2>8, <3>1, <3>2
  <2>11. CASE Answer(w) \/ Die(w)
    <3>1. Alone(w) /\ run'[w].step = "idle" /\ UNCHANGED <<register, lease>>
      BY <2>11, EndEffect DEF Answer, Die, ledgerVars, Idle
    <3>2. QED
      BY <3>1, SendersKept
  <2>12. QED
    BY <1>4, <2>1, <2>2, <2>5, <2>6, <2>7, <2>9, <2>91, <2>10, <2>11 DEF Work, Mishap
<1>5. CASE UNCHANGED vars
  BY <1>5 DEF vars, SenderOwns, OneSender, Sending, Mine
<1>6. QED
  BY <1>1, <1>2, <1>3, <1>4, <1>5 DEF Next

-----------------------------------------------------------------------------
(* What may be deleted. *)

\* Nothing leaves quarantine, and a marker that is sent or failed for good stays so.
LEMMA SettledForGood ==
    TypeOK /\ SenderOwns /\ [Next]_vars => \A m \in Messages : Settled(m) => Settled(m)'
<1> SUFFICES ASSUME TypeOK, SenderOwns, [Next]_vars
             PROVE  \A m \in Messages : Settled(m) => Settled(m)'
  OBVIOUS
<1> DEFINE Final == {"done", "dead"}
<1>1. quarantined \subseteq quarantined'
  BY DEF Next, Tick, Poll, Receive, Reappear, DeadLetter, Work, Mishap, Quarantine, Suppress, Defer,
         Claim, ClaimUnheard, Contended, Send, SendFails, Unrecorded, MarkSent, Answer, Die, vars
<1>2. \A a \in Agents : register[a] \in Final => register'[a] \in Final
  <2>1. CASE UNCHANGED register
    BY <2>1
  <2>2. ASSUME NEW b, Open(b), Granted(b)
        PROVE  \A a \in Agents : register[a] \in Final => register'[a] \in Final
    BY <2>2 DEF Open, Granted, TypeOK
  <2>3. ASSUME NEW w \in Workers, NEW state, Sending(w), Closed(Mine(w), state)
        PROVE  \A a \in Agents : register[a] \in Final => register'[a] \in Final
    <3>1. register[Mine(w)] = "held"
      BY <2>3 DEF SenderOwns
    <3>2. QED
      BY <2>3, <3>1 DEF Closed, TypeOK
  <2>4. CASE Tick \/ Poll \/ (\E m \in Messages : Reappear(m) \/ DeadLetter(m)) \/ UNCHANGED vars
    BY <2>1, <2>4 DEF Tick, Poll, Receive, Reappear, DeadLetter, ledgerVars, vars
  <2>5. ASSUME NEW w \in Workers, Work(w) \/ Mishap(w)
        PROVE  \A a \in Agents : register[a] \in Final => register'[a] \in Final
    <3>1. ASSUME NEW m \in Messages, Claim(w, m) \/ ClaimUnheard(w, m)
          PROVE  \A a \in Agents : register[a] \in Final => register'[a] \in Final
      BY <2>2, <3>1 DEF Claim, ClaimUnheard
    <3>2. ASSUME NEW state \in {"free", "dead"}, SendFails(w, state)
          PROVE  \A a \in Agents : register[a] \in Final => register'[a] \in Final
      <4>1. Sending(w) /\ Closed(Mine(w), state)
        BY <3>2 DEF SendFails, Sending
      <4>2. QED
        BY <2>3, <4>1
    <3>3. CASE MarkSent(w)
      <4>1. Sending(w) /\ Closed(Mine(w), "done")
        BY <3>3 DEF MarkSent, Sending
      <4>2. QED
        BY <2>3, <4>1
    <3>4. CASE \/ \E m \in Messages :
                     Quarantine(w, m) \/ Suppress(w, m) \/ Defer(w, m) \/ Contended(w, m)
               \/ Send(w) \/ Unrecorded(w) \/ Answer(w) \/ Die(w)
      BY <2>1, <3>4 DEF Quarantine, Suppress, Defer, Contended, Send, Unrecorded, Answer, Die,
                        ledgerVars
    <3>5. QED
      BY <2>5, <3>1, <3>2, <3>3, <3>4 DEF Work, Mishap
  <2>6. QED
    BY <2>4, <2>5 DEF Next
<1>3. QED
  BY <1>1, <1>2, ConstantsAssumption DEF Settled

\* A step of w that accounts for its own records.
LEMMA AccountedKept ==
    ASSUME TypeOK, BatchAccounted, NEW w \in Workers, Alone(w),
           \A m \in Messages : Settled(m) => Settled(m)',
           \A m \in run'[w].batch :
               \/ m \in run'[w].todo \/ m \in run'[w].failures
               \/ run'[w].step \in {"send", "mark"} /\ m = run'[w].current
               \/ Settled(m)'
    PROVE  BatchAccounted'
<1>1. ASSUME NEW v \in Workers, NEW m \in run'[v].batch
      PROVE  \/ m \in run'[v].todo \/ m \in run'[v].failures
             \/ run'[v].step \in {"send", "mark"} /\ m = run'[v].current
             \/ Settled(m)'
  <2>1. CASE v = w
    BY <2>1
  <2>2. CASE v # w
    <3>1. run'[v] = run[v] /\ m \in Messages
      BY <2>2, RunTypes DEF Alone
    <3>2. QED
      BY <3>1 DEF BatchAccounted, Sending
  <2>3. QED
    BY <2>1, <2>2
<1>2. QED
  BY <1>1 DEF BatchAccounted, Sending

LEMMA AccountedStep ==
    TypeOK /\ SenderOwns /\ BatchAccounted /\ [Next]_vars => BatchAccounted'
<1> SUFFICES ASSUME TypeOK, SenderOwns, BatchAccounted, [Next]_vars PROVE BatchAccounted'
  OBVIOUS
<1>0. \A m \in Messages : Settled(m) => Settled(m)'
  BY SettledForGood
<1>1. CASE Tick
  <2>1. \A w \in Workers : /\ run'[w].step = run[w].step /\ run'[w].current = run[w].current
                           /\ run'[w].batch = run[w].batch /\ run'[w].todo = run[w].todo
                           /\ run'[w].failures = run[w].failures
    BY <1>1 DEF Tick, TypeOK, Runs
  <2>2. \A w \in Workers : run[w].batch \subseteq Messages
    BY RunTypes
  <2>3. QED
    BY <1>0, <2>1, <2>2 DEF BatchAccounted, Sending
<1>2. CASE Poll
  <2>1. PICK w \in Workers, batch \in Batches : Receive(w, batch)
    BY <1>2 DEF Poll
  <2>2. batch \in SUBSET Messages
    BY DEF Batches
  <2>3. Alone(w) /\ run'[w].batch = batch /\ run'[w].todo = batch
    BY <2>1, <2>2, ReceiveEffect
  <2>4. QED
    BY <1>0, <2>3, AccountedKept
<1>3. ASSUME NEW m \in Messages, Reappear(m) \/ DeadLetter(m) PROVE BatchAccounted'
  <2>1. UNCHANGED <<run, register, quarantined>>
    BY <1>3 DEF Reappear, DeadLetter, ledgerVars
  <2>2. QED
    BY <2>1 DEF BatchAccounted, Sending, Settled
<1>4. ASSUME NEW w \in Workers, Work(w) \/ Mishap(w) PROVE BatchAccounted'
  <2>1. \A m \in run[w].batch :
            \/ m \in run[w].todo \/ m \in run[w].failures
            \/ run[w].step \in {"send", "mark"} /\ m = run[w].current
            \/ Settled(m)'
    BY <1>0, RunTypes DEF BatchAccounted, Sending
  <2>2. ASSUME NEW m \in Messages, Quarantine(w, m) \/ Suppress(w, m) PROVE BatchAccounted'
    <3>1. /\ Alone(w) /\ Keeps(w) /\ run[w].step = "loop"
          /\ Lists(w, run[w].todo \ {m}, run[w].failures)
      BY <2>2, DoneEffect DEF Quarantine, Suppress, Claiming, Comes
    <3>2. Settled(m)'
      BY <2>2 DEF Quarantine, Suppress, Claiming, ledgerVars, Settled
    <3>3. \A n \in run[w].batch :
              n \in run[w].todo \ {m} \/ n \in run[w].failures \/ Settled(n)'
      BY <2>1, <3>1, <3>2
    <3>4. QED
      BY <1>0, <3>1, <3>3, AccountedKept DEF Keeps, Lists
  <2>3. ASSUME NEW m \in Messages, Defer(w, m) \/ ClaimUnheard(w, m) \/ Contended(w, m)
        PROVE  BatchAccounted'
    <3>1. /\ Alone(w) /\ Keeps(w) /\ run[w].step = "loop"
          /\ Lists(w, run[w].todo \ {m}, run[w].failures \cup {m})
      BY <2>3, ReturnedEffect DEF Defer, ClaimUnheard, Contended, Claiming, Comes
    <3>2. QED
      BY <1>0, <2>1, <3>1, AccountedKept DEF Keeps, Lists
  <2>4. ASSUME NEW m \in Messages, Claim(w, m) PROVE BatchAccounted'
    <3>1. /\ Alone(w) /\ Keeps(w) /\ run[w].step = "loop" /\ Goes(w, "send", m)
          /\ Lists(w, run[w].todo \ {m}, run[w].failures)
      BY <2>4, ClaimEffect DEF Claim, Claiming, Comes
    <3>2. QED
      BY <1>0, <2>1, <3>1, AccountedKept DEF Keeps, Lists, Goes
  <2>5. CASE Send(w)
    <3>1. /\ Alone(w) /\ Keeps(w) /\ Goes(w, "mark", run[w].current)
          /\ Lists(w, run[w].todo, run[w].failures)
      BY <2>5, SendEffect
    <3>2. QED
      BY <1>0, <2>1, <3>1, AccountedKept DEF Keeps, Lists, Goes
  <2>6. ASSUME Sending(w), CurrentReturned(w) PROVE BatchAccounted'
    <3>1. run[w].current \in Messages
      BY <2>6 DEF SenderOwns
    <3>2. /\ Alone(w) /\ Keeps(w)
          /\ Lists(w, run[w].todo, run[w].failures \cup {run[w].current})
      BY <2>6, <3>1, CurrentReturnedEffect
    <3>3. QED
      BY <1>0, <2>1, <3>2, AccountedKept DEF Keeps, Lists
  <2>7. CASE MarkSent(w)
    <3>1. Alone(w) /\ Keeps(w) /\ Lists(w, run[w].todo, run[w].failures)
      BY <2>7, MarkSentEffect
    <3>2. PICK sent \in Messages \ Malformed : sent = run[w].current
      BY <2>7 DEF MarkSent, SenderOwns, Sending
    <3>3. register'[AgentOf[sent]] = "done"
      BY <2>7, <3>2, ConstantsAssumption DEF MarkSent, Closed, Mine, TypeOK
    <3>4. Settled(sent)'
      BY <3>2, <3>3 DEF Settled
    <3>5. \A n \in run[w].batch : n \in run[w].todo \/ n \in run[w].failures \/ Settled(n)'
      BY <2>1, <3>2, <3>4
    <3>6. QED
      BY <1>0, <3>1, <3>5, AccountedKept DEF Keeps, Lists
  <2>8. CASE Answer(w) \/ Die(w)
    <3>1. Alone(w) /\ run'[w].batch = {}
      BY <2>8, EndEffect DEF Answer, Die, Idle
    <3>2. QED
      BY <1>0, <3>1, AccountedKept
  <2>9. QED
    BY <1>4, <2>2, <2>3, <2>4, <2>5, <2>6, <2>7, <2>8
       DEF Work, Mishap, SendFails, Unrecorded, Sending
<1>5. CASE UNCHANGED vars
  BY <1>5 DEF vars, BatchAccounted, Sending, Settled
<1>6. QED
  BY <1>1, <1>2, <1>3, <1>4, <1>5 DEF Next

LEMMA DeletedStep ==
    TypeOK /\ SenderOwns /\ BatchAccounted /\ NothingLost /\ [Next]_vars => NothingLost'
<1> SUFFICES ASSUME TypeOK, SenderOwns, BatchAccounted, NothingLost, [Next]_vars,
                    NEW m \in Messages, place'[m] = "deleted"
             PROVE  Settled(m)'
  BY DEF NothingLost
<1>1. Settled(m) => Settled(m)'
  BY SettledForGood
<1>2. CASE place[m] = "deleted"
  BY <1>1, <1>2 DEF NothingLost
<1>3. CASE place[m] # "deleted"
  <2>1. PICK w \in Workers : Answer(w)
    <3>1. place'[m] # place[m]
      BY <1>3
    <3>2. ~ UNCHANGED place
      BY <3>1
    <3>3. ~ Tick /\ ~ UNCHANGED vars
      BY <3>2 DEF Tick, vars
    <3>4. ~ Poll
      <4>1. ASSUME NEW w \in Workers, NEW batch, Receive(w, batch) PROVE FALSE
        <5>1. place'[m] = IF m \in batch THEN "flight" ELSE place[m]
          BY <4>1 DEF Receive
        <5>2. QED
          BY <3>1, <5>1
      <4>2. QED
        BY <4>1 DEF Poll
    <3>5. ~ \E n \in Messages : Reappear(n) \/ DeadLetter(n)
      BY <3>1 DEF Reappear, DeadLetter, TypeOK
    <3>6. \A w \in Workers : ~ Mishap(w)
      BY <3>2 DEF Mishap, ClaimUnheard, Contended, SendFails, Unrecorded, Die, queueVars
    <3>7. \A w \in Workers : Work(w) => Answer(w)
      BY <3>2 DEF Work, Quarantine, Suppress, Defer, Claim, Send, MarkSent, queueVars
    <3>8. QED
      BY <3>3, <3>4, <3>5, <3>6, <3>7 DEF Next
  <2>2. m \in run[w].batch /\ m \notin run[w].failures /\ m \notin run[w].todo /\ ~ Sending(w)
    BY <1>3, <2>1 DEF Answer, Sending
  <2>3. QED
    BY <1>1, <2>2 DEF BatchAccounted
<1>4. QED
  BY <1>2, <1>3
-----------------------------------------------------------------------------
(* The theorems. *)

\* IInv holds throughout, for any messages, agents and workers, and any faults.
THEOREM Inductive == Spec => []IInv
<1>1. Init => IInv
  <2> SUFFICES ASSUME Init PROVE IInv
    OBVIOUS
  <2>1. /\ 0 \in 0..MaxReceives /\ 0 \in 0..Visibility /\ 0 \in 0..Lease /\ 0 \in 0..MaxFaults
        /\ Idle \in Runs
    BY ConstantsAssumption, IdleType
  <2>2. TypeOK
    BY <2>1 DEF Init, TypeOK
  <2>3. \A w \in Workers : run[w].batch = {} /\ ~ Sending(w)
    BY DEF Init, Idle, Sending
  <2>4. OneInvocation /\ BatchHidden /\ SenderOwns /\ OneSender /\ BatchAccounted
    BY <2>3 DEF OneInvocation, BatchHidden, SenderOwns, OneSender, BatchAccounted
  <2>5. NothingLost
    BY DEF Init, NothingLost
  <2>6. QED
    BY <2>2, <2>4, <2>5 DEF IInv
<1>2. IInv /\ [Next]_vars => IInv'
  BY TypeStep, OneInvocationStep, SenderStep, AccountedStep, DeletedStep DEF IInv
<1>3. QED
  BY <1>1, <1>2, PTL DEF Spec

\* Every reachable state is well typed; in particular no message is received too often.
THEOREM TypeCorrect == Spec => []TypeOK
<1>1. IInv => TypeOK
  BY DEF IInv
<1>2. QED
  BY <1>1, Inductive, PTL

\* No two invocations are between claim and mark_sent for one agent, as long as the lease
\* outlasts an invocation: how late in its batch a claim is taken does not matter.
THEOREM MutualExclusion == Spec => []OneSender
<1>1. IInv => OneSender
  BY DEF IInv
<1>2. QED
  BY <1>1, Inductive, PTL

\* A message is with one invocation at a time, as long as the visibility timeout outlasts it.
THEOREM MessageExclusion == Spec => []OneInvocation
<1>1. IInv => OneInvocation
  BY DEF IInv
<1>2. QED
  BY <1>1, Inductive, PTL

\* Nothing is deleted that is not settled, whatever fails and in whatever order.
THEOREM DeletedIsSettled == Spec => []NothingLost
<1>1. IInv => NothingLost
  BY DEF IInv
<1>2. QED
  BY <1>1, Inductive, PTL
=============================================================================
