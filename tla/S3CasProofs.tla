----------------------------- MODULE S3CasProofs -----------------------------
(* Theorems about S3Cas for any writers and processes, any number of writes *)
(* and of faults.                                                            *)
EXTENDS S3Cas, TLAPS

-----------------------------------------------------------------------------
(* The inductive invariant. *)

Working(p) == writer[p].pc \in {"lock", "head", "put", "write"}

\* What a writer brings is newer than what it expects; once its contents, or its answer, say that
\* it replaced that version, the object has moved on; a backend that has compared but not yet
\* written still has the version it compared.
Right(p) ==
    /\ writer[p].expected <= content
    /\ Working(p) => /\ writer[p].expected < writer[p].own /\ writer[p].own <= begun
                     /\ writer[p].answer = "none"
    /\ writer[p].sent \/ writer[p].answer = "won" => writer[p].expected < content
    /\ At(p, "write") => ~ atomic /\ content = writer[p].expected
    /\ At(p, "dead") => writer[p].answer = "none"
    /\ At(p, "answer") => writer[p].answer # "none"

\* A backend that is not atomic serves one process.
OneProcess == atomic \/ \A p, q \in Writers : home[p] = home[q]

\* The lock of a process is taken while one of its writers is in its critical section.
Locked == \A p \in Writers : Holds(p) => home[p] \in locked

IInv ==
    /\ TypeOK /\ content <= begun
    /\ OneProcess
    /\ Locked /\ LockHasHolder
    /\ \A p \in Writers : Right(p)
    /\ OneWinner
-----------------------------------------------------------------------------
(* Steps of one writer, field by field. *)

Alone(p) ==
    /\ writer' \in [Writers -> WriterState]
    /\ \A q \in Writers \ {p} : writer'[q] = writer[q]

\* The write goes on: what it expects and brings stays.
Same(p, pc, answer) ==
    /\ writer'[p].pc = pc /\ writer'[p].answer = answer
    /\ writer'[p].expected = writer[p].expected /\ writer'[p].own = writer[p].own

LEMMA StateType == ASSUME IInv, NEW p \in Writers PROVE writer[p] \in WriterState
BY DEF IInv, TypeOK

LEMMA Updated ==
    ASSUME IInv, NEW p \in Writers, NEW s \in WriterState, writer' = [writer EXCEPT ![p] = s]
    PROVE  Alone(p) /\ writer'[p] = s
BY DEF IInv, TypeOK, Alone

LEMMA GotoEffect ==
    ASSUME IInv, NEW p \in Writers, NEW step \in Steps, Goto(p, step)
    PROVE  Alone(p) /\ Same(p, step, writer[p].answer) /\ (writer'[p].sent <=> writer[p].sent)
<1> DEFINE s == [writer[p] EXCEPT !.pc = step]
<1>1. s \in WriterState /\ writer' = [writer EXCEPT ![p] = s]
  BY StateType DEF Goto, WriterState
<1>2. Alone(p) /\ writer'[p] = s
  BY <1>1, Updated
<1>3. QED
  BY <1>2, StateType DEF Same, WriterState

LEMMA EndEffect ==
    ASSUME IInv, NEW p \in Writers, NEW step \in Steps, NEW answer \in {"none", "won", "lost"},
           writer' = [writer EXCEPT ![p].pc = step, ![p].answer = answer]
    PROVE  Alone(p) /\ Same(p, step, answer) /\ (writer'[p].sent <=> writer[p].sent)
<1> DEFINE s == [writer[p] EXCEPT !.pc = step, !.answer = answer]
<1>1. s \in WriterState /\ writer' = [writer EXCEPT ![p] = s]
  BY StateType DEF WriterState, IInv, TypeOK
<1>2. Alone(p) /\ writer'[p] = s
  BY <1>1, Updated
<1>3. /\ s.pc = step /\ s.answer = answer /\ s.sent = writer[p].sent
      /\ s.expected = writer[p].expected /\ s.own = writer[p].own
  BY StateType DEF WriterState
<1>4. Same(p, step, answer)
  BY <1>2, <1>3 DEF Same
<1>5. QED
  BY <1>2, <1>3, <1>4

\* The server has the contents, and says so or not.
LEMMA StoresEffect ==
    ASSUME IInv, NEW p \in Writers, Stores(p)
    PROVE  /\ Alone(p) /\ writer'[p].sent
           /\ Same(p, "answer", "won") \/ Same(p, "put", writer[p].answer)
           /\ content' = writer[p].own /\ faults' \in 0..MaxFaults
<1> DEFINE won == [writer[p] EXCEPT !.pc = "answer", !.sent = TRUE, !.answer = "won"]
<1> DEFINE unheard == [writer[p] EXCEPT !.pc = "put", !.sent = TRUE]
<1>1. won \in WriterState /\ unheard \in WriterState
  BY StateType DEF WriterState, Steps
<1>2. content' = writer[p].own /\ faults' \in 0..MaxFaults
  BY ConstantsAssumption DEF Stores, Fault, IInv, TypeOK
<1>3. writer' = [writer EXCEPT ![p] = won] \/ writer' = [writer EXCEPT ![p] = unheard]
  BY DEF Stores, IInv, TypeOK, WriterState
<1>4. Alone(p) /\ (writer'[p] = won \/ writer'[p] = unheard)
  BY <1>1, <1>3, Updated
<1>5. won.sent = TRUE /\ unheard.sent = TRUE
  BY StateType DEF WriterState
<1>6. Same(p, "answer", "won") \/ Same(p, "put", writer[p].answer)
  BY <1>4, StateType DEF Same, WriterState
<1>7. QED
  BY <1>2, <1>4, <1>5, <1>6
-----------------------------------------------------------------------------
(* What such a step keeps of the invariant. *)

\* What every step of a writer leaves alone, and how the object may move.
Moves(p) ==
    /\ deployment' = deployment
    /\ Alone(p)
    /\ content' \in Nat /\ content <= content' /\ content' <= begun'
    /\ begun' \in 0..MaxWrites /\ begun <= begun' /\ faults' \in 0..MaxFaults

\* Nobody else is between comparison and write while a writer changes the object.
LEMMA NobodyElseWrites ==
    ASSUME IInv, NEW p \in Writers, At(p, "write") \/ (At(p, "put") /\ atomic),
           NEW q \in Writers, q # p
    PROVE  ~ At(q, "write")
BY DEF IInv, Right, OneProcess, LockHasHolder, Holds, At

LEMMA OthersRight ==
    ASSUME IInv, NEW p \in Writers, Moves(p),
           content' = content \/ \A q \in Writers \ {p} : ~ At(q, "write")
    PROVE  \A q \in Writers \ {p} : Right(q)'
<1> SUFFICES ASSUME NEW q \in Writers, q # p PROVE Right(q)'
  OBVIOUS
<1>1. writer'[q] = writer[q] /\ atomic' = atomic /\ writer[q] \in WriterState
  BY DEF Moves, Alone, deployment, IInv, TypeOK
<1>2. Right(q) /\ content \in Nat /\ begun \in Nat /\ begun' \in Nat /\ content' \in Nat
  BY DEF Moves, IInv, TypeOK
<1>3. QED
  BY <1>1, <1>2 DEF Moves, Right, Working, At, WriterState

\* Locks are as they should be when the writer takes one that is free, keeps what it has, or
\* gives it back.
TakesLock(p) == /\ home[p] \notin locked /\ locked' = locked \cup {home[p]}
                /\ Holds(p)'
KeepsLock(p) == locked' = locked /\ (Holds(p)' <=> Holds(p))
GivesLock(p) == Holds(p) /\ locked' = locked \ {home[p]} /\ ~ Holds(p)'

LEMMA LocksKept ==
    ASSUME IInv, NEW p \in Writers, Moves(p), TakesLock(p) \/ KeepsLock(p) \/ GivesLock(p)
    PROVE  Locked' /\ LockHasHolder' /\ locked' \subseteq Processes
<1>1. /\ home' = home /\ home \in [Writers -> Processes] /\ locked \subseteq Processes
      /\ \A q \in Writers \ {p} : Holds(q)' <=> Holds(q)
  BY DEF Moves, Alone, deployment, Holds, IInv, TypeOK
<1>2. Locked /\ LockHasHolder
  BY DEF IInv
<1>3. CASE TakesLock(p)
  <2>1. \A q \in Writers : Holds(q) => home[q] # home[p]
    BY <1>2, <1>3 DEF Locked, TakesLock
  <2>2. QED
    BY <1>1, <1>2, <1>3, <2>1 DEF Locked, LockHasHolder, TakesLock
<1>4. CASE KeepsLock(p)
  BY <1>1, <1>2, <1>4 DEF Locked, LockHasHolder, KeepsLock
<1>5. CASE GivesLock(p)
  <2>1. \A q \in Writers : Holds(q) /\ home[q] = home[p] => q = p
    BY <1>2, <1>5 DEF LockHasHolder, GivesLock
  <2>2. QED
    BY <1>1, <1>2, <1>5, <2>1 DEF Locked, LockHasHolder, GivesLock
<1>6. QED
  BY <1>3, <1>4, <1>5

\* A writer that is told that it won is the first to replace its version.
LEMMA WinnersKept ==
    ASSUME IInv, NEW p \in Writers, Moves(p),
           writer'[p].answer = "won" =>
              writer'[p].expected = content \/ (writer[p].answer = "won" /\ writer'[p].expected = writer[p].expected)
    PROVE  OneWinner'
<1> SUFFICES ASSUME NEW q \in Writers \ {p}, writer'[p].answer = "won", writer'[q].answer = "won"
             PROVE  writer'[p].expected # writer'[q].expected
  BY DEF OneWinner, Moves, Alone, IInv
<1>1. writer'[q] = writer[q] /\ writer[q].expected < content /\ writer[q] \in WriterState /\ content \in Nat
  BY DEF Moves, Alone, IInv, Right, TypeOK
<1>2. QED
  BY <1>1 DEF IInv, OneWinner, WriterState

LEMMA StepIInv ==
    ASSUME IInv, NEW p \in Writers, Moves(p), Right(p)',
           content' = content \/ \A q \in Writers \ {p} : ~ At(q, "write"),
           TakesLock(p) \/ KeepsLock(p) \/ GivesLock(p),
           writer'[p].answer = "won" =>
              writer'[p].expected = content \/ (writer[p].answer = "won" /\ writer'[p].expected = writer[p].expected)
    PROVE  IInv'
<1>1. Locked' /\ LockHasHolder' /\ locked' \subseteq Processes
  BY LocksKept
<1>2. OneWinner'
  BY WinnersKept
<1>3. \A q \in Writers : Right(q)'
  BY OthersRight
<1>4. TypeOK' /\ (content <= begun)' /\ OneProcess'
  BY <1>1 DEF IInv, TypeOK, OneProcess, Moves, Alone, deployment
<1>5. QED
  BY <1>1, <1>2, <1>3, <1>4 DEF IInv
-----------------------------------------------------------------------------
(* Each action. *)

LEMMA InitIInv == Init => IInv
<1> SUFFICES ASSUME Init PROVE IInv
  OBVIOUS
<1>1. \A p \in Writers : writer[p] = [pc |-> "idle", expected |-> 0, own |-> 0, sent |-> FALSE, answer |-> "none"]
  BY DEF Init
<1>2. TypeOK /\ content <= begun
  BY ConstantsAssumption DEF Init, TypeOK, WriterState, Steps
<1>3. OneProcess /\ Locked /\ LockHasHolder /\ OneWinner
  BY <1>1 DEF Init, OneProcess, Locked, LockHasHolder, Holds, OneWinner
<1>4. \A p \in Writers : Right(p)
  BY <1>1 DEF Init, Right, Working, At
<1>5. QED
  BY <1>2, <1>3, <1>4 DEF IInv

LEMMA BeginIInv == ASSUME IInv, NEW p \in Writers, Begin(p) PROVE IInv'
<1> DEFINE s == [pc |-> "lock", expected |-> content, own |-> begun + 1, sent |-> FALSE, answer |-> "none"]
<1>1. content \in Nat /\ begun \in Nat /\ MaxWrites \in Nat /\ content <= begun
  BY ConstantsAssumption DEF IInv, TypeOK
<1>2. s \in WriterState
  BY <1>1 DEF WriterState, Steps
<1>3. Alone(p) /\ writer'[p] = s
  BY <1>2, Updated DEF Begin
<1>4. Moves(p)
  BY <1>1, <1>3 DEF Begin, Moves, IInv, TypeOK
<1>5. Right(p)' /\ KeepsLock(p)
  BY <1>1, <1>3 DEF Begin, Right, Working, At, KeepsLock, Holds
<1>6. writer'[p].answer # "won"
  BY <1>3
<1>7. QED
  BY <1>4, <1>5, <1>6, StepIInv DEF Begin

\* The other fields of a writer that leaves the object alone.
Stays(p) == UNCHANGED <<deployment, content, begun>> /\ faults' \in 0..MaxFaults

LEMMA StaysMoves == ASSUME IInv, NEW p \in Writers, Stays(p), Alone(p) PROVE Moves(p)
BY DEF Stays, Moves, IInv, TypeOK

LEMMA LockIInv == ASSUME IInv, NEW p \in Writers, Lock(p) PROVE IInv'
<1>1. Alone(p) /\ Same(p, "head", writer[p].answer) /\ (writer'[p].sent <=> writer[p].sent)
  BY GotoEffect DEF Lock, Steps
<1>2. Moves(p)
  BY <1>1, StaysMoves DEF Lock, Stays, IInv, TypeOK
<1>3. Right(p)' /\ TakesLock(p) /\ content' = content
  BY <1>1 DEF Same, Right, Working, At, TakesLock, Holds, Lock, IInv, deployment
<1>4. QED
  BY <1>1, <1>2, <1>3, StepIInv DEF Same

\* A writer is told that it lost.
LEMMA LostIInv ==
    ASSUME IInv, NEW p \in Writers, writer[p].pc \in {"head", "put"}, Answer(p, "lost"),
           UNCHANGED <<deployment, content, locked, begun, faults>>
    PROVE  IInv'
<1>1. Alone(p) /\ Same(p, "answer", "lost") /\ (writer'[p].sent <=> writer[p].sent)
  BY EndEffect DEF Answer, Steps
<1>2. Moves(p)
  BY <1>1, StaysMoves DEF Stays, IInv, TypeOK
<1>3. Right(p)' /\ KeepsLock(p)
  BY <1>1 DEF Same, Right, Working, At, KeepsLock, Holds, IInv, deployment
<1>4. QED
  BY <1>1, <1>2, <1>3, StepIInv DEF Same

\* A version is found to be the expected one.
LEMMA FoundIInv ==
    ASSUME IInv, NEW p \in Writers, NEW step \in {"put", "write"}, writer[p].pc \in {"head", "put"},
           Goto(p, step), content = writer[p].expected, step = "write" => ~ atomic,
           UNCHANGED <<deployment, content, locked, begun, faults>>
    PROVE  IInv'
<1>1. Alone(p) /\ Same(p, step, writer[p].answer) /\ (writer'[p].sent <=> writer[p].sent)
  BY GotoEffect DEF Steps
<1>2. Moves(p)
  BY <1>1, StaysMoves DEF Stays, IInv, TypeOK
<1>3. Right(p)' /\ KeepsLock(p)
  BY <1>1 DEF Same, Right, Working, At, KeepsLock, Holds, IInv, deployment
<1>4. QED
  BY <1>1, <1>2, <1>3, StepIInv DEF Same

LEMMA HeadIInv == ASSUME IInv, NEW p \in Writers, Head(p) PROVE IInv'
BY LostIInv, FoundIInv DEF Head, At

\* The object is replaced by something newer, and the writer has seen the version it replaces.
LEMMA StoresIInv ==
    ASSUME IInv, NEW p \in Writers, Stores(p), UNCHANGED <<deployment, locked, begun>>,
           content = writer[p].expected, At(p, "write") \/ (At(p, "put") /\ atomic)
    PROVE  IInv'
<1>1. /\ writer[p].expected < writer[p].own /\ writer[p].own <= begun /\ writer[p].answer = "none"
      /\ writer[p].own \in Nat /\ writer[p].expected \in Nat /\ begun \in 0..MaxWrites
  BY StateType DEF IInv, Right, Working, At, TypeOK, WriterState
<1>2. /\ Alone(p) /\ writer'[p].sent
      /\ Same(p, "answer", "won") \/ Same(p, "put", "none")
      /\ content' = writer[p].own /\ faults' \in 0..MaxFaults
  BY <1>1, StoresEffect
<1>3. Moves(p)
  BY <1>1, <1>2 DEF Moves
<1>4. Right(p)' /\ KeepsLock(p)
  BY <1>1, <1>2 DEF Same, Right, Working, At, KeepsLock, Holds
<1>5. \A q \in Writers \ {p} : ~ At(q, "write")
  BY NobodyElseWrites
<1>6. writer'[p].expected = content
  BY <1>2 DEF Same
<1>7. QED
  BY <1>3, <1>4, <1>5, <1>6, StepIInv

LEMMA PutIInv == ASSUME IInv, NEW p \in Writers, Put(p) PROVE IInv'
<1>1. CASE Answer(p, "lost") /\ UNCHANGED <<content, faults>>
  BY <1>1, LostIInv DEF Put, At
<1>2. CASE content = writer[p].expected /\ atomic /\ Stores(p)
  BY <1>2, StoresIInv DEF Put
<1>3. CASE content = writer[p].expected /\ ~ atomic /\ Goto(p, "write") /\ UNCHANGED <<content, faults>>
  BY <1>3, FoundIInv DEF Put, At
<1>4. QED
  BY <1>1, <1>2, <1>3 DEF Put

LEMMA WriteIInv == ASSUME IInv, NEW p \in Writers, Write(p) PROVE IInv'
BY StoresIInv DEF Write, IInv, Right

LEMMA LeaveIInv == ASSUME IInv, NEW p \in Writers, Leave(p) PROVE IInv'
<1>1. Alone(p) /\ Same(p, "idle", writer[p].answer) /\ (writer'[p].sent <=> writer[p].sent)
  BY GotoEffect DEF Leave, Steps
<1>2. Moves(p)
  BY <1>1, StaysMoves DEF Leave, Stays, IInv, TypeOK
<1>3. Right(p)' /\ GivesLock(p) /\ content' = content
  BY <1>1 DEF Same, Right, Working, At, GivesLock, Holds, Leave, IInv, deployment
<1>4. QED
  BY <1>1, <1>2, <1>3, StepIInv DEF Same

LEMMA RaiseIInv == ASSUME IInv, NEW p \in Writers, Raise(p) PROVE IInv'
<1>1. Alone(p) /\ Same(p, "idle", "none") /\ (writer'[p].sent <=> writer[p].sent)
  BY EndEffect DEF Raise, Steps
<1>2. Moves(p)
  BY <1>1, StaysMoves, ConstantsAssumption DEF Raise, Fault, Stays, IInv, TypeOK
<1>3. Right(p)' /\ GivesLock(p) /\ content' = content
  BY <1>1 DEF Same, Right, Working, At, GivesLock, Holds, Raise, IInv, deployment
<1>4. QED
  BY <1>1, <1>2, <1>3, StepIInv DEF Same

\* A process's writers all end, and its lock with them.
LEMMA CrashIInv == ASSUME IInv, NEW proc \in Processes, Crash(proc) PROVE IInv'
<1>1. home' = home /\ atomic' = atomic /\ content' = content /\ begun' = begun /\ locked' = locked \ {proc}
  BY DEF Crash, deployment
<1>2. faults' \in 0..MaxFaults
  <2>1. Fault /\ faults \in 0..MaxFaults
    BY DEF Crash, IInv, TypeOK
  <2>2. QED
    BY <2>1, ConstantsAssumption DEF Fault
<1>3. ASSUME NEW p \in Writers, home[p] = proc
      PROVE  /\ writer'[p] \in WriterState
             /\ Same(p, "dead", "none") /\ (writer'[p].sent <=> writer[p].sent)
  <2>1. writer'[p] = [writer[p] EXCEPT !.pc = "dead", !.answer = "none"]
    BY <1>3 DEF Crash
  <2>2. QED
    BY <2>1, StateType DEF Same, WriterState, Steps
<1>4. ASSUME NEW p \in Writers, home[p] # proc PROVE writer'[p] = writer[p]
  BY <1>4 DEF Crash
<1>5. writer' \in [Writers -> WriterState]
  <2>1. \A p \in Writers : writer'[p] \in WriterState
    BY <1>3, <1>4, StateType
  <2>2. \E f : writer' = [p \in Writers |-> f[p]]
    BY DEF Crash
  <2>3. QED
    BY <2>1, <2>2
<1>6. TypeOK' /\ (content <= begun)' /\ OneProcess'
  BY <1>1, <1>2, <1>5 DEF IInv, TypeOK, OneProcess
<1>7. \A p \in Writers : Holds(p)' <=> Holds(p) /\ home[p] # proc
  BY <1>3, <1>4 DEF Holds, Same
<1>8. Locked' /\ LockHasHolder'
  BY <1>1, <1>7 DEF Locked, LockHasHolder, IInv
<1>9. \A p \in Writers : Right(p)'
  BY <1>1, <1>3, <1>4 DEF Right, Working, At, Same, IInv
<1>10. OneWinner'
  BY <1>3, <1>4 DEF OneWinner, Same, IInv
<1>11. QED
  BY <1>6, <1>8, <1>9, <1>10 DEF IInv

LEMMA StutterIInv == ASSUME IInv, UNCHANGED vars PROVE IInv'
<1>1. TypeOK' /\ (content <= begun)' /\ OneProcess' /\ OneWinner'
  BY DEF IInv, vars, deployment, TypeOK, OneProcess, OneWinner
<1>2. Locked' /\ LockHasHolder' /\ \A p \in Writers : Right(p)'
  BY DEF IInv, vars, deployment, Locked, LockHasHolder, Holds, Right, Working, At
<1>3. QED
  BY <1>1, <1>2 DEF IInv

LEMMA NextIInv == IInv /\ [Next]_vars => IInv'
<1> SUFFICES ASSUME IInv, [Next]_vars PROVE IInv'
  OBVIOUS
<1>1. CASE \E proc \in Processes : Crash(proc)
  BY <1>1, CrashIInv
<1>2. CASE \E p \in Writers : Begin(p) \/ Lock(p) \/ Head(p) \/ Put(p) \/ Write(p) \/ Leave(p) \/ Raise(p)
  BY <1>2, BeginIInv, LockIInv, HeadIInv, PutIInv, WriteIInv, LeaveIInv, RaiseIInv
<1>3. CASE UNCHANGED vars
  BY <1>3, StutterIInv
<1>4. QED
  BY <1>1, <1>2, <1>3 DEF Next

LEMMA SpecIInv == Spec => []IInv
BY InitIInv, NextIInv, PTL DEF Spec
-----------------------------------------------------------------------------
(* What it implies. *)

\* Types are right in every state (storage.py:165-312).
THEOREM TypesRight == Spec => []TypeOK
<1>1. IInv => TypeOK
  BY DEF IInv
<1>2. QED
  BY <1>1, SpecIInv, PTL

\* Of the writers that read one version at most one is told that it replaced it, also on a backend
\* that compares and then writes (storage.py:279-297).
THEOREM OneWriterWins == Spec => []OneWinner
<1>1. IInv => OneWinner
  BY DEF IInv
<1>2. QED
  BY <1>1, SpecIInv, PTL

\* A lock that is taken has exactly one living holder in its process (storage.py:279).
THEOREM NoLockOrphaned == Spec => []LockHasHolder
<1>1. IInv => LockHasHolder
  BY DEF IInv
<1>2. QED
  BY <1>1, SpecIInv, PTL
-----------------------------------------------------------------------------
(* The refinement: every step is one of ConditionalStore's, or a stutter. *)

\* Status, case by case.
LEMMA StatusIs ==
    ASSUME NEW p \in Writers, writer[p] \in WriterState
    PROVE  /\ At(p, "dead") => Status(p) = "idle"
           /\ ~ At(p, "dead") /\ writer[p].answer = "lost" => Status(p) = "lost"
           /\ ~ At(p, "dead") /\ writer[p].answer = "won" =>
                 Status(p) = IF At(p, "idle") THEN "won" ELSE "applied"
           /\ ~ At(p, "dead") /\ writer[p].answer = "none" =>
                 Status(p) = IF At(p, "idle") THEN "idle" ELSE IF writer[p].sent THEN "applied" ELSE "pending"
BY DEF Status, WriterState

\* What ConditionalStore sees of a step of one writer.
LEMMA OneBecomes ==
    ASSUME IInv, NEW p \in Writers, Alone(p), writer'[p].expected = writer[p].expected,
           NEW s, Status(p)' = s
    PROVE  /\ Store!Become(p, s)
           /\ [q \in Writers |-> writer[q].expected]' = [q \in Writers |-> writer[q].expected]
<1>1. \A q \in Writers \ {p} : writer'[q] = writer[q]
  BY DEF Alone
<1>2. \A q \in Writers \ {p} : Status(q)' = Status(q)
  BY <1>1 DEF Status, At
<1>3. Store!Become(p, s)
  BY <1>2 DEF Store!Become
<1>4. \A q \in Writers : writer'[q].expected = writer[q].expected
  BY <1>1
<1>5. QED
  BY <1>3, <1>4

LEMMA NothingSeen ==
    ASSUME IInv, NEW p \in Writers, Alone(p), writer'[p].expected = writer[p].expected,
           Status(p)' = Status(p), content' = content
    PROVE  UNCHANGED Store!vars
<1>1. \A q \in Writers \ {p} : writer'[q] = writer[q]
  BY DEF Alone
<1>2. \A q \in Writers \ {p} : Status(q)' = Status(q)
  BY <1>1 DEF Status, At
<1>3. \A q \in Writers : Status(q)' = Status(q) /\ writer'[q].expected = writer[q].expected
  BY <1>1, <1>2
<1>4. QED
  BY <1>3 DEF Store!vars

\* The states Status goes through.
LEMMA NextState ==
    ASSUME IInv, NEW p \in Writers, Alone(p)
    PROVE  writer[p] \in WriterState /\ writer'[p] \in WriterState
BY StateType DEF Alone

LEMMA BeginStep == ASSUME IInv, NEW p \in Writers, Begin(p) PROVE Store!Read(p)
<1> DEFINE s == [pc |-> "lock", expected |-> content, own |-> begun + 1, sent |-> FALSE, answer |-> "none"]
<1>1. s \in WriterState
  BY DEF IInv, TypeOK, WriterState, Steps
<1>2. Alone(p) /\ writer'[p] = s
  BY <1>1, Updated DEF Begin
<1>3. Status(p)' = "pending"
  BY <1>2 DEF Status, At
<1>4. Status(p) \in {"idle", "won", "lost"}
  BY StateType, StatusIs DEF Begin, At, WriterState
<1>5. \A q \in Writers \ {p} : writer'[q] = writer[q]
  BY <1>2 DEF Alone
<1>6. \A q \in Writers \ {p} : Status(q)' = Status(q)
  BY <1>5 DEF Status, At
<1>7. Store!Become(p, "pending")
  BY <1>3, <1>6 DEF Store!Become
<1>8. [q \in Writers |-> writer[q].expected]' = [[q \in Writers |-> writer[q].expected] EXCEPT ![p] = content]
  <2>1. writer'[p].expected = content
    BY <1>2
  <2>2. \A q \in Writers : writer'[q].expected = IF q = p THEN content ELSE writer[q].expected
    BY <1>5, <2>1
  <2>3. QED
    BY <2>2
<1>9. QED
  BY <1>4, <1>7, <1>8 DEF Store!Read, Store!Busy, Begin

LEMMA LockStep == ASSUME IInv, NEW p \in Writers, Lock(p) PROVE UNCHANGED Store!vars
<1>1. Alone(p) /\ Same(p, "head", writer[p].answer) /\ (writer'[p].sent <=> writer[p].sent)
  BY GotoEffect DEF Lock, Steps
<1>2. Status(p)' = Status(p)
  BY <1>1 DEF Lock, At, Same, Status
<1>3. QED
  BY <1>1, <1>2, NothingSeen DEF Same, Lock

\* Found to be what is expected: on to the next step.
LEMMA FoundStep ==
    ASSUME IInv, NEW p \in Writers, NEW step \in {"put", "write"}, writer[p].pc \in {"head", "put"},
           Goto(p, step), content' = content
    PROVE  UNCHANGED Store!vars
<1>1. Alone(p) /\ Same(p, step, writer[p].answer) /\ (writer'[p].sent <=> writer[p].sent)
  BY GotoEffect DEF Steps
<1>2. Status(p)' = Status(p)
  BY <1>1 DEF At, Same, Status
<1>3. QED
  BY <1>1, <1>2, NothingSeen DEF Same

\* Told that it lost: the version moved, or was moved by itself, or somebody else is writing.
LEMMA LostStep ==
    ASSUME IInv, NEW p \in Writers, writer[p].pc \in {"head", "put"}, Answer(p, "lost"), content' = content,
           content # writer[p].expected \/ Conflict(p)
    PROVE  Store!Lose(p)
<1>1. Alone(p) /\ Same(p, "answer", "lost") /\ (writer'[p].sent <=> writer[p].sent)
  BY EndEffect DEF Answer, Steps
<1>2. Status(p)' = "lost"
  BY <1>1 DEF At, Same, Status
<1>3. Status(p) \in {"pending", "applied"}
  BY StateType, StatusIs DEF IInv, Right, Working, At
<1>4. ASSUME Conflict(p) PROVE \E q \in Writers \ {p} : Status(q) \in {"pending", "applied"}
  BY <1>4, StateType, StatusIs DEF Conflict, IInv, Right, Working, At
<1>5. Store!Become(p, "lost") /\ [q \in Writers |-> writer[q].expected]' = [q \in Writers |-> writer[q].expected]
  BY <1>1, <1>2, OneBecomes DEF Same
<1>6. QED
  BY <1>3, <1>4, <1>5 DEF Store!Lose, Store!Busy

LEMMA StoresStep ==
    ASSUME IInv, NEW p \in Writers, writer[p].pc \in {"put", "write"}, Stores(p), content = writer[p].expected
    PROVE  Store!Apply(p)
<1>1. /\ writer[p].expected < writer[p].own /\ writer[p].answer = "none" /\ ~ writer[p].sent
      /\ writer[p].own \in Nat /\ writer[p].expected \in Nat
  BY StateType DEF IInv, Right, Working, WriterState
<1>2. /\ Alone(p) /\ writer'[p].sent /\ content' = writer[p].own
      /\ Same(p, "answer", "won") \/ Same(p, "put", "none")
  BY <1>1, StoresEffect
<1>3. Status(p) = "pending"
  BY <1>1, StateType, StatusIs DEF At
<1>4. Status(p)' = "applied"
  BY <1>2 DEF Status, At, Same
<1>5. Store!Become(p, "applied") /\ [q \in Writers |-> writer[q].expected]' = [q \in Writers |-> writer[q].expected]
  BY <1>2, <1>4, OneBecomes DEF Same
<1>6. QED
  BY <1>1, <1>2, <1>3, <1>5 DEF Store!Apply

LEMMA LeaveStep == ASSUME IInv, NEW p \in Writers, Leave(p) PROVE Store!Win(p) \/ UNCHANGED Store!vars
<1>1. Alone(p) /\ Same(p, "idle", writer[p].answer) /\ (writer'[p].sent <=> writer[p].sent)
  BY GotoEffect DEF Leave, Steps
<1>2. writer[p].answer \in {"won", "lost"}
  BY StateType DEF IInv, Right, Leave, WriterState
<1>3. CASE writer[p].answer = "won"
  <2>1. Status(p) = "applied" /\ Status(p)' = "won"
    BY <1>1, <1>3, StateType, StatusIs DEF Leave, At, Same, Status
  <2>2. QED
    BY <1>1, <2>1, OneBecomes DEF Store!Win, Same, Leave
<1>4. CASE writer[p].answer = "lost"
  <2>1. Status(p)' = Status(p)
    BY <1>1, <1>4 DEF Leave, At, Same, Status
  <2>2. QED
    BY <1>1, <2>1, NothingSeen DEF Same, Leave
<1>5. QED
  BY <1>2, <1>3, <1>4

LEMMA RaiseStep == ASSUME IInv, NEW p \in Writers, Raise(p) PROVE Store!Abandon({p})
<1>1. Alone(p) /\ Same(p, "idle", "none") /\ content' = content
  BY EndEffect DEF Raise, Steps
<1>2. Status(p)' = "idle"
  BY <1>1 DEF Status, At, Same
<1>3. \A q \in Writers \ {p} : writer'[q] = writer[q]
  BY <1>1 DEF Alone
<1>4. \A q \in Writers \ {p} : Status(q)' = Status(q)
  BY <1>3 DEF Status, At
<1>5. \A q \in Writers : writer'[q].expected = writer[q].expected
  BY <1>1, <1>3 DEF Same
<1>6. QED
  BY <1>1, <1>2, <1>4, <1>5 DEF Store!Abandon

LEMMA CrashStep ==
    ASSUME IInv, NEW proc \in Processes, Crash(proc)
    PROVE  Store!Abandon({p \in Writers : home[p] = proc})
<1>1. content' = content
  BY DEF Crash
<1>2. ASSUME NEW p \in Writers, home[p] = proc PROVE Status(p)' = "idle" /\ writer'[p].expected = writer[p].expected
  <2>1. writer'[p] = [writer[p] EXCEPT !.pc = "dead", !.answer = "none"]
    BY <1>2 DEF Crash
  <2>2. writer'[p].pc = "dead" /\ writer'[p].expected = writer[p].expected
    BY <2>1, StateType DEF WriterState
  <2>3. QED
    BY <2>2 DEF Status, At
<1>3. ASSUME NEW p \in Writers, home[p] # proc PROVE Status(p)' = Status(p) /\ writer'[p].expected = writer[p].expected
  <2>1. writer'[p] = writer[p]
    BY <1>3 DEF Crash
  <2>2. QED
    BY <2>1 DEF Status, At
<1>4. QED
  BY <1>1, <1>2, <1>3 DEF Store!Abandon

LEMMA WriterStep ==
    ASSUME IInv, NEW p \in Writers, Begin(p) \/ Lock(p) \/ Head(p) \/ Put(p) \/ Write(p) \/ Leave(p) \/ Raise(p)
    PROVE  Store!Next \/ UNCHANGED Store!vars
<1>1. CASE Begin(p)
  BY <1>1, BeginStep DEF Store!Next
<1>2. CASE Lock(p)
  BY <1>2, LockStep
<1>3. CASE Head(p)
  <2>1. Store!Lose(p) \/ UNCHANGED Store!vars
    BY <1>3, FoundStep, LostStep DEF Head, At
  <2>2. QED
    BY <2>1 DEF Store!Next
<1>4. CASE Put(p)
  <2>1. CASE (content # writer[p].expected \/ Conflict(p)) /\ Answer(p, "lost") /\ content' = content
    BY <1>4, <2>1, LostStep DEF Put, At, Store!Next
  <2>2. CASE content = writer[p].expected /\ Stores(p)
    BY <1>4, <2>2, StoresStep DEF Put, At, Store!Next
  <2>3. CASE Goto(p, "write") /\ content' = content
    BY <1>4, <2>3, FoundStep DEF Put, At
  <2>4. QED
    BY <1>4, <2>1, <2>2, <2>3 DEF Put
<1>5. CASE Write(p)
  <2>1. content = writer[p].expected
    BY <1>5 DEF IInv, Right, Write
  <2>2. QED
    BY <1>5, <2>1, StoresStep DEF Write, At, Store!Next
<1>6. CASE Leave(p)
  BY <1>6, LeaveStep DEF Store!Next
<1>7. CASE Raise(p)
  BY <1>7, RaiseStep DEF Store!Next
<1>8. QED
  BY <1>1, <1>2, <1>3, <1>4, <1>5, <1>6, <1>7

LEMMA StoreStep == IInv /\ [Next]_vars => [Store!Next]_(Store!vars)
<1> SUFFICES ASSUME IInv, [Next]_vars PROVE Store!Next \/ UNCHANGED Store!vars
  OBVIOUS
<1>1. CASE \E p \in Writers : Begin(p) \/ Lock(p) \/ Head(p) \/ Put(p) \/ Write(p) \/ Leave(p) \/ Raise(p)
  BY <1>1, WriterStep
<1>2. CASE \E proc \in Processes : Crash(proc)
  <2>1. PICK proc \in Processes : Crash(proc)
    BY <1>2
  <2>2. {p \in Writers : home[p] = proc} \in SUBSET Writers
    OBVIOUS
  <2>3. QED
    BY <2>1, <2>2, CrashStep DEF Store!Next
<1>3. CASE UNCHANGED vars
  <2>1. \A p \in Writers : Status(p)' = Status(p)
    BY <1>3 DEF vars, Status, At
  <2>2. QED
    BY <1>3, <2>1 DEF vars, Store!vars
<1>4. QED
  BY <1>1, <1>2, <1>3 DEF Next

\* A process's lock, the HEAD under it and the conditional PUT, repeated, refused or left half-way,
\* are one compare-and-set to whoever calls it (storage.py:165-297).
THEOREM Refinement == Spec => ImplementsStore
<1>1. Init => Store!Init
  <2> SUFFICES ASSUME Init PROVE Store!Init
    OBVIOUS
  <2>1. \A p \in Writers : Status(p) = "idle" /\ writer[p].expected = 0
    BY DEF Init, Status, At
  <2>2. QED
    BY <2>1 DEF Init, Store!Init
<1>2. QED
  BY <1>1, StoreStep, SpecIInv, PTL DEF Spec, ImplementsStore, Store!Spec
=============================================================================
