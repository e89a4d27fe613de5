---------------------------- MODULE LocalCasProofs ----------------------------
(* Theorems about LocalCas for any limits, any number of writes and, where *)
(* nobody dies, any number of writers.                                       *)
EXTENDS LocalCas, FiniteSetTheorems, TLAPS

\* Where the lock file is enough: holders are prompt, and an orphaned lock has at most one
\* contender, because nobody dies or because there are at most two writers.
OneContender ==
    /\ Prompt
    /\ MaxCrashes = 0 \/ \A p, q, r \in Writers : p = q \/ q = r \/ p = r
-----------------------------------------------------------------------------
(* Steps of one writer, field by field. *)

Alone(p) ==
    /\ writer' \in [Writers -> WriterState]
    /\ \A q \in Writers \ {p} : writer'[q] = writer[q]

\* The write goes on: what it expects and brings stays.
Same(p, pc, answer) ==
    /\ writer'[p].pc = pc /\ writer'[p].answer = answer
    /\ writer'[p].expected = writer[p].expected /\ writer'[p].own = writer[p].own

LEMMA StateType == ASSUME TypeOK, NEW p \in Writers PROVE writer[p] \in WriterState
BY DEF TypeOK

LEMMA Updated ==
    ASSUME TypeOK, NEW p \in Writers, NEW s \in WriterState, writer' = [writer EXCEPT ![p] = s]
    PROVE  Alone(p) /\ writer'[p] = s
BY DEF TypeOK, Alone

LEMMA GotoEffect ==
    ASSUME TypeOK, NEW p \in Writers, NEW step \in Steps, Goto(p, step)
    PROVE  Alone(p) /\ Same(p, step, writer[p].answer) /\ writer'[p].since = writer[p].since
<1> DEFINE s == [writer[p] EXCEPT !.pc = step]
<1>1. s \in WriterState /\ writer' = [writer EXCEPT ![p] = s]
  BY StateType DEF Goto, WriterState
<1>2. Alone(p) /\ writer'[p] = s
  BY <1>1, Updated
<1>3. QED
  BY <1>2, StateType DEF Same, WriterState

LEMMA AnswerEffect ==
    ASSUME TypeOK, NEW p \in Writers, NEW step \in Steps, NEW answer \in {"none", "won", "lost"},
           Answer(p, step, answer)
    PROVE  Alone(p) /\ Same(p, step, answer) /\ writer'[p].since = writer[p].since
<1> DEFINE s == [writer[p] EXCEPT !.pc = step, !.answer = answer]
<1>1. s \in WriterState /\ writer' = [writer EXCEPT ![p] = s]
  BY StateType DEF Answer, WriterState, TypeOK
<1>2. Alone(p) /\ writer'[p] = s
  BY <1>1, Updated
<1>3. /\ s.pc = step /\ s.answer = answer /\ s.since = writer[p].since
      /\ s.expected = writer[p].expected /\ s.own = writer[p].own
  BY StateType DEF WriterState
<1>4. QED
  BY <1>2, <1>3 DEF Same

LEMMA BeginEffect ==
    ASSUME TypeOK, NEW p \in Writers, Begin(p)
    PROVE  /\ Alone(p) /\ content \in Nat /\ begun \in Nat
           /\ writer'[p].pc = (IF content = 0 THEN "create" ELSE "lock")
           /\ writer'[p].expected = content /\ writer'[p].own = begun + 1 /\ writer'[p].answer = "none"
<1> DEFINE s == [pc |-> IF content = 0 THEN "create" ELSE "lock", expected |-> content,
                 own |-> begun + 1, since |-> now, answer |-> "none"]
<1>1. content \in Nat /\ begun \in Nat /\ s \in WriterState
  BY DEF TypeOK, WriterState, Steps
<1>2. Alone(p) /\ writer'[p] = s
  BY <1>1, Updated DEF Begin
<1>3. /\ s.pc = (IF content = 0 THEN "create" ELSE "lock")
      /\ s.expected = content /\ s.own = begun + 1 /\ s.answer = "none"
  OBVIOUS
<1>4. QED
  BY <1>1, <1>2, <1>3

\* The lock is created.
LEMMA TakeEffect ==
    ASSUME TypeOK, NEW p \in Writers, TryLock(p), lock = {}
    PROVE  /\ Alone(p) /\ Same(p, "compare", writer[p].answer) /\ writer'[p].since = now
           /\ lock' = {now}
<1> DEFINE s == [writer[p] EXCEPT !.pc = "compare", !.since = now]
<1>1. s \in WriterState
  BY StateType DEF TypeOK, WriterState, Steps
<1>2. writer' = [writer EXCEPT ![p] = s] /\ lock' = {now}
  BY StateType DEF TryLock, Mtime, TypeOK, WriterState
<1>3. Alone(p) /\ writer'[p] = s
  BY <1>1, <1>2, Updated
<1>4. /\ s.pc = "compare" /\ s.answer = writer[p].answer /\ s.since = now
      /\ s.expected = writer[p].expected /\ s.own = writer[p].own
  BY StateType DEF WriterState
<1>5. QED
  BY <1>2, <1>3, <1>4 DEF Same
-----------------------------------------------------------------------------
(* Types. *)

LEMMA NextTypeOK == TypeOK /\ [Next]_vars => TypeOK'
<1> SUFFICES ASSUME TypeOK, [Next]_vars PROVE TypeOK'
  OBVIOUS
<1>1. now \in Nat /\ begun \in Nat /\ crashes \in Nat /\ content \in Nat
  BY DEF TypeOK
<1>2. CASE Tick
  <2>1. now' \in Nat /\ 0..now \subseteq 0..now'
    BY <1>1, <1>2 DEF Tick
  <2>2. QED
    BY <1>2, <2>1 DEF Tick, TypeOK
<1>3. CASE UNCHANGED vars
  BY <1>3 DEF vars, TypeOK
<1>4. ASSUME NEW p \in Writers,
             \/ Begin(p) \/ Create(p) \/ Return(p) \/ TryLock(p) \/ Stat(p) \/ Steal(p) \/ Compare(p)
             \/ Replace(p) \/ Unlock(p) \/ Crash(p)
      PROVE  TypeOK'
  <2>1. Alone(p)
    <3>1. CASE Begin(p)
      BY <3>1, BeginEffect
    <3>2. CASE TryLock(p) /\ lock = {}
      BY <3>2, TakeEffect
    <3>3. CASE TryLock(p) /\ lock # {}
      BY <3>3, GotoEffect DEF TryLock, Steps
    <3>4. CASE Create(p) \/ Compare(p) \/ Replace(p) \/ Crash(p)
      BY <3>4, AnswerEffect, GotoEffect DEF Create, Compare, Replace, Crash, Steps
    <3>5. CASE Return(p) \/ Stat(p) \/ Steal(p) \/ Unlock(p)
      BY <3>5, GotoEffect DEF Return, Stat, Steal, Unlock, Steps
    <3>6. QED
      BY <1>4, <3>1, <3>2, <3>3, <3>4, <3>5
  <2>2. now' = now
    BY <1>4 DEF Begin, Create, Return, TryLock, Stat, Steal, Compare, Replace, Unlock, Crash
  <2>3. lock' \subseteq 0..now /\ Cardinality(lock') <= 1
    <3>1. lock' = lock \/ lock' = {} \/ lock' = {now}
      BY <1>4 DEF Begin, Create, Return, TryLock, Stat, Steal, Compare, Replace, Unlock, Crash, Mtime
    <3>2. Cardinality({}) = 0 /\ Cardinality({now}) = 1
      BY FS_EmptySet, FS_Singleton
    <3>3. {} \subseteq 0..now /\ {now} \subseteq 0..now /\ lock \subseteq 0..now /\ Cardinality(lock) <= 1
      BY <1>1 DEF TypeOK
    <3>4. CASE lock' = lock
      BY <3>3, <3>4
    <3>5. CASE lock' = {}
      BY <3>2, <3>3, <3>5
    <3>6. CASE lock' = {now}
      BY <3>2, <3>3, <3>6
    <3>7. QED
      BY <3>1, <3>4, <3>5, <3>6
  <2>4. begun' \in Nat /\ crashes' \in Nat
    BY <1>1, <1>4 DEF Begin, Create, Return, TryLock, Stat, Steal, Compare, Replace, Unlock, Crash
  <2>5. content' \in Nat
    <3>1. content' = content \/ content' = writer[p].own
      BY <1>4 DEF Begin, Create, Return, TryLock, Stat, Steal, Compare, Replace, Unlock, Crash
    <3>2. QED
      BY <1>1, <3>1, StateType DEF WriterState
  <2>6. QED
    BY <2>1, <2>2, <2>3, <2>4, <2>5 DEF TypeOK, Alone
<1>5. QED
  BY <1>2, <1>3, <1>4 DEF Next

LEMMA InitTypeOK == Init => TypeOK
<1> SUFFICES ASSUME Init PROVE TypeOK
  OBVIOUS
<1>1. Cardinality({}) = 0
  BY FS_EmptySet
<1>2. QED
  BY <1>1 DEF Init, TypeOK, WriterState, Steps

\* Types are right in every state, whoever dies and whoever steals (storage.py:408-626).
THEOREM TypesRight == Spec => []TypeOK
BY InitTypeOK, NextTypeOK, PTL DEF Spec
-----------------------------------------------------------------------------
(* The lock: the inductive invariant. *)

\* A holder that lives is within its time.
InTime == \A p \in Writers : Critical(p) => now <= writer[p].since + StaleAfter

\* A lock file that nobody will unlink was left by somebody who died.
Left == lock # {} => \E p \in Writers : Critical(p) \/ At(p, "dead")

\* Whoever is about to steal is the last one alive.
LastAlive == \A p \in Writers : At(p, "steal") => \A q \in Writers \ {p} : At(q, "dead")

Deaths == (\E p \in Writers : At(p, "dead")) => MaxCrashes # 0

Exclusion == OneContender /\ OwnsLock /\ InTime /\ Left /\ LastAlive /\ Deaths

\* A step that leaves the lock, and who is in its critical section, alone.
LEMMA LockLeft ==
    ASSUME TypeOK, Exclusion, NEW p \in Writers, Alone(p), lock' = lock, now' = now,
           Critical(p)' <=> Critical(p), Critical(p) => writer'[p].since = writer[p].since,
           ~ At(p, "dead"), ~ At(p, "dead")',
           At(p, "steal")' => \A q \in Writers \ {p} : At(q, "dead")
    PROVE  Exclusion'
<1>1. \A q \in Writers \ {p} : writer'[q] = writer[q] /\ (Critical(q)' <=> Critical(q))
                              /\ (At(q, "dead")' <=> At(q, "dead")) /\ (At(q, "steal")' <=> At(q, "steal"))
  BY DEF Alone, Critical, At
<1>2. OwnsLock'
  BY <1>1 DEF Exclusion, OwnsLock
<1>3. InTime'
  BY <1>1 DEF Exclusion, InTime
<1>4. Left' /\ Deaths'
  BY <1>1 DEF Exclusion, Left, Deaths
<1>5. LastAlive'
  BY <1>1 DEF Exclusion, LastAlive
<1>6. QED
  BY <1>2, <1>3, <1>4, <1>5 DEF Exclusion, OneContender

LEMMA TakeExclusion == ASSUME TypeOK, Exclusion, NEW p \in Writers, TryLock(p), lock = {} PROVE Exclusion'
<1>1. /\ Alone(p) /\ writer'[p].pc = "compare" /\ writer'[p].since = now /\ lock' = {now} /\ now' = now
  BY TakeEffect DEF Same, TryLock
<1>2. \A q \in Writers : ~ Critical(q)
  BY DEF Exclusion, OwnsLock
<1>3. \A q \in Writers \ {p} : /\ ~ Critical(q)' /\ (At(q, "dead")' <=> At(q, "dead"))
                               /\ (At(q, "steal")' <=> At(q, "steal"))
  BY <1>1, <1>2 DEF Alone, Critical, At
<1>4. Critical(p)' /\ ~ At(p, "dead") /\ ~ At(p, "dead")' /\ ~ At(p, "steal")'
  BY <1>1 DEF Critical, At, TryLock
<1>5. OwnsLock'
  BY <1>1, <1>3, <1>4 DEF OwnsLock
<1>6. InTime'
  BY <1>1, <1>3, ConstantsAssumption DEF InTime, TypeOK
<1>7. Left' /\ Deaths' /\ LastAlive'
  BY <1>3, <1>4 DEF Exclusion, Left, Deaths, LastAlive
<1>8. QED
  BY <1>5, <1>6, <1>7 DEF Exclusion, OneContender

\* The lock is unlinked by its owner, or by the last one alive.
LEMMA UnlinkExclusion ==
    ASSUME TypeOK, Exclusion, NEW p \in Writers, Steal(p) \/ Unlock(p)
    PROVE  Exclusion'
<1>1. Alone(p) /\ writer'[p].pc \in {"lock", "idle"} /\ lock' = {} /\ now' = now
  BY GotoEffect DEF Same, Steal, Unlock, Steps
<1>2. \A q \in Writers \ {p} : ~ Critical(q)
  <2>1. CASE Steal(p)
    BY <2>1 DEF Steal, Exclusion, LastAlive, Critical, At
  <2>2. CASE Unlock(p)
    BY <2>2 DEF Unlock, Exclusion, OwnsLock, Critical, At
  <2>3. QED
    BY <2>1, <2>2
<1>3. \A q \in Writers \ {p} : /\ ~ Critical(q)' /\ (At(q, "dead")' <=> At(q, "dead"))
                               /\ (At(q, "steal")' <=> At(q, "steal"))
  BY <1>1, <1>2 DEF Alone, Critical, At
<1>4. ~ Critical(p)' /\ ~ At(p, "dead")' /\ ~ At(p, "steal")' /\ ~ At(p, "dead")
  BY <1>1 DEF Critical, At, Steal, Unlock
<1>5. OwnsLock' /\ InTime' /\ Left'
  BY <1>1, <1>3, <1>4 DEF OwnsLock, InTime, Left
<1>6. Deaths' /\ LastAlive'
  BY <1>3, <1>4 DEF Exclusion, Deaths, LastAlive
<1>7. QED
  BY <1>5, <1>6 DEF Exclusion, OneContender

LEMMA CrashExclusion == ASSUME TypeOK, Exclusion, NEW p \in Writers, Crash(p) PROVE Exclusion'
<1>1. Alone(p) /\ writer'[p].pc = "dead" /\ lock' = lock /\ now' = now
  BY AnswerEffect DEF Same, Crash, Steps
<1>2. \A q \in Writers \ {p} : writer'[q] = writer[q] /\ (Critical(q)' <=> Critical(q))
                              /\ (At(q, "dead")' <=> At(q, "dead")) /\ (At(q, "steal")' <=> At(q, "steal"))
  BY <1>1 DEF Alone, Critical, At
<1>3. ~ Critical(p)' /\ At(p, "dead")' /\ ~ At(p, "steal")' /\ MaxCrashes # 0
  BY <1>1 DEF Critical, At, Crash, TypeOK
<1>4. OwnsLock' /\ InTime'
  BY <1>1, <1>2, <1>3 DEF Exclusion, OwnsLock, InTime
<1>5. Left' /\ Deaths'
  BY <1>3 DEF Left, Deaths
<1>6. LastAlive'
  BY <1>2, <1>3 DEF Exclusion, LastAlive
<1>7. QED
  BY <1>4, <1>5, <1>6 DEF Exclusion, OneContender

LEMMA TickExclusion == ASSUME TypeOK, Exclusion, Tick PROVE Exclusion'
<1>1. now' = now + 1 /\ lock' = lock /\ writer' = writer
  BY DEF Tick
<1>2. \A p \in Writers : Critical(p) => now < writer[p].since + StaleAfter
  BY DEF Tick, Exclusion, OneContender
<1>3. InTime'
  BY <1>1, <1>2, StateType, ConstantsAssumption DEF InTime, Critical, TypeOK, WriterState
<1>4. OwnsLock' /\ Left' /\ Deaths' /\ LastAlive'
  BY <1>1 DEF Exclusion, OwnsLock, Left, Deaths, LastAlive, Critical, At
<1>5. QED
  BY <1>3, <1>4 DEF Exclusion, OneContender

\* A lock that is found old has no living holder, so that its finder is the last one alive.
LEMMA StaleLast ==
    ASSUME TypeOK, Exclusion, NEW p \in Writers, At(p, "stat"), Stale
    PROVE  \A q \in Writers \ {p} : At(q, "dead")
<1>1. \A q \in Writers : ~ Critical(q)
  <2> SUFFICES ASSUME NEW q \in Writers, Critical(q) PROVE FALSE
    OBVIOUS
  <2>1. lock = {writer[q].since} /\ now <= writer[q].since + StaleAfter
    BY DEF Exclusion, OwnsLock, InTime
  <2>2. now > writer[q].since + StaleAfter
    BY <2>1 DEF Stale
  <2>3. QED
    BY <2>1, <2>2, StateType, ConstantsAssumption DEF TypeOK, WriterState
<1>2. PICK d \in Writers : At(d, "dead")
  BY <1>1 DEF Stale, Exclusion, Left
<1>3. \A r, s, u \in Writers : r = s \/ s = u \/ r = u
  BY <1>2 DEF Exclusion, Deaths, OneContender
<1>4. d # p
  BY <1>2 DEF At
<1>5. QED
  BY <1>2, <1>3, <1>4

LEMMA WriterExclusion ==
    ASSUME TypeOK, Exclusion, NEW p \in Writers,
           \/ Begin(p) \/ Create(p) \/ Return(p) \/ TryLock(p) \/ Stat(p) \/ Steal(p) \/ Compare(p)
           \/ Replace(p) \/ Unlock(p) \/ Crash(p)
    PROVE  Exclusion'
<1>1. CASE Begin(p)
  <2>1. Alone(p) /\ writer'[p].pc \in {"create", "lock"} /\ writer[p].pc = "idle"
    BY <1>1, BeginEffect DEF Begin, At
  <2>2. QED
    BY <1>1, <2>1, LockLeft DEF Begin, Critical, At
<1>2. CASE Create(p) \/ Return(p)
  <2>1. Alone(p) /\ writer'[p].pc \in {"return", "idle"} /\ writer[p].pc \in {"create", "return"}
    BY <1>2, GotoEffect, AnswerEffect DEF Create, Return, At, Same, Steps
  <2>2. QED
    BY <1>2, <2>1, LockLeft DEF Create, Return, Critical, At
<1>3. CASE TryLock(p) /\ lock = {}
  BY <1>3, TakeExclusion
<1>4. CASE TryLock(p) /\ lock # {}
  <2>1. Alone(p) /\ writer'[p].pc = "stat" /\ writer[p].pc = "lock" /\ lock' = lock /\ now' = now
    BY <1>4, GotoEffect DEF TryLock, At, Same, Steps
  <2>2. QED
    BY <2>1, LockLeft DEF Critical, At
<1>5. CASE Stat(p)
  <2>1. /\ Alone(p) /\ writer'[p].pc \in {"lock", "idle", "steal"} /\ writer[p].pc = "stat"
        /\ writer'[p].pc = "steal" => Stale
    BY <1>5, GotoEffect DEF Stat, At, Same, Steps
  <2>2. At(p, "steal")' => \A q \in Writers \ {p} : At(q, "dead")
    BY <2>1, StaleLast DEF At
  <2>3. QED
    BY <1>5, <2>1, <2>2, LockLeft DEF Stat, Critical, At
<1>6. CASE Compare(p) \/ Replace(p)
  <2>1. /\ Alone(p) /\ writer'[p].pc \in {"replace", "unlock"} /\ writer[p].pc \in {"compare", "replace"}
        /\ writer'[p].since = writer[p].since
    BY <1>6, GotoEffect, AnswerEffect DEF Compare, Replace, At, Same, Steps
  <2>2. QED
    BY <1>6, <2>1, LockLeft DEF Compare, Replace, Critical, At
<1>7. CASE Steal(p) \/ Unlock(p)
  BY <1>7, UnlinkExclusion
<1>8. CASE Crash(p)
  BY <1>8, CrashExclusion
<1>9. QED
  BY <1>1, <1>2, <1>3, <1>4, <1>5, <1>6, <1>7, <1>8

LEMMA NextExclusion == TypeOK /\ Exclusion /\ [Next]_vars => Exclusion'
<1> SUFFICES ASSUME TypeOK, Exclusion, [Next]_vars PROVE Exclusion'
  OBVIOUS
<1>1. CASE Tick
  BY <1>1, TickExclusion
<1>2. CASE \E p \in Writers :
             \/ Begin(p) \/ Create(p) \/ Return(p) \/ TryLock(p) \/ Stat(p) \/ Steal(p) \/ Compare(p)
             \/ Replace(p) \/ Unlock(p) \/ Crash(p)
  BY <1>2, WriterExclusion
<1>3. CASE UNCHANGED vars
  BY <1>3 DEF vars, Exclusion, OneContender, OwnsLock, InTime, Left, LastAlive, Deaths, Critical, At
<1>4. QED
  BY <1>1, <1>2, <1>3 DEF Next

LEMMA InitExclusion == Init /\ OneContender => Exclusion
BY DEF Init, Exclusion, OwnsLock, InTime, Left, LastAlive, Deaths, Critical, At
-----------------------------------------------------------------------------
(* Versions: the inductive invariant. *)

\* On the way to the file: what is expected is older than what is brought, and an existing file
\* does not go away.  A writer that has an answer has seen the file move on from its version; one
\* that has compared still has the version it compared.
Right(p) ==
    /\ writer[p].expected <= content
    /\ writer[p].pc \in {"create", "lock", "stat", "steal", "compare", "replace"} =>
          /\ writer[p].expected < writer[p].own /\ writer[p].own <= begun
          /\ writer[p].answer = "none"
          /\ writer[p].expected = 0 <=> At(p, "create")
    /\ writer[p].answer # "none" => writer[p].expected < content
    /\ At(p, "replace") => content = writer[p].expected
    /\ At(p, "dead") => writer[p].answer = "none"
    /\ writer[p].pc \in {"unlock", "return"} => writer[p].answer # "none"

IInv ==
    /\ TypeOK /\ Exclusion /\ content <= begun
    /\ \A p \in Writers : Right(p)
    /\ OneWinner

\* How the file may move in a step of a writer.
Moves(p) ==
    /\ Alone(p)
    /\ content' \in Nat /\ content <= content' /\ content' <= begun'
    /\ begun' \in Nat /\ begun <= begun'
    /\ content' = content \/ \A q \in Writers \ {p} : ~ At(q, "replace")

\* The writer has an answer it did not have before only if the file has just been at its version.
Told(p) ==
    writer'[p].answer = "won" =>
       \/ writer'[p].expected = content
       \/ writer[p].answer = "won" /\ writer'[p].expected = writer[p].expected

LEMMA StepIInv ==
    ASSUME IInv, TypeOK', Exclusion', NEW p \in Writers, Moves(p), Right(p)', Told(p)
    PROVE  IInv'
<1>1. \A q \in Writers \ {p} : writer'[q] = writer[q] /\ writer[q] \in WriterState
  BY StateType DEF Moves, Alone, IInv
<1>2. content \in Nat /\ begun \in Nat
  BY DEF IInv, TypeOK
<1>3. ASSUME NEW q \in Writers \ {p} PROVE Right(q)'
  <2>1. Right(q)
    BY DEF IInv
  <2>2. QED
    BY <1>1, <1>2, <2>1 DEF Moves, Right, At, WriterState
<1>4. OneWinner'
  <2> SUFFICES ASSUME NEW q \in Writers \ {p}, writer'[p].answer = "won", writer'[q].answer = "won"
               PROVE  writer'[p].expected # writer'[q].expected
    BY <1>1 DEF OneWinner, IInv
  <2>1. writer[q].expected < content /\ writer[q].expected \in Nat
    BY <1>1 DEF IInv, Right, WriterState
  <2>2. QED
    BY <1>1, <1>2, <2>1 DEF Told, IInv, OneWinner
<1>5. QED
  BY <1>3, <1>4 DEF IInv, Moves

LEMMA BeginMoves ==
    ASSUME IInv, NEW p \in Writers, Begin(p)
    PROVE  Moves(p) /\ Right(p)' /\ Told(p)
<1>1. /\ Alone(p) /\ content \in Nat /\ begun \in Nat /\ content <= begun
      /\ writer'[p].pc = (IF content = 0 THEN "create" ELSE "lock")
      /\ writer'[p].expected = content /\ writer'[p].own = begun + 1 /\ writer'[p].answer = "none"
  BY BeginEffect DEF IInv
<1>2. content' = content /\ begun' = begun + 1
  BY DEF Begin
<1>3. QED
  BY <1>1, <1>2 DEF Moves, Right, At, Told

\* A writer goes on and the file stays as it is.
LEMMA StayMoves ==
    ASSUME IInv, NEW p \in Writers, Alone(p), NEW pc, Same(p, pc, writer[p].answer),
           UNCHANGED <<content, begun>>,
           \/ writer[p].pc = "return" /\ pc = "idle"
           \/ writer[p].pc = "unlock" /\ pc = "idle"
           \/ writer[p].pc = "lock" /\ pc \in {"stat", "compare"}
           \/ writer[p].pc = "stat" /\ pc \in {"lock", "steal", "idle"}
           \/ writer[p].pc = "steal" /\ pc = "lock"
           \/ writer[p].pc = "compare" /\ pc = "replace" /\ content = writer[p].expected
    PROVE  Moves(p) /\ Right(p)' /\ Told(p)
<1>1. Right(p) /\ content \in Nat /\ begun \in Nat /\ content <= begun
  BY DEF IInv, TypeOK
<1>2. QED
  BY <1>1 DEF Same, Moves, Right, At, Told

\* A writer is told that it lost, the file having moved on; or it dies.
LEMMA LostMoves ==
    ASSUME IInv, NEW p \in Writers, Alone(p), NEW pc, NEW answer, Same(p, pc, answer),
           UNCHANGED <<content, begun>>,
           \/ pc \in {"unlock", "return"} /\ answer = "lost" /\ content # writer[p].expected
           \/ pc = "dead" /\ answer = "none"
    PROVE  Moves(p) /\ Right(p)' /\ Told(p)
<1>1. Right(p) /\ content \in Nat /\ begun \in Nat /\ content <= begun /\ writer[p].expected \in Nat
  BY StateType DEF IInv, TypeOK, WriterState
<1>2. QED
  BY <1>1 DEF Same, Moves, Right, At, Told

\* The version it expects is the one it replaces: nobody else is between Compare and Replace, and
\* where there was no file nobody can be.
LEMMA WonMoves ==
    ASSUME IInv, NEW p \in Writers, NEW pc \in {"return", "unlock"}, Answer(p, pc, "won"),
           content' = writer[p].own, begun' = begun,
           (At(p, "create") /\ content = 0) \/ At(p, "replace")
    PROVE  /\ Moves(p) /\ Right(p)' /\ Told(p)
           /\ content = writer[p].expected /\ content < content'
<1>1. Alone(p) /\ Same(p, pc, "won")
  BY AnswerEffect DEF IInv, Steps
<1>2. /\ writer[p].expected < writer[p].own /\ writer[p].own <= begun /\ writer[p].answer = "none"
      /\ content = writer[p].expected
      /\ writer[p].own \in Nat /\ content \in Nat /\ begun \in Nat
  BY StateType DEF IInv, Right, At, TypeOK, WriterState
<1>3. \A q \in Writers \ {p} : ~ At(q, "replace")
  <2>1. CASE At(p, "create")
    BY <2>1 DEF IInv, Right, At
  <2>2. CASE At(p, "replace")
    BY <2>2 DEF IInv, Exclusion, OwnsLock, Critical, At
  <2>3. QED
    BY <2>1, <2>2
<1>4. QED
  BY <1>1, <1>2, <1>3 DEF Same, Moves, Right, At, Told

LEMMA WriterMoves ==
    ASSUME IInv, NEW p \in Writers,
           \/ Begin(p) \/ Create(p) \/ Return(p) \/ TryLock(p) \/ Stat(p) \/ Steal(p) \/ Compare(p)
           \/ Replace(p) \/ Unlock(p) \/ Crash(p)
    PROVE  Moves(p) /\ Right(p)' /\ Told(p)
<1>1. TypeOK
  BY DEF IInv
<1>2. CASE Begin(p)
  BY <1>2, BeginMoves
<1>3. CASE Create(p) /\ content = 0
  BY <1>3, WonMoves DEF Create
<1>4. CASE Create(p) /\ content # 0
  <2>1. Alone(p) /\ Same(p, "return", "lost") /\ UNCHANGED <<content, begun>>
    BY <1>1, <1>4, AnswerEffect DEF Create, Steps
  <2>2. writer[p].expected = 0
    BY <1>4 DEF Create, IInv, Right, At
  <2>3. QED
    BY <1>4, <2>1, <2>2, LostMoves
<1>5. CASE Return(p) \/ Unlock(p) \/ Steal(p)
  BY <1>1, <1>5, GotoEffect, StayMoves DEF Return, Unlock, Steal, At, Steps
<1>6. CASE TryLock(p) /\ lock = {}
  BY <1>1, <1>6, TakeEffect, StayMoves DEF TryLock, At
<1>7. CASE TryLock(p) /\ lock # {}
  BY <1>1, <1>7, GotoEffect, StayMoves DEF TryLock, At, Steps
<1>8. CASE Stat(p)
  BY <1>1, <1>8, GotoEffect, StayMoves DEF Stat, At, Steps
<1>9. CASE Compare(p) /\ content = writer[p].expected
  BY <1>1, <1>9, GotoEffect, StayMoves DEF Compare, At, Steps
<1>10. CASE Compare(p) /\ content # writer[p].expected
  BY <1>1, <1>10, AnswerEffect, LostMoves DEF Compare, Steps
<1>11. CASE Replace(p)
  BY <1>11, WonMoves DEF Replace
<1>12. CASE Crash(p)
  BY <1>1, <1>12, AnswerEffect, LostMoves DEF Crash, Steps
<1>13. QED
  BY <1>2, <1>3, <1>4, <1>5, <1>6, <1>7, <1>8, <1>9, <1>10, <1>11, <1>12

LEMMA NextIInv == IInv /\ [Next]_vars => IInv'
<1> SUFFICES ASSUME IInv, [Next]_vars PROVE IInv'
  OBVIOUS
<1>1. TypeOK' /\ Exclusion'
  BY NextTypeOK, NextExclusion DEF IInv
<1>2. CASE \E p \in Writers :
             \/ Begin(p) \/ Create(p) \/ Return(p) \/ TryLock(p) \/ Stat(p) \/ Steal(p) \/ Compare(p)
             \/ Replace(p) \/ Unlock(p) \/ Crash(p)
  BY <1>1, <1>2, WriterMoves, StepIInv
<1>3. CASE Tick \/ UNCHANGED vars
  <2>1. content' = content /\ begun' = begun /\ writer' = writer
    BY <1>3 DEF Tick, vars
  <2>2. QED
    BY <1>1, <2>1 DEF IInv, Right, OneWinner, At
<1>4. QED
  BY <1>2, <1>3 DEF Next

LEMMA InitIInv == Init /\ OneContender => IInv
<1> SUFFICES ASSUME Init, OneContender PROVE IInv
  OBVIOUS
<1>1. \A p \in Writers : writer[p] = [pc |-> "idle", expected |-> 0, own |-> 0, since |-> 0, answer |-> "none"]
  BY DEF Init
<1>2. (\A p \in Writers : Right(p)) /\ OneWinner /\ content <= begun
  BY <1>1 DEF Init, Right, OneWinner, At
<1>3. QED
  BY <1>2, InitTypeOK, InitExclusion DEF IInv

LEMMA SpecIInv == Spec /\ OneContender => []IInv
BY InitIInv, NextIInv, PTL DEF Spec

\* With one contender for an orphaned lock, a writer between its TryLock and its Unlock is alone
\* with the file, and the lock file there is its own (storage.py:592-626).
THEOREM LockOwned == Spec /\ OneContender => []OwnsLock
<1>1. IInv => OwnsLock
  BY DEF IInv, Exclusion
<1>2. QED
  BY <1>1, SpecIInv, PTL

\* With one contender, "exactly one of them wins" (storage.py:460) holds.
THEOREM OneWriterWins == Spec /\ OneContender => []OneWinner
<1>1. IInv => OneWinner
  BY DEF IInv
<1>2. QED
  BY <1>1, SpecIInv, PTL
-----------------------------------------------------------------------------
(* The refinement: every step is one of ConditionalStore's, or a stutter. *)

\* Status, case by case.
LEMMA StatusIs ==
    ASSUME IInv, NEW p \in Writers
    PROVE  /\ At(p, "dead") => Status(p) = "idle"
           /\ At(p, "idle") => Status(p) = IF writer[p].answer = "none" THEN "idle" ELSE writer[p].answer
           /\ writer[p].pc \in {"unlock", "return"} =>
                 Status(p) = IF writer[p].answer = "won" THEN "applied" ELSE "pending"
           /\ writer[p].pc \in {"create", "lock", "stat", "steal", "compare", "replace"} => Status(p) = "pending"
BY StateType DEF IInv, Status, At, WriterState, Right

\* What ConditionalStore sees of a step of one writer.
LEMMA OneBecomes ==
    ASSUME IInv, NEW p \in Writers, Alone(p), writer'[p].expected = writer[p].expected,
           NEW s, Status(p)' = s
    PROVE  /\ Store!Become(p, s)
           /\ [q \in Writers |-> writer[q].expected]' = [q \in Writers |-> writer[q].expected]
<1>1. \A q \in Writers \ {p} : writer'[q] = writer[q]
  BY DEF Alone
<1>2. \A q \in Writers \ {p} : Status(q)' = Status(q)
  BY <1>1 DEF Status, At
<1>3. Store!Become(p, s)
  BY <1>2 DEF Store!Become
<1>4. \A q \in Writers : writer'[q].expected = writer[q].expected
  BY <1>1
<1>5. QED
  BY <1>3, <1>4

LEMMA NothingSeen ==
    ASSUME IInv, NEW p \in Writers, Alone(p), writer'[p].expected = writer[p].expected,
           Status(p)' = Status(p), content' = content
    PROVE  UNCHANGED Store!vars
<1>1. \A q \in Writers \ {p} : writer'[q] = writer[q]
  BY DEF Alone
<1>2. \A q \in Writers \ {p} : Status(q)' = Status(q)
  BY <1>1 DEF Status, At
<1>3. \A q \in Writers : Status(q)' = Status(q) /\ writer'[q].expected = writer[q].expected
  BY <1>1, <1>2
<1>4. QED
  BY <1>3 DEF Store!vars

LEMMA BeginStep == ASSUME IInv, NEW p \in Writers, Begin(p) PROVE Store!Read(p)
<1>1. /\ Alone(p) /\ writer'[p].pc \in {"create", "lock"} /\ writer'[p].expected = content /\ content' = content
  BY BeginEffect DEF IInv, Begin
<1>2. Status(p)' = "pending"
  BY <1>1 DEF Status, At
<1>3. Status(p) \in {"idle", "won", "lost"}
  BY StateType, StatusIs DEF Begin, WriterState, IInv
<1>4. \A q \in Writers \ {p} : writer'[q] = writer[q]
  BY <1>1 DEF Alone
<1>5. \A q \in Writers \ {p} : Status(q)' = Status(q)
  BY <1>4 DEF Status, At
<1>6. Store!Become(p, "pending")
  BY <1>2, <1>5 DEF Store!Become
<1>7. [q \in Writers |-> writer[q].expected]' = [[q \in Writers |-> writer[q].expected] EXCEPT ![p] = content]
  <2>1. \A q \in Writers : writer'[q].expected = IF q = p THEN content ELSE writer[q].expected
    BY <1>1, <1>4
  <2>2. QED
    BY <2>1
<1>8. QED
  BY <1>1, <1>3, <1>6, <1>7 DEF Store!Read, Store!Busy

\* On the way to the file, from its lock or between two looks at it.
LEMMA WayStep ==
    ASSUME IInv, NEW p \in Writers, Alone(p), NEW pc \in {"lock", "stat", "steal", "compare", "replace"},
           writer[p].pc \in {"lock", "stat", "steal", "compare"}, Same(p, pc, writer[p].answer), content' = content
    PROVE  UNCHANGED Store!vars
<1>1. Status(p) = "pending"
  BY StatusIs
<1>2. Status(p)' = "pending"
  BY DEF Same, Status, At
<1>3. QED
  BY <1>1, <1>2, NothingSeen DEF Same

LEMMA WonStep ==
    ASSUME IInv, NEW p \in Writers, NEW pc \in {"return", "unlock"}, Answer(p, pc, "won"),
           content' = writer[p].own, begun' = begun,
           (At(p, "create") /\ content = 0) \/ At(p, "replace")
    PROVE  Store!Apply(p)
<1>1. Alone(p) /\ Same(p, pc, "won")
  BY AnswerEffect DEF IInv, Steps
<1>2. content = writer[p].expected /\ content' > content
  BY WonMoves DEF IInv, TypeOK, Moves
<1>3. Status(p) = "pending"
  BY StatusIs DEF At
<1>4. Status(p)' = "applied"
  BY <1>1 DEF Same, Status, At
<1>5. Store!Become(p, "applied") /\ [q \in Writers |-> writer[q].expected]' = [q \in Writers |-> writer[q].expected]
  BY <1>1, <1>4, OneBecomes DEF Same
<1>6. QED
  BY <1>2, <1>3, <1>5 DEF Store!Apply

\* That it lost is decided, and told later.
LEMMA LostStep ==
    ASSUME IInv, NEW p \in Writers, Alone(p), NEW pc \in {"unlock", "return"},
           writer[p].pc \in {"create", "compare"}, Same(p, pc, "lost"), content' = content
    PROVE  UNCHANGED Store!vars
<1>1. Status(p) = "pending"
  BY StatusIs
<1>2. Status(p)' = "pending"
  BY DEF Same, Status, At
<1>3. QED
  BY <1>1, <1>2, NothingSeen DEF Same

LEMMA ToldStep ==
    ASSUME IInv, NEW p \in Writers, writer[p].pc \in {"unlock", "return"}, Goto(p, "idle"), content' = content
    PROVE  Store!Win(p) \/ Store!Lose(p)
<1>1. Alone(p) /\ Same(p, "idle", writer[p].answer)
  BY GotoEffect DEF IInv, Steps
<1>2. /\ writer[p].answer \in {"won", "lost"} /\ writer[p].expected < content
      /\ writer[p].expected \in Nat /\ content \in Nat
  BY StateType DEF IInv, Right, TypeOK, WriterState
<1>3. Status(p)' = writer[p].answer
  BY <1>1, <1>2 DEF Same, Status, At
<1>4. Store!Become(p, writer[p].answer) /\ [q \in Writers |-> writer[q].expected]' = [q \in Writers |-> writer[q].expected]
  BY <1>1, <1>3, OneBecomes DEF Same
<1>5. Status(p) = IF writer[p].answer = "won" THEN "applied" ELSE "pending"
  BY StatusIs
<1>6. QED
  BY <1>2, <1>4, <1>5 DEF Store!Win, Store!Lose

\* A write that is given up, or whose writer dies.
LEMMA GoneStep ==
    ASSUME IInv, NEW p \in Writers, Alone(p), Same(p, "dead", "none") \/ Same(p, "idle", "none"),
           content' = content
    PROVE  Store!Abandon({p})
<1>1. Status(p)' = "idle"
  BY DEF Same, Status, At
<1>2. \A q \in Writers \ {p} : writer'[q] = writer[q]
  BY DEF Alone
<1>3. \A q \in Writers \ {p} : Status(q)' = Status(q)
  BY <1>2 DEF Status, At
<1>4. \A q \in Writers : writer'[q].expected = writer[q].expected
  BY <1>2 DEF Same
<1>5. QED
  BY <1>1, <1>3, <1>4 DEF Store!Abandon

LEMMA WriterStep ==
    ASSUME IInv, NEW p \in Writers,
           \/ Begin(p) \/ Create(p) \/ Return(p) \/ TryLock(p) \/ Stat(p) \/ Steal(p) \/ Compare(p)
           \/ Replace(p) \/ Unlock(p) \/ Crash(p)
    PROVE  Store!Next \/ UNCHANGED Store!vars
<1>1. TypeOK /\ {p} \in SUBSET Writers
  BY DEF IInv
<1>2. CASE Begin(p)
  BY <1>2, BeginStep DEF Store!Next
<1>3. CASE Create(p) /\ content = 0
  BY <1>3, WonStep DEF Create, Store!Next
<1>4. CASE (Create(p) /\ content # 0) \/ (Compare(p) /\ content # writer[p].expected)
  BY <1>1, <1>4, AnswerEffect, LostStep DEF Create, Compare, At, Steps
<1>5. CASE Return(p) \/ Unlock(p)
  BY <1>5, ToldStep DEF Return, Unlock, At, Store!Next
<1>6. CASE TryLock(p) /\ lock = {}
  BY <1>1, <1>6, TakeEffect, WayStep DEF TryLock, At
<1>7. CASE (TryLock(p) /\ lock # {}) \/ Steal(p)
  BY <1>1, <1>7, GotoEffect, WayStep DEF TryLock, Steal, At, Steps
<1>8. CASE Stat(p)
  <2>1. PICK step \in {"lock", "steal", "idle"} : Goto(p, step)
    BY <1>8 DEF Stat
  <2>2. Alone(p) /\ Same(p, step, writer[p].answer) /\ writer[p].pc = "stat" /\ content' = content
    BY <1>1, <1>8, <2>1, GotoEffect DEF Stat, At, Steps
  <2>3. writer[p].answer = "none"
    BY <2>2 DEF IInv, Right
  <2>4. CASE step = "idle"
    BY <1>1, <2>2, <2>3, <2>4, GoneStep DEF Store!Next
  <2>5. CASE step # "idle"
    BY <2>1, <2>2, <2>5, WayStep
  <2>6. QED
    BY <2>4, <2>5
<1>9. CASE Compare(p) /\ content = writer[p].expected
  BY <1>1, <1>9, GotoEffect, WayStep DEF Compare, At, Steps
<1>10. CASE Replace(p)
  BY <1>10, WonStep DEF Replace, Store!Next
<1>11. CASE Crash(p)
  <2>1. Alone(p) /\ Same(p, "dead", "none") /\ content' = content
    BY <1>1, <1>11, AnswerEffect DEF Crash, Steps
  <2>2. QED
    BY <1>1, <2>1, GoneStep DEF Store!Next
<1>12. QED
  BY <1>2, <1>3, <1>4, <1>5, <1>6, <1>7, <1>8, <1>9, <1>10, <1>11

LEMMA StoreStep == IInv /\ [Next]_vars => [Store!Next]_(Store!vars)
<1> SUFFICES ASSUME IInv, [Next]_vars PROVE Store!Next \/ UNCHANGED Store!vars
  OBVIOUS
<1>1. CASE \E p \in Writers :
             \/ Begin(p) \/ Create(p) \/ Return(p) \/ TryLock(p) \/ Stat(p) \/ Steal(p) \/ Compare(p)
             \/ Replace(p) \/ Unlock(p) \/ Crash(p)
  BY <1>1, WriterStep
<1>2. CASE Tick \/ UNCHANGED vars
  <2>1. content' = content /\ writer' = writer
    BY <1>2 DEF Tick, vars
  <2>2. \A p \in Writers : Status(p)' = Status(p)
    BY <2>1 DEF Status, At
  <2>3. QED
    BY <2>1, <2>2 DEF Store!vars
<1>3. QED
  BY <1>1, <1>2 DEF Next

\* With one contender, linking a new file and replacing one under the lock file are one
\* compare-and-set, whose answer is the truth (storage.py:408-626).
THEOREM Refinement == Spec /\ OneContender => ImplementsStore
<1>1. Init => Store!Init
  <2> SUFFICES ASSUME Init PROVE Store!Init
    OBVIOUS
  <2>1. \A p \in Writers : Status(p) = "idle" /\ writer[p].expected = 0
    BY DEF Init, Status, At
  <2>2. QED
    BY <2>1 DEF Init, Store!Init
<1>2. QED
  BY <1>1, StoreStep, SpecIInv, PTL DEF Spec, ImplementsStore, Store!Spec
=============================================================================
