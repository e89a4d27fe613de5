------------------------------- MODULE S3Cas -------------------------------
(***************************************************************************)
(* Conditional writes of S3Storage to one object.  Inside a process the    *)
(* writers of a key share a lock and look at the object's version with a   *)
(* HEAD before they PUT; across processes the PUT carries If-Match (or     *)
(* If-None-Match) and the server decides.  A backend may evaluate that     *)
(* header as a comparison followed by a write.  The SDK repeats a PUT      *)
(* whose response it did not get.                                          *)
(***************************************************************************)
EXTENDS Naturals, FiniteSets

CONSTANTS
    Writers, Processes,
    MaxWrites,   \* bound: conditional writes begun
    MaxFaults    \* bound: requests that fail or lose their response, and writers that die

ASSUME ConstantsAssumption ==
    /\ Processes # {} /\ MaxWrites \in Nat /\ MaxFaults \in Nat

VARIABLES
    home,     \* the process each writer is a thread of
    atomic,   \* does the server compare and write in one step?
    content,  \* the object's version; 0 when there is none
    locked,   \* the processes whose lock for the key is taken
    writer,   \* each writer's progress
    begun, faults

deployment == <<home, atomic>>
vars == <<home, atomic, content, locked, writer, begun, faults>>

Steps == {"idle", "lock", "head", "put", "write", "answer", "dead"}

WriterState == [pc: Steps, expected: Nat, own: Nat, sent: BOOLEAN, answer: {"none", "won", "lost"}]

\* expected: the version its caller read, 0 for if_none_match.  own: the contents it brings.
\* sent (history): its contents have been in the object.  answer: what it will be told.
TypeOK ==
    /\ home \in [Writers -> Processes] /\ atomic \in BOOLEAN
    /\ content \in Nat
    /\ locked \subseteq Processes
    /\ writer \in [Writers -> WriterState]
    /\ begun \in 0..MaxWrites /\ faults \in 0..MaxFaults

\* The server is trusted across processes; a backend that is not atomic (moto) serves one.
Init ==
    /\ home \in [Writers -> Processes]
    /\ atomic \in BOOLEAN
    /\ atomic \/ \A p, q \in Writers : home[p] = home[q]
    /\ content = 0
    /\ locked = {}
    /\ writer = [p \in Writers |-> [pc |-> "idle", expected |-> 0, own |-> 0, sent |-> FALSE,
                                    answer |-> "none"]]
    /\ begun = 0 /\ faults = 0

At(p, step) == writer[p].pc = step
Goto(p, step) == writer' = [writer EXCEPT ![p].pc = step]
Answer(p, answer) == writer' = [writer EXCEPT ![p].pc = "answer", ![p].answer = answer]
Fault == faults < MaxFaults /\ faults' = faults + 1
-----------------------------------------------------------------------------
\* The caller reads the object with its ETag and writes on that version.
Begin(p) ==
    /\ At(p, "idle") /\ begun < MaxWrites
    /\ begun' = begun + 1
    /\ writer' = [writer EXCEPT ![p] = [pc |-> "lock", expected |-> content, own |-> begun + 1,
                                        sent |-> FALSE, answer |-> "none"]]
    /\ UNCHANGED <<deployment, content, locked, faults>>

\* Faults: every caller gets a lock of its own; the lock is not taken.
LockOfOnesOwn(p) ==
    /\ At(p, "lock") /\ p \notin locked
    /\ locked' = locked \cup {p}
    /\ Goto(p, "head")
    /\ UNCHANGED <<deployment, content, begun, faults>>
LockUntaken(p) ==
    /\ At(p, "lock")
    /\ Goto(p, "head")
    /\ UNCHANGED <<deployment, content, locked, begun, faults>>

\* Enter the critical section of _conditional_lock.
Lock(p) ==
    /\ At(p, "lock") /\ home[p] \notin locked
    /\ locked' = locked \cup {home[p]}
    /\ Goto(p, "head")
    /\ UNCHANGED <<deployment, content, begun, faults>>

\* _current_version: a version that moved is rejected here.
Head(p) ==
    /\ At(p, "head")
    /\ IF content = writer[p].expected THEN Goto(p, "put") ELSE Answer(p, "lost")
    /\ UNCHANGED <<deployment, content, locked, begun, faults>>

\* The server writes, and the answer arrives; or it does not and the SDK sends the PUT again.
Stores(p) ==
    /\ content' = writer[p].own
    /\ \/ /\ writer' = [writer EXCEPT ![p].pc = "answer", ![p].sent = TRUE, ![p].answer = "won"]
          /\ UNCHANGED faults
       \/ /\ writer' = [writer EXCEPT ![p].pc = "put", ![p].sent = TRUE]
          /\ Fault

\* A conditional request that meets another one on the key may be refused for that alone
\* (409 ConditionalRequestConflict).
Conflict(p) == \E q \in Writers \ {p} : writer[q].pc \in {"put", "write"}

\* Fault: the PUT carries no If-Match.
PutUnconditionally(p) ==
    /\ At(p, "put")
    /\ IF atomic THEN Stores(p) ELSE Goto(p, "write") /\ UNCHANGED <<content, faults>>
    /\ UNCHANGED <<deployment, locked, begun>>

\* The server compares.  A precondition fails (412) also when the version that moved is the
\* writer's own, its PUT being a repeated one.
Put(p) ==
    /\ At(p, "put")
    /\ \/ /\ content # writer[p].expected \/ Conflict(p)
          /\ Answer(p, "lost")
          /\ UNCHANGED <<content, faults>>
       \/ /\ content = writer[p].expected
          /\ IF atomic THEN Stores(p) ELSE Goto(p, "write") /\ UNCHANGED <<content, faults>>
    /\ UNCHANGED <<deployment, locked, begun>>

Write(p) ==
    /\ At(p, "write")
    /\ Stores(p)
    /\ UNCHANGED <<deployment, locked, begun>>

\* Leave the critical section and return.
Leave(p) ==
    /\ At(p, "answer")
    /\ locked' = locked \ {home[p]}
    /\ Goto(p, "idle")
    /\ UNCHANGED <<deployment, content, begun, faults>>

\* Fault: the lock is released only on return.
RaiseLocked(p) ==
    /\ writer[p].pc \in {"head", "put"} /\ Fault
    /\ writer' = [writer EXCEPT ![p].pc = "idle", ![p].answer = "none"]
    /\ UNCHANGED <<deployment, content, locked, begun>>

\* A HEAD or PUT raises out of the write: the lock is released and no answer is given.
Raise(p) ==
    /\ writer[p].pc \in {"head", "put"} /\ Fault
    /\ locked' = locked \ {home[p]}
    /\ writer' = [writer EXCEPT ![p].pc = "idle", ![p].answer = "none"]
    /\ UNCHANGED <<deployment, content, begun>>

\* A process dies with its threads and its lock.
Crash(proc) ==
    /\ Fault
    /\ \E p \in Writers : home[p] = proc /\ ~ At(p, "dead")
    /\ locked' = locked \ {proc}
    /\ writer' = [p \in Writers |-> IF home[p] = proc
                                    THEN [writer[p] EXCEPT !.pc = "dead", !.answer = "none"]
                                    ELSE writer[p]]
    /\ UNCHANGED <<deployment, content, begun>>

Next ==
    \/ \E proc \in Processes : Crash(proc)
    \/ \E p \in Writers :
          \/ Begin(p) \/ Lock(p) \/ Head(p) \/ Put(p) \/ Write(p) \/ Leave(p) \/ Raise(p)

Spec == Init /\ [][Next]_vars
-----------------------------------------------------------------------------
(* What the two guards are for. *)

\* Whatever the backend does between its comparison and its write, and whichever process a
\* writer is in, of the writers that read one version at most one is told that it replaced it.
OneWinner ==
    \A p, q \in Writers :
        /\ p # q
        /\ writer[p].answer = "won" /\ writer[q].answer = "won"
        => writer[p].expected # writer[q].expected

\* A dead process, a failed request or a lost answer leaves no lock behind: a key's lock is
\* taken only while a living writer of that process is in its critical section.
Holds(p) == writer[p].pc \in {"head", "put", "write", "answer"}
LockHasHolder ==
    /\ \A proc \in locked : \E p \in Writers : home[p] = proc /\ Holds(p)
    /\ \A p, q \in Writers : Holds(p) /\ Holds(q) /\ home[p] = home[q] => p = q

\* A write told that it lost has lost, although it may still hold its process's lock.
Status(p) ==
    CASE At(p, "dead") -> "idle"
      [] ~ At(p, "dead") /\ writer[p].answer = "lost" -> "lost"
      [] ~ At(p, "dead") /\ writer[p].answer = "won"  -> IF At(p, "idle") THEN "won" ELSE "applied"
      [] ~ At(p, "dead") /\ writer[p].answer = "none" ->
             IF At(p, "idle") THEN "idle" ELSE IF writer[p].sent THEN "applied" ELSE "pending"

Store == INSTANCE ConditionalStore WITH
    Pessimistic <- TRUE,
    status <- [p \in Writers |-> Status(p)],
    expected <- [p \in Writers |-> writer[p].expected]

\* Two locks, a HEAD and a conditional PUT amount to one compare-and-set.
ImplementsStore == Store!Spec
=============================================================================
