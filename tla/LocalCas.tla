------------------------------ MODULE LocalCas ------------------------------
(***************************************************************************)
(* Conditional writes of LocalStorage to one file.  A new file is          *)
(* hard-linked into place; an existing one is compared and replaced under  *)
(* an exclusive lock file, which waiters poll and steal once it is old.    *)
(* The lock file names no owner: whoever unlinks it removes whichever lock *)
(* is there.                                                               *)
(***************************************************************************)
EXTENDS Naturals, FiniteSets

CONSTANTS
    Writers,     \* the threads and processes writing the key
    StaleAfter,  \* stale_after of _acquire_lock
    WaitLimit,   \* timeout of _acquire_lock
    Prompt,      \* does a holder release its lock within StaleAfter, unless it dies?
    MaxWrites,   \* bound: conditional writes begun
    MaxCrashes,  \* bound: writers that die
    MaxClock     \* bound: how far the clock runs

ASSUME ConstantsAssumption ==
    /\ StaleAfter \in Nat /\ WaitLimit \in Nat /\ WaitLimit < StaleAfter
    /\ Prompt \in BOOLEAN
    /\ MaxWrites \in Nat /\ MaxCrashes \in Nat /\ MaxClock \in Nat

VARIABLES
    content,  \* the version in the file; 0 when there is none
    lock,     \* {} or {the lock file's mtime}
    writer,   \* each writer's progress
    now,
    begun,    \* writes begun so far; each brings new contents
    crashes

vars == <<content, lock, writer, now, begun, crashes>>

Steps == {"idle", "create", "lock", "stat", "steal", "compare", "replace", "unlock", "return", "dead"}

\* expected: the version its caller read.  own: the contents it brings.  since: when it began
\* to wait for the lock, and then when it took it.  answer: what it is told.
WriterState == [pc: Steps, expected: Nat, own: Nat, since: Nat, answer: {"none", "won", "lost"}]

TypeOK ==
    /\ content \in Nat
    /\ lock \subseteq 0..now /\ Cardinality(lock) <= 1
    /\ writer \in [Writers -> WriterState]
    /\ now \in Nat /\ begun \in Nat /\ crashes \in Nat

Init ==
    /\ content = 0
    /\ lock = {}
    /\ writer = [p \in Writers |-> [pc |-> "idle", expected |-> 0, own |-> 0, since |-> 0,
                                    answer |-> "none"]]
    /\ now = 0 /\ begun = 0 /\ crashes = 0

At(p, step) == writer[p].pc = step
Goto(p, step) == writer' = [writer EXCEPT ![p].pc = step]
Answer(p, step, answer) == writer' = [writer EXCEPT ![p].pc = step, ![p].answer = answer]
-----------------------------------------------------------------------------
\* The caller reads the file with its version, and writes: with if_none_match when there is no
\* file, with put_bytes_if_version otherwise.
Begin(p) ==
    /\ At(p, "idle") /\ begun < MaxWrites
    /\ begun' = begun + 1
    /\ writer' = [writer EXCEPT ![p] = [pc |-> IF content = 0 THEN "create" ELSE "lock",
                                        expected |-> content, own |-> begun + 1, since |-> now,
                                        answer |-> "none"]]
    /\ UNCHANGED <<content, lock, now, crashes>>

\* link() of the finished temporary file: it fails if the name exists.  Then the temporary
\* name is removed and the answer returned.
Create(p) ==
    /\ At(p, "create")
    /\ IF content = 0
       THEN content' = writer[p].own /\ Answer(p, "return", "won")
       ELSE UNCHANGED content /\ Answer(p, "return", "lost")
    /\ UNCHANGED <<lock, now, begun, crashes>>

Return(p) == At(p, "return") /\ Goto(p, "idle") /\ UNCHANGED <<content, lock, now, begun, crashes>>

\* Fault: the file system's clock runs ahead.
MtimeAhead == now + 1

\* The mtime of a file created now.
Mtime == now

\* open(O_CREAT | O_EXCL)
TryLock(p) ==
    /\ At(p, "lock")
    /\ IF lock = {}
       THEN lock' = {Mtime} /\ writer' = [writer EXCEPT ![p].pc = "compare", ![p].since = now]
       ELSE UNCHANGED lock /\ Goto(p, "stat")
    /\ UNCHANGED <<content, now, begun, crashes>>

\* Fault: the two limits are swapped.
StaleSwapped == \E mtime \in lock : now > mtime + WaitLimit

Stale == \E mtime \in lock : now > mtime + StaleAfter

\* The lock exists: is it gone by now, old, or has the writer waited long enough for it?
Stat(p) ==
    /\ At(p, "stat")
    /\ \/ lock = {} /\ Goto(p, "lock")
       \/ Stale /\ Goto(p, "steal")
       \/ lock # {} /\ ~ Stale /\ Goto(p, IF now > writer[p].since + WaitLimit THEN "idle" ELSE "lock")
    /\ UNCHANGED <<content, lock, now, begun, crashes>>

Steal(p) ==
    /\ At(p, "steal")
    /\ lock' = {}
    /\ Goto(p, "lock")
    /\ UNCHANGED <<content, now, begun, crashes>>

\* Fault: only the existence of the file is looked at.
CompareExistence(p) ==
    /\ At(p, "compare")
    /\ IF content # 0 THEN Goto(p, "replace") ELSE Answer(p, "unlock", "lost")
    /\ UNCHANGED <<content, lock, now, begun, crashes>>

Compare(p) ==
    /\ At(p, "compare")
    /\ IF content = writer[p].expected THEN Goto(p, "replace") ELSE Answer(p, "unlock", "lost")
    /\ UNCHANGED <<content, lock, now, begun, crashes>>

Replace(p) ==
    /\ At(p, "replace")
    /\ content' = writer[p].own
    /\ Answer(p, "unlock", "won")
    /\ UNCHANGED <<lock, now, begun, crashes>>

Unlock(p) ==
    /\ At(p, "unlock")
    /\ lock' = {}
    /\ Goto(p, "idle")
    /\ UNCHANGED <<content, now, begun, crashes>>

\* The process dies; a lock it holds stays.
Crash(p) ==
    /\ ~ At(p, "dead") /\ crashes < MaxCrashes
    /\ crashes' = crashes + 1
    /\ Answer(p, "dead", "none")
    /\ UNCHANGED <<content, lock, now, begun>>

Critical(p) == writer[p].pc \in {"compare", "replace", "unlock"}

Tick ==
    /\ now < MaxClock
    /\ Prompt => \A p \in Writers : Critical(p) => now < writer[p].since + StaleAfter
    /\ now' = now + 1
    /\ UNCHANGED <<content, lock, writer, begun, crashes>>

Next ==
    \/ Tick
    \/ \E p \in Writers :
          \/ Begin(p) \/ Create(p) \/ Return(p) \/ TryLock(p) \/ Stat(p) \/ Steal(p) \/ Compare(p)
          \/ Replace(p) \/ Unlock(p) \/ Crash(p)

Spec == Init /\ [][Next]_vars
-----------------------------------------------------------------------------
(* What the lock is for. *)

\* Between its own TryLock and Unlock a writer is alone with the file, and the lock file that
\* it will unlink is the one it created.
OwnsLock ==
    \A p \in Writers : Critical(p) =>
        /\ lock = {writer[p].since}
        /\ \A q \in Writers : Critical(q) => q = p

\* "Exactly one contender wins" (storage.py:595, 460): of the writers that read the same
\* version at most one has been told that it replaced it.
OneWinner ==
    \A p, q \in Writers :
        /\ p # q
        /\ writer[p].answer = "won" /\ writer[q].answer = "won"
        => writer[p].expected # writer[q].expected

\* A write in progress has been applied when it only has to be cleaned up after.
Status(p) ==
    CASE At(p, "dead") \/ (At(p, "idle") /\ writer[p].answer = "none") -> "idle"
      [] At(p, "idle") /\ writer[p].answer # "none"                    -> writer[p].answer
      [] writer[p].pc \in {"unlock", "return"} /\ writer[p].answer = "won" -> "applied"
      [] OTHER -> "pending"

Store == INSTANCE ConditionalStore WITH
    Pessimistic <- FALSE,
    status <- [p \in Writers |-> Status(p)],
    expected <- [p \in Writers |-> writer[p].expected]

\* Seen by its callers, a conditional write compares and replaces in one step, and its answer
\* is the truth.
ImplementsStore == Store!Spec
=============================================================================
