-------------------------- MODULE ConditionalStore --------------------------
(***************************************************************************)
(* What a store's conditional writes promise about one object: a write     *)
(* replaces the very version its writer read, so each version is replaced  *)
(* once; a writer is told that it won only if its write was applied, and   *)
(* that it lost only if somebody else's was.  A Pessimistic store may also *)
(* tell a writer that it lost when its write was applied (the answer was   *)
(* lost and the request repeated) or when it met another one in progress.  *)
(***************************************************************************)
EXTENDS Naturals

CONSTANTS Writers, Pessimistic

VARIABLES
    content,   \* the version stored; 0 when there is no object
    status,    \* each writer's conditional write
    expected   \* the version each of them is to replace

vars == <<content, status, expected>>

Init ==
    /\ content = 0
    /\ status = [p \in Writers |-> "idle"]
    /\ expected = [p \in Writers |-> 0]

Busy(p) == status[p] \in {"pending", "applied"}
Become(p, s) == status' = [status EXCEPT ![p] = s]

\* A writer reads the object and prepares its next version.
Read(p) ==
    /\ ~ Busy(p)
    /\ Become(p, "pending")
    /\ expected' = [expected EXCEPT ![p] = content]
    /\ UNCHANGED content

\* The write itself.  Versions are contents, and no content is ever written twice.
Apply(p) ==
    /\ status[p] = "pending" /\ content = expected[p]
    /\ content' > content
    /\ Become(p, "applied")
    /\ UNCHANGED expected

Win(p) ==
    /\ status[p] = "applied"
    /\ Become(p, "won")
    /\ UNCHANGED <<content, expected>>

Lose(p) ==
    /\ \/ status[p] = "pending" /\ content # expected[p]
       \/ Pessimistic /\ status[p] = "applied"
       \/ Pessimistic /\ status[p] = "pending" /\ \E q \in Writers \ {p} : Busy(q)
    /\ Become(p, "lost")
    /\ UNCHANGED <<content, expected>>

\* Writes end with an error, or their writers die.
Abandon(gone) ==
    /\ status' = [p \in Writers |-> IF p \in gone THEN "idle" ELSE status[p]]
    /\ UNCHANGED <<content, expected>>

Next ==
    \/ \E p \in Writers : Read(p) \/ Apply(p) \/ Win(p) \/ Lose(p)
    \/ \E gone \in SUBSET Writers : Abandon(gone)

Spec == Init /\ [][Next]_vars
=============================================================================
