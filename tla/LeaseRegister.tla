---------------------------- MODULE LeaseRegister ----------------------------
(***************************************************************************)
(* What the dispatch ledger promises about one (report_date, agent_id),    *)
(* with no workers, messages, reads or versions: a right to send that is   *)
(* granted to one claim at a time for at most Lease, is taken over only    *)
(* once it has run out, and is closed for good by one send or by one       *)
(* permanent failure, each of which happens while it is held.              *)
(***************************************************************************)
EXTENDS Naturals

CONSTANT Lease

VARIABLES
    state,  \* "free", "held", "done" (emailed) or "dead" (failed for the day)
    term,   \* how many times the right has been granted
    until,  \* when the current grant runs out
    now

vars == <<state, term, until, now>>

Init == state = "free" /\ term = 0 /\ until = 0 /\ now = 0

\* A grant counts from the moment the claim began, so some of it may be over already; it
\* never comes too late to be of use.
Grant ==
    /\ state = "free" \/ (state = "held" /\ until <= now)
    /\ state' = "held"
    /\ term' = term + 1
    /\ until' \in (now + 1)..(now + Lease)
    /\ UNCHANGED now

Close(outcome) ==
    /\ state = "held" /\ now < until
    /\ state' = outcome
    /\ until' = 0
    /\ UNCHANGED <<term, now>>

Tick == now' = now + 1 /\ UNCHANGED <<state, term, until>>

Next == Tick \/ Grant \/ \E outcome \in {"free", "done", "dead"} : Close(outcome)

Spec == Init /\ [][Next]_vars
=============================================================================
