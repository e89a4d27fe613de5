------------------------------- MODULE Errors -------------------------------
(***************************************************************************)
(* The error taxonomy: which failed calls are worth repeating.  A failure  *)
(* of an AWS call is the service's answer (its error code is listed as     *)
(* permanent, as retryable, or not at all, and it has an HTTP status), a   *)
(* transport failure, an error of the taxonomy, or anything else.          *)
(***************************************************************************)
EXTENDS Naturals

ClientErrors == [kind: {"client"}, code: {"permanent", "retryable", "unlisted"},
                 status: {403, 404, 409, 429, 500}]

AgentReportsErrors == [kind: {"raised"}, retryable: BOOLEAN]

Failures == ClientErrors \cup AgentReportsErrors \cup [kind: {"transport", "unknown"}]

\* The lists decide before the status does; what is not known to be retryable is permanent.
Retryable(f) ==
    \/ f.kind = "transport"
    \/ f.kind = "raised" /\ f.retryable
    \/ /\ f.kind = "client" /\ f.code # "permanent"
       /\ f.code = "retryable" \/ f.status >= 500 \/ f.status = 429

\* "not (yet) in S3": a DependencyError.
MissingReportError == [kind |-> "raised", retryable |-> TRUE]

\* A HEAD has no body, so a missing object is reported by its status alone; a GET names it.
NoSuchObject(operation) ==
    [kind |-> "client", status |-> 404, code |-> IF operation = "head" THEN "unlisted" ELSE "permanent"]
=============================================================================
