--------------------------- MODULE DispatchRecord ---------------------------
(***************************************************************************)
(* The dispatch marker of one (report_date, agent_id): the record that     *)
(* common/idempotency.py keeps in the state zone, and the pure decisions   *)
(* its ledger takes on it.  Times are clock readings, error codes are the  *)
(* two classes the ledger tells apart, and a lease id is a number no       *)
(* earlier claim has used.  The history is its length: every write appends *)
(* to it, so a rewritten marker never has the contents (the version) of an *)
(* earlier one.  sent_at, ses_message_id and recipient are left out: no    *)
(* decision reads them.                                                    *)
(***************************************************************************)
EXTENDS Naturals

Statuses == {"absent", "dispatching", "sent", "failed"}

\* last_error_code: "permanent" stands for the members of _PERMANENT_REASONS.
Errors == {"none", "retryable", "permanent"}

Marker == [status: Statuses, attempts: Nat, lease: Nat, expires: Nat, error: Errors, events: Nat]

\* No object at the marker's key.
NoMarker ==
    [status |-> "absent", attempts |-> 0, lease |-> 0, expires |-> 0, error |-> "none", events |-> 0]

\* Fault: a takeover one tick early, by a clock that runs ahead.
lease_activeEarly(record, moment) ==
    record.status = "dispatching" /\ record.expires > moment + 1

lease_active(record, moment) ==
    record.status = "dispatching" /\ record.expires > moment

retryable_after(record, moment) ==
    \/ record.status = "dispatching" /\ ~ lease_active(record, moment)
    \/ record.status = "failed" /\ record.error # "permanent"

\* What DispatchLedger.claim decides from the marker it has just read.
ClaimReason(record, moment) ==
    CASE record.status = "absent"     -> "new"
      [] record.status = "sent"       -> "already_sent"
      [] lease_active(record, moment) -> "in_flight"
      [] record.status = "failed" /\ ~ retryable_after(record, moment)   -> "permanent_failure"
      [] record.status = "dispatching" /\ retryable_after(record, moment) -> "stale_lease"
      [] record.status = "failed" /\ retryable_after(record, moment)     -> "retry"

\* The reasons under which claim() writes the marker.
Grants == {"new", "stale_lease", "retry"}
Claimable(record, moment) == ClaimReason(record, moment) \in Grants

\* Fault: a message met by a live lease is acknowledged as a duplicate.
redeliverContended(reason) == reason = "contended"

\* ClaimResult.redeliver: the refusals that send the message back to SQS.
redeliver(reason) == reason \in {"in_flight", "contended"}

\* Fault: a takeover keeps the lease id of the claim it replaces.
ClaimedMarkerSameLease(record, moment, lease, duration) ==
    [record EXCEPT !.status = "dispatching", !.attempts = @ + 1, !.expires = moment + duration,
                   !.events = @ + 1]

\* The marker claim() writes over the one it read; the old error code stays in it.
ClaimedMarker(record, moment, lease, duration) ==
    [status   |-> "dispatching",
     attempts |-> record.attempts + 1,
     lease    |-> lease,
     expires  |-> moment + duration,
     error    |-> record.error,
     events   |-> record.events + 1]

SentMarker(record) ==
    [record EXCEPT !.status = "sent", !.expires = 0, !.error = "none", !.events = @ + 1]

\* Fault: the error code lands in the status.
FailedMarkerSwapped(record, error) ==
    [record EXCEPT !.status = error, !.expires = 0, !.events = @ + 1]

FailedMarker(record, error) ==
    [record EXCEPT !.status = "failed", !.expires = 0, !.error = error, !.events = @ + 1]

\* Does the caller whose claim minted this lease id still own the marker?
holds_lease(record, lease) == record.lease = lease

\* Faults: a sent marker is not told apart from an open one; no check at all.
WritableWhenSent(record, lease) == holds_lease(record, lease)
WritableAlways(record, lease) == TRUE

\* mark_sent and mark_failed write only over a marker that is theirs and not yet sent.
Writable(record, lease) ==
    record.status # "sent" /\ holds_lease(record, lease)
=============================================================================
