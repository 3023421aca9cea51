------------------------------ MODULE LeasedRows ------------------------------
(***************************************************************************)
(* What the outbox and the inbox table have in common: rows that workers   *)
(* claim under a lease, settle under their claim and retry with backoff    *)
(* (repositories/outbox.py, repositories/inbox.py).                        *)
(*                                                                         *)
(* Timestamps are kept as the time that is left: available_at and          *)
(* claimed_until are integers that Aged decreases, 0 or less when passed.  *)
(***************************************************************************)
EXTENDS Backoff, FiniteSets

CONSTANTS
    NoOne,        \* claimed_by IS NULL
    Lease,        \* OUTBOX_LEASE_SECONDS, INBOX_LEASE_SECONDS
    MaxAttempts,  \* OUTBOX_MAX_ATTEMPTS, INBOX_MAX_ATTEMPTS
    BatchSize,    \* rows one cycle may claim
    MaxLag        \* bound: how stale the clock value read by run_once may be

ASSUME LeaseAssumption ==
    /\ {Lease, MaxAttempts, BatchSize} \subseteq Nat \ {0}
    /\ MaxLag \in 0..(Lease - 1)

\* Mutants of Claimable: a poller that never takes over an expired lease, and
\* one that also picks up what was dead-lettered.
ClaimableWaiting == {"pending", "failed"}
ClaimableBuried == {"pending", "failed", "processing", "dead_letter"}

Claimable == {"pending", "failed", "processing"}
Terminal  == {"published", "processed", "dead_letter"}

Row(ids) == [status   : Claimable \cup Terminal \cup {"absent"},
             attempts : Nat,
             avail    : (-MaxLag)..BackoffMax,
             owner    : ids \cup {NoOne},
             lease    : (-MaxLag)..Lease]

\* No row with this key in the table.
Absent == [status |-> "absent", attempts |-> 0, avail |-> 0,
           owner |-> NoOne, lease |-> 0]

\* Mutant of Due: the lease of the current owner is not looked at.
DueAnyLease(r, late) == r.status \in Claimable /\ r.avail <= -late

\* The WHERE clause of claim_next.  late is the age of the clock value `now'
\* when the statement runs: run_once reads it before it has a connection.
Due(r, late) ==
    /\ r.status \in Claimable
    /\ r.avail <= -late
    /\ r.owner = NoOne \/ r.lease <= -late

\* ORDER BY available_at LIMIT batch_size.
Batches(table, late) ==
    LET due == {k \in DOMAIN table : Due(table[k], late)}
    IN  {S \in SUBSET due :
            /\ S # {}
            /\ Cardinality(S) <= BatchSize
            /\ Cardinality(S) = BatchSize \/ S = due
            /\ \A k \in S, l \in due \ S : table[k].avail <= table[l].avail}

Claimed(r, id, late) ==
    [r EXCEPT !.status = "processing", !.owner = id,
              !.lease = Lease - late, !.attempts = @ + 1]

ClaimRows(table, S, id, late) ==
    [k \in DOMAIN table |-> IF k \in S THEN Claimed(table[k], id, late) ELSE table[k]]

Released(r, status) == [r EXCEPT !.status = status, !.owner = NoOne, !.lease = 0]

Retried(r, delay) == [Released(r, "failed") EXCEPT !.avail = delay]

\* One unit of time passes for a row; -MaxLag stands for `long ago'.
Older(t) == IF t > -MaxLag THEN t - 1 ELSE t

Aged(r) == IF r.status \notin Claimable THEN r
           ELSE [r EXCEPT !.avail = Older(@),
                          !.lease = IF r.owner = NoOne THEN @ ELSE Older(@)]

\* A live lease: the worker that took it still has time left.
Live(r) == r.owner # NoOne /\ r.lease > 0
=============================================================================
