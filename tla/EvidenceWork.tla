------------------------------ MODULE EvidenceWork ------------------------------
(***************************************************************************)
(* The evidence pipeline: from the request row to the finalized package.   *)
(*                                                                         *)
(*   domain/evidence/state_machine.py     the states and their events      *)
(*   repositories/evidence_work.py        claims and guarded transitions   *)
(*   workers/evidence.py                  the polling worker               *)
(*                                                                         *)
(* A cycle is a fixed sequence of transactions that all use the clock      *)
(* value read when it began; age is how long ago that was, and the timers  *)
(* of a row are the time that is left at the moment.                       *)
(***************************************************************************)
EXTENDS Backoff, FiniteSets

CONSTANTS
    Refs,          \* evidence requests, by ref_id
    EvWorkers,     \* evidence worker processes
    NoOne,         \* processing_claimed_by was never set
    Lease,         \* EVIDENCE_WORKER_LEASE_SECONDS
    MaxAttempts,   \* EVIDENCE_WORKER_MAX_ATTEMPTS
    BatchSize,     \* EVIDENCE_WORKER_BATCH_SIZE
    MaxCycle,      \* bound: time one cycle may take
    MaxFaults      \* bound: crashes, stops, database errors, lease overruns

ASSUME EvidenceAssumption ==
    /\ {Lease, MaxAttempts, BatchSize, MaxCycle} \subseteq Nat \ {0}
    /\ MaxFaults \in Nat
    /\ NoOne \notin Refs \cup (EvWorkers \X Nat)

VARIABLES
    refs,      \* the rows of evidence_refs with their processing metadata
    ev,        \* the memory of each worker
    packages,  \* packages persisted per request
    faults,    \* faults so far, for the bound only
    works      \* the store, settled by the initial state: FALSE is the store as
               \* it stands, EvidenceWorkRepository, whose values(metadata=...)
               \* names no mapped attribute and raises in every call; TRUE is
               \* one that keeps the EvidenceWorkStore protocol

evidenceVars == <<refs, ev, packages, faults, works>>

Pending  == {"requested", "queued"}
Leased   == {"extracting", "uploading"}
Final    == {"finalized", "terminal_failure", "expired"}
States   == Pending \cup Leased \cup Final \cup {"retryable_failure"}

\* The legal transitions of the state machine.
Transitions ==
    {<<"requested", "queued">>, <<"queued", "extracting">>,
     <<"extracting", "uploading">>, <<"uploading", "finalized">>,
     <<"extracting", "retryable_failure">>, <<"uploading", "retryable_failure">>,
     <<"extracting", "terminal_failure">>, <<"uploading", "terminal_failure">>,
     <<"retryable_failure", "queued">>}
    \cup {<<s, "expired">> : s \in Pending \cup Leased}

\* checkpoint: the recovery record written with the transition to uploading;
\* abandoned: created before the cutoff of expire_abandoned.
RefRow == [state      : States \cup {"absent"},
           owner      : (EvWorkers \X Nat) \cup {NoOne},
           lease      : (-MaxCycle)..Lease,
           retry      : (-MaxCycle)..BackoffMax,
           attempts   : Nat,
           checkpoint : BOOLEAN,
           abandoned  : BOOLEAN]

NoRequest == [state |-> "absent", owner |-> NoOne, lease |-> -MaxCycle,
              retry |-> -MaxCycle, attempts |-> 0, checkpoint |-> FALSE,
              abandoned |-> FALSE]

\* todo: the rows that list_stale or claim_queued returned and the cycle has
\* not come to yet; verdict: what resolution and extraction made of cur.
EvWorker == [pc      : {"idle", "expire", "list", "recover", "promote", "claim",
                        "process", "settle", "finalize", "down"},
             inc     : Nat,
             age     : 0..MaxCycle,
             todo    : SUBSET Refs,
             cur     : Refs \cup {NoOne},
             verdict : {"extracted", "permanent", "transient"}]

EvId(w) == <<w, ev[w].inc>>

\* WHERE processing_state = from_state AND processing_claimed_by = worker.
Mine(w, r, from) == refs[r].state = from /\ refs[r].owner = EvId(w)

\* A timer is over for a clock value that is age old.
Over(t, age) == t <= -age

\* SELECT ... LIMIT batch_size FOR UPDATE SKIP LOCKED.
Picks(due) == {S \in SUBSET due : Cardinality(S) <= BatchSize
                                  /\ (Cardinality(S) = BatchSize \/ S = due)}

Init ==
    /\ refs = [r \in Refs |-> NoRequest]
    /\ ev = [w \in EvWorkers |-> [pc |-> "idle", inc |-> 0, age |-> 0, todo |-> {},
                                  cur |-> NoOne, verdict |-> "extracted"]]
    /\ packages = [r \in Refs |-> 0]
    /\ faults = 0
    /\ works \in BOOLEAN

Fault(n) == faults + n <= MaxFaults /\ faults' = faults + n

\* The inbox consumer commits an evidence request (module InboxConsumer).
Request(r) ==
    /\ refs[r].state = "absent"
    /\ refs' = [refs EXCEPT ![r].state = "requested"]
    /\ UNCHANGED <<ev, packages, faults>>

-----------------------------------------------------------------------------
(* The transactions of a cycle.                                            *)

Enter(w, pc) == ev' = [ev EXCEPT ![w].pc = pc]

Rewrite(S, new(_)) == refs' = [r \in Refs |-> IF r \in S THEN new(refs[r]) ELSE refs[r]]

\* run_once reads the clock here, once.
QueuePending(w) ==
    /\ ev[w].pc = "idle"
    /\ \E S \in Picks({r \in Refs : refs[r].state = "requested"}) :
         Rewrite(S, LAMBDA row : [row EXCEPT !.state = "queued"])
    /\ Enter(w, "expire")

ExpireAbandoned(w) ==
    /\ ev[w].pc = "expire"
    /\ \E S \in Picks({r \in Refs : refs[r].state \in Pending /\ refs[r].abandoned}) :
         Rewrite(S, LAMBDA row : [row EXCEPT !.state = "expired"])
    /\ Enter(w, "list")

\* Mutant of Stale: only crashed extractions are looked for.
StaleExtracting(r, age) == refs[r].state = "extracting" /\ Over(refs[r].lease, age)

Stale(r, age) == refs[r].state \in Leased /\ Over(refs[r].lease, age)

ListStale(w) ==
    /\ ev[w].pc = "list"
    /\ \E S \in Picks({r \in Refs : Stale(r, ev[w].age)}) :
         ev' = [ev EXCEPT ![w].todo = S,
                          ![w].pc = IF S = {} THEN "promote" ELSE "recover"]
    /\ UNCHANGED refs

PromoteDueRetries(w) ==
    /\ ev[w].pc = "promote"
    /\ \E S \in Picks({r \in Refs : /\ refs[r].state = "retryable_failure"
                                    /\ Over(refs[r].retry, ev[w].age)}) :
         Rewrite(S, LAMBDA row : [row EXCEPT !.state = "queued", !.retry = -MaxCycle])
    /\ Enter(w, "claim")

Claimable(r, age) == refs[r].state = "queued" /\ Over(refs[r].lease, age)

\* heard is FALSE when the claim commits but its reply is lost.
ClaimQueued(w, heard) ==
    /\ ev[w].pc = "claim"
    /\ \E S \in Picks({r \in Refs : Claimable(r, ev[w].age)}) :
        /\ Rewrite(S, LAMBDA row :
             [row EXCEPT !.state = "extracting", !.owner = EvId(w),
                         !.lease = Lease - ev[w].age, !.attempts = @ + 1])
        /\ ev' = [ev EXCEPT ![w] = IF heard /\ S # {}
                                   THEN [@ EXCEPT !.todo = S, !.pc = "process"]
                                   ELSE [@ EXCEPT !.pc = "idle", !.age = 0]]

\* A loop over rows goes on with the next one, or the cycle leaves it.
Rest(w, r) ==
    LET rest == ev[w].todo \ {r}
        loop == IF ev[w].pc = "recover" THEN "recover" ELSE "process"
        done == IF ev[w].pc = "recover" THEN "promote" ELSE "idle"
    IN  [ev[w] EXCEPT !.todo = rest, !.cur = NoOne, !.verdict = "extracted",
                      !.pc = IF rest # {} THEN loop ELSE done,
                      !.age = IF rest = {} /\ done = "idle" THEN 0 ELSE @]

Leaves(w, r) == ev' = [ev EXCEPT ![w] = Rest(w, r)]

-----------------------------------------------------------------------------
(* Guarded transitions.  In the store as it stands the statement raises    *)
(* and its transaction, the claim of a recovery included, is rolled back.  *)

\* Mutant of Writes: the WHERE clause does not compare the owner.
WritesByState(w, r, from) == works /\ refs[r].state = from

Writes(w, r, from) == works /\ Mine(w, r, from)

\* persist_transition, for a row whose guard holds or not.
Persisted(w, r, from, row) ==
    /\ refs' = IF Writes(w, r, from) THEN [refs EXCEPT ![r] = row] ELSE refs
    /\ UNCHANGED packages

Checkpoint(w) ==
    LET r == ev[w].cur
    IN  /\ ev[w].verdict = "extracted"
        /\ Persisted(w, r, "extracting",
                     [refs[r] EXCEPT !.state = "uploading", !.checkpoint = TRUE])

Buried(row) == [row EXCEPT !.state = "terminal_failure"]

BuryExtraction(w) ==
    LET r == ev[w].cur
    IN  /\ \/ ev[w].verdict = "permanent"
           \/ ev[w].verdict = "transient" /\ refs[r].attempts >= MaxAttempts
        /\ Persisted(w, r, "extracting", Buried(refs[r]))

\* The lease stays on the row: a retry waits for its end as well.
RetryExtraction(w) ==
    LET r == ev[w].cur
    IN  /\ ev[w].verdict = "transient"
        /\ refs[r].attempts < MaxAttempts
        /\ \E d \in Delays(refs[r].attempts) :
             Persisted(w, r, "extracting",
                       [refs[r] EXCEPT !.state = "retryable_failure",
                                       !.retry = d - ev[w].age])

\* Mutant of SaveFinalized: the package is added whatever the UPDATE matched.
SaveFinalizedAnyway(w, r) ==
    /\ refs' = IF Writes(w, r, "uploading")
               THEN [refs EXCEPT ![r].state = "finalized"] ELSE refs
    /\ packages' = [packages EXCEPT ![r] = @ + 1]

\* save_finalized: state, package row and link in one transaction.
SaveFinalized(w, r) ==
    IF Writes(w, r, "uploading")
    THEN /\ refs' = [refs EXCEPT ![r].state = "finalized"]
         /\ packages' = [packages EXCEPT ![r] = @ + 1]
    ELSE UNCHANGED <<refs, packages>>

\* The package builder may refuse the artifact for good.
FinalizePackage(w, r) ==
    \/ SaveFinalized(w, r)
    \/ Persisted(w, r, "uploading", Buried(refs[r]))

\* lock_stale makes the worker the owner in the transaction that moves the row
\* on: a crashed extraction is retried at once, an upload is finalized.
RecoverStale(w, r) ==
    LET lease   == Lease - ev[w].age
        retried == [refs[r] EXCEPT !.state = "retryable_failure", !.owner = EvId(w),
                                   !.retry = -ev[w].age, !.lease = -MaxCycle]
        taken   == [refs[r] EXCEPT !.owner = EvId(w), !.lease = lease]
    IN  IF ~Stale(r, ev[w].age) \/ ~works
        THEN UNCHANGED <<refs, packages>>
        ELSE IF refs[r].state = "extracting"
        THEN refs' = [refs EXCEPT ![r] = retried] /\ UNCHANGED packages
        ELSE \/ /\ refs[r].checkpoint
                /\ refs' = [refs EXCEPT ![r] = [taken EXCEPT !.state = "finalized"]]
                /\ packages' = [packages EXCEPT ![r] = @ + 1]
             \/ /\ refs' = [refs EXCEPT ![r] = Buried(taken)]
                /\ UNCHANGED packages

-----------------------------------------------------------------------------
(* The steps of the two loops.                                             *)

Recover(w, r) ==
    /\ ev[w].pc = "recover"
    /\ r \in ev[w].todo
    /\ RecoverStale(w, r)
    /\ Leaves(w, r)
    /\ UNCHANGED faults

\* Source resolution and extraction: outside of any transaction.
Extract(w, r, verdict) ==
    /\ ev[w].pc = "process"
    /\ r \in ev[w].todo
    /\ ev' = [ev EXCEPT ![w].pc = "settle", ![w].cur = r, ![w].verdict = verdict]
    /\ UNCHANGED <<refs, packages, faults>>

Settle(w) == Checkpoint(w) \/ BuryExtraction(w) \/ RetryExtraction(w)

SettleExtraction(w) ==
    /\ ev[w].pc = "settle"
    /\ Settle(w)
    /\ IF ev[w].verdict = "extracted" /\ Writes(w, ev[w].cur, "extracting")
       THEN Enter(w, "finalize")
       ELSE Leaves(w, ev[w].cur)
    /\ UNCHANGED faults

Finalize(w) ==
    /\ ev[w].pc = "finalize"
    /\ FinalizePackage(w, ev[w].cur)
    /\ Leaves(w, ev[w].cur)
    /\ UNCHANGED faults

\* The transaction of a row fails, before or after its commit took effect:
\* run_once logs it and goes on with the next row.
RowFails(w) ==
    /\ \/ /\ ev[w].pc = "settle"
          /\ Settle(w) \/ UNCHANGED <<refs, packages>>
          /\ Leaves(w, ev[w].cur)
       \/ /\ ev[w].pc = "finalize"
          /\ FinalizePackage(w, ev[w].cur) \/ UNCHANGED <<refs, packages>>
          /\ Leaves(w, ev[w].cur)
       \/ /\ ev[w].pc = "recover"
          /\ \E r \in ev[w].todo : Leaves(w, r)
          /\ UNCHANGED <<refs, packages>>
    /\ Fault(1)

-----------------------------------------------------------------------------
(* Process life cycle and time.                                            *)

AtRest(w, pc) == [ev[w] EXCEPT !.pc = pc, !.age = 0, !.todo = {}, !.cur = NoOne,
                               !.verdict = "extracted"]

\* An error in a step before the loops leaves run_once.
CycleFails(w) ==
    /\ ev[w].pc \in {"expire", "list", "promote", "claim"}
    /\ ev' = [ev EXCEPT ![w] = AtRest(w, "idle")]
    /\ Fault(1)
    /\ UNCHANGED <<refs, packages>>

\* A crash anywhere, or a stop: between two steps, between two rows, or by the
\* cancellation of the running extraction.
Halt(w) ==
    /\ ev[w].pc # "down"
    /\ ev' = [ev EXCEPT ![w] = AtRest(w, "down")]
    /\ Fault(1)
    /\ UNCHANGED <<refs, packages>>

Restart(w) ==
    /\ ev[w].pc = "down"
    /\ ev' = [ev EXCEPT ![w].pc = "idle", ![w].inc = @ + 1]
    /\ UNCHANGED <<refs, packages, faults>>

Later(t) == IF t > -MaxCycle THEN t - 1 ELSE t

InCycle(w) == ev[w].pc \notin {"idle", "down"}

\* A tick in which a worker outlives the lease it holds or, its clock value
\* being that old, the lease it is about to take, is a fault.
EvOverrun ==
    \E w \in EvWorkers :
        \/ ev[w].pc \in {"expire", "list", "recover", "promote", "claim"}
           /\ ev[w].age + 1 = Lease
        \/ \E r \in ev[w].todo : Mine(w, r, refs[r].state) /\ refs[r].lease = 1

Tick ==
    /\ \A w \in EvWorkers : ev[w].age < MaxCycle
    /\ refs' = [r \in Refs |-> [refs[r] EXCEPT !.lease = Later(@), !.retry = Later(@)]]
    /\ ev' = [w \in EvWorkers |->
                IF InCycle(w) THEN [ev[w] EXCEPT !.age = @ + 1] ELSE ev[w]]
    /\ Fault(IF EvOverrun THEN 1 ELSE 0)
    /\ UNCHANGED packages

\* The request timeout is far longer than a lease: its end is a step.
Abandon(r) ==
    /\ refs[r].state # "absent" /\ ~refs[r].abandoned
    /\ refs' = [refs EXCEPT ![r].abandoned = TRUE]
    /\ UNCHANGED <<ev, packages, faults>>

-----------------------------------------------------------------------------
\* One short transaction of run_once.
CycleStep(w) ==
    /\ \/ QueuePending(w)
       \/ ExpireAbandoned(w)
       \/ ListStale(w)
       \/ PromoteDueRetries(w)
       \/ ClaimQueued(w, TRUE)
    /\ UNCHANGED <<packages, faults>>

ClaimUnheard(w) == ClaimQueued(w, FALSE) /\ Fault(1) /\ UNCHANGED packages

EvProgress(w) ==
    \/ CycleStep(w)
    \/ \E r \in Refs : Recover(w, r)
    \/ \E r \in Refs, v \in {"extracted", "permanent", "transient"} : Extract(w, r, v)
    \/ SettleExtraction(w)
    \/ Finalize(w)
    \/ Restart(w)

EvStep(w) == EvProgress(w) \/ ClaimUnheard(w) \/ RowFails(w) \/ CycleFails(w) \/ Halt(w)

Step == \/ Tick
        \/ \E r \in Refs : Request(r) \/ Abandon(r)
        \/ \E w \in EvWorkers : EvStep(w)

Next == Step /\ UNCHANGED works

Spec == Init /\ [][Next]_evidenceVars

\* run_forever keeps cycling, a row in hand is finished, a process that went
\* down is started again, and the clock advances.
Fairness ==
    /\ WF_evidenceVars(Tick /\ UNCHANGED works)
    /\ \A w \in EvWorkers : WF_evidenceVars(EvProgress(w) /\ UNCHANGED works)

FairSpec == Spec /\ Fairness

-----------------------------------------------------------------------------
(* Properties.                                                             *)

\* Every variable keeps its type, and a worker between two cycles holds neither
\* rows nor a clock value.
EvTypeOK ==
    /\ refs \in [Refs -> RefRow]
    /\ ev \in [EvWorkers -> EvWorker]
    /\ packages \in [Refs -> Nat]
    /\ faults \in Nat
    /\ works \in BOOLEAN
    /\ \A w \in EvWorkers : ~InCycle(w) => ev[w] = AtRest(w, ev[w].pc)

\* The package and the finalized state are one: no crash, duplicate delivery or
\* lost lease persists a second package, or one without the state.
OnePackagePerRequest ==
    \A r \in Refs : packages[r] = IF refs[r].state = "finalized" THEN 1 ELSE 0

HasRow(w, r) == refs[r].owner = EvId(w) /\ ev[w].cur = r

\* The SQL of the store is written without the state machine.  Still it makes none
\* but its moves; while the lease of a row runs only the worker that holds it moves
\* the row; and an extraction that can be retried is given up only when its budget
\* is spent, whatever a worker that comes late still believes.
RightfulMoves ==
    [][\A r \in Refs :
         LET was == refs[r].state   is == refs'[r].state
         IN  was \notin {"absent", is} =>
               /\ <<was, is>> \in Transitions
               /\ was \in Leased /\ refs[r].lease > 0 => \E w \in EvWorkers : HasRow(w, r)
               /\ was = "extracting" /\ is = "terminal_failure" =>
                    \/ refs[r].attempts >= MaxAttempts
                    \/ \E w \in EvWorkers : HasRow(w, r) /\ ev[w].verdict = "permanent"]_evidenceVars

\* In a store that keeps its protocol no committed request is lost: it is
\* finalized, dead-lettered or expired in the end (tests/unit/test_evidence_worker.py,
\* the second invariant).  The store as it stands breaks that promise for every
\* request a worker takes up: no statement that could move the row on ever
\* succeeds, and it stays in extracting for good.  Only a request that expires
\* before anyone claims it ends there.
StuckForGood(r) == [](~works /\ refs[r].state = "extracting")

ResolvedOrStuck ==
    \A r \in Refs :
        refs[r].state = "requested" ~> (refs[r].state \in Final \/ StuckForGood(r))
=============================================================================
