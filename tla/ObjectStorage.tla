----------------------------- MODULE ObjectStorage -----------------------------
(***************************************************************************)
(* The bucket as the S3 adapter shows it (infrastructure/storage).  S3 is  *)
(* external: a bucket is a function from keys to bytes, the last write     *)
(* wins, and a request may fail before or after it took effect.            *)
(***************************************************************************)
EXTENDS Naturals, FiniteSets

Has(bucket, key) == key \in DOMAIN bucket

Stored(bucket, key, bytes) ==
    [k \in DOMAIN bucket \cup {key} |-> IF k = key THEN bytes ELSE bucket[k]]

\* Deleting what is not there succeeds.
Deleted(bucket, key) == [k \in DOMAIN bucket \ {key} |-> bucket[k]]

\* What a provider error becomes.
NormalizeError(failure) ==
    CASE failure \in {"unreachable", "timeout", "no_bucket"} -> "unavailable"
      [] failure = "no_key" -> "not_found"
      [] OTHER -> "operation"

Failures == {"unreachable", "timeout", "no_bucket", "no_key", "denied"}

\* An object that is not there is an answer to HEAD; the rest are errors.
StorageErrors == {NormalizeError(f) : f \in Failures} \ {"not_found"}

\* The object layout: tenants/../venues/../category/day/artifact.
ObjectKey(tenant, venue, category, artifact, day) ==
    [tenant |-> tenant, venue |-> venue, category |-> category,
     day |-> day, artifact |-> artifact]

Short(bytes) == [bytes EXCEPT !.whole = FALSE]

\* A request that fails has left nothing, everything or a part.
PutFails(bucket, key, bytes) ==
    [bucket : {bucket, Stored(bucket, key, bytes), Stored(bucket, key, Short(bytes))},
     reply  : StorageErrors]

\* Mutant of PutReplies: the size of the object is not looked at.
PutRepliesUnread(bucket, key, bytes) ==
    PutFails(bucket, key, bytes)
    \cup {[bucket |-> Stored(bucket, key, b), reply |-> "stored"] : b \in {bytes, Short(bytes)}}

\* put_object_stream uploads, asks for the size and hashes what it has read.  An
\* object of another size is deleted again, whoever stored it.
PutReplies(bucket, key, bytes) ==
    PutFails(bucket, key, bytes)
    \cup {[bucket |-> Stored(bucket, key, bytes), reply |-> "stored"],
          [bucket |-> Deleted(bucket, key), reply |-> "integrity"]}
=============================================================================
