-------------------------------- MODULE Backoff --------------------------------
(***************************************************************************)
(* The retry delay that every worker shares (reliability/backoff.py):      *)
(* exponential in the attempt, with jitter, never above the cap.           *)
(***************************************************************************)
EXTENDS Integers

CONSTANTS
    BackoffBase,  \* ..._BACKOFF_BASE
    BackoffMax,   \* ..._BACKOFF_MAX
    JitterPct     \* ..._BACKOFF_JITTER, in percent

ASSUME BackoffAssumption ==
    /\ {BackoffBase, BackoffMax} \subseteq Nat \ {0}
    /\ BackoffBase <= BackoffMax
    /\ JitterPct \in 0..99

RawBackoff(attempt) ==
    LET exponent == IF attempt - 1 < 32 THEN attempt - 1 ELSE 32
        delay    == BackoffBase * 2 ^ exponent
    IN  IF delay < BackoffMax THEN delay ELSE BackoffMax

\* compute_backoff_delay: any delay within the jitter, never above the cap.
Delays(attempt) ==
    {d \in 0..BackoffMax :
        /\ 100 * d >= (100 - JitterPct) * RawBackoff(attempt)
        /\ 100 * d <= (100 + JitterPct) * RawBackoff(attempt)}
=============================================================================
