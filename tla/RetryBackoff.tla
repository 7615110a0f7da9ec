---------------------------- MODULE RetryBackoff ----------------------------
(***************************************************************************)
(* internal/jobs, how long the sweeper lets a job wait before a retry: the *)
(* configured durations are put in order, and the base is doubled for each *)
(* retry up to the maximum.  Durations are integers of Width bits, and a   *)
(* sum or a product that does not fit wraps around.                        *)
(***************************************************************************)
EXTENDS Integers

CONSTANTS
  Width,        \* bits of a duration
  DefaultBase,  \* the base when none is configured, 5 s
  Bases,        \* values of JOB_RETRY_BACKOFF_BASE
  Maxima,       \* values of JOB_RETRY_BACKOFF_MAX
  Retries       \* values of the retry count

Largest == 2 ^ (Width - 1) - 1

ASSUME RetryBackoffAssumption ==
  /\ Width \in Nat \ {0}
  /\ DefaultBase \in 1..Largest
  /\ Bases \union Maxima \subseteq (-Largest)..Largest
  /\ Retries \subseteq Nat

VARIABLES
  backoffPc,    \* where retryBackoffDuration is
  backoffBase,
  backoffMax,
  retries,
  attempt,      \* the loop's counter
  delay         \* the duration, and the result in the end

backoffVars == <<backoffPc, backoffBase, backoffMax, retries, attempt, delay>>

BackoffIdle ==
  /\ backoffPc = "idle"
  /\ backoffBase = DefaultBase
  /\ backoffMax = DefaultBase
  /\ retries = 0
  /\ attempt = 0
  /\ delay = 0

-----------------------------------------------------------------------------
Wrapped(n) == ((n + 2 ^ (Width - 1)) % 2 ^ Width) - 2 ^ (Width - 1)

WithRetryBackoff(base, max) ==
  LET b == IF base <= 0 THEN DefaultBase ELSE base
  IN /\ backoffBase' = b
     /\ backoffMax' = IF max < b THEN b ELSE max

retryBackoffDuration(base, max, n) ==
  /\ WithRetryBackoff(base, max)
  /\ retries' = n
  /\ attempt' = 1
  /\ delay' = backoffBase'
  /\ backoffPc' = "loop"

NeverTooLarge == delay >= backoffMax

AtLimit == delay >= backoffMax \/ delay > backoffMax \div 2

Double ==
  /\ backoffPc = "loop"
  /\ attempt < retries
  /\ ~AtLimit
  /\ delay' = Wrapped(2 * delay)
  /\ attempt' = attempt + 1
  /\ UNCHANGED <<backoffPc, backoffBase, backoffMax, retries>>

Capped ==
  /\ backoffPc = "loop"
  /\ attempt < retries /\ AtLimit
  /\ delay' = backoffMax
  /\ backoffPc' = "done"
  /\ UNCHANGED <<backoffBase, backoffMax, retries, attempt>>

LoopEnds ==
  /\ backoffPc = "loop"
  /\ attempt >= retries
  /\ delay' = IF delay > backoffMax THEN backoffMax ELSE delay
  /\ backoffPc' = "done"
  /\ UNCHANGED <<backoffBase, backoffMax, retries, attempt>>

BackoffNext ==
  \/ /\ BackoffIdle
     /\ \E base \in Bases, max \in Maxima, n \in Retries : retryBackoffDuration(base, max, n)
  \/ Double
  \/ Capped
  \/ LoopEnds

BackoffSpec == BackoffIdle /\ [][BackoffNext]_backoffVars

-----------------------------------------------------------------------------
(***************************************************************************)
(* retryBackoffDuration: the result is the base doubled once for every     *)
(* retry but the first, or the maximum if that is less, as if there were   *)
(* no largest number.  This is what the code computes; the design has      *)
(* another series, see BackoffOfDesign.                                    *)
(***************************************************************************)
BackoffIsDoubledAndCapped ==
  backoffPc = "done" =>
    LET doubled == backoffBase * 2 ^ (IF retries > 1 THEN retries - 1 ELSE 0)
    IN delay = IF doubled < backoffMax THEN doubled ELSE backoffMax

(***************************************************************************)
(* The series of the MVP design, section 7.6: "exponential backoff (10s -> *)
(* 30s -> 90s ...)", for a server configured with its first and its last   *)
(* delay.  retryBackoffDuration doubles where the series triples.          *)
(***************************************************************************)
BackoffOfDesign ==
  backoffPc = "done" /\ retries \in 1..3 => delay = <<10, 30, 90>>[retries]

=============================================================================
