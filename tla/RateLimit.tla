------------------------------ MODULE RateLimit ------------------------------
(***************************************************************************)
(* internal/auth, the fixed-window limiter of mutating requests.  A        *)
(* request reads the clock before it takes the mutex, so requests may be   *)
(* counted in another order than that of their times.  Clients share       *)
(* nothing, so there is one.  A limit of 0, which switches the limiter     *)
(* off, is left out.                                                       *)
(*                                                                         *)
(* Time is counted in ticks, several to a second, and a refused client is  *)
(* told to come back after a number of whole seconds.                      *)
(***************************************************************************)
EXTENDS Naturals, FiniteSets

CONSTANTS
  Limit,           \* requests in a window
  Window,          \* length of a window in ticks
  TicksPerSecond,
  Callers,         \* requests in flight at the same time
  MaxTime          \* bound: ticks

ASSUME RateLimitAssumption ==
  /\ {Limit, Window, TicksPerSecond} \subseteq Nat \ {0}
  /\ MaxTime \in Nat

VARIABLES
  now,       \* the clock
  bucket,    \* start and count of the window; count 0 stands for no bucket
  caller,    \* whether a request is in flight and the time it has read
  allowed,   \* history: allowed requests: a number, the time they read, the time they were counted
  comeBack   \* history: when a refused client may come back, 0 when another was allowed since

limitVars == <<now, bucket, caller, allowed, comeBack>>

LimitIdle ==
  /\ now = 0
  /\ bucket = [start |-> 0, count |-> 0]
  /\ caller = [c \in Callers |-> [pc |-> "idle", time |-> 0]]
  /\ allowed = {}
  /\ comeBack = 0

-----------------------------------------------------------------------------
ClockTicks ==
  /\ now < MaxTime
  /\ now' = now + 1
  /\ UNCHANGED <<bucket, caller, allowed, comeBack>>

ReadClock(c) ==
  /\ caller[c].pc = "idle"
  /\ caller' = [caller EXCEPT ![c] = [pc |-> "timed", time |-> now]]
  /\ UNCHANGED <<now, bucket, allowed, comeBack>>

(***************************************************************************)
(* allow under the mutex: a new window, one more request in the window, or *)
(* a refusal with the time that is left, rounded up to seconds.            *)
(***************************************************************************)
WindowOver(t) == bucket.count = 0 \/ t >= bucket.start + Window

FullLate == bucket.count > Limit

Full == bucket.count >= Limit

Return(c) == caller' = [caller EXCEPT ![c] = [pc |-> "idle", time |-> 0]]

Allow(c) ==
  LET t == caller[c].time
  IN /\ caller[c].pc = "timed"
     /\ WindowOver(t) \/ ~Full
     /\ bucket' = IF WindowOver(t) THEN [start |-> t, count |-> 1]
                  ELSE [bucket EXCEPT !.count = @ + 1]
     /\ allowed' = allowed \union {<<Cardinality(allowed), t, now>>}
     /\ comeBack' = 0
     /\ Return(c)
     /\ UNCHANGED now

RoundedDown(ticks) == IF ticks < TicksPerSecond THEN 1 ELSE ticks \div TicksPerSecond

RetryAfter(ticks) ==
  LET seconds == (ticks + TicksPerSecond - 1) \div TicksPerSecond
  IN IF seconds < 1 THEN 1 ELSE seconds

Refuse(c) ==
  LET t == caller[c].time
  IN /\ caller[c].pc = "timed"
     /\ ~WindowOver(t)
     /\ Full
     /\ comeBack' = t + TicksPerSecond * RetryAfter(bucket.start + Window - t)
     /\ Return(c)
     /\ UNCHANGED <<now, bucket, allowed>>

LimitNext ==
  \/ ClockTicks
  \/ \E c \in Callers : ReadClock(c) \/ Allow(c) \/ Refuse(c)

LimitSpec == LimitIdle /\ [][LimitNext]_limitVars

-----------------------------------------------------------------------------
(***************************************************************************)
(* allow: less than twice the limit is allowed in any stretch of time as   *)
(* long as a window, wherever the windows begin, as long as no request is  *)
(* held up between the clock and the mutex.                                *)
(***************************************************************************)
BurstBound ==
  (\A a \in allowed : a[2] = a[3]) =>
    \A from \in 0..MaxTime :
      Cardinality({a \in allowed : a[3] \in from..(from + Window - 1)}) < 2 * Limit

(***************************************************************************)
(* FixedWindowRateLimitMiddleware's Retry-After: a client that comes back  *)
(* when it was told to is not refused again, unless others of its key were *)
(* allowed in the meantime.                                                *)
(***************************************************************************)
RetryAfterSuffices ==
  [][\A c \in Callers : Refuse(c) /\ comeBack # 0 => caller[c].time < comeBack]_limitVars

=============================================================================
