-------------------------------- MODULE Retry --------------------------------
(***************************************************************************)
(* pkg/retry: Do, which runs fn up to MaxAttempts times with growing       *)
(* pauses.  Durations are milliseconds.                                    *)
(***************************************************************************)
EXTENDS Platform

CONSTANTS
  MaxAttempts, InitialDelay, MaxDelay,  \* cfg
  Factor                                \* cfg.Multiplier, in tenths

ASSUME RetryAssumption ==
  /\ MaxAttempts \in Nat /\ InitialDelay \in Nat /\ MaxDelay \in Nat \ {0}
  /\ Factor \in Nat /\ InitialDelay <= MaxDelay

VARIABLE loop  \* the calls of Do

Loop == [step: {"idle", "trying", "pausing"}, attempt: 0 .. MaxAttempts,
         delay: 0 .. MaxDelay, pause: 0 .. MaxDelay]
NoLoop == [step |-> "idle", attempt |-> 0, delay |-> 0, pause |-> 0]
-----------------------------------------------------------------------------
\* base times a factor, in hundredths, that is off by at most a fifth; capped,
\* and at least a millisecond.
computeDelay(base, factor) ==
  LET d == (base * factor) \div 100
  IN  IF d > MaxDelay THEN MaxDelay ELSE IF d < 1 THEN 1 ELSE d

\* The delay before the attempt after the next.
Grown(delay) ==
  LET d == (delay * Factor) \div 10 IN IF d > MaxDelay THEN MaxDelay ELSE d

RetryInit == loop = [q \in Calls |-> NoLoop]

End(q) == loop' = [loop EXCEPT ![q] = NoLoop]

\* With MaxAttempts = 0 the loop body never runs and Do returns an error.
StartDo(q) ==
  /\ loop[q].step = "idle" /\ Asked("retry") /\ MaxAttempts > 0
  /\ \A p \in Calls : loop[p].step = "idle"  \* bound: calls of Do do not meet
  /\ loop' = [loop EXCEPT ![q] = [step |-> "trying", attempt |-> 1,
                                  delay |-> InitialDelay, pause |-> 0]]

\* fn succeeds, fails for good, or fails for the last time.
StopTrying(q) == loop[q].step = "trying" /\ End(q)

\* fn fails and may be tried again.
Pause(q, factor) ==
  /\ loop[q].step = "trying" /\ loop[q].attempt < MaxAttempts
  /\ loop' = [loop EXCEPT ![q].step = "pausing",
                          ![q].pause = computeDelay(loop[q].delay, factor),
                          ![q].delay = Grown(@)]

\* The timer fires, or the context is cancelled.
Resume(q) ==
  /\ loop[q].step = "pausing"
  /\ \/ loop' = [loop EXCEPT ![q].step = "trying", ![q].attempt = @ + 1]
     \/ End(q)

RetryNext ==
  \E q \in Calls : \/ StartDo(q) \/ StopTrying(q) \/ Resume(q)
                   \/ \E factor \in {80, 100, 120} : Pause(q, factor)

RetrySpec ==
  /\ WorkloadInit /\ RetryInit
  /\ [][RetryNext /\ UNCHANGED workload]_<<loop, workload>>

RetryTypeOK == loop \in [Calls -> Loop]
=============================================================================
