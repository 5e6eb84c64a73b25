--------------------------- MODULE CircuitBreaker ---------------------------
(***************************************************************************)
(* pkg/circuitbreaker: one breaker that many goroutines call.  Execute     *)
(* takes the mutex twice, before and after fn; fn itself runs without it,  *)
(* so a call may end in a state other than the one that admitted it.       *)
(***************************************************************************)
EXTENDS Platform

CONSTANTS
  MaxFailures,          \* cfg.MaxFailures
  MaxHalfOpenRequests   \* cfg.MaxHalfOpenRequests

ASSUME BreakerAssumption ==
  MaxFailures \in Nat \ {0} /\ MaxHalfOpenRequests \in Nat \ {0}

VARIABLES
  breaker,  \* state, failures and halfOpen of the Go struct; cooled: Timeout has
            \* passed since lastFailure
  flight    \* the calls of Execute whose fn runs: ordinary ones, probes that the
            \* present half-open state admitted, and probes of an earlier one; and
            \* (history) the probes of the present one whose fn panicked

breakerVars == <<breaker, flight>>

BreakerStates == {"closed", "open", "half_open"}
-----------------------------------------------------------------------------
BreakerInit ==
  /\ breaker = [state |-> "closed", failures |-> 0, halfOpen |-> 0, cooled |-> FALSE]
  /\ flight = [q \in Calls |-> "none"]

toClosed(b) == [b EXCEPT !.state = "closed", !.failures = 0, !.halfOpen = 0]
toOpen(b) == [b EXCEPT !.state = "open"]
toHalfOpen(b) == [b EXCEPT !.state = "half_open", !.failures = 0]

\* A new half-open state: the probes of an earlier one are not its own.
OnlyProbe(q) ==
  flight' = [p \in Calls |->
    CASE p = q -> "probe"
      [] p # q /\ flight[p] = "probe" -> "late"
      [] p # q /\ flight[p] = "panicked" -> "none"
      [] OTHER -> flight[p]]

\* Mutant: the call that turns the breaker half-open is not counted.
EnterUncounted(q) ==
  /\ breaker.state = "open" /\ breaker.cooled
  /\ breaker' = toHalfOpen(breaker)
  /\ OnlyProbe(q)

\* beforeRequest in StateOpen, once Timeout has passed.
EnterHalfOpen(q) ==
  /\ breaker.state = "open" /\ breaker.cooled
  /\ breaker' = [toHalfOpen(breaker) EXCEPT !.halfOpen = @ + 1]
  /\ OnlyProbe(q)

\* beforeRequest in StateHalfOpen.
JoinHalfOpen(q) ==
  /\ breaker.state = "half_open" /\ breaker.halfOpen < MaxHalfOpenRequests
  /\ breaker' = [breaker EXCEPT !.halfOpen = @ + 1]
  /\ flight' = [flight EXCEPT ![q] = "probe"]

\* beforeRequest in StateClosed.
PassClosed(q) ==
  /\ breaker.state = "closed"
  /\ flight' = [flight EXCEPT ![q] = "ordinary"]
  /\ UNCHANGED breaker

\* A call that beforeRequest refuses changes nothing and is no step.
beforeRequest(q) ==
  /\ flight[q] = "none" \/ (flight[q] = "panicked" /\ breaker.state # "half_open")
  /\ Asked("execute")
  /\ PassClosed(q) \/ EnterHalfOpen(q) \/ JoinHalfOpen(q)

failure(b) ==
  LET c == [b EXCEPT !.failures = @ + 1, !.cooled = FALSE]
  IN  IF c.state = "half_open" \/ c.failures >= MaxFailures THEN toOpen(c) ELSE c

\* Any success in the half-open state closes the breaker, a late call's too.
success(b) ==
  LET c == [b EXCEPT !.failures = 0]
  IN  IF c.state = "half_open" THEN toClosed(c) ELSE c

\* A call that ends outside the half-open state leaves halfOpen as it is.
afterRequest(q, ok) ==
  LET b == IF breaker.state = "half_open" THEN [breaker EXCEPT !.halfOpen = @ - 1]
           ELSE breaker
  IN  /\ flight[q] \in {"ordinary", "probe", "late"}
      /\ breaker' = IF ok THEN success(b) ELSE failure(b)
      /\ flight' = [flight EXCEPT ![q] = "none"]

\* fn panics: Execute does not come to afterRequest, and a probe stays counted.
Panic(q) ==
  /\ flight[q] \in {"ordinary", "probe", "late"}
  /\ flight' = [flight EXCEPT ![q] = IF @ = "probe" THEN "panicked" ELSE "none"]
  /\ UNCHANGED breaker

\* Timeout goes by.
Cool == /\ ~breaker.cooled /\ breaker' = [breaker EXCEPT !.cooled = TRUE]
        /\ UNCHANGED flight

BreakerNext ==
  \/ \E q \in Calls : \/ beforeRequest(q) \/ Panic(q)
                   \/ \E ok \in BOOLEAN : afterRequest(q, ok)
  \/ Asked("execute") /\ Cool

BreakerSpec ==
  /\ WorkloadInit /\ BreakerInit
  /\ [][BreakerNext /\ UNCHANGED workload]_<<breakerVars, workload>>
-----------------------------------------------------------------------------
BreakerTypeOK ==
  /\ breaker \in [state: BreakerStates, failures: Nat,
                  halfOpen: 0 .. MaxHalfOpenRequests, cooled: BOOLEAN]
  /\ flight \in [Calls -> {"none", "ordinary", "probe", "late", "panicked"}]

\* The calls that the present half-open state admitted and that did not end it.
Probes == {q \in Calls : flight[q] \in {"probe", "panicked"}}

\* The half-open state never wedges and never floods: at least one probe of it
\* is under way, whose end leaves it, unless its fn panicked, and at most
\* MaxHalfOpenRequests ever are, whatever calls of earlier states end meanwhile
\* (circuitbreaker.go:72-121).
ProbesBounded ==
  breaker.state = "half_open" =>
    1 <= Cardinality(Probes) /\ Cardinality(Probes) <= MaxHalfOpenRequests

\* A closed breaker has tolerated fewer than MaxFailures consecutive failures.
ClosedBelowThreshold ==
  breaker.state = "closed" => breaker.failures < MaxFailures
=============================================================================
