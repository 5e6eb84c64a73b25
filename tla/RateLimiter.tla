----------------------------- MODULE RateLimiter -----------------------------
(***************************************************************************)
(* pkg/ratelimit: the sliding window that Middleware keeps in a Redis      *)
(* sorted set, for one key.  A request reads the clock twice, then runs    *)
(* the script, which Redis executes alone.                                 *)
(*                                                                         *)
(* The unit of time is what the script can tell apart: a member is         *)
(* tostring(now), fourteen digits of a nanosecond stamp, so two requests   *)
(* within a unit (0.1 ms) are one member and count once.                   *)
(***************************************************************************)
EXTENDS Platform

CONSTANTS
  Limit,    \* cfg.Requests
  Window,   \* cfg.Window
  LastUnit  \* bound: the end of the clock

ASSUME LimiterAssumption ==
  /\ Limit \in Nat /\ Window \in Nat \ {0} /\ LastUnit \in Nat

VARIABLES
  unit,     \* the clock
  stamps,   \* the sorted set
  asking,   \* the requests between time.Now() and the script: now, and the
            \* second reading that winStart is computed from
  newest,   \* history: the latest second reading that any script ran with
  admitted  \* history: the stamps of the requests that went on to the handler,
            \* except those that a later reading overtook: their own second one,
            \* or that of a request whose script ran before

limiterVars == <<unit, stamps, asking, newest, admitted>>

Asking == [now: Nat, second: Nat]
NotAsking == [now |-> 0, second |-> 0]
-----------------------------------------------------------------------------
LimiterInit ==
  /\ unit = 1 /\ stamps = {} /\ newest = 0 /\ admitted = {}
  /\ asking = [q \in Calls |-> NotAsking]

ReadClock(q) ==
  /\ asking[q].now = 0 /\ Asked("limited")
  /\ asking' = [asking EXCEPT ![q].now = unit]
  /\ UNCHANGED <<unit, stamps, newest, admitted>>

\* winStart is computed from a clock read again.
ReadClockAgain(q) ==
  /\ asking[q].now # 0 /\ asking[q].second = 0
  /\ asking' = [asking EXCEPT ![q].second = unit]
  /\ UNCHANGED <<unit, stamps, newest, admitted>>

\* Mutant: ZREMRANGEBYSCORE drops what is not older than the window, too.
Trimmed(second) == {s \in stamps : s > second}

\* ZREMRANGEBYSCORE -inf winStart
Recent(second) == {s \in stamps : s + Window > second}

\* The script and the comparison with its answer.  A refused request stays in
\* the set.  When Redis fails the request goes on and nothing is stored.
RunScript(q) ==
  LET a == asking[q]
      members == Recent(a.second) \cup {a.now}
  IN  /\ a.second # 0
      /\ stamps' = members
      /\ admitted' = IF /\ Cardinality(members) <= Limit
                        /\ a.second = a.now /\ a.second >= newest
                     THEN admitted \cup {a.now} ELSE admitted
      /\ newest' = IF a.second > newest THEN a.second ELSE newest
      /\ asking' = [asking EXCEPT ![q] = NotAsking]
      /\ UNCHANGED unit

PassUnit ==
  /\ unit < LastUnit
  /\ unit' = unit + 1
  /\ UNCHANGED <<stamps, asking, newest, admitted>>

LimiterNext == \/ \E q \in Calls : ReadClock(q) \/ ReadClockAgain(q) \/ RunScript(q)
               \/ Asked("limited") /\ PassUnit

LimiterSpec ==
  /\ WorkloadInit /\ LimiterInit
  /\ [][LimiterNext /\ UNCHANGED workload]_<<limiterVars, workload>>
-----------------------------------------------------------------------------
LimiterTypeOK ==
  /\ unit \in Nat /\ stamps \subseteq Nat /\ newest \in Nat
  /\ asking \in [Calls -> Asking] /\ admitted \subseteq Nat

InWindow(t) == {s \in admitted : s + Window > t /\ s <= t}

\* In any window at most cfg.Requests units see a request go on, apart from
\* requests that a later reading of the clock overtook on their way to the
\* script (ratelimit.go:73-99).
WindowLimit == \A t \in 0 .. LastUnit : Cardinality(InWindow(t)) <= Limit
=============================================================================
