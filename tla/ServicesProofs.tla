--------------------------- MODULE ServicesProofs ---------------------------
(***************************************************************************)
(* Proofs about the components of pkg, for any number of callers and any   *)
(* configuration; about the adapters of the proxy managers and of Proxmox  *)
(* and log-service; and about the services side by side.                   *)
(***************************************************************************)
EXTENDS Services, BillingProofs, MembersProofs

-----------------------------------------------------------------------------
(* The circuit breaker. *)

\* The counters stay in their ranges.  In the half-open state the calls that
\* it admitted are counted at least once each; in the others fewer than the
\* limit are still counted, so that EnterHalfOpen cannot exceed it.
BreakerInv ==
  /\ BreakerTypeOK
  /\ breaker.state = "half_open" =>
       /\ Probes # {}
       /\ Cardinality(Probes) <= breaker.halfOpen
  /\ breaker.state # "half_open" => breaker.halfOpen < MaxHalfOpenRequests
  /\ ClosedBelowThreshold

Breaker == [state: BreakerStates, failures: Nat,
            halfOpen: 0 .. MaxHalfOpenRequests, cooled: BOOLEAN]

\* An assignment to one field of a breaker.
LEMMA SetState ==
  ASSUME NEW b \in Breaker, NEW s \in BreakerStates
  PROVE  LET c == [b EXCEPT !.state = s] IN
         /\ c \in Breaker /\ c.state = s
         /\ c.failures = b.failures /\ c.halfOpen = b.halfOpen
BY DEF Breaker

LEMMA SetFailures ==
  ASSUME NEW b \in Breaker, NEW n \in Nat
  PROVE  LET c == [b EXCEPT !.failures = n] IN
         c \in Breaker /\ c.state = b.state /\ c.failures = n /\ c.halfOpen = b.halfOpen
BY DEF Breaker

LEMMA SetHalfOpen ==
  ASSUME NEW b \in Breaker, NEW n \in 0 .. MaxHalfOpenRequests
  PROVE  LET c == [b EXCEPT !.halfOpen = n] IN
         c \in Breaker /\ c.state = b.state /\ c.failures = b.failures /\ c.halfOpen = n
BY DEF Breaker

LEMMA SetCooled ==
  ASSUME NEW b \in Breaker, NEW t \in BOOLEAN
  PROVE  LET c == [b EXCEPT !.cooled = t] IN
         /\ c \in Breaker /\ c.state = b.state
         /\ c.failures = b.failures /\ c.halfOpen = b.halfOpen
BY DEF Breaker

\* What the transitions do to a breaker.
LEMMA Closes ==
  ASSUME NEW b \in Breaker
  PROVE  LET c == toClosed(b) IN
         c \in Breaker /\ c.state = "closed" /\ c.failures = 0 /\ c.halfOpen = 0
<1> DEFINE d == [b EXCEPT !.state = "closed"]
           e == [d EXCEPT !.failures = 0]
           f == [e EXCEPT !.halfOpen = 0]
<1>1. d \in Breaker /\ d.state = "closed"
  BY SetState DEF BreakerStates
<1>2. toClosed(b) = f
  BY DEF toClosed
<1> HIDE DEF d
<1>3. e \in Breaker /\ e.state = "closed" /\ e.failures = 0
  BY <1>1, SetFailures
<1> HIDE DEF e
<1>4. f \in Breaker /\ f.state = "closed" /\ f.failures = 0 /\ f.halfOpen = 0
  BY <1>3, SetHalfOpen, BreakerAssumption
<1> HIDE DEF f
<1> QED BY <1>2, <1>4

LEMMA Opens ==
  ASSUME NEW b \in Breaker
  PROVE  LET c == toOpen(b) IN
         c \in Breaker /\ c.state = "open" /\ c.halfOpen = b.halfOpen
BY SetState DEF BreakerStates, toOpen

LEMMA HalfOpens ==
  ASSUME NEW b \in Breaker, b.halfOpen < MaxHalfOpenRequests
  PROVE  LET c == [toHalfOpen(b) EXCEPT !.halfOpen = @ + 1] IN
         c \in Breaker /\ c.state = "half_open" /\ c.halfOpen = b.halfOpen + 1
<1> DEFINE d == [b EXCEPT !.state = "half_open"]
           e == [d EXCEPT !.failures = 0]
<1>1. d \in Breaker /\ d.state = "half_open" /\ d.halfOpen = b.halfOpen
  BY SetState DEF BreakerStates
<1>2. toHalfOpen(b) = e
  BY DEF toHalfOpen
<1> HIDE DEF d
<1>3. e \in Breaker /\ e.state = "half_open" /\ e.halfOpen = b.halfOpen
  BY <1>1, SetFailures
<1> HIDE DEF e
<1>4. e.halfOpen + 1 \in 0 .. MaxHalfOpenRequests
  BY <1>3, BreakerAssumption DEF Breaker
<1> QED BY <1>2, <1>3, <1>4, SetHalfOpen

LEMMA Fails ==
  ASSUME NEW b \in Breaker
  PROVE  LET c == [b EXCEPT !.failures = @ + 1, !.cooled = FALSE] IN
         c \in Breaker /\ c.state = b.state /\ c.halfOpen = b.halfOpen
<1> DEFINE d == [b EXCEPT !.failures = @ + 1]
<1>1. d \in Breaker /\ d.state = b.state /\ d.halfOpen = b.halfOpen
  <2>1. b.failures + 1 \in Nat
    BY DEF Breaker
  <2> QED BY <2>1, SetFailures
<1> HIDE DEF d
<1>2. LET c == [d EXCEPT !.cooled = FALSE] IN
      c \in Breaker /\ c.state = b.state /\ c.halfOpen = b.halfOpen
  BY <1>1, SetCooled
<1> QED BY <1>2 DEF d

\* A set of calls is finite, and one call more or less moves its size by one.
LEMMA ProbesFinite ==
  /\ IsFiniteSet(Probes)
  /\ Cardinality(Probes) \in Nat
  /\ Probes # {} => Cardinality(Probes) >= 1
<1>1. IsFiniteSet(Probes)
  BY PlatformAssumption, FS_Subset DEF Probes
<1>2. Cardinality(Probes) \in Nat
  BY <1>1, FS_CardinalityType
<1>3. Probes # {} => Cardinality(Probes) # 0
  BY <1>1, FS_EmptySet
<1> QED BY <1>1, <1>2, <1>3

\* The breaker starts closed and no call is under way.
LEMMA BreakerInvInit == BreakerInit => BreakerInv
BY BreakerAssumption
   DEF BreakerInit, BreakerInv, BreakerTypeOK, BreakerStates, ClosedBelowThreshold

\* The call that turns the breaker half-open is its only probe.
LEMMA StepEnter ==
  ASSUME BreakerInv, NEW q \in Calls, EnterHalfOpen(q) PROVE BreakerInv'
<1>1. Probes' = {q}
  BY DEF EnterHalfOpen, OnlyProbe, Probes
<1>2. Cardinality(Probes') = 1
  BY <1>1, FS_Singleton
<1>3. /\ breaker' \in Breaker /\ breaker'.state = "half_open"
      /\ breaker'.halfOpen = breaker.halfOpen + 1 /\ breaker.halfOpen \in Nat
  BY HalfOpens, BreakerAssumption
     DEF EnterHalfOpen, BreakerInv, BreakerTypeOK, Breaker
<1>4. flight' \in [Calls -> {"none", "ordinary", "probe", "late", "panicked"}]
  BY DEF EnterHalfOpen, OnlyProbe, BreakerInv, BreakerTypeOK
<1>5. BreakerTypeOK'
  BY <1>3, <1>4 DEF BreakerTypeOK, Breaker
<1> QED
  BY <1>1, <1>2, <1>3, <1>5 DEF BreakerInv, ClosedBelowThreshold

\* Each further probe is counted.
LEMMA StepJoin ==
  ASSUME BreakerInv, NEW q \in Calls, flight[q] = "none", JoinHalfOpen(q)
  PROVE  BreakerInv'
<1>1. Probes' = Probes \cup {q} /\ q \notin Probes
  BY DEF JoinHalfOpen, Probes, BreakerInv, BreakerTypeOK
<1>2. Cardinality(Probes') = Cardinality(Probes) + 1
  BY <1>1, ProbesFinite, FS_AddElement
<1>3. BreakerTypeOK'
  BY BreakerAssumption DEF JoinHalfOpen, BreakerInv, BreakerTypeOK
<1> QED
  BY <1>1, <1>2, <1>3, ProbesFinite
     DEF JoinHalfOpen, BreakerInv, BreakerTypeOK, ClosedBelowThreshold

\* An ordinary call leaves the breaker alone, which is closed.
LEMMA StepPass ==
  ASSUME BreakerInv, NEW q \in Calls, PassClosed(q) PROVE BreakerInv'
BY DEF PassClosed, BreakerInv, BreakerTypeOK, ClosedBelowThreshold

\* A call that ends in the half-open state closes the breaker or opens it
\* again with one place more; elsewhere the count stays.
LEMMA StepEnd ==
  ASSUME BreakerInv, NEW q \in Calls, NEW ok \in BOOLEAN, afterRequest(q, ok)
  PROVE  BreakerInv'
<1> DEFINE b == IF breaker.state = "half_open"
                THEN [breaker EXCEPT !.halfOpen = @ - 1] ELSE breaker
<1>1. breaker' = IF ok THEN success(b) ELSE failure(b)
  BY DEF afterRequest
<1>2. flight' \in [Calls -> {"none", "ordinary", "probe", "late", "panicked"}]
  BY DEF afterRequest, BreakerInv, BreakerTypeOK
<1>3. breaker.state = "half_open" => breaker.halfOpen >= 1
  BY ProbesFinite DEF BreakerInv, BreakerTypeOK
<1>4. /\ b \in Breaker
      /\ b.state = breaker.state /\ b.failures = breaker.failures
      /\ b.halfOpen < MaxHalfOpenRequests
  BY <1>3, BreakerAssumption DEF BreakerInv, BreakerTypeOK, Breaker
<1> HIDE DEF b
<1>5. /\ BreakerTypeOK'
      /\ breaker'.state # "half_open"
      /\ breaker'.halfOpen < MaxHalfOpenRequests
      /\ breaker'.state = "closed" => breaker'.failures < MaxFailures
  <2>1. CASE ok
    <3> DEFINE c == [b EXCEPT !.failures = 0]
    <3>1. breaker' = IF c.state = "half_open" THEN toClosed(c) ELSE c
      BY <1>1, <2>1 DEF success
    <3>2. c \in Breaker /\ c.state = b.state /\ c.failures = 0
          /\ c.halfOpen = b.halfOpen
      BY <1>4, SetFailures
    <3> HIDE DEF c
    <3> QED
      BY <1>2, <1>4, <3>1, <3>2, Closes, BreakerAssumption DEF Breaker, BreakerTypeOK
  <2>2. CASE ~ok
    <3> DEFINE c == [b EXCEPT !.failures = @ + 1, !.cooled = FALSE]
    <3>1. breaker' = IF c.state = "half_open" \/ c.failures >= MaxFailures
                     THEN toOpen(c) ELSE c
      BY <1>1, <2>2 DEF failure
    <3>2. c \in Breaker /\ c.state = b.state /\ c.halfOpen = b.halfOpen
      BY <1>4, Fails
    <3> HIDE DEF c
    <3> QED
      BY <1>2, <1>4, <3>1, <3>2, Opens, BreakerAssumption DEF Breaker, BreakerTypeOK
  <2> QED BY <2>1, <2>2
<1> QED BY <1>5 DEF BreakerInv, ClosedBelowThreshold

\* A probe whose fn panics stays counted.
LEMMA StepPanic ==
  ASSUME BreakerInv, NEW q \in Calls, Panic(q) PROVE BreakerInv'
<1>1. Probes' = Probes /\ UNCHANGED breaker
  BY DEF Panic, Probes, BreakerInv, BreakerTypeOK
<1>2. BreakerTypeOK'
  BY DEF Panic, BreakerInv, BreakerTypeOK
<1> QED BY <1>1, <1>2 DEF BreakerInv, ClosedBelowThreshold

\* Whatever calls meet, the breaker's invariant holds.
THEOREM BreakerInvariant == BreakerSpec => []BreakerInv
<1>1. BreakerInv /\ [BreakerNext /\ UNCHANGED workload]_<<breakerVars, workload>>
        => BreakerInv'
  <2> SUFFICES ASSUME BreakerInv,
                      [BreakerNext /\ UNCHANGED workload]_<<breakerVars, workload>>
               PROVE  BreakerInv'
    OBVIOUS
  <2>1. CASE UNCHANGED <<breakerVars, workload>>
    BY <2>1 DEF breakerVars, BreakerInv, BreakerTypeOK, Probes, ClosedBelowThreshold
  <2>2. CASE Cool
    BY <2>2 DEF Cool, BreakerInv, BreakerTypeOK, Probes, ClosedBelowThreshold
  <2>3. ASSUME NEW q \in Calls, beforeRequest(q) PROVE BreakerInv'
    BY <2>3, StepPass, StepEnter, StepJoin DEF beforeRequest, JoinHalfOpen
  <2>4. ASSUME NEW q \in Calls, Panic(q) PROVE BreakerInv'
    BY <2>4, StepPanic
  <2> QED BY <2>1, <2>2, <2>3, <2>4, StepEnd DEF BreakerNext
<1> QED BY <1>1, BreakerInvInit, PTL DEF BreakerSpec

\* The breaker never wedges half-open without a probe, and never floods.
THEOREM ProbesAlwaysBounded == BreakerSpec => []ProbesBounded
<1>1. BreakerInv => ProbesBounded
  BY ProbesFinite, BreakerAssumption DEF BreakerInv, ProbesBounded, BreakerTypeOK
<1> QED BY <1>1, BreakerInvariant, PTL

\* A closed breaker is below its threshold.
THEOREM ClosedAlwaysBelow == BreakerSpec => []ClosedBelowThreshold
<1>1. BreakerInv => ClosedBelowThreshold
  BY DEF BreakerInv
<1> QED BY <1>1, BreakerInvariant, PTL
-----------------------------------------------------------------------------
(* The rate limiter. *)

\* Every stamp that was admitted and can still share a window with the newest
\* is in the sorted set, so the set's size bounds what the window holds.
LimiterInv ==
  /\ LimiterTypeOK
  /\ IsFiniteSet(stamps)
  /\ \A s \in admitted : s <= newest
  /\ \A s \in admitted : s + Window > newest => s \in stamps
  /\ \A t \in Nat : IsFiniteSet(InWindow(t)) /\ Cardinality(InWindow(t)) <= Limit

\* Nothing was stored or admitted yet.
LEMMA LimiterInvInit == LimiterInit => LimiterInv
<1> SUFFICES ASSUME LimiterInit PROVE LimiterInv
  OBVIOUS
<1>1. \A t \in Nat : InWindow(t) = {}
  BY DEF LimiterInit, InWindow
<1> QED
  BY <1>1, FS_EmptySet, LimiterAssumption
     DEF LimiterInit, LimiterInv, LimiterTypeOK, Asking, NotAsking

\* The windows depend on what was admitted only.
LEMMA LimiterQuiet ==
  ASSUME LimiterInv, LimiterTypeOK', UNCHANGED <<stamps, newest, admitted>>
  PROVE  LimiterInv'
BY DEF LimiterInv, InWindow

\* A stamp is admitted when the set that holds its window is small enough.
LEMMA StepScript ==
  ASSUME LimiterInv, NEW q \in Calls, RunScript(q) PROVE LimiterInv'
<1> DEFINE t == asking[q].now
           z == asking[q].second
           members == Recent(z) \cup {t}
<1>1. /\ t \in Nat /\ z \in Nat
      /\ stamps \subseteq Nat /\ newest \in Nat /\ admitted \subseteq Nat
  BY DEF LimiterInv, LimiterTypeOK, Asking
<1>2. stamps' = members /\ newest' = IF z > newest THEN z ELSE newest
  BY DEF RunScript
<1>3. IsFiniteSet(members) /\ members \subseteq Nat
  <2>1. IsFiniteSet(Recent(z)) /\ Recent(z) \subseteq Nat
    BY <1>1, FS_Subset DEF Recent, LimiterInv
  <2> QED BY <1>1, <2>1, FS_AddElement
<1>4. /\ admitted' \subseteq Nat
      /\ \A s \in admitted' : s <= newest'
      /\ \A s \in admitted' : s + Window > newest' => s \in members
  <2>1. admitted' = admitted \/ (admitted' = admitted \cup {t} /\ z = t)
    BY DEF RunScript
  <2>2. \A s \in admitted : s <= newest /\ (s + Window > newest => s \in stamps)
    BY DEF LimiterInv
  <2>3. t \in members /\ \A s \in stamps : s + Window > z => s \in members
    BY DEF Recent
  <2> HIDE DEF members, t, z
  <2>4. newest' \in Nat /\ newest' >= z /\ newest' >= newest
    BY <1>1, <1>2
  <2>5. ASSUME NEW s \in admitted
        PROVE  s \in Nat /\ s <= newest' /\ (s + Window > newest' => s \in members)
    BY <1>1, <2>2, <2>3, <2>4, <2>5, LimiterAssumption
  <2> QED BY <1>1, <2>1, <2>3, <2>4, <2>5
<1>5. LimiterTypeOK'
  <2>1. asking' \in [Calls -> Asking] /\ unit' \in Nat
    BY DEF RunScript, LimiterInv, LimiterTypeOK, Asking, NotAsking
  <2> QED BY <1>1, <1>2, <1>3, <1>4, <2>1 DEF LimiterTypeOK
<1>6. ASSUME NEW w \in Nat
      PROVE  IsFiniteSet(InWindow(w)') /\ Cardinality(InWindow(w)') <= Limit
  <2>1. CASE t \notin InWindow(w)' \/ admitted' = admitted
    <3>1. InWindow(w)' = InWindow(w)
      BY <2>1 DEF InWindow, RunScript
    <3> QED BY <3>1 DEF LimiterInv
  <2>2. CASE t \in InWindow(w)' /\ admitted' # admitted
    <3>1. Cardinality(members) <= Limit /\ z = t /\ z >= newest
          /\ admitted' = admitted \cup {t}
      BY <2>2 DEF RunScript
    <3>2. t + Window > w /\ t <= w
      BY <2>2 DEF InWindow
    <3>3. newest' = t
      BY <1>1, <1>2, <3>1
    <3>4. ASSUME NEW s \in InWindow(w)' PROVE s \in members
      <4>1. s \in admitted' /\ s \in Nat /\ s + Window > w
        BY <1>4 DEF InWindow
      <4>2. s + Window > newest'
        BY <1>1, <3>2, <3>3, <4>1, LimiterAssumption
      <4> QED BY <1>4, <4>1, <4>2
    <3>5. /\ IsFiniteSet(InWindow(w)')
          /\ Cardinality(InWindow(w)') <= Cardinality(members)
      BY <1>3, <3>4, FS_Subset
    <3>6. Cardinality(InWindow(w)') \in Nat /\ Cardinality(members) \in Nat
      BY <1>3, <3>5, FS_CardinalityType
    <3> QED BY <3>1, <3>5, <3>6, LimiterAssumption
  <2> QED BY <2>1, <2>2
<1> QED BY <1>2, <1>3, <1>4, <1>5, <1>6 DEF LimiterInv

\* However requests read their clocks and reach Redis, the invariant holds.
THEOREM LimiterInvariant == LimiterSpec => []LimiterInv
<1>1. LimiterInv /\ [LimiterNext /\ UNCHANGED workload]_<<limiterVars, workload>>
        => LimiterInv'
  <2> SUFFICES ASSUME LimiterInv,
                      [LimiterNext /\ UNCHANGED workload]_<<limiterVars, workload>>
               PROVE  LimiterInv'
    OBVIOUS
  <2>1. CASE UNCHANGED <<limiterVars, workload>>
    BY <2>1, LimiterQuiet DEF limiterVars, LimiterInv, LimiterTypeOK
  <2>2. CASE PassUnit
    BY <2>2, LimiterQuiet DEF PassUnit, LimiterInv, LimiterTypeOK
  <2>3. ASSUME NEW q \in Calls, ReadClock(q) PROVE LimiterInv'
    BY <2>3, LimiterQuiet DEF ReadClock, LimiterInv, LimiterTypeOK, Asking
  <2>4. ASSUME NEW q \in Calls, ReadClockAgain(q) PROVE LimiterInv'
    BY <2>4, LimiterQuiet DEF ReadClockAgain, LimiterInv, LimiterTypeOK, Asking
  <2> QED BY <2>1, <2>2, <2>3, <2>4, StepScript DEF LimiterNext
<1> QED BY <1>1, LimiterInvInit, PTL DEF LimiterSpec

\* No window admits more than the limit, apart from overtaken requests.
THEOREM WindowAlwaysLimited == LimiterSpec => []WindowLimit
<1>1. LimiterInv => WindowLimit
  BY LimiterAssumption DEF LimiterInv, WindowLimit
<1> QED BY <1>1, LimiterInvariant, PTL
-----------------------------------------------------------------------------
(* The retry loop. *)

\* A call that pauses has an attempt left.
RetryInv ==
  /\ RetryTypeOK
  /\ \A q \in Calls : loop[q].step = "pausing" => loop[q].attempt < MaxAttempts

\* Both delays are whole numbers up to MaxDelay.
LEMMA DelaysBounded ==
  ASSUME NEW d \in 0 .. MaxDelay, NEW f \in {80, 100, 120}
  PROVE  computeDelay(d, f) \in 0 .. MaxDelay /\ Grown(d) \in 0 .. MaxDelay
<1>1. d * f \in Nat /\ d * Factor \in Nat
  BY RetryAssumption
<1>2. \A n \in Nat : n \div 100 \in Nat /\ n \div 10 \in Nat
  OBVIOUS
<1>3. (d * f) \div 100 \in Nat /\ (d * Factor) \div 10 \in Nat
  BY <1>1, <1>2
<1> QED BY <1>3, RetryAssumption DEF computeDelay, Grown

\* Do never tries more than MaxAttempts times and never waits beyond MaxDelay.
THEOREM RetryInvariant == RetrySpec => []RetryInv
<1>1. RetryInit => RetryInv
  BY RetryAssumption DEF RetryInit, RetryInv, RetryTypeOK, Loop, NoLoop
<1>2. RetryInv /\ [RetryNext /\ UNCHANGED workload]_<<loop, workload>> => RetryInv'
  <2> SUFFICES ASSUME RetryInv, [RetryNext /\ UNCHANGED workload]_<<loop, workload>>
               PROVE  RetryInv'
    OBVIOUS
  <2> USE RetryAssumption DEF RetryInv, RetryTypeOK, Loop
  <2>1. CASE UNCHANGED <<loop, workload>>
    BY <2>1
  <2>2. ASSUME NEW q \in Calls, StartDo(q) PROVE RetryInv'
    BY <2>2 DEF StartDo
  <2>3. ASSUME NEW q \in Calls, StopTrying(q) PROVE RetryInv'
    BY <2>3 DEF StopTrying, End, NoLoop
  <2>4. ASSUME NEW q \in Calls, Resume(q) PROVE RetryInv'
    BY <2>4 DEF Resume, End, NoLoop
  <2>5. ASSUME NEW q \in Calls, NEW f \in {80, 100, 120}, Pause(q, f) PROVE RetryInv'
    <3>1. /\ computeDelay(loop[q].delay, f) \in 0 .. MaxDelay
          /\ Grown(loop[q].delay) \in 0 .. MaxDelay
      BY DelaysBounded
    <3> DEFINE l == [loop EXCEPT ![q].step = "pausing"]
               m == [l EXCEPT ![q].pause = computeDelay(loop[q].delay, f)]
               n == [m EXCEPT ![q].delay = Grown(@)]
    <3>2. loop' = n /\ loop[q].attempt < MaxAttempts
      BY <2>5 DEF Pause
    <3>3. /\ l \in [Calls -> Loop] /\ l[q].attempt = loop[q].attempt
          /\ l[q].delay = loop[q].delay
          /\ \A p \in Calls \ {q} : l[p] = loop[p]
      OBVIOUS
    <3> HIDE DEF l
    <3>4. /\ m \in [Calls -> Loop] /\ m[q].attempt = loop[q].attempt
          /\ m[q].delay = loop[q].delay
          /\ \A p \in Calls \ {q} : m[p] = loop[p]
      BY <3>1, <3>3
    <3> HIDE DEF m
    <3>5. /\ n \in [Calls -> Loop] /\ n[q].attempt = loop[q].attempt
          /\ \A p \in Calls \ {q} : n[p] = loop[p]
      BY <3>1, <3>4
    <3> HIDE DEF n
    <3> QED BY <3>2, <3>5
  <2> QED BY <2>1, <2>2, <2>3, <2>4, <2>5 DEF RetryNext
<1> QED BY <1>1, <1>2, PTL DEF RetrySpec

-----------------------------------------------------------------------------
(* Tasks of Proxmox. *)

\* A task has an exit code when it is over.
ExitsAtEnd ==
  \A i \in DOMAIN tasks : tasks[i].status = "running" <=> tasks[i].exit = NoExit

\* A task that met no other one has none beside it that still runs.
AloneAtWork ==
  \A i, j \in DOMAIN tasks :
    /\ tasks[i].alone /\ i # j /\ tasks[i].node = tasks[j].node
    => tasks[j].status = "stopped"

\* A task that met no other one and did what it is for still shows.
AloneShows ==
  \A i \in DOMAIN tasks :
    /\ tasks[i].alone /\ tasks[i].exit = "OK"
    => machine[tasks[i].node] = Becomes(tasks[i].action)

\* While a task runs, nothing is known of its machine.
UnknownAtWork ==
  \A i \in DOMAIN tasks :
    tasks[i].status = "running" => sure[tasks[i].node] = "unknown"

\* Callers poll tasks that there are.
WaitersPoll == \A q \in Calls : waiter[q].task \in 0 .. Len(tasks)

ProxmoxInv ==
  /\ ProxmoxTypeOK
  /\ TasksTrue
  /\ ExitsAtEnd
  /\ AloneAtWork
  /\ AloneShows
  /\ UnknownAtWork
  /\ WaitersPoll

LEMMA Exits ==
  /\ NoExit \in ExitStatuses /\ "OK" \in ExitStatuses /\ "error" \in ExitStatuses
  /\ NoExit # "OK" /\ NoExit # "error"
BY DEF NoExit, ExitStatuses

LEMMA BecomesState == \A action : Becomes(action) \in MachineStates
BY DEF Becomes, MachineStates

LEMMA ProxmoxStart == ProxmoxInit => ProxmoxInv
BY DEF ProxmoxInit, ProxmoxInv, ProxmoxTypeOK, TasksTrue, ExitsAtEnd, AloneAtWork,
       AloneShows, UnknownAtWork, WaitersPoll, NotWaiting

\* A command makes a task and takes what was known of the machine back.
LEMMA ActionKeeps ==
  ASSUME ProxmoxInv, NEW q \in Calls, NEW n \in Nodes, NEW action \in Actions,
         VMAction(q, n, action)
  PROVE  ProxmoxInv'
<1> DEFINE task == [node |-> n, action |-> action, status |-> "running", exit |-> NoExit,
                    alone |-> Running(n) = {}]
           met == [i \in DOMAIN tasks |->
                     [tasks[i] EXCEPT !.alone = @ /\ tasks[i].node # n]]
           N == Len(tasks)
<1>1. /\ tasks \in Seq(Task) /\ N \in Nat /\ DOMAIN tasks = 1 .. N
      /\ \A i \in 1 .. N : tasks[i] \in Task
  BY DEF ProxmoxInv, ProxmoxTypeOK
<1>2. task \in Task
  BY Exits DEF Task
<1>3. /\ met \in Seq(Task) /\ Len(met) = N /\ DOMAIN met = 1 .. N
      /\ \A i \in 1 .. N :
           /\ met[i].node = tasks[i].node /\ met[i].action = tasks[i].action
           /\ met[i].status = tasks[i].status /\ met[i].exit = tasks[i].exit
           /\ met[i].alone <=> tasks[i].alone /\ tasks[i].node # n
  <2>1. \A i \in 1 .. N : met[i] \in Task
    BY <1>1 DEF Task
  <2>2. met \in [1 .. N -> Task]
    BY <1>1, <2>1
  <2> QED BY <1>1, <2>2 DEF Task
<1>4. tasks' = Append(met, task) /\ sure' = [sure EXCEPT ![n] = "unknown"]
  BY DEF VMAction, Post
<1>5. /\ tasks' \in Seq(Task) /\ Len(tasks') = N + 1 /\ DOMAIN tasks' = 1 .. N + 1
      /\ tasks'[N + 1] = task /\ \A i \in 1 .. N : tasks'[i] = met[i]
  <2> HIDE DEF met, task
  <2> QED BY <1>1, <1>2, <1>3, <1>4
<1>6. /\ \A i \in 1 .. N : tasks[i].status = "running" => ~task.alone \/ tasks[i].node # n
      /\ task.node = n /\ task.status = "running" /\ task.exit = NoExit
  BY <1>1 DEF Running
<1>7. /\ UNCHANGED <<pool, machine>>
      /\ sure' \in [Nodes -> MachineStates \cup {"unknown"}]
      /\ sure'[n] = "unknown" /\ \A m \in Nodes \ {n} : sure'[m] = sure[m]
  BY <1>4 DEF VMAction, ProxmoxInv, ProxmoxTypeOK
<1>8. /\ waiter' \in [Calls -> [on: BOOLEAN, task: Nat]]
      /\ \A c \in Calls : waiter'[c].task \in 0 .. N + 1
  <2>1. /\ waiter \in [Calls -> [on: BOOLEAN, task: Nat]]
        /\ \A c \in Calls : waiter[c].task \in 0 .. N + 1
    BY <1>1 DEF ProxmoxInv, ProxmoxTypeOK, WaitersPoll
  <2>2. CASE waiter' = waiter
    BY <2>1, <2>2
  <2>3. ASSUME NEW i \in {0, N + 1}, waiter' = [waiter EXCEPT ![q] = [on |-> TRUE, task |-> i]]
        PROVE  /\ waiter' \in [Calls -> [on: BOOLEAN, task: Nat]]
               /\ \A c \in Calls : waiter'[c].task \in 0 .. N + 1
    <3>1. i \in 0 .. N + 1 /\ i \in Nat
      BY <1>1
    <3> QED BY <2>1, <2>3, <3>1
  <2> QED BY <2>2, <2>3 DEF VMAction, taskID
<1> HIDE DEF met, task, N
<1>a. ProxmoxTypeOK'
  BY <1>5, <1>7, <1>8 DEF ProxmoxInv, ProxmoxTypeOK
<1>b. TasksTrue'
  BY <1>7 DEF ProxmoxInv, TasksTrue
<1>c. ExitsAtEnd'
  <2> SUFFICES ASSUME NEW i \in 1 .. N + 1
               PROVE  tasks'[i].status = "running" <=> tasks'[i].exit = NoExit
    BY <1>5 DEF ExitsAtEnd
  <2>1. CASE i = N + 1
    BY <2>1, <1>5, <1>6
  <2>2. CASE i \in 1 .. N
    BY <2>2, <1>1, <1>3, <1>5 DEF ProxmoxInv, ExitsAtEnd
  <2> QED BY <2>1, <2>2, <1>1
<1>d. \A i \in 1 .. N : tasks[i].node \in Nodes /\ tasks[i].status \in {"running", "stopped"}
  BY <1>1 DEF Task
<1>e. AloneAtWork'
  <2> SUFFICES ASSUME NEW i \in 1 .. N + 1, NEW j \in 1 .. N + 1, tasks'[i].alone, i # j,
                      tasks'[i].node = tasks'[j].node
               PROVE  tasks'[j].status = "stopped"
    BY <1>5 DEF AloneAtWork
  <2>1. CASE i \in 1 .. N
    <3>1. tasks[i].alone /\ tasks[i].node # n /\ tasks'[i].node = tasks[i].node
      BY <2>1, <1>3, <1>5
    <3>2. j # N + 1
      BY <3>1, <1>5, <1>6
    <3>3. j \in 1 .. N
      BY <3>2, <1>1
    <3>4. tasks'[j].node = tasks[j].node /\ tasks'[j].status = tasks[j].status
      BY <3>3, <1>3, <1>5
    <3> QED BY <2>1, <3>1, <3>3, <3>4, <1>1 DEF ProxmoxInv, AloneAtWork
  <2>2. CASE i = N + 1
    <3>1. j \in 1 .. N
      BY <2>2, <1>1
    <3>2. tasks'[j].node = tasks[j].node /\ tasks'[j].status = tasks[j].status
      BY <3>1, <1>3, <1>5
    <3>3. tasks[j].node = n /\ task.alone
      BY <2>2, <3>2, <1>5, <1>6
    <3>4. tasks[j].status # "running"
      BY <3>1, <3>3, <1>6
    <3> QED BY <3>1, <3>2, <3>4, <1>d
  <2> QED BY <2>1, <2>2, <1>1
<1>f. AloneShows'
  <2> SUFFICES ASSUME NEW i \in 1 .. N + 1, tasks'[i].alone, tasks'[i].exit = "OK"
               PROVE  machine'[tasks'[i].node] = Becomes(tasks'[i].action)
    BY <1>5 DEF AloneShows
  <2>1. i # N + 1
    BY <1>5, <1>6, Exits
  <2>2. i \in 1 .. N
    BY <1>1, <2>1
  <2>3. /\ tasks[i].alone /\ tasks[i].exit = "OK"
        /\ tasks'[i].node = tasks[i].node /\ tasks'[i].action = tasks[i].action
    BY <1>3, <1>5, <2>2
  <2> QED BY <1>1, <1>7, <2>2, <2>3 DEF ProxmoxInv, AloneShows
<1>g. UnknownAtWork'
  <2> SUFFICES ASSUME NEW i \in 1 .. N + 1, tasks'[i].status = "running"
               PROVE  sure'[tasks'[i].node] = "unknown"
    BY <1>5 DEF UnknownAtWork
  <2>1. CASE i = N + 1
    BY <2>1, <1>5, <1>6, <1>7
  <2>2. CASE i \in 1 .. N
    <3>1. tasks[i].status = "running" /\ tasks'[i].node = tasks[i].node
      BY <2>2, <1>3, <1>5
    <3>2. sure[tasks[i].node] = "unknown"
      BY <2>2, <3>1, <1>1 DEF ProxmoxInv, UnknownAtWork
    <3> QED BY <2>2, <3>1, <3>2, <1>7, <1>d
  <2> QED BY <2>1, <2>2, <1>1
<1>h. WaitersPoll'
  BY <1>5, <1>8 DEF WaitersPoll
<1> QED BY <1>a, <1>b, <1>c, <1>e, <1>f, <1>g, <1>h DEF ProxmoxInv

\* A task ends on a machine of which nothing is known.
LEMMA EndKeeps ==
  ASSUME ProxmoxInv, NEW k \in DOMAIN tasks, Ends(k)
  PROVE  ProxmoxInv'
<1> DEFINE t == tasks[k]
           N == Len(tasks)
<1>1. /\ tasks \in Seq(Task) /\ N \in Nat /\ DOMAIN tasks = 1 .. N
      /\ \A i \in 1 .. N : tasks[i] \in Task
      /\ k \in 1 .. N
  BY DEF ProxmoxInv, ProxmoxTypeOK
<1>2. PICK exit \in {"OK", "error"} :
        /\ tasks' = [tasks EXCEPT ![k] = [t EXCEPT !.status = "stopped", !.exit = exit]]
        /\ machine' = IF exit = "OK" THEN [machine EXCEPT ![t.node] = Becomes(t.action)]
                      ELSE machine
  BY DEF Ends
<1> DEFINE over == [t EXCEPT !.status = "stopped", !.exit = exit]
<1>3. /\ over \in Task /\ over.node = t.node /\ over.action = t.action
      /\ over.alone = t.alone /\ over.status = "stopped" /\ over.exit = exit
  BY <1>1, Exits DEF Task
<1>4. /\ t.status = "running" /\ t.node \in Nodes /\ sure[t.node] = "unknown"
      /\ UNCHANGED <<pool, waiter, sure>>
  BY <1>1 DEF Ends, ProxmoxInv, UnknownAtWork, Task
<1>5. /\ tasks' \in Seq(Task) /\ Len(tasks') = N /\ DOMAIN tasks' = 1 .. N
      /\ tasks'[k] = over /\ \A i \in 1 .. N : i # k => tasks'[i] = tasks[i]
  BY <1>1, <1>2, <1>3
<1>6. /\ machine' \in [Nodes -> MachineStates]
      /\ \A m \in Nodes : m # t.node => machine'[m] = machine[m]
      /\ exit = "OK" => machine'[t.node] = Becomes(t.action)
  BY <1>2, <1>4, BecomesState DEF ProxmoxInv, ProxmoxTypeOK
<1>7. \A i \in 1 .. N : i # k /\ tasks[i].alone => tasks[i].node # t.node
  BY <1>1, <1>4 DEF ProxmoxInv, AloneAtWork
<1>8. \A i \in 1 .. N : tasks[i].node \in Nodes
  BY <1>1 DEF Task
<1> HIDE DEF over, t, N
<1>a. ProxmoxTypeOK'
  BY <1>4, <1>5, <1>6 DEF ProxmoxInv, ProxmoxTypeOK
<1>b. TasksTrue'
  BY <1>4, <1>6 DEF ProxmoxInv, TasksTrue
<1>c. ExitsAtEnd'
  BY <1>1, <1>3, <1>5, Exits DEF ProxmoxInv, ExitsAtEnd
<1>d. AloneAtWork'
  <2> SUFFICES ASSUME NEW i \in 1 .. N, NEW j \in 1 .. N, tasks'[i].alone, i # j,
                      tasks'[i].node = tasks'[j].node
               PROVE  tasks'[j].status = "stopped"
    BY <1>5 DEF AloneAtWork
  <2>1. tasks[i].alone /\ tasks[i].node = tasks[j].node
    BY <1>3, <1>5 DEF t
  <2> QED BY <2>1, <1>1, <1>3, <1>5 DEF ProxmoxInv, AloneAtWork
<1>e. AloneShows'
  BY <1>1, <1>3, <1>5, <1>6, <1>7, <1>8 DEF ProxmoxInv, AloneShows
<1>f. UnknownAtWork'
  BY <1>1, <1>3, <1>4, <1>5 DEF ProxmoxInv, UnknownAtWork
<1>g. WaitersPoll'
  BY <1>4, <1>5 DEF ProxmoxInv, WaitersPoll, N
<1> QED BY <1>a, <1>b, <1>c, <1>d, <1>e, <1>f, <1>g DEF ProxmoxInv

\* A caller polls no more.
LEMMA WaiterLeaves ==
  ASSUME ProxmoxInv, NEW q \in Calls, waiter' = [waiter EXCEPT ![q] = NotWaiting]
  PROVE  /\ waiter' \in [Calls -> [on: BOOLEAN, task: Nat]]
         /\ \A c \in Calls : waiter'[c].task \in 0 .. Len(tasks)
<1>1. Len(tasks) \in Nat /\ NotWaiting \in [on: BOOLEAN, task: Nat] /\ NotWaiting.task = 0
  BY DEF ProxmoxInv, ProxmoxTypeOK, NotWaiting
<1>2. waiter \in [Calls -> [on: BOOLEAN, task: Nat]]
  BY DEF ProxmoxInv, ProxmoxTypeOK
<1>3. \A c \in Calls : waiter[c].task \in 0 .. Len(tasks)
  BY DEF ProxmoxInv, WaitersPoll
<1> QED BY <1>1, <1>2, <1>3

\* Tasks and machines are as they were; the invariant then hangs on the rest.
LEMMA SameTasks ==
  ASSUME ProxmoxInv, pool' = pool, machine' = machine, tasks' = tasks,
         waiter' \in [Calls -> [on: BOOLEAN, task: Nat]],
         \A c \in Calls : waiter'[c].task \in 0 .. Len(tasks),
         sure' \in [Nodes -> MachineStates \cup {"unknown"}],
         \A n \in Nodes : sure'[n] \in {"unknown", machine[n]},
         \A i \in DOMAIN tasks :
           tasks[i].status = "running" => sure'[tasks[i].node] = "unknown"
  PROVE  ProxmoxInv'
<1>1. ProxmoxTypeOK'
  BY DEF ProxmoxInv, ProxmoxTypeOK
<1>2. ExitsAtEnd' /\ AloneAtWork'
  BY DEF ProxmoxInv, ExitsAtEnd, AloneAtWork
<1>3. AloneShows'
  BY DEF ProxmoxInv, AloneShows
<1>4. WaitersPoll'
  BY DEF WaitersPoll
<1>5. TasksTrue' /\ UnknownAtWork'
  BY DEF TasksTrue, UnknownAtWork
<1> QED BY <1>1, <1>2, <1>3, <1>4, <1>5 DEF ProxmoxInv

\* What a caller believes after a task that met no other one is so.
LEMMA OverKeeps ==
  ASSUME ProxmoxInv, NEW q \in Calls, TaskOver(q)
  PROVE  ProxmoxInv'
<1> DEFINE k == waiter[q].task
           t == tasks[k]
<1>1. /\ \A i \in DOMAIN tasks : tasks[i] \in Task
      /\ k \in DOMAIN tasks
  <2>1. k # 0
    BY DEF TaskOver
  <2> QED BY <2>1 DEF ProxmoxInv, ProxmoxTypeOK, WaitersPoll
<1>2. /\ pool' = pool /\ machine' = machine /\ tasks' = tasks
      /\ waiter' = [waiter EXCEPT ![q] = NotWaiting]
      /\ sure' = IF t.exit \in {"OK", NoExit} /\ t.alone
                 THEN [sure EXCEPT ![t.node] = Becomes(t.action)] ELSE sure
      /\ t.status # "running" /\ t \in Task
  BY <1>1 DEF TaskOver, IsRunning
<1>3. t.exit # NoExit
  BY <1>1, <1>2 DEF ProxmoxInv, ExitsAtEnd
<1>4. /\ sure \in [Nodes -> MachineStates \cup {"unknown"}]
      /\ \A n \in Nodes : sure[n] \in {"unknown", machine[n]}
      /\ \A i \in DOMAIN tasks : tasks[i].status = "running" => sure[tasks[i].node] = "unknown"
  BY DEF ProxmoxInv, ProxmoxTypeOK, TasksTrue, UnknownAtWork
<1>5. /\ waiter' \in [Calls -> [on: BOOLEAN, task: Nat]]
      /\ \A c \in Calls : waiter'[c].task \in 0 .. Len(tasks)
  BY <1>2, WaiterLeaves
<1>6. CASE t.exit = "OK" /\ t.alone
  <2>1. /\ t.node \in Nodes /\ machine[t.node] = Becomes(t.action)
        /\ \A i \in DOMAIN tasks : tasks[i].status = "running" => tasks[i].node # t.node
    BY <1>1, <1>2, <1>6 DEF ProxmoxInv, AloneShows, AloneAtWork, Task
  <2>2. sure' = [sure EXCEPT ![t.node] = Becomes(t.action)]
    BY <1>2, <1>6
  <2>3. \A i \in DOMAIN tasks : tasks[i].node \in Nodes
    BY <1>1 DEF Task
  <2> HIDE DEF t, k
  <2>4. /\ sure' \in [Nodes -> MachineStates \cup {"unknown"}]
        /\ \A n \in Nodes : sure'[n] \in {"unknown", machine[n]}
        /\ \A i \in DOMAIN tasks :
             tasks[i].status = "running" => sure'[tasks[i].node] = "unknown"
    BY <1>4, <2>1, <2>2, <2>3, BecomesState
  <2> QED BY <1>2, <1>5, <2>4, SameTasks
<1>7. CASE ~(t.exit = "OK" /\ t.alone)
  <2>1. sure' = sure
    BY <1>2, <1>3, <1>7
  <2> QED BY <1>2, <1>4, <1>5, <2>1, SameTasks
<1> QED BY <1>6, <1>7

LEMMA TimeOutKeeps ==
  ASSUME ProxmoxInv, NEW q \in Calls, TimedOut(q)
  PROVE  ProxmoxInv'
<1>1. /\ pool' = pool /\ machine' = machine /\ tasks' = tasks /\ sure' = sure
      /\ waiter' = [waiter EXCEPT ![q] = NotWaiting]
  BY DEF TimedOut
<1>2. /\ sure \in [Nodes -> MachineStates \cup {"unknown"}]
      /\ \A n \in Nodes : sure[n] \in {"unknown", machine[n]}
      /\ \A i \in DOMAIN tasks : tasks[i].status = "running" => sure[tasks[i].node] = "unknown"
  BY DEF ProxmoxInv, ProxmoxTypeOK, TasksTrue, UnknownAtWork
<1> QED BY <1>1, <1>2, WaiterLeaves, SameTasks

LEMMA ProxmoxStutter == ProxmoxInv /\ UNCHANGED proxmoxVars => ProxmoxInv'
<1> SUFFICES ASSUME ProxmoxInv, UNCHANGED proxmoxVars PROVE ProxmoxInv'
  OBVIOUS
<1>1. /\ pool' = pool /\ machine' = machine /\ tasks' = tasks /\ sure' = sure
      /\ waiter' = waiter
  BY DEF proxmoxVars
<1>2. /\ sure \in [Nodes -> MachineStates \cup {"unknown"}]
      /\ waiter \in [Calls -> [on: BOOLEAN, task: Nat]]
      /\ \A n \in Nodes : sure[n] \in {"unknown", machine[n]}
      /\ \A c \in Calls : waiter[c].task \in 0 .. Len(tasks)
      /\ \A i \in DOMAIN tasks : tasks[i].status = "running" => sure[tasks[i].node] = "unknown"
  BY DEF ProxmoxInv, ProxmoxTypeOK, TasksTrue, UnknownAtWork, WaitersPoll
<1> QED BY <1>1, <1>2, SameTasks

LEMMA ProxmoxStep == ProxmoxInv /\ ProxmoxNext => ProxmoxInv'
BY ActionKeeps, EndKeeps, OverKeeps, TimeOutKeeps DEF ProxmoxNext

LEMMA ProxmoxInvariant == ProxmoxSpec => []ProxmoxInv
<1>1. ProxmoxInit => ProxmoxInv
  BY ProxmoxStart
<1>2. ProxmoxInv /\ [ProxmoxNext /\ UNCHANGED workload]_<<proxmoxVars, workload>>
      => ProxmoxInv'
  BY ProxmoxStep, ProxmoxStutter
<1> QED BY <1>1, <1>2, PTL DEF ProxmoxSpec

\* When WaitForTask reports no error the machine is as its caller believes,
\* unless two tasks met: for any nodes, callers and commands, and however late
\* a task ends (proxmox/client/client.go:246-287).
THEOREM TasksAlwaysTrue == ProxmoxSpec => []TasksTrue
<1>1. ProxmoxInv => TasksTrue
  BY DEF ProxmoxInv
<1> QED BY <1>1, ProxmoxInvariant, PTL

-----------------------------------------------------------------------------
(* Proxies and purchases. *)

Buying == {"create", "poll"}
WireRecord == [waits: SUBSET Calls, op: Sent, about: Nat, try: 1 .. MaxTries]
Proxy == [status: ProxyStatuses, purchase: Nat]
Bought == [ref: Nat, unanswered: 0 .. MaxTries]

\* A call is about a purchase or a proxy that there is.  Every POST that it has
\* behind it went unanswered.  A proxy that it found is of its own purchase.
AskKnown(q) ==
  LET a == ask[q] IN
  /\ a.op \in Sent => a.try \in 1 .. MaxTries
  /\ a.op \in Buying => a.about \in DOMAIN purchases
  /\ a.op = "create" => purchases[a.about].unanswered = a.try - 1
  /\ a.op = "create" /\ a.answer = "done" => a.found # 0
  /\ a.op = "poll" => a.found # 0
  /\ a.op \in Commands => a.about \in DOMAIN proxies
  /\ a.found # 0 => /\ a.op \in Buying
                    /\ a.found \in DOMAIN proxies
                    /\ proxies[a.found].purchase = a.about

\* No two calls work for one purchase, or found one proxy.
AsksApart ==
  \A q, r \in Calls : q # r =>
    /\ ask[q].op \in Buying /\ ask[r].op \in Buying => ask[q].about # ask[r].about
    /\ ask[q].found = ask[r].found => ask[q].found = 0

\* A request on the wire is about what there is; the call that waits for its
\* answer sent it last.
WireKnown ==
  \A w \in wire :
    /\ w.op = "create" => w.about \in DOMAIN purchases
    /\ w.op \in Commands => w.about \in DOMAIN proxies
    /\ \A q \in w.waits : w = Posted(q, ask[q]) /\ ask[q].answer = "none"

\* A purchase returned a proxy of its own.
PurchasesKnown ==
  /\ \A n \in DOMAIN purchases :
       LET p == purchases[n].ref IN
       p # 0 => p \in DOMAIN proxies /\ proxies[p].purchase = n
  /\ \A p \in DOMAIN proxies : proxies[p].purchase \in DOMAIN purchases
  /\ Len(settled) = Len(proxies)

BuyInv ==
  /\ ProvidersTypeOK
  /\ \A q \in Calls : AskKnown(q)
  /\ AsksApart
  /\ WireKnown
  /\ PurchasesKnown

LEMMA Verbs ==
  /\ Sent = {"create"} \cup Commands /\ Commands \subseteq Sent /\ "create" \in Sent
  /\ "create" \notin Commands /\ "poll" \notin Sent /\ "none" \notin Sent
  /\ "none" \notin Buying /\ "poll" \in Buying /\ "create" \in Buying
  /\ Commands \cap Buying = {} /\ Commands = {"Cancel", "Suspend", "Resume"}
BY DEF Sent, Commands, Buying

LEMMA ProvidersTypes ==
  ProvidersTypeOK <=>
    /\ proxies \in Seq(Proxy) /\ purchases \in Seq(Bought)
    /\ ask \in [Calls -> AskRecord] /\ wire \subseteq WireRecord
    /\ settled \in Seq(ProxyStatuses \cup {"unknown"})
BY DEF ProvidersTypeOK, Proxy, Bought, WireRecord

\* The fields of the records that calls become.
LEMMA BlankAsk ==
  /\ NoAskRecord \in AskRecord /\ NoAskRecord.op = "none" /\ NoAskRecord.found = 0
  /\ NoAskRecord.answer = "none"
BY ProvidersAssumption DEF NoAskRecord, AskRecord

LEMMA FirstPost ==
  ASSUME NEW n \in Nat
  PROVE  LET a == [NoAskRecord EXCEPT !.op = "create", !.about = n, !.try = 1] IN
         /\ a \in AskRecord /\ a.op = "create" /\ a.about = n /\ a.try = 1
         /\ a.answer = "none" /\ a.found = 0
<1> DEFINE b == [NoAskRecord EXCEPT !.op = "create"]
           c == [b EXCEPT !.about = n]
           a == [c EXCEPT !.try = 1]
<1>1. "create" \in {"none", "poll"} \cup Sent /\ 1 \in 0 .. MaxTries
  BY Verbs, ProvidersAssumption
<1>2. b \in AskRecord /\ b.op = "create" /\ b.answer = "none" /\ b.found = 0
  BY <1>1, BlankAsk DEF AskRecord
<1> HIDE DEF b
<1>3. /\ c \in AskRecord /\ c.op = b.op /\ c.answer = b.answer /\ c.found = b.found
      /\ c.about = n
  BY <1>2 DEF AskRecord
<1> HIDE DEF c
<1>4. /\ a \in AskRecord /\ a.op = c.op /\ a.answer = c.answer /\ a.found = c.found
      /\ a.about = c.about /\ a.try = 1
  BY <1>1, <1>3 DEF AskRecord
<1>5. a = [NoAskRecord EXCEPT !.op = "create", !.about = n, !.try = 1]
  BY DEF b, c
<1> HIDE DEF a
<1> QED BY <1>2, <1>3, <1>4, <1>5

LEMMA SentAgain ==
  ASSUME NEW a \in AskRecord, a.op \in Sent, a.try < MaxTries
  PROVE  LET b == [a EXCEPT !.try = a.try + 1, !.answer = "none", !.found = 0] IN
         /\ b \in AskRecord /\ b.op = a.op /\ b.about = a.about /\ b.alone = a.alone
         /\ b.try = a.try + 1 /\ b.answer = "none" /\ b.found = 0
<1> DEFINE c == [a EXCEPT !.try = a.try + 1]
           d == [c EXCEPT !.answer = "none"]
           b == [d EXCEPT !.found = 0]
<1>1. a.try \in Nat /\ a.try + 1 \in 0 .. MaxTries
  BY ProvidersAssumption DEF AskRecord
<1>2. /\ c \in AskRecord /\ c.op = a.op /\ c.about = a.about /\ c.alone = a.alone
      /\ c.try = a.try + 1
  BY <1>1 DEF AskRecord
<1> HIDE DEF c
<1>3. /\ d \in AskRecord /\ d.op = c.op /\ d.about = c.about /\ d.alone = c.alone
      /\ d.try = c.try /\ d.answer = "none"
  BY <1>2 DEF AskRecord
<1> HIDE DEF d
<1>4. /\ b \in AskRecord /\ b.op = d.op /\ b.about = d.about /\ b.alone = d.alone
      /\ b.try = d.try /\ b.answer = d.answer /\ b.found = 0
  BY <1>3 DEF AskRecord
<1>5. b = [a EXCEPT !.try = a.try + 1, !.answer = "none", !.found = 0]
  BY DEF c, d
<1> HIDE DEF b
<1> QED BY <1>2, <1>3, <1>4, <1>5

LEMMA Polls ==
  ASSUME NEW a \in AskRecord
  PROVE  LET b == [a EXCEPT !.op = "poll", !.answer = "none"] IN
         /\ b \in AskRecord /\ b.op = "poll" /\ b.about = a.about /\ b.found = a.found
         /\ b.answer = "none"
<1> DEFINE c == [a EXCEPT !.op = "poll"]
           b == [c EXCEPT !.answer = "none"]
<1>1. c \in AskRecord /\ c.op = "poll" /\ c.about = a.about /\ c.found = a.found
  BY DEF AskRecord
<1> HIDE DEF c
<1>2. /\ b \in AskRecord /\ b.op = c.op /\ b.about = c.about /\ b.found = c.found
      /\ b.answer = "none"
  BY <1>1 DEF AskRecord
<1>3. b = [a EXCEPT !.op = "poll", !.answer = "none"]
  BY DEF c
<1> HIDE DEF b
<1> QED BY <1>1, <1>2, <1>3

LEMMA PostedType ==
  ASSUME NEW q \in Calls, NEW a \in AskRecord, a.op \in Sent, a.try \in 1 .. MaxTries
  PROVE  LET w == Posted(q, a) IN
         /\ w \in WireRecord /\ w.waits = {q} /\ w.op = a.op /\ w.about = a.about
         /\ w.try = a.try
BY DEF Posted, WireRecord, AskRecord

\* The requests on the wire when q no longer waits for any.
Unheard(q) == {[w EXCEPT !.waits = @ \ {q}] : w \in wire}

LEMMA UnheardIs ==
  ASSUME NEW q \in Calls, NEW w \in WireRecord
  PROVE  LET u == [w EXCEPT !.waits = @ \ {q}] IN
         /\ u \in WireRecord /\ u.waits = w.waits \ {q} /\ u.op = w.op
         /\ u.about = w.about /\ u.try = w.try
BY DEF WireRecord

LEMMA UnheardAre ==
  ASSUME ProvidersTypeOK, NEW q \in Calls, NEW u \in Unheard(q)
  PROVE  /\ u \in WireRecord /\ q \notin u.waits
         /\ \E w \in wire : /\ u.waits = w.waits \ {q} /\ u.op = w.op
                            /\ u.about = w.about /\ u.try = w.try
<1>1. PICK w \in wire : u = [w EXCEPT !.waits = @ \ {q}]
  BY DEF Unheard
<1>2. w \in WireRecord
  BY ProvidersTypes
<1> QED BY <1>1, <1>2, UnheardIs

LEMMA RecordsAlike ==
  ASSUME NEW v \in WireRecord, NEW w \in WireRecord,
         v.waits = w.waits, v.op = w.op, v.about = w.about, v.try = w.try
  PROVE  v = w
BY DEF WireRecord

\* A call is where it was.
SameAsk(c) ==
  /\ ask'[c].op = ask[c].op /\ ask'[c].about = ask[c].about /\ ask'[c].try = ask[c].try
  /\ ask'[c].answer = ask[c].answer /\ ask'[c].found = ask[c].found

\* Purchases and proxies only become more.
Grow ==
  /\ DOMAIN purchases \subseteq DOMAIN purchases'
  /\ DOMAIN proxies \subseteq DOMAIN proxies'
  /\ \A p \in DOMAIN proxies : proxies'[p].purchase = proxies[p].purchase

LEMMA AskStays ==
  ASSUME NEW c \in Calls, AskKnown(c), SameAsk(c), Grow,
         ask[c].op = "create" =>
           purchases'[ask[c].about].unanswered = purchases[ask[c].about].unanswered
  PROVE  AskKnown(c)'
BY DEF AskKnown, SameAsk, Grow

\* A call ends, or one that bought a proxy starts to poll it; the call waits
\* for no answer any more, and the requests stay on the wire.
LEMMA OneAsk ==
  ASSUME BuyInv, NEW q \in Calls, NEW b \in AskRecord,
         ask' = [ask EXCEPT ![q] = b],
         \/ b = NoAskRecord
         \/ /\ b.op = "poll" /\ ask[q].op = "create"
            /\ b.about = ask[q].about /\ b.found = ask[q].found /\ b.found # 0,
         \A w \in wire : q \notin w.waits,
         wire' = wire, proxies' = proxies,
         purchases' \in Seq(Bought), DOMAIN purchases' = DOMAIN purchases,
         \A n \in DOMAIN purchases : purchases'[n].unanswered = purchases[n].unanswered,
         settled' \in Seq(ProxyStatuses \cup {"unknown"}),
         PurchasesKnown'
  PROVE  BuyInv'
<1>1. /\ ask \in [Calls -> AskRecord] /\ wire \subseteq WireRecord /\ proxies \in Seq(Proxy)
  BY ProvidersTypes DEF BuyInv
<1>2. /\ ask' \in [Calls -> AskRecord] /\ ask'[q] = b
      /\ \A c \in Calls \ {q} : ask'[c] = ask[c]
  BY <1>1
<1>3. ProvidersTypeOK'
  <2>1. /\ proxies' \in Seq(Proxy) /\ wire' \subseteq WireRecord
    BY <1>1
  <2> QED BY <2>1, <1>2 DEF ProvidersTypeOK, Proxy, Bought, WireRecord
<1>4. \A c \in Calls \ {q} : AskKnown(c)'
  <2> TAKE c \in Calls \ {q}
  <2>1. AskKnown(c)
    BY DEF BuyInv
  <2>2. ask[c].op = "create" => ask[c].about \in DOMAIN purchases
    BY <2>1, Verbs DEF AskKnown
  <2>3. SameAsk(c) /\ Grow
    BY <1>2 DEF SameAsk, Grow
  <2> QED BY <2>1, <2>2, <2>3, AskStays
<1>5. /\ b.found # 0 => b.found = ask[q].found
      /\ b.op \in Buying => ask[q].op \in Buying /\ b.about = ask[q].about
      /\ b.op \notin Sent
  BY BlankAsk, Verbs
<1>6. AskKnown(q)'
  <2>1. AskKnown(q)
    BY DEF BuyInv
  <2>2. /\ b.op \notin Sent
        /\ b.op \in Buying => b.about \in DOMAIN purchases
        /\ b.op = "poll" => b.found # 0
        /\ b.found # 0 => /\ b.op \in Buying
                          /\ b.found \in DOMAIN proxies
                          /\ proxies[b.found].purchase = b.about
    BY <2>1, <1>5, BlankAsk, Verbs DEF AskKnown
  <2> QED BY <2>2, <1>2, Verbs DEF AskKnown
<1>7. AsksApart'
  BY <1>2, <1>5 DEF BuyInv, AsksApart
<1>8. WireKnown'
  <2> SUFFICES ASSUME NEW w \in wire
               PROVE  /\ w.op = "create" => w.about \in DOMAIN purchases
                      /\ w.op \in Commands => w.about \in DOMAIN proxies
                      /\ \A c \in w.waits : w = Posted(c, ask'[c]) /\ ask'[c].answer = "none"
    BY DEF WireKnown, Posted
  <2>1. /\ w.op = "create" => w.about \in DOMAIN purchases
        /\ w.op \in Commands => w.about \in DOMAIN proxies
        /\ \A c \in w.waits : w = Posted(c, ask[c]) /\ ask[c].answer = "none"
    BY DEF BuyInv, WireKnown
  <2>2. \A c \in w.waits : c \in Calls \ {q}
    BY <1>1 DEF WireRecord
  <2> QED BY <2>1, <2>2, <1>2
<1> QED BY <1>3, <1>4, <1>6, <1>7, <1>8 DEF BuyInv

\* A call that has an answer, or polls, waits for nothing on the wire.
LEMMA Answered ==
  ASSUME BuyInv, NEW q \in Calls, ask[q].answer # "none" \/ ask[q].op \notin Sent
  PROVE  \A w \in wire : q \notin w.waits
<1> SUFFICES ASSUME NEW w \in wire, q \in w.waits PROVE FALSE
  OBVIOUS
<1>1. w = Posted(q, ask[q]) /\ ask[q].answer = "none"
  BY DEF BuyInv, WireKnown
<1>2. w.op = ask[q].op
  BY <1>1 DEF Posted
<1>3. w.op \in Sent
  BY ProvidersTypes DEF BuyInv, WireRecord
<1> QED BY <1>1, <1>2, <1>3

\* Only the call of q changes, to one that ended.
LEMMA ForgetKnown ==
  ASSUME BuyInv, NEW q \in Calls, Forget(q), ask[q].answer # "none" \/ ask[q].op \notin Sent,
         wire' = wire, proxies' = proxies, purchases' = purchases,
         settled' \in Seq(ProxyStatuses \cup {"unknown"}), Len(settled') = Len(settled)
  PROVE  BuyInv'
<1>1. PurchasesKnown'
  BY DEF BuyInv, PurchasesKnown
<1>2. purchases \in Seq(Bought)
  BY ProvidersTypes DEF BuyInv
<1> QED BY <1>1, <1>2, Answered, BlankAsk, OneAsk DEF Forget

LEMMA CreateAnsweredKnown ==
  ASSUME BuyInv, NEW q \in Calls, CreateAnswered(q)
  PROVE  BuyInv'
<1> DEFINE b == [ask[q] EXCEPT !.op = "poll", !.answer = "none"]
<1>1. ask[q] \in AskRecord /\ purchases \in Seq(Bought)
      /\ settled \in Seq(ProxyStatuses \cup {"unknown"})
  BY ProvidersTypes DEF BuyInv
<1>2. b \in AskRecord /\ b.op = "poll" /\ b.about = ask[q].about /\ b.found = ask[q].found
  BY <1>1, Polls
<1>3. /\ ask' = [ask EXCEPT ![q] = b] /\ ask[q].op = "create" /\ ask[q].answer = "done"
      /\ wire' = wire /\ proxies' = proxies /\ purchases' = purchases /\ settled' = settled
  BY DEF CreateAnswered
<1>4. b.found # 0 /\ ask[q].answer # "none"
  BY <1>2, <1>3 DEF BuyInv, AskKnown
<1>5. PurchasesKnown'
  BY <1>3 DEF BuyInv, PurchasesKnown
<1> HIDE DEF b
<1> QED BY <1>1, <1>2, <1>3, <1>4, <1>5, Answered, OneAsk

LEMMA PollAnsweredKnown ==
  ASSUME BuyInv, NEW q \in Calls, PollAnswered(q)
  PROVE  BuyInv'
<1> DEFINE p == ask[q].found
           n == ask[q].about
<1>1. /\ purchases \in Seq(Bought) /\ proxies \in Seq(Proxy)
      /\ settled \in Seq(ProxyStatuses \cup {"unknown"})
      /\ \A k \in DOMAIN purchases : purchases[k] \in Bought
      /\ \A k \in DOMAIN proxies : proxies[k] \in Proxy
  BY ProvidersTypes DEF BuyInv
<1>2. AskKnown(q) /\ ask[q].op = "poll"
  BY DEF BuyInv, PollAnswered
<1>3. /\ p # 0 /\ p \in DOMAIN proxies /\ n \in DOMAIN purchases
      /\ proxies[p].purchase = n /\ p \in Nat
  BY <1>1, <1>2, Verbs DEF AskKnown
<1>4. /\ purchases' = [purchases EXCEPT ![n].ref = p] /\ Forget(q)
      /\ settled' = [settled EXCEPT ![p] = proxies[p].status]
      /\ proxies' = proxies /\ wire' = wire
  BY DEF PollAnswered
<1>5. Len(settled) = Len(proxies)
  BY DEF BuyInv, PurchasesKnown
<1> HIDE DEF p, n
<1>6. /\ settled' \in Seq(ProxyStatuses \cup {"unknown"}) /\ Len(settled') = Len(settled)
  BY <1>1, <1>3, <1>4, <1>5 DEF Proxy
<1> DEFINE bought == [purchases[n] EXCEPT !.ref = p]
<1>7. /\ bought \in Bought /\ bought.ref = p
      /\ bought.unanswered = purchases[n].unanswered
  BY <1>1, <1>3 DEF Bought
<1>8. purchases' = [purchases EXCEPT ![n] = bought]
  BY <1>4
<1> HIDE DEF bought
<1>9. /\ purchases' \in Seq(Bought) /\ DOMAIN purchases' = DOMAIN purchases
      /\ purchases'[n] = bought /\ \A k \in DOMAIN purchases : k # n => purchases'[k] = purchases[k]
  BY <1>1, <1>3, <1>7, <1>8
<1>10. PurchasesKnown'
  <2>1. \A k \in DOMAIN purchases :
          purchases'[k].ref # 0 => /\ purchases'[k].ref \in DOMAIN proxies
                                   /\ proxies[purchases'[k].ref].purchase = k
    BY <1>3, <1>7, <1>9 DEF BuyInv, PurchasesKnown
  <2> QED BY <2>1, <1>4, <1>5, <1>6, <1>9 DEF BuyInv, PurchasesKnown
<1>11. \A k \in DOMAIN purchases : purchases'[k].unanswered = purchases[k].unanswered
  BY <1>7, <1>9
<1>12. \A w \in wire : q \notin w.waits
  BY <1>2, Answered, Verbs
<1>13. ask' = [ask EXCEPT ![q] = NoAskRecord]
  BY <1>4 DEF Forget
<1> QED BY <1>4, <1>6, <1>9, <1>10, <1>11, <1>12, <1>13, BlankAsk, OneAsk

\* The call of q puts a request on the wire, beside those of V.
Sends(q, V) ==
  /\ wire' = V \cup {Posted(q, ask'[q])} /\ ask'[q] \in AskRecord
  /\ ask'[q].op \in Sent /\ ask'[q].try \in 1 .. MaxTries /\ ask'[q].answer = "none"
  /\ ask'[q].op = "create" => ask'[q].about \in DOMAIN purchases'
  /\ ask'[q].op \in Commands => ask'[q].about \in DOMAIN proxies'

\* What becomes of the wire when q sends a request, or stops to wait for one.
\* The other calls are where they were.
LEMMA WireSends ==
  ASSUME BuyInv, NEW q \in Calls, NEW V \in SUBSET WireRecord,
         \A u \in V : /\ q \notin u.waits
                      /\ \E w \in wire : /\ u.waits = w.waits \ {q} /\ u.op = w.op
                                         /\ u.about = w.about /\ u.try = w.try,
         \A c \in Calls \ {q} : ask'[c] \in AskRecord /\ SameAsk(c), Grow
  PROVE  /\ wire' = V => WireKnown' /\ wire' \subseteq WireRecord
         /\ Sends(q, V) => WireKnown' /\ wire' \subseteq WireRecord
<1>1. wire \subseteq WireRecord
  BY ProvidersTypes DEF BuyInv
<1>2. \A u \in V :
        /\ u.op = "create" => u.about \in DOMAIN purchases'
        /\ u.op \in Commands => u.about \in DOMAIN proxies'
        /\ \A c \in u.waits : u = Posted(c, ask'[c]) /\ ask'[c].answer = "none"
  <2> TAKE u \in V
  <2>1. PICK w \in wire : /\ u.waits = w.waits \ {q} /\ u.op = w.op
                          /\ u.about = w.about /\ u.try = w.try
    OBVIOUS
  <2>2. /\ w.op = "create" => w.about \in DOMAIN purchases
        /\ w.op \in Commands => w.about \in DOMAIN proxies
        /\ \A c \in w.waits : w = Posted(c, ask[c]) /\ ask[c].answer = "none"
    BY DEF BuyInv, WireKnown
  <2>3. ASSUME NEW c \in u.waits
        PROVE  u = Posted(c, ask'[c]) /\ ask'[c].answer = "none"
    <3>1. u \in WireRecord /\ w \in WireRecord
      BY <1>1
    <3>2. c \in w.waits /\ c \in Calls \ {q}
      BY <2>1, <3>1 DEF WireRecord
    <3>3. /\ w.waits = {c} /\ w.op = ask[c].op /\ w.about = ask[c].about
          /\ w.try = ask[c].try /\ ask[c].answer = "none"
      BY <2>2, <3>2 DEF Posted
    <3>4. /\ ask'[c].op = w.op /\ ask'[c].about = w.about /\ ask'[c].try = w.try
          /\ ask'[c].answer = "none" /\ ask'[c] \in AskRecord
      BY <3>2, <3>3 DEF SameAsk
    <3>5. w.op \in Sent /\ w.try \in 1 .. MaxTries
      BY <3>1 DEF WireRecord
    <3>6. /\ Posted(c, ask'[c]) \in WireRecord /\ Posted(c, ask'[c]).waits = {c}
          /\ Posted(c, ask'[c]).op = w.op /\ Posted(c, ask'[c]).about = w.about
          /\ Posted(c, ask'[c]).try = w.try
      BY <3>2, <3>4, <3>5, PostedType
    <3>7. u.waits = {c}
      BY <2>1, <3>2, <3>3
    <3> DEFINE x == Posted(c, ask'[c])
    <3> HIDE DEF x
    <3>8. x \in WireRecord /\ x.waits = {c} /\ x.op = w.op /\ x.about = w.about /\ x.try = w.try
      BY <3>6 DEF x
    <3>9. u.waits = x.waits /\ u.op = x.op /\ u.about = x.about /\ u.try = x.try
      BY <2>1, <3>7, <3>8
    <3>10. u = x
      BY <3>1, <3>8, <3>9, RecordsAlike
    <3> QED BY <3>4, <3>10 DEF x
  <2> QED BY <2>1, <2>2, <2>3 DEF Grow
<1>3. ASSUME wire' = V
      PROVE  WireKnown' /\ wire' \subseteq WireRecord
  BY <1>2, <1>3 DEF WireKnown, Posted
<1>4. ASSUME Sends(q, V)
      PROVE  WireKnown' /\ wire' \subseteq WireRecord
  <2> DEFINE x == Posted(q, ask'[q])
  <2>1. /\ x \in WireRecord /\ x.waits = {q} /\ x.op = ask'[q].op /\ x.about = ask'[q].about
    BY <1>4, PostedType DEF Sends
  <2>2. /\ x.op = "create" => x.about \in DOMAIN purchases'
        /\ x.op \in Commands => x.about \in DOMAIN proxies'
        /\ \A c \in x.waits : x = Posted(c, ask'[c]) /\ ask'[c].answer = "none"
    BY <1>4, <2>1 DEF Sends
  <2>3. wire' = V \cup {x}
    BY <1>4 DEF Sends
  <2> HIDE DEF x
  <2>4. \A w \in wire' :
          /\ w.op = "create" => w.about \in DOMAIN purchases'
          /\ w.op \in Commands => w.about \in DOMAIN proxies'
          /\ \A c \in w.waits : w = Posted(c, ask'[c]) /\ ask'[c].answer = "none"
    BY <1>2, <2>2, <2>3
  <2> QED BY <2>1, <2>3, <2>4 DEF WireKnown, Posted
<1> QED BY <1>3, <1>4

\* The call of q is a request of its own; it shares no purchase with another
\* call, and found nothing yet.
LEMMA StillApart ==
  ASSUME BuyInv, NEW q \in Calls, \A c \in Calls \ {q} : SameAsk(c),
         ask'[q].found = 0,
         ask'[q].op \in Buying =>
           \A c \in Calls \ {q} : ask[c].op \in Buying => ask[c].about # ask'[q].about
  PROVE  AsksApart'
BY DEF BuyInv, AsksApart, SameAsk

\* A request that nobody waits for is no less on the wire.
LEMMA SameWire ==
  ASSUME BuyInv, NEW q \in Calls, ask[q].answer # "none" \/ ask[q].op \notin Sent
  PROVE  \A u \in wire : /\ q \notin u.waits
                         /\ \E w \in wire : /\ u.waits = w.waits \ {q} /\ u.op = w.op
                                            /\ u.about = w.about /\ u.try = w.try
<1>1. \A u \in wire : q \notin u.waits
  BY Answered
<1>2. \A u \in wire : u.waits = u.waits \ {q}
  BY <1>1, ProvidersTypes DEF BuyInv, WireRecord
<1> QED BY <1>1, <1>2

LEMMA PurchaseKnown ==
  ASSUME BuyInv, NEW q \in Calls, Purchase(q)
  PROVE  BuyInv'
<1> DEFINE n == Len(purchases) + 1
           a == [NoAskRecord EXCEPT !.op = "create", !.about = n, !.try = 1]
           new == [ref |-> 0, unanswered |-> 0]
<1>1. /\ purchases \in Seq(Bought) /\ proxies \in Seq(Proxy) /\ Len(purchases) \in Nat
      /\ ask \in [Calls -> AskRecord] /\ wire \subseteq WireRecord
      /\ settled \in Seq(ProxyStatuses \cup {"unknown"})
      /\ \A c \in Calls : ask[c] \in AskRecord
  BY ProvidersTypes DEF BuyInv
<1>2. /\ a \in AskRecord /\ a.op = "create" /\ a.about = n /\ a.try = 1 /\ a.found = 0
      /\ a.answer = "none"
  <2>1. n \in Nat /\ 1 \in 0 .. MaxTries
    BY <1>1, ProvidersAssumption
  <2> HIDE DEF n
  <2> QED BY <2>1, FirstPost
<1>3. new \in Bought /\ new.ref = 0 /\ new.unanswered = 0
  BY ProvidersAssumption DEF Bought
<1>4. /\ purchases' = Append(purchases, new) /\ ask' = [ask EXCEPT ![q] = a]
      /\ wire' = wire \cup {Posted(q, a)} /\ proxies' = proxies /\ settled' = settled
      /\ ask[q].op = "none"
  BY DEF Purchase, Free
<1>5. /\ n \in Nat /\ DOMAIN purchases = 1 .. Len(purchases)
      /\ \A k \in DOMAIN purchases : k # n
  BY <1>1
<1> HIDE DEF a, new
<1>6. /\ purchases' \in Seq(Bought) /\ DOMAIN purchases' = DOMAIN purchases \cup {n}
      /\ purchases'[n] = new /\ \A k \in DOMAIN purchases : purchases'[k] = purchases[k]
  BY <1>1, <1>3, <1>4
<1>7. /\ ask' \in [Calls -> AskRecord] /\ ask'[q] = a
      /\ \A c \in Calls \ {q} : ask'[c] = ask[c]
  BY <1>1, <1>2, <1>4
<1> HIDE DEF n
<1>8. /\ Grow /\ \A c \in Calls \ {q} : ask'[c] \in AskRecord /\ SameAsk(c)
  BY <1>1, <1>4, <1>6, <1>7 DEF Grow, SameAsk
<1>9. \A c \in Calls \ {q} :
        AskKnown(c) /\ (ask[c].op \in Buying => ask[c].about \in DOMAIN purchases)
  BY DEF BuyInv, AskKnown
<1>10. \A c \in Calls \ {q} : AskKnown(c)'
  BY <1>6, <1>8, <1>9, AskStays, Verbs
<1>11. AskKnown(q)'
  <2>1. /\ 1 \in 1 .. MaxTries /\ new.unanswered = 1 - 1
    BY <1>3, ProvidersAssumption
  <2>2. a.op \notin Commands /\ a.op # "poll" /\ a.answer # "done" /\ n \in DOMAIN purchases'
    BY <1>2, <1>6, Verbs
  <2> QED BY <1>2, <1>6, <1>7, <2>1, <2>2 DEF AskKnown
<1>12. AsksApart'
  BY <1>2, <1>5, <1>7, <1>8, <1>9, StillApart
<1>13. WireKnown' /\ wire' \subseteq WireRecord
  <2>1. ask[q].op \notin Sent
    BY <1>4, Verbs
  <2>2. Sends(q, wire)
    BY <1>2, <1>4, <1>6, <1>7, Verbs, ProvidersAssumption DEF Sends
  <2> QED BY <1>1, <1>8, <2>1, <2>2, SameWire, WireSends
<1>14. PurchasesKnown'
  BY <1>3, <1>4, <1>5, <1>6 DEF BuyInv, PurchasesKnown
<1>15. ProvidersTypeOK'
  BY <1>1, <1>4, <1>6, <1>7, <1>13 DEF ProvidersTypeOK, Proxy, Bought, WireRecord
<1>16. \A c \in Calls : AskKnown(c)'
  BY <1>10, <1>11
<1> QED BY <1>12, <1>13, <1>14, <1>15, <1>16 DEF BuyInv

\* What Command makes of the calls.
LEMMA CommandAsks ==
  ASSUME ProvidersTypeOK, NEW q \in Calls, NEW op \in Commands, NEW p \in DOMAIN proxies,
         Command(q, op, p)
  PROVE  /\ ask' \in [Calls -> AskRecord]
         /\ ask'[q].op = op /\ ask'[q].about = p /\ ask'[q].try = 1
         /\ ask'[q].answer = "none" /\ ask'[q].found = 0 /\ ask'[q].alone = ~Busy(p)
         /\ \A c \in Calls \ {q} :
              /\ SameAsk(c)
              /\ ask'[c].alone =
                   (ask[c].alone /\ ~(ask[c].op \in Commands /\ ask[c].about = p))
<1> DEFINE a == [op |-> op, about |-> p, try |-> 1, answer |-> "none", found |-> 0,
                 alone |-> ~Busy(p)]
           met(c) == ask[c].alone /\ ~(ask[c].op \in Commands /\ ask[c].about = p)
<1>1. /\ ask \in [Calls -> AskRecord] /\ proxies \in Seq(Proxy)
  BY ProvidersTypes
<1>2. /\ a \in AskRecord /\ a.op = op /\ a.about = p /\ a.try = 1 /\ a.answer = "none"
      /\ a.found = 0 /\ a.alone = ~Busy(p)
  <2>1. p \in Nat /\ 1 \in 0 .. MaxTries /\ op \in {"none", "poll"} \cup Sent
    BY <1>1, Verbs, ProvidersAssumption
  <2> HIDE DEF Busy
  <2> QED BY <2>1 DEF AskRecord
<1>3. ask' = [c \in Calls |-> IF c = q THEN a ELSE [ask[c] EXCEPT !.alone = met(c)]]
  BY DEF Command
<1>4. \A c \in Calls : met(c) \in BOOLEAN /\ ask[c] \in AskRecord
  BY <1>1 DEF AskRecord
<1> HIDE DEF a, met
<1>5. \A c \in Calls :
        LET b == [ask[c] EXCEPT !.alone = met(c)] IN
        /\ b \in AskRecord /\ b.alone = met(c) /\ b.op = ask[c].op /\ b.about = ask[c].about
        /\ b.try = ask[c].try /\ b.answer = ask[c].answer /\ b.found = ask[c].found
  BY <1>4 DEF AskRecord
<1>6. ask'[q] = a /\ \A c \in Calls \ {q} : ask'[c] = [ask[c] EXCEPT !.alone = met(c)]
  BY <1>3
<1>7. ask' \in [Calls -> AskRecord]
  BY <1>2, <1>3, <1>5
<1>8. \A c \in Calls \ {q} : SameAsk(c) /\ ask'[c].alone = met(c)
  BY <1>5, <1>6 DEF SameAsk
<1> QED BY <1>2, <1>6, <1>7, <1>8 DEF met

LEMMA CommandKnown ==
  ASSUME BuyInv, NEW q \in Calls, NEW op \in Commands, NEW p \in DOMAIN proxies,
         Command(q, op, p)
  PROVE  BuyInv'
<1>1. /\ purchases \in Seq(Bought) /\ proxies \in Seq(Proxy) /\ wire \subseteq WireRecord
      /\ ask \in [Calls -> AskRecord] /\ settled \in Seq(ProxyStatuses \cup {"unknown"})
  BY ProvidersTypes DEF BuyInv
<1>2. /\ purchases' = purchases /\ proxies' = proxies /\ ask[q].op = "none"
      /\ settled' = [settled EXCEPT ![p] = IF @ = "deleted" THEN @ ELSE "unknown"]
  BY DEF Command, Free
<1>3. wire' = wire \cup {Posted(q, ask'[q])}
  BY <1>1 DEF Command
<1>4. /\ ask' \in [Calls -> AskRecord]
      /\ ask'[q].op = op /\ ask'[q].about = p /\ ask'[q].try = 1
      /\ ask'[q].answer = "none" /\ ask'[q].found = 0
      /\ \A c \in Calls \ {q} : SameAsk(c)
  BY CommandAsks DEF BuyInv
<1>5. Grow /\ \A c \in Calls \ {q} : ask'[c] \in AskRecord /\ SameAsk(c)
  BY <1>2, <1>4 DEF Grow
<1>6. 1 \in 1 .. MaxTries
  BY ProvidersAssumption
<1>7. \A c \in Calls \ {q} : AskKnown(c)'
  <2>1. \A c \in Calls : AskKnown(c)
    BY DEF BuyInv
  <2> QED BY <1>2, <1>5, <2>1, AskStays
<1>8. AskKnown(q)'
  BY <1>2, <1>4, <1>6, Verbs DEF AskKnown
<1>9. AsksApart'
  BY <1>4, StillApart, Verbs
<1>10. WireKnown' /\ wire' \subseteq WireRecord
  <2>1. ask[q].op \notin Sent
    BY <1>2, Verbs
  <2>2. Sends(q, wire)
    BY <1>2, <1>3, <1>4, <1>6, Verbs DEF Sends
  <2> QED BY <1>1, <1>5, <2>1, <2>2, SameWire, WireSends
<1>11. /\ settled' \in Seq(ProxyStatuses \cup {"unknown"}) /\ Len(settled') = Len(settled)
  <2> DEFINE v == IF settled[p] = "deleted" THEN settled[p] ELSE "unknown"
  <2>1. p \in DOMAIN settled
    BY <1>1 DEF BuyInv, PurchasesKnown
  <2>2. v \in ProxyStatuses \cup {"unknown"}
    BY DEF ProxyStatuses
  <2>3. settled' = [settled EXCEPT ![p] = v]
    BY <1>2
  <2> HIDE DEF v
  <2> QED BY <1>1, <2>1, <2>2, <2>3
<1>12. PurchasesKnown'
  BY <1>2, <1>11 DEF BuyInv, PurchasesKnown
<1>13. ProvidersTypeOK'
  BY <1>1, <1>2, <1>4, <1>10, <1>11 DEF ProvidersTypeOK, Proxy, Bought, WireRecord
<1> QED BY <1>7, <1>8, <1>9, <1>10, <1>12, <1>13 DEF BuyInv

\* What becomes of the purchase of a POST without answer.
LEMMA UnansweredCounts ==
  ASSUME BuyInv, NEW q \in Calls, Unanswered(q)
  PROVE  /\ purchases' \in Seq(Bought) /\ DOMAIN purchases' = DOMAIN purchases
         /\ \A n \in DOMAIN purchases :
              /\ purchases'[n].ref = purchases[n].ref
              /\ purchases'[n].unanswered =
                   IF ask[q].op = "create" /\ n = ask[q].about
                   THEN purchases[n].unanswered + 1 ELSE purchases[n].unanswered
<1>1. /\ purchases \in Seq(Bought) /\ \A n \in DOMAIN purchases : purchases[n] \in Bought
  BY ProvidersTypes DEF BuyInv
<1>2. CASE ask[q].op # "create"
  BY <1>1, <1>2 DEF Unanswered
<1>3. CASE ask[q].op = "create"
  <2> DEFINE m == ask[q].about
             more == [purchases[m] EXCEPT !.unanswered = @ + 1]
  <2>1. AskKnown(q) /\ ask[q].op \in Sent /\ ask[q].op \in Buying
    BY <1>3, Verbs DEF BuyInv
  <2>2. /\ m \in DOMAIN purchases /\ ask[q].try \in 1 .. MaxTries
        /\ purchases[m].unanswered = ask[q].try - 1
    BY <1>3, <2>1 DEF AskKnown
  <2>3. purchases[m].unanswered + 1 \in 0 .. MaxTries /\ purchases[m] \in Bought
    BY <1>1, <2>2, ProvidersAssumption
  <2>4. purchases' = [purchases EXCEPT ![m] = more]
    BY <1>3 DEF Unanswered
  <2> HIDE DEF m
  <2>5. /\ more \in Bought /\ more.ref = purchases[m].ref
        /\ more.unanswered = purchases[m].unanswered + 1
    BY <2>3 DEF Bought
  <2> HIDE DEF more
  <2>6. /\ purchases' \in Seq(Bought) /\ DOMAIN purchases' = DOMAIN purchases
        /\ purchases'[m] = more
        /\ \A n \in DOMAIN purchases : n # m => purchases'[n] = purchases[n]
    BY <1>1, <2>2, <2>4, <2>5
  <2>7. \A n \in DOMAIN purchases :
          /\ purchases'[n].ref = purchases[n].ref
          /\ purchases'[n].unanswered = IF n = m THEN purchases[n].unanswered + 1
                                        ELSE purchases[n].unanswered
    BY <2>5, <2>6
  <2> QED BY <1>3, <2>6, <2>7 DEF m
<1> QED BY <1>2, <1>3

\* A request without answer is sent again, or its call ends.
LEMMA UnansweredAsks ==
  ASSUME BuyInv, NEW q \in Calls, Unanswered(q)
  PROVE  /\ ask' \in [Calls -> AskRecord] /\ ask'[q].answer = "none" /\ ask'[q].found = 0
         /\ \A c \in Calls \ {q} : ask'[c] = ask[c]
         /\ \/ /\ ask'[q].op = ask[q].op /\ ask'[q].about = ask[q].about
               /\ ask'[q].alone = ask[q].alone
               /\ ask'[q].try = ask[q].try + 1 /\ ask'[q].try \in 1 .. MaxTries
               /\ wire' = Unheard(q) \cup {Posted(q, ask'[q])}
            \/ ask'[q].op = "none" /\ wire' = Unheard(q)
<1> DEFINE a == ask[q]
           b == [a EXCEPT !.try = a.try + 1, !.answer = "none", !.found = 0]
<1>1. ask \in [Calls -> AskRecord] /\ a \in AskRecord
  BY ProvidersTypes DEF BuyInv
<1>2. a.op \in Sent /\ a.try \in 1 .. MaxTries
  BY DEF Unanswered, BuyInv, AskKnown
<1>3. \/ a.try < MaxTries /\ ask' = [ask EXCEPT ![q] = b] /\ wire' = Unheard(q) \cup {Posted(q, b)}
      \/ ask' = [ask EXCEPT ![q] = NoAskRecord] /\ wire' = Unheard(q)
  BY DEF Unanswered, Unheard, Forget
<1>4. a.try < MaxTries =>
         /\ b \in AskRecord /\ b.op = a.op /\ b.about = a.about /\ b.alone = a.alone
         /\ b.try = a.try + 1 /\ b.answer = "none" /\ b.found = 0
  BY <1>1, <1>2, SentAgain
<1>5. a.try < MaxTries => a.try + 1 \in 1 .. MaxTries
  BY <1>2, ProvidersAssumption
<1> HIDE DEF b
<1>6. CASE a.try < MaxTries /\ ask' = [ask EXCEPT ![q] = b]
           /\ wire' = Unheard(q) \cup {Posted(q, b)}
  <2>1. ask' \in [Calls -> AskRecord] /\ ask'[q] = b /\ \A c \in Calls \ {q} : ask'[c] = ask[c]
    BY <1>1, <1>4, <1>6
  <2> QED BY <1>4, <1>5, <1>6, <2>1
<1>7. CASE ask' = [ask EXCEPT ![q] = NoAskRecord] /\ wire' = Unheard(q)
  <2>1. /\ ask' \in [Calls -> AskRecord] /\ ask'[q] = NoAskRecord
        /\ \A c \in Calls \ {q} : ask'[c] = ask[c]
    BY <1>1, <1>7, BlankAsk
  <2> QED BY <1>7, <2>1, BlankAsk
<1> QED BY <1>3, <1>6, <1>7

LEMMA UnansweredKnown ==
  ASSUME BuyInv, NEW q \in Calls, Unanswered(q)
  PROVE  BuyInv'
<1>1. /\ proxies \in Seq(Proxy) /\ settled \in Seq(ProxyStatuses \cup {"unknown"})
  BY ProvidersTypes DEF BuyInv
<1>2. proxies' = proxies /\ settled' = settled /\ ask[q].op \in Sent
  BY DEF Unanswered
<1>3. /\ purchases' \in Seq(Bought) /\ DOMAIN purchases' = DOMAIN purchases
      /\ \A n \in DOMAIN purchases :
           /\ purchases'[n].ref = purchases[n].ref
           /\ purchases'[n].unanswered =
                IF ask[q].op = "create" /\ n = ask[q].about
                THEN purchases[n].unanswered + 1 ELSE purchases[n].unanswered
  BY UnansweredCounts
<1>4. /\ ask' \in [Calls -> AskRecord] /\ ask'[q].answer = "none" /\ ask'[q].found = 0
      /\ \A c \in Calls \ {q} : ask'[c] = ask[c]
  BY UnansweredAsks
<1>5. \/ /\ ask'[q].op = ask[q].op /\ ask'[q].about = ask[q].about
         /\ ask'[q].try = ask[q].try + 1 /\ ask'[q].try \in 1 .. MaxTries
         /\ wire' = Unheard(q) \cup {Posted(q, ask'[q])}
      \/ ask'[q].op = "none" /\ wire' = Unheard(q)
  BY UnansweredAsks
<1>6. \A c \in Calls : AskKnown(c)
  BY DEF BuyInv
<1>7. /\ \A c \in Calls \ {q} : SameAsk(c) /\ ask'[c] \in AskRecord
      /\ Grow
  BY <1>2, <1>3, <1>4 DEF SameAsk, Grow
<1>8. \A c \in Calls \ {q} : AskKnown(c)'
  <2> TAKE c \in Calls \ {q}
  <2>1. ask[c].op = "create" => ask[c].about \in DOMAIN purchases
    BY <1>6, Verbs DEF AskKnown
  <2>2. ask[c].op = "create" /\ ask[q].op = "create" => ask[c].about # ask[q].about
    BY Verbs DEF BuyInv, AsksApart
  <2>3. ask[c].op = "create" =>
          purchases'[ask[c].about].unanswered = purchases[ask[c].about].unanswered
    BY <1>3, <2>1, <2>2
  <2> QED BY <1>6, <1>7, <2>3, AskStays
<1>9. AskKnown(q)'
  <2>1. CASE ask'[q].op = "none"
    BY <1>4, <2>1, Verbs DEF AskKnown
  <2>2. CASE /\ ask'[q].op = ask[q].op /\ ask'[q].about = ask[q].about
             /\ ask'[q].try = ask[q].try + 1 /\ ask'[q].try \in 1 .. MaxTries
    <3>1. ask[q].op = "create" =>
            /\ ask[q].about \in DOMAIN purchases
            /\ purchases[ask[q].about].unanswered = ask[q].try - 1
            /\ ask[q].try \in 1 .. MaxTries
      BY <1>2, <1>6, Verbs DEF AskKnown
    <3>2. ask[q].op = "create" => purchases'[ask[q].about].unanswered = ask'[q].try - 1
      <4> SUFFICES ASSUME ask[q].op = "create"
                   PROVE  purchases'[ask[q].about].unanswered = ask'[q].try - 1
        OBVIOUS
      <4>1. ask[q].try \in Int /\ purchases[ask[q].about].unanswered = ask[q].try - 1
        BY <3>1, ProvidersAssumption
      <4>2. purchases'[ask[q].about].unanswered = purchases[ask[q].about].unanswered + 1
        BY <1>3, <3>1
      <4> QED BY <4>1, <4>2, <2>2
    <3>3. ask[q].op # "poll"
      BY <1>2, Verbs
    <3>4. ask[q].op \in Commands => ask[q].about \in DOMAIN proxies
      BY <1>6 DEF AskKnown
    <3>5. ask[q].op \in Buying => ask[q].about \in DOMAIN purchases
      BY <1>6 DEF AskKnown
    <3> QED BY <1>2, <1>3, <1>4, <2>2, <3>2, <3>3, <3>4, <3>5 DEF AskKnown
  <2> QED BY <1>5, <2>1, <2>2
<1>10. AsksApart'
  <2>1. ask'[q].op \in Buying =>
          \A c \in Calls \ {q} : ask[c].op \in Buying => ask[c].about # ask'[q].about
    BY <1>5, Verbs DEF BuyInv, AsksApart
  <2> QED BY <1>4, <1>7, <2>1, StillApart
<1>11. WireKnown' /\ wire' \subseteq WireRecord
  <2>1. /\ Unheard(q) \in SUBSET WireRecord
        /\ \A u \in Unheard(q) :
             /\ q \notin u.waits
             /\ \E w \in wire : /\ u.waits = w.waits \ {q} /\ u.op = w.op
                                /\ u.about = w.about /\ u.try = w.try
    BY UnheardAre DEF BuyInv
  <2>2. \/ Sends(q, Unheard(q)) \/ wire' = Unheard(q)
    <3> SUFFICES ASSUME /\ ask'[q].op = ask[q].op /\ ask'[q].about = ask[q].about
                        /\ ask'[q].try \in 1 .. MaxTries
                        /\ wire' = Unheard(q) \cup {Posted(q, ask'[q])}
                 PROVE  Sends(q, Unheard(q))
      BY <1>5
    <3>1. /\ ask[q].op = "create" => ask[q].about \in DOMAIN purchases
          /\ ask[q].op \in Commands => ask[q].about \in DOMAIN proxies
      BY <1>6, Verbs DEF AskKnown
    <3> QED BY <1>2, <1>3, <1>4, <3>1 DEF Sends
  <2> QED BY <1>7, <2>1, <2>2, WireSends
<1>12. PurchasesKnown'
  BY <1>2, <1>3 DEF BuyInv, PurchasesKnown
<1>13. ProvidersTypeOK'
  BY <1>1, <1>2, <1>3, <1>4, <1>11 DEF ProvidersTypeOK, Proxy, Bought, WireRecord
<1> QED BY <1>8, <1>9, <1>10, <1>11, <1>12, <1>13 DEF BuyInv

\* The answer to a command is heard; a failed or finished call is forgotten.
LEMMA CommandAnsweredKnown ==
  ASSUME BuyInv, NEW q \in Calls, CommandAnswered(q)
  PROVE  BuyInv'
<1> DEFINE a == ask[q]
           p == a.about
           told == /\ a.answer = "done" \/ AlreadyGone(a)
                   /\ a.alone \/ a.op = "Cancel"
           v == IF told /\ settled[p] # "deleted" THEN Result(a.op) ELSE settled[p]
<1>1. /\ proxies \in Seq(Proxy) /\ settled \in Seq(ProxyStatuses \cup {"unknown"})
      /\ Len(settled) = Len(proxies)
  BY ProvidersTypes DEF BuyInv, PurchasesKnown
<1>2. /\ a.op \in Commands /\ a.answer # "none" /\ Forget(q)
      /\ purchases' = purchases /\ proxies' = proxies /\ wire' = wire
      /\ settled' = [settled EXCEPT ![p] = v]
  BY DEF CommandAnswered
<1>3. p \in DOMAIN settled
  BY <1>1, <1>2 DEF BuyInv, AskKnown
<1>4. v \in ProxyStatuses \cup {"unknown"}
  BY <1>1, <1>3 DEF Result, ProxyStatuses
<1> HIDE DEF v, p
<1>5. settled' \in Seq(ProxyStatuses \cup {"unknown"}) /\ Len(settled') = Len(settled)
  BY <1>1, <1>2, <1>3, <1>4
<1> QED BY <1>2, <1>5, ForgetKnown

LEMMA LeavesKnown ==
  ASSUME BuyInv, NEW q \in Calls,
         CreateUnreadable(q) \/ CreateRefused(q) \/ PollFails(q) \/ NoCredentials(q)
  PROVE  BuyInv'
<1>1. /\ Forget(q) /\ wire' = wire /\ proxies' = proxies /\ purchases' = purchases
      /\ settled' = settled
  BY DEF CreateUnreadable, CreateRefused, PollFails, NoCredentials
<1>2. ask[q].answer # "none" \/ ask[q].op \notin Sent
  BY Verbs DEF CreateUnreadable, CreateRefused, PollFails, NoCredentials
<1>3. settled \in Seq(ProxyStatuses \cup {"unknown"})
  BY ProvidersTypes DEF BuyInv
<1> QED BY <1>1, <1>2, <1>3, ForgetKnown

\* The answer to a request reaches the call that waits for it.
LEMMA AnswersWhat ==
  ASSUME ProvidersTypeOK, NEW w \in wire, NEW x \in {"done", "refused"}, NEW f \in Nat,
         Answers(w, x, f)
  PROVE  /\ ask' \in [Calls -> AskRecord]
         /\ \A c \in Calls \cap w.waits :
              /\ ask'[c].op = ask[c].op /\ ask'[c].about = ask[c].about
              /\ ask'[c].alone = ask[c].alone /\ ask'[c].try = ask[c].try
              /\ ask'[c].answer = x /\ ask'[c].found = f
         /\ \A c \in Calls \ w.waits : ask'[c] = ask[c]
<1>1. ask \in [Calls -> AskRecord]
  BY ProvidersTypes
<1> DEFINE b(c) == [ask[c] EXCEPT !.answer = x, !.found = f]
<1>2. \A c \in Calls : /\ b(c) \in AskRecord /\ b(c).op = ask[c].op
                       /\ b(c).about = ask[c].about /\ b(c).alone = ask[c].alone
                       /\ b(c).try = ask[c].try /\ b(c).answer = x /\ b(c).found = f
  <2> TAKE c \in Calls
  <2> DEFINE a == ask[c]
             d == [a EXCEPT !.answer = x]
             e == [d EXCEPT !.found = f]
  <2>1. a \in AskRecord
    BY <1>1
  <2>2. b(c) = e
    OBVIOUS
  <2> HIDE DEF a, b
  <2>3. /\ d \in AskRecord /\ d.op = a.op /\ d.about = a.about /\ d.alone = a.alone
        /\ d.try = a.try /\ d.answer = x
    BY <2>1 DEF AskRecord
  <2> HIDE DEF d
  <2>4. /\ e \in AskRecord /\ e.op = d.op /\ e.about = d.about /\ e.alone = d.alone
        /\ e.try = d.try /\ e.answer = d.answer /\ e.found = f
    BY <2>3 DEF AskRecord
  <2> HIDE DEF e
  <2> QED BY <2>2, <2>3, <2>4 DEF a
<1>3. ask' = [c \in Calls |-> IF c \in w.waits THEN b(c) ELSE ask[c]]
  BY DEF Answers
<1> HIDE DEF b
<1> QED BY <1>1, <1>2, <1>3

\* A request that is served, or refused, was waited for by the call that sent
\* it last, and by nobody else.
LEMMA WaitedFor ==
  ASSUME BuyInv, NEW w \in wire, NEW c \in w.waits
  PROVE  /\ c \in Calls /\ w.waits = {c} /\ w = Posted(c, ask[c])
         /\ ask[c].op = w.op /\ ask[c].about = w.about /\ ask[c].answer = "none"
         /\ w.op \in Sent
         /\ \A u \in wire : c \in u.waits => u = w
<1>1. w \in WireRecord
  BY ProvidersTypes DEF BuyInv
<1>2. \A u \in wire : \A d \in u.waits : u = Posted(d, ask[d]) /\ ask[d].answer = "none"
  BY DEF BuyInv, WireKnown
<1>3. w = Posted(c, ask[c]) /\ ask[c].answer = "none"
  BY <1>2
<1>4. w.waits = {c} /\ w.op = ask[c].op /\ w.about = ask[c].about
  BY <1>3 DEF Posted
<1>5. c \in Calls /\ w.op \in Sent
  BY <1>1 DEF WireRecord
<1> QED BY <1>2, <1>3, <1>4, <1>5

LEMMA WireServed ==
  ASSUME BuyInv, NEW w \in wire, wire' = wire \ {w},
         \A c \in Calls \ w.waits : ask'[c] = ask[c], Grow
  PROVE  WireKnown' /\ wire' \subseteq WireRecord
<1>1. wire \subseteq WireRecord
  BY ProvidersTypes DEF BuyInv
<1>2. ASSUME NEW u \in wire \ {w}
      PROVE  /\ u.op = "create" => u.about \in DOMAIN purchases'
             /\ u.op \in Commands => u.about \in DOMAIN proxies'
             /\ \A c \in u.waits : u = Posted(c, ask'[c]) /\ ask'[c].answer = "none"
  <2>1. /\ u.op = "create" => u.about \in DOMAIN purchases
        /\ u.op \in Commands => u.about \in DOMAIN proxies
        /\ \A c \in u.waits : u = Posted(c, ask[c]) /\ ask[c].answer = "none"
    BY DEF BuyInv, WireKnown
  <2>2. \A c \in u.waits : c \in Calls \ w.waits
    <3> TAKE c \in u.waits
    <3>1. c \in Calls
      BY WaitedFor
    <3>2. c \notin w.waits
      BY WaitedFor
    <3> QED BY <3>1, <3>2
  <2> QED BY <2>1, <2>2 DEF Grow
<1> QED BY <1>1, <1>2 DEF WireKnown, Posted

\* A create is served.
LEMMA ServesCreateKnown ==
  ASSUME BuyInv, NEW w \in wire, Serves(w), w.op = "create"
  PROVE  BuyInv'
<1> DEFINE N == Len(proxies) + 1
<1>1. /\ purchases \in Seq(Bought) /\ proxies \in Seq(Proxy) /\ w \in WireRecord
      /\ ask \in [Calls -> AskRecord] /\ settled \in Seq(ProxyStatuses \cup {"unknown"})
      /\ Len(proxies) \in Nat /\ N \in Nat /\ N # 0
      /\ Len(settled) = Len(proxies)
  BY ProvidersTypes DEF BuyInv, PurchasesKnown
<1>2. PICK s \in {"creating", "running"} :
        proxies' = Append(proxies, [status |-> s, purchase |-> w.about])
  BY Verbs DEF Serves
<1>3. /\ settled' = Append(settled, "unknown") /\ Answers(w, "done", N)
      /\ purchases' = purchases /\ wire' = wire \ {w}
  BY Verbs DEF Serves
<1> DEFINE new == [status |-> s, purchase |-> w.about]
<1>4. new \in Proxy /\ new.purchase = w.about
  BY <1>1 DEF Proxy, ProxyStatuses, WireRecord
<1> HIDE DEF new
<1>5. /\ proxies' \in Seq(Proxy) /\ Len(proxies') = N
      /\ DOMAIN proxies' = DOMAIN proxies \cup {N} /\ N \notin DOMAIN proxies
      /\ proxies'[N] = new /\ \A p \in DOMAIN proxies : proxies'[p] = proxies[p]
  BY <1>1, <1>2, <1>4 DEF new
<1>6. /\ settled' \in Seq(ProxyStatuses \cup {"unknown"}) /\ Len(settled') = N
  BY <1>1, <1>3
<1> HIDE DEF N
<1>7. /\ ask' \in [Calls -> AskRecord]
      /\ \A c \in Calls \cap w.waits :
           /\ ask'[c].op = ask[c].op /\ ask'[c].about = ask[c].about
           /\ ask'[c].try = ask[c].try /\ ask'[c].answer = "done" /\ ask'[c].found = N
      /\ \A c \in Calls \ w.waits : ask'[c] = ask[c]
  BY <1>1, <1>3, AnswersWhat DEF BuyInv
<1>8. Grow
  BY <1>3, <1>5 DEF Grow
<1>9. w.about \in DOMAIN purchases
  BY DEF BuyInv, WireKnown
<1>10. ASSUME NEW c \in Calls PROVE AskKnown(c)'
  <2>1. AskKnown(c)
    BY DEF BuyInv
  <2>2. CASE c \in w.waits
    <3>1. /\ ask[c].op = "create" /\ ask[c].about = w.about
      BY <2>2, WaitedFor
    <3>2. ask[c].try \in 1 .. MaxTries /\ purchases[ask[c].about].unanswered = ask[c].try - 1
      BY <2>1, <3>1, Verbs DEF AskKnown
    <3> QED BY <1>1, <1>3, <1>4, <1>5, <1>7, <1>9, <2>2, <3>1, <3>2, Verbs DEF AskKnown
  <2>3. CASE c \notin w.waits
    <3>1. SameAsk(c)
      BY <1>7, <2>3 DEF SameAsk
    <3> QED BY <1>3, <1>8, <2>1, <3>1, AskStays
  <2> QED BY <2>2, <2>3
<1>11. \A c \in Calls : ask[c].found # 0 => ask[c].found \in DOMAIN proxies
  BY DEF BuyInv, AskKnown
<1>12. AsksApart'
  <2> SUFFICES ASSUME NEW c \in Calls, NEW d \in Calls, c # d
               PROVE  /\ ask'[c].op \in Buying /\ ask'[d].op \in Buying
                         => ask'[c].about # ask'[d].about
                      /\ ask'[c].found = ask'[d].found => ask'[c].found = 0
    BY DEF AsksApart
  <2>1. /\ ask[c].op \in Buying /\ ask[d].op \in Buying => ask[c].about # ask[d].about
        /\ ask[c].found = ask[d].found => ask[c].found = 0
    BY DEF BuyInv, AsksApart
  <2>2. c \in w.waits => d \notin w.waits
    BY WaitedFor
  <2>3. /\ ask'[c].op = ask[c].op /\ ask'[c].about = ask[c].about
        /\ ask'[d].op = ask[d].op /\ ask'[d].about = ask[d].about
    BY <1>7
  <2>4. /\ ask'[c].found = IF c \in w.waits THEN N ELSE ask[c].found
        /\ ask'[d].found = IF d \in w.waits THEN N ELSE ask[d].found
    BY <1>7
  <2> QED BY <1>1, <1>5, <1>11, <2>1, <2>2, <2>3, <2>4
<1>13. WireKnown' /\ wire' \subseteq WireRecord
  BY <1>3, <1>7, <1>8, WireServed
<1>14. PurchasesKnown'
  BY <1>3, <1>4, <1>5, <1>6, <1>9 DEF BuyInv, PurchasesKnown
<1>15. ProvidersTypeOK'
  BY <1>1, <1>3, <1>5, <1>6, <1>7, <1>13 DEF ProvidersTypeOK, Proxy, Bought, WireRecord
<1> QED BY <1>10, <1>12, <1>13, <1>14, <1>15 DEF BuyInv

\* Nothing is served that makes a proxy, and the proxies stay who they are.
LEMMA ServedKnown ==
  ASSUME BuyInv, NEW w \in wire, NEW x \in {"done", "refused"}, Answers(w, x, 0),
         w.op = "create" => x = "refused",
         wire' = wire \ {w}, purchases' = purchases, settled' = settled,
         proxies' \in Seq(Proxy), Len(proxies') = Len(proxies),
         \A p \in DOMAIN proxies : proxies'[p].purchase = proxies[p].purchase
  PROVE  BuyInv'
<1>1. /\ purchases \in Seq(Bought) /\ proxies \in Seq(Proxy)
      /\ ask \in [Calls -> AskRecord] /\ settled \in Seq(ProxyStatuses \cup {"unknown"})
      /\ DOMAIN proxies' = DOMAIN proxies
  BY ProvidersTypes DEF BuyInv
<1>2. /\ ask' \in [Calls -> AskRecord]
      /\ \A c \in Calls \cap w.waits :
           /\ ask'[c].op = ask[c].op /\ ask'[c].about = ask[c].about
           /\ ask'[c].try = ask[c].try /\ ask'[c].answer = x /\ ask'[c].found = 0
      /\ \A c \in Calls \ w.waits : ask'[c] = ask[c]
  BY <1>1, AnswersWhat DEF BuyInv
<1>3. Grow
  BY <1>1 DEF Grow
<1>4. ASSUME NEW c \in Calls PROVE AskKnown(c)'
  <2>1. AskKnown(c)
    BY DEF BuyInv
  <2>2. CASE c \in w.waits
    <3>1. /\ ask[c].op = w.op /\ ask[c].op \in Sent
      BY <2>2, WaitedFor
    <3>2. /\ ask[c].try \in 1 .. MaxTries /\ ask[c].op # "poll"
          /\ ask[c].op = "create" => x # "done"
          /\ ask[c].op \in Buying => ask[c].about \in DOMAIN purchases
          /\ ask[c].op = "create" => purchases[ask[c].about].unanswered = ask[c].try - 1
          /\ ask[c].op \in Commands => ask[c].about \in DOMAIN proxies
      BY <2>1, <3>1, Verbs DEF AskKnown
    <3> QED BY <1>1, <1>2, <2>2, <3>2 DEF AskKnown
  <2>3. CASE c \notin w.waits
    <3>1. SameAsk(c)
      BY <1>2, <2>3 DEF SameAsk
    <3> QED BY <1>3, <2>1, <3>1, AskStays
  <2> QED BY <2>2, <2>3
<1>5. AsksApart'
  <2>1. \A c \in Calls : /\ ask'[c].op = ask[c].op /\ ask'[c].about = ask[c].about
                         /\ ask'[c].found = 0 \/ ask'[c].found = ask[c].found
    BY <1>2
  <2> QED BY <2>1 DEF BuyInv, AsksApart
<1>6. WireKnown' /\ wire' \subseteq WireRecord
  BY <1>2, <1>3, WireServed
<1>7. PurchasesKnown'
  BY <1>1 DEF BuyInv, PurchasesKnown
<1>8. ProvidersTypeOK'
  BY <1>1, <1>2, <1>6 DEF ProvidersTypeOK, Proxy, Bought, WireRecord
<1> QED BY <1>4, <1>5, <1>6, <1>7, <1>8 DEF BuyInv

\* A new status for a proxy.
LEMMA NewStatus ==
  ASSUME ProvidersTypeOK, NEW p \in DOMAIN proxies, NEW s \in ProxyStatuses,
         proxies' = [proxies EXCEPT ![p].status = s]
  PROVE  /\ proxies' \in Seq(Proxy) /\ Len(proxies') = Len(proxies)
         /\ DOMAIN proxies' = DOMAIN proxies
         /\ \A k \in DOMAIN proxies : proxies'[k].purchase = proxies[k].purchase
         /\ proxies'[p].status = s
         /\ \A k \in DOMAIN proxies : k # p => proxies'[k].status = proxies[k].status
<1> DEFINE b == [proxies[p] EXCEPT !.status = s]
<1>1. proxies \in Seq(Proxy) /\ proxies[p] \in Proxy
  BY ProvidersTypes
<1>2. b \in Proxy /\ b.status = s /\ b.purchase = proxies[p].purchase
  BY <1>1 DEF Proxy
<1>3. proxies' = [proxies EXCEPT ![p] = b]
  OBVIOUS
<1> HIDE DEF b
<1>4. /\ proxies' \in Seq(Proxy) /\ Len(proxies') = Len(proxies)
      /\ DOMAIN proxies' = DOMAIN proxies
      /\ proxies'[p] = b /\ \A k \in DOMAIN proxies : k # p => proxies'[k] = proxies[k]
  BY <1>1, <1>2, <1>3
<1> QED BY <1>2, <1>4

\* A command is served.
LEMMA ServesCommandIs ==
  ASSUME BuyInv, NEW w \in wire, Serves(w), w.op # "create"
  PROVE  /\ w.op \in Commands /\ w.about \in DOMAIN proxies
         /\ Accepts(w.op, proxies[w.about].status)
         /\ proxies' = [proxies EXCEPT ![w.about].status = Result(w.op)]
         /\ Result(w.op) \in ProxyStatuses
         /\ Answers(w, "done", 0)
         /\ settled' = settled /\ purchases' = purchases /\ wire' = wire \ {w}
<1>1. /\ w.op \in Commands /\ Accepts(w.op, proxies[w.about].status)
      /\ proxies' = [proxies EXCEPT ![w.about].status = Result(w.op)]
      /\ Answers(w, "done", 0)
      /\ settled' = settled /\ purchases' = purchases /\ wire' = wire \ {w}
  BY DEF Serves
<1>2. w.about \in DOMAIN proxies
  BY <1>1 DEF BuyInv, WireKnown
<1>3. Result(w.op) \in ProxyStatuses
  BY DEF Result, ProxyStatuses
<1> QED BY <1>1, <1>2, <1>3

LEMMA ServesCommandKnown ==
  ASSUME BuyInv, NEW w \in wire, Serves(w), w.op # "create"
  PROVE  BuyInv'
<1>1. ProvidersTypeOK
  BY DEF BuyInv
<1> QED BY <1>1, ServesCommandIs, NewStatus, ServedKnown

LEMMA RefusesKnown ==
  ASSUME BuyInv, NEW w \in wire, Refuses(w)
  PROVE  BuyInv'
<1>1. /\ Answers(w, "refused", 0) /\ wire' = wire \ {w}
      /\ proxies' = proxies /\ purchases' = purchases /\ settled' = settled
  BY DEF Refuses
<1>2. proxies \in Seq(Proxy)
  BY ProvidersTypes DEF BuyInv
<1> QED BY <1>1, <1>2, ServedKnown

LEMMA BootsKnown ==
  ASSUME BuyInv, NEW p \in DOMAIN proxies, Boots(p)
  PROVE  BuyInv'
<1>1. PICK s \in {"running", "error"} : proxies' = [proxies EXCEPT ![p].status = s]
  BY DEF Boots
<1>2. /\ purchases' = purchases /\ ask' = ask /\ wire' = wire /\ settled' = settled
  BY DEF Boots
<1>3. ProvidersTypeOK /\ s \in ProxyStatuses
  BY DEF BuyInv, ProxyStatuses
<1>4. /\ proxies' \in Seq(Proxy) /\ Len(proxies') = Len(proxies)
      /\ DOMAIN proxies' = DOMAIN proxies
      /\ \A k \in DOMAIN proxies : proxies'[k].purchase = proxies[k].purchase
  BY <1>1, <1>3, NewStatus
<1>5. Grow /\ \A c \in Calls : SameAsk(c) /\ AskKnown(c)
  BY <1>2, <1>4 DEF Grow, SameAsk, BuyInv
<1>6. \A c \in Calls : AskKnown(c)'
  BY <1>2, <1>5, AskStays
<1>7. AsksApart'
  BY <1>2 DEF BuyInv, AsksApart
<1>8. WireKnown'
  BY <1>2, <1>4 DEF BuyInv, WireKnown, Posted
<1>9. PurchasesKnown'
  BY <1>2, <1>4 DEF BuyInv, PurchasesKnown
<1>10. ProvidersTypeOK'
  BY <1>2, <1>3, <1>4 DEF ProvidersTypeOK, Proxy
<1> QED BY <1>6, <1>7, <1>8, <1>9, <1>10 DEF BuyInv

LEMMA BuyStutter == BuyInv /\ UNCHANGED providersVars => BuyInv'
BY DEF providersVars, BuyInv, ProvidersTypeOK, AskKnown, AsksApart, WireKnown, Posted,
       PurchasesKnown

LEMMA BuyStep == BuyInv /\ ProvidersNext => BuyInv'
<1> SUFFICES ASSUME BuyInv, ProvidersNext PROVE BuyInv'
  OBVIOUS
<1>1. \/ \E q \in Calls :
           \/ Purchase(q) \/ CreateAnswered(q) \/ CreateUnreadable(q) \/ PollAnswered(q)
           \/ \E op \in Commands, p \in DOMAIN proxies : Command(q, op, p)
           \/ CommandAnswered(q) \/ Unanswered(q)
           \/ CreateRefused(q) \/ PollFails(q) \/ NoCredentials(q)
      \/ \E p \in DOMAIN proxies : Boots(p)
      \/ \E w \in wire : Serves(w) \/ Refuses(w)
  BY DEF ProvidersNext
<1> QED BY <1>1, PurchaseKnown, CreateAnsweredKnown, PollAnsweredKnown, CommandKnown,
           CommandAnsweredKnown, UnansweredKnown, LeavesKnown, BootsKnown,
           ServesCreateKnown, ServesCommandKnown, RefusesKnown

LEMMA BuyStart == ProvidersInit => BuyInv
<1> SUFFICES ASSUME ProvidersInit PROVE BuyInv
  OBVIOUS
<1>1. /\ proxies = <<>> /\ purchases = <<>> /\ wire = {} /\ settled = <<>>
      /\ ask \in [Calls -> AskRecord] /\ \A c \in Calls : ask[c] = NoAskRecord
  BY BlankAsk DEF ProvidersInit
<1>2. \A c \in Calls : AskKnown(c)
  BY <1>1, BlankAsk, Verbs DEF AskKnown
<1>3. AsksApart /\ WireKnown /\ PurchasesKnown
  BY <1>1, BlankAsk, Verbs DEF AsksApart, WireKnown, PurchasesKnown
<1>4. ProvidersTypeOK
  BY <1>1, ProvidersTypes
<1> QED BY <1>2, <1>3, <1>4 DEF BuyInv

LEMMA BuyInvariant == ProvidersSpec => []BuyInv
<1>1. BuyInv /\ [ProvidersNext /\ UNCHANGED workload]_<<providersVars, workload>> => BuyInv'
  BY BuyStep, BuyStutter
<1> QED BY <1>1, BuyStart, PTL DEF ProvidersSpec

-----------------------------------------------------------------------------
(* How many proxies a purchase leaves. *)

\* The POSTs of a purchase that the manager may still serve.
Posts(n) == {w \in wire : w.op = "create" /\ w.about = n}

\* Each POST on the wire and each proxy of a purchase was its first one, or
\* takes the place of one that went unanswered.
Counted(n) == Cardinality(Posts(n)) + Cardinality(ProxiesOf(n)) <= 1 + purchases[n].unanswered

CountInv ==
  /\ IsFiniteSet(wire)
  /\ \A n \in DOMAIN purchases : Counted(n)

\* A set whose members are images of those of a finite one is no larger.
LEMMA Images ==
  ASSUME NEW V, IsFiniteSet(V), NEW U, NEW f, \A u \in U : \E v \in V : u = f[v]
  PROVE  IsFiniteSet(U) /\ Cardinality(U) <= Cardinality(V)
<1> DEFINE W == {v \in V : f[v] \in U}
           g == [v \in W |-> f[v]]
<1>1. /\ IsFiniteSet(W) /\ Cardinality(W) <= Cardinality(V)
      /\ Cardinality(V) \in Nat /\ Cardinality(W) \in Nat
  BY FS_Subset, FS_CardinalityType
<1>2. g \in [W -> U] /\ \A u \in U : \E v \in W : g[v] = u
  OBVIOUS
<1>3. g \in Surjection(W, U)
  BY <1>2 DEF Surjection
<1>4. IsFiniteSet(U) /\ Cardinality(U) <= Cardinality(W)
  BY <1>1, <1>3, FS_Surjection
<1> QED BY <1>1, <1>4, FS_CardinalityType

LEMMA CountTypes ==
  ASSUME BuyInv, IsFiniteSet(wire), NEW n
  PROVE  /\ IsFiniteSet(Posts(n)) /\ Cardinality(Posts(n)) \in Nat
         /\ IsFiniteSet(ProxiesOf(n)) /\ Cardinality(ProxiesOf(n)) \in Nat
         /\ n \in DOMAIN purchases => purchases[n].unanswered \in Nat
<1>1. IsFiniteSet(Posts(n)) /\ Cardinality(Posts(n)) \in Nat
  BY FS_Subset, FS_CardinalityType DEF Posts
<1>2. /\ proxies \in Seq(Proxy)
      /\ \A k \in DOMAIN purchases : purchases[k] \in Bought
  BY ProvidersTypes DEF BuyInv
<1>3. Len(proxies) \in Nat /\ DOMAIN proxies = 1 .. Len(proxies)
  BY <1>2
<1>4. IsFiniteSet(DOMAIN proxies)
  BY <1>3, FS_Interval
<1>5. IsFiniteSet(ProxiesOf(n)) /\ Cardinality(ProxiesOf(n)) \in Nat
  BY <1>4, FS_Subset, FS_CardinalityType DEF ProxiesOf
<1>6. n \in DOMAIN purchases => purchases[n].unanswered \in Nat
  BY <1>2, ProvidersAssumption DEF Bought
<1> QED BY <1>1, <1>5, <1>6

\* No POST and no proxy more, and no answer less.
LEMMA CountedStays ==
  ASSUME BuyInv, CountInv, NEW n \in DOMAIN purchases,
         Posts(n)' \subseteq Posts(n), ProxiesOf(n)' = ProxiesOf(n),
         purchases'[n].unanswered = purchases[n].unanswered
  PROVE  Counted(n)'
<1>1. Counted(n) /\ IsFiniteSet(wire)
  BY DEF CountInv
<1>2. PICK P, Q, R, u : P = Posts(n) /\ Q = Posts(n)' /\ R = ProxiesOf(n)
                        /\ u = purchases[n].unanswered
  OBVIOUS
<1>3. /\ IsFiniteSet(P) /\ Cardinality(P) \in Nat /\ Cardinality(R) \in Nat /\ u \in Nat
  BY <1>1, <1>2, CountTypes
<1>4. Cardinality(Q) <= Cardinality(P) /\ Cardinality(Q) \in Nat
  BY <1>2, <1>3, FS_Subset, FS_CardinalityType
<1>5. Cardinality(P) + Cardinality(R) <= 1 + u
  BY <1>1, <1>2 DEF Counted
<1>6. Cardinality(Q) + Cardinality(R) <= 1 + u
  BY <1>3, <1>4, <1>5
<1>7. Counted(n)' <=> Cardinality(Posts(n)') + Cardinality(ProxiesOf(n)')
                        <= 1 + purchases'[n].unanswered
  BY DEF Counted
<1> QED BY <1>2, <1>6, <1>7

LEMMA CountKept ==
  ASSUME BuyInv, CountInv, IsFiniteSet(wire'), DOMAIN purchases' = DOMAIN purchases,
         \A n \in DOMAIN purchases : purchases'[n].unanswered = purchases[n].unanswered,
         \A w \in wire' : w.op = "create" => w \in wire,
         DOMAIN proxies' = DOMAIN proxies,
         \A p \in DOMAIN proxies : proxies'[p].purchase = proxies[p].purchase
  PROVE  CountInv'
<1>1. ASSUME NEW n \in DOMAIN purchases PROVE Counted(n)'
  <2>1. Posts(n)' \subseteq Posts(n)
    BY DEF Posts
  <2>2. ProxiesOf(n)' = ProxiesOf(n)
    BY DEF ProxiesOf
  <2> QED BY <2>1, <2>2, CountedStays
<1> QED BY <1>1 DEF CountInv

LEMMA PurchaseCounted ==
  ASSUME BuyInv, CountInv, NEW q \in Calls, Purchase(q)
  PROVE  CountInv'
<1>0. PICK n : n = Len(purchases) + 1
  OBVIOUS
<1> DEFINE a == [NoAskRecord EXCEPT !.op = "create", !.about = n, !.try = 1]
           new == [ref |-> 0, unanswered |-> 0]
           x == Posted(q, a)
<1>1. /\ purchases \in Seq(Bought) /\ n \in Nat /\ n \notin DOMAIN purchases
  BY <1>0, ProvidersTypes DEF BuyInv
<1>2. a.op = "create" /\ a.about = n /\ new.unanswered = 0
  BY <1>1, FirstPost
<1>3. x.op = "create" /\ x.about = n
  BY <1>2 DEF Posted
<1>4. /\ purchases' = Append(purchases, new) /\ wire' = wire \cup {x} /\ proxies' = proxies
  BY <1>0 DEF Purchase
<1> HIDE DEF x, a, new
<1>5. /\ DOMAIN purchases' = DOMAIN purchases \cup {n} /\ purchases'[n] = new
      /\ \A k \in DOMAIN purchases : purchases'[k] = purchases[k]
  BY <1>0, <1>1, <1>4
<1>6. IsFiniteSet(wire')
  BY <1>4, FS_AddElement DEF CountInv
<1>7. ASSUME NEW k \in DOMAIN purchases PROVE Counted(k)'
  <2>1. Posts(k)' = Posts(k)
    BY <1>1, <1>3, <1>4 DEF Posts
  <2>2. ProxiesOf(k)' = ProxiesOf(k)
    BY <1>4 DEF ProxiesOf
  <2> QED BY <1>5, <2>1, <2>2, CountedStays
<1>8. Counted(n)'
  <2>1. Posts(n)' = {x}
    BY <1>1, <1>3, <1>4 DEF Posts, BuyInv, WireKnown
  <2>2. ProxiesOf(n)' = {}
    BY <1>1, <1>4 DEF ProxiesOf, BuyInv, PurchasesKnown
  <2>3. Cardinality({x}) = 1 /\ Cardinality({}) = 0
    BY FS_Singleton, FS_EmptySet
  <2>4. Counted(n)' <=> Cardinality(Posts(n)') + Cardinality(ProxiesOf(n)')
                          <= 1 + purchases'[n].unanswered
    BY DEF Counted
  <2> QED BY <1>2, <1>5, <2>1, <2>2, <2>3, <2>4
<1> QED BY <1>5, <1>6, <1>7, <1>8 DEF CountInv

\* The POSTs on the wire, when q waits for none of them any more.
UnheardPosts(q, n) == {u \in Unheard(q) : u.op = "create" /\ u.about = n}

LEMMA UnheardNoMore ==
  ASSUME BuyInv, CountInv, NEW q \in Calls
  PROVE  /\ IsFiniteSet(Unheard(q))
         /\ \A n : /\ IsFiniteSet(UnheardPosts(q, n))
                   /\ Cardinality(UnheardPosts(q, n)) <= Cardinality(Posts(n))
<1> DEFINE f == [w \in wire |-> [w EXCEPT !.waits = @ \ {q}]]
<1>1. wire \subseteq WireRecord /\ IsFiniteSet(wire)
  BY ProvidersTypes DEF BuyInv, CountInv
<1>2. \A u \in Unheard(q) : \E w \in wire : u = f[w]
  BY DEF Unheard
<1>3. \A w \in wire : f[w].op = w.op /\ f[w].about = w.about
  BY <1>1, UnheardIs
<1> HIDE DEF f
<1>4. IsFiniteSet(Unheard(q))
  BY <1>1, <1>2, Images
<1>5. ASSUME NEW n
      PROVE  /\ IsFiniteSet(UnheardPosts(q, n))
             /\ Cardinality(UnheardPosts(q, n)) <= Cardinality(Posts(n))
  <2>1. \A u \in UnheardPosts(q, n) : \E w \in Posts(n) : u = f[w]
    BY <1>2, <1>3 DEF UnheardPosts, Posts
  <2>2. IsFiniteSet(Posts(n))
    BY <1>1, FS_Subset DEF Posts
  <2> QED BY <2>1, <2>2, Images
<1> QED BY <1>4, <1>5

LEMMA UnansweredCounted ==
  ASSUME BuyInv, CountInv, NEW q \in Calls, Unanswered(q)
  PROVE  CountInv'
<1>0. PICK x : x = Posted(q, ask'[q])
  OBVIOUS
<1>1. /\ DOMAIN purchases' = DOMAIN purchases
      /\ \A n \in DOMAIN purchases :
           purchases'[n].unanswered = IF ask[q].op = "create" /\ n = ask[q].about
                                      THEN purchases[n].unanswered + 1
                                      ELSE purchases[n].unanswered
  BY UnansweredCounts
<1>2. \/ /\ ask'[q].op = ask[q].op /\ ask'[q].about = ask[q].about
         /\ wire' = Unheard(q) \cup {x}
      \/ wire' = Unheard(q)
  BY <1>0, UnansweredAsks
<1>3. /\ x.op = ask'[q].op /\ x.about = ask'[q].about
  BY <1>0 DEF Posted
<1>4. proxies' = proxies
  BY DEF Unanswered
<1>5. IsFiniteSet(wire')
  BY <1>2, UnheardNoMore, FS_AddElement
<1>6. ASSUME NEW n \in DOMAIN purchases PROVE Counted(n)'
  <2>1. PICK P, Q, R, U, u : P = Posts(n) /\ Q = Posts(n)' /\ R = ProxiesOf(n)
                             /\ U = UnheardPosts(q, n) /\ u = purchases[n].unanswered
    OBVIOUS
  <2>2. /\ Cardinality(P) \in Nat /\ Cardinality(R) \in Nat /\ u \in Nat
        /\ Cardinality(P) + Cardinality(R) <= 1 + u
    BY <2>1, CountTypes DEF CountInv, Counted
  <2>3. IsFiniteSet(U) /\ Cardinality(U) <= Cardinality(P) /\ Cardinality(U) \in Nat
    BY <2>1, UnheardNoMore, FS_CardinalityType
  <2>4. CASE ask[q].op = "create" /\ n = ask[q].about
    <3>1. Q \subseteq U \cup {x}
      BY <1>2, <2>1 DEF Posts, UnheardPosts
    <3>2. /\ IsFiniteSet(U \cup {x}) /\ Cardinality(U \cup {x}) <= Cardinality(U) + 1
          /\ Cardinality(U \cup {x}) \in Nat
      <4>1. /\ IsFiniteSet(U \cup {x})
            /\ Cardinality(U \cup {x}) = IF x \in U THEN Cardinality(U) ELSE Cardinality(U) + 1
        BY <2>3, FS_AddElement
      <4> QED BY <2>3, <4>1
    <3>3. /\ Cardinality(Q) <= Cardinality(U \cup {x}) /\ Cardinality(Q) \in Nat
      BY <3>1, <3>2, FS_Subset, FS_CardinalityType
    <3>4. purchases'[n].unanswered = u + 1
      BY <1>1, <2>1, <2>4
    <3>5. Cardinality(Q) + Cardinality(R) <= 1 + (u + 1)
      BY <2>2, <2>3, <3>2, <3>3
    <3>6. ProxiesOf(n)' = R
      BY <1>4, <2>1 DEF ProxiesOf
    <3>7. Counted(n)' <=> Cardinality(Posts(n)') + Cardinality(ProxiesOf(n)')
                            <= 1 + purchases'[n].unanswered
      BY DEF Counted
    <3> QED BY <2>1, <3>4, <3>5, <3>6, <3>7
  <2>5. CASE ~(ask[q].op = "create" /\ n = ask[q].about)
    <3>1. Q \subseteq U
      BY <1>2, <1>3, <2>1, <2>5 DEF Posts, UnheardPosts
    <3>2. /\ Cardinality(Q) <= Cardinality(U) /\ Cardinality(Q) \in Nat
      BY <2>3, <3>1, FS_Subset, FS_CardinalityType
    <3>3. purchases'[n].unanswered = u
      BY <1>1, <2>1, <2>5
    <3>4. Cardinality(Q) + Cardinality(R) <= 1 + u
      BY <2>2, <2>3, <3>2
    <3>5. ProxiesOf(n)' = R
      BY <1>4, <2>1 DEF ProxiesOf
    <3>6. Counted(n)' <=> Cardinality(Posts(n)') + Cardinality(ProxiesOf(n)')
                            <= 1 + purchases'[n].unanswered
      BY DEF Counted
    <3> QED BY <2>1, <3>3, <3>4, <3>5, <3>6
  <2> QED BY <2>4, <2>5
<1> QED BY <1>1, <1>5, <1>6 DEF CountInv

LEMMA ServesCreateCounted ==
  ASSUME BuyInv, CountInv, NEW w \in wire, Serves(w), w.op = "create"
  PROVE  CountInv'
<1>1. PICK N : N = Len(proxies) + 1
  OBVIOUS
<1>2. PICK s \in {"creating", "running"} :
        proxies' = Append(proxies, [status |-> s, purchase |-> w.about])
  BY Verbs DEF Serves
<1>3. purchases' = purchases /\ wire' = wire \ {w}
  BY Verbs DEF Serves
<1> DEFINE new == [status |-> s, purchase |-> w.about]
<1>4. new.purchase = w.about /\ proxies \in Seq(Proxy)
  BY ProvidersTypes DEF BuyInv
<1> HIDE DEF new
<1>5. /\ DOMAIN proxies' = DOMAIN proxies \cup {N} /\ N \notin DOMAIN proxies
      /\ proxies'[N] = new /\ \A p \in DOMAIN proxies : proxies'[p] = proxies[p]
  BY <1>1, <1>2, <1>4 DEF new
<1>6. IsFiniteSet(wire')
  BY <1>3, FS_RemoveElement DEF CountInv
<1>7. ASSUME NEW n \in DOMAIN purchases PROVE Counted(n)'
  <2>1. CASE n # w.about
    <3>1. Posts(n)' \subseteq Posts(n)
      BY <1>3 DEF Posts
    <3>2. ProxiesOf(n)' = ProxiesOf(n)
      BY <1>4, <1>5, <2>1 DEF ProxiesOf
    <3> QED BY <1>3, <3>1, <3>2, CountedStays
  <2>2. CASE n = w.about
    <3>1. PICK P, R, u : P = Posts(n) /\ R = ProxiesOf(n) /\ u = purchases[n].unanswered
      OBVIOUS
    <3>2. /\ IsFiniteSet(P) /\ IsFiniteSet(R)
          /\ Cardinality(P) \in Nat /\ Cardinality(R) \in Nat /\ u \in Nat
          /\ Cardinality(P) + Cardinality(R) <= 1 + u
      BY <3>1, CountTypes DEF CountInv, Counted
    <3>3. Posts(n)' = P \ {w} /\ w \in P
      BY <1>3, <2>2, <3>1 DEF Posts
    <3>4. ProxiesOf(n)' = R \cup {N} /\ N \notin R
      BY <1>4, <1>5, <2>2, <3>1 DEF ProxiesOf
    <3>5. /\ Cardinality(P \ {w}) = Cardinality(P) - 1
          /\ Cardinality(R \cup {N}) = Cardinality(R) + 1
      BY <3>2, <3>3, <3>4, FS_RemoveElement, FS_AddElement
    <3>6. Cardinality(P \ {w}) + Cardinality(R \cup {N}) <= 1 + u
      BY <3>2, <3>5
    <3>7. Counted(n)' <=> Cardinality(Posts(n)') + Cardinality(ProxiesOf(n)')
                            <= 1 + purchases'[n].unanswered
      BY DEF Counted
    <3> QED BY <1>3, <3>1, <3>3, <3>4, <3>6, <3>7
  <2> QED BY <2>1, <2>2
<1> QED BY <1>3, <1>6, <1>7 DEF CountInv

\* No other step makes a proxy or sends a POST.
LEMMA OthersCounted ==
  ASSUME BuyInv, CountInv,
         \/ \E q \in Calls :
              \/ CreateAnswered(q) \/ CreateUnreadable(q) \/ CommandAnswered(q)
              \/ CreateRefused(q) \/ PollFails(q) \/ NoCredentials(q)
         \/ \E w \in wire : Refuses(w)
         \/ UNCHANGED providersVars
  PROVE  CountInv'
<1>1. /\ proxies' = proxies /\ purchases' = purchases
      /\ wire' = wire \/ \E w \in wire : wire' = wire \ {w}
  BY DEF CreateAnswered, CreateUnreadable, CommandAnswered, CreateRefused, PollFails,
         NoCredentials, Refuses, providersVars
<1>2. IsFiniteSet(wire')
  BY <1>1, FS_RemoveElement DEF CountInv
<1> QED BY <1>1, <1>2, CountKept

LEMMA PollAnsweredCounted ==
  ASSUME BuyInv, CountInv, NEW q \in Calls, PollAnswered(q)
  PROVE  CountInv'
<1>1. PICK p, n : p = ask[q].found /\ n = ask[q].about
  OBVIOUS
<1>2. purchases' = [purchases EXCEPT ![n].ref = p] /\ proxies' = proxies /\ wire' = wire
  BY <1>1 DEF PollAnswered
<1>3. purchases \in Seq(Bought) /\ \A k \in DOMAIN purchases : purchases[k] \in Bought
  BY ProvidersTypes DEF BuyInv
<1> DEFINE b == [purchases[n] EXCEPT !.ref = p]
<1>4. /\ n \in DOMAIN purchases => b.unanswered = purchases[n].unanswered
      /\ purchases' = [purchases EXCEPT ![n] = b]
  BY <1>2, <1>3 DEF Bought
<1> HIDE DEF b
<1>5. /\ DOMAIN purchases' = DOMAIN purchases
      /\ \A k \in DOMAIN purchases : purchases'[k].unanswered = purchases[k].unanswered
  BY <1>3, <1>4
<1>6. IsFiniteSet(wire')
  BY <1>2 DEF CountInv
<1> QED BY <1>2, <1>5, <1>6, CountKept

LEMMA CommandCounted ==
  ASSUME BuyInv, CountInv, NEW q \in Calls, NEW op \in Commands, NEW p \in DOMAIN proxies,
         Command(q, op, p)
  PROVE  CountInv'
<1>1. purchases' = purchases /\ proxies' = proxies
  BY DEF Command
<1>2. wire' = wire \cup {Posted(q, ask'[q])} /\ ask'[q].op = op
  BY ProvidersTypes, CommandAsks DEF Command, BuyInv
<1>3. Posted(q, ask'[q]).op # "create"
  BY <1>2, Verbs DEF Posted
<1>4. IsFiniteSet(wire')
  BY <1>2, FS_AddElement DEF CountInv
<1> QED BY <1>1, <1>2, <1>3, <1>4, CountKept

LEMMA ServesCommandCounted ==
  ASSUME BuyInv, CountInv, NEW w \in wire, Serves(w), w.op # "create"
  PROVE  CountInv'
<1>1. /\ w.about \in DOMAIN proxies /\ Result(w.op) \in ProxyStatuses
      /\ proxies' = [proxies EXCEPT ![w.about].status = Result(w.op)]
      /\ purchases' = purchases /\ wire' = wire \ {w}
  BY ServesCommandIs
<1>2. /\ DOMAIN proxies' = DOMAIN proxies
      /\ \A k \in DOMAIN proxies : proxies'[k].purchase = proxies[k].purchase
  BY <1>1, NewStatus DEF BuyInv
<1>3. IsFiniteSet(wire')
  BY <1>1, FS_RemoveElement DEF CountInv
<1> QED BY <1>1, <1>2, <1>3, CountKept

LEMMA BootsCounted ==
  ASSUME BuyInv, CountInv, NEW p \in DOMAIN proxies, Boots(p)
  PROVE  CountInv'
<1>1. PICK s \in {"running", "error"} : proxies' = [proxies EXCEPT ![p].status = s]
  BY DEF Boots
<1>2. purchases' = purchases /\ wire' = wire
  BY DEF Boots
<1>3. /\ DOMAIN proxies' = DOMAIN proxies
      /\ \A k \in DOMAIN proxies : proxies'[k].purchase = proxies[k].purchase
  BY <1>1, NewStatus DEF BuyInv, ProxyStatuses
<1>4. IsFiniteSet(wire')
  BY <1>2 DEF CountInv
<1> QED BY <1>2, <1>3, <1>4, CountKept

LEMMA CountStep == BuyInv /\ CountInv /\ ProvidersNext => CountInv'
<1> SUFFICES ASSUME BuyInv, CountInv, ProvidersNext PROVE CountInv'
  OBVIOUS
<1>1. \/ \E q \in Calls :
           \/ Purchase(q) \/ CreateAnswered(q) \/ CreateUnreadable(q) \/ PollAnswered(q)
           \/ \E op \in Commands, p \in DOMAIN proxies : Command(q, op, p)
           \/ CommandAnswered(q) \/ Unanswered(q)
           \/ CreateRefused(q) \/ PollFails(q) \/ NoCredentials(q)
      \/ \E p \in DOMAIN proxies : Boots(p)
      \/ \E w \in wire : Serves(w) \/ Refuses(w)
  BY DEF ProvidersNext
<1> QED BY <1>1, PurchaseCounted, UnansweredCounted, ServesCreateCounted, OthersCounted,
           PollAnsweredCounted, CommandCounted, ServesCommandCounted, BootsCounted

LEMMA CountStart == ProvidersInit => CountInv
BY FS_EmptySet DEF ProvidersInit, CountInv

\* However often its POST is sent again, a purchase leaves one proxy and one
\* more for each POST that went unanswered, and returns one of its own: for any
\* calls, tries and purchases (vpm/client.go:85-115, 168-183).
THEOREM BoughtAlwaysOnce == ProvidersSpec => []BoughtOnce
<1>1. CountInv /\ BuyInv /\ [ProvidersNext /\ UNCHANGED workload]_<<providersVars, workload>>
      => CountInv'
  BY CountStep, OthersCounted
<1>2. CountInv /\ BuyInv => BoughtOnce
  <2> SUFFICES ASSUME CountInv, BuyInv, NEW n \in DOMAIN purchases
               PROVE  /\ Cardinality(ProxiesOf(n)) <= 1 + purchases[n].unanswered
                      /\ purchases[n].ref # 0 => purchases[n].ref \in ProxiesOf(n)
    BY DEF BoughtOnce
  <2>1. purchases[n].ref # 0 => purchases[n].ref \in ProxiesOf(n)
    BY DEF BuyInv, PurchasesKnown, ProxiesOf
  <2>2. /\ Cardinality(Posts(n)) \in Nat /\ Cardinality(ProxiesOf(n)) \in Nat
        /\ purchases[n].unanswered \in Nat /\ Counted(n)
    BY CountTypes DEF CountInv
  <2> QED BY <2>1, <2>2 DEF Counted
<1> QED BY <1>1, <1>2, CountStart, BuyInvariant, PTL DEF ProvidersSpec

-----------------------------------------------------------------------------
(* What the adapter's answers say of a proxy. *)

OnWire(op, p) == \E w \in wire : w.op = op /\ w.about = p
Commanded(c, p) == ask[c].op \in Commands /\ ask[c].about = p

\* A proxy that a purchase has found and not returned yet is nobody else's.
Fresh(q) ==
  LET p == ask[q].found IN
  p # 0 =>
    /\ settled[p] = "unknown"
    /\ \A n \in DOMAIN purchases : purchases[n].ref # p
    /\ \A c \in Calls : ~Commanded(c, p)
    /\ \A op \in Commands : ~OnWire(op, p)

\* While a command is under way nothing is sure of its proxy but a deletion.  If
\* it met no other one, what is left on the wire for the proxy are its own
\* tries; and its effect shows from the time it was done.
Met(q) ==
  LET a == ask[q] IN
  a.op \in Commands =>
    /\ settled[a.about] \in {"unknown", "deleted"}
    /\ a.alone => /\ \A c \in Calls \ {q} : ~Commanded(c, a.about)
                  /\ \A op \in Commands : OnWire(op, a.about) => op = a.op
    /\ a.answer = "done" /\ (a.alone \/ a.op = "Cancel")
         => proxies[a.about].status = Result(a.op)

\* What is sure is so, and no request on the wire can undo it.
Told(p) ==
  /\ settled[p] \in {"unknown", "deleted", "running", "stopped"}
  /\ settled[p] \in {"running", "stopped"} =>
       \A op \in Commands : OnWire(op, p) => Result(op) = settled[p]
  /\ settled[p] \in {"unknown", proxies[p].status}

TruthInv ==
  /\ \A q \in Calls : Fresh(q) /\ Met(q)
  /\ \A p \in DOMAIN proxies : Told(p)

LEMMA Results ==
  /\ Result("Cancel") = "deleted" /\ Result("Suspend") = "stopped"
  /\ Result("Resume") = "running"
  /\ \A op \in Commands : Result(op) = "deleted" => op = "Cancel"
  /\ \A op \in Commands : Result(op) \in {"deleted", "running", "stopped"}
BY DEF Result, Commands

LEMMA BusyIs ==
  \A p : Busy(p) <=> \/ \E c \in Calls : Commanded(c, p)
                     \/ \E op \in Commands : OnWire(op, p)
BY DEF Busy, Commanded, OnWire

\* A call whose proxy there is.
LEMMA AboutProxies ==
  ASSUME BuyInv, NEW c \in Calls
  PROVE  /\ ask[c].op \in Commands => ask[c].about \in DOMAIN proxies
         /\ ask[c].found # 0 => ask[c].found \in DOMAIN proxies
BY DEF BuyInv, AskKnown

LEMMA WireAbout ==
  ASSUME BuyInv, NEW op \in Commands, NEW p, OnWire(op, p)
  PROVE  p \in DOMAIN proxies
BY DEF BuyInv, WireKnown, OnWire

\* Calls end or go on, requests leave the wire or are sent again, and no proxy
\* changes: nothing that is true can become false.
Calm ==
  /\ proxies' = proxies /\ settled' = settled
  /\ \A n \in DOMAIN purchases' :
       purchases'[n].ref = 0 \/ (n \in DOMAIN purchases /\ purchases'[n].ref = purchases[n].ref)
  /\ \A c \in Calls :
       /\ ask'[c].found \in {0, ask[c].found}
       /\ ask'[c].op \in Commands =>
            /\ ask'[c].op = ask[c].op /\ ask'[c].about = ask[c].about
            /\ ask'[c].alone = ask[c].alone
            /\ ask'[c].answer = "done" => ask[c].answer = "done"
  /\ \A u \in wire' : u.op \in Commands =>
       \/ OnWire(u.op, u.about)
       \/ \E c \in Calls : Commanded(c, u.about) /\ ask[c].op = u.op

LEMMA CalmTrue ==
  ASSUME TruthInv, Calm
  PROVE  TruthInv'
<1>1. \A op \in Commands : \A p :
        OnWire(op, p)' => OnWire(op, p) \/ \E c \in Calls : Commanded(c, p) /\ ask[c].op = op
  BY DEF Calm, OnWire
<1>2. \A c \in Calls : \A p : Commanded(c, p)' => Commanded(c, p)
  BY DEF Calm, Commanded
<1>3. proxies' = proxies /\ settled' = settled
  BY DEF Calm
<1>4. \A c \in Calls :
       /\ ask'[c].found \in {0, ask[c].found}
       /\ ask'[c].op \in Commands =>
            /\ ask'[c].op = ask[c].op /\ ask'[c].about = ask[c].about
            /\ ask'[c].alone = ask[c].alone
            /\ ask'[c].answer = "done" => ask[c].answer = "done"
  BY DEF Calm
<1>5. ASSUME NEW q \in Calls PROVE Fresh(q)'
  <2>1. PICK p : p = ask'[q].found
    OBVIOUS
  <2>2. CASE p = 0
    BY <2>1, <2>2 DEF Fresh
  <2>3. CASE p # 0
    <3>1. p = ask[q].found
      BY <1>4, <2>1, <2>3
    <3>2. /\ settled[p] = "unknown"
          /\ \A n \in DOMAIN purchases : purchases[n].ref # p
          /\ \A c \in Calls : ~Commanded(c, p)
          /\ \A op \in Commands : ~OnWire(op, p)
      BY <2>3, <3>1 DEF TruthInv, Fresh
    <3>3. \A n \in DOMAIN purchases' : purchases'[n].ref # p
      BY <2>3, <3>2 DEF Calm
    <3>4. /\ \A c \in Calls : ~Commanded(c, p)'
          /\ \A op \in Commands : ~OnWire(op, p)'
      BY <1>1, <1>2, <3>2
    <3> QED BY <1>3, <2>1, <3>2, <3>3, <3>4 DEF Fresh, Commanded, OnWire
  <2> QED BY <2>2, <2>3
<1>6. ASSUME NEW q \in Calls PROVE Met(q)'
  <2> SUFFICES ASSUME ask'[q].op \in Commands PROVE Met(q)'
    BY DEF Met
  <2>1. PICK p, v : p = ask[q].about /\ v = ask[q].op
    OBVIOUS
  <2>2. /\ ask'[q].op = v /\ ask'[q].about = p /\ ask'[q].alone = ask[q].alone
        /\ ask'[q].answer = "done" => ask[q].answer = "done"
        /\ v \in Commands /\ Commanded(q, p)
    BY <1>4, <2>1 DEF Commanded
  <2>3. /\ settled[p] \in {"unknown", "deleted"}
        /\ ask[q].alone => /\ \A c \in Calls \ {q} : ~Commanded(c, p)
                           /\ \A op \in Commands : OnWire(op, p) => op = v
        /\ ask[q].answer = "done" /\ (ask[q].alone \/ v = "Cancel")
             => proxies[p].status = Result(v)
    BY <2>1, <2>2 DEF TruthInv, Met
  <2>4. ask[q].alone => \A op \in Commands : OnWire(op, p)' => op = v
    BY <1>1, <2>1, <2>3
  <2> QED BY <1>2, <1>3, <2>2, <2>3, <2>4 DEF Met
<1>7. ASSUME NEW p \in DOMAIN proxies PROVE Told(p)'
  <2>1. Told(p)
    BY DEF TruthInv
  <2>2. \A c \in Calls : Commanded(c, p) => settled[p] \in {"unknown", "deleted"}
    BY DEF TruthInv, Met, Commanded
  <2> QED BY <1>1, <1>3, <2>1, <2>2 DEF Told
<1> QED BY <1>3, <1>5, <1>6, <1>7 DEF TruthInv

\* The steps that are calm.
LEMMA CalmPurchase ==
  ASSUME BuyInv, NEW q \in Calls, Purchase(q)
  PROVE  Calm
<1> DEFINE n == Len(purchases) + 1
           a == [NoAskRecord EXCEPT !.op = "create", !.about = n, !.try = 1]
           new == [ref |-> 0, unanswered |-> 0]
<1>1. /\ purchases \in Seq(Bought) /\ ask \in [Calls -> AskRecord] /\ n \in Nat
  BY ProvidersTypes DEF BuyInv
<1>2. a.op = "create" /\ a.found = 0 /\ new.ref = 0
  BY <1>1, FirstPost
<1>3. /\ purchases' = Append(purchases, new) /\ ask' = [ask EXCEPT ![q] = a]
      /\ wire' = wire \cup {Posted(q, a)} /\ proxies' = proxies /\ settled' = settled
  BY DEF Purchase
<1>4. Posted(q, a).op = "create"
  BY <1>2 DEF Posted
<1> HIDE DEF a, new, n
<1>5. \A k \in DOMAIN purchases' :
        purchases'[k].ref = 0 \/ (k \in DOMAIN purchases /\ purchases'[k].ref = purchases[k].ref)
  BY <1>1, <1>2, <1>3
<1>6. \A c \in Calls : ask'[c] = IF c = q THEN a ELSE ask[c]
  BY <1>1, <1>3
<1>7. \A u \in wire' : u.op \in Commands => OnWire(u.op, u.about)
  BY <1>3, <1>4, Verbs DEF OnWire
<1> QED BY <1>2, <1>3, <1>5, <1>6, <1>7, Verbs DEF Calm

\* Only the call of q changes, to one that commands nothing.
LEMMA CalmOne ==
  ASSUME BuyInv, NEW q \in Calls, NEW b, b.op \notin Commands, b.found \in {0, ask[q].found},
         ask' = [ask EXCEPT ![q] = b],
         wire' = wire, proxies' = proxies, purchases' = purchases, settled' = settled
  PROVE  Calm
<1>1. ask \in [Calls -> AskRecord]
  BY ProvidersTypes DEF BuyInv
<1>2. \A c \in Calls : ask'[c] = IF c = q THEN b ELSE ask[c]
  BY <1>1
<1>3. \A u \in wire' : u.op \in Commands => OnWire(u.op, u.about)
  BY DEF OnWire
<1> QED BY <1>2, <1>3 DEF Calm

LEMMA CalmCreateAnswered ==
  ASSUME BuyInv, NEW q \in Calls, CreateAnswered(q)
  PROVE  Calm
<1> DEFINE b == [ask[q] EXCEPT !.op = "poll", !.answer = "none"]
<1>1. ask[q] \in AskRecord
  BY ProvidersTypes DEF BuyInv
<1>2. b.op = "poll" /\ b.found = ask[q].found
  BY <1>1, Polls
<1>3. /\ ask' = [ask EXCEPT ![q] = b]
      /\ wire' = wire /\ proxies' = proxies /\ purchases' = purchases /\ settled' = settled
  BY DEF CreateAnswered
<1> HIDE DEF b
<1> QED BY <1>2, <1>3, CalmOne, Verbs

LEMMA CalmLeaves ==
  ASSUME BuyInv, NEW q \in Calls,
         CreateUnreadable(q) \/ CreateRefused(q) \/ PollFails(q) \/ NoCredentials(q)
  PROVE  Calm
<1>1. /\ ask' = [ask EXCEPT ![q] = NoAskRecord]
      /\ wire' = wire /\ proxies' = proxies /\ purchases' = purchases /\ settled' = settled
  BY DEF CreateUnreadable, CreateRefused, PollFails, NoCredentials, Forget
<1> QED BY <1>1, CalmOne, BlankAsk, Verbs

LEMMA CalmUnanswered ==
  ASSUME BuyInv, NEW q \in Calls, Unanswered(q)
  PROVE  Calm
<1>1. /\ proxies' = proxies /\ settled' = settled
  BY DEF Unanswered
<1>2. /\ DOMAIN purchases' = DOMAIN purchases
      /\ \A n \in DOMAIN purchases : purchases'[n].ref = purchases[n].ref
  BY UnansweredCounts
<1>3. /\ ask'[q].answer = "none" /\ ask'[q].found = 0
      /\ \A c \in Calls \ {q} : ask'[c] = ask[c]
      /\ \/ /\ ask'[q].op = ask[q].op /\ ask'[q].about = ask[q].about
            /\ ask'[q].alone = ask[q].alone
            /\ wire' = Unheard(q) \cup {Posted(q, ask'[q])}
         \/ ask'[q].op = "none" /\ wire' = Unheard(q)
  BY UnansweredAsks
<1>4. \A u \in Unheard(q) : OnWire(u.op, u.about)
  BY UnheardAre DEF OnWire, BuyInv
<1>5. /\ Posted(q, ask'[q]).op = ask'[q].op /\ Posted(q, ask'[q]).about = ask'[q].about
  BY DEF Posted
<1>6. \A u \in wire' : u.op \in Commands =>
       \/ OnWire(u.op, u.about)
       \/ \E c \in Calls : Commanded(c, u.about) /\ ask[c].op = u.op
  BY <1>3, <1>4, <1>5 DEF Commanded
<1>7. \A c \in Calls :
       /\ ask'[c].found \in {0, ask[c].found}
       /\ ask'[c].op \in Commands =>
            /\ ask'[c].op = ask[c].op /\ ask'[c].about = ask[c].about
            /\ ask'[c].alone = ask[c].alone
            /\ ask'[c].answer = "done" => ask[c].answer = "done"
  BY <1>3, Verbs
<1> QED BY <1>1, <1>2, <1>6, <1>7 DEF Calm

LEMMA CalmRefuses ==
  ASSUME BuyInv, NEW w \in wire, Refuses(w)
  PROVE  Calm
<1>1. /\ Answers(w, "refused", 0) /\ wire' = wire \ {w}
      /\ proxies' = proxies /\ purchases' = purchases /\ settled' = settled
  BY DEF Refuses
<1>2. /\ \A c \in Calls \cap w.waits :
           /\ ask'[c].op = ask[c].op /\ ask'[c].about = ask[c].about
           /\ ask'[c].alone = ask[c].alone
           /\ ask'[c].answer = "refused" /\ ask'[c].found = 0
      /\ \A c \in Calls \ w.waits : ask'[c] = ask[c]
  BY <1>1, AnswersWhat DEF BuyInv
<1>3. \A u \in wire' : u.op \in Commands => OnWire(u.op, u.about)
  BY <1>1 DEF OnWire
<1>4. \A c \in Calls :
       /\ ask'[c].found \in {0, ask[c].found}
       /\ ask'[c].op \in Commands =>
            /\ ask'[c].op = ask[c].op /\ ask'[c].about = ask[c].about
            /\ ask'[c].alone = ask[c].alone
            /\ ask'[c].answer = "done" => ask[c].answer = "done"
  BY <1>2
<1> QED BY <1>1, <1>3, <1>4 DEF Calm

LEMMA CalmStutter == UNCHANGED providersVars => Calm
BY DEF providersVars, Calm, OnWire

\* A command begins: what was known of its proxy is taken back.
LEMMA CommandTrue ==
  ASSUME BuyInv, TruthInv, NEW q \in Calls, NEW op \in Commands, NEW p \in DOMAIN proxies,
         Command(q, op, p)
  PROVE  TruthInv'
<1>1. /\ purchases' = purchases /\ proxies' = proxies /\ ask[q].op = "none"
      /\ settled' = [settled EXCEPT ![p] = IF @ = "deleted" THEN @ ELSE "unknown"]
  BY DEF Command, Free
<1>2. wire' = wire \cup {Posted(q, ask'[q])}
  BY ProvidersTypes DEF Command, BuyInv
<1>3. /\ ask'[q].op = op /\ ask'[q].about = p
      /\ ask'[q].answer = "none" /\ ask'[q].found = 0 /\ ask'[q].alone = ~Busy(p)
      /\ \A c \in Calls \ {q} :
           /\ SameAsk(c)
           /\ ask'[c].alone =
                (ask[c].alone /\ ~(ask[c].op \in Commands /\ ask[c].about = p))
  BY CommandAsks DEF BuyInv
<1>4. /\ DOMAIN settled = DOMAIN proxies
      /\ settled'[p] = IF settled[p] = "deleted" THEN "deleted" ELSE "unknown"
      /\ \A k \in DOMAIN proxies \ {p} : settled'[k] = settled[k]
  BY <1>1, ProvidersTypes DEF BuyInv, PurchasesKnown
<1>5. \A v \in Commands : \A k : OnWire(v, k)' <=> OnWire(v, k) \/ (v = op /\ k = p)
  <2> DEFINE x == Posted(q, ask'[q])
  <2>1. x.op = op /\ x.about = p /\ wire' = wire \cup {x}
    BY <1>2, <1>3 DEF Posted
  <2> HIDE DEF x
  <2> QED BY <2>1 DEF OnWire
<1>6. \A c \in Calls : \A k : Commanded(c, k)' <=> Commanded(c, k) \/ (c = q /\ k = p)
  BY <1>1, <1>3, Verbs DEF Commanded, SameAsk
<1>7. p # 0 /\ \E n \in DOMAIN purchases : purchases[n].ref = p
  BY ProvidersTypes DEF Command, BuyInv
<1>8. ASSUME NEW c \in Calls PROVE Fresh(c)'
  <2>1. PICK k : k = ask'[c].found
    OBVIOUS
  <2>2. CASE k = 0
    BY <2>1, <2>2 DEF Fresh
  <2>3. CASE k # 0
    <3>1. c # q /\ k = ask[c].found
      BY <1>3, <2>1, <2>3 DEF SameAsk
    <3>2. /\ settled[k] = "unknown" /\ k \in DOMAIN proxies
          /\ \A n \in DOMAIN purchases : purchases[n].ref # k
          /\ \A d \in Calls : ~Commanded(d, k)
          /\ \A v \in Commands : ~OnWire(v, k)
      BY <2>3, <3>1, AboutProxies DEF TruthInv, Fresh
    <3>3. k # p
      BY <1>7, <3>2
    <3>4. /\ \A d \in Calls : ~Commanded(d, k)'
          /\ \A v \in Commands : ~OnWire(v, k)'
      BY <1>5, <1>6, <3>2, <3>3
    <3> QED BY <1>1, <1>4, <2>1, <3>2, <3>3, <3>4 DEF Fresh, Commanded, OnWire
  <2> QED BY <2>2, <2>3
<1>9. ASSUME NEW c \in Calls PROVE Met(c)'
  <2>1. CASE c = q
    <3>1. settled'[p] \in {"unknown", "deleted"}
      BY <1>4
    <3>2. ask'[q].alone => /\ \A d \in Calls \ {q} : ~Commanded(d, p)'
                           /\ \A v \in Commands : OnWire(v, p)' => v = op
      BY <1>3, <1>5, <1>6, BusyIs
    <3> QED BY <1>3, <2>1, <3>1, <3>2 DEF Met, Commanded, OnWire
  <2>2. CASE c # q
    <3> SUFFICES ASSUME ask'[c].op \in Commands PROVE Met(c)'
      BY DEF Met
    <3>1. PICK k, v : k = ask[c].about /\ v = ask[c].op
      OBVIOUS
    <3>2. /\ ask'[c].op = v /\ ask'[c].about = k /\ ask'[c].answer = ask[c].answer
          /\ ask'[c].alone => ask[c].alone /\ k # p
          /\ v \in Commands /\ Commanded(c, k) /\ k \in DOMAIN proxies
      BY <1>3, <2>2, <3>1, AboutProxies DEF Commanded, SameAsk
    <3>3. /\ settled[k] \in {"unknown", "deleted"}
          /\ ask[c].alone => /\ \A d \in Calls \ {c} : ~Commanded(d, k)
                             /\ \A u \in Commands : OnWire(u, k) => u = v
          /\ ask[c].answer = "done" /\ (ask[c].alone \/ v = "Cancel")
               => proxies[k].status = Result(v)
      BY <3>1, <3>2 DEF TruthInv, Met
    <3>4. settled'[k] \in {"unknown", "deleted"}
      BY <1>4, <3>2, <3>3
    <3>5. ask'[c].alone => /\ \A d \in Calls \ {c} : ~Commanded(d, k)'
                           /\ \A u \in Commands : OnWire(u, k)' => u = v
      BY <1>5, <1>6, <3>2, <3>3
    <3> QED BY <1>1, <3>2, <3>3, <3>4, <3>5 DEF Met, Commanded, OnWire
  <2> QED BY <2>1, <2>2
<1>10. ASSUME NEW k \in DOMAIN proxies PROVE Told(k)'
  <2>1. Told(k)
    BY DEF TruthInv
  <2> QED BY <1>1, <1>4, <1>5, <2>1 DEF Told
<1> QED BY <1>1, <1>8, <1>9, <1>10 DEF TruthInv

\* Where the commands only become fewer, a proxy that a call found and still
\* holds stays its own.
LEMMA FreshStays ==
  ASSUME TruthInv, NEW c \in Calls, NEW k, k # 0, k = ask[c].found, ask'[c].found = k,
         settled'[k] = settled[k],
         \A n \in DOMAIN purchases' :
           purchases'[n].ref = k => n \in DOMAIN purchases /\ purchases[n].ref = k,
         \A v \in Commands : OnWire(v, k)' => OnWire(v, k),
         \A d \in Calls : Commanded(d, k)' => Commanded(d, k)
  PROVE  Fresh(c)'
<1>1. /\ settled[k] = "unknown"
      /\ \A n \in DOMAIN purchases : purchases[n].ref # k
      /\ \A d \in Calls : ~Commanded(d, k)
      /\ \A v \in Commands : ~OnWire(v, k)
  BY DEF TruthInv, Fresh
<1>2. /\ settled'[k] = "unknown"
      /\ \A n \in DOMAIN purchases' : purchases'[n].ref # k
      /\ \A d \in Calls : ~Commanded(d, k)'
      /\ \A v \in Commands : ~OnWire(v, k)'
  BY <1>1
<1> QED BY <1>2 DEF Fresh, Commanded, OnWire

\* The same of a command under way.
LEMMA MetStays ==
  ASSUME TruthInv, NEW c \in Calls, NEW k, NEW v \in Commands,
         k = ask[c].about, v = ask[c].op, ask'[c].op = v, ask'[c].about = k,
         ask'[c].alone = ask[c].alone,
         settled'[k] \in {"unknown", "deleted"},
         \A u \in Commands : OnWire(u, k)' => OnWire(u, k),
         \A d \in Calls : Commanded(d, k)' => Commanded(d, k),
         ask'[c].answer = "done" /\ (ask'[c].alone \/ v = "Cancel")
           => proxies'[k].status = Result(v)
  PROVE  Met(c)'
<1>1. ask[c].alone => /\ \A d \in Calls \ {c} : ~Commanded(d, k)
                      /\ \A u \in Commands : OnWire(u, k) => u = v
  BY DEF TruthInv, Met
<1>2. ask'[c].alone => /\ \A d \in Calls \ {c} : ~Commanded(d, k)'
                       /\ \A u \in Commands : OnWire(u, k)' => u = v
  BY <1>1
<1> QED BY <1>2 DEF Met, Commanded, OnWire

\* What Met says of a command.
LEMMA MetIs ==
  ASSUME BuyInv, TruthInv, NEW c \in Calls, NEW k, Commanded(c, k)
  PROVE  /\ k \in DOMAIN proxies /\ k = ask[c].about /\ ask[c].op \in Commands
         /\ settled[k] \in {"unknown", "deleted"}
         /\ ask[c].alone => /\ \A d \in Calls \ {c} : ~Commanded(d, k)
                            /\ \A u \in Commands : OnWire(u, k) => u = ask[c].op
         /\ ask[c].answer = "done" /\ (ask[c].alone \/ ask[c].op = "Cancel")
              => proxies[k].status = Result(ask[c].op)
BY AboutProxies DEF TruthInv, Met, Commanded

\* The answer to a command is believed.
LEMMA CommandAnsweredTrue ==
  ASSUME BuyInv, TruthInv, NEW q \in Calls, CommandAnswered(q)
  PROVE  TruthInv'
<1> DEFINE a == ask[q]
           told == /\ a.answer = "done" \/ AlreadyGone(a)
                   /\ a.alone \/ a.op = "Cancel"
           v == IF told /\ settled[a.about] # "deleted" THEN Result(a.op) ELSE settled[a.about]
<1>1. PICK p : p = a.about
  OBVIOUS
<1>2. /\ a.op \in Commands /\ purchases' = purchases /\ proxies' = proxies /\ wire' = wire
      /\ settled' = [settled EXCEPT ![p] = v] /\ ask' = [ask EXCEPT ![q] = NoAskRecord]
      /\ Commanded(q, p)
  BY <1>1 DEF CommandAnswered, Forget, Commanded
<1>3. /\ p \in DOMAIN proxies /\ settled[p] \in {"unknown", "deleted"}
      /\ a.alone => /\ \A d \in Calls \ {q} : ~Commanded(d, p)
                    /\ \A u \in Commands : OnWire(u, p) => u = a.op
      /\ a.answer = "done" /\ (a.alone \/ a.op = "Cancel") => proxies[p].status = Result(a.op)
  BY <1>2, MetIs
<1>4. /\ DOMAIN settled = DOMAIN proxies /\ settled'[p] = v
      /\ \A k \in DOMAIN proxies \ {p} : settled'[k] = settled[k]
  BY <1>2, <1>3, ProvidersTypes DEF BuyInv, PurchasesKnown
<1>5. /\ \A c \in Calls \ {q} : ask'[c] = ask[c]
      /\ ask'[q].op = "none" /\ ask'[q].found = 0
  BY <1>2, ProvidersTypes, BlankAsk DEF BuyInv
<1>6. /\ \A u \in Commands : \A k : OnWire(u, k)' => OnWire(u, k)
      /\ \A c \in Calls : \A k : Commanded(c, k)' => Commanded(c, k)
  BY <1>2, <1>5, Verbs DEF OnWire, Commanded
<1>7. \/ v = settled[p]
      \/ /\ v = Result(a.op) /\ proxies[p].status = v
         /\ a.alone \/ a.op = "Cancel"
  <2>1. AlreadyGone(a) => a.op = "Cancel" /\ proxies[p].status = "deleted"
    BY <1>1 DEF AlreadyGone
  <2> QED BY <1>1, <1>3, <2>1, Results
<1>8. PICK x : x = v
  OBVIOUS
<1> HIDE DEF v, told
<1>9. /\ settled'[p] = x
      /\ \/ x = settled[p]
         \/ /\ x = Result(a.op) /\ proxies[p].status = x
            /\ a.alone \/ a.op = "Cancel"
  BY <1>4, <1>7, <1>8
<1>10. ASSUME NEW c \in Calls PROVE Fresh(c)'
  <2>1. CASE ask'[c].found = 0
    BY <2>1 DEF Fresh
  <2>2. CASE ask'[c].found # 0
    <3>1. PICK k : k = ask[c].found
      OBVIOUS
    <3>2. ask'[c].found = k /\ k # 0 /\ ask'[c] = ask[c]
      BY <1>5, <2>2, <3>1
    <3>3. k # p /\ k \in DOMAIN proxies
      BY <1>2, <3>1, <3>2, AboutProxies DEF TruthInv, Fresh
    <3>4. settled'[k] = settled[k]
      BY <1>4, <3>3
    <3> QED BY <1>2, <1>6, <3>1, <3>2, <3>4, FreshStays
  <2> QED BY <2>1, <2>2
<1>11. ASSUME NEW c \in Calls PROVE Met(c)'
  <2> SUFFICES ASSUME ask'[c].op \in Commands PROVE Met(c)'
    BY DEF Met
  <2>1. PICK k, u : k = ask[c].about /\ u = ask[c].op
    OBVIOUS
  <2>2. /\ c # q /\ ask'[c] = ask[c] /\ u \in Commands /\ Commanded(c, k)
    BY <1>5, <2>1, Verbs DEF Commanded
  <2>3. /\ k \in DOMAIN proxies /\ settled[k] \in {"unknown", "deleted"}
        /\ ask[c].answer = "done" /\ (ask[c].alone \/ u = "Cancel")
             => proxies[k].status = Result(u)
    BY <2>1, <2>2, MetIs
  <2>4. settled'[k] \in {"unknown", "deleted"}
    BY <1>3, <1>4, <1>9, <2>2, <2>3, Results
  <2> QED BY <1>2, <1>6, <2>1, <2>2, <2>3, <2>4, MetStays
<1>12. ASSUME NEW k \in DOMAIN proxies PROVE Told(k)'
  <2>1. Told(k)
    BY DEF TruthInv
  <2>2. CASE k # p
    BY <1>2, <1>4, <1>6, <2>1, <2>2 DEF Told
  <2>3. CASE k = p
    <3>1. CASE x = settled[p]
      BY <1>2, <1>6, <1>9, <2>1, <2>3, <3>1 DEF Told
    <3>2. CASE x = Result(a.op) /\ proxies[p].status = x /\ (a.alone \/ a.op = "Cancel")
      <4>1. x \in {"deleted", "running", "stopped"}
        BY <1>2, <3>2, Results
      <4>2. x \in {"running", "stopped"} => \A u \in Commands : OnWire(u, p)' => Result(u) = x
        BY <1>3, <1>6, <3>2, Results
      <4> QED BY <1>2, <1>9, <2>3, <3>2, <4>1, <4>2 DEF Told
    <3> QED BY <1>9, <3>1, <3>2
  <2> QED BY <2>2, <2>3
<1> QED BY <1>2, <1>10, <1>11, <1>12 DEF TruthInv

\* A purchase returns a proxy that nobody else knew.
LEMMA PollAnsweredTrue ==
  ASSUME BuyInv, TruthInv, NEW q \in Calls, PollAnswered(q)
  PROVE  TruthInv'
<1>1. PICK p, n, s : p = ask[q].found /\ n = ask[q].about /\ s = proxies[p].status
  OBVIOUS
<1>2. /\ ask[q].op = "poll" /\ s \notin {"creating", "error"}
      /\ purchases' = [purchases EXCEPT ![n].ref = p]
      /\ settled' = [settled EXCEPT ![p] = s]
      /\ proxies' = proxies /\ wire' = wire /\ ask' = [ask EXCEPT ![q] = NoAskRecord]
  BY <1>1 DEF PollAnswered, Forget
<1>3. p # 0 /\ p \in DOMAIN proxies /\ n \in DOMAIN purchases
  BY <1>1, <1>2, Verbs DEF BuyInv, AskKnown
<1>4. /\ settled[p] = "unknown"
      /\ \A c \in Calls : ~Commanded(c, p)
      /\ \A u \in Commands : ~OnWire(u, p)
  BY <1>1, <1>3 DEF TruthInv, Fresh
<1>5. /\ DOMAIN settled = DOMAIN proxies /\ settled'[p] = s
      /\ \A k \in DOMAIN proxies \ {p} : settled'[k] = settled[k]
      /\ s \in {"running", "stopped", "deleted"}
  <2>1. proxies[p] \in Proxy /\ settled \in Seq(ProxyStatuses \cup {"unknown"})
        /\ proxies \in Seq(Proxy)
    BY <1>3, ProvidersTypes DEF BuyInv
  <2>2. s \in ProxyStatuses
    BY <1>1, <2>1 DEF Proxy
  <2> QED BY <1>2, <1>3, <2>1, <2>2 DEF BuyInv, PurchasesKnown, ProxyStatuses
<1>6. /\ \A c \in Calls \ {q} : ask'[c] = ask[c]
      /\ ask'[q].op = "none" /\ ask'[q].found = 0
  BY <1>2, ProvidersTypes, BlankAsk DEF BuyInv
<1>7. /\ \A u \in Commands : \A k : OnWire(u, k)' => OnWire(u, k)
      /\ \A c \in Calls : \A k : Commanded(c, k)' => Commanded(c, k)
  BY <1>2, <1>6, Verbs DEF OnWire, Commanded
<1>8. \A m \in DOMAIN purchases' :
        m \in DOMAIN purchases /\ (purchases'[m].ref = p \/ purchases'[m].ref = purchases[m].ref)
  <2> DEFINE b == [purchases[n] EXCEPT !.ref = p]
  <2>1. purchases \in Seq(Bought) /\ purchases[n] \in Bought
    BY <1>3, ProvidersTypes DEF BuyInv
  <2>2. b.ref = p /\ purchases' = [purchases EXCEPT ![n] = b]
    BY <1>2, <2>1 DEF Bought
  <2> HIDE DEF b
  <2> QED BY <1>3, <2>1, <2>2
<1>9. ASSUME NEW c \in Calls PROVE Fresh(c)'
  <2>1. CASE ask'[c].found = 0
    BY <2>1 DEF Fresh
  <2>2. CASE ask'[c].found # 0
    <3>1. PICK k : k = ask[c].found
      OBVIOUS
    <3>2. ask'[c].found = k /\ k # 0 /\ c # q
      BY <1>6, <2>2, <3>1
    <3>3. k # p /\ k \in DOMAIN proxies
      BY <1>1, <3>1, <3>2, AboutProxies DEF BuyInv, AsksApart
    <3>4. settled'[k] = settled[k]
      BY <1>5, <3>3
    <3>5. \A m \in DOMAIN purchases' :
            purchases'[m].ref = k => m \in DOMAIN purchases /\ purchases[m].ref = k
      BY <1>8, <3>3
    <3> QED BY <1>7, <3>1, <3>2, <3>4, <3>5, FreshStays
  <2> QED BY <2>1, <2>2
<1>10. ASSUME NEW c \in Calls PROVE Met(c)'
  <2> SUFFICES ASSUME ask'[c].op \in Commands PROVE Met(c)'
    BY DEF Met
  <2>1. PICK k, u : k = ask[c].about /\ u = ask[c].op
    OBVIOUS
  <2>2. /\ c # q /\ ask'[c] = ask[c] /\ u \in Commands /\ Commanded(c, k)
    BY <1>6, <2>1, Verbs DEF Commanded
  <2>3. /\ k \in DOMAIN proxies /\ settled[k] \in {"unknown", "deleted"} /\ k # p
        /\ ask[c].answer = "done" /\ (ask[c].alone \/ u = "Cancel")
             => proxies[k].status = Result(u)
    BY <1>4, <2>1, <2>2, MetIs
  <2>4. settled'[k] \in {"unknown", "deleted"}
    BY <1>5, <2>3
  <2> QED BY <1>2, <1>7, <2>1, <2>2, <2>3, <2>4, MetStays
<1>11. ASSUME NEW k \in DOMAIN proxies PROVE Told(k)'
  <2>1. Told(k)
    BY DEF TruthInv
  <2>2. CASE k # p
    BY <1>2, <1>5, <1>7, <2>1, <2>2 DEF Told
  <2>3. CASE k = p
    BY <1>1, <1>2, <1>4, <1>5, <1>7, <2>3 DEF Told
  <2> QED BY <2>2, <2>3
<1> QED BY <1>2, <1>9, <1>10, <1>11 DEF TruthInv

\* A proxy is made, of which nobody knew.
LEMMA ServesCreateTrue ==
  ASSUME BuyInv, TruthInv, NEW w \in wire, Serves(w), w.op = "create"
  PROVE  TruthInv'
<1>1. PICK N : N = Len(proxies) + 1
  OBVIOUS
<1>2. /\ proxies \in Seq(Proxy) /\ settled \in Seq(ProxyStatuses \cup {"unknown"})
      /\ Len(settled) = Len(proxies) /\ Len(proxies) \in Nat
  BY ProvidersTypes DEF BuyInv, PurchasesKnown
<1>3. PICK s \in {"creating", "running"} :
        proxies' = Append(proxies, [status |-> s, purchase |-> w.about])
  BY Verbs DEF Serves
<1>4. /\ settled' = Append(settled, "unknown") /\ Answers(w, "done", N)
      /\ purchases' = purchases /\ wire' = wire \ {w}
  BY <1>1, Verbs DEF Serves
<1>5. /\ N \in Nat /\ N # 0 /\ N \notin DOMAIN proxies
      /\ DOMAIN proxies' = DOMAIN proxies \cup {N}
      /\ \A k \in DOMAIN proxies : proxies'[k] = proxies[k] /\ settled'[k] = settled[k]
      /\ settled'[N] = "unknown"
  BY <1>1, <1>2, <1>3, <1>4
<1>6. /\ \A c \in Calls \cap w.waits :
           ask'[c].op = ask[c].op /\ ask'[c].about = ask[c].about /\ ask'[c].found = N
      /\ \A c \in Calls \ w.waits : ask'[c] = ask[c]
  BY <1>4, <1>5, AnswersWhat DEF BuyInv
<1>7. /\ \A u \in Commands : \A k : OnWire(u, k)' => OnWire(u, k)
      /\ \A c \in Calls : \A k : Commanded(c, k)' => Commanded(c, k)
  BY <1>4, <1>6 DEF OnWire, Commanded
<1>8. ASSUME NEW c \in Calls PROVE Fresh(c)'
  <2>1. CASE c \in w.waits
    <3>1. \A m \in DOMAIN purchases : purchases[m].ref # N
      BY <1>5 DEF BuyInv, PurchasesKnown
    <3>2. \A d \in Calls : ~Commanded(d, N)
      BY <1>5, AboutProxies DEF Commanded
    <3>3. \A u \in Commands : ~OnWire(u, N)
      BY <1>5, WireAbout
    <3>4. /\ \A d \in Calls : ~Commanded(d, N)'
          /\ \A u \in Commands : ~OnWire(u, N)'
      BY <1>7, <3>2, <3>3
    <3>5. ask'[c].found = N
      BY <1>6, <2>1
    <3> QED BY <1>4, <1>5, <3>1, <3>4, <3>5 DEF Fresh, Commanded, OnWire
  <2>2. CASE c \notin w.waits /\ ask[c].found = 0
    BY <1>6, <2>2 DEF Fresh
  <2>3. CASE c \notin w.waits /\ ask[c].found # 0
    <3>1. PICK k : k = ask[c].found
      OBVIOUS
    <3>2. ask'[c].found = k /\ k # 0 /\ k \in DOMAIN proxies
      BY <1>6, <2>3, <3>1, AboutProxies
    <3>3. settled'[k] = settled[k]
      BY <1>5, <3>2
    <3> QED BY <1>4, <1>7, <3>1, <3>2, <3>3, FreshStays
  <2> QED BY <2>1, <2>2, <2>3
<1>9. ASSUME NEW c \in Calls PROVE Met(c)'
  <2> SUFFICES ASSUME ask'[c].op \in Commands PROVE Met(c)'
    BY DEF Met
  <2>1. PICK k, u : k = ask[c].about /\ u = ask[c].op
    OBVIOUS
  <2>2. c \notin w.waits
    BY <1>6, WaitedFor, Verbs
  <2>3. ask'[c] = ask[c] /\ u \in Commands /\ Commanded(c, k)
    BY <1>6, <2>1, <2>2 DEF Commanded
  <2>4. /\ k \in DOMAIN proxies /\ settled[k] \in {"unknown", "deleted"}
        /\ ask[c].answer = "done" /\ (ask[c].alone \/ u = "Cancel")
             => proxies[k].status = Result(u)
    BY <2>1, <2>3, MetIs
  <2>5. /\ settled'[k] \in {"unknown", "deleted"} /\ proxies'[k] = proxies[k]
    BY <1>5, <2>4
  <2> QED BY <1>7, <2>1, <2>3, <2>4, <2>5, MetStays
<1>10. ASSUME NEW k \in DOMAIN proxies' PROVE Told(k)'
  <2>1. CASE k \in DOMAIN proxies
    <3>1. Told(k)
      BY <2>1 DEF TruthInv
    <3> QED BY <1>5, <1>7, <2>1, <3>1 DEF Told
  <2>2. CASE k = N
    BY <1>5, <2>2 DEF Told
  <2> QED BY <1>5, <2>1, <2>2
<1> QED BY <1>8, <1>9, <1>10 DEF TruthInv

\* A command is obeyed: what was sure of the proxy already says so, and a
\* deleted proxy obeys none.
LEMMA ServesCommandTrue ==
  ASSUME BuyInv, TruthInv, NEW w \in wire, Serves(w), w.op # "create"
  PROVE  TruthInv'
<1>1. PICK p, op : p = w.about /\ op = w.op
  OBVIOUS
<1>2. /\ op \in Commands /\ p \in DOMAIN proxies /\ Accepts(op, proxies[p].status)
      /\ proxies' = [proxies EXCEPT ![p].status = Result(op)] /\ Result(op) \in ProxyStatuses
      /\ Answers(w, "done", 0)
      /\ settled' = settled /\ purchases' = purchases /\ wire' = wire \ {w}
  BY <1>1, ServesCommandIs
<1>3. /\ DOMAIN proxies' = DOMAIN proxies /\ proxies'[p].status = Result(op)
      /\ \A k \in DOMAIN proxies : k # p => proxies'[k].status = proxies[k].status
  BY <1>2, NewStatus DEF BuyInv
<1>4. proxies[p].status # "deleted"
  BY <1>2 DEF Accepts
<1>5. /\ \A c \in Calls \cap w.waits :
           /\ ask'[c].op = ask[c].op /\ ask'[c].about = ask[c].about
           /\ ask'[c].alone = ask[c].alone /\ ask'[c].found = 0
      /\ \A c \in Calls \ w.waits : ask'[c] = ask[c]
  BY <1>2, AnswersWhat DEF BuyInv
<1>6. /\ \A u \in Commands : \A k : OnWire(u, k)' => OnWire(u, k)
      /\ \A c \in Calls : \A k : Commanded(c, k)' => Commanded(c, k)
      /\ OnWire(op, p)
  BY <1>1, <1>2, <1>5 DEF OnWire, Commanded
<1>7. ASSUME NEW c \in Calls PROVE Fresh(c)'
  <2>1. CASE ask'[c].found = 0
    BY <2>1 DEF Fresh
  <2>2. CASE ask'[c].found # 0
    <3>1. PICK k : k = ask[c].found
      OBVIOUS
    <3>2. ask'[c].found = k /\ k # 0
      BY <1>5, <2>2, <3>1
    <3> QED BY <1>2, <1>6, <3>1, <3>2, FreshStays
  <2> QED BY <2>1, <2>2
<1>8. ASSUME NEW c \in Calls PROVE Met(c)'
  <2> SUFFICES ASSUME ask'[c].op \in Commands PROVE Met(c)'
    BY DEF Met
  <2>1. PICK k, u : k = ask[c].about /\ u = ask[c].op
    OBVIOUS
  <2>2. /\ ask'[c].op = u /\ ask'[c].about = k /\ ask'[c].alone = ask[c].alone
        /\ u \in Commands /\ Commanded(c, k)
    BY <1>5, <2>1 DEF Commanded
  <2>3. /\ k \in DOMAIN proxies /\ settled[k] \in {"unknown", "deleted"}
        /\ ask[c].alone => \A v \in Commands : OnWire(v, k) => v = u
        /\ ask[c].answer = "done" /\ (ask[c].alone \/ u = "Cancel")
             => proxies[k].status = Result(u)
    BY <2>1, <2>2, MetIs
  <2>4. ask'[c].answer = "done" /\ (ask'[c].alone \/ u = "Cancel")
          => proxies'[k].status = Result(u)
    <3>1. CASE c \in w.waits
      <4>1. u = op /\ k = p
        BY <1>1, <2>1, <3>1, WaitedFor
      <4> QED BY <1>3, <4>1
    <3>2. CASE c \notin w.waits
      <4>1. ask'[c] = ask[c]
        BY <1>5, <3>2
      <4>2. CASE k # p
        BY <1>3, <2>3, <4>1, <4>2
      <4>3. CASE k = p
        BY <1>2, <1>3, <1>4, <1>6, <2>3, <4>1, <4>3, Results
      <4> QED BY <4>2, <4>3
    <3> QED BY <3>1, <3>2
  <2> QED BY <1>2, <1>6, <2>1, <2>2, <2>3, <2>4, MetStays
<1>9. ASSUME NEW k \in DOMAIN proxies PROVE Told(k)'
  <2>1. Told(k)
    BY DEF TruthInv
  <2>2. CASE k # p
    BY <1>2, <1>3, <1>6, <2>1, <2>2 DEF Told
  <2>3. CASE k = p
    BY <1>2, <1>3, <1>4, <1>6, <2>1, <2>3 DEF Told
  <2> QED BY <2>2, <2>3
<1> QED BY <1>3, <1>7, <1>8, <1>9 DEF TruthInv

\* A proxy that starts, or fails to, is one of which nothing was sure.
LEMMA BootsTrue ==
  ASSUME BuyInv, TruthInv, NEW p \in DOMAIN proxies, Boots(p)
  PROVE  TruthInv'
<1>1. PICK s \in {"running", "error"} : proxies' = [proxies EXCEPT ![p].status = s]
  BY DEF Boots
<1>2. /\ purchases' = purchases /\ ask' = ask /\ wire' = wire /\ settled' = settled
      /\ proxies[p].status = "creating"
  BY DEF Boots
<1>3. /\ DOMAIN proxies' = DOMAIN proxies
      /\ \A k \in DOMAIN proxies : k # p => proxies'[k].status = proxies[k].status
  BY <1>1, NewStatus DEF BuyInv, ProxyStatuses
<1>4. \A c \in Calls : Fresh(c)'
  BY <1>2 DEF TruthInv, Fresh, OnWire, Commanded
<1>5. ASSUME NEW c \in Calls PROVE Met(c)'
  <2> SUFFICES ASSUME ask[c].op \in Commands PROVE Met(c)'
    BY <1>2 DEF Met
  <2>1. PICK k, u : k = ask[c].about /\ u = ask[c].op
    OBVIOUS
  <2>2. Commanded(c, k) /\ u \in Commands
    BY <2>1 DEF Commanded
  <2>3. /\ k \in DOMAIN proxies /\ settled[k] \in {"unknown", "deleted"}
        /\ ask[c].answer = "done" /\ (ask[c].alone \/ u = "Cancel")
             => proxies[k].status = Result(u)
    BY <2>1, <2>2, MetIs
  <2>4. ask[c].answer = "done" /\ (ask[c].alone \/ u = "Cancel") => k # p
    BY <1>2, <2>2, <2>3, Results
  <2>5. /\ \A v \in Commands : OnWire(v, k)' => OnWire(v, k)
        /\ \A d \in Calls : Commanded(d, k)' => Commanded(d, k)
    BY <1>2 DEF OnWire, Commanded
  <2> QED BY <1>2, <1>3, <2>1, <2>2, <2>3, <2>4, <2>5, MetStays
<1>6. ASSUME NEW k \in DOMAIN proxies PROVE Told(k)'
  <2>1. Told(k)
    BY DEF TruthInv
  <2>2. k = p => settled[k] = "unknown"
    BY <1>2, <2>1 DEF Told
  <2> QED BY <1>2, <1>3, <2>1, <2>2 DEF Told, OnWire
<1> QED BY <1>3, <1>4, <1>5, <1>6 DEF TruthInv

LEMMA TruthStep == BuyInv /\ TruthInv /\ ProvidersNext => TruthInv'
<1> SUFFICES ASSUME BuyInv, TruthInv, ProvidersNext PROVE TruthInv'
  OBVIOUS
<1>1. \/ \E q \in Calls :
           \/ Purchase(q) \/ CreateAnswered(q) \/ CreateUnreadable(q) \/ PollAnswered(q)
           \/ \E op \in Commands, p \in DOMAIN proxies : Command(q, op, p)
           \/ CommandAnswered(q) \/ Unanswered(q)
           \/ CreateRefused(q) \/ PollFails(q) \/ NoCredentials(q)
      \/ \E p \in DOMAIN proxies : Boots(p)
      \/ \E w \in wire : Serves(w) \/ Refuses(w)
  BY DEF ProvidersNext
<1>2. \A q \in Calls :
        \/ Purchase(q) \/ CreateAnswered(q) \/ CreateUnreadable(q) \/ Unanswered(q)
        \/ CreateRefused(q) \/ PollFails(q) \/ NoCredentials(q)
        => Calm
  BY CalmPurchase, CalmCreateAnswered, CalmUnanswered, CalmLeaves
<1>3. \A w \in wire : Refuses(w) => Calm
  BY CalmRefuses
<1> QED BY <1>1, <1>2, <1>3, CalmTrue, PollAnsweredTrue, CommandTrue, CommandAnsweredTrue,
           BootsTrue, ServesCreateTrue, ServesCommandTrue

LEMMA TruthStart == ProvidersInit => TruthInv
<1> SUFFICES ASSUME ProvidersInit PROVE TruthInv
  OBVIOUS
<1>1. proxies = <<>> /\ \A c \in Calls : ask[c] = NoAskRecord
  BY DEF ProvidersInit
<1> QED BY <1>1, BlankAsk, Verbs DEF TruthInv, Fresh, Met

\* What Purchase, Cancel, Suspend and Resume report is so until the next
\* command, unless another one met them; and a cancelled proxy is gone for
\* good: for any calls, tries and losses on the wire (vpm/adapter.go:200-233).
THEOREM AnswersAlwaysTrue == ProvidersSpec => []AnswersTrue
<1>1. TruthInv /\ BuyInv /\ [ProvidersNext /\ UNCHANGED workload]_<<providersVars, workload>>
      => TruthInv'
  BY TruthStep, CalmStutter, CalmTrue
<1>2. TruthInv => AnswersTrue
  BY DEF TruthInv, Told, AnswersTrue
<1> QED BY <1>1, <1>2, TruthStart, BuyInvariant, PTL DEF ProvidersSpec
-----------------------------------------------------------------------------
(* log-service. *)

LogRow == [user: Members \cup {NoUserID}, event: DOMAIN stream]
Consumer == [step: {"idle", "built", "stored", "sent", "stopped"}, event: Nat]

\* The consumer is at an event that there is.  One that it has not stored has
\* a delivery more than rows; one that it just stored has the last row.
ConsumerAt ==
  /\ consumer.step \in {"built", "stored", "sent"} => consumer.event \in DOMAIN stream
  /\ consumer.step = "built" =>
       Cardinality(EntriesOf(consumer.event)) + 1 <= MaxDeliver - stream[consumer.event].left
  /\ consumer.step \in {"stored", "sent"} =>
       /\ Len(entries) > 0
       /\ entries[Len(entries)].event = consumer.event

\* An event that may be delivered has a delivery left.
DueLeft == \A i \in DOMAIN stream : stream[i].state = "due" => stream[i].left > 0

\* The rows of an event.
RowsOf(i) ==
  /\ stream[i].state = "acked" => EntriesOf(i) # {}
  /\ Cardinality(EntriesOf(i)) <= MaxDeliver - stream[i].left

\* What a client sees and got is in the log, and not kept from it.
Sees(c) ==
  \A n : n \in c.got \/ (\E k \in DOMAIN c.send : n = c.send[k]) =>
    n \in DOMAIN entries /\ Allowed(c, entries[n])

LogsInv ==
  /\ LogsTypeOK
  /\ DueLeft
  /\ ConsumerAt
  /\ \A i \in DOMAIN stream : RowsOf(i)
  /\ \A k \in DOMAIN clients : Sees(clients[k])

LEMMA LogsTypes ==
  LogsTypeOK <=> /\ stream \in Seq(Event) /\ consumer \in Consumer
                 /\ entries \in Seq(LogRow) /\ clients \in Seq(Client)
BY DEF LogsTypeOK, Consumer, LogRow

LEMMA SeqLarger ==
  ASSUME NEW S, NEW T, S \subseteq T, NEW s \in Seq(S)
  PROVE  s \in Seq(T)
OBVIOUS

LEMMA RowsFinite ==
  ASSUME LogsTypeOK, NEW i
  PROVE  IsFiniteSet(EntriesOf(i)) /\ Cardinality(EntriesOf(i)) \in Nat
<1>1. Len(entries) \in Nat /\ DOMAIN entries = 1 .. Len(entries)
  BY LogsTypes
<1>2. IsFiniteSet(DOMAIN entries)
  BY <1>1, FS_Interval
<1> QED BY <1>2, FS_Subset, FS_CardinalityType DEF EntriesOf

\* Events of the stream and what becomes of them.
LEMMA OneDelivered ==
  ASSUME NEW e \in Event, e.left > 0
  PROVE  LET d == [e EXCEPT !.state = "out", !.left = @ - 1] IN
         d \in Event /\ d.state = "out" /\ d.left = e.left - 1
<1> DEFINE b == [e EXCEPT !.state = "out"]
           d == [b EXCEPT !.left = e.left - 1]
<1>1. b \in Event /\ b.state = "out" /\ b.left = e.left /\ e.left - 1 \in 0 .. MaxDeliver
  BY LogsAssumption DEF Event
<1> HIDE DEF b
<1>2. d \in Event /\ d.state = b.state /\ d.left = e.left - 1
  BY <1>1 DEF Event
<1>3. d = [e EXCEPT !.state = "out", !.left = @ - 1]
  BY <1>1 DEF b
<1> HIDE DEF d
<1> QED BY <1>1, <1>2, <1>3

LEMMA ComesBack ==
  ASSUME NEW e \in Event
  PROVE  /\ Returned(e) \in Event /\ Returned(e).left = e.left
         /\ Returned(e).state # "acked"
         /\ Returned(e).state = "due" => e.left > 0
BY DEF Event, Returned

\* A step that leaves the rows, the consumer and the clients alone, and of the
\* stream changes one event, which it does not acknowledge.
LEMMA StreamOnly ==
  ASSUME LogsInv, NEW i \in DOMAIN stream, NEW e \in Event,
         stream' = [stream EXCEPT ![i] = e], e.left = stream[i].left, e.state # "acked",
         e.state = "due" => e.left > 0
  PROVE  /\ stream' \in Seq(Event) /\ DOMAIN stream' = DOMAIN stream /\ DueLeft'
         /\ \A j \in DOMAIN stream : /\ stream'[j].left = stream[j].left
                                     /\ stream'[j].state = "acked" => stream[j].state = "acked"
<1>1. stream \in Seq(Event)
  BY LogsTypes DEF LogsInv
<1>2. /\ stream' \in Seq(Event) /\ DOMAIN stream' = DOMAIN stream
      /\ stream'[i] = e /\ \A j \in DOMAIN stream : j # i => stream'[j] = stream[j]
  BY <1>1
<1> QED BY <1>2 DEF LogsInv, DueLeft

\* The log and the deliveries stay as they are; the consumer may lose its event.
LEMMA RowsStay ==
  ASSUME LogsInv, stream' \in Seq(Event), DOMAIN stream' = DOMAIN stream, DueLeft',
         \A j \in DOMAIN stream : /\ stream'[j].left = stream[j].left
                                  /\ stream'[j].state = "acked" => EntriesOf(j) # {},
         entries' = entries, clients' = clients,
         consumer' = consumer \/ (consumer' \in Consumer /\ consumer'.step \in {"idle", "stopped"})
  PROVE  LogsInv'
<1>1. LogsTypeOK'
  BY LogsTypes DEF LogsInv, LogsTypeOK, Consumer, LogRow
<1>2. \A j \in DOMAIN stream : RowsOf(j)'
  BY DEF LogsInv, RowsOf, EntriesOf
<1>3. ConsumerAt'
  BY DEF LogsInv, ConsumerAt, EntriesOf
<1>4. \A k \in DOMAIN clients : Sees(clients[k])
  BY DEF LogsInv
<1>5. (\A k \in DOMAIN clients : Sees(clients[k]))'
  BY <1>4 DEF Sees, Allowed
<1> QED BY <1>1, <1>2, <1>3, <1>5 DEF LogsInv

LEMMA PublishLogged ==
  ASSUME LogsInv, NEW u \in Members \cup {NoUserID}, Publish(u)
  PROVE  LogsInv'
<1> DEFINE e == [user |-> u, left |-> MaxDeliver, state |-> "due"]
<1>1. /\ stream' = Append(stream, e)
      /\ consumer' = consumer /\ entries' = entries /\ clients' = clients
  BY DEF Publish
<1>2. e \in Event /\ e.state = "due" /\ e.left = MaxDeliver
  BY LogsAssumption DEF Event
<1> HIDE DEF e
<1>3. stream \in Seq(Event) /\ consumer \in Consumer /\ entries \in Seq(LogRow)
      /\ clients \in Seq(Client)
  BY LogsTypes DEF LogsInv
<1>4. PICK m : m = Len(stream) + 1
  OBVIOUS
<1>5. /\ stream' \in Seq(Event) /\ DOMAIN stream' = DOMAIN stream \cup {m}
      /\ m \notin DOMAIN stream /\ stream'[m] = e
      /\ \A j \in DOMAIN stream : stream'[j] = stream[j]
  BY <1>1, <1>2, <1>3, <1>4
<1>6. LogsTypeOK'
  <2>1. LogRow \subseteq [user: Members \cup {NoUserID}, event: DOMAIN stream']
    BY <1>5 DEF LogRow
  <2>2. entries' \in Seq([user: Members \cup {NoUserID}, event: DOMAIN stream'])
    BY <1>1, <1>3, <2>1, SeqLarger
  <2> QED BY <1>1, <1>3, <1>5, <2>2 DEF LogsTypeOK, Consumer
<1>7. DueLeft'
  BY <1>2, <1>5, LogsAssumption DEF LogsInv, DueLeft
<1>8. ConsumerAt'
  BY <1>1, <1>5 DEF LogsInv, ConsumerAt, EntriesOf
<1>9. \A j \in DOMAIN stream : RowsOf(j)'
  BY <1>1, <1>5 DEF LogsInv, RowsOf, EntriesOf
<1>10. RowsOf(m)'
  <2>1. EntriesOf(m)' = {}
    <3>1. \A k \in DOMAIN entries : entries[k] \in LogRow
      BY <1>3
    <3>2. \A k \in DOMAIN entries : entries[k].event # m
      BY <1>5, <3>1 DEF LogRow
    <3> QED BY <1>1, <3>2 DEF EntriesOf
  <2>2. Cardinality({}) = 0
    BY FS_EmptySet
  <2>3. RowsOf(m)' <=> /\ stream'[m].state = "acked" => EntriesOf(m)' # {}
                       /\ Cardinality(EntriesOf(m)') <= MaxDeliver - stream'[m].left
    BY DEF RowsOf
  <2> QED BY <1>2, <1>5, <2>1, <2>2, <2>3, LogsAssumption
<1>11. (\A k \in DOMAIN clients : Sees(clients[k]))'
  BY <1>1 DEF LogsInv, Sees, Allowed
<1> QED BY <1>5, <1>6, <1>7, <1>8, <1>9, <1>10, <1>11 DEF LogsInv

LEMMA AckWaitOverLogged ==
  ASSUME LogsInv, NEW i \in DOMAIN stream, AckWaitOver(i)
  PROVE  LogsInv'
<1>1. stream[i] \in Event
  BY LogsTypes DEF LogsInv
<1>2. /\ stream' = [stream EXCEPT ![i] = Returned(stream[i])]
      /\ consumer' = consumer /\ entries' = entries /\ clients' = clients
  BY DEF AckWaitOver
<1>3. /\ Returned(stream[i]) \in Event /\ Returned(stream[i]).left = stream[i].left
      /\ Returned(stream[i]).state # "acked"
      /\ Returned(stream[i]).state = "due" => Returned(stream[i]).left > 0
  BY <1>1, ComesBack
<1>4. \A j \in DOMAIN stream : stream[j].state = "acked" => EntriesOf(j) # {}
  BY DEF LogsInv, RowsOf
<1> QED BY <1>2, <1>3, <1>4, StreamOnly, RowsStay

LEMMA FetchedLogged ==
  ASSUME LogsInv, NEW i \in DOMAIN stream, Fetched(i)
  PROVE  LogsInv'
<1> DEFINE e == [stream[i] EXCEPT !.state = "out", !.left = @ - 1]
<1>1. /\ stream' = [stream EXCEPT ![i] = e] /\ consumer' = [step |-> "built", event |-> i]
      /\ entries' = entries /\ clients' = clients /\ stream[i].state = "due"
  BY DEF Fetched
<1>2. stream \in Seq(Event) /\ stream[i] \in Event /\ stream[i].left > 0
  BY <1>1, LogsTypes DEF LogsInv, DueLeft
<1>3. e \in Event /\ e.state = "out" /\ e.left = stream[i].left - 1
  BY <1>2, OneDelivered
<1> HIDE DEF e
<1>4. /\ stream' \in Seq(Event) /\ DOMAIN stream' = DOMAIN stream
      /\ stream'[i] = e /\ \A j \in DOMAIN stream : j # i => stream'[j] = stream[j]
  BY <1>1, <1>2, <1>3
<1>5. consumer' \in Consumer /\ consumer'.step = "built" /\ consumer'.event = i
  BY <1>1, <1>2 DEF Consumer
<1>6. LogsTypeOK'
  BY <1>1, <1>4, <1>5 DEF LogsInv, LogsTypeOK, Consumer
<1>7. DueLeft'
  BY <1>3, <1>4 DEF LogsInv, DueLeft
<1>8. PICK c, l : c = Cardinality(EntriesOf(i)) /\ l = stream[i].left
  OBVIOUS
<1>9. c \in Nat /\ l \in Nat /\ l > 0 /\ c <= MaxDeliver - l /\ stream'[i].left = l - 1
  BY <1>2, <1>3, <1>4, <1>8, RowsFinite DEF LogsInv, RowsOf, Event
<1>10. c + 1 <= MaxDeliver - (l - 1) /\ c <= MaxDeliver - (l - 1)
  BY <1>9, LogsAssumption
<1>11. EntriesOf(i)' = EntriesOf(i)
  BY <1>1 DEF EntriesOf
<1>12. ConsumerAt'
  <2>1. Cardinality(EntriesOf(i)') + 1 <= MaxDeliver - stream'[i].left
    BY <1>8, <1>9, <1>10, <1>11
  <2> QED BY <1>4, <1>5, <2>1 DEF ConsumerAt, EntriesOf
<1>13. ASSUME NEW j \in DOMAIN stream PROVE RowsOf(j)'
  <2>1. CASE j # i
    BY <1>1, <1>4, <2>1 DEF LogsInv, RowsOf, EntriesOf
  <2>2. CASE j = i
    <3>1. RowsOf(i)' <=> /\ stream'[i].state = "acked" => EntriesOf(i)' # {}
                         /\ Cardinality(EntriesOf(i)') <= MaxDeliver - stream'[i].left
      BY DEF RowsOf
    <3> QED BY <1>3, <1>4, <1>8, <1>9, <1>10, <1>11, <2>2, <3>1
  <2> QED BY <2>1, <2>2
<1>14. (\A k \in DOMAIN clients : Sees(clients[k]))'
  BY <1>1 DEF LogsInv, Sees, Allowed
<1> QED BY <1>4, <1>6, <1>7, <1>12, <1>13, <1>14 DEF LogsInv

LEMMA FetchFailsLogged ==
  ASSUME LogsInv, FetchFails
  PROVE  LogsInv'
<1>1. /\ consumer' \in Consumer /\ consumer'.step = "stopped"
      /\ stream' = stream /\ entries' = entries /\ clients' = clients
  BY DEF FetchFails, Waiting, Consumer
<1>2. stream \in Seq(Event)
  BY LogsTypes DEF LogsInv
<1>3. DueLeft'
  BY <1>1 DEF LogsInv, DueLeft
<1>4. \A j \in DOMAIN stream : stream[j].state = "acked" => EntriesOf(j) # {}
  BY DEF LogsInv, RowsOf
<1> QED BY <1>1, <1>2, <1>3, <1>4, RowsStay

LEMMA WaitingType == Waiting \in Consumer /\ Waiting.step = "idle"
BY DEF Waiting, Consumer

\* The last row: the rows of event i are one more.
LEMMA RowInserted ==
  ASSUME LogsInv, NEW i \in DOMAIN stream, InsertEntry(i)
  PROVE  /\ entries' \in Seq(LogRow) /\ Len(entries') > 0 /\ entries'[Len(entries')].event = i
         /\ \A k \in DOMAIN entries : k \in DOMAIN entries' /\ entries'[k] = entries[k]
         /\ \A j : j # i => EntriesOf(j)' = EntriesOf(j)
         /\ EntriesOf(i)' # {}
         /\ Cardinality(EntriesOf(i)') = Cardinality(EntriesOf(i)) + 1
<1> DEFINE x == buildEntry(i)
<1>1. x \in LogRow /\ x.event = i
  <2>1. stream[i] \in Event
    BY LogsTypes DEF LogsInv
  <2> QED BY <2>1 DEF buildEntry, LogRow, Event
<1>2. entries' = Append(entries, x) /\ entries \in Seq(LogRow)
  BY LogsTypes DEF InsertEntry, LogsInv
<1> HIDE DEF x
<1>3. PICK m : m = Len(entries) + 1
  OBVIOUS
<1>4. /\ entries' \in Seq(LogRow) /\ Len(entries') = m /\ m > 0 /\ m \notin DOMAIN entries
      /\ DOMAIN entries' = DOMAIN entries \cup {m} /\ entries'[m] = x
      /\ \A k \in DOMAIN entries : entries'[k] = entries[k]
  BY <1>1, <1>2, <1>3
<1>5. \A j : j # i => EntriesOf(j)' = EntriesOf(j)
  BY <1>1, <1>4 DEF EntriesOf
<1>6. EntriesOf(i)' = EntriesOf(i) \cup {m} /\ m \notin EntriesOf(i)
  BY <1>1, <1>4 DEF EntriesOf
<1>7. IsFiniteSet(EntriesOf(i))
  BY RowsFinite DEF LogsInv
<1>8. Cardinality(EntriesOf(i) \cup {m}) = Cardinality(EntriesOf(i)) + 1
  BY <1>6, <1>7, FS_AddElement
<1> QED BY <1>1, <1>4, <1>5, <1>6, <1>8

\* The log only grows: who sees a row may go on to see it.
LEMMA StillSees ==
  ASSUME LogsInv, clients' = clients,
         \A k \in DOMAIN entries : k \in DOMAIN entries' /\ entries'[k] = entries[k]
  PROVE  (\A k \in DOMAIN clients : Sees(clients[k]))'
BY DEF LogsInv, Sees, Allowed

LEMMA PersistLogLogged ==
  ASSUME LogsInv, PersistLog
  PROVE  LogsInv'
<1>1. PICK i : i = consumer.event
  OBVIOUS
<1>2. /\ consumer.step = "built" /\ InsertEntry(i) /\ clients' = clients
      /\ stream' = stream /\ consumer' = [consumer EXCEPT !.step = "stored"]
  BY <1>1 DEF PersistLog
<1>3. /\ i \in DOMAIN stream
      /\ Cardinality(EntriesOf(i)) + 1 <= MaxDeliver - stream[i].left
  BY <1>1, <1>2 DEF LogsInv, ConsumerAt
<1>4. /\ entries' \in Seq(LogRow) /\ Len(entries') > 0 /\ entries'[Len(entries')].event = i
      /\ \A k \in DOMAIN entries : k \in DOMAIN entries' /\ entries'[k] = entries[k]
      /\ \A j : j # i => EntriesOf(j)' = EntriesOf(j)
      /\ EntriesOf(i)' # {}
      /\ Cardinality(EntriesOf(i)') = Cardinality(EntriesOf(i)) + 1
  BY <1>2, <1>3, RowInserted
<1>5. consumer' \in Consumer /\ consumer'.step = "stored" /\ consumer'.event = i
  BY <1>1, <1>2, LogsTypes DEF LogsInv, Consumer
<1>6. LogsTypeOK'
  BY <1>2, <1>4, <1>5 DEF LogsInv, LogsTypeOK, Consumer, LogRow
<1>7. DueLeft'
  BY <1>2 DEF LogsInv, DueLeft
<1>8. ConsumerAt'
  BY <1>2, <1>3, <1>4, <1>5 DEF ConsumerAt
<1>9. ASSUME NEW j \in DOMAIN stream PROVE RowsOf(j)'
  <2>1. RowsOf(j)' <=> /\ stream'[j].state = "acked" => EntriesOf(j)' # {}
                       /\ Cardinality(EntriesOf(j)') <= MaxDeliver - stream'[j].left
    BY DEF RowsOf
  <2>2. CASE j = i
    BY <1>2, <1>3, <1>4, <2>1, <2>2
  <2>3. CASE j # i
    BY <1>2, <1>4, <2>1, <2>3 DEF LogsInv, RowsOf
  <2> QED BY <2>2, <2>3
<1>10. (\A k \in DOMAIN clients : Sees(clients[k]))'
  BY <1>2, <1>4, StillSees
<1> QED BY <1>2, <1>6, <1>7, <1>8, <1>9, <1>10 DEF LogsInv

LEMMA PersistFailsLogged ==
  ASSUME LogsInv, PersistFails
  PROVE  LogsInv'
<1>1. PICK i : i = consumer.event
  OBVIOUS
<1>2. /\ consumer.step = "built" /\ consumer' = Waiting /\ clients' = clients
      /\ InsertEntry(i) \/ entries' = entries
      /\ \/ stream' = stream
         \/ stream[i].state = "out" /\ stream' = [stream EXCEPT ![i] = Returned(stream[i])]
  BY <1>1 DEF PersistFails
<1>3. /\ i \in DOMAIN stream
      /\ Cardinality(EntriesOf(i)) + 1 <= MaxDeliver - stream[i].left
  BY <1>1, <1>2 DEF LogsInv, ConsumerAt
<1>4. stream \in Seq(Event) /\ stream[i] \in Event
  BY <1>3, LogsTypes DEF LogsInv
<1>5. /\ stream' \in Seq(Event) /\ DOMAIN stream' = DOMAIN stream /\ DueLeft'
      /\ \A j \in DOMAIN stream : /\ stream'[j].left = stream[j].left
                                  /\ stream'[j].state = "acked" => stream[j].state = "acked"
  <2>1. CASE stream' = stream
    BY <1>4, <2>1 DEF LogsInv, DueLeft
  <2>2. CASE stream' = [stream EXCEPT ![i] = Returned(stream[i])]
    BY <1>3, <1>4, <2>2, ComesBack, StreamOnly
  <2> QED BY <1>2, <2>1, <2>2
<1>6. CASE entries' = entries
  <2>1. \A j \in DOMAIN stream : stream[j].state = "acked" => EntriesOf(j) # {}
    BY DEF LogsInv, RowsOf
  <2> QED BY <1>2, <1>5, <1>6, <2>1, WaitingType, RowsStay
<1>7. CASE InsertEntry(i)
  <2>1. /\ entries' \in Seq(LogRow)
        /\ \A k \in DOMAIN entries : k \in DOMAIN entries' /\ entries'[k] = entries[k]
        /\ \A j : j # i => EntriesOf(j)' = EntriesOf(j)
        /\ EntriesOf(i)' # {}
        /\ Cardinality(EntriesOf(i)') = Cardinality(EntriesOf(i)) + 1
    BY <1>3, <1>7, RowInserted
  <2>2. LogsTypeOK'
    BY <1>2, <1>5, <2>1, WaitingType DEF LogsInv, LogsTypeOK, Consumer, LogRow
  <2>3. ConsumerAt'
    BY <1>2, WaitingType DEF ConsumerAt
  <2>4. ASSUME NEW j \in DOMAIN stream PROVE RowsOf(j)'
    <3>1. RowsOf(j)' <=> /\ stream'[j].state = "acked" => EntriesOf(j)' # {}
                         /\ Cardinality(EntriesOf(j)') <= MaxDeliver - stream'[j].left
      BY DEF RowsOf
    <3>2. CASE j = i
      BY <1>3, <1>5, <2>1, <3>1, <3>2
    <3>3. CASE j # i
      BY <1>5, <2>1, <3>1, <3>3 DEF LogsInv, RowsOf
    <3> QED BY <3>2, <3>3
  <2>5. (\A k \in DOMAIN clients : Sees(clients[k]))'
    BY <1>2, <2>1, StillSees
  <2> QED BY <1>5, <2>2, <2>3, <2>4, <2>5 DEF LogsInv
<1> QED BY <1>2, <1>6, <1>7

LEMMA AckLogged ==
  ASSUME LogsInv, Ack
  PROVE  LogsInv'
<1>1. PICK i : i = consumer.event
  OBVIOUS
<1>2. /\ consumer.step = "sent" /\ consumer' = Waiting /\ clients' = clients
      /\ entries' = entries
      /\ stream' = stream \/ stream' = [stream EXCEPT ![i].state = "acked"]
  BY <1>1 DEF Ack
<1>3. i \in DOMAIN stream /\ Len(entries) > 0 /\ entries[Len(entries)].event = i
  BY <1>1, <1>2 DEF LogsInv, ConsumerAt
<1>4. /\ stream \in Seq(Event) /\ stream[i] \in Event /\ entries \in Seq(LogRow)
  BY <1>3, LogsTypes DEF LogsInv
<1>5. EntriesOf(i) # {}
  <2>1. Len(entries) \in DOMAIN entries
    BY <1>3, <1>4
  <2> QED BY <1>3, <2>1 DEF EntriesOf
<1> DEFINE e == [stream[i] EXCEPT !.state = "acked"]
<1>6. e \in Event /\ e.state = "acked" /\ e.left = stream[i].left
  BY <1>4 DEF Event
<1>7. stream' = stream \/ stream' = [stream EXCEPT ![i] = e]
  BY <1>2
<1> HIDE DEF e
<1>8. \A j \in DOMAIN stream : stream[j].state = "acked" => EntriesOf(j) # {}
  BY DEF LogsInv, RowsOf
<1>9. /\ stream' \in Seq(Event) /\ DOMAIN stream' = DOMAIN stream
      /\ \A j \in DOMAIN stream : /\ stream'[j].left = stream[j].left
                                  /\ stream'[j].state = "acked" => EntriesOf(j) # {}
                                  /\ stream'[j].state = "due" => stream[j].state = "due"
  BY <1>3, <1>4, <1>5, <1>6, <1>7, <1>8
<1>10. DueLeft'
  BY <1>9 DEF LogsInv, DueLeft
<1> QED BY <1>2, <1>9, <1>10, WaitingType, RowsStay

\* The clients become others; what the others see, they may see.
LEMMA ClientsOnly ==
  ASSUME LogsInv, stream' = stream, entries' = entries,
         consumer' \in Consumer,
         consumer'.step \in {"idle", "sent"} \/ consumer' = consumer,
         consumer'.step = "sent" => consumer.step \in {"stored", "sent"}
                                    /\ consumer'.event = consumer.event,
         clients' \in Seq(Client), (\A k \in DOMAIN clients : Sees(clients[k]))'
  PROVE  LogsInv'
<1>1. LogsTypeOK'
  BY DEF LogsInv, LogsTypeOK, Consumer
<1>2. DueLeft' /\ \A i \in DOMAIN stream : RowsOf(i)'
  BY DEF LogsInv, DueLeft, RowsOf, EntriesOf
<1>3. ConsumerAt'
  BY DEF LogsInv, ConsumerAt, EntriesOf
<1> QED BY <1>1, <1>2, <1>3 DEF LogsInv

\* One client becomes another; it holds nothing that it did not hold before.
LEMMA OneClient ==
  ASSUME LogsInv, stream' = stream, entries' = entries, consumer' = consumer,
         NEW k \in DOMAIN clients, NEW c \in Client, clients' = [clients EXCEPT ![k] = c],
         c.user = clients[k].user, c.role = clients[k].role,
         \A n : n \in c.got \/ (\E j \in DOMAIN c.send : n = c.send[j]) =>
           \/ n \in clients[k].got
           \/ \E j \in DOMAIN clients[k].send : n = clients[k].send[j]
  PROVE  LogsInv'
<1>1. consumer \in Consumer /\ clients \in Seq(Client)
  BY LogsTypes DEF LogsInv
<1>2. /\ clients' \in Seq(Client) /\ DOMAIN clients' = DOMAIN clients /\ clients'[k] = c
      /\ \A j \in DOMAIN clients : j # k => clients'[j] = clients[j]
  BY <1>1
<1>3. Sees(c)
  <2>1. Sees(clients[k])
    BY DEF LogsInv
  <2> QED BY <2>1 DEF Sees, Allowed, IsAdmin
<1>4. \A j \in DOMAIN clients : \A n :
        n \in clients'[j].got \/ (\E l \in DOMAIN clients'[j].send : n = clients'[j].send[l])
        => n \in DOMAIN entries /\ Allowed(clients'[j], entries[n])
  BY <1>2, <1>3 DEF LogsInv, Sees
<1>5. (\A j \in DOMAIN clients : Sees(clients[j]))'
  BY <1>2, <1>4 DEF Sees, Allowed, IsAdmin
<1> QED BY <1>1, <1>2, <1>5, ClientsOnly

LEMMA BroadcastLogged ==
  ASSUME LogsInv, Broadcast
  PROVE  LogsInv'
<1>1. PICK n : n = CHOOSE k \in DOMAIN entries :
             /\ entries[k].event = consumer.event
             /\ \A l \in k + 1 .. Len(entries) : entries[l].event # consumer.event
  OBVIOUS
<1> DEFINE sees(c) == c.registered /\ Allowed(c, entries[n]) /\ Len(c.send) < Buffer
           b(c) == [c EXCEPT !.send = Append(@, n)]
<1>2. /\ consumer.step = "stored" /\ consumer' = [consumer EXCEPT !.step = "sent"]
      /\ stream' = stream /\ entries' = entries
      /\ clients' = [k \in DOMAIN clients |->
                       IF sees(clients[k]) THEN b(clients[k]) ELSE clients[k]]
  BY <1>1 DEF Broadcast
<1>3. /\ consumer \in Consumer /\ entries \in Seq(LogRow) /\ clients \in Seq(Client)
      /\ Len(entries) > 0 /\ entries[Len(entries)].event = consumer.event
  BY <1>2, LogsTypes DEF LogsInv, ConsumerAt
<1>4. n \in DOMAIN entries /\ n \in Nat
  <2>1. Len(entries) \in DOMAIN entries /\ DOMAIN entries = 1 .. Len(entries)
    BY <1>3
  <2>2. \A l \in Len(entries) + 1 .. Len(entries) : entries[l].event # consumer.event
    BY <1>3
  <2> QED BY <1>1, <1>3, <2>1, <2>2
<1>5. consumer' \in Consumer /\ consumer'.step = "sent" /\ consumer'.event = consumer.event
  BY <1>2, <1>3 DEF Consumer
<1>6. ASSUME NEW c \in Client
      PROVE  /\ b(c) \in Client /\ b(c).got = c.got /\ b(c).user = c.user /\ b(c).role = c.role
             /\ \A m : (\E j \in DOMAIN b(c).send : m = b(c).send[j]) =>
                  m = n \/ \E j \in DOMAIN c.send : m = c.send[j]
  <2>1. c.send \in Seq(Nat)
    BY DEF Client
  <2>2. Append(c.send, n) \in Seq(Nat)
    BY <1>4, <2>1
  <2>3. \A m : (\E j \in DOMAIN Append(c.send, n) : m = Append(c.send, n)[j]) =>
                  m = n \/ \E j \in DOMAIN c.send : m = c.send[j]
    BY <1>4, <2>1
  <2>4. /\ b(c) \in Client /\ b(c).got = c.got /\ b(c).user = c.user /\ b(c).role = c.role
        /\ b(c).send = Append(c.send, n)
    BY <2>2 DEF Client
  <2> QED BY <2>3, <2>4
<1>7. clients' \in Seq(Client) /\ DOMAIN clients' = DOMAIN clients
  <2>1. \A k \in DOMAIN clients : clients[k] \in Client
    BY <1>3
  <2>2. \A k \in DOMAIN clients : clients'[k] \in Client
    BY <1>2, <1>6, <2>1
  <2> QED BY <1>2, <1>3, <2>2
<1>8. ASSUME NEW k \in DOMAIN clients, NEW m,
             m \in clients'[k].got \/ (\E j \in DOMAIN clients'[k].send : m = clients'[k].send[j])
      PROVE  m \in DOMAIN entries /\ Allowed(clients'[k], entries[m])
  <2>1. clients[k] \in Client /\ Sees(clients[k])
    BY <1>3 DEF LogsInv
  <2>2. CASE ~sees(clients[k])
    BY <1>2, <1>8, <2>1, <2>2 DEF Sees
  <2>3. CASE sees(clients[k])
    <3> DEFINE c == clients[k]
    <3>1. clients'[k] = b(c) /\ Allowed(c, entries[n])
      BY <1>2, <2>3
    <3>2. b(c).user = c.user /\ b(c).role = c.role
      BY <1>6, <2>1
    <3>3. m = n \/ m \in c.got \/ \E j \in DOMAIN c.send : m = c.send[j]
      BY <1>6, <1>8, <2>1, <3>1
    <3> HIDE DEF b
    <3>4. m \in DOMAIN entries /\ Allowed(c, entries[m])
      BY <1>4, <2>1, <3>1, <3>3 DEF Sees
    <3> QED BY <3>1, <3>2, <3>4 DEF Allowed, IsAdmin
  <2> QED BY <2>2, <2>3
<1>9. (\A k \in DOMAIN clients : Sees(clients[k]))'
  BY <1>2, <1>7, <1>8 DEF Sees, Allowed, IsAdmin
<1> QED BY <1>2, <1>5, <1>7, <1>9, ClientsOnly

LEMMA RestartLogged ==
  ASSUME LogsInv, Restart
  PROVE  LogsInv'
<1> DEFINE b(c) == [c EXCEPT !.registered = FALSE, !.pump = FALSE, !.send = <<>>]
<1>1. /\ consumer' = Waiting /\ stream' = stream /\ entries' = entries
      /\ clients' = [k \in DOMAIN clients |-> b(clients[k])]
  BY DEF Restart
<1>2. clients \in Seq(Client) /\ \A k \in DOMAIN clients : clients[k] \in Client
  BY LogsTypes DEF LogsInv
<1>3. ASSUME NEW c \in Client
      PROVE  /\ b(c) \in Client /\ b(c).user = c.user /\ b(c).role = c.role
             /\ b(c).got = c.got /\ b(c).send = <<>>
  <2> DEFINE d == [c EXCEPT !.registered = FALSE]
             f == [d EXCEPT !.pump = FALSE]
             g == [f EXCEPT !.send = <<>>]
  <2>1. d \in Client /\ d.user = c.user /\ d.role = c.role /\ d.got = c.got
    BY DEF Client
  <2> HIDE DEF d
  <2>2. f \in Client /\ f.user = c.user /\ f.role = c.role /\ f.got = c.got
    BY <2>1 DEF Client
  <2> HIDE DEF f
  <2>3. /\ g \in Client /\ g.user = c.user /\ g.role = c.role /\ g.got = c.got
        /\ g.send = <<>>
    <3>1. <<>> \in Seq(Nat)
      OBVIOUS
    <3>2. \A x : x \in Seq(Nat) =>
            LET h == [f EXCEPT !.send = x] IN
            /\ h \in Client /\ h.user = f.user /\ h.role = f.role /\ h.got = f.got
            /\ h.send = x
      BY <2>2 DEF Client
    <3> QED BY <2>2, <3>1, <3>2
  <2>4. b(c) = g
    BY DEF d, f
  <2> HIDE DEF g, b
  <2> QED BY <2>3, <2>4
<1> HIDE DEF b
<1>4. clients' \in Seq(Client) /\ DOMAIN clients' = DOMAIN clients
  <2>1. \A k \in DOMAIN clients : clients'[k] \in Client
    BY <1>1, <1>2, <1>3
  <2> QED BY <1>1, <1>2, <2>1
<1>5. ASSUME NEW k \in DOMAIN clients, NEW m,
             m \in clients'[k].got \/ (\E j \in DOMAIN clients'[k].send : m = clients'[k].send[j])
      PROVE  m \in DOMAIN entries /\ Allowed(clients'[k], entries[m])
  <2>1. /\ clients'[k].user = clients[k].user /\ clients'[k].role = clients[k].role
        /\ clients'[k].got = clients[k].got /\ clients'[k].send = <<>>
    BY <1>1, <1>2, <1>3
  <2>2. m \in clients[k].got
    BY <1>5, <2>1
  <2>3. Sees(clients[k])
    BY DEF LogsInv
  <2> QED BY <2>1, <2>2, <2>3 DEF Sees, Allowed, IsAdmin
<1>6. (\A k \in DOMAIN clients : Sees(clients[k]))'
  BY <1>1, <1>4, <1>5 DEF Sees, Allowed, IsAdmin
<1> QED BY <1>1, <1>4, <1>6, WaitingType, ClientsOnly

LEMMA ConnectLogged ==
  ASSUME LogsInv, NEW u \in Members, NEW role \in Roles, Connect(u, role)
  PROVE  LogsInv'
<1> DEFINE c == [user |-> u, role |-> role, registered |-> TRUE, pump |-> TRUE,
                 send |-> <<>>, got |-> {}]
<1>1. /\ clients' = Append(clients, c)
      /\ stream' = stream /\ consumer' = consumer /\ entries' = entries
  BY DEF Connect
<1>2. c \in Client /\ c.got = {} /\ c.send = <<>>
  BY DEF Client
<1> HIDE DEF c
<1>3. clients \in Seq(Client) /\ consumer \in Consumer
  BY LogsTypes DEF LogsInv
<1>4. PICK m : m = Len(clients) + 1
  OBVIOUS
<1>5. /\ clients' \in Seq(Client) /\ DOMAIN clients' = DOMAIN clients \cup {m}
      /\ clients'[m] = c /\ \A k \in DOMAIN clients : k # m /\ clients'[k] = clients[k]
  BY <1>1, <1>2, <1>3, <1>4
<1>6. \A j \in DOMAIN clients' : \A n :
        n \in clients'[j].got \/ (\E l \in DOMAIN clients'[j].send : n = clients'[j].send[l])
        => n \in DOMAIN entries /\ Allowed(clients'[j], entries[n])
  BY <1>2, <1>5 DEF LogsInv, Sees
<1>7. (\A j \in DOMAIN clients : Sees(clients[j]))'
  BY <1>1, <1>6 DEF Sees, Allowed, IsAdmin
<1> QED BY <1>1, <1>3, <1>5, <1>7, ClientsOnly

LEMMA DisconnectLogged ==
  ASSUME LogsInv, NEW k \in DOMAIN clients, Disconnect(k)
  PROVE  LogsInv'
<1> DEFINE c == [clients[k] EXCEPT !.registered = FALSE]
<1>1. /\ clients' = [clients EXCEPT ![k] = c]
      /\ stream' = stream /\ consumer' = consumer /\ entries' = entries
  BY DEF Disconnect
<1>2. clients[k] \in Client
  BY LogsTypes DEF LogsInv
<1>3. /\ c \in Client /\ c.user = clients[k].user /\ c.role = clients[k].role
      /\ c.got = clients[k].got /\ c.send = clients[k].send
  BY <1>2 DEF Client
<1> HIDE DEF c
<1> QED BY <1>1, <1>3, OneClient

LEMMA PumpLogged ==
  ASSUME LogsInv, NEW k \in DOMAIN clients, Pump(k)
  PROVE  LogsInv'
<1>1. PICK c : c = clients[k]
  OBVIOUS
<1> DEFINE a == [c EXCEPT !.send = Tail(@)]
           d == [a EXCEPT !.got = c.got \cup {Head(c.send)}]
           f == [a EXCEPT !.pump = FALSE]
<1>2. /\ clients' = [clients EXCEPT ![k] = d] \/ clients' = [clients EXCEPT ![k] = f]
      /\ stream' = stream /\ consumer' = consumer /\ entries' = entries /\ c.send # <<>>
  BY <1>1 DEF Pump
<1>3. c \in Client /\ c.send \in Seq(Nat)
  <2>1. c \in Client
    BY <1>1, LogsTypes DEF LogsInv
  <2> QED BY <2>1 DEF Client
<1>4. /\ Tail(c.send) \in Seq(Nat) /\ Head(c.send) \in Nat
      /\ \E j \in DOMAIN c.send : Head(c.send) = c.send[j]
      /\ \A n : (\E j \in DOMAIN Tail(c.send) : n = Tail(c.send)[j])
           => \E j \in DOMAIN c.send : n = c.send[j]
  <2>1. 1 \in DOMAIN c.send /\ Head(c.send) = c.send[1]
    BY <1>2, <1>3
  <2>2. \A j \in DOMAIN Tail(c.send) :
          j + 1 \in DOMAIN c.send /\ Tail(c.send)[j] = c.send[j + 1]
    BY <1>2, <1>3
  <2> QED BY <1>2, <1>3, <2>1, <2>2
<1>5. /\ a \in Client /\ a.user = c.user /\ a.role = c.role /\ a.got = c.got
      /\ a.send = Tail(c.send)
  BY <1>3, <1>4 DEF Client
<1> HIDE DEF a
<1>6. /\ d \in Client /\ d.user = a.user /\ d.role = a.role
      /\ d.got = c.got \cup {Head(c.send)} /\ d.send = a.send
  BY <1>3, <1>4, <1>5 DEF Client
<1>7. /\ f \in Client /\ f.user = a.user /\ f.role = a.role
      /\ f.got = a.got /\ f.send = a.send
  BY <1>5 DEF Client
<1> HIDE DEF d, f
<1>8. CASE clients' = [clients EXCEPT ![k] = d]
  <2>1. \A n : n \in d.got \/ (\E j \in DOMAIN d.send : n = d.send[j]) =>
          n \in c.got \/ \E j \in DOMAIN c.send : n = c.send[j]
    BY <1>4, <1>5, <1>6
  <2>2. d \in Client /\ d.user = clients[k].user /\ d.role = clients[k].role
    BY <1>1, <1>5, <1>6
  <2>3. \A n : n \in d.got \/ (\E j \in DOMAIN d.send : n = d.send[j]) =>
          \/ n \in clients[k].got
          \/ \E j \in DOMAIN clients[k].send : n = clients[k].send[j]
    BY <1>1, <2>1
  <2> QED BY <1>2, <1>8, <2>2, <2>3, OneClient
<1>9. CASE clients' = [clients EXCEPT ![k] = f]
  <2>1. \A n : n \in f.got \/ (\E j \in DOMAIN f.send : n = f.send[j]) =>
          n \in c.got \/ \E j \in DOMAIN c.send : n = c.send[j]
    BY <1>4, <1>5, <1>7
  <2>2. f \in Client /\ f.user = clients[k].user /\ f.role = clients[k].role
    BY <1>1, <1>5, <1>7
  <2>3. \A n : n \in f.got \/ (\E j \in DOMAIN f.send : n = f.send[j]) =>
          \/ n \in clients[k].got
          \/ \E j \in DOMAIN clients[k].send : n = clients[k].send[j]
    BY <1>1, <2>1
  <2> QED BY <1>2, <1>9, <2>2, <2>3, OneClient
<1> QED BY <1>2, <1>8, <1>9

LEMMA LogsStep == LogsInv /\ LogsNext => LogsInv'
<1> SUFFICES ASSUME LogsInv, LogsNext PROVE LogsInv'
  OBVIOUS
<1> QED BY PublishLogged, AckWaitOverLogged, FetchedLogged, PersistLogLogged,
           PersistFailsLogged, BroadcastLogged, AckLogged, FetchFailsLogged, RestartLogged,
           ConnectLogged, PumpLogged, DisconnectLogged DEF LogsNext

LEMMA LogsStutter == LogsInv /\ UNCHANGED logsVars => LogsInv'
<1> SUFFICES ASSUME LogsInv, UNCHANGED logsVars PROVE LogsInv'
  OBVIOUS
<1>1. /\ stream' = stream /\ consumer' = consumer /\ entries' = entries /\ clients' = clients
  BY DEF logsVars
<1>2. consumer \in Consumer /\ clients \in Seq(Client)
  BY LogsTypes DEF LogsInv
<1>3. (\A k \in DOMAIN clients : Sees(clients[k]))'
  BY <1>1, StillSees
<1>4. consumer'.step = "sent" => consumer.step = "sent" /\ consumer'.event = consumer.event
  BY <1>1
<1> QED BY <1>1, <1>2, <1>3, <1>4, ClientsOnly

LEMMA LogsStart == LogsInit => LogsInv
<1> SUFFICES ASSUME LogsInit PROVE LogsInv
  OBVIOUS
<1>1. stream = <<>> /\ consumer = Waiting /\ entries = <<>> /\ clients = <<>>
  BY DEF LogsInit
<1>2. LogsTypeOK
  BY <1>1, WaitingType, LogsTypes
<1> QED BY <1>1, <1>2, WaitingType DEF LogsInv, DueLeft, ConsumerAt

\* The invariant of log-service.
LEMMA LogsInvariant == LogsSpec => []LogsInv
<1>1. LogsInv /\ [LogsNext /\ UNCHANGED workload]_<<logsVars, workload>> => LogsInv'
  BY LogsStep, LogsStutter
<1> QED BY <1>1, LogsStart, PTL DEF LogsSpec

\* log-service loses no event that it acknowledged, stores none more often than
\* it was delivered, and shows nobody what the REST endpoint would keep from
\* them: for any deliveries, clients and restarts
\* (log-service/cmd/server/main.go:85-99, 189-207, 258-271).
THEOREM EntriesAlwaysFaithful == LogsSpec => []EntriesFaithful
<1>1. LogsSpec => []LogsInv
  BY LogsInvariant
<1>2. LogsInv => EntriesFaithful
  <2> SUFFICES ASSUME LogsInv PROVE EntriesFaithful
    OBVIOUS
  <2>1. \A i \in DOMAIN stream : /\ stream[i].state = "acked" => EntriesOf(i) # {}
                                 /\ Cardinality(EntriesOf(i)) <= MaxDeliver - stream[i].left
    BY DEF LogsInv, RowsOf
  <2>2. ASSUME NEW k \in DOMAIN clients,
               NEW n \in clients[k].got \cup {clients[k].send[j] : j \in DOMAIN clients[k].send}
        PROVE  n \in listLogs(filterUserID(clients[k], NoUserID))
    <3>1. Sees(clients[k])
      BY DEF LogsInv
    <3>2. n \in DOMAIN entries /\ Allowed(clients[k], entries[n])
      BY <3>1 DEF Sees
    <3> QED BY <3>2 DEF Allowed, listLogs, filterUserID
  <2> QED BY <2>1, <2>2 DEF EntriesFaithful
<1> QED BY <1>1, <1>2, LogsStart, PTL DEF LogsSpec
-----------------------------------------------------------------------------
(* The services side by side: each one behaves among the others as it does *)
(* alone, so that what is proved of a component is so of the whole.         *)

\* The start of the whole is a start of each.
LEMMA ServicesStart ==
  ServicesInit =>
    /\ WorkloadInit /\ Init /\ DepositsInit /\ DeliveriesMatch
    /\ PricingInit /\ AccountsInit /\ ResellersInit /\ ProvidersInit /\ ProxmoxInit
    /\ LogsInit /\ BreakerInit /\ LimiterInit /\ RetryInit
    /\ hook \in [Requests -> Hook]
    /\ ~Asked("deposit") => \A r \in Requests : hook[r].step = "plain"
<1> SUFFICES ASSUME ServicesInit
             PROVE  /\ DeliveriesMatch /\ hook \in [Requests -> Hook]
                    /\ ~Asked("deposit") => \A r \in Requests : hook[r].step = "plain"
  BY DEF ServicesInit, BillingInit
<1>0. DepositsInit /\ BillingInit
  BY DEF ServicesInit, BillingInit
<1>1. hook \in [Requests -> Hook]
  <2>1. {h \in Hook : h.step \in {"plain", "waiting"} /\ ~h.overtaken} \subseteq Hook
    OBVIOUS
  <2> QED BY <1>0, <2>1 DEF DepositsInit
<1>2. Asked("deposit") => DeliveriesMatch
  <2> SUFFICES ASSUME Asked("deposit") PROVE DeliveriesMatch
    OBVIOUS
  <2>1. req = [r \in Requests |-> CreditRequest(hook[r].payment)]
    BY <1>0 DEF BillingInit
  <2> QED BY <2>1 DEF DeliveriesMatch
<1>3. ASSUME ~Asked("deposit"), NEW r \in Requests PROVE hook[r].step = "plain"
  <2> DEFINE plain(h) == h.step = "plain" /\ ~h.overtaken
  <2>1. hook[r] = CHOOSE h \in Hook : plain(h)
    BY <1>0, <1>3 DEF BillingInit
  <2>2. \E h \in Hook : plain(h)
    <3>1. hook[r] \in Hook
      BY <1>1
    <3>2. [hook[r] EXCEPT !.step = "plain", !.overtaken = FALSE] \in Hook
      BY <3>1 DEF Hook
    <3> QED BY <3>2 DEF Hook
  <2>3. plain(CHOOSE h \in Hook : plain(h))
    <3> HIDE DEF plain
    <3> QED BY <2>2
  <2> QED BY <2>1, <2>3
<1> QED BY <1>1, <1>2, <1>3 DEF DeliveriesMatch

\* A step of the whole is one of billing-service, of one of the others, or none.
LEMMA ServicesStepBilling ==
  ASSUME [ServicesNext]_allVars
  PROVE  /\ workload' = workload
         /\ \/ Asked("deposit") /\ DepositsNext
            \/ ~Asked("deposit") /\ Next /\ UNCHANGED depositVars
            \/ UNCHANGED <<vars, depositVars>>
BY DEF ServicesNext, allVars, billingVars

LEMMA ServicesStepOthers ==
  ASSUME [ServicesNext]_allVars
  PROVE  /\ [PricingNext /\ UNCHANGED workload]_<<pricingVars, workload>>
         /\ [AccountsNext /\ UNCHANGED workload]_<<accountsVars, workload>>
         /\ [ResellersNext /\ UNCHANGED workload]_<<resellersVars, workload>>
         /\ [ProvidersNext /\ UNCHANGED workload]_<<providersVars, workload>>
         /\ [ProxmoxNext /\ UNCHANGED workload]_<<proxmoxVars, workload>>
         /\ [LogsNext /\ UNCHANGED workload]_<<logsVars, workload>>
         /\ [BreakerNext /\ UNCHANGED workload]_<<breakerVars, workload>>
         /\ [LimiterNext /\ UNCHANGED workload]_<<limiterVars, workload>>
         /\ [RetryNext /\ UNCHANGED workload]_<<loop, workload>>
BY DEF ServicesNext, OtherNext, allVars, otherVars, pkgVars

\* Without deposits no request is a delivery.
PlainRequests ==
  ~Asked("deposit") => hook \in [Requests -> Hook] /\ \A r \in Requests : hook[r].step = "plain"

\* billing-service is the wallet with the deposits, and that is the wallet.
LEMMA ServicesRunBilling == ServicesSpec => Spec /\ DepositsSpec
<1>1. ServicesInit => Init /\ DepositsInit /\ DeliveriesMatch /\ PlainRequests
  BY ServicesStart DEF PlainRequests
<1>2. PlainRequests /\ [ServicesNext]_allVars => PlainRequests'
  BY ServicesStepBilling DEF PlainRequests, Asked, depositVars
<1>3. [ServicesNext]_allVars => [Next]_vars
  <2> SUFFICES ASSUME [ServicesNext]_allVars PROVE [Next]_vars
    OBVIOUS
  <2>1. DepositsNext => [Next]_vars
    BY DEF DepositsNext, RecordGatewayTxnID, CreateDeposit, HandleWebhookFind,
           HandleWebhookComplete, HandleWebhookFail, WalletStep, WalletAbort, Next
  <2> QED BY <2>1, ServicesStepBilling
<1>4. PlainRequests /\ [ServicesNext]_allVars => [DepositsNext]_<<vars, depositVars>>
  <2> SUFFICES ASSUME PlainRequests, [ServicesNext]_allVars
               PROVE  [DepositsNext]_<<vars, depositVars>>
    OBVIOUS
  <2>1. CASE ~Asked("deposit") /\ Next /\ UNCHANGED depositVars
    <3>1. PICK r \in Requests : Serve(r) \/ Abort(r)
      BY <2>1 DEF Next
    <3>2. hook[r].step = "plain" /\ hook[r] \in Hook /\ hook \in [Requests -> Hook]
      BY <2>1 DEF PlainRequests
    <3>3. [hook[r] EXCEPT !.step = "plain"] = hook[r]
      BY <3>2 DEF Hook
    <3>4. [hook EXCEPT ![r] = hook[r]] = hook
      BY <3>2
    <3>5. hook' = [hook EXCEPT ![r].step = IF @ = "credit" THEN "lost" ELSE @]
      BY <2>1, <3>2, <3>3, <3>4 DEF depositVars
    <3> QED BY <2>1, <3>1, <3>2, <3>5 DEF DepositsNext, WalletStep, WalletAbort, depositVars
  <2> QED BY <2>1, ServicesStepBilling
<1> QED BY <1>1, <1>2, <1>3, <1>4, PTL DEF ServicesSpec, Spec, DepositsSpec

\* The services share no table, so that each of them runs side by side with
\* the others as it does by itself: whatever the clients do, and whichever of
\* the services takes the next step.
THEOREM ServicesSideBySide ==
  ServicesSpec =>
    /\ Spec /\ DepositsSpec /\ PricingSpec /\ AccountsSpec /\ ResellersSpec
    /\ ProvidersSpec /\ ProxmoxSpec /\ LogsSpec
    /\ BreakerSpec /\ LimiterSpec /\ RetrySpec
<1>1. ServicesSpec => PricingSpec /\ AccountsSpec /\ ResellersSpec
  BY ServicesStart, ServicesStepOthers, PTL
     DEF ServicesSpec, PricingSpec, AccountsSpec, ResellersSpec
<1>2. ServicesSpec => ProvidersSpec /\ ProxmoxSpec /\ LogsSpec
  BY ServicesStart, ServicesStepOthers, PTL
     DEF ServicesSpec, ProvidersSpec, ProxmoxSpec, LogsSpec
<1>3. ServicesSpec => BreakerSpec /\ LimiterSpec /\ RetrySpec
  BY ServicesStart, ServicesStepOthers, PTL
     DEF ServicesSpec, BreakerSpec, LimiterSpec, RetrySpec
<1> QED BY <1>1, <1>2, <1>3, ServicesRunBilling

\* Every variable of the services keeps its type side by side.
THEOREM ServicesTypeCorrect == ServicesSpec => []ServicesTypeOK
<1>1. /\ PricingInv => PricingTypeOK
      /\ ResellersInv => ResellersTypeOK
      /\ BuyInv => ProvidersTypeOK
      /\ ProxmoxInv => ProxmoxTypeOK
      /\ LogsInv => LogsTypeOK
      /\ BreakerInv => BreakerTypeOK
      /\ LimiterInv => LimiterTypeOK
      /\ RetryInv => RetryTypeOK
  BY DEF PricingInv, ResellersInv, BuyInv, ProxmoxInv, LogsInv, BreakerInv, LimiterInv, RetryInv
<1> QED BY <1>1, ServicesSideBySide, TypeCorrect, DepositsTypeCorrect, PricingInvariant,
           AccountsTypeCorrect, ResellersInvariant, BuyInvariant, ProxmoxInvariant,
           LogsInvariant, BreakerInvariant, LimiterInvariant, RetryInvariant, PTL
     DEF ServicesTypeOK

\* What is proved of each component by itself is so side by side.
THEOREM ServicesKeepTheirPromises ==
  ServicesSpec =>
    [](/\ Solvent /\ SnapshotsPay /\ BalanceBetween /\ EventsBacked
       /\ CreditedOnce /\ CompletedIsCredited /\ PriceByRule
       /\ EnabledSecretConfirmed /\ PasswordKept /\ RotatedOnce
       /\ StaleClaimsBounded /\ DeletedLosesAccess /\ SessionsBounded
       /\ PriceSound /\ SubAccountsOfApproved /\ OwnersOnly
       /\ BoughtOnce /\ AnswersTrue /\ TasksTrue /\ EntriesFaithful
       /\ ProbesBounded /\ ClosedBelowThreshold /\ WindowLimit)
BY ServicesSideBySide, WalletStaysSolvent, UpdatesAccepted, BalanceStaysBetween,
   EventsAlwaysBacked, AlwaysCreditedOnce, CompletedAlwaysCredited, PriceAlwaysByRule,
   TotpAlwaysConfirmed, PasswordAlwaysKept, AlwaysRotatedOnce,
   ClaimsAlwaysBounded, DeletedAlwaysOut, SessionsAlwaysBounded,
   PricesAlwaysSound, SubAccountsAlwaysOfApproved, OwnersAlwaysOnly,
   BoughtAlwaysOnce, AnswersAlwaysTrue, TasksAlwaysTrue, EntriesAlwaysFaithful,
   ProbesAlwaysBounded, ClosedAlwaysBelow, WindowAlwaysLimited, PTL

\* When billing-service serves one request at a time its wallet is the atomic
\* one, among the other services too.
THEOREM ServicesRefineWallet ==
  ASSUME MaxInFlight = 1 PROVE ServicesSpec => ImplementsAtomicWallet
BY ServicesSideBySide, SerialRefinement, PTL
=============================================================================
