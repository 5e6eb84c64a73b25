----------------------------- MODULE Providers ------------------------------
(***************************************************************************)
(* The adapters of proxy-service that drive a proxy manager over HTTP:     *)
(* providers/vpm (providers/cpm is the same program for another URL).      *)
(* A purchase creates a proxy and polls it until it runs; Client.do sends  *)
(* every request up to maxRetries times, with no idempotency key, and what *)
(* it gave up waiting for may still be served.                             *)
(***************************************************************************)
EXTENDS Platform

CONSTANT MaxTries  \* maxRetries

ASSUME ProvidersAssumption == MaxTries \in Nat \ {0}

VARIABLES
  proxies,    \* the manager's proxies, and the purchase each was created for
  purchases,  \* the calls of Purchase: the proxy each returned (0: none yet, or
              \* an error), and (history) how many of its POSTs went unanswered
  ask,        \* the calls of the adapter in flight
  wire,       \* the requests that the manager has not served.  Bound: of alike
              \* ones that nobody waits for, one is kept
  settled     \* history: what is known of each proxy from the adapter's answers

providersVars == <<proxies, purchases, ask, wire, settled>>

ProxyStatuses == {"creating", "running", "stopped", "error", "deleted"}
Commands == {"Cancel", "Suspend", "Resume"}
Sent == {"create"} \cup Commands

\* about: the purchase of a create and of a poll, the proxy of a command.
\* found: the proxy that a create made.  alone (history): no other command on
\* the proxy was under way at any time since this one began.
AskRecord == [op: {"none", "poll"} \cup Sent, about: Nat, try: 0 .. MaxTries,
              answer: {"none", "done", "refused"}, found: Nat, alone: BOOLEAN]
NoAskRecord == [op |-> "none", about |-> 0, try |-> 0, answer |-> "none",
                found |-> 0, alone |-> TRUE]

Posted(q, a) == [waits |-> {q}, op |-> a.op, about |-> a.about, try |-> a.try]
-----------------------------------------------------------------------------
ProvidersInit ==
  /\ proxies = <<>> /\ purchases = <<>> /\ wire = {} /\ settled = <<>>
  /\ ask = [q \in Calls |-> NoAskRecord]

(* The proxy manager. *)

\* What a command makes of a proxy; a proxy in another state is refused.
Accepts(op, status) ==
  \/ op = "Cancel" /\ status # "deleted"
  \/ op \in {"Suspend", "Resume"} /\ status \in {"running", "stopped"}

Result(op) ==
  CASE op = "Cancel" -> "deleted" [] op = "Suspend" -> "stopped" [] OTHER -> "running"

\* The answer reaches the call that waits for it, if one does.
Answers(w, answer, found) ==
  ask' = [q \in Calls |->
    IF q \in w.waits THEN [ask[q] EXCEPT !.answer = answer, !.found = found] ELSE ask[q]]

\* A proxy is made, and runs at once or later; a command is obeyed.
Serves(w) ==
  /\ w \in wire /\ wire' = wire \ {w}
  /\ \/ /\ w.op = "create"
        /\ \E s \in {"creating", "running"} :
             proxies' = Append(proxies, [status |-> s, purchase |-> w.about])
        /\ settled' = Append(settled, "unknown")
        /\ Answers(w, "done", Len(proxies) + 1)
     \/ /\ w.op \in Commands /\ Accepts(w.op, proxies[w.about].status)
        /\ proxies' = [proxies EXCEPT ![w.about].status = Result(w.op)]
        /\ Answers(w, "done", 0)
        /\ UNCHANGED settled
  /\ UNCHANGED purchases

\* Any request may be refused, and one that nobody waits for may be lost.
Refuses(w) ==
  /\ w \in wire /\ wire' = wire \ {w}
  /\ Answers(w, "refused", 0)
  /\ UNCHANGED <<proxies, purchases, settled>>

\* A proxy starts to run, or fails to.
Boots(p) ==
  /\ proxies[p].status = "creating"
  /\ \E s \in {"running", "error"} : proxies' = [proxies EXCEPT ![p].status = s]
  /\ UNCHANGED <<purchases, ask, wire, settled>>
-----------------------------------------------------------------------------
(* Calls of the adapter. *)

Free(q, op) ==
  /\ ask[q].op = "none" /\ Asked(op)
  /\ Cardinality({c \in Calls : ask[c].op # "none"}) < workload.inFlight

Forget(q) == ask' = [ask EXCEPT ![q] = NoAskRecord]

\* Purchase comes to its POST.
Purchase(q) ==
  LET a == [NoAskRecord EXCEPT !.op = "create", !.about = Len(purchases) + 1, !.try = 1]
  IN  /\ Free(q, "Purchase") /\ Len(purchases) < workload.starts
      /\ purchases' = Append(purchases, [ref |-> 0, unanswered |-> 0])
      /\ ask' = [ask EXCEPT ![q] = a]
      /\ wire' = wire \cup {Posted(q, a)}
      /\ UNCHANGED <<proxies, settled>>

\* Commands on the same proxy meet.
Busy(p) ==
  \/ \E c \in Calls : ask[c].op \in Commands /\ ask[c].about = p
  \/ \E w \in wire : w.op \in Commands /\ w.about = p

\* Cancel, Suspend and Resume name a proxy that a purchase returned.
Command(q, op, p) ==
  LET a == [op |-> op, about |-> p, try |-> 1, answer |-> "none", found |-> 0,
            alone |-> ~Busy(p)]
  IN  /\ Free(q, op) /\ \E n \in DOMAIN purchases : purchases[n].ref = p
      /\ ask' = [c \in Calls |->
           IF c = q THEN a
           ELSE [ask[c] EXCEPT !.alone = @ /\ ~(ask[c].op \in Commands /\ ask[c].about = p)]]
      /\ wire' = wire \cup {Posted(q, a)}
      /\ settled' = [settled EXCEPT ![p] = IF @ = "deleted" THEN @ ELSE "unknown"]
      /\ UNCHANGED <<proxies, purchases>>

\* No answer in time, a broken connection or a 5xx: the request is sent again,
\* up to maxRetries times in all; the old one may still be served.
Unanswered(q) ==
  LET a == ask[q]
      unheard == {[w EXCEPT !.waits = @ \ {q}] : w \in wire}
      again == [a EXCEPT !.try = a.try + 1, !.answer = "none", !.found = 0]
  IN  /\ a.op \in Sent
      /\ purchases' = IF a.op = "create"
                      THEN [purchases EXCEPT ![a.about].unanswered = @ + 1] ELSE purchases
      /\ \/ /\ a.try < MaxTries
            /\ ask' = [ask EXCEPT ![q] = again]
            /\ wire' = unheard \cup {Posted(q, again)}
         \/ /\ a.try = MaxTries
            /\ Forget(q)
            /\ wire' = unheard
      /\ UNCHANGED <<proxies, settled>>

\* Mutant: an answer that cannot be read is a reason to send the POST again.
UnreadableRetried(q) ==
  LET again == [ask[q] EXCEPT !.try = @ + 1, !.answer = "none", !.found = 0]
  IN  /\ ask[q].op = "create" /\ ask[q].answer = "done" /\ ask[q].try < MaxTries
      /\ ask' = [ask EXCEPT ![q] = again]
      /\ wire' = wire \cup {Posted(q, again)}
      /\ UNCHANGED <<proxies, purchases, settled>>

\* An answer that cannot be read is an error at once, though the proxy is there.
CreateUnreadable(q) ==
  /\ ask[q].op = "create" /\ ask[q].answer = "done"
  /\ Forget(q)
  /\ UNCHANGED <<proxies, purchases, wire, settled>>

\* The answer names the proxy; from then on it is polled.
CreateAnswered(q) ==
  /\ ask[q].op = "create" /\ ask[q].answer = "done"
  /\ ask' = [ask EXCEPT ![q] = [@ EXCEPT !.op = "poll", !.answer = "none"]]
  /\ UNCHANGED <<proxies, purchases, wire, settled>>

\* WaitForRunning returns a proxy that is no longer being created, and Purchase
\* takes it unless its status is error.
PollAnswered(q) ==
  LET p == ask[q].found IN
  /\ ask[q].op = "poll" /\ proxies[p].status \notin {"creating", "error"}
  /\ purchases' = [purchases EXCEPT ![ask[q].about].ref = p]
  /\ settled' = [settled EXCEPT ![p] = proxies[p].status]
  /\ Forget(q)
  /\ UNCHANGED <<proxies, wire>>

\* CreateProxy is refused.
CreateRefused(q) ==
  /\ ask[q].op = "create" /\ ask[q].answer = "refused"
  /\ Forget(q)
  /\ UNCHANGED <<proxies, purchases, wire, settled>>

\* A poll fails or comes to its deadline: the proxy stays at the manager.
PollFails(q) ==
  /\ ask[q].op = "poll"
  /\ Forget(q)
  /\ UNCHANGED <<proxies, purchases, wire, settled>>

\* Purchase takes no proxy in status error, nor one that it can make no
\* credentials of (any may be such a one); it stays at the manager too.
NoCredentials(q) ==
  /\ ask[q].op = "poll" /\ proxies[ask[q].found].status # "creating"
  /\ Forget(q)
  /\ UNCHANGED <<proxies, purchases, wire, settled>>

\* Mutant: Cancel takes any refusal for "already deleted".
AnyRefusal(a) == a.op = "Cancel" /\ a.answer = "refused"

\* Cancel takes a 404, and no other refusal, for success.
AlreadyGone(a) ==
  a.op = "Cancel" /\ a.answer = "refused" /\ proxies[a.about].status = "deleted"

\* The answer to a command.  What it says of the proxy is sure if no other
\* command met it, and a deletion is sure in any case.
CommandAnswered(q) ==
  LET a == ask[q]
      succeeds == a.answer = "done" \/ AlreadyGone(a)
      sure == succeeds /\ (a.alone \/ a.op = "Cancel")
  IN  /\ a.op \in Commands /\ a.answer # "none"
      /\ settled' = [settled EXCEPT ![a.about] =
                       IF sure /\ @ # "deleted" THEN Result(a.op) ELSE @]
      /\ Forget(q)
      /\ UNCHANGED <<proxies, purchases, wire>>

ProvidersNext ==
  \/ \E q \in Calls :
       \/ Purchase(q) \/ CreateAnswered(q) \/ CreateUnreadable(q) \/ PollAnswered(q)
       \/ \E op \in Commands, p \in DOMAIN proxies : Command(q, op, p)
       \/ CommandAnswered(q) \/ Unanswered(q)
       \/ CreateRefused(q) \/ PollFails(q) \/ NoCredentials(q)
  \/ \E p \in DOMAIN proxies : Boots(p)
  \/ \E w \in wire : Serves(w) \/ Refuses(w)

ProvidersSpec ==
  /\ WorkloadInit /\ ProvidersInit
  /\ [][ProvidersNext /\ UNCHANGED workload]_<<providersVars, workload>>
-----------------------------------------------------------------------------
ProvidersTypeOK ==
  /\ proxies \in Seq([status: ProxyStatuses, purchase: Nat])
  /\ purchases \in Seq([ref: Nat, unanswered: 0 .. MaxTries])
  /\ ask \in [Calls -> AskRecord]
  /\ wire \subseteq [waits: SUBSET Calls, op: Sent, about: Nat, try: 1 .. MaxTries]
  /\ settled \in Seq(ProxyStatuses \cup {"unknown"})

ProxiesOf(n) == {p \in DOMAIN proxies : proxies[p].purchase = n}

\* However often its POST is sent again, a purchase leaves one proxy, and one
\* more for each POST that went unanswered, which nobody can name or cancel;
\* and what it returns is a proxy of its own (vpm/client.go:85-115, 168-183).
BoughtOnce ==
  \A n \in DOMAIN purchases :
    /\ Cardinality(ProxiesOf(n)) <= 1 + purchases[n].unanswered
    /\ purchases[n].ref # 0 => purchases[n].ref \in ProxiesOf(n)

\* What Purchase, Cancel, Suspend and Resume report is so until the next
\* command, unless another one met them or was still on its way from an
\* earlier try; and a cancelled proxy is gone for good, whatever arrives late
\* (vpm/adapter.go:200-233).
AnswersTrue ==
  \A p \in DOMAIN proxies : settled[p] \in {"unknown", proxies[p].status}
=============================================================================
