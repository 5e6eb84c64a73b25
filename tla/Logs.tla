-------------------------------- MODULE Logs --------------------------------
(***************************************************************************)
(* log-service: the events of all services, delivered by JetStream at      *)
(* least once, become rows of logs.entries and messages to the WebSocket   *)
(* clients of the hub.  What an entry says is left out, but whose it is.   *)
(***************************************************************************)
EXTENDS Platform

CONSTANTS
  MaxDeliver,  \* of the consumer: how often JetStream delivers an event
  Buffer       \* the capacity of a client's send channel

ASSUME LogsAssumption == MaxDeliver \in Nat \ {0} /\ Buffer \in Nat

VARIABLES
  stream,    \* the events of PVP_EVENTS, in the order of publication
  consumer,  \* runConsumer: the event it handles, and how far it came
  entries,   \* logs.entries: whose, and (history) of which event
  clients    \* the WebSocket clients there ever were

logsVars == <<stream, consumer, entries, clients>>

NoUserID == "none"  \* UserID is nil

\* left: the deliveries that remain.
Event == [user: Members \cup {NoUserID}, left: 0 .. MaxDeliver,
          state: {"due", "out", "acked", "dropped"}]

Waiting == [step |-> "idle", event |-> 0]

\* registered: the hub has it.  pump: its write pump runs.  got: what was
\* written to it.
Client == [user: Members, role: Roles, registered: BOOLEAN, pump: BOOLEAN,
           send: Seq(Nat), got: SUBSET Nat]
-----------------------------------------------------------------------------
LogsInit == stream = <<>> /\ consumer = Waiting /\ entries = <<>> /\ clients = <<>>

(* JetStream. *)

Publish(u) ==
  /\ Asked("event") /\ Len(stream) < workload.starts
  /\ stream' = Append(stream, [user |-> u, left |-> MaxDeliver, state |-> "due"])
  /\ UNCHANGED <<consumer, entries, clients>>

\* An event comes back for another delivery, or was delivered often enough.
Returned(e) == [e EXCEPT !.state = IF e.left > 0 THEN "due" ELSE "dropped"]

\* AckWait runs out, for an acknowledgement that is late or was lost.
AckWaitOver(i) ==
  /\ stream[i].state = "out"
  /\ stream' = [stream EXCEPT ![i] = Returned(@)]
  /\ UNCHANGED <<consumer, entries, clients>>
-----------------------------------------------------------------------------
(* StartConsumer and its handler. *)

\* The handler starts with an event.
Fetched(i) ==
  /\ consumer.step = "idle" /\ stream[i].state = "due"
  /\ stream' = [stream EXCEPT ![i] = [stream[i] EXCEPT !.state = "out", !.left = @ - 1]]
  /\ consumer' = [step |-> "built", event |-> i]
  /\ UNCHANGED <<entries, clients>>

\* Fetch fails: the loop returns, and nothing starts it again.
FetchFails ==
  /\ consumer.step = "idle"
  /\ consumer' = [Waiting EXCEPT !.step = "stopped"]
  /\ UNCHANGED <<stream, entries, clients>>

\* UserID is the payload's user_id, or nil.
buildEntry(i) == [user |-> stream[i].user, event |-> i]

InsertEntry(i) == entries' = Append(entries, buildEntry(i))

PersistLog ==
  /\ consumer.step = "built"
  /\ InsertEntry(consumer.event)
  /\ consumer' = [consumer EXCEPT !.step = "stored"]
  /\ UNCHANGED <<stream, clients>>

\* Mutant: the error is only logged, and the event acknowledged.
PersistErrorLogged ==
  /\ consumer.step = "built"
  /\ consumer' = [consumer EXCEPT !.step = "sent"]
  /\ UNCHANGED <<stream, entries, clients>>

\* The INSERT fails, though the row may be there: Nak, which may be lost, asks
\* for the event again.
PersistFails ==
  LET i == consumer.event IN
  /\ consumer.step = "built"
  /\ InsertEntry(i) \/ UNCHANGED entries
  /\ \/ UNCHANGED stream
     \/ /\ stream[i].state = "out"
        /\ stream' = [stream EXCEPT ![i] = Returned(@)]
  /\ consumer' = Waiting
  /\ UNCHANGED clients

IsAdmin(c) == c.role \in AdminRoles

\* Whom the hub shows an entry: admins, and the user it is about.
Allowed(c, entry) == IsAdmin(c) \/ entry.user = c.user

\* A client whose channel is full misses the entry.
Broadcast ==
  LET n == CHOOSE k \in DOMAIN entries :
             /\ entries[k].event = consumer.event
             /\ \A l \in k + 1 .. Len(entries) : entries[l].event # consumer.event
      sees(c) == c.registered /\ Allowed(c, entries[n]) /\ Len(c.send) < Buffer
  IN  /\ consumer.step = "stored"
      /\ clients' = [k \in DOMAIN clients |->
           IF sees(clients[k]) THEN [clients[k] EXCEPT !.send = Append(@, n)]
           ELSE clients[k]]
      /\ consumer' = [consumer EXCEPT !.step = "sent"]
      /\ UNCHANGED <<stream, entries>>

\* The acknowledgement ends the event, however late, unless it is lost.
Ack ==
  LET i == consumer.event IN
  /\ consumer.step = "sent"
  /\ stream' \in {stream, [stream EXCEPT ![i].state = "acked"]}
  /\ consumer' = Waiting
  /\ UNCHANGED <<entries, clients>>

\* The connections and the event in hand are lost.
Restart ==
  /\ consumer' = Waiting
  /\ clients' = [k \in DOMAIN clients |->
       [clients[k] EXCEPT !.registered = FALSE, !.pump = FALSE, !.send = <<>>]]
  /\ UNCHANGED <<stream, entries>>
-----------------------------------------------------------------------------
(* WebSocket clients. *)

\* User and role are what the query string says.
Connect(u, role) ==
  /\ Asked("watch") /\ Len(clients) < workload.inFlight
  /\ clients' = Append(clients, [user |-> u, role |-> role, registered |-> TRUE,
                                 pump |-> TRUE, send |-> <<>>, got |-> {}])
  /\ UNCHANGED <<stream, consumer, entries>>

\* The write pump takes a message and writes it, or fails and ends.
Pump(k) ==
  LET c == clients[k] IN
  /\ c.pump /\ c.send # <<>>
  /\ \/ /\ c.registered
        /\ clients' = [clients EXCEPT ![k] =
             [c EXCEPT !.send = Tail(@), !.got = @ \cup {Head(c.send)}]]
     \/ clients' = [clients EXCEPT ![k] = [c EXCEPT !.send = Tail(@), !.pump = FALSE]]
  /\ UNCHANGED <<stream, consumer, entries>>

\* The read pump ends; the channel stays open, and its write pump waits on.
Disconnect(k) ==
  /\ clients[k].registered
  /\ clients' = [clients EXCEPT ![k].registered = FALSE]
  /\ UNCHANGED <<stream, consumer, entries>>

\* Bound: what can go wrong at any time does so once there is an event.
LogsNext ==
  \/ \E u \in Members \cup {NoUserID} : Publish(u)
  \/ \E i \in DOMAIN stream : AckWaitOver(i) \/ Fetched(i)
  \/ PersistLog \/ PersistFails \/ Broadcast \/ Ack
  \/ stream # <<>> /\ (FetchFails \/ Restart)
  \/ \E u \in Members, role \in Roles : Connect(u, role)
  \/ \E k \in DOMAIN clients : Pump(k) \/ Disconnect(k)

LogsSpec ==
  /\ WorkloadInit /\ LogsInit
  /\ [][LogsNext /\ UNCHANGED workload]_<<logsVars, workload>>
-----------------------------------------------------------------------------
LogsTypeOK ==
  /\ stream \in Seq(Event)
  /\ consumer \in [step: {"idle", "built", "stored", "sent", "stopped"}, event: Nat]
  /\ entries \in Seq([user: Members \cup {NoUserID}, event: DOMAIN stream])
  /\ clients \in Seq(Client)

EntriesOf(i) == {k \in DOMAIN entries : entries[k].event = i}

\* The REST endpoint: only admins choose whose rows they ask for; no filter
\* lets all rows pass.
filterUserID(caller, asked) == IF IsAdmin(caller) THEN asked ELSE caller.user

listLogs(userID) == {k \in DOMAIN entries : userID \in {NoUserID, entries[k].user}}

\* An acknowledged event is in the log, and no event is there more often than
\* it was delivered; and the hub shows nobody what is not in the log, or what
\* the REST endpoint would keep from them
\* (log-service/cmd/server/main.go:85-99, 189-207, 258-271).
EntriesFaithful ==
  /\ \A i \in DOMAIN stream :
       /\ stream[i].state = "acked" => EntriesOf(i) # {}
       /\ Cardinality(EntriesOf(i)) <= MaxDeliver - stream[i].left
  /\ \A k \in DOMAIN clients :
       clients[k].got \cup {clients[k].send[n] : n \in DOMAIN clients[k].send}
         \subseteq listLogs(filterUserID(clients[k], NoUserID))
=============================================================================
