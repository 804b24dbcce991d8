---------------------------- MODULE HermesGateway ----------------------------
(***************************************************************************)
(* HermesAdapter (adapters/hermes/gateway.py): runs share one WebSocket,   *)
(* whose receive loop resolves calls and files events by run; a socket may *)
(* drop at any time, and is replaced by whoever needs one first.           *)
(*                                                                         *)
(* A step ends at an await that can suspend; ws.send, which is awaited     *)
(* outside the deadline of its call, is taken to return or raise at once.  *)
(* The backend (external) goes on with its runs when a socket drops.  It   *)
(* names a run by the session ("tui") or gives it a run id of its own      *)
(* ("native").                                                             *)
(***************************************************************************)
EXTENDS Naturals, Sequences, SequencesExt

CONSTANTS Runs,
          MaxSockets,   \* bound: sockets ever opened
          MaxUnread,    \* bound: unread messages of one socket
          Clients       \* who uses the adapter: which runs are submitted, which are
                        \* native, consumed, cancelled; does somebody disconnect;
                        \* how much noise there is

ASSUME HermesAssumption ==
  /\ MaxSockets \in Nat \ {0} /\ MaxUnread \in Nat
  /\ \A c \in Clients : /\ c.runs \subseteq Runs /\ c.native \subseteq Runs
                        /\ c.streamed \subseteq Runs /\ c.cancelled \subseteq Runs
                        /\ c.disconnects \in BOOLEAN /\ c.noise \in Nat

VARIABLES
  clients,      \* the chosen member of Clients
  ws,           \* self._ws, 0 for None
  connected,    \* self._connected
  shutdown,     \* self._shutdown
  reconnect,    \* the reconnect task
  receiving,    \* sockets whose _recv_loop runs
  deaf,         \* history: sockets whose _recv_loop ended with an exception
  submitter,    \* await of each run's submit, or its outcome
  stale,        \* has the connection generation changed since the session was made?
  wasConnected, \* was_connected of each submit
  id,           \* which id the run goes by
  queue,        \* event queue of each run and id
  queued,       \* ids of each run that have a queue
  result,       \* _completed_results
  subscribed,   \* runs subscribed to
  lock,         \* who holds a run's subscription lock
  call,         \* RPC of each run and caller
  waiter, stream, canceller,
  quiesced,     \* runs whose quiesce has returned
  heard,        \* history: was a terminal event of the run read since its session?
  sockets, open, wire, asked,       \* the sockets, and what the backend has to answer
  backend, home,                    \* the runs of the backend, and their socket
  noted         \* progress events and garbage written so far

adapter == <<ws, connected, shutdown, reconnect, receiving, deaf>>
registry == <<stale, wasConnected, id, queue, queued, result, subscribed, lock, heard>>
callers == <<submitter, waiter, stream, canceller, quiesced>>
world == <<clients, sockets, open, wire, asked, backend, home, noted>>
vars == <<adapter, registry, call, callers, world>>

Sockets == 1..MaxSockets
Ids == {"tui", "native"}
Callers == {"submit", "wait", "stream", "cancel"}
Terminal == {"completed", "error", "lost"}
Statuses == {"completed", "failed"}

Init ==
  /\ clients \in Clients
  /\ ws = 1 /\ connected = TRUE /\ shutdown = FALSE /\ reconnect = "none"
  /\ receiving = {1} /\ deaf = {}
  /\ submitter = [r \in Runs |-> "idle"]
  /\ stale = [r \in Runs |-> FALSE] /\ wasConnected = [r \in Runs |-> FALSE]
  /\ id = [r \in Runs |-> "tui"]
  /\ queue = [r \in Runs |-> [i \in Ids |-> <<>>]] /\ queued = [r \in Runs |-> {}]
  /\ result = [r \in Runs |-> [i \in Ids |-> "none"]]
  /\ subscribed = {} /\ lock = [r \in Runs |-> "none"]
  /\ call = [r \in Runs |-> [c \in Callers |-> "none"]]
  /\ waiter = [r \in Runs |-> "idle"] /\ stream = [r \in Runs |-> "idle"]
  /\ canceller = [r \in Runs |-> "idle"] /\ quiesced = {}
  /\ heard = [r \in Runs |-> FALSE]
  /\ sockets = 1 /\ open = {1}
  /\ wire = [s \in Sockets |-> <<>>] /\ asked = [s \in Sockets |-> {}]
  /\ backend = [r \in Runs |-> "none"] /\ home = [r \in Runs |-> 0]
  /\ noted = 0

-----------------------------------------------------------------------------
(* Results and queues. *)

StatusOf(event) == IF event = "completed" THEN "completed" ELSE "failed"

\* Mutation: the last terminal event is the result.
RecordedLast(old, event) == IF event \in Terminal THEN StatusOf(event) ELSE old

\* _record_event: the first terminal event is the result.
Recorded(old, event) ==
  IF old = "none" /\ event \in Terminal THEN StatusOf(event) ELSE old

\* _record_buffered_events: each in turn, so the first terminal one counts.
Ends(events) == {n \in DOMAIN events : events[n] \in Terminal}

RecordedAll(old, events) ==
  IF Ends(events) = {} THEN old ELSE Recorded(old, events[Min(Ends(events))])

\* self._handles: the tui handle from the session on, the native one from the
\* acknowledgement on.
HandleKnown(r, i) ==
  \/ submitter[r] \in {"prompting", "refused"} /\ i = "tui"
  \/ submitter[r] = "handed" /\ i = id[r]

ResultOf(r) == result[r][id[r]]

-----------------------------------------------------------------------------
(* Connections. *)

\* connect, once the socket is there.
Opened ==
  /\ sockets' = sockets + 1
  /\ ws' = sockets'
  /\ connected' = TRUE
  /\ receiving' = receiving \cup {sockets'}
  /\ open' = open \cup {sockets'}
  /\ stale' = [r \in Runs |-> TRUE]

\* Queues without a result, all of which a lost connection gives an error.
Active(r) == {i \in queued[r] : result[r][i] = "none"}

FailQueues ==
  queue' = [r \in Runs |-> [i \in Ids |->
              IF i \in Active(r) THEN Append(queue[r][i], "lost") ELSE queue[r][i]]]

\* Mutation: the error is left to whoever reads the queue.
FailUnrecorded == FailQueues /\ UNCHANGED result

\* _fail_active_runs: the error is the result of a run whose handle is known.
FailActive ==
  /\ FailQueues
  /\ result' = [r \in Runs |-> [i \in Ids |->
                  IF i \in Active(r) /\ HandleKnown(r, i) THEN "failed" ELSE result[r][i]]]

FailPending ==
  call' = [r \in Runs |-> [c \in Callers |->
             IF call[r][c] \in {"pending", "expired"} THEN "failed" ELSE call[r][c]]]

\* _handle_connection_closed, when the receive loop of s has read everything.
NoticeClosed(s) ==
  /\ s \in receiving /\ s \notin open /\ wire[s] = <<>>
  /\ receiving' = receiving \ {s}
  /\ connected' = FALSE
  /\ stale' = [r \in Runs |-> TRUE]
  /\ FailActive
  /\ FailPending
  /\ reconnect' = IF ~shutdown /\ reconnect = "none" THEN "scheduled" ELSE reconnect
  /\ UNCHANGED <<ws, shutdown, deaf, wasConnected, id, queued, subscribed, lock, heard,
                 callers, world>>

ReconnectKept == UNCHANGED <<shutdown, deaf, wasConnected, id, queue, queued, result, subscribed,
                             lock, heard, call, callers, clients, wire, asked, backend, home, noted>>

\* _reconnect sleeps, and tries once if nobody has disconnected.
ReconnectStarts ==
  /\ reconnect = "scheduled"
  /\ reconnect' = "sleeping"
  /\ connected' = FALSE
  /\ ReconnectKept
  /\ UNCHANGED <<ws, receiving, stale, sockets, open>>

Reconnected ==
  /\ reconnect = "sleeping"
  /\ sockets < MaxSockets
  /\ reconnect' = "none"
  /\ Opened
  /\ ReconnectKept

ReconnectFails ==
  /\ reconnect = "sleeping"
  /\ reconnect' = "none"
  /\ ReconnectKept
  /\ UNCHANGED <<ws, connected, receiving, stale, sockets, open>>

Disconnect ==
  /\ clients.disconnects
  /\ ~shutdown \/ ws # 0
  /\ shutdown' = TRUE
  /\ connected' = FALSE
  /\ reconnect' = "none"
  /\ stale' = [r \in Runs |-> TRUE]
  /\ FailActive
  /\ FailPending
  /\ receiving' = receiving \ {ws}
  /\ open' = open \ {ws}
  /\ ws' = 0
  /\ UNCHANGED <<deaf, wasConnected, id, queued, subscribed, lock, heard, callers,
                 clients, sockets, wire, asked, backend, home, noted>>

Reconnects == ReconnectStarts \/ Reconnected \/ ReconnectFails

-----------------------------------------------------------------------------
(* _call. *)

\* The request leaves by the socket; on one that has dropped it raises or
\* vanishes.  A prompt ties the run to the socket.
SendOn(socket, r, c, method) ==
  /\ call' = [call EXCEPT ![r][c] = "pending"]
  /\ asked' = [asked EXCEPT ![socket] = @ \cup {<<r, c, method>>}]
  /\ home' = IF method = "prompt" THEN [home EXCEPT ![r] = socket] ELSE home

SendFails(r, c) ==
  /\ call' \in {[call EXCEPT ![r][c] = state] : state \in {"pending", "failed"}}
  /\ UNCHANGED <<asked, home>>

\* _ensure_connected, and the request if there is a connection.
Begin(r, c, method) ==
  IF shutdown \/ ~connected
    THEN /\ call' = [call EXCEPT ![r][c] = IF shutdown THEN "failed" ELSE "connecting"]
         /\ UNCHANGED <<asked, home>>
    ELSE IF ws \in open THEN SendOn(ws, r, c, method) ELSE SendFails(r, c)

\* Every caller that found no connection opens one.
MethodOf(r, c) ==
  CASE c = "submit" -> IF submitter[r] = "creating" THEN "create" ELSE "prompt"
    [] c \in {"wait", "stream"} -> "subscribe"
    [] c = "cancel" -> "interrupt"

Connects(r, c) ==
  /\ call[r][c] = "connecting"
  /\ \/ /\ sockets < MaxSockets
        /\ Opened
        /\ SendOn(sockets', r, c, MethodOf(r, c))
     \/ /\ call' = [call EXCEPT ![r][c] = "failed"]
        /\ UNCHANGED <<ws, connected, receiving, stale, sockets, open, asked, home>>
  /\ UNCHANGED <<shutdown, reconnect, deaf, wasConnected, id, queue, queued, result, subscribed,
                 lock, heard, callers, clients, wire, backend, noted>>

\* The timer of wait_for: the future is cancelled now, and popped when the
\* caller runs again.
CallExpires(r, c) ==
  /\ call[r][c] = "pending"
  /\ call' = [call EXCEPT ![r][c] = "expired"]
  /\ UNCHANGED <<adapter, registry, callers, world>>

Done(r, c) == call' = [call EXCEPT ![r][c] = "none"]
Raised(r, c) == call[r][c] \in {"failed", "expired"}

-----------------------------------------------------------------------------
(* submit. *)

SubmitAt(r, place) == submitter' = [submitter EXCEPT ![r] = place]
SubmitKept == UNCHANGED <<adapter, subscribed, lock, waiter, stream, canceller, quiesced,
                          clients, sockets, open, wire, backend, noted>>

Submit(r) ==
  /\ r \in clients.runs /\ submitter[r] = "idle"
  /\ SubmitAt(r, "creating")
  /\ Begin(r, "submit", "create")
  /\ SubmitKept
  /\ UNCHANGED <<stale, wasConnected, id, queue, queued, result, heard>>

\* session.create is answered: the run is registered under a provisional id
\* before its prompt is sent.
Created(r) ==
  /\ submitter[r] = "creating" /\ call[r]["submit"] = "answered"
  /\ SubmitAt(r, "prompting")
  /\ stale' = [stale EXCEPT ![r] = FALSE]
  /\ wasConnected' = [wasConnected EXCEPT ![r] = connected]
  /\ queued' = [queued EXCEPT ![r] = @ \cup {"tui"}]
  /\ Begin(r, "submit", "prompt")
  /\ SubmitKept
  /\ UNCHANGED <<id, queue, result, heard>>

\* The call raises (or names no session): the provisional run is undone.
SubmitRaises(r) ==
  /\ \/ submitter[r] \in {"creating", "prompting"} /\ Raised(r, "submit")
     \/ submitter[r] = "creating" /\ call[r]["submit"] = "answered"
  /\ SubmitAt(r, "raised")
  /\ Done(r, "submit")
  /\ queued' = [queued EXCEPT ![r] = @ \ {"tui"}]
  /\ queue' = [queue EXCEPT ![r]["tui"] = <<>>]
  /\ SubmitKept
  /\ UNCHANGED <<stale, wasConnected, id, result, heard, asked, home>>

\* The acknowledgement accepts nothing: submit raises, the provisional run stays.
SubmitRefused(r) ==
  /\ submitter[r] = "prompting" /\ call[r]["submit"] = "answered"
  /\ SubmitAt(r, "refused")
  /\ Done(r, "submit")
  /\ SubmitKept
  /\ UNCHANGED <<stale, wasConnected, id, queue, queued, result, heard, asked, home>>

LostDuringSubmit(r) == shutdown \/ stale[r] \/ (wasConnected[r] /\ ~connected)

\* Mutation: the provisional queue replaces what was filed under the native id.
AdoptedTui(r) == queue[r]["tui"]

\* The queue of the id the run is handed out with: a native run takes over what
\* was filed under the provisional id.
Adopted(r) ==
  IF r \in clients.native THEN queue[r]["native"] \o queue[r]["tui"] ELSE queue[r]["tui"]

Prompted(r, buffered) ==
  LET i == IF r \in clients.native THEN "native" ELSE "tui" IN
    /\ submitter[r] = "prompting" /\ call[r]["submit"] = "answered"
    /\ SubmitAt(r, "handed")
    /\ Done(r, "submit")
    /\ id' = [id EXCEPT ![r] = i]
    /\ queued' = [queued EXCEPT ![r] = {i}]
    /\ queue' = [queue EXCEPT ![r] = [j \in Ids |-> IF j = i THEN Adopted(r) ELSE <<>>]]
    /\ result' = [result EXCEPT ![r][i] =
                    RecordedAll(IF LostDuringSubmit(r) THEN Recorded(@, "lost") ELSE @, buffered)]
    /\ SubmitKept
    /\ UNCHANGED <<stale, wasConnected, heard, asked, home>>

\* Mutation: what came before the acknowledgement is left in the queue.
AcceptedUnread(r) == Prompted(r, <<>>)

\* prompt.submit is acknowledged.
Accepted(r) == Prompted(r, Adopted(r))

Submits(r) ==
  Submit(r) \/ Created(r) \/ SubmitRaises(r) \/ SubmitRefused(r) \/ Accepted(r)

-----------------------------------------------------------------------------
(* _recv_loop. *)

Receives(s) ==
  /\ s \in receiving /\ wire[s] # <<>>
  /\ wire' = [wire EXCEPT ![s] = Tail(@)]
  /\ UNCHANGED <<ws, connected, shutdown, reconnect, stale, wasConnected, id, subscribed, lock,
                 callers, clients, sockets, open, asked, backend, home, noted>>

\* The loop ends with an exception nobody looks at: the adapter stays connected
\* to a socket it no longer hears.
Deafens(s) ==
  /\ receiving' = receiving \ {s}
  /\ deaf' = deaf \cup {s}

\* An answer resolves its call; one whose timer has fired cannot be resolved.
ReceiveAnswer(s) ==
  /\ Receives(s)
  /\ Head(wire[s]).kind = "answer"
  /\ LET m == Head(wire[s]) IN
       /\ IF call[m.run][m.caller] = "expired" THEN Deafens(s) ELSE UNCHANGED <<receiving, deaf>>
       /\ call' = IF call[m.run][m.caller] # "pending" THEN call
                  ELSE [call EXCEPT ![m.run][m.caller] = IF m.ok THEN "answered" ELSE "failed"]
  /\ UNCHANGED <<queue, queued, result, heard>>

\* Where an event is filed: by session while the run is registered, or under
\* the native id, registered or not.
FiledUnder(m) ==
  IF m.via = "native" THEN {"native"}
  ELSE IF submitter[m.run] \in {"prompting", "refused", "handed"} THEN {id[m.run]} ELSE {}

ReceiveEvent(s) ==
  /\ Receives(s)
  /\ Head(wire[s]).kind = "event"
  /\ LET m == Head(wire[s])
         r == m.run
     IN /\ queue' = [queue EXCEPT ![r] = [i \in Ids |->
                       IF i \in FiledUnder(m) THEN Append(@[i], m.event) ELSE @[i]]]
        /\ queued' = [queued EXCEPT ![r] = @ \cup FiledUnder(m)]
        /\ result' = [result EXCEPT ![r] = [i \in Ids |->
                        IF i \in FiledUnder(m) /\ HandleKnown(r, i)
                          THEN Recorded(@[i], m.event) ELSE @[i]]]
        /\ heard' = [heard EXCEPT ![r] = @ \/ (FiledUnder(m) # {} /\ m.event \in Terminal)]
  /\ UNCHANGED <<receiving, deaf, call>>

\* A frame that is no JSON.
ReceiveGarbage(s) ==
  /\ Receives(s)
  /\ Head(wire[s]).kind = "garbage"
  /\ Deafens(s)
  /\ UNCHANGED <<call, queue, queued, result, heard>>

ReceiveLoop(s) == ReceiveAnswer(s) \/ ReceiveEvent(s) \/ ReceiveGarbage(s) \/ NoticeClosed(s)

-----------------------------------------------------------------------------
(* _subscribe, for wait and events; a run named by its session needs none. *)

Place(r, who) == IF who = "wait" THEN waiter[r] ELSE stream[r]

MoveTo(r, who, place) ==
  IF who = "wait" THEN waiter' = [waiter EXCEPT ![r] = place] /\ UNCHANGED stream
  ELSE stream' = [stream EXCEPT ![r] = place] /\ UNCHANGED waiter

ClientKept == UNCHANGED <<adapter, stale, wasConnected, id, queued, heard, submitter, canceller,
                          quiesced, clients, sockets, open, wire, backend, noted>>
RpcKept == UNCHANGED <<call, asked, home, subscribed, lock>>

After(who) == IF who = "wait" THEN "waiting" ELSE "reading"

\* Under the lock: one subscription serves both.
SubscribeCalls(r, who) ==
  /\ Place(r, who) = "subscribing" /\ lock[r] = "none"
  /\ IF r \in subscribed
       THEN MoveTo(r, who, After(who)) /\ UNCHANGED <<call, asked, home, lock>>
       ELSE /\ lock' = [lock EXCEPT ![r] = who]
            /\ Begin(r, who, "subscribe")
            /\ UNCHANGED <<waiter, stream>>
  /\ ClientKept
  /\ UNCHANGED <<queue, result, subscribed>>

Subscribed(r, who) ==
  /\ lock[r] = who /\ call[r][who] = "answered"
  /\ lock' = [lock EXCEPT ![r] = "none"]
  /\ Done(r, who)
  /\ subscribed' = subscribed \cup {r}
  /\ result' = [result EXCEPT ![r][id[r]] = RecordedAll(@, queue[r][id[r]])]
  /\ MoveTo(r, who, After(who))
  /\ ClientKept
  /\ UNCHANGED <<queue, asked, home>>

\* Mutation: a call that raises leaves the lock taken.
SubscribeRaisesLocked(r, who) ==
  /\ lock[r] = who /\ Raised(r, who)
  /\ Done(r, who)
  /\ MoveTo(r, who, IF who = "wait" /\ ResultOf(r) # "none" THEN "waiting" ELSE "raised")
  /\ ClientKept
  /\ UNCHANGED <<queue, result, subscribed, lock, asked, home>>

\* wait goes on if the run has its result all the same.
SubscribeRaises(r, who) ==
  /\ lock[r] = who /\ Raised(r, who)
  /\ lock' = [lock EXCEPT ![r] = "none"]
  /\ Done(r, who)
  /\ MoveTo(r, who, IF who = "wait" /\ ResultOf(r) # "none" THEN "waiting" ELSE "raised")
  /\ ClientKept
  /\ UNCHANGED <<queue, result, subscribed, asked, home>>

Subscribes(r) ==
  \E who \in {"wait", "stream"} :
    SubscribeCalls(r, who) \/ Subscribed(r, who) \/ SubscribeRaises(r, who)

-----------------------------------------------------------------------------
(* wait, events, cancel and quiesce. *)

Unresolved(r, place) == IF id[r] = "native" THEN "subscribing" ELSE place

WaitStarts(r) ==
  /\ submitter[r] = "handed" /\ waiter[r] = "idle"
  /\ MoveTo(r, "wait", IF ResultOf(r) # "none" THEN "returned" ELSE Unresolved(r, "waiting"))
  /\ ClientKept /\ RpcKept /\ UNCHANGED <<queue, result>>

WaitAnswers(r) ==
  /\ waiter[r] = "waiting" /\ ResultOf(r) # "none"
  /\ MoveTo(r, "wait", "returned")
  /\ ClientKept /\ RpcKept /\ UNCHANGED <<queue, result>>

WaitTimesOut(r) ==
  /\ waiter[r] = "waiting"
  /\ MoveTo(r, "wait", "raised")
  /\ ClientKept /\ RpcKept /\ UNCHANGED <<queue, result>>

StreamStarts(r) ==
  /\ r \in clients.streamed /\ submitter[r] = "handed" /\ stream[r] = "idle"
  /\ MoveTo(r, "stream",
       IF ResultOf(r) = "none" THEN Unresolved(r, "reading")
       ELSE IF queue[r][id[r]] = <<>> THEN "ended" ELSE "reading")
  /\ ClientKept /\ RpcKept /\ UNCHANGED <<queue, result>>

\* An event is taken, recorded and yielded; a terminal one is the last.
StreamReads(r) ==
  /\ stream[r] = "reading" /\ queue[r][id[r]] # <<>>
  /\ LET event == Head(queue[r][id[r]]) IN
       /\ queue' = [queue EXCEPT ![r][id[r]] = Tail(@)]
       /\ result' = [result EXCEPT ![r][id[r]] = Recorded(@, event)]
       /\ MoveTo(r, "stream", IF event \in Terminal THEN "ended" ELSE "reading")
  /\ ClientKept /\ RpcKept

StreamTimesOut(r) ==
  /\ stream[r] = "reading" /\ queue[r][id[r]] = <<>>
  /\ MoveTo(r, "stream", "raised")
  /\ ClientKept /\ RpcKept /\ UNCHANGED <<queue, result>>

CancelKept == UNCHANGED <<adapter, registry, submitter, waiter, stream, quiesced,
                          clients, sockets, open, wire, backend, noted>>

CancelStarts(r) ==
  /\ r \in clients.cancelled /\ submitter[r] = "handed" /\ canceller[r] = "idle"
  /\ canceller' = [canceller EXCEPT ![r] = "interrupting"]
  /\ Begin(r, "cancel", "interrupt")
  /\ CancelKept

CancelEnds(r) ==
  /\ canceller[r] = "interrupting"
  /\ call[r]["cancel"] = "answered" \/ Raised(r, "cancel")
  /\ canceller' = [canceller EXCEPT ![r] =
                     IF call[r]["cancel"] = "answered" THEN "returned" ELSE "raised"]
  /\ Done(r, "cancel")
  /\ CancelKept /\ UNCHANGED <<asked, home>>

\* quiesce does nothing; its callers have a result by then.
Quiesce(r) ==
  /\ submitter[r] = "handed" /\ ResultOf(r) # "none"
  /\ quiesced' = quiesced \cup {r}
  /\ UNCHANGED <<adapter, registry, call, submitter, waiter, stream, canceller, world>>

Client(r) ==
  \/ Submits(r) \/ Subscribes(r)
  \/ WaitStarts(r) \/ WaitAnswers(r) \/ WaitTimesOut(r)
  \/ StreamStarts(r) \/ StreamReads(r) \/ StreamTimesOut(r)
  \/ CancelStarts(r) \/ CancelEnds(r) \/ Quiesce(r)

-----------------------------------------------------------------------------
(* The gateway and the network (external). *)

Says(s, message) ==
  /\ Len(wire[s]) < MaxUnread
  /\ wire' = [wire EXCEPT ![s] = Append(@, message)]

\* Requests are answered in any order, or not; a prompt that is accepted starts
\* the run, perhaps long before the answer.
Answers(s) ==
  \E request \in asked[s], ok \in BOOLEAN :
    /\ request[3] = "prompt" => (ok <=> backend[request[1]] # "none")
    /\ Says(s, [kind |-> "answer", run |-> request[1], caller |-> request[2], ok |-> ok])
    /\ asked' = [asked EXCEPT ![s] = @ \ {request}]
    /\ UNCHANGED <<open, backend, noted>>

StartsRun(s) ==
  \E r \in Runs :
    /\ <<r, "submit", "prompt">> \in asked[s] /\ backend[r] = "none"
    /\ backend' = [backend EXCEPT ![r] = "running"]
    /\ UNCHANGED <<open, wire, asked, noted>>

\* A run speaks on the socket of its prompt while that is open.
EndsRun(s) ==
  \E r \in Runs, event \in {"completed", "error"} :
    /\ backend[r] = "running" /\ home[r] = s
    /\ backend' = [backend EXCEPT ![r] = "ended"]
    /\ \E via \in (IF r \in clients.native THEN {"session", "native"} ELSE {"session"}) :
         Says(s, [kind |-> "event", run |-> r, event |-> event, via |-> via])
    /\ UNCHANGED <<open, asked, noted>>

Speaks(s) ==
  /\ noted < clients.noise
  /\ noted' = noted + 1
  /\ \/ Says(s, [kind |-> "garbage"])
     \/ \E r \in Runs :
          /\ backend[r] = "running" /\ home[r] = s
          /\ Says(s, [kind |-> "event", run |-> r, event |-> "note", via |-> "session"])
  /\ UNCHANGED <<open, asked, backend>>

Drops(s) ==
  /\ open' = open \ {s}
  /\ asked' = [asked EXCEPT ![s] = {}]
  /\ UNCHANGED <<wire, backend, noted>>

Gateway(s) ==
  /\ s \in open
  /\ Answers(s) \/ StartsRun(s) \/ EndsRun(s) \/ Speaks(s) \/ Drops(s)
  /\ UNCHANGED <<adapter, registry, call, callers, clients, sockets, home>>

-----------------------------------------------------------------------------

\* What the event loop owes: coroutines that can go on, and timers.
Loop ==
  \/ \E r \in Runs : Client(r) \/ \E c \in Callers : Connects(r, c) \/ CallExpires(r, c)
  \/ \E s \in Sockets : ReceiveLoop(s)
  \/ Reconnects

Next == Loop \/ Disconnect \/ \E s \in Sockets : Gateway(s)

Spec == Init /\ [][Next]_vars

\* The event loop goes on as long as it has something to do; each coroutine has
\* few steps to take, so none is starved.  The gateway owes nothing.
FairSpec == Spec /\ WF_vars(Loop)

-----------------------------------------------------------------------------
(* Properties. *)

\* Nobody waits for a socket nobody listens to: a run handed out without a
\* result hears the socket of its prompt, unless its receive loop died of an
\* exception.  A loop that ends with its socket leaves no run behind, handed out
\* or about to be.
NoSilentRun ==
  \A r \in Runs :
    submitter[r] = "handed" /\ ResultOf(r) = "none" => home[r] \in receiving \cup deaf

\* A terminal event that was read is the run's result, even if it came before
\* the acknowledgement and under another id.
HeardIsRecorded ==
  \A r \in Runs : submitter[r] = "handed" /\ heard[r] => ResultOf(r) # "none"

\* And it reaches the consumer: the event stays queued under the id the run was
\* handed out with until the consumer has taken it and ended, whatever lost
\* connections, subscriptions and the change of id do to the queues meanwhile.
HeardIsStreamed ==
  \A r \in Runs :
    submitter[r] = "handed" /\ heard[r] /\ stream[r] # "ended" => Ends(queue[r][id[r]]) # {}

\* An end that was heard is kept for both who may ask: as the result for wait, and
\* in the queue for the consumer of events.
HeardIsKept == HeardIsRecorded /\ HeardIsStreamed

\* Nobody is forgotten: a submit or cancel that is suspended has a call under
\* way, which is answered, fails with its connection or expires; and the lock of
\* a subscription is held by a caller that has one, so it will be given back.
NobodyForgotten ==
  \A r \in Runs :
    /\ submitter[r] \in {"creating", "prompting"} => call[r]["submit"] # "none"
    /\ canceller[r] = "interrupting" => call[r]["cancel"] # "none"
    /\ \A who \in {"wait", "stream"} :
         lock[r] = who => Place(r, who) = "subscribing" /\ call[r][who] # "none"

Suspended(r) ==
  \/ submitter[r] \in {"creating", "prompting"}
  \/ waiter[r] \in {"subscribing", "waiting"}
  \/ stream[r] \in {"subscribing", "reading"}
  \/ canceller[r] = "interrupting"

\* Every submit, wait, cancel and consumer ends, whatever the gateway answers and
\* whenever sockets drop, as long as a send does not block.  (Each is called once,
\* so it has ended when nobody is suspended.)
CallersEnd == []<>(\A r \in Runs : ~Suspended(r))

\* The adapter implements, for each run, the run of the protocol.
Abstract(r) == INSTANCE AgentRun WITH
  Results <- Statuses, NoResult <- "none",
  handed <- submitter[r] = "handed",
  result <- IF submitter[r] = "handed" THEN ResultOf(r) ELSE "none",
  answers <- IF waiter[r] = "returned" THEN {ResultOf(r)} ELSE {},
  released <- r \in quiesced

\* The handle is handed out once, the first result stays, every wait answers
\* with it, and quiesce comes only after it.  (\A r : Abstract(r)!Spec, with
\* the quantifier inside, where TLC can evaluate it.)
ImplementsAgentRun ==
  /\ \A r \in Runs : Abstract(r)!Init
  /\ [][\A r \in Runs : [Abstract(r)!Next]_(Abstract(r)!run)]_vars

\* "AAO must confirm that the runtime has terminated before it rolls back and
\* deletes the staging workspace" (README.md:132-134): a run that quiesce has
\* returned for does not run.  Violated: a lost connection ends the run here only.
QuiescedRunEnded == \A r \in quiesced : backend[r] # "running"

=============================================================================
