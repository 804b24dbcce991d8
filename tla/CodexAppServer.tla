--------------------------- MODULE CodexAppServer ---------------------------
(***************************************************************************)
(* CodexAppServerAdapter (adapters/codex/app_server.py): one app-server    *)
(* process at a time, a reader task that correlates its JSON-RPC messages, *)
(* and the coroutines that submit turns, wait for them, cancel and quiesce *)
(* them.  Runs are submitted one after the other, as a runtime with        *)
(* max_concurrent_runs = 1 is used: a submit that raised may leave a turn  *)
(* behind, and the next run is submitted beside it.                        *)
(*                                                                         *)
(* A step ends at an await that can suspend.  Processes are external: they *)
(* answer late or never, notify in any order, misbehave and exit.  They    *)
(* are taken to read their input while they run: the write of a request    *)
(* and its drain, which has no deadline, do not suspend.                   *)
(***************************************************************************)
EXTENDS Naturals, Sequences

CONSTANTS MaxRuns,      \* runs, submitted in the order of their numbers
          Clients,      \* who uses the adapter: how many runs, whose events are
                        \* consumed, who is cancelled, how much noise there is
          MaxUnread     \* bound: unread messages of one process

ASSUME AppServerAssumption ==
  /\ MaxRuns \in Nat /\ MaxUnread \in Nat
  /\ \A c \in Clients : /\ c.runs \in 1..MaxRuns /\ c.noise \in Nat
                        /\ c.streamed \subseteq 1..MaxRuns /\ c.cancelled \subseteq 1..MaxRuns

VARIABLES
  clients,      \* the chosen member of Clients
  current,      \* self._process, 0 for None
  readerTask,   \* self._reader_task, named by the process it was created for
  closing,      \* self._closing
  protocolError,\* is self._protocol_error set?
  evidence,     \* has an initialize ever been answered? (never reset)
  future,       \* request of each run and call
  backlog,      \* self._backlog
  run,          \* _RunState of each run
  submitter,    \* await of each run's submit, or its outcome
  waiter, canceller, quiescer, stream,  \* the other calls of each run
  stopping,     \* process _stop_process waits for
  reading,      \* process each reader task reads from, 0 when it has ended
  up,           \* processes that run
  spawned,      \* processes created so far
  wire,         \* unread output of each process
  asked,        \* requests each process has not answered
  turn,         \* the turn of each run, as it is
  home,         \* process of that turn
  announced,    \* history: status of the first turn/completed read of each run
                \* while it had no result
  noted         \* notes, requests and garbage written so far

adapter == <<current, readerTask, closing, protocolError, evidence, backlog, stopping>>
calls == <<submitter, waiter, canceller, quiescer, stream>>
server == <<up, spawned, wire, asked, turn, home, noted, clients>>
vars == <<adapter, future, run, calls, reading, server, announced>>

Runs == 1..MaxRuns
Processes == 1..MaxRuns
Calls == {"submit", "wait", "cancel"}
TurnStatuses == {"completed", "failed", "interrupted"}
Statuses == {"completed", "failed", "cancelled", "timeout"}

NewRun == [result |-> "none", queue |-> <<>>, timeoutRequested |-> FALSE,
           cancelRequested |-> FALSE, quiesced |-> FALSE]

Init ==
  /\ current = 0 /\ readerTask = 0 /\ closing = FALSE /\ protocolError = FALSE
  /\ evidence = FALSE /\ backlog = <<>> /\ stopping = 0
  /\ future = [r \in Runs |-> [c \in Calls |-> "none"]]
  /\ run = [r \in Runs |-> NewRun]
  /\ submitter = [r \in Runs |-> "idle"]
  /\ waiter = [r \in Runs |-> "idle"] /\ canceller = [r \in Runs |-> "idle"]
  /\ quiescer = [r \in Runs |-> "idle"] /\ stream = [r \in Runs |-> "idle"]
  /\ reading = [p \in Processes |-> 0]
  /\ up = {} /\ spawned = 0
  /\ wire = [p \in Processes |-> <<>>] /\ asked = [p \in Processes |-> {}]
  /\ turn = [r \in Runs |-> "none"] /\ home = [r \in Runs |-> 0]
  /\ announced = [r \in Runs |-> "none"]
  /\ noted = 0
  /\ clients \in Clients

-----------------------------------------------------------------------------
(* Runs. *)

Registered(r) == submitter[r] = "handed"

\* Mutation: a late end keeps the result and is streamed all the same.
FinishedAgain(state, status) ==
  [state EXCEPT !.result = IF @ = "none" THEN status ELSE @, !.queue = Append(@, "end")]

\* _finish: the first result stays, and is the run's one terminal event.
Finished(state, status) ==
  IF state.result # "none" THEN state
  ELSE [state EXCEPT !.result = status, !.queue = Append(@, "end")]

\* Mutation: what the host asked for counts, whatever the server says came of it.
StatusByRequest(native, state) ==
  CASE state.timeoutRequested -> "timeout"
    [] ~state.timeoutRequested /\ state.cancelRequested -> "cancelled"
    [] OTHER -> IF native = "interrupted" THEN "failed" ELSE native

\* The status of turn/completed, by who asked for an interrupt.
StatusOf(native, state) ==
  CASE native \in {"completed", "failed"} -> native
    [] native = "interrupted" /\ state.timeoutRequested -> "timeout"
    [] native = "interrupted" /\ ~state.timeoutRequested /\ state.cancelRequested -> "cancelled"
    [] OTHER -> "failed"

\* _handle_notification: a note is queued, turn/completed ends the run.
Handled(state, notification) ==
  IF notification.kind = "note" THEN [state EXCEPT !.queue = Append(@, "note")]
  ELSE Finished(state, StatusOf(notification.status, state))

\* Mutation: the table is cleared, and who awaits a request is not told.
Cleared(futures) == [r \in Runs |-> [c \in Calls |->
                       IF futures[r][c] = "pending" THEN "none" ELSE futures[r][c]]]

Lost(futures) == [r \in Runs |-> [c \in Calls |->
                    IF futures[r][c] = "pending" THEN "lost" ELSE futures[r][c]]]

\* _fail_protocol: every pending request and every open run fails.
FailProtocol(futures, runs) ==
  /\ protocolError' = TRUE
  /\ future' = Lost(futures)
  /\ run' = [r \in Runs |-> IF Registered(r) THEN Finished(runs[r], "failed") ELSE runs[r]]

-----------------------------------------------------------------------------
(* Requests. *)

Live == current \in up

\* _request: the future is pending and the request is on its way.  (The drain under
\* the write lock is taken to return at once.)
Ask(r, call, method) ==
  /\ Live
  /\ future' = [future EXCEPT ![r][call] = "pending"]
  /\ asked' = [asked EXCEPT ![current] = @ \cup {<<r, call, method>>}]

Pop(r, call) == future' = [future EXCEPT ![r][call] = "none"]

Settled(r, call) == future[r][call] \in {"answered", "refused", "lost", "expired"}

\* Mutation: an interrupt is awaited without a timer.
SubmitExpires ==
  \E r \in Runs :
    /\ future[r]["submit"] = "pending"
    /\ future' = [future EXCEPT ![r]["submit"] = "expired"]
    /\ UNCHANGED <<adapter, run, calls, reading, server, announced>>

\* The timer of wait_for: the future is cancelled now, and popped when the
\* coroutine runs again.
RequestExpires ==
  \E r \in Runs, call \in Calls :
    /\ future[r][call] = "pending"
    /\ future' = [future EXCEPT ![r][call] = "expired"]
    /\ UNCHANGED <<adapter, run, calls, reading, server, announced>>

-----------------------------------------------------------------------------
(* _stop_process, begun and ended by quiesce or by a bad initialize. *)

StopBegins ==
  /\ closing' = TRUE
  /\ stopping' = current
  /\ current' = 0

\* The process is gone: the last reader is cancelled, pending requests fail.
StopEnds ==
  /\ stopping \notin up
  /\ stopping' = 0
  /\ reading' = [k \in Processes |-> IF k = readerTask THEN 0 ELSE reading[k]]
  /\ readerTask' = 0
  /\ future' = Lost(future)

-----------------------------------------------------------------------------
(* submit, with connect. *)

SubmitAt(r, place) == submitter' = [submitter EXCEPT ![r] = place]
CallsKept == UNCHANGED <<waiter, canceller, quiescer, stream>>

\* Runs come one after the other; connect keeps a process that runs if an
\* initialize was ever answered.
Submit(r) ==
  /\ r <= clients.runs /\ submitter[r] = "idle"
  /\ \A q \in 1..(r - 1) : submitter[q] = "raised" \/ run[q].quiesced
  /\ IF Live /\ evidence
       THEN /\ SubmitAt(r, "threading")
            /\ Ask(r, "submit", "thread")
            /\ UNCHANGED <<closing, protocolError>>
       ELSE /\ SubmitAt(r, "spawning")
            /\ closing' = FALSE /\ protocolError' = FALSE
            /\ UNCHANGED <<future, asked>>
  /\ CallsKept
  /\ UNCHANGED <<current, readerTask, evidence, backlog, stopping, run, reading,
                 up, spawned, wire, turn, home, noted, clients, announced>>

\* The new process takes the place of whatever self._process was.
Spawned(r) ==
  /\ submitter[r] = "spawning"
  /\ spawned' = spawned + 1
  /\ current' = spawned'
  /\ up' = up \cup {spawned'}
  /\ readerTask' = spawned'
  /\ reading' = [reading EXCEPT ![spawned'] = spawned']
  /\ future' = [future EXCEPT ![r]["submit"] = "pending"]
  /\ asked' = [asked EXCEPT ![spawned'] = {<<r, "submit", "initialize">>}]
  /\ SubmitAt(r, "initializing")
  /\ CallsKept
  /\ UNCHANGED <<closing, protocolError, evidence, backlog, stopping, run,
                 wire, turn, home, noted, clients, announced>>

SubmitKept ==
  /\ CallsKept
  /\ UNCHANGED <<current, readerTask, closing, protocolError, stopping, reading,
                 up, spawned, wire, turn, home, noted, clients, announced>>

\* initialize is answered: the evidence is kept and the thread asked for.
Initialized(r) ==
  /\ submitter[r] = "initializing"
  /\ future[r]["submit"] = "answered"
  /\ evidence' = TRUE
  /\ SubmitAt(r, "threading")
  /\ Ask(r, "submit", "thread")
  /\ SubmitKept
  /\ UNCHANGED <<backlog, run>>

\* Malformed evidence disconnects.
BadEvidence(r) ==
  /\ submitter[r] = "initializing"
  /\ future[r]["submit"] = "answered"
  /\ SubmitAt(r, "disconnecting")
  /\ Pop(r, "submit")
  /\ StopBegins
  /\ CallsKept
  /\ UNCHANGED <<readerTask, protocolError, evidence, backlog, run, reading, server, announced>>

Disconnected(r) ==
  /\ submitter[r] = "disconnecting"
  /\ StopEnds
  /\ SubmitAt(r, "raised")
  /\ CallsKept
  /\ UNCHANGED <<current, closing, protocolError, evidence, backlog, run, server, announced>>

Threaded(r) ==
  /\ submitter[r] = "threading"
  /\ future[r]["submit"] = "answered"
  /\ SubmitAt(r, "turning")
  /\ Ask(r, "submit", "turn")
  /\ SubmitKept
  /\ UNCHANGED <<evidence, backlog, run>>

\* The backlog is gone through in order; what is not of the run is passed over.
Replayed(r, state, read) ==
  LET after[n \in 0..Len(read)] ==
        IF n = 0 THEN state
        ELSE IF read[n].run = r THEN Handled(after[n - 1], read[n]) ELSE after[n - 1]
  IN  after[Len(read)]

\* Mutation: what was read before the registration is dropped.
RegisterOnly(r) ==
  /\ submitter[r] = "turning"
  /\ future[r]["submit"] = "answered"
  /\ SubmitAt(r, "handed")
  /\ Pop(r, "submit")
  /\ run' = [run EXCEPT ![r] = IF protocolError THEN Finished(@, "failed") ELSE @]
  /\ backlog' = <<>>
  /\ SubmitKept
  /\ UNCHANGED <<evidence, asked>>

\* The run is registered: a reader that is dead fails it, and what was read
\* of it before is handled now.
Register(r) ==
  /\ submitter[r] = "turning"
  /\ future[r]["submit"] = "answered"
  /\ SubmitAt(r, "handed")
  /\ Pop(r, "submit")
  /\ run' = [run EXCEPT ![r] =
               Replayed(r, IF protocolError THEN Finished(@, "failed") ELSE @, backlog)]
  /\ backlog' = SelectSeq(backlog, LAMBDA n : n.run # r)
  /\ SubmitKept
  /\ UNCHANGED <<evidence, asked>>

\* A request fails, its answer is malformed, or the process is not there.
SubmitRaises(r) ==
  /\ \/ submitter[r] = "spawning"
     \/ /\ submitter[r] \in {"initializing", "threading", "turning"}
        /\ Settled(r, "submit")
  /\ SubmitAt(r, "raised")
  /\ Pop(r, "submit")
  /\ SubmitKept
  /\ UNCHANGED <<evidence, backlog, run, asked>>

Submits(r) ==
  \/ Submit(r) \/ Spawned(r) \/ Initialized(r) \/ BadEvidence(r) \/ Disconnected(r)
  \/ Threaded(r) \/ Register(r) \/ SubmitRaises(r)

-----------------------------------------------------------------------------
(* _read_stdout.  A reader that has handled a message goes on with the output *)
(* of self._process, whichever process that is by then.                       *)

\* An exception ends the reader, silently if the adapter is closing.
Breaks(k, futures, runs) ==
  /\ reading' = [reading EXCEPT ![k] = 0]
  /\ IF closing THEN future' = futures /\ run' = runs /\ UNCHANGED protocolError
     ELSE FailProtocol(futures, runs)

\* Two readers cannot wait for the same output.
Contended(k) == \E j \in Processes \ {k} : reading[j] = current /\ wire'[current] = <<>>

Continues(k, futures, runs) ==
  IF current # 0 /\ ~Contended(k)
    THEN /\ reading' = [reading EXCEPT ![k] = current]
         /\ future' = futures /\ run' = runs
         /\ UNCHANGED protocolError
    ELSE Breaks(k, futures, runs)

Reads(k, kind) ==
  /\ reading[k] # 0
  /\ wire[reading[k]] # <<>>
  /\ Head(wire[reading[k]]).kind = kind
  /\ wire' = [wire EXCEPT ![reading[k]] = Tail(@)]
  /\ UNCHANGED <<current, readerTask, closing, evidence, stopping, calls,
                 up, spawned, asked, turn, home, noted, clients>>

Read(k) == Head(wire[reading[k]])

\* An answer resolves its request.  One whose timer has fired is still there
\* but cannot be resolved: the exception ends the reader.
ReadAnswer(k) ==
  /\ Reads(k, "answer")
  /\ LET m == Read(k) IN
       IF future[m.run][m.call] = "expired" THEN Breaks(k, future, run)
       ELSE Continues(k,
              IF future[m.run][m.call] # "pending" THEN future
              ELSE [future EXCEPT ![m.run][m.call] = IF m.ok THEN "answered" ELSE "refused"],
              run)
  /\ UNCHANGED <<backlog, announced>>

\* _dispatch_notification: what is not of a registered run waits.
ReadNotification(k) ==
  \E kind \in {"note", "turn"} :
    /\ Reads(k, kind)
    /\ LET m == Read(k) IN
         /\ IF Registered(m.run)
              THEN /\ Continues(k, future, [run EXCEPT ![m.run] = Handled(@, m)])
                   /\ UNCHANGED backlog
              ELSE /\ Continues(k, future, run)
                   /\ backlog' = Append(backlog, m)
         /\ announced' = IF /\ kind = "turn" /\ announced[m.run] = "none"
                            /\ run[m.run].result = "none"
                           THEN [announced EXCEPT ![m.run] = m.status] ELSE announced

\* _deny_server_request: noted, and denied if the process can still be told.
ReadRequest(k) ==
  /\ Reads(k, "request")
  /\ LET m == Read(k)
         note == [kind |-> "note", run |-> m.run]
         runs == IF Registered(m.run) THEN [run EXCEPT ![m.run] = Handled(@, note)] ELSE run
     IN /\ IF Live THEN Continues(k, future, runs) ELSE Breaks(k, future, runs)
        /\ backlog' = IF Registered(m.run) THEN backlog ELSE Append(backlog, note)
  /\ UNCHANGED announced

ReadGarbage(k) ==
  /\ Reads(k, "garbage")
  /\ reading' = [reading EXCEPT ![k] = 0]
  /\ FailProtocol(future, run)
  /\ UNCHANGED <<backlog, announced>>

ReadEnd(k) ==
  /\ reading[k] # 0
  /\ reading[k] \notin up
  /\ wire[reading[k]] = <<>>
  /\ Breaks(k, future, run)
  /\ UNCHANGED <<current, readerTask, closing, evidence, backlog, stopping, calls,
                 server, announced>>

Reader(k) ==
  ReadAnswer(k) \/ ReadNotification(k) \/ ReadRequest(k) \/ ReadGarbage(k) \/ ReadEnd(k)

-----------------------------------------------------------------------------
(* events, wait, cancel and quiesce. *)

Stream(r) ==
  /\ \/ /\ r \in clients.streamed /\ Registered(r) /\ stream[r] = "idle"
        /\ stream' = [stream EXCEPT ![r] = "reading"]
        /\ UNCHANGED run
     \/ /\ stream[r] = "reading" /\ run[r].queue # <<>>
        /\ stream' = [stream EXCEPT ![r] = IF Head(run[r].queue) = "end" THEN "ended" ELSE @]
        /\ run' = [run EXCEPT ![r].queue = Tail(@)]
  /\ UNCHANGED <<adapter, future, submitter, waiter, canceller, quiescer, reading,
                 server, announced>>

CallKept == UNCHANGED <<adapter, submitter, quiescer, stream, reading, up, spawned, wire,
                        turn, home, noted, clients, announced>>
WaitAt(r, place) == waiter' = [waiter EXCEPT ![r] = place] /\ UNCHANGED canceller
CancelAt(r, place) == canceller' = [canceller EXCEPT ![r] = place] /\ UNCHANGED waiter

WaitStarts(r) ==
  /\ Registered(r) /\ waiter[r] = "idle"
  /\ WaitAt(r, "waiting")
  /\ UNCHANGED <<future, run, asked>>

WaitAnswers(r) ==
  /\ waiter[r] = "waiting" /\ run[r].result # "none"
  /\ WaitAt(r, "returned")
  /\ UNCHANGED <<future, run, asked>>

\* The host deadline: an interrupt is asked for, if it can be.
WaitDeadline(r) ==
  /\ waiter[r] = "waiting"
  /\ run' = [run EXCEPT ![r].timeoutRequested = TRUE]
  /\ IF Live THEN Ask(r, "wait", "interrupt") /\ WaitAt(r, "interrupting")
     ELSE WaitAt(r, "grace") /\ UNCHANGED <<future, asked>>

WaitInterrupted(r) ==
  /\ waiter[r] = "interrupting" /\ Settled(r, "wait")
  /\ Pop(r, "wait")
  /\ WaitAt(r, "grace")
  /\ UNCHANGED <<run, asked>>

\* Mutation: the deadline decides, whatever has arrived meanwhile.
GraceOverrides(r) ==
  /\ waiter[r] = "grace"
  /\ run' = [run EXCEPT ![r].result = "timeout"]
  /\ WaitAt(r, "returned")
  /\ UNCHANGED <<future, asked>>

\* The grace period ends with the result, or with a timeout of the host's own.
GraceEnds(r) ==
  /\ waiter[r] = "grace"
  /\ run' = [run EXCEPT ![r] = Finished(@, "timeout")]
  /\ WaitAt(r, "returned")
  /\ UNCHANGED <<future, asked>>

Wait(r) ==
  /\ WaitStarts(r) \/ WaitAnswers(r) \/ WaitDeadline(r) \/ WaitInterrupted(r) \/ GraceEnds(r)
  /\ CallKept

CancelStarts(r) ==
  /\ r \in clients.cancelled /\ Registered(r) /\ canceller[r] = "idle"
  /\ IF run[r].result # "none"
       THEN CancelAt(r, "returned") /\ UNCHANGED <<future, run, asked>>
       ELSE /\ run' = [run EXCEPT ![r].cancelRequested = TRUE]
            /\ IF Live THEN Ask(r, "cancel", "interrupt") /\ CancelAt(r, "interrupting")
               ELSE CancelAt(r, "raised") /\ UNCHANGED <<future, asked>>

CancelEnds(r) ==
  /\ canceller[r] = "interrupting" /\ Settled(r, "cancel")
  /\ CancelAt(r, IF future[r]["cancel"] = "answered" THEN "returned" ELSE "raised")
  /\ Pop(r, "cancel")
  /\ UNCHANGED <<run, asked>>

Cancel(r) ==
  /\ CancelStarts(r) \/ CancelEnds(r)
  /\ CallKept

\* Without a result quiesce raises at once.
QuiesceStarts(r) ==
  /\ quiescer[r] = "idle" /\ run[r].result # "none"
  /\ quiescer' = [quiescer EXCEPT ![r] = "stopping"]
  /\ StopBegins
  /\ UNCHANGED <<readerTask, backlog, run, future, reading>>

\* Mutation: the process is not waited for.
QuiesceAtOnce(r) ==
  /\ quiescer[r] = "stopping"
  /\ quiescer' = [quiescer EXCEPT ![r] = "returned"]
  /\ stopping' = 0 /\ readerTask' = 0
  /\ backlog' = <<>>
  /\ run' = [run EXCEPT ![r].quiesced = TRUE]
  /\ UNCHANGED <<current, closing, reading, future>>

QuiesceEnds(r) ==
  /\ quiescer[r] = "stopping"
  /\ quiescer' = [quiescer EXCEPT ![r] = "returned"]
  /\ StopEnds
  /\ backlog' = <<>>
  /\ run' = [run EXCEPT ![r].quiesced = TRUE]
  /\ UNCHANGED <<current, closing>>

Quiesce(r) ==
  /\ QuiesceStarts(r) \/ QuiesceEnds(r)
  /\ UNCHANGED <<protocolError, evidence, submitter, waiter, canceller, stream, server, announced>>

-----------------------------------------------------------------------------
(* The app-server processes (external). *)

Says(p, message) ==
  /\ Len(wire[p]) < MaxUnread
  /\ wire' = [wire EXCEPT ![p] = Append(@, message)]

ServerKept == UNCHANGED <<clients, adapter, future, run, calls, reading, spawned, announced>>

\* A request is answered, refused or answered with something malformed, in any
\* order; a turn is only acknowledged once it has been started.
Answers(p) ==
  \E request \in asked[p], ok \in BOOLEAN :
    /\ ok /\ request[3] = "turn" => home[request[1]] = p
    /\ Says(p, [kind |-> "answer", run |-> request[1], call |-> request[2], ok |-> ok])
    /\ asked' = [asked EXCEPT ![p] = @ \ {request}]
    /\ UNCHANGED <<up, turn, home, noted, clients>>

StartsTurn(p) ==
  \E r \in Runs :
    /\ <<r, "submit", "turn">> \in asked[p]
    /\ turn[r] = "none"
    /\ turn' = [turn EXCEPT ![r] = "running"]
    /\ home' = [home EXCEPT ![r] = p]
    /\ UNCHANGED <<up, wire, asked, noted>>

EndsTurn(p) ==
  \E r \in Runs, status \in TurnStatuses :
    /\ turn[r] = "running" /\ home[r] = p
    /\ turn' = [turn EXCEPT ![r] = "ended"]
    /\ Says(p, [kind |-> "turn", run |-> r, status |-> status])
    /\ UNCHANGED <<up, asked, home, noted>>

Notifies(p) ==
  /\ noted < clients.noise
  /\ noted' = noted + 1
  /\ \/ Says(p, [kind |-> "garbage"])
     \/ \E r \in Runs, kind \in {"note", "request"} :
          /\ turn[r] = "running" /\ home[r] = p
          /\ Says(p, [kind |-> kind, run |-> r])
  /\ UNCHANGED <<up, asked, turn, home>>

Exits(p) ==
  /\ p \in up
  /\ up' = up \ {p}
  /\ asked' = [asked EXCEPT ![p] = {}]
  /\ turn' = [r \in Runs |-> IF home[r] = p /\ turn[r] = "running" THEN "ended" ELSE turn[r]]
  /\ UNCHANGED <<wire, home, noted>>

Server(p) ==
  /\ p \in up
  /\ Answers(p) \/ StartsTurn(p) \/ EndsTurn(p) \/ Notifies(p) \/ Exits(p)
  /\ ServerKept

\* _stop_process closes the input, terminates after a while, and then kills.
Kills ==
  /\ stopping # 0 /\ Exits(stopping)
  /\ ServerKept

-----------------------------------------------------------------------------

Caller(r) == Submits(r) \/ Stream(r) \/ Wait(r) \/ Cancel(r) \/ Quiesce(r)

\* What the event loop owes: coroutines that can go on, timers, the kill.
Loop == (\E r \in Runs : Caller(r)) \/ RequestExpires \/ Kills

Next == Loop \/ \E k \in Processes : Reader(k) \/ Server(k)

Spec == Init /\ [][Next]_vars

\* The event loop goes on as long as it has something to do.  This is weaker
\* than fairness to each coroutine, and enough, as each has few steps to take.
\* Processes owe nothing, not even an answer.
FairSpec == Spec /\ WF_vars(Loop)

-----------------------------------------------------------------------------
(* Properties. *)

\* A turn/completed that was read is never lost, whether it came before the
\* registration, beside the deadline's interrupt or after a cancel.  The result is
\* what the server announced, an interrupt counting as what it was asked for; it is
\* something else only if the host's deadline passed with nothing announced, or if
\* the protocol failed (connect forgets that, once the run is quiesced).
ResultAsAnnounced ==
  \A r \in Runs : Registered(r) =>
    LET told == run[r].result
        said == announced[r]
    IN  /\ said # "none" => told # "none"
        /\ told = "completed" => said = "completed"
        /\ told = "cancelled" => said = "interrupted" /\ run[r].cancelRequested
        /\ told = "timeout" => said \in {"none", "interrupted"} /\ run[r].timeoutRequested
        /\ told = "failed" =>
             \/ said = "failed"
             \/ said = "interrupted" /\ ~run[r].cancelRequested
             \/ protocolError \/ run[r].quiesced

\* A quiesced run's turn does not run, and a process the adapter has lost sight
\* of (connect overwrites one whose initialize failed) serves no turn.
QuietWhenQuiesced ==
  \A r \in Runs : turn[r] = "running" =>
    ~run[r].quiesced /\ home[r] \in {current, stopping}

\* However many ends race (an announcement, a failure of the protocol, the host's
\* deadline, the replay at the registration), a run that has ended has one
\* terminal event in its queue until its consumer has read it, and one that has
\* not has none.
TerminalEventOnce ==
  \A r \in Runs :
    LET ends == {n \in DOMAIN run[r].queue : run[r].queue[n] = "end"}
    IN  IF run[r].result # "none" /\ stream[r] # "ended" THEN \E n \in ends : ends = {n}
        ELSE ends = {} /\ (stream[r] = "ended" => run[r].result # "none")

\* The end of a run is told to both who ask for it: to wait, as the server announced
\* it unless the deadline or the protocol's failure came first, and to the consumer
\* of events, as one event.
EndAsAnnounced == ResultAsAnnounced /\ TerminalEventOnce

\* Whoever awaits a request has one that is pending, so that its timer runs, or
\* settled, so that it goes on: no exit, failure or disconnect takes a request
\* from the table without telling the one who awaits it.
NobodyForgotten ==
  \A r \in Runs :
    /\ submitter[r] \in {"initializing", "threading", "turning"} => future[r]["submit"] # "none"
    /\ waiter[r] = "interrupting" => future[r]["wait"] # "none"
    /\ canceller[r] = "interrupting" => future[r]["cancel"] # "none"

Suspended(r) ==
  \/ submitter[r] \notin {"idle", "handed", "raised"}
  \/ waiter[r] \in {"waiting", "interrupting", "grace"}
  \/ canceller[r] = "interrupting"
  \/ quiescer[r] = "stopping"
  \/ stream[r] = "reading" /\ waiter[r] # "idle"

\* Every submit, wait, cancel and quiesce ends whatever the processes answer, as long
\* as a running one reads its input, and a consumer of events does if somebody
\* waits: only wait has a deadline.  (Each is called once, so it has ended when
\* nobody is suspended.)
CallersEnd == []<>(\A r \in Runs : ~Suspended(r))

\* The adapter implements, for each run, the run of the protocol.
Abstract(r) == INSTANCE AgentRun WITH
  Results <- Statuses, NoResult <- "none",
  handed <- Registered(r),
  result <- run[r].result,
  answers <- IF waiter[r] = "returned" THEN {run[r].result} ELSE {},
  released <- run[r].quiesced

\* The handle is handed out once, the first result stays, every wait answers
\* with it, and quiesce succeeds only after it.  (\A r : Abstract(r)!Spec, with
\* the quantifier inside, where TLC can evaluate it.)
ImplementsAgentRun ==
  /\ \A r \in Runs : Abstract(r)!Init
  /\ [][\A r \in Runs : [Abstract(r)!Next]_(Abstract(r)!run)]_vars

=============================================================================
