------------------------ MODULE CodexAppServerProofs ------------------------
(***************************************************************************)
(* Theorems about CodexAppServer, for every number of runs and choice of   *)
(* clients: a quiesced run's turn does not run, a run ends as the server   *)
(* announced, and each run implements the run of the protocol.             *)
(***************************************************************************)
EXTENDS CodexAppServer, WellFoundedInduction, TLAPS

Methods == {"initialize", "thread", "turn", "interrupt"}
SubmitPlaces == {"idle", "spawning", "initializing", "disconnecting", "threading", "turning",
                 "handed", "raised"}
Places == {"idle", "waiting", "interrupting", "grace", "stopping", "reading", "ended",
           "returned", "raised"}

RunStates ==
  [result : {"none"} \cup Statuses, queue : Seq({"note", "end"}),
   timeoutRequested : BOOLEAN, cancelRequested : BOOLEAN, quiesced : BOOLEAN]

Notifications ==
  [kind : {"turn"}, run : Runs, status : TurnStatuses] \cup [kind : {"note"}, run : Runs]

Messages ==
  [kind : {"answer"}, run : Runs, call : Calls, ok : BOOLEAN]
  \cup Notifications \cup [kind : {"request"}, run : Runs] \cup [kind : {"garbage"}]

TypeOK ==
  /\ clients \in Clients
  /\ current \in 0..MaxRuns /\ stopping \in 0..MaxRuns
  /\ evidence \in BOOLEAN /\ protocolError \in BOOLEAN
  /\ run \in [Runs -> RunStates]
  /\ submitter \in [Runs -> SubmitPlaces]
  /\ waiter \in [Runs -> Places] /\ canceller \in [Runs -> Places]
  /\ quiescer \in [Runs -> Places] /\ stream \in [Runs -> Places]
  /\ reading \in [Processes -> 0..MaxRuns]
  /\ up \subseteq Processes /\ spawned \in 0..MaxRuns
  /\ wire \in [Processes -> Seq(Messages)]
  /\ asked \in [Processes -> SUBSET (Runs \X Calls \X Methods)]
  /\ turn \in [Runs -> {"none", "running", "ended"}]
  /\ home \in [Runs -> 0..MaxRuns]
  /\ announced \in [Runs -> {"none"} \cup TurnStatuses]

\* A run that submit has given up, or that is quiesced.
Over(r) == submitter[r] = "raised" \/ run[r].quiesced

\* Who uses the run before and after it is handed out.
Phases(r) ==
  /\ ~Registered(r) => /\ run[r] = NewRun
                       /\ waiter[r] = "idle" /\ canceller[r] = "idle"
                       /\ quiescer[r] = "idle" /\ stream[r] = "idle"
  /\ run[r].quiesced <=> quiescer[r] = "returned"
  /\ quiescer[r] # "idle" \/ waiter[r] = "returned" => run[r].result # "none"

\* Runs come one after the other, and each creates at most one process.
Serial(r) ==
  /\ submitter[r] # "idle" => \A q \in 1..(r - 1) : Over(q)
  /\ submitter[r] \in {"idle", "spawning"} => spawned < r

\* Whoever stops the process has taken it away from the adapter.
Stops(r) == submitter[r] = "disconnecting" \/ quiescer[r] = "stopping"

Stopping ==
  /\ stopping # 0 => \E r \in Runs : Stops(r)
  /\ \A r \in Runs : Stops(r) => current = 0

\* connect creates a process only if no turn may be on the old one.
Evidence(r) ==
  /\ submitter[r] = "spawning" => ~Live \/ ~evidence
  /\ submitter[r] \in {"threading", "turning"} => evidence

\* A process that has a turn, or the request for it.
TurnOn(r, p) == <<r, "submit", "turn">> \in asked[p] \/ (turn[r] = "running" /\ home[r] = p)

TurnPlace(r) ==
  /\ turn[r] = "running" => home[r] \in Processes
  /\ \A p \in Processes : TurnOn(r, p) =>
       p \in up /\ p \in {current, stopping} /\ evidence /\ ~run[r].quiesced

PlaceInv ==
  /\ TypeOK /\ Stopping
  /\ \A r \in Runs : Phases(r) /\ Serial(r) /\ Evidence(r) /\ TurnPlace(r)

\* Nothing is heard of a run before it is submitted.
Started(r) ==
  submitter[r] = "idle" =>
    /\ turn[r] = "none" /\ announced[r] = "none"
    /\ \A p \in Processes : /\ \A request \in asked[p] : request[1] # r
                            /\ \A n \in DOMAIN wire[p] :
                                 wire[p][n].kind = "turn" => wire[p][n].run # r

\* The announcements of a run in the backlog.
TurnAt(r, n) == backlog[n].kind = "turn" /\ backlog[n].run = r

\* While no run is open nothing has been taken out of the backlog: it holds what
\* was announced of a run that is being submitted.
Open(r) == Registered(r) /\ ~run[r].quiesced

Backlog ==
  (\A r \in Runs : ~Open(r)) =>
    /\ backlog \in Seq(Notifications)
    /\ \A r \in Runs : (\E n \in DOMAIN backlog : TurnAt(r, n)) => announced[r] # "none"

Awaited(r) ==
  submitter[r] \notin {"idle", "handed", "raised"} /\ announced[r] # "none" =>
    \E n \in DOMAIN backlog :
      /\ TurnAt(r, n) /\ backlog[n].status = announced[r]
      /\ \A k \in 1..(n - 1) : ~TurnAt(r, k)

\* The grace period comes after the deadline.
Deadline(r) == waiter[r] \in {"interrupting", "grace"} => run[r].timeoutRequested

\* Every request is in one of these states.
FutureStates == {"none", "pending", "answered", "refused", "lost", "expired"}
Futures == future \in [Runs -> [Calls -> FutureStates]]

Inv ==
  /\ PlaceInv /\ Backlog /\ ResultAsAnnounced /\ TerminalEventOnce
  /\ Futures /\ NobodyForgotten
  /\ \A r \in Runs : Started(r) /\ Awaited(r) /\ Deadline(r)

-----------------------------------------------------------------------------
(* Operators. *)

\* A set of naturals that holds for 0 and for the next of each holds for all.
LEMMA Upwards ==
  ASSUME NEW last \in Nat, NEW S \in SUBSET (0..last), 0 \in S,
         \A n \in 1..last : n - 1 \in S => n \in S
  PROVE  S = 0..last
<1> DEFINE Rest == (0..last) \ S
<1>1. SUFFICES ASSUME Rest # {} PROVE FALSE
  OBVIOUS
<1>2. Rest \in SUBSET Nat
  OBVIOUS
<1>3. \E m \in Rest : \A n \in Rest : <<n, m>> \notin OpToRel(<, Nat)
  BY <1>1, <1>2, NatLessThanWellFounded, WFMin
<1>4. PICK m \in Rest : \A n \in Rest : <<n, m>> \notin OpToRel(<, Nat)
  BY <1>3
<1>5. m \in 1..last /\ m - 1 \in 0..last
  BY <1>2
<1>6. m - 1 \notin Rest
  <2>1. <<m - 1, m>> \in Nat \X Nat /\ m - 1 < m
    BY <1>5
  <2>2. <<m - 1, m>> \in OpToRel(<, Nat)
    BY <2>1 DEF OpToRel
  <2> QED
    BY <1>4, <2>2
<1>7. m - 1 \in S
  BY <1>5, <1>6
<1> QED
  BY <1>4, <1>5, <1>7

\* The terminal events in the queue of a run.
EndsOf(state) == {n \in DOMAIN state.queue : state.queue[n] = "end"}
OneEnd(state) == \E n \in EndsOf(state) : EndsOf(state) = {n}

\* A terminal event comes with the end of the run, and none before or after.
EndsWith(old, new) ==
  /\ old.result # "none" \/ new.result = "none" => EndsOf(new) = EndsOf(old)
  /\ old.result = "none" /\ new.result # "none" /\ EndsOf(old) = {} => OneEnd(new)

\* A deadline that has passed stays so, and a run that has ended is not cancelled.
RequestsKept(old, new) ==
  /\ old.result # "none" => new.cancelRequested = old.cancelRequested
  /\ old.timeoutRequested => new.timeoutRequested

\* What the end of a run, and a notification, do to its state.
Grows(old, new) ==
  /\ new \in RunStates
  /\ new.quiesced = old.quiesced
  /\ old.result # "none" => new.result = old.result
  /\ RequestsKept(old, new)
  /\ EndsWith(old, new)

\* A result that is no failure is what the server said, or what the deadline did.
Agrees(state, said) ==
  /\ state.result = "completed" => said = "completed"
  /\ state.result = "cancelled" => said = "interrupted" /\ state.cancelRequested
  /\ state.result = "timeout" => said \in {"none", "interrupted"} /\ state.timeoutRequested

\* And a failure is the turn's, not the protocol's.
Faithful(state, said) ==
  state.result = "failed" => said = "failed" \/ (said = "interrupted" /\ ~state.cancelRequested)

\* What a result was taken from does not change once there is one.
LEMMA AgreesStays ==
  ASSUME NEW old, NEW new, NEW said, old.result # "none", new.result = old.result,
         RequestsKept(old, new)
  PROVE  /\ Agrees(old, said) => Agrees(new, said)
         /\ Faithful(old, said) => Faithful(new, said)
BY DEF Agrees, Faithful, RequestsKept

\* Nothing does so, and neither do two changes.
LEMMA GrowsNot ==
  ASSUME NEW state \in RunStates
  PROVE  Grows(state, state)
BY DEF Grows, EndsWith, RequestsKept

LEMMA GrowsOn ==
  ASSUME NEW old, NEW state, NEW new, Grows(old, state), Grows(state, new)
  PROVE  Grows(old, new)
<1>1. /\ new \in RunStates /\ new.quiesced = old.quiesced
      /\ old.result # "none" => new.result = old.result
      /\ RequestsKept(old, new)
  BY DEF Grows, RequestsKept
<1>2. EndsOf(new) = EndsOf(state) /\ OneEnd(state) => OneEnd(new)
  BY DEF OneEnd
<1>3. EndsWith(old, new)
  BY <1>2 DEF Grows, EndsWith
<1> QED
  BY <1>1, <1>3 DEF Grows

\* What is appended to a queue is its last event.
LEMMA AppendedEvent ==
  ASSUME NEW state \in RunStates, NEW event \in {"note", "end"}, NEW new \in RunStates,
         new.queue = Append(state.queue, event)
  PROVE  /\ event = "note" => EndsOf(new) = EndsOf(state)
         /\ event = "end" /\ EndsOf(state) = {} => OneEnd(new)
<1> DEFINE queue == state.queue
<1>1. queue \in Seq({"note", "end"})
  BY DEF RunStates
<1>2. /\ DOMAIN new.queue = DOMAIN queue \cup {Len(queue) + 1}
      /\ Len(queue) + 1 \notin DOMAIN queue
      /\ new.queue[Len(queue) + 1] = event
      /\ \A n \in DOMAIN queue : new.queue[n] = queue[n]
  BY <1>1
<1> HIDE DEF queue
<1>3. EndsOf(state) = {n \in DOMAIN queue : queue[n] = "end"}
  BY DEF EndsOf, queue
<1>4. ASSUME event = "note" PROVE EndsOf(new) = EndsOf(state)
  BY <1>2, <1>3, <1>4 DEF EndsOf
<1>5. ASSUME event = "end", EndsOf(state) = {} PROVE EndsOf(new) = {Len(queue) + 1}
  BY <1>2, <1>3, <1>5 DEF EndsOf
<1> QED
  BY <1>4, <1>5 DEF OneEnd

\* A run ends once.
LEMMA FinishedFacts ==
  ASSUME NEW state \in RunStates, NEW status \in Statuses
  PROVE  /\ Grows(state, Finished(state, status))
         /\ Finished(state, status).result # "none"
         /\ state.result = "none" => Finished(state, status).result = status
         /\ Finished(state, status).cancelRequested = state.cancelRequested
         /\ Finished(state, status).timeoutRequested = state.timeoutRequested
<1>1. CASE state.result # "none"
  BY <1>1, GrowsNot DEF Finished
<1>2. CASE state.result = "none"
  <2>1. Finished(state, status) = [state EXCEPT !.result = status, !.queue = Append(@, "end")]
    BY <1>2 DEF Finished
  <2>2. Append(state.queue, "end") \in Seq({"note", "end"})
    BY DEF RunStates
  <2>3. status # "none"
    BY DEF Statuses
  <2>4. PICK new : new = Finished(state, status)
    OBVIOUS
  <2>5. /\ new \in RunStates /\ new.quiesced = state.quiesced /\ new.result = status
        /\ new.queue = Append(state.queue, "end")
        /\ new.cancelRequested = state.cancelRequested
        /\ new.timeoutRequested = state.timeoutRequested
    BY <2>1, <2>2, <2>4 DEF RunStates
  <2>6. EndsOf(state) = {} => OneEnd(new)
    BY <2>5, AppendedEvent
  <2>7. Grows(state, new)
    BY <1>2, <2>3, <2>5, <2>6 DEF Grows, EndsWith, RequestsKept
  <2> QED
    BY <1>2, <2>3, <2>4, <2>5, <2>7
<1> QED
  BY <1>1, <1>2

\* The status an announcement is given.
LEMMA StatusFacts ==
  ASSUME NEW state \in RunStates, NEW native \in TurnStatuses, NEW new,
         new.result = StatusOf(native, state),
         new.cancelRequested = state.cancelRequested,
         new.timeoutRequested = state.timeoutRequested
  PROVE  StatusOf(native, state) \in Statuses /\ Agrees(new, native) /\ Faithful(new, native)
<1>1. CASE native = "completed"
  BY <1>1 DEF StatusOf, Statuses, Agrees, Faithful
<1>2. CASE native = "failed"
  BY <1>2 DEF StatusOf, Statuses, Agrees, Faithful
<1>3. CASE native = "interrupted"
  <2>1. state.timeoutRequested \in BOOLEAN /\ state.cancelRequested \in BOOLEAN
    BY DEF RunStates
  <2> QED
    BY <1>3, <2>1 DEF StatusOf, Statuses, Agrees, Faithful
<1> QED
  BY <1>1, <1>2, <1>3 DEF TurnStatuses

\* A notification leaves a run as it was, or ends it as announced.
LEMMA HandledFacts ==
  ASSUME NEW state \in RunStates, NEW m \in Notifications
  PROVE  /\ Grows(state, Handled(state, m))
         /\ m.kind = "turn" => Handled(state, m).result # "none"
         /\ state.result = "none" /\ Handled(state, m).result # "none" =>
              /\ m.kind = "turn"
              /\ Agrees(Handled(state, m), m.status) /\ Faithful(Handled(state, m), m.status)
<1>1. CASE m.kind = "note"
  <2>1. Handled(state, m) = [state EXCEPT !.queue = Append(@, "note")]
    BY <1>1 DEF Handled
  <2>2. Append(state.queue, "note") \in Seq({"note", "end"})
    BY DEF RunStates
  <2>3. PICK new : new = Handled(state, m)
    OBVIOUS
  <2>4. /\ new \in RunStates /\ new.quiesced = state.quiesced /\ new.result = state.result
        /\ new.queue = Append(state.queue, "note")
        /\ new.cancelRequested = state.cancelRequested
        /\ new.timeoutRequested = state.timeoutRequested
    BY <2>1, <2>2, <2>3 DEF RunStates
  <2>5. EndsOf(new) = EndsOf(state)
    BY <2>4, AppendedEvent
  <2>6. Grows(state, new)
    BY <2>4, <2>5 DEF Grows, EndsWith, RequestsKept
  <2> QED
    BY <1>1, <2>3, <2>4, <2>6
<1>2. CASE m.kind = "turn"
  <2>1. m.status \in TurnStatuses
    BY <1>2 DEF Notifications
  <2> DEFINE status == StatusOf(m.status, state)
  <2>2. status \in Statuses
    BY <2>1 DEF StatusOf, Statuses, TurnStatuses
  <2>3. PICK new : new = Handled(state, m)
    OBVIOUS
  <2>4. new = Finished(state, status)
    BY <1>2, <2>3 DEF Handled
  <2> HIDE DEF status
  <2>5. /\ Grows(state, new)
        /\ new.result # "none"
        /\ state.result = "none" => new.result = status
        /\ new.cancelRequested = state.cancelRequested
        /\ new.timeoutRequested = state.timeoutRequested
    BY <2>2, <2>4, FinishedFacts
  <2>6. state.result = "none" => Agrees(new, m.status) /\ Faithful(new, m.status)
    BY <2>1, <2>5, StatusFacts DEF status
  <2> QED
    BY <1>2, <2>3, <2>5, <2>6
<1> QED
  BY <1>1, <1>2 DEF Notifications

\* One function does what Replayed asks of it: for as many notifications as one
\* likes, it extends to the next.
IsReplay(after, last, r, state, read) ==
  after = [n \in 0..last |->
            IF n = 0 THEN state
            ELSE IF read[n].run = r THEN Handled(after[n - 1], read[n]) ELSE after[n - 1]]

\* There is such a function, however much was read.
LEMMA ReplayExists ==
  ASSUME NEW r, NEW state, NEW read, NEW last \in Nat
  PROVE  \E after : IsReplay(after, last, r, state, read)
<1> DEFINE S == {n \in 0..last : \E after : IsReplay(after, n, r, state, read)}
<1>1. 0 \in S
  <2> DEFINE start == [n \in 0..0 |-> state]
  <2>1. IsReplay(start, 0, r, state, read)
    BY DEF IsReplay
  <2> QED
    BY <2>1
<1>2. ASSUME NEW n \in 1..last, n - 1 \in S PROVE n \in S
  <2>1. PICK before : IsReplay(before, n - 1, r, state, read)
    BY <1>2
  <2> DEFINE after == [m \in 0..n |->
                IF m < n THEN before[m]
                ELSE IF read[m].run = r THEN Handled(before[m - 1], read[m]) ELSE before[m - 1]]
  <2>2. \A m \in 0..n : after[m] =
          IF m = 0 THEN state
          ELSE IF read[m].run = r THEN Handled(after[m - 1], read[m]) ELSE after[m - 1]
    <3>1. TAKE m \in 0..n
    <3>2. CASE m = n
      <4>1. m # 0 /\ m - 1 \in 0..n /\ m - 1 < n
        BY <3>2
      <4>2. after[m - 1] = before[m - 1]
        BY <4>1
      <4> QED
        BY <3>2, <4>1, <4>2
    <3>3. CASE m # n
      <4>1. m \in 0..(n - 1) /\ m < n
        BY <3>3
      <4>2. before[m] =
              IF m = 0 THEN state
              ELSE IF read[m].run = r THEN Handled(before[m - 1], read[m]) ELSE before[m - 1]
        BY <2>1, <4>1 DEF IsReplay
      <4>3. m # 0 => m - 1 \in 0..n /\ m - 1 < n
        BY <4>1
      <4>4. m # 0 => after[m - 1] = before[m - 1]
        BY <4>3
      <4>5. after[m] = before[m]
        BY <4>1
      <4> HIDE DEF after
      <4> QED
        BY <4>2, <4>4, <4>5
    <3> QED
      BY <3>2, <3>3
  <2>3. after = [m \in 0..n |-> after[m]]
    OBVIOUS
  <2> HIDE DEF after
  <2>4. IsReplay(after, n, r, state, read)
    BY <2>2, <2>3 DEF IsReplay
  <2> QED
    BY <2>4
<1>3. S = 0..last
  <2> HIDE DEF S
  <2>1. S \in SUBSET (0..last)
    BY DEF S
  <2> QED
    BY <1>1, <1>2, <2>1, Upwards
<1> QED
  BY <1>3

\* So Replayed is its last value.
LEMMA ReplayedIsLast ==
  ASSUME NEW r, NEW state, NEW read \in Seq(Notifications)
  PROVE  \E after : /\ IsReplay(after, Len(read), r, state, read)
                    /\ Replayed(r, state, read) = after[Len(read)]
<1>1. Len(read) \in Nat
  OBVIOUS
<1>2. \E after : IsReplay(after, Len(read), r, state, read)
  BY <1>1, ReplayExists
<1> QED
  BY <1>2 DEF Replayed, IsReplay

\* The first announcement of a run among what was read.
Announces(r, read, n) == read[n].kind = "turn" /\ read[n].run = r
First(r, read, n) == Announces(r, read, n) /\ \A k \in 1..(n - 1) : ~Announces(r, read, k)

\* What a replay leaves after n notifications of read.
Follows(r, state, read, n, new) ==
  /\ Grows(state, new)
  /\ \A k \in 1..n : Announces(r, read, k) => new.result # "none"
  /\ state.result = "none" /\ new.result # "none" =>
       \E k \in 1..n : /\ First(r, read, k)
                       /\ Agrees(new, read[k].status) /\ Faithful(new, read[k].status)

\* The next notification.
LEMMA FollowsNext ==
  ASSUME NEW r, NEW state \in RunStates, NEW read \in Seq(Notifications), NEW n \in 1..Len(read),
         NEW old, Follows(r, state, read, n - 1, old)
  PROVE  Follows(r, state, read, n,
                 IF read[n].run = r THEN Handled(old, read[n]) ELSE old)
<1>1. old \in RunStates /\ read[n] \in Notifications
  BY DEF Follows, Grows
<1>2. CASE read[n].run # r
  <2>1. ~Announces(r, read, n)
    BY <1>2 DEF Announces
  <2>2. \A k \in 1..n : k = n \/ k \in 1..(n - 1)
    OBVIOUS
  <2>3. 1..(n - 1) \subseteq 1..n
    OBVIOUS
  <2> QED
    BY <1>2, <2>1, <2>2, <2>3 DEF Follows
<1>3. CASE read[n].run = r
  <2> DEFINE new == Handled(old, read[n])
  <2>1. /\ Grows(old, new)
        /\ read[n].kind = "turn" => new.result # "none"
        /\ old.result = "none" /\ new.result # "none" =>
             /\ read[n].kind = "turn"
             /\ Agrees(new, read[n].status) /\ Faithful(new, read[n].status)
    BY <1>1, HandledFacts
  <2> HIDE DEF new
  <2>2. Grows(state, new)
    BY <2>1, GrowsOn DEF Follows
  <2>3. ASSUME NEW k \in 1..n, Announces(r, read, k) PROVE new.result # "none"
    <3>1. CASE k = n
      BY <2>1, <2>3, <3>1 DEF Announces
    <3>2. CASE k # n
      <4>1. k \in 1..(n - 1)
        BY <3>2
      <4> QED
        BY <2>1, <2>3, <4>1 DEF Follows, Grows
    <3> QED
      BY <3>1, <3>2
  <2>4. ASSUME state.result = "none", new.result # "none"
        PROVE  \E k \in 1..n : /\ First(r, read, k)
                                /\ Agrees(new, read[k].status) /\ Faithful(new, read[k].status)
    <3>1. CASE old.result # "none"
      <4>1. PICK k \in 1..(n - 1) : /\ First(r, read, k)
                                     /\ Agrees(old, read[k].status) /\ Faithful(old, read[k].status)
        BY <2>4, <3>1 DEF Follows
      <4>2. k \in 1..n
        OBVIOUS
      <4>3. Agrees(new, read[k].status) /\ Faithful(new, read[k].status)
        BY <2>1, <3>1, <4>1, AgreesStays DEF Grows
      <4> QED
        BY <4>1, <4>2, <4>3
    <3>2. CASE old.result = "none"
      <4>1. /\ Announces(r, read, n)
            /\ Agrees(new, read[n].status) /\ Faithful(new, read[n].status)
        BY <1>3, <2>1, <2>4, <3>2 DEF Announces
      <4>2. \A k \in 1..(n - 1) : ~Announces(r, read, k)
        BY <3>2 DEF Follows
      <4>3. First(r, read, n) /\ n \in 1..n
        BY <4>1, <4>2 DEF First
      <4> QED
        BY <4>1, <4>3
    <3> QED
      BY <3>1, <3>2
  <2> QED
    BY <1>3, <2>2, <2>3, <2>4 DEF Follows, new
<1> QED
  BY <1>2, <1>3

\* A run that is registered ends if it was announced to end, as the first
\* announcement says.
LEMMA ReplayedFacts ==
  ASSUME NEW r, NEW state \in RunStates, NEW read \in Seq(Notifications)
  PROVE  Follows(r, state, read, Len(read), Replayed(r, state, read))
<1> DEFINE last == Len(read)
<1>1. last \in Nat
  OBVIOUS
<1>2. PICK after : /\ IsReplay(after, last, r, state, read)
                   /\ Replayed(r, state, read) = after[last]
  BY ReplayedIsLast
<1> DEFINE S == {n \in 0..last : Follows(r, state, read, n, after[n])}
<1>3. 0 \in S
  <2>1. after[0] = state
    BY <1>1, <1>2 DEF IsReplay
  <2>2. Follows(r, state, read, 0, state)
    BY GrowsNot DEF Follows
  <2> QED
    BY <1>1, <2>1, <2>2
<1>4. ASSUME NEW n \in 1..last, n - 1 \in S PROVE n \in S
  <2>1. n \in 0..last /\ n # 0 /\ Follows(r, state, read, n - 1, after[n - 1])
    BY <1>1, <1>4
  <2>2. after[n] = IF read[n].run = r THEN Handled(after[n - 1], read[n]) ELSE after[n - 1]
    BY <1>2, <2>1 DEF IsReplay
  <2>3. Follows(r, state, read, n, after[n])
    BY <2>1, <2>2, FollowsNext
  <2> QED
    BY <2>1, <2>3
<1>5. S = 0..last
  <2> HIDE DEF S, last
  <2>1. S \in SUBSET (0..last)
    BY DEF S
  <2> QED
    BY <1>1, <1>3, <1>4, <2>1, Upwards
<1>6. last \in S
  BY <1>1, <1>5
<1> QED
  BY <1>2, <1>6

-----------------------------------------------------------------------------
(* Types. *)

\* The adapter begins within its types.
LEMMA TypeInit == Init => TypeOK
<1> SUFFICES ASSUME Init PROVE TypeOK
  OBVIOUS
<1>1. 0 \in 0..MaxRuns
  BY AppServerAssumption
<1>2. \A S : <<>> \in Seq(S)
  OBVIOUS
<1>3. NewRun \in RunStates
  BY <1>2 DEF NewRun, RunStates, Statuses
<1> QED
  BY <1>1, <1>2, <1>3 DEF Init, TypeOK, SubmitPlaces, Places

\* A process is asked: it is the current one.
LEMMA AskFacts ==
  ASSUME TypeOK, NEW r \in Runs, NEW call \in Calls, NEW method \in Methods, Ask(r, call, method)
  PROVE  /\ current \in Processes /\ current \in up
         /\ asked' \in [Processes -> SUBSET (Runs \X Calls \X Methods)]
         /\ \A p \in Processes : \A request \in asked'[p] :
              request \in asked[p] \/ (p = current /\ request = <<r, call, method>>)
<1>1. current \in Processes /\ current \in up
  BY DEF Ask, Live, TypeOK
<1>2. <<r, call, method>> \in Runs \X Calls \X Methods
  OBVIOUS
<1>3. asked[current] \cup {<<r, call, method>>} \in SUBSET (Runs \X Calls \X Methods)
  BY <1>1, <1>2 DEF TypeOK
<1>4. asked' = [asked EXCEPT ![current] = @ \cup {<<r, call, method>>}]
  BY DEF Ask
<1> QED
  BY <1>1, <1>3, <1>4 DEF TypeOK

\* What a replay can go through is typed.
LEMMA RegisterTypes ==
  ASSUME TypeOK, NEW q \in Runs, Register(q), backlog \in Seq(Notifications),
         run[q] = NewRun
  PROVE  /\ run' = [run EXCEPT ![q] = run'[q]]
         /\ \E state \in RunStates :
              /\ state.result = "none" \/ (state.result = "failed" /\ protocolError)
              /\ ~state.quiesced
              /\ Follows(q, state, backlog, Len(backlog), run'[q])
         /\ run'[q] \in RunStates
         /\ Grows(run[q], run'[q])
<1> DEFINE state == IF protocolError THEN Finished(run[q], "failed") ELSE run[q]
<1>1. run[q] \in RunStates /\ run[q].result = "none" /\ ~run[q].quiesced
  <2>1. run[q] \in RunStates
    BY DEF TypeOK
  <2>2. NewRun.result = "none" /\ ~NewRun.quiesced
    BY DEF NewRun
  <2> QED
    BY <2>1, <2>2
<1>2. "failed" \in Statuses
  BY DEF Statuses
<1>3. /\ Grows(run[q], Finished(run[q], "failed"))
      /\ Finished(run[q], "failed").result = "failed"
  BY <1>1, <1>2, FinishedFacts
<1>4. /\ state \in RunStates /\ ~state.quiesced
      /\ state.result = "none" \/ (state.result = "failed" /\ protocolError)
  BY <1>1, <1>3 DEF Grows
<1>5. run' = [run EXCEPT ![q] = Replayed(q, state, backlog)]
  BY DEF Register
<1> HIDE DEF state
<1>6. run'[q] = Replayed(q, state, backlog)
  BY <1>5 DEF TypeOK
<1>7. Follows(q, state, backlog, Len(backlog), Replayed(q, state, backlog))
  BY <1>4, ReplayedFacts
<1>8. run'[q] \in RunStates
  BY <1>6, <1>7 DEF Follows, Grows
<1>9. Grows(run[q], state) /\ Grows(state, run'[q])
  BY <1>1, <1>3, <1>6, <1>7, GrowsNot DEF state, Follows
<1>10. Grows(run[q], run'[q])
  BY <1>9, GrowsOn
<1> QED
  BY <1>4, <1>5, <1>6, <1>7, <1>8, <1>10

\* submit keeps the types: there is a process for each run, and what is replayed
\* to it are notifications.
LEMMA SubmitTypes ==
  ASSUME TypeOK, NEW q \in Runs, Submits(q),
         submitter[q] = "spawning" => spawned < q,
         submitter[q] = "turning" => run[q] = NewRun /\ backlog \in Seq(Notifications)
  PROVE  TypeOK'
<1>1. ASSUME NEW place \in SubmitPlaces, SubmitAt(q, place)
      PROVE  submitter' \in [Runs -> SubmitPlaces]
  BY <1>1 DEF SubmitAt, TypeOK
<1>2. {"thread", "turn"} \subseteq Methods /\ "submit" \in Calls
  BY DEF Methods, Calls
<1>3. CASE Submit(q)
  <2>1. CASE Live /\ evidence
    <3>1. Ask(q, "submit", "thread")
      BY <1>3, <2>1 DEF Submit
    <3>2. asked' \in [Processes -> SUBSET (Runs \X Calls \X Methods)]
      BY <1>2, <3>1, AskFacts
    <3> QED
      BY <1>1, <1>3, <2>1, <3>2 DEF Submit, CallsKept, TypeOK, SubmitPlaces
  <2>2. CASE ~(Live /\ evidence)
    BY <1>1, <1>3, <2>2 DEF Submit, CallsKept, TypeOK, SubmitPlaces
  <2> QED
    BY <2>1, <2>2
<1>4. CASE Spawned(q)
  <2>1. spawned + 1 \in Processes /\ spawned + 1 \in 0..MaxRuns
    BY <1>4, AppServerAssumption DEF Spawned, TypeOK, Runs, Processes
  <2>2. {<<q, "submit", "initialize">>} \in SUBSET (Runs \X Calls \X Methods)
    BY DEF Calls, Methods
  <2>3. asked' \in [Processes -> SUBSET (Runs \X Calls \X Methods)]
    BY <1>4, <2>1, <2>2 DEF Spawned, TypeOK
  <2>4. reading' \in [Processes -> 0..MaxRuns]
    BY <1>4, <2>1 DEF Spawned, TypeOK
  <2> QED
    BY <1>1, <1>4, <2>1, <2>3, <2>4 DEF Spawned, CallsKept, TypeOK, SubmitPlaces
<1>5. CASE Initialized(q) \/ Threaded(q)
  <2>1. asked' \in [Processes -> SUBSET (Runs \X Calls \X Methods)]
    BY <1>2, <1>5, AskFacts DEF Initialized, Threaded
  <2> QED
    BY <1>1, <1>5, <2>1
    DEF Initialized, Threaded, SubmitKept, CallsKept, TypeOK, SubmitPlaces
<1>6. CASE BadEvidence(q)
  BY <1>1, <1>6, AppServerAssumption
  DEF BadEvidence, StopBegins, CallsKept, server, TypeOK, SubmitPlaces
<1>7. CASE Disconnected(q)
  <2>1. 0 \in 0..MaxRuns
    BY AppServerAssumption
  <2>2. reading' \in [Processes -> 0..MaxRuns]
    BY <1>7, <2>1 DEF Disconnected, StopEnds, TypeOK
  <2> QED
    BY <1>1, <1>7, <2>1, <2>2 DEF Disconnected, StopEnds, CallsKept, server, TypeOK, SubmitPlaces
<1>8. CASE Register(q)
  <2>1. run' = [run EXCEPT ![q] = run'[q]] /\ run'[q] \in RunStates
    BY <1>8, RegisterTypes DEF Register
  <2>2. run' \in [Runs -> RunStates]
    BY <2>1 DEF TypeOK
  <2> QED
    BY <1>1, <1>8, <2>2 DEF Register, SubmitKept, CallsKept, TypeOK, SubmitPlaces
<1>9. CASE SubmitRaises(q)
  BY <1>1, <1>9 DEF SubmitRaises, SubmitKept, CallsKept, TypeOK, SubmitPlaces
<1> QED
  BY <1>3, <1>4, <1>5, <1>6, <1>7, <1>8, <1>9 DEF Submits

\* What the other calls do to a run keeps its type.
LEMMA FieldsTyped ==
  ASSUME NEW state \in RunStates, NEW b \in BOOLEAN
  PROVE  /\ [state EXCEPT !.timeoutRequested = b] \in RunStates
         /\ [state EXCEPT !.cancelRequested = b] \in RunStates
         /\ [state EXCEPT !.quiesced = b] \in RunStates
BY DEF RunStates

\* events, wait, cancel and quiesce keep the types.
LEMMA ClientTypes ==
  \A q \in Runs : TypeOK /\ (Stream(q) \/ Wait(q) \/ Cancel(q) \/ Quiesce(q)) => TypeOK'
<1> SUFFICES ASSUME NEW q \in Runs, TypeOK, Stream(q) \/ Wait(q) \/ Cancel(q) \/ Quiesce(q)
             PROVE  TypeOK'
  OBVIOUS
<1>1. run[q] \in RunStates
  BY DEF TypeOK
<1>2. "interrupt" \in Methods /\ {"wait", "cancel"} \subseteq Calls
  BY DEF Methods, Calls
<1>3. CASE Stream(q)
  <2>1. run' \in [Runs -> RunStates]
    <3>1. CASE UNCHANGED run
      BY <3>1 DEF TypeOK
    <3>2. CASE run[q].queue # <<>> /\ run' = [run EXCEPT ![q].queue = Tail(@)]
      <4>1. Tail(run[q].queue) \in Seq({"note", "end"})
        BY <1>1, <3>2 DEF RunStates
      <4>2. [run[q] EXCEPT !.queue = Tail(@)] \in RunStates
        BY <1>1, <4>1 DEF RunStates
      <4> QED
        BY <3>2, <4>2 DEF TypeOK
    <3> QED
      BY <1>3, <3>1, <3>2 DEF Stream
  <2>2. stream' \in [Runs -> Places]
    <3>1. \E place \in Places : stream' = [stream EXCEPT ![q] = place]
      <4>1. stream[q] \in Places /\ {"reading", "ended"} \subseteq Places
        BY DEF TypeOK, Places
      <4> QED
        BY <1>3, <4>1 DEF Stream
    <3> QED
      BY <3>1 DEF TypeOK
  <2> QED
    BY <1>3, <2>1, <2>2 DEF Stream, adapter, server, TypeOK
<1>4. CASE Wait(q)
  <2>1. run' \in [Runs -> RunStates]
    <3>1. CASE WaitDeadline(q)
      <4>1. [run[q] EXCEPT !.timeoutRequested = TRUE] \in RunStates
        BY <1>1, FieldsTyped
      <4> QED
        BY <3>1, <4>1 DEF WaitDeadline, TypeOK
    <3>2. CASE GraceEnds(q)
      <4>1. Finished(run[q], "timeout") \in RunStates
        BY <1>1, FinishedFacts DEF Grows, Statuses
      <4> QED
        BY <3>2, <4>1 DEF GraceEnds, TypeOK
    <3> QED
      BY <1>4, <3>1, <3>2 DEF Wait, WaitStarts, WaitAnswers, WaitInterrupted, TypeOK
  <2>2. asked' \in [Processes -> SUBSET (Runs \X Calls \X Methods)]
    <3>1. CASE Ask(q, "wait", "interrupt")
      BY <1>2, <3>1, AskFacts
    <3>2. CASE UNCHANGED asked
      BY <3>2 DEF TypeOK
    <3> QED
      BY <1>4, <3>1, <3>2
      DEF Wait, WaitStarts, WaitAnswers, WaitDeadline, WaitInterrupted, GraceEnds
  <2>3. waiter' \in [Runs -> Places] /\ canceller' \in [Runs -> Places]
    BY <1>4 DEF Wait, WaitStarts, WaitAnswers, WaitDeadline, WaitInterrupted, GraceEnds,
                WaitAt, TypeOK, Places
  <2> QED
    BY <1>4, <2>1, <2>2, <2>3 DEF Wait, CallKept, adapter, TypeOK
<1>5. CASE Cancel(q)
  <2>1. run' \in [Runs -> RunStates]
    <3>1. [run[q] EXCEPT !.cancelRequested = TRUE] \in RunStates
      BY <1>1, FieldsTyped
    <3> QED
      BY <1>5, <3>1 DEF Cancel, CancelStarts, CancelEnds, TypeOK
  <2>2. asked' \in [Processes -> SUBSET (Runs \X Calls \X Methods)]
    <3>1. CASE Ask(q, "cancel", "interrupt")
      BY <1>2, <3>1, AskFacts
    <3>2. CASE UNCHANGED asked
      BY <3>2 DEF TypeOK
    <3> QED
      BY <1>5, <3>1, <3>2 DEF Cancel, CancelStarts, CancelEnds
  <2>3. waiter' \in [Runs -> Places] /\ canceller' \in [Runs -> Places]
    BY <1>5 DEF Cancel, CancelStarts, CancelEnds, CancelAt, TypeOK, Places
  <2> QED
    BY <1>5, <2>1, <2>2, <2>3 DEF Cancel, CallKept, adapter, TypeOK
<1>6. CASE Quiesce(q)
  <2>1. 0 \in 0..MaxRuns
    BY AppServerAssumption
  <2>2. quiescer' \in [Runs -> Places]
    <3>1. \E place \in Places : quiescer' = [quiescer EXCEPT ![q] = place]
      BY <1>6 DEF Quiesce, QuiesceStarts, QuiesceEnds, Places
    <3> QED
      BY <3>1 DEF TypeOK
  <2>3. CASE QuiesceStarts(q)
    BY <1>6, <2>1, <2>2, <2>3 DEF Quiesce, QuiesceStarts, StopBegins, server, TypeOK
  <2>4. CASE QuiesceEnds(q)
    <3>1. [run[q] EXCEPT !.quiesced = TRUE] \in RunStates
      BY <1>1, FieldsTyped
    <3>2. run' \in [Runs -> RunStates]
      BY <2>4, <3>1 DEF QuiesceEnds, TypeOK
    <3>3. reading' \in [Processes -> 0..MaxRuns]
      BY <2>1, <2>4 DEF QuiesceEnds, StopEnds, TypeOK
    <3> QED
      BY <1>6, <2>1, <2>2, <2>4, <3>2, <3>3 DEF Quiesce, QuiesceEnds, StopEnds, server, TypeOK
  <2> QED
    BY <1>6, <2>3, <2>4 DEF Quiesce
<1> QED
  BY <1>3, <1>4, <1>5, <1>6

\* What the server writes can be read.
LEMMA SaysTyped ==
  ASSUME TypeOK, NEW p \in Processes, NEW m \in Messages, Says(p, m)
  PROVE  /\ wire' \in [Processes -> Seq(Messages)]
         /\ \A o \in Processes : \A n \in DOMAIN wire'[o] :
              \/ n \in DOMAIN wire[o] /\ wire'[o][n] = wire[o][n]
              \/ o = p /\ wire'[o][n] = m
<1>1. wire' = [wire EXCEPT ![p] = Append(@, m)]
  BY DEF Says
<1>2. wire[p] \in Seq(Messages)
  BY DEF TypeOK
<1> DEFINE longer == Append(wire[p], m)
<1>3. /\ longer \in Seq(Messages)
      /\ \A n \in DOMAIN longer :
           (n \in DOMAIN wire[p] /\ longer[n] = wire[p][n]) \/ longer[n] = m
  BY <1>2
<1> HIDE DEF longer
<1>4. \A o \in Processes : wire'[o] = IF o = p THEN longer ELSE wire[o]
  BY <1>1 DEF TypeOK, longer
<1>5. wire' \in [Processes -> Seq(Messages)]
  BY <1>1, <1>3 DEF TypeOK, longer
<1> QED
  BY <1>3, <1>4, <1>5

\* A process exits: its requests and its turn are gone.
LEMMA ExitsTypes ==
  ASSUME TypeOK, NEW p \in Processes, Exits(p), ServerKept
  PROVE  TypeOK'
<1>1. asked' \in [Processes -> SUBSET (Runs \X Calls \X Methods)]
  BY DEF Exits, TypeOK
<1>2. turn' \in [Runs -> {"none", "running", "ended"}]
  BY DEF Exits, TypeOK
<1> QED
  BY <1>1, <1>2 DEF Exits, ServerKept, adapter, calls, TypeOK

\* The processes keep the types.
LEMMA ServerTypes == \A p \in Processes : TypeOK /\ Server(p) => TypeOK'
<1> SUFFICES ASSUME NEW p \in Processes, TypeOK, Server(p) PROVE TypeOK'
  OBVIOUS
<1>1. CASE Answers(p)
  <2>1. PICK request \in asked[p], ok \in BOOLEAN :
          /\ Says(p, [kind |-> "answer", run |-> request[1], call |-> request[2], ok |-> ok])
          /\ asked' = [asked EXCEPT ![p] = @ \ {request}]
    BY <1>1 DEF Answers
  <2>2. request \in Runs \X Calls \X Methods
    BY DEF TypeOK
  <2>3. [kind |-> "answer", run |-> request[1], call |-> request[2], ok |-> ok] \in Messages
    BY <2>2 DEF Messages
  <2>4. wire' \in [Processes -> Seq(Messages)]
    BY <2>1, <2>3, SaysTyped
  <2>5. asked' \in [Processes -> SUBSET (Runs \X Calls \X Methods)]
    BY <2>1 DEF TypeOK
  <2> QED
    BY <1>1, <2>4, <2>5 DEF Server, Answers, ServerKept, adapter, calls, TypeOK
<1>2. CASE StartsTurn(p)
  <2>1. p \in 0..MaxRuns
    BY AppServerAssumption DEF Processes
  <2> QED
    BY <1>2, <2>1 DEF Server, StartsTurn, ServerKept, adapter, calls, TypeOK
<1>3. CASE EndsTurn(p)
  <2>1. PICK r \in Runs, status \in TurnStatuses :
          /\ turn' = [turn EXCEPT ![r] = "ended"]
          /\ Says(p, [kind |-> "turn", run |-> r, status |-> status])
    BY <1>3 DEF EndsTurn
  <2>2. [kind |-> "turn", run |-> r, status |-> status] \in Messages
    BY DEF Messages, Notifications
  <2>3. wire' \in [Processes -> Seq(Messages)]
    BY <2>1, <2>2, SaysTyped
  <2> QED
    BY <1>3, <2>1, <2>3 DEF Server, EndsTurn, ServerKept, adapter, calls, TypeOK
<1>4. CASE Notifies(p)
  <2>1. \E m \in Messages : Says(p, m)
    <3>1. [kind |-> "garbage"] \in Messages
      BY DEF Messages
    <3>2. \A r \in Runs, kind \in {"note", "request"} : [kind |-> kind, run |-> r] \in Messages
      BY DEF Messages, Notifications
    <3> QED
      BY <1>4, <3>1, <3>2 DEF Notifies
  <2>2. wire' \in [Processes -> Seq(Messages)]
    BY <2>1, SaysTyped
  <2> QED
    BY <1>4, <2>2 DEF Server, Notifies, ServerKept, adapter, calls, TypeOK
<1> QED
  BY <1>1, <1>2, <1>3, <1>4, ExitsTypes DEF Server

\* All but the runs and the connection's own state.
ReaderKept == UNCHANGED <<current, readerTask, closing, evidence, stopping, calls,
                          up, spawned, asked, turn, home, noted, clients>>

\* A reader that breaks down fails the runs that are out, and does nothing more.
Closes(runs) ==
  /\ protocolError' \in BOOLEAN /\ (protocolError => protocolError')
  /\ run' \in [Runs -> RunStates]
  /\ \A r \in Runs : /\ Grows(runs[r], run'[r])
                     /\ ~Registered(r) => run'[r] = runs[r]
                     /\ runs[r].result = "none" /\ run'[r].result # "none" =>
                          run'[r].result = "failed" /\ protocolError'

\* _fail_protocol, or leaving the runs as they are, is no more than that.
LEMMA FailFacts ==
  ASSUME TypeOK, NEW futures, NEW runs \in [Runs -> RunStates],
         FailProtocol(futures, runs) \/ (run' = runs /\ UNCHANGED protocolError)
  PROVE  Closes(runs)
<1>1. CASE run' = runs /\ UNCHANGED protocolError
  BY <1>1, GrowsNot DEF Closes, TypeOK
<1>2. CASE FailProtocol(futures, runs)
  <2>1. run' = [r \in Runs |-> IF Registered(r) THEN Finished(runs[r], "failed") ELSE runs[r]]
    BY <1>2 DEF FailProtocol
  <2>2. ASSUME NEW r \in Runs
        PROVE  /\ run'[r] \in RunStates
               /\ Grows(runs[r], run'[r])
               /\ ~Registered(r) => run'[r] = runs[r]
               /\ runs[r].result = "none" /\ run'[r].result # "none" => run'[r].result = "failed"
    <3>1. runs[r] \in RunStates /\ "failed" \in Statuses
      BY DEF Statuses
    <3>2. /\ Grows(runs[r], Finished(runs[r], "failed"))
          /\ runs[r].result = "none" => Finished(runs[r], "failed").result = "failed"
      BY <3>1, FinishedFacts
    <3> QED
      BY <2>1, <3>1, <3>2, GrowsNot DEF Grows
  <2>3. run' \in [Runs -> RunStates]
    BY <2>1, <2>2
  <2> QED
    BY <1>2, <2>2, <2>3 DEF FailProtocol, Closes
<1> QED
  BY <1>1, <1>2

\* And so is whatever a reader does after a message.
LEMMA GoesOnFacts ==
  ASSUME TypeOK, NEW k \in Processes, NEW futures, NEW runs \in [Runs -> RunStates],
         UNCHANGED current, Breaks(k, futures, runs) \/ Continues(k, futures, runs)
  PROVE  Closes(runs) /\ reading' \in [Processes -> 0..MaxRuns]
<1>1. FailProtocol(futures, runs) \/ (run' = runs /\ UNCHANGED protocolError)
  BY DEF Breaks, Continues
<1>2. \E p \in 0..MaxRuns : reading' = [reading EXCEPT ![k] = p]
  BY AppServerAssumption DEF Breaks, Continues, TypeOK
<1> QED
  BY <1>1, <1>2, FailFacts DEF TypeOK

\* A reader takes the first message of one process.
Taken ==
  \E p \in Processes :
    /\ wire[p] # <<>>
    /\ wire' = [wire EXCEPT ![p] = Tail(@)]

\* What is left to read was there before.
LEMMA TakenFacts ==
  ASSUME TypeOK, Taken
  PROVE  /\ wire' \in [Processes -> Seq(Messages)]
         /\ \A o \in Processes : \A n \in DOMAIN wire'[o] :
              \E i \in DOMAIN wire[o] : wire'[o][n] = wire[o][i]
<1>1. PICK p \in Processes : wire[p] # <<>> /\ wire' = [wire EXCEPT ![p] = Tail(@)]
  BY DEF Taken
<1>2. wire[p] \in Seq(Messages)
  BY DEF TypeOK
<1> DEFINE rest == Tail(wire[p])
<1>3. /\ rest \in Seq(Messages)
      /\ \A n \in DOMAIN rest : n + 1 \in DOMAIN wire[p] /\ rest[n] = wire[p][n + 1]
  BY <1>1, <1>2
<1> HIDE DEF rest
<1>4. \A o \in Processes : wire'[o] = IF o = p THEN rest ELSE wire[o]
  BY <1>1 DEF TypeOK, rest
<1>5. wire' \in [Processes -> Seq(Messages)]
  BY <1>1, <1>3 DEF TypeOK, rest
<1> QED
  BY <1>3, <1>4, <1>5

\* A notification is handled: of a run that is out at once, of another later.
Heard(m) ==
  /\ backlog' = IF Registered(m.run) THEN backlog ELSE Append(backlog, m)
  /\ announced' = IF /\ m.kind = "turn" /\ announced[m.run] = "none"
                     /\ run[m.run].result = "none"
                    THEN [announced EXCEPT ![m.run] = m.status] ELSE announced
  /\ m.kind = "turn" => \E p \in Processes : wire[p] # <<>> /\ m = Head(wire[p])
  /\ Registered(m.run) /\ m.kind = "turn" => run'[m.run].result # "none"
  /\ \A r \in Runs : run[r].result = "none" /\ run'[r].result # "none" =>
       \/ /\ r = m.run /\ m.kind = "turn"
          /\ Agrees(run'[r], m.status) /\ Faithful(run'[r], m.status)
       \/ run'[r].result = "failed" /\ protocolError'

\* Nothing is.
Deaf ==
  /\ UNCHANGED <<backlog, announced>>
  /\ \A r \in Runs : run[r].result = "none" /\ run'[r].result # "none" =>
       run'[r].result = "failed" /\ protocolError'

\* A notification of a run that is out changes that run only.
LEMMA HandledAlone ==
  ASSUME TypeOK, NEW m \in Notifications, NEW runs,
         runs = IF Registered(m.run) THEN [run EXCEPT ![m.run] = Handled(@, m)] ELSE run
  PROVE  /\ runs \in [Runs -> RunStates] /\ m.run \in Runs
         /\ \A r \in Runs : /\ Grows(run[r], runs[r])
                            /\ ~Registered(r) => runs[r] = run[r]
                            /\ run[r].result = "none" /\ runs[r].result # "none" =>
                                 /\ r = m.run /\ m.kind = "turn"
                                 /\ Agrees(runs[r], m.status) /\ Faithful(runs[r], m.status)
         /\ Registered(m.run) /\ m.kind = "turn" => runs[m.run].result # "none"
<1>1. m.run \in Runs
  BY DEF Notifications
<1>2. \A r \in Runs : Grows(run[r], run[r])
  BY GrowsNot DEF TypeOK
<1>3. CASE ~Registered(m.run)
  BY <1>1, <1>2, <1>3 DEF TypeOK
<1>4. CASE Registered(m.run)
  <2>1. run[m.run] \in RunStates
    BY <1>1 DEF TypeOK
  <2> DEFINE new == Handled(run[m.run], m)
  <2>2. /\ Grows(run[m.run], new)
        /\ m.kind = "turn" => new.result # "none"
        /\ run[m.run].result = "none" /\ new.result # "none" =>
             /\ m.kind = "turn"
             /\ Agrees(new, m.status) /\ Faithful(new, m.status)
    BY <2>1, HandledFacts
  <2>3. runs = [run EXCEPT ![m.run] = new]
    BY <1>4
  <2> HIDE DEF new
  <2>4. runs \in [Runs -> RunStates] /\ \A r \in Runs : runs[r] = IF r = m.run THEN new ELSE run[r]
    BY <1>1, <2>2, <2>3 DEF TypeOK, Grows
  <2> QED
    BY <1>1, <1>2, <1>4, <2>2, <2>4
<1> QED
  BY <1>3, <1>4

\* What follows of both.
LEMMA HeardOrDeaf ==
  ASSUME TypeOK, NEW m \in Notifications, NEW runs,
         runs = IF Registered(m.run) THEN [run EXCEPT ![m.run] = Handled(@, m)] ELSE run,
         Closes(runs),
         backlog' = IF Registered(m.run) THEN backlog ELSE Append(backlog, m),
         announced' = IF /\ m.kind = "turn" /\ announced[m.run] = "none"
                         /\ run[m.run].result = "none"
                        THEN [announced EXCEPT ![m.run] = m.status] ELSE announced,
         m.kind = "turn" => \E p \in Processes : wire[p] # <<>> /\ m = Head(wire[p])
  PROVE  Heard(m)
<1>1. /\ m.run \in Runs
      /\ \A r \in Runs : run[r].result = "none" /\ runs[r].result # "none" =>
           /\ r = m.run /\ m.kind = "turn"
           /\ Agrees(runs[r], m.status) /\ Faithful(runs[r], m.status)
      /\ Registered(m.run) /\ m.kind = "turn" => runs[m.run].result # "none"
  BY HandledAlone
<1>2. \A r \in Runs : /\ Grows(runs[r], run'[r])
                      /\ runs[r].result = "none" /\ run'[r].result # "none" =>
                           run'[r].result = "failed" /\ protocolError'
  BY DEF Closes
<1>3. Registered(m.run) /\ m.kind = "turn" => run'[m.run].result # "none"
  BY <1>1, <1>2 DEF Grows
<1>4. ASSUME NEW r \in Runs, run[r].result = "none", run'[r].result # "none"
      PROVE  \/ /\ r = m.run /\ m.kind = "turn"
                /\ Agrees(run'[r], m.status) /\ Faithful(run'[r], m.status)
             \/ run'[r].result = "failed" /\ protocolError'
  <2>1. CASE runs[r].result = "none"
    BY <1>2, <1>4, <2>1
  <2>2. CASE runs[r].result # "none"
    BY <1>1, <1>2, <1>4, <2>2, AgreesStays DEF Grows
  <2> QED
    BY <2>1, <2>2
<1> QED
  BY <1>3, <1>4 DEF Heard

\* What a reader does: it handles a notification or none, fails runs that are
\* out, and ends or goes on.
LEMMA ReaderFacts ==
  ASSUME TypeOK, NEW k \in Processes, Reader(k)
  PROVE  /\ ReaderKept
         /\ reading' \in [Processes -> 0..MaxRuns]
         /\ protocolError' \in BOOLEAN /\ (protocolError => protocolError')
         /\ Taken \/ UNCHANGED wire
         /\ run' \in [Runs -> RunStates]
         /\ \A r \in Runs : Grows(run[r], run'[r]) /\ (~Registered(r) => run'[r] = run[r])
         /\ Deaf \/ \E m \in Notifications : Heard(m)
<1>1. run \in [Runs -> RunStates] /\ reading[k] \in 0..MaxRuns
  BY DEF TypeOK
<1>2. ASSUME Closes(run)
      PROVE  /\ protocolError' \in BOOLEAN /\ (protocolError => protocolError')
             /\ run' \in [Runs -> RunStates]
             /\ \A r \in Runs : Grows(run[r], run'[r]) /\ (~Registered(r) => run'[r] = run[r])
             /\ \A r \in Runs : run[r].result = "none" /\ run'[r].result # "none" =>
                  run'[r].result = "failed" /\ protocolError'
  BY <1>2 DEF Closes
<1>3. ASSUME NEW kind, Reads(k, kind)
      PROVE  /\ ReaderKept /\ Taken
             /\ reading[k] \in Processes /\ wire[reading[k]] # <<>>
             /\ Read(k) \in Messages /\ Read(k).kind = kind
  <2>1. reading[k] \in Processes
    BY <1>1, <1>3 DEF Reads, Processes
  <2>2. wire[reading[k]] \in Seq(Messages) /\ wire[reading[k]] # <<>>
    BY <1>3, <2>1 DEF TypeOK, Reads
  <2>3. Head(wire[reading[k]]) \in Messages
    BY <2>2
  <2>4. ReaderKept /\ Taken
    BY <1>3, <2>1 DEF Reads, ReaderKept, Taken
  <2> QED
    BY <1>3, <2>1, <2>2, <2>3, <2>4 DEF Reads, Read
<1>4. CASE ReadAnswer(k)
  <2>1. Reads(k, "answer") /\ \E futures : Breaks(k, futures, run) \/ Continues(k, futures, run)
    BY <1>4 DEF ReadAnswer
  <2>2. ReaderKept /\ Taken /\ UNCHANGED current
    BY <1>3, <2>1 DEF ReaderKept
  <2>3. Closes(run) /\ reading' \in [Processes -> 0..MaxRuns]
    BY <1>1, <2>1, <2>2, GoesOnFacts
  <2>4. UNCHANGED <<backlog, announced>>
    BY <1>4 DEF ReadAnswer
  <2> QED
    BY <1>2, <2>2, <2>3, <2>4 DEF Deaf
<1>5. CASE ReadGarbage(k)
  <2>1. ReaderKept /\ Taken
    BY <1>3, <1>5 DEF ReadGarbage
  <2>2. Closes(run)
    BY <1>1, <1>5, FailFacts DEF ReadGarbage
  <2>3. reading' \in [Processes -> 0..MaxRuns]
    BY <1>5, AppServerAssumption DEF ReadGarbage, TypeOK
  <2>4. UNCHANGED <<backlog, announced>>
    BY <1>5 DEF ReadGarbage
  <2> QED
    BY <1>2, <2>1, <2>2, <2>3, <2>4 DEF Deaf
<1>6. CASE ReadEnd(k)
  <2>1. ReaderKept /\ UNCHANGED wire /\ UNCHANGED current /\ UNCHANGED <<backlog, announced>>
    BY <1>6 DEF ReadEnd, ReaderKept, server
  <2>2. Closes(run) /\ reading' \in [Processes -> 0..MaxRuns]
    BY <1>1, <1>6, <2>1, GoesOnFacts DEF ReadEnd
  <2> QED
    BY <1>2, <2>1, <2>2 DEF Deaf
<1>7. ASSUME NEW m \in Notifications, ReaderKept, Taken,
             \E futures, runs :
               /\ runs = IF Registered(m.run) THEN [run EXCEPT ![m.run] = Handled(@, m)] ELSE run
               /\ Breaks(k, futures, runs) \/ Continues(k, futures, runs),
             backlog' = IF Registered(m.run) THEN backlog ELSE Append(backlog, m),
             announced' = IF /\ m.kind = "turn" /\ announced[m.run] = "none"
                             /\ run[m.run].result = "none"
                            THEN [announced EXCEPT ![m.run] = m.status] ELSE announced,
             m.kind = "turn" => \E p \in Processes : wire[p] # <<>> /\ m = Head(wire[p])
      PROVE  /\ reading' \in [Processes -> 0..MaxRuns]
             /\ protocolError' \in BOOLEAN /\ (protocolError => protocolError')
             /\ run' \in [Runs -> RunStates]
             /\ \A r \in Runs : Grows(run[r], run'[r]) /\ (~Registered(r) => run'[r] = run[r])
             /\ Heard(m)
  <2>1. PICK futures, runs :
          /\ runs = IF Registered(m.run) THEN [run EXCEPT ![m.run] = Handled(@, m)] ELSE run
          /\ Breaks(k, futures, runs) \/ Continues(k, futures, runs)
    BY <1>7
  <2>2. /\ runs \in [Runs -> RunStates]
        /\ \A r \in Runs : Grows(run[r], runs[r]) /\ (~Registered(r) => runs[r] = run[r])
    BY <2>1, HandledAlone
  <2>3. UNCHANGED current
    BY <1>7 DEF ReaderKept
  <2>4. Closes(runs) /\ reading' \in [Processes -> 0..MaxRuns]
    BY <2>1, <2>2, <2>3, GoesOnFacts
  <2>5. Heard(m)
    BY <1>7, <2>1, <2>4, HeardOrDeaf
  <2>6. \A r \in Runs : Grows(run[r], run'[r]) /\ (~Registered(r) => run'[r] = run[r])
    BY <2>2, <2>4, GrowsOn DEF Closes
  <2> QED
    BY <2>4, <2>5, <2>6 DEF Closes
<1>8. CASE ReadNotification(k)
  <2>1. PICK kind \in {"note", "turn"} :
          /\ Reads(k, kind)
          /\ IF Registered(Read(k).run)
               THEN /\ Continues(k, future, [run EXCEPT ![Read(k).run] = Handled(@, Read(k))])
                    /\ UNCHANGED backlog
               ELSE /\ Continues(k, future, run)
                    /\ backlog' = Append(backlog, Read(k))
          /\ announced' = IF /\ kind = "turn" /\ announced[Read(k).run] = "none"
                             /\ run[Read(k).run].result = "none"
                            THEN [announced EXCEPT ![Read(k).run] = Read(k).status] ELSE announced
    BY <1>8 DEF ReadNotification
  <2>2. /\ ReaderKept /\ Taken
        /\ reading[k] \in Processes /\ wire[reading[k]] # <<>>
        /\ Read(k) \in Messages /\ Read(k).kind = kind
    BY <1>3, <2>1
  <2>3. PICK m : m = Read(k)
    OBVIOUS
  <2>4. m \in Notifications
    BY <2>2, <2>3 DEF Messages, Notifications
  <2>5. m.kind = "turn" => \E p \in Processes : wire[p] # <<>> /\ m = Head(wire[p])
    BY <2>2, <2>3 DEF Read
  <2>6. \E futures, runs :
          /\ runs = IF Registered(m.run) THEN [run EXCEPT ![m.run] = Handled(@, m)] ELSE run
          /\ Breaks(k, futures, runs) \/ Continues(k, futures, runs)
    BY <2>1, <2>3
  <2> QED
    BY <1>7, <2>1, <2>2, <2>3, <2>4, <2>5, <2>6
<1>9. CASE ReadRequest(k)
  <2>1. PICK note : note = [kind |-> "note", run |-> Read(k).run]
    OBVIOUS
  <2>2. /\ ReaderKept /\ Taken
        /\ Read(k) \in Messages /\ Read(k).kind = "request"
    BY <1>3, <1>9 DEF ReadRequest
  <2>3. note \in Notifications /\ note.kind = "note" /\ note.run = Read(k).run
    BY <2>1, <2>2 DEF Messages, Notifications
  <2>4. /\ \E futures, runs :
             /\ runs = IF Registered(note.run) THEN [run EXCEPT ![note.run] = Handled(@, note)] ELSE run
             /\ Breaks(k, futures, runs) \/ Continues(k, futures, runs)
        /\ backlog' = IF Registered(note.run) THEN backlog ELSE Append(backlog, note)
        /\ announced' = announced
    BY <1>9, <2>1, <2>3 DEF ReadRequest
  <2> QED
    BY <1>7, <2>2, <2>3, <2>4
<1> QED
  BY <1>4, <1>5, <1>6, <1>8, <1>9 DEF Reader

-----------------------------------------------------------------------------
(* One run at a time. *)

\* A run that has begun and is not over.
Active(r) == submitter[r] # "idle" /\ ~Over(r)

\* There is one at most.
LEMMA ActiveAlone ==
  ASSUME \A o \in Runs : Serial(o), NEW q \in Runs, NEW r \in Runs, Active(q), Active(r)
  PROVE  q = r
<1>1. ASSUME NEW a \in Runs, NEW b \in Runs, Active(a), Active(b), a < b PROVE FALSE
  <2>1. a \in 1..(b - 1)
    BY <1>1 DEF Runs
  <2> QED
    BY <1>1, <2>1 DEF Serial, Active
<1>2. q \in Int /\ r \in Int
  BY DEF Runs
<1> QED
  BY <1>1, <1>2

\* A run that is being submitted, is out or stops the process is one.
LEMMA ActiveFacts ==
  ASSUME TypeOK, NEW r \in Runs, Phases(r)
  PROVE  /\ submitter[r] \notin {"idle", "handed", "raised"} => Active(r)
         /\ Open(r) => Active(r)
         /\ Stops(r) => Active(r)
         /\ quiescer[r] # "idle" => Registered(r)
         /\ waiter[r] # "idle" => Registered(r)
         /\ canceller[r] # "idle" => Registered(r)
         /\ stream[r] # "idle" => Registered(r)
         /\ Registered(r) /\ quiescer[r] # "returned" => Active(r)
         /\ ~Registered(r) => run[r].result = "none" /\ ~run[r].quiesced
BY DEF Active, Over, Open, Stops, Phases, Registered, NewRun

\* While a run is being submitted none is out, and the backlog is whole.
LEMMA WholeBacklog ==
  ASSUME TypeOK, \A o \in Runs : Phases(o) /\ Serial(o), Backlog,
         NEW q \in Runs, submitter[q] \notin {"idle", "handed", "raised"}
  PROVE  /\ \A o \in Runs : ~Open(o)
         /\ backlog \in Seq(Notifications)
         /\ \A o \in Runs : (\E n \in DOMAIN backlog : TurnAt(o, n)) => announced[o] # "none"
<1>1. ASSUME NEW o \in Runs, Open(o) PROVE FALSE
  <2>1. Active(q) /\ Active(o)
    BY <1>1, ActiveFacts
  <2>2. q = o
    BY <2>1, ActiveAlone
  <2> QED
    BY <1>1, <2>2 DEF Open, Registered
<1> QED
  BY <1>1 DEF Backlog

\* Every step keeps the types.
LEMMA TypesKept ==
  TypeOK /\ (\A o \in Runs : Phases(o) /\ Serial(o)) /\ Backlog /\ [Next]_vars => TypeOK'
<1> SUFFICES ASSUME TypeOK, \A o \in Runs : Phases(o) /\ Serial(o), Backlog, [Next]_vars
             PROVE  TypeOK'
  OBVIOUS
<1>1. ASSUME NEW q \in Runs, Submits(q) PROVE TypeOK'
  <2>1. submitter[q] = "spawning" => spawned < q
    BY DEF Serial
  <2>2. submitter[q] = "turning" => run[q] = NewRun /\ backlog \in Seq(Notifications)
    BY WholeBacklog DEF Phases, Registered
  <2> QED
    BY <1>1, <2>1, <2>2, SubmitTypes
<1>2. ASSUME NEW q \in Runs, Caller(q) PROVE TypeOK'
  BY <1>1, <1>2, ClientTypes DEF Caller
<1>3. CASE RequestExpires
  BY <1>3 DEF RequestExpires, adapter, calls, server, TypeOK
<1>4. CASE Kills
  <2>1. stopping \in Processes
    BY <1>4 DEF Kills, TypeOK, Processes
  <2> QED
    BY <1>4, <2>1, ExitsTypes DEF Kills
<1>5. ASSUME NEW k \in Processes, Reader(k) PROVE TypeOK'
  <2>1. /\ ReaderKept
        /\ reading' \in [Processes -> 0..MaxRuns]
        /\ protocolError' \in BOOLEAN
        /\ Taken \/ UNCHANGED wire
        /\ run' \in [Runs -> RunStates]
        /\ Deaf \/ \E m \in Notifications : Heard(m)
    BY <1>5, ReaderFacts
  <2>2. wire' \in [Processes -> Seq(Messages)]
    BY <2>1, TakenFacts DEF TypeOK
  <2>3. announced' \in [Runs -> {"none"} \cup TurnStatuses]
    <3>1. CASE Deaf
      BY <3>1 DEF Deaf, TypeOK
    <3>2. ASSUME NEW m \in Notifications, Heard(m)
          PROVE  announced' \in [Runs -> {"none"} \cup TurnStatuses]
      <4>1. m.kind = "turn" => m.status \in TurnStatuses
        BY DEF Notifications
      <4> QED
        BY <3>2, <4>1 DEF Heard, TypeOK
    <3> QED
      BY <2>1, <3>1, <3>2
  <2> QED
    BY <2>1, <2>2, <2>3 DEF ReaderKept, calls, TypeOK
<1>6. CASE UNCHANGED vars
  BY <1>6 DEF vars, adapter, calls, server, TypeOK
<1> QED
  BY <1>2, <1>3, <1>4, <1>5, <1>6, ServerTypes DEF Next, Loop

\* The other calls end a run in a timeout, if at all, and quiesce it.
LEMMA ClientRuns ==
  ASSUME TypeOK, NEW q \in Runs, Stream(q) \/ Wait(q) \/ Cancel(q) \/ Quiesce(q), NEW r \in Runs
  PROVE  /\ run[r].result # "none" => run'[r].result = run[r].result
         /\ run'[r].result # run[r].result => run'[r].result = "timeout" /\ waiter[r] = "grace"
         /\ run[r].quiesced => run'[r].quiesced
         /\ RequestsKept(run[r], run'[r])
<1>1. run[r] \in RunStates /\ run[q] \in RunStates
  BY DEF TypeOK
<1>2. ASSUME NEW state, run' = [run EXCEPT ![q] = state],
             run[q].result # "none" => state.result = run[q].result,
             state.result # run[q].result => state.result = "timeout" /\ waiter[q] = "grace",
             run[q].quiesced => state.quiesced,
             RequestsKept(run[q], state)
      PROVE  /\ run[r].result # "none" => run'[r].result = run[r].result
             /\ run'[r].result # run[r].result => run'[r].result = "timeout" /\ waiter[r] = "grace"
             /\ run[r].quiesced => run'[r].quiesced
             /\ RequestsKept(run[r], run'[r])
  BY <1>2 DEF TypeOK, RequestsKept
<1>3. CASE UNCHANGED run
  BY <1>3 DEF RequestsKept
<1>4. CASE Stream(q) /\ run' # run
  <2>1. PICK state : state = [run[q] EXCEPT !.queue = Tail(@)]
    OBVIOUS
  <2>2. run' = [run EXCEPT ![q] = state]
    BY <1>4, <2>1 DEF Stream
  <2> QED
    BY <1>1, <1>2, <2>1, <2>2 DEF RunStates, RequestsKept
<1>5. CASE WaitDeadline(q)
  <2>1. PICK state : state = [run[q] EXCEPT !.timeoutRequested = TRUE]
    OBVIOUS
  <2>2. run' = [run EXCEPT ![q] = state]
    BY <1>5, <2>1 DEF WaitDeadline
  <2> QED
    BY <1>1, <1>2, <2>1, <2>2 DEF RunStates, RequestsKept
<1>6. CASE GraceEnds(q)
  <2>1. PICK state : state = Finished(run[q], "timeout")
    OBVIOUS
  <2>2. /\ Grows(run[q], state) /\ waiter[q] = "grace"
        /\ run[q].result = "none" => state.result = "timeout"
    BY <1>1, <1>6, <2>1, FinishedFacts DEF Statuses, GraceEnds
  <2>3. run' = [run EXCEPT ![q] = state]
    BY <1>6, <2>1 DEF GraceEnds
  <2> QED
    BY <1>2, <2>2, <2>3 DEF Grows
<1>7. CASE CancelStarts(q) /\ run' # run
  <2>1. PICK state : state = [run[q] EXCEPT !.cancelRequested = TRUE]
    OBVIOUS
  <2>2. run' = [run EXCEPT ![q] = state] /\ run[q].result = "none"
    BY <1>7, <2>1 DEF CancelStarts
  <2> QED
    BY <1>1, <1>2, <2>1, <2>2 DEF RunStates, RequestsKept
<1>8. CASE QuiesceEnds(q)
  <2>1. PICK state : state = [run[q] EXCEPT !.quiesced = TRUE]
    OBVIOUS
  <2>2. run' = [run EXCEPT ![q] = state]
    BY <1>8, <2>1 DEF QuiesceEnds
  <2> QED
    BY <1>1, <1>2, <2>1, <2>2 DEF RunStates, RequestsKept
<1> QED
  BY <1>3, <1>4, <1>5, <1>6, <1>7, <1>8
  DEF Stream, Wait, WaitStarts, WaitAnswers, WaitInterrupted, Cancel, CancelEnds, Quiesce,
      QuiesceStarts

\* The outcome of a submit, a result with what it was taken from and a quiesce stay.
RunKept(r) ==
  /\ submitter[r] \in {"handed", "raised"} => submitter'[r] = submitter[r]
  /\ run[r].result # "none" => run'[r].result = run[r].result
  /\ run[r].quiesced => run'[r].quiesced
  /\ RequestsKept(run[r], run'[r])

\* Every step keeps them all.
LEMMA RunsKept ==
  TypeOK /\ (\A o \in Runs : Phases(o)) /\ [Next]_vars => \A r \in Runs : RunKept(r)
<1> SUFFICES ASSUME TypeOK, \A o \in Runs : Phases(o), [Next]_vars, NEW r \in Runs
             PROVE  RunKept(r)
  OBVIOUS
<1>1. CASE UNCHANGED <<submitter, run>>
  BY <1>1 DEF RunKept, RequestsKept
<1>2. ASSUME NEW q \in Runs, Submits(q) PROVE RunKept(r)
  <2>1. submitter'[r] = submitter[r] \/ submitter[r] \notin {"handed", "raised"}
    BY <1>2 DEF Submits, Submit, Spawned, Initialized, BadEvidence, Disconnected, Threaded,
                Register, SubmitRaises, SubmitAt, TypeOK
  <2>2. CASE UNCHANGED run
    BY <2>1, <2>2 DEF RunKept, RequestsKept
  <2>3. CASE Register(q)
    <3>1. run[q].result = "none" /\ ~run[q].quiesced /\ ~run[q].timeoutRequested
      BY <2>3 DEF Register, Registered, Phases, NewRun
    <3>2. r # q => run'[r] = run[r]
      BY <2>3 DEF Register, TypeOK
    <3> QED
      BY <2>1, <3>1, <3>2 DEF RunKept, RequestsKept
  <2> QED
    BY <1>2, <2>2, <2>3
    DEF Submits, Submit, Spawned, Initialized, BadEvidence, Disconnected, Threaded, SubmitRaises
<1>3. ASSUME NEW q \in Runs, Stream(q) \/ Wait(q) \/ Cancel(q) \/ Quiesce(q) PROVE RunKept(r)
  <2>1. UNCHANGED submitter
    BY <1>3 DEF Stream, Wait, Cancel, Quiesce, CallKept
  <2> QED
    BY <1>3, <2>1, ClientRuns DEF RunKept
<1>4. ASSUME NEW k \in Processes, Reader(k) PROVE RunKept(r)
  <2>1. ReaderKept /\ Grows(run[r], run'[r])
    BY <1>4, ReaderFacts
  <2> QED
    BY <2>1 DEF ReaderKept, calls, Grows, RunKept
<1>5. CASE RequestExpires \/ Kills \/ (\E k \in Processes : Server(k)) \/ UNCHANGED vars
  BY <1>1, <1>5 DEF RequestExpires, Kills, Server, ServerKept, calls, vars
<1> QED
  BY <1>2, <1>3, <1>4, <1>5 DEF Next, Loop, Caller

\* A registered run was handed out by Register, in the state the replay leaves.
LEMMA RegisterAlone ==
  ASSUME TypeOK, \A o \in Runs : Phases(o) /\ Serial(o), Backlog, NEW q \in Runs, Register(q)
  PROVE  /\ \A r \in Runs : r # q => run'[r] = run[r]
         /\ ~run'[q].quiesced
         /\ \E state \in RunStates :
              /\ state.result = "none" \/ (state.result = "failed" /\ protocolError)
              /\ Follows(q, state, backlog, Len(backlog), run'[q])
<1>1. run[q] = NewRun /\ submitter[q] = "turning"
  BY DEF Phases, Register, Registered
<1>2. backlog \in Seq(Notifications)
  BY <1>1, WholeBacklog
<1>3. /\ run' = [run EXCEPT ![q] = run'[q]]
      /\ \E state \in RunStates :
           /\ state.result = "none" \/ (state.result = "failed" /\ protocolError)
           /\ ~state.quiesced
           /\ Follows(q, state, backlog, Len(backlog), run'[q])
  BY <1>1, <1>2, RegisterTypes
<1> QED
  BY <1>3 DEF TypeOK, Follows, Grows

\* submit keeps the phases.
LEMMA SubmitPhases ==
  ASSUME TypeOK, \A o \in Runs : Phases(o) /\ Serial(o), Backlog,
         NEW q \in Runs, Submits(q), NEW r \in Runs
  PROVE  Phases(r)'
<1>1. UNCHANGED <<waiter, canceller, quiescer, stream>>
  BY DEF Submits, Submit, Spawned, Initialized, BadEvidence, Disconnected, Threaded,
         Register, SubmitRaises, SubmitKept, CallsKept
<1>2. \E place : SubmitAt(q, place)
  BY DEF Submits, Submit, Spawned, Initialized, BadEvidence, Disconnected, Threaded,
         Register, SubmitRaises
<1>3. r # q => submitter'[r] = submitter[r]
  BY <1>2 DEF SubmitAt, TypeOK
<1>4. submitter[q] # "handed"
  BY DEF Submits, Submit, Spawned, Initialized, BadEvidence, Disconnected, Threaded,
         Register, SubmitRaises
<1>5. CASE UNCHANGED run
  BY <1>1, <1>3, <1>4, <1>5 DEF Phases, Registered
<1>6. CASE Register(q)
  <2>1. (\A o \in Runs : o # q => run'[o] = run[o]) /\ ~run'[q].quiesced
    BY <1>6, RegisterAlone
  <2>2. submitter'[q] = "handed"
    BY <1>6 DEF Register, SubmitAt, TypeOK
  <2> QED
    BY <1>1, <1>3, <1>4, <2>1, <2>2 DEF Phases, Registered
<1> QED
  BY <1>5, <1>6
  DEF Submits, Submit, Spawned, Initialized, BadEvidence, Disconnected, Threaded, SubmitKept,
      SubmitRaises

\* The other calls are of runs that are out.
LEMMA ClientOut ==
  ASSUME TypeOK, NEW q \in Runs, Phases(q), Stream(q) \/ Wait(q) \/ Cancel(q) \/ Quiesce(q)
  PROVE  /\ Registered(q)
         /\ UNCHANGED submitter
         /\ \A r \in Runs : r # q =>
              /\ run'[r] = run[r]
              /\ UNCHANGED <<waiter[r], canceller[r], quiescer[r], stream[r]>>
<1>1. Registered(q)
  BY ActiveFacts DEF Stream, Wait, WaitStarts, WaitAnswers, WaitDeadline, WaitInterrupted,
                     GraceEnds, Cancel, CancelStarts, CancelEnds, Quiesce, QuiesceStarts,
                     QuiesceEnds
<1>2. CASE Stream(q)
  BY <1>1, <1>2 DEF Stream, TypeOK
<1>3. CASE Wait(q)
  BY <1>1, <1>3 DEF Wait, WaitStarts, WaitAnswers, WaitDeadline, WaitInterrupted, GraceEnds,
                    WaitAt, CallKept, TypeOK
<1>4. CASE Cancel(q)
  BY <1>1, <1>4 DEF Cancel, CancelStarts, CancelEnds, CancelAt, CallKept, TypeOK
<1>5. CASE Quiesce(q)
  BY <1>1, <1>5 DEF Quiesce, QuiesceStarts, QuiesceEnds, TypeOK
<1> QED
  BY <1>2, <1>3, <1>4, <1>5

\* And keep the phases.
LEMMA ClientPhases ==
  ASSUME TypeOK, \A o \in Runs : Phases(o), [Next]_vars, TypeOK',
         NEW q \in Runs, Stream(q) \/ Wait(q) \/ Cancel(q) \/ Quiesce(q), NEW r \in Runs
  PROVE  Phases(r)'
<1>1. /\ Registered(q)
      /\ UNCHANGED submitter
      /\ r # q => /\ run'[r] = run[r]
                  /\ UNCHANGED <<waiter[r], canceller[r], quiescer[r], stream[r]>>
  BY ClientOut
<1>2. CASE r # q
  BY <1>1, <1>2 DEF Phases, Registered
<1>3. CASE r = q
  <2>1. run[q].result # "none" => run'[q].result # "none"
    BY RunsKept DEF RunKept
  <2>2. run[q] \in RunStates
    BY DEF TypeOK
  <2>3. run'[q].quiesced <=> quiescer'[q] = "returned"
    <3>1. CASE Stream(q)
      BY <2>2, <3>1 DEF Stream, Phases, TypeOK, RunStates
    <3>2. CASE Wait(q)
      <4>1. quiescer' = quiescer
        BY <3>2 DEF Wait, CallKept
      <4>2. Grows(run[q], Finished(run[q], "timeout"))
        BY <2>2, FinishedFacts DEF Statuses
      <4>3. run'[q].quiesced = run[q].quiesced
        BY <2>2, <3>2, <4>2 DEF Wait, WaitStarts, WaitAnswers, WaitDeadline, WaitInterrupted,
                                GraceEnds, Grows, TypeOK, RunStates
      <4> QED
        BY <4>1, <4>3 DEF Phases
    <3>3. CASE Cancel(q)
      BY <2>2, <3>3 DEF Cancel, CancelStarts, CancelEnds, CallKept, Phases, TypeOK, RunStates
    <3>4. CASE QuiesceStarts(q) /\ Quiesce(q)
      BY <2>2, <3>4 DEF QuiesceStarts, Phases, TypeOK
    <3>5. CASE QuiesceEnds(q)
      BY <2>2, <3>5 DEF QuiesceEnds, TypeOK, RunStates
    <3> QED
      BY <3>1, <3>2, <3>3, <3>4, <3>5 DEF Quiesce
  <2>4. quiescer'[q] # "idle" => quiescer[q] # "idle" \/ run[q].result # "none"
    BY DEF Stream, Wait, Cancel, CallKept, Quiesce, QuiesceStarts, QuiesceEnds
  <2>5. waiter'[q] = "returned" => waiter[q] = "returned" \/ run'[q].result # "none"
    <3>1. CASE GraceEnds(q)
      <4>1. Finished(run[q], "timeout").result # "none"
        BY <2>2, FinishedFacts DEF Statuses
      <4> QED
        BY <3>1, <4>1 DEF GraceEnds, TypeOK
    <3>2. CASE WaitAnswers(q)
      BY <2>1, <3>2 DEF WaitAnswers
    <3>3. CASE WaitStarts(q) \/ WaitDeadline(q) \/ WaitInterrupted(q)
      BY <3>3 DEF WaitStarts, WaitDeadline, WaitInterrupted, WaitAt, TypeOK
    <3>4. CASE UNCHANGED waiter
      BY <3>4
    <3> QED
      BY <3>1, <3>2, <3>3, <3>4
      DEF Stream, Wait, Cancel, CancelStarts, CancelEnds, CancelAt, Quiesce
  <2> QED
    BY <1>1, <1>3, <2>1, <2>3, <2>4, <2>5 DEF Phases, Registered
<1> QED
  BY <1>2, <1>3

\* Every step keeps the phases of every run.
LEMMA PhasesKept ==
  TypeOK /\ (\A o \in Runs : Phases(o) /\ Serial(o)) /\ Backlog /\ [Next]_vars =>
    \A r \in Runs : Phases(r)'
<1> SUFFICES ASSUME TypeOK, \A o \in Runs : Phases(o) /\ Serial(o), Backlog, [Next]_vars,
                    NEW r \in Runs
             PROVE  Phases(r)'
  OBVIOUS
<1>1. TypeOK'
  BY TypesKept
<1>2. CASE UNCHANGED <<calls, run>>
  BY <1>2 DEF calls, Phases, Registered
<1>3. ASSUME NEW q \in Runs, Caller(q) PROVE Phases(r)'
  <2>1. CASE Submits(q)
    BY <2>1, SubmitPhases
  <2>2. CASE Stream(q) \/ Wait(q) \/ Cancel(q) \/ Quiesce(q)
    BY <1>1, <2>2, ClientPhases
  <2> QED
    BY <1>3, <2>1, <2>2 DEF Caller
<1>4. ASSUME NEW k \in Processes, Reader(k) PROVE Phases(r)'
  <2>1. ReaderKept /\ Grows(run[r], run'[r]) /\ (~Registered(r) => run'[r] = run[r])
    BY <1>4, ReaderFacts
  <2> QED
    BY <2>1 DEF ReaderKept, calls, Grows, Phases, Registered
<1>5. CASE RequestExpires \/ Kills \/ (\E k \in Processes : Server(k)) \/ UNCHANGED vars
  BY <1>2, <1>5 DEF RequestExpires, Kills, Server, ServerKept, vars
<1> QED
  BY <1>3, <1>4, <1>5 DEF Next, Loop

\* A run that is over stays so.
LEMMA OverStays ==
  ASSUME TypeOK, \A o \in Runs : Phases(o), [Next]_vars, NEW r \in Runs, Over(r)
  PROVE  Over(r)'
BY RunsKept DEF RunKept, Over

\* submit keeps the order: it begins a run when the earlier ones are over, and
\* creates the process of the one run that is not.
LEMMA SubmitSerial ==
  ASSUME TypeOK, \A o \in Runs : Phases(o) /\ Serial(o),
         NEW q \in Runs, Submits(q), NEW r \in Runs
  PROVE  /\ submitter'[r] # "idle" /\ submitter[r] = "idle" => \A o \in 1..(r - 1) : Over(o)
         /\ submitter'[r] \in {"idle", "spawning"} =>
              submitter[r] \in {"idle", "spawning"} /\ spawned' < r
<1>1. \E place : SubmitAt(q, place)
  BY DEF Submits, Submit, Spawned, Initialized, BadEvidence, Disconnected, Threaded,
         Register, SubmitRaises
<1>2. r # q => submitter'[r] = submitter[r]
  BY <1>1 DEF SubmitAt, TypeOK
<1>3. CASE Submit(q)
  BY <1>2, <1>3 DEF Submit, SubmitAt, TypeOK, Over, Serial
<1>4. CASE Spawned(q)
  <2>1. submitter'[q] = "initializing" /\ submitter[q] = "spawning" /\ spawned' = spawned + 1
    BY <1>4 DEF Spawned, SubmitAt, TypeOK
  <2>2. ASSUME r # q, submitter[r] \in {"idle", "spawning"} PROVE spawned + 1 < r
    <3>1. spawned < q /\ spawned \in Nat /\ q \in Nat /\ r \in Nat
      BY <2>1 DEF Serial, TypeOK, Runs
    <3>2. CASE r < q
      <4>1. r \in 1..(q - 1)
        BY <3>2 DEF Runs
      <4>2. Over(r)
        BY <2>1, <4>1 DEF Serial
      <4> QED
        BY <2>2, <4>2, ActiveFacts DEF Over, Registered
    <3> QED
      BY <2>2, <3>1, <3>2
  <2> QED
    BY <1>2, <2>1, <2>2
<1>5. CASE UNCHANGED spawned /\ submitter[q] # "idle" /\ submitter'[q] \notin {"idle", "spawning"}
  BY <1>2, <1>5 DEF Serial
<1>6. CASE Initialized(q) \/ BadEvidence(q) \/ Disconnected(q) \/ Threaded(q) \/ Register(q)
             \/ SubmitRaises(q)
  BY <1>5, <1>6 DEF Initialized, BadEvidence, Disconnected, Threaded, Register, SubmitRaises,
                    SubmitAt, SubmitKept, server, TypeOK
<1> QED
  BY <1>3, <1>4, <1>6 DEF Submits

\* Every step keeps it.
LEMMA SerialKept ==
  TypeOK /\ (\A o \in Runs : Phases(o) /\ Serial(o)) /\ [Next]_vars =>
    \A r \in Runs : Serial(r)'
<1> SUFFICES ASSUME TypeOK, \A o \in Runs : Phases(o) /\ Serial(o), [Next]_vars, NEW r \in Runs
             PROVE  Serial(r)'
  OBVIOUS
<1>1. ASSUME NEW o \in 1..(r - 1), Over(o) PROVE Over(o)'
  <2>1. o \in Runs
    BY AppServerAssumption DEF Runs
  <2> QED
    BY <1>1, <2>1, OverStays
<1>2. CASE UNCHANGED <<submitter, spawned>>
  BY <1>1, <1>2 DEF Serial
<1>3. ASSUME NEW q \in Runs, Caller(q) PROVE Serial(r)'
  <2>1. CASE Submits(q)
    BY <1>1, <2>1, SubmitSerial DEF Serial
  <2> QED
    BY <1>2, <1>3, <2>1 DEF Caller, Stream, Wait, Cancel, CallKept, Quiesce, server
<1>4. ASSUME NEW k \in Processes, Reader(k) PROVE Serial(r)'
  BY <1>2, <1>4, ReaderFacts DEF ReaderKept, calls
<1>5. CASE RequestExpires \/ Kills \/ (\E k \in Processes : Server(k)) \/ UNCHANGED vars
  BY <1>2, <1>5 DEF RequestExpires, Kills, Server, ServerKept, calls, server, vars
<1> QED
  BY <1>3, <1>4, <1>5 DEF Next, Loop

-----------------------------------------------------------------------------
(* Where the turns are. *)

\* Only the active run stops the process.
LEMMA StopsAlone ==
  ASSUME TypeOK, \A o \in Runs : Phases(o) /\ Serial(o),
         NEW q \in Runs, Active(q), ~Stops(q), NEW r \in Runs
  PROVE  ~Stops(r)
BY ActiveFacts, ActiveAlone

\* Whoever begins to stop the process finds that nobody stops it.
LEMMA StopBeginsFacts ==
  ASSUME TypeOK, \A o \in Runs : Phases(o) /\ Serial(o), Stopping,
         NEW q \in Runs, BadEvidence(q) \/ QuiesceStarts(q)
  PROVE  stopping = 0
<1>1. Active(q) /\ ~Stops(q)
  BY ActiveFacts DEF BadEvidence, QuiesceStarts, Stops, Registered
<1>2. \A r \in Runs : ~Stops(r)
  BY <1>1, StopsAlone
<1> QED
  BY <1>2 DEF Stopping

\* The process that is stopped is the one that was taken away.
LEMMA StoppingKept ==
  ASSUME TypeOK, \A o \in Runs : Phases(o) /\ Serial(o), Stopping, [Next]_vars
  PROVE  Stopping'
<1>1. CASE UNCHANGED <<current, stopping, submitter, quiescer>>
  BY <1>1 DEF Stopping, Stops
<1>2. ASSUME NEW q \in Runs, Submits(q) PROVE Stopping'
  <2>1. UNCHANGED quiescer
    BY <1>2 DEF Submits, Submit, Spawned, Initialized, BadEvidence, Disconnected, Threaded,
                Register, SubmitRaises, SubmitKept, CallsKept
  <2>2. CASE Spawned(q)
    <3>1. Active(q) /\ ~Stops(q)
      BY <2>2, ActiveFacts DEF Spawned, Stops, Registered
    <3>2. \A r \in Runs : ~Stops(r)
      BY <3>1, StopsAlone
    <3>3. \A r \in Runs : ~Stops(r)'
      BY <2>1, <2>2, <3>2 DEF Spawned, SubmitAt, Stops, TypeOK
    <3> QED
      BY <2>2, <3>2, <3>3 DEF Spawned, Stopping
  <2>3. CASE BadEvidence(q)
    <3>1. Stops(q)'
      BY <2>3 DEF BadEvidence, SubmitAt, Stops, TypeOK
    <3> QED
      BY <2>3, <3>1 DEF BadEvidence, StopBegins, Stopping
  <2>4. CASE Disconnected(q)
    <3>1. \A r \in Runs : Stops(r)' => Stops(r)
      BY <2>1, <2>4 DEF Disconnected, SubmitAt, Stops, TypeOK
    <3> QED
      BY <2>4, <3>1 DEF Disconnected, StopEnds, Stopping
  <2>5. CASE Submit(q) \/ Initialized(q) \/ Threaded(q) \/ Register(q) \/ SubmitRaises(q)
    <3>1. \A r \in Runs : Stops(r)' <=> Stops(r)
      BY <2>1, <2>5 DEF Submit, Initialized, Threaded, Register, SubmitRaises, SubmitAt, Stops,
                        TypeOK
    <3> QED
      BY <2>5, <3>1 DEF Submit, Initialized, Threaded, Register, SubmitRaises, SubmitKept, Stopping
  <2> QED
    BY <1>2, <2>2, <2>3, <2>4, <2>5 DEF Submits
<1>3. ASSUME NEW q \in Runs, Quiesce(q) PROVE Stopping'
  <2>1. CASE QuiesceStarts(q)
    <3>1. Stops(q)'
      BY <2>1 DEF QuiesceStarts, Stops, TypeOK
    <3> QED
      BY <2>1, <3>1 DEF QuiesceStarts, StopBegins, Stopping
  <2>2. CASE QuiesceEnds(q)
    <3>1. \A r \in Runs : Stops(r)' => Stops(r)
      BY <1>3, <2>2 DEF Quiesce, QuiesceEnds, Stops, TypeOK
    <3> QED
      BY <2>2, <3>1 DEF QuiesceEnds, StopEnds, Stopping
  <2> QED
    BY <1>3, <2>1, <2>2 DEF Quiesce
<1>4. ASSUME NEW k \in Processes, Reader(k) PROVE Stopping'
  BY <1>1, <1>4, ReaderFacts DEF ReaderKept, calls
<1>5. CASE RequestExpires \/ Kills \/ (\E k \in Processes : Server(k)) \/ UNCHANGED vars
  BY <1>1, <1>5 DEF RequestExpires, Kills, Server, ServerKept, adapter, calls, vars
<1> QED
  BY <1>1, <1>2, <1>3, <1>4, <1>5 DEF Next, Loop, Caller, Stream, Wait, Cancel, CallKept, adapter

\* A process is created only if none can have a turn.
LEMMA EvidenceKept ==
  ASSUME TypeOK, \A o \in Runs : Phases(o) /\ Serial(o) /\ Evidence(o), [Next]_vars
  PROVE  \A r \in Runs : Evidence(r)'
<1> SUFFICES ASSUME NEW r \in Runs PROVE Evidence(r)'
  OBVIOUS
<1>1. 0 \notin up
  BY DEF TypeOK, Processes
<1>2. ASSUME UNCHANGED <<submitter, evidence>>, current' \in {current, 0}, up' \subseteq up
      PROVE  Evidence(r)'
  BY <1>1, <1>2 DEF Evidence, Live
<1>3. ASSUME NEW q \in Runs, Submits(q) PROVE Evidence(r)'
  <2>1. CASE Submit(q)
    BY <2>1 DEF Submit, SubmitAt, Evidence, Live, TypeOK
  <2>2. CASE Spawned(q) \/ Initialized(q)
    <3>1. submitter[r] = "spawning" => r = q
      BY <2>2, ActiveFacts, ActiveAlone DEF Spawned, Initialized
    <3>2. submitter'[q] \in {"initializing", "threading"} /\ (r # q => submitter'[r] = submitter[r])
      BY <2>2 DEF Spawned, Initialized, SubmitAt, TypeOK
    <3>3. (evidence => evidence') /\ (submitter'[q] = "threading" => evidence')
      BY <2>2, <3>2 DEF Spawned, Initialized, SubmitAt, TypeOK
    <3> QED
      BY <3>1, <3>2, <3>3 DEF Evidence
  <2>3. CASE BadEvidence(q)
    BY <1>1, <2>3 DEF BadEvidence, StopBegins, SubmitAt, server, Evidence, Live, TypeOK
  <2>4. CASE Disconnected(q) \/ Threaded(q) \/ Register(q) \/ SubmitRaises(q)
    BY <2>4 DEF Disconnected, Threaded, Register, SubmitRaises, SubmitKept, SubmitAt, server,
                Evidence, Live, TypeOK
  <2> QED
    BY <1>3, <2>1, <2>2, <2>3, <2>4 DEF Submits
<1>4. ASSUME NEW q \in Runs, Quiesce(q) PROVE Evidence(r)'
  BY <1>2, <1>4 DEF Quiesce, QuiesceStarts, QuiesceEnds, StopBegins, server
<1>5. ASSUME NEW k \in Processes, Reader(k) PROVE Evidence(r)'
  BY <1>2, <1>5, ReaderFacts DEF ReaderKept, calls
<1>6. CASE RequestExpires \/ UNCHANGED vars
  BY <1>2, <1>6 DEF RequestExpires, adapter, calls, server, vars
<1>7. CASE Kills \/ \E k \in Processes : Server(k)
  BY <1>2, <1>7 DEF Kills, Server, Answers, StartsTurn, EndsTurn, Notifies, Exits, ServerKept,
                    adapter, calls
<1>8. ASSUME NEW q \in Runs, Stream(q) \/ Wait(q) \/ Cancel(q) PROVE Evidence(r)'
  BY <1>2, <1>8 DEF Stream, Wait, Cancel, CallKept, adapter, server
<1> QED
  BY <1>3, <1>4, <1>5, <1>6, <1>7, <1>8 DEF Next, Loop, Caller

\* A turn, or the request for one, is where it was, or has just been asked for.
LEMMA TurnOnOld ==
  ASSUME TypeOK, [Next]_vars, \A o \in Runs : Phases(o),
         NEW r \in Runs, NEW p \in Processes, TurnOn(r, p)'
  PROVE  TurnOn(r, p) \/ (Threaded(r) /\ p = current /\ p \in up)
<1> DEFINE wanted == <<r, "submit", "turn">>
<1>1. ASSUME UNCHANGED <<asked, turn, home>> PROVE TurnOn(r, p)
  BY <1>1 DEF TurnOn
<1>2. ASSUME UNCHANGED <<turn, home>>, wanted \in asked'[p] => wanted \in asked[p]
      PROVE  TurnOn(r, p)
  BY <1>2 DEF TurnOn
<1>3. ASSUME NEW q \in Runs, NEW call \in Calls, NEW method \in Methods, Ask(q, call, method),
             UNCHANGED <<turn, home>>, wanted # <<q, call, method>>
      PROVE  TurnOn(r, p)
  <2>1. wanted \in asked'[p] => wanted \in asked[p]
    BY <1>3, AskFacts
  <2> QED
    BY <1>2, <1>3, <2>1
<1>4. {"thread", "turn", "interrupt"} \subseteq Methods /\ {"submit", "wait", "cancel"} \subseteq Calls
  BY DEF Methods, Calls
<1>5. ASSUME NEW q \in Runs, Submits(q) PROVE TurnOn(r, p) \/ (Threaded(r) /\ p = current /\ p \in up)
  <2>1. UNCHANGED <<turn, home>>
    BY <1>5 DEF Submits, Submit, Spawned, Initialized, BadEvidence, Disconnected, Threaded,
                Register, SubmitRaises, SubmitKept, server
  <2>2. CASE Submit(q) \/ Initialized(q)
    <3>1. Ask(q, "submit", "thread") \/ UNCHANGED asked
      BY <2>2 DEF Submit, Initialized
    <3> QED
      BY <1>1, <1>3, <1>4, <2>1, <3>1
  <2>3. CASE Spawned(q)
    <3>1. wanted \notin {<<q, "submit", "initialize">>}
      OBVIOUS
    <3>2. asked' = [asked EXCEPT ![spawned'] = {<<q, "submit", "initialize">>}]
      BY <2>3 DEF Spawned
    <3>3. wanted \in asked'[p] => wanted \in asked[p]
      BY <3>1, <3>2 DEF TypeOK
    <3> QED
      BY <1>2, <2>1, <3>3
  <2>4. CASE Threaded(q)
    <3>1. Ask(q, "submit", "turn")
      BY <2>4 DEF Threaded
    <3>2. CASE q # r
      BY <1>3, <1>4, <2>1, <3>1, <3>2
    <3>3. CASE q = r
      <4>1. wanted \in asked'[p] => wanted \in asked[p] \/ (p = current /\ p \in up)
        BY <1>4, <3>1, AskFacts
      <4> QED
        BY <1>2, <2>1, <2>4, <3>3, <4>1
    <3> QED
      BY <3>2, <3>3
  <2> QED
    BY <1>1, <1>5, <2>1, <2>2, <2>3, <2>4
    DEF Submits, BadEvidence, Disconnected, Register, SubmitRaises, server
<1>6. ASSUME NEW q \in Runs, Stream(q) \/ Wait(q) \/ Cancel(q) \/ Quiesce(q) PROVE TurnOn(r, p)
  <2>1. UNCHANGED <<turn, home>>
    BY <1>6 DEF Stream, Wait, Cancel, Quiesce, CallKept, server
  <2>2. Ask(q, "wait", "interrupt") \/ Ask(q, "cancel", "interrupt") \/ UNCHANGED asked
    BY <1>6 DEF Stream, Wait, WaitStarts, WaitAnswers, WaitDeadline, WaitInterrupted, GraceEnds,
                Cancel, CancelStarts, CancelEnds, Quiesce, server
  <2> QED
    BY <1>1, <1>3, <1>4, <2>1, <2>2
<1>7. ASSUME NEW k \in Processes, Reader(k) PROVE TurnOn(r, p)
  BY <1>1, <1>7, ReaderFacts DEF ReaderKept
<1>8. CASE RequestExpires \/ UNCHANGED vars
  BY <1>1, <1>8 DEF RequestExpires, server, vars
<1>9. ASSUME NEW o \in 0..MaxRuns, Exits(o) PROVE TurnOn(r, p)
  BY <1>9 DEF Exits, TurnOn, TypeOK
<1>10. ASSUME NEW o \in Processes, Server(o) PROVE TurnOn(r, p)
  <2>1. CASE Answers(o)
    BY <1>2, <2>1 DEF Answers, TypeOK
  <2>2. CASE StartsTurn(o)
    BY <2>2 DEF StartsTurn, TurnOn, TypeOK
  <2>3. CASE EndsTurn(o)
    BY <2>3 DEF EndsTurn, TurnOn, TypeOK
  <2>4. o \in 0..MaxRuns
    BY DEF Processes
  <2> QED
    BY <1>1, <1>9, <1>10, <2>1, <2>2, <2>3, <2>4 DEF Server, Notifies
<1>11. CASE Kills
  BY <1>9, <1>11 DEF Kills, TypeOK
<1> QED
  BY <1>5, <1>6, <1>7, <1>8, <1>10, <1>11 DEF Next, Loop, Caller

\* A turn runs in a process, and none is left in a process that has exited.
LEMMA TurnHome ==
  ASSUME TypeOK, [Next]_vars, NEW r \in Runs, turn[r] = "running" => home[r] \in Processes
  PROVE  turn'[r] = "running" => home'[r] \in Processes
<1>1. CASE UNCHANGED <<turn, home>>
  BY <1>1
<1>2. ASSUME NEW q \in Runs, Caller(q) PROVE UNCHANGED <<turn, home>>
  BY <1>2 DEF Caller, Submits, Submit, Spawned, Initialized, BadEvidence, Disconnected, Threaded,
              Register, SubmitRaises, SubmitKept, server, Stream, Wait, Cancel, Quiesce, CallKept
<1>3. ASSUME NEW k \in Processes, Reader(k) PROVE UNCHANGED <<turn, home>>
  BY <1>3, ReaderFacts DEF ReaderKept
<1>4. CASE RequestExpires \/ UNCHANGED vars
  BY <1>1, <1>4 DEF RequestExpires, server, vars
<1>5. ASSUME NEW p \in Processes, Server(p) \/ Kills
      PROVE  turn'[r] = "running" => home'[r] \in Processes
  BY <1>5 DEF Server, Kills, Answers, StartsTurn, EndsTurn, Notifies, Exits, TypeOK
<1>6. Kills => \E p \in Processes : Kills
  BY DEF Kills, TypeOK, Processes
<1> QED
  BY <1>1, <1>2, <1>3, <1>4, <1>5, <1>6 DEF Next, Loop

\* Every turn, and every request for one, is on a process that is running and
\* that the adapter uses or is stopping.
LEMMA TurnPlaceKept ==
  ASSUME PlaceInv, [Next]_vars, TypeOK', \A o \in Runs : Phases(o)'
  PROVE  \A r \in Runs : TurnPlace(r)'
<1> SUFFICES ASSUME NEW r \in Runs, NEW p \in Processes, TurnOn(r, p)'
             PROVE  /\ p \in up' /\ p \in {current', stopping'}
                    /\ evidence' /\ ~run'[r].quiesced
  <2>1. \A r \in Runs : turn'[r] = "running" => home'[r] \in Processes
    BY TurnHome DEF PlaceInv, TurnPlace
  <2> QED
    BY <2>1 DEF TurnPlace, TurnOn
<1>1. /\ TypeOK /\ Stopping
      /\ \A o \in Runs : Phases(o) /\ Serial(o) /\ Evidence(o) /\ TurnPlace(o)
      /\ p # 0
  BY DEF PlaceInv, Processes
<1>2. /\ p \in up /\ p \in {current, stopping}
      /\ evidence /\ ~run[r].quiesced
  <2>1. CASE TurnOn(r, p)
    BY <1>1, <2>1 DEF TurnPlace
  <2>2. CASE Threaded(r) /\ p = current /\ p \in up
    <3>1. ~Registered(r)
      BY <2>2 DEF Threaded, Registered
    <3>2. evidence /\ ~run[r].quiesced
      BY <1>1, <2>2, <3>1, ActiveFacts DEF Threaded, Evidence
    <3> QED
      BY <2>2, <3>2
  <2> QED
    BY <1>1, <2>1, <2>2, TurnOnOld
<1>3. evidence' /\ run'[r].quiesced = (quiescer'[r] = "returned") /\ quiescer[r] # "returned"
  <2>1. evidence = TRUE => evidence' = TRUE
    BY DEF Next, Loop, Caller, Submits, Submit, Spawned, Initialized, BadEvidence, Disconnected,
           Threaded, Register, SubmitRaises, SubmitKept, Stream, Wait, Cancel, Quiesce, CallKept,
           RequestExpires, Kills, Server, ServerKept, Reader, ReadAnswer, ReadNotification,
           ReadRequest, ReadGarbage, ReadEnd, Reads, adapter, vars
  <2>2. run'[r] \in RunStates
    BY DEF TypeOK
  <2>3. (run'[r].quiesced <=> quiescer'[r] = "returned") /\ (run[r].quiesced <=> quiescer[r] = "returned")
    BY <1>1 DEF Phases
  <2>4. run'[r].quiesced \in BOOLEAN
    BY <2>2 DEF RunStates
  <2> QED
    BY <1>1, <1>2, <2>1, <2>3, <2>4 DEF TypeOK
<1>4. ASSUME UNCHANGED <<current, stopping, quiescer>>, p \in up' PROVE
         /\ p \in up' /\ p \in {current', stopping'}
         /\ evidence' /\ ~run'[r].quiesced
  BY <1>2, <1>3, <1>4
<1>5. ASSUME NEW q \in Runs, Submits(q)
      PROVE  p \in up' /\ p \in {current', stopping'} /\ UNCHANGED quiescer
  <2>1. UNCHANGED quiescer /\ up \subseteq up'
    BY <1>5 DEF Submits, Submit, Spawned, Initialized, BadEvidence, Disconnected, Threaded,
                Register, SubmitRaises, SubmitKept, CallsKept, server
  <2>2. CASE Spawned(q)
    <3>1. p = stopping
      BY <1>1, <1>2, <2>2 DEF Evidence, Spawned, Live
    <3> QED
      BY <1>2, <2>1, <2>2, <3>1 DEF Spawned
  <2>3. CASE BadEvidence(q)
    <3>1. stopping = 0
      BY <1>1, <2>3, StopBeginsFacts
    <3> QED
      BY <1>1, <1>2, <2>1, <2>3, <3>1 DEF BadEvidence, StopBegins
  <2>4. CASE Disconnected(q)
    <3>1. current = 0
      BY <1>1, <2>4 DEF Disconnected, Stops, Stopping
    <3> QED
      BY <1>1, <1>2, <2>4, <3>1 DEF Disconnected, StopEnds
  <2>5. CASE UNCHANGED <<current, stopping>>
    BY <1>2, <2>1, <2>5
  <2> QED
    BY <1>5, <2>2, <2>3, <2>4, <2>5
    DEF Submits, Submit, Initialized, Threaded, Register, SubmitRaises, SubmitKept
<1>6. ASSUME NEW q \in Runs, Quiesce(q)
      PROVE  p \in up' /\ p \in {current', stopping'} /\ quiescer'[r] # "returned"
  <2>1. UNCHANGED up
    BY <1>6 DEF Quiesce, server
  <2>2. CASE QuiesceStarts(q)
    <3>1. stopping = 0
      BY <1>1, <2>2, StopBeginsFacts
    <3>2. quiescer'[r] # "returned"
      BY <1>1, <1>3, <2>2 DEF QuiesceStarts, TypeOK
    <3> QED
      BY <1>1, <1>2, <2>1, <2>2, <3>1, <3>2 DEF QuiesceStarts, StopBegins
  <2>3. CASE QuiesceEnds(q)
    <3>1. current = 0
      BY <1>1, <2>3 DEF QuiesceEnds, Stops, Stopping
    <3> QED
      BY <1>1, <1>2, <2>3, <3>1 DEF QuiesceEnds, StopEnds
  <2> QED
    BY <1>6, <2>2, <2>3 DEF Quiesce
<1>7. ASSUME NEW k \in Processes, Reader(k) PROVE UNCHANGED <<current, stopping, quiescer, up>>
  BY <1>1, <1>7, ReaderFacts DEF ReaderKept, calls
<1>8. ASSUME NEW o, Exits(o) PROVE p \in up'
  <2>1. p # o
    BY <1>1, <1>8 DEF Exits, TurnOn, TypeOK
  <2> QED
    BY <1>2, <1>8, <2>1 DEF Exits
<1>9. ASSUME (\E o \in Processes : Server(o)) \/ Kills
      PROVE  UNCHANGED <<current, stopping, quiescer>> /\ p \in up'
  BY <1>2, <1>8, <1>9 DEF Server, Kills, Answers, StartsTurn, EndsTurn, Notifies, ServerKept,
                          adapter, calls
<1>10. CASE RequestExpires \/ UNCHANGED vars
  BY <1>2, <1>4, <1>10 DEF RequestExpires, adapter, calls, server, vars
<1>11. ASSUME NEW q \in Runs, Stream(q) \/ Wait(q) \/ Cancel(q)
       PROVE  UNCHANGED <<current, stopping, quiescer, up>>
  BY <1>11 DEF Stream, Wait, Cancel, CallKept, adapter, server
<1>12. ASSUME quiescer'[r] # "returned", p \in up', p \in {current', stopping'}
       PROVE  /\ p \in up' /\ p \in {current', stopping'}
              /\ evidence' /\ ~run'[r].quiesced
  BY <1>3, <1>12
<1>13. CASE \E q \in Runs : Caller(q)
  <2>1. PICK q \in Runs : Caller(q)
    BY <1>13
  <2>2. p \in up' /\ p \in {current', stopping'} /\ quiescer'[r] # "returned"
    BY <1>2, <1>3, <1>5, <1>6, <1>11, <2>1 DEF Caller
  <2> QED
    BY <1>12, <2>2
<1> QED
  BY <1>2, <1>4, <1>7, <1>9, <1>10, <1>13 DEF Next, Loop

-----------------------------------------------------------------------------
(* What was announced. *)

\* Nothing is heard of a run before it is submitted.
LEMMA StartedKept ==
  ASSUME TypeOK, \A o \in Runs : Phases(o) /\ Started(o), [Next]_vars
  PROVE  \A r \in Runs : Started(r)'
<1> SUFFICES ASSUME NEW r \in Runs, submitter'[r] = "idle" PROVE Started(r)'
  BY DEF Started
<1> DEFINE Silent == /\ \A p \in Processes : \A request \in asked[p] : request[1] # r
                     /\ \A p \in Processes : \A n \in DOMAIN wire[p] :
                          wire[p][n].kind = "turn" => wire[p][n].run # r
<1>1. ASSUME submitter[r] = "idle"
      PROVE  turn[r] = "none" /\ announced[r] = "none" /\ Silent
  BY <1>1 DEF Started
<1>2. ASSUME turn'[r] = "none", announced'[r] = "none", Silent'
      PROVE  Started(r)'
  BY <1>2 DEF Started
<1>3. CASE submitter[r] = "idle" /\ UNCHANGED <<turn, announced, wire, asked>>
  BY <1>1, <1>2, <1>3
<1>4. ASSUME submitter[r] = "idle", UNCHANGED <<turn, announced, wire>>,
             \A p \in Processes : \A request \in asked'[p] :
               request \in asked[p] \/ request[1] # r
      PROVE  Started(r)'
  BY <1>1, <1>2, <1>4
<1>5. ASSUME submitter[r] = "idle", UNCHANGED <<turn, announced, wire>>,
             NEW q \in Runs, q # r,
             NEW call \in Calls, NEW method \in Methods, Ask(q, call, method)
      PROVE  Started(r)'
  <2>1. <<q, call, method>>[1] # r
    BY <1>5
  <2>2. \A p \in Processes : \A request \in asked'[p] : request \in asked[p] \/ request[1] # r
    BY <1>5, <2>1, AskFacts
  <2> QED
    BY <1>4, <1>5, <2>2
<1>6. {"thread", "turn", "interrupt"} \subseteq Methods /\ {"submit", "wait", "cancel"} \subseteq Calls
  BY DEF Methods, Calls
<1>7. ASSUME NEW q \in Runs, Submits(q) PROVE Started(r)'
  <2>1. UNCHANGED <<turn, announced, wire>>
    BY <1>7 DEF Submits, Submit, Spawned, Initialized, BadEvidence, Disconnected, Threaded,
                Register, SubmitRaises, SubmitKept, server
  <2>2. q # r /\ submitter[r] = "idle"
    BY <1>7 DEF Submits, Submit, Spawned, Initialized, BadEvidence, Disconnected, Threaded,
                Register, SubmitRaises, SubmitAt, TypeOK
  <2>3. CASE Spawned(q)
    <3>1. asked' = [asked EXCEPT ![spawned'] = {<<q, "submit", "initialize">>}]
      BY <2>3 DEF Spawned
    <3>2. <<q, "submit", "initialize">>[1] # r
      BY <2>2
    <3>3. \A p \in Processes : \A request \in asked'[p] : request \in asked[p] \/ request[1] # r
      BY <3>1, <3>2 DEF TypeOK
    <3> QED
      BY <1>4, <2>1, <2>2, <3>3
  <2>4. CASE Ask(q, "submit", "thread") \/ Ask(q, "submit", "turn")
    BY <1>5, <1>6, <2>1, <2>2, <2>4
  <2>5. CASE UNCHANGED asked
    BY <1>3, <2>1, <2>2, <2>5
  <2> QED
    BY <1>7, <2>3, <2>4, <2>5 DEF Submits, Submit, Initialized, BadEvidence, Disconnected, Threaded,
                                  Register, SubmitRaises, server
<1>8. ASSUME NEW q \in Runs, Stream(q) \/ Wait(q) \/ Cancel(q) \/ Quiesce(q) PROVE Started(r)'
  <2>1. Registered(q) /\ UNCHANGED submitter
    BY <1>8, ClientOut
  <2>2. q # r /\ submitter[r] = "idle"
    BY <2>1 DEF Registered
  <2>3. UNCHANGED <<turn, announced, wire>>
    BY <1>8 DEF Stream, Wait, Cancel, Quiesce, CallKept, server
  <2>4. Ask(q, "wait", "interrupt") \/ Ask(q, "cancel", "interrupt") \/ UNCHANGED asked
    BY <1>8 DEF Stream, Wait, WaitStarts, WaitAnswers, WaitDeadline, WaitInterrupted, GraceEnds,
                Cancel, CancelStarts, CancelEnds, Quiesce, server
  <2> QED
    BY <1>3, <1>5, <1>6, <2>2, <2>3, <2>4
<1>9. ASSUME NEW k \in Processes, Reader(k) PROVE Started(r)'
  <2>1. /\ submitter[r] = "idle" /\ UNCHANGED <<turn, asked>>
        /\ Taken \/ UNCHANGED wire
        /\ Deaf \/ \E m \in Notifications : Heard(m)
    BY <1>9, ReaderFacts DEF ReaderKept, calls
  <2>2. turn[r] = "none" /\ announced[r] = "none" /\ Silent
    BY <1>1, <2>1
  <2>3. announced'[r] = "none"
    <3>1. ASSUME NEW m \in Notifications, Heard(m) PROVE announced'[r] = "none"
      <4>1. CASE m.kind = "turn" /\ m.run = r
        <5>1. PICK p \in Processes : wire[p] # <<>> /\ m = Head(wire[p])
          BY <3>1, <4>1 DEF Heard
        <5>2. wire[p] \in Seq(Messages)
          BY DEF TypeOK
        <5>3. 1 \in DOMAIN wire[p] /\ wire[p][1] = m
          BY <5>1, <5>2
        <5> QED
          BY <2>2, <4>1, <5>3
      <4>2. CASE ~(m.kind = "turn" /\ m.run = r)
        BY <2>2, <3>1, <4>2 DEF Heard, TypeOK
      <4> QED
        BY <4>1, <4>2
    <3> QED
      BY <2>1, <2>2, <3>1 DEF Deaf
  <2>4. CASE Taken
    <3>1. \A p \in Processes : \A n \in DOMAIN wire'[p] :
            \E i \in DOMAIN wire[p] : wire'[p][n] = wire[p][i]
      BY <2>4, TakenFacts
    <3>2. Silent'
      BY <2>1, <2>2, <3>1
    <3> QED
      BY <1>2, <2>1, <2>2, <2>3, <3>2
  <2>5. CASE UNCHANGED wire
    BY <1>2, <2>1, <2>2, <2>3, <2>5
  <2> QED
    BY <2>1, <2>4, <2>5
<1>10. ASSUME NEW p \in Processes, NEW m \in Messages, Says(p, m), m.kind = "turn" => m.run # r,
              submitter[r] = "idle", announced' = announced, turn'[r] = "none",
              \A o \in Processes : asked'[o] \subseteq asked[o]
       PROVE  Started(r)'
  <2>1. \A o \in Processes : \A n \in DOMAIN wire'[o] :
          \/ n \in DOMAIN wire[o] /\ wire'[o][n] = wire[o][n]
          \/ wire'[o][n] = m
    BY <1>10, SaysTyped
  <2>2. announced[r] = "none" /\ Silent
    BY <1>1, <1>10
  <2>3. Silent'
    BY <1>10, <2>1, <2>2
  <2> QED
    BY <1>2, <1>10, <2>2, <2>3
<1>11. ASSUME NEW p \in 0..MaxRuns, Exits(p), ServerKept PROVE Started(r)'
  <2>1. submitter[r] = "idle" /\ UNCHANGED <<announced, wire>>
    BY <1>11 DEF Exits, ServerKept, calls
  <2>2. turn[r] = "none" /\ announced[r] = "none" /\ Silent
    BY <1>1, <2>1
  <2>3. turn'[r] = "none"
    BY <1>11, <2>2 DEF Exits, TypeOK
  <2>4. \A o \in Processes : asked'[o] \subseteq asked[o]
    BY <1>11 DEF Exits, TypeOK
  <2>5. Silent'
    BY <2>1, <2>2, <2>4
  <2> QED
    BY <1>2, <2>1, <2>2, <2>3, <2>5
<1>12. ASSUME NEW p \in Processes, Server(p) PROVE Started(r)'
  <2>1. submitter[r] = "idle" /\ UNCHANGED announced
    BY <1>12 DEF Server, ServerKept, calls
  <2>2. turn[r] = "none" /\ Silent
    BY <1>1, <2>1
  <2>3. CASE Answers(p)
    <3>1. PICK request \in asked[p], ok \in BOOLEAN :
            /\ Says(p, [kind |-> "answer", run |-> request[1], call |-> request[2], ok |-> ok])
            /\ asked' = [asked EXCEPT ![p] = @ \ {request}]
      BY <2>3 DEF Answers
    <3>2. PICK m : m = [kind |-> "answer", run |-> request[1], call |-> request[2], ok |-> ok]
      OBVIOUS
    <3>3. m \in Messages /\ m.kind # "turn"
      <4>1. request \in Runs \X Calls \X Methods
        BY DEF TypeOK
      <4> QED
        BY <3>2, <4>1 DEF Messages
    <3>4. \A o \in Processes : asked'[o] \subseteq asked[o]
      BY <3>1 DEF TypeOK
    <3>5. turn' = turn
      BY <2>3 DEF Answers
    <3>6. Says(p, m)
      BY <3>1, <3>2
    <3> QED
      BY <1>10, <2>1, <2>2, <3>3, <3>4, <3>5, <3>6
  <2>4. CASE StartsTurn(p)
    <3>1. PICK o \in Runs :
            /\ <<o, "submit", "turn">> \in asked[p]
            /\ turn' = [turn EXCEPT ![o] = "running"]
            /\ UNCHANGED <<wire, asked>>
      BY <2>4 DEF StartsTurn
    <3>2. o # r
      <4>1. <<o, "submit", "turn">>[1] # r
        BY <2>2, <3>1
      <4> QED
        BY <4>1
    <3>3. turn'[r] = "none"
      BY <2>2, <3>1, <3>2 DEF TypeOK
    <3> QED
      BY <1>2, <1>1, <2>1, <2>2, <3>1, <3>3
  <2>5. CASE EndsTurn(p)
    <3>1. PICK o \in Runs, status \in TurnStatuses :
            /\ turn[o] = "running"
            /\ turn' = [turn EXCEPT ![o] = "ended"]
            /\ Says(p, [kind |-> "turn", run |-> o, status |-> status])
            /\ UNCHANGED asked
      BY <2>5 DEF EndsTurn
    <3>2. PICK m : m = [kind |-> "turn", run |-> o, status |-> status]
      OBVIOUS
    <3>3. m \in Messages /\ m.run # r
      BY <2>2, <3>1, <3>2 DEF Messages, Notifications
    <3>4. Says(p, m) /\ turn'[r] = "none"
      BY <2>2, <3>1, <3>2 DEF TypeOK
    <3> QED
      BY <1>10, <2>1, <3>1, <3>3, <3>4
  <2>6. CASE Notifies(p)
    <3>1. \E m \in Messages : Says(p, m) /\ m.kind # "turn"
      <4>1. [kind |-> "garbage"] \in Messages /\ [kind |-> "garbage"].kind # "turn"
        BY DEF Messages
      <4>2. \A o \in Runs, kind \in {"note", "request"} :
              [kind |-> kind, run |-> o] \in Messages /\ [kind |-> kind, run |-> o].kind # "turn"
        BY DEF Messages, Notifications
      <4> QED
        BY <2>6, <4>1, <4>2 DEF Notifies
    <3>2. UNCHANGED <<asked, turn>>
      BY <2>6 DEF Notifies
    <3> QED
      BY <1>10, <2>1, <2>2, <3>1, <3>2
  <2>7. p \in 0..MaxRuns
    BY DEF Processes
  <2> QED
    BY <1>11, <1>12, <2>3, <2>4, <2>5, <2>6, <2>7 DEF Server
<1>13. CASE Kills
  BY <1>11, <1>13 DEF Kills, TypeOK
<1>14. CASE RequestExpires \/ UNCHANGED vars
  BY <1>3, <1>14 DEF RequestExpires, calls, server, vars
<1> QED
  BY <1>7, <1>8, <1>9, <1>12, <1>13, <1>14 DEF Next, Loop, Caller

\* Only the end of a quiesce closes a run that is out.
LEMMA OpenStays ==
  ASSUME TypeOK, \A o \in Runs : Phases(o), \A o \in Runs : Phases(o)', [Next]_vars,
         NEW r \in Runs, Open(r)
  PROVE  Open(r)' \/ QuiesceEnds(r)
<1>1. Registered(r) /\ quiescer[r] # "returned"
  BY DEF Open, Phases
<1>2. submitter'[r] = "handed"
  BY <1>1, RunsKept DEF RunKept, Registered
<1>3. quiescer'[r] # "returned" \/ QuiesceEnds(r)
  <2>1. CASE UNCHANGED quiescer
    BY <1>1, <2>1
  <2>2. ASSUME NEW q \in Runs, Quiesce(q) PROVE quiescer'[r] # "returned" \/ QuiesceEnds(r)
    BY <1>1, <2>2 DEF Quiesce, QuiesceStarts, QuiesceEnds, TypeOK
  <2>3. ASSUME NEW k \in Processes, Reader(k) PROVE UNCHANGED quiescer
    BY <2>3, ReaderFacts DEF ReaderKept, calls
  <2>4. ASSUME NEW q \in Runs, Submits(q) \/ Stream(q) \/ Wait(q) \/ Cancel(q)
        PROVE  UNCHANGED quiescer
    BY <2>4 DEF Submits, Submit, Spawned, Initialized, BadEvidence, Disconnected, Threaded,
                Register, SubmitRaises, SubmitKept, CallsKept, Stream, Wait, Cancel, CallKept
  <2>5. CASE RequestExpires \/ Kills \/ (\E k \in Processes : Server(k)) \/ UNCHANGED vars
    BY <2>1, <2>5 DEF RequestExpires, Kills, Server, ServerKept, calls, vars
  <2> QED
    BY <2>1, <2>2, <2>3, <2>4, <2>5 DEF Next, Loop, Caller
<1> QED
  BY <1>2, <1>3 DEF Open, Registered, Phases

\* What a step does to the backlog and the announcements: a reader adds to them,
\* a registration takes from the backlog, and a quiesce empties it.
LEMMA BacklogSteps ==
  ASSUME TypeOK, [Next]_vars
  PROVE  \/ UNCHANGED <<backlog, announced>>
         \/ \E q \in Runs : (Register(q) \/ QuiesceEnds(q)) /\ UNCHANGED announced
         \/ UNCHANGED submitter /\ \E m \in Notifications : Heard(m)
<1>1. ASSUME NEW q \in Runs, Caller(q)
      PROVE  UNCHANGED announced /\ (UNCHANGED backlog \/ Register(q) \/ QuiesceEnds(q))
  BY <1>1 DEF Caller, Submits, Submit, Spawned, Initialized, BadEvidence, Disconnected, Threaded,
              SubmitRaises, Register, SubmitKept, Stream, Wait, Cancel, CallKept, Quiesce,
              QuiesceStarts, adapter
<1>2. ASSUME NEW k \in Processes, Reader(k)
      PROVE  UNCHANGED submitter /\ (UNCHANGED <<backlog, announced>> \/ \E m \in Notifications : Heard(m))
  BY <1>2, ReaderFacts DEF ReaderKept, calls, Deaf
<1>3. CASE RequestExpires \/ Kills \/ (\E k \in Processes : Server(k)) \/ UNCHANGED vars
  BY <1>3 DEF RequestExpires, Kills, Server, ServerKept, adapter, vars
<1> QED
  BY <1>1, <1>2, <1>3 DEF Next, Loop

\* The backlog is whole while no run is out.
LEMMA BacklogKept ==
  ASSUME TypeOK, \A o \in Runs : Phases(o) /\ Serial(o), Backlog, [Next]_vars,
         \A o \in Runs : Phases(o)'
  PROVE  Backlog'
<1> SUFFICES ASSUME \A r \in Runs : ~Open(r)'
             PROVE  /\ backlog' \in Seq(Notifications)
                    /\ \A r \in Runs : (\E n \in DOMAIN backlog' : TurnAt(r, n)') => announced'[r] # "none"
  BY DEF Backlog
<1>1. CASE \E q \in Runs : QuiesceEnds(q)
  <2>1. backlog' = <<>>
    BY <1>1 DEF QuiesceEnds
  <2> QED
    BY <2>1
<1>2. CASE ~\E q \in Runs : QuiesceEnds(q)
  <2>1. \A r \in Runs : ~Open(r)
    BY <1>2, OpenStays
  <2>2. /\ backlog \in Seq(Notifications)
        /\ \A r \in Runs : (\E n \in DOMAIN backlog : TurnAt(r, n)) => announced[r] # "none"
    BY <2>1 DEF Backlog
  <2>3. CASE UNCHANGED <<backlog, announced>>
    BY <2>2, <2>3 DEF TurnAt
  <2>4. ASSUME NEW q \in Runs, Register(q) PROVE FALSE
    <3>1. ~run'[q].quiesced
      BY <2>4, RegisterAlone
    <3>2. submitter'[q] = "handed"
      BY <2>4 DEF Register, SubmitAt, TypeOK
    <3> QED
      BY <3>1, <3>2 DEF Open, Registered
  <2>5. ASSUME NEW m \in Notifications, Heard(m)
        PROVE  /\ backlog' \in Seq(Notifications)
               /\ \A r \in Runs : (\E n \in DOMAIN backlog' : TurnAt(r, n)') => announced'[r] # "none"
    <3>1. \A r \in Runs : announced[r] # "none" => announced'[r] # "none"
      BY <2>5 DEF Heard, TypeOK
    <3>2. CASE Registered(m.run)
      BY <2>2, <2>5, <3>1, <3>2 DEF Heard, TurnAt
    <3>3. CASE ~Registered(m.run)
      <4>1. backlog' = Append(backlog, m)
        BY <2>5, <3>3 DEF Heard
      <4>2. /\ backlog' \in Seq(Notifications)
            /\ \A n \in DOMAIN backlog' :
                 (n \in DOMAIN backlog /\ backlog'[n] = backlog[n]) \/ backlog'[n] = m
        BY <2>2, <4>1
      <4>3. m.kind = "turn" => m.status # "none" /\ m.run \in Runs
        BY DEF Notifications, TurnStatuses
      <4>4. run[m.run].result = "none"
        BY <3>3, ActiveFacts DEF Notifications
      <4>5. m.kind = "turn" => announced'[m.run] # "none"
        BY <2>5, <4>3, <4>4 DEF Heard, TypeOK
      <4> QED
        BY <2>2, <3>1, <4>2, <4>5 DEF TurnAt
    <3> QED
      BY <3>2, <3>3
  <2> QED
    BY <1>2, <2>3, <2>4, <2>5, BacklogSteps
<1> QED
  BY <1>1, <1>2

\* What was announced of a run that is being submitted waits in the backlog, the
\* first announcement before all others.
LEMMA AwaitedKept ==
  ASSUME TypeOK, \A o \in Runs : Phases(o) /\ Serial(o) /\ Started(o) /\ Awaited(o), Backlog,
         [Next]_vars
  PROVE  \A r \in Runs : Awaited(r)'
<1> SUFFICES ASSUME NEW r \in Runs, submitter'[r] \notin {"idle", "handed", "raised"},
                    announced'[r] # "none"
             PROVE  \E n \in DOMAIN backlog' :
                      /\ TurnAt(r, n)' /\ backlog'[n].status = announced'[r]
                      /\ \A k \in 1..(n - 1) : ~TurnAt(r, k)'
  BY DEF Awaited
<1>1. submitter[r] \notin {"handed", "raised"}
  BY RunsKept DEF RunKept
<1>2. ASSUME announced'[r] = announced[r]
      PROVE  /\ submitter[r] \notin {"idle", "handed", "raised"}
             /\ \E n \in DOMAIN backlog :
                  /\ TurnAt(r, n) /\ backlog[n].status = announced[r]
                  /\ \A k \in 1..(n - 1) : ~TurnAt(r, k)
  BY <1>1, <1>2 DEF Started, Awaited
<1>3. CASE UNCHANGED <<backlog, announced>>
  BY <1>2, <1>3 DEF TurnAt
<1>4. ASSUME NEW q \in Runs, Register(q) \/ QuiesceEnds(q), UNCHANGED announced PROVE FALSE
  <2>1. submitter[r] \notin {"idle", "handed", "raised"}
    BY <1>2, <1>4
  <2>2. Active(r) /\ ~Registered(r)
    BY <2>1, ActiveFacts DEF Registered
  <2>3. CASE Register(q)
    <3>1. Active(q) /\ submitter'[q] = "handed"
      BY <2>3, ActiveFacts DEF Register, SubmitAt, TypeOK
    <3>2. q = r
      BY <2>2, <3>1, ActiveAlone
    <3> QED
      BY <3>1, <3>2
  <2>4. CASE QuiesceEnds(q)
    <3>1. Active(q) /\ Registered(q)
      BY <2>4, ActiveFacts DEF QuiesceEnds
    <3>2. q = r
      BY <2>2, <3>1, ActiveAlone
    <3> QED
      BY <2>2, <3>1, <3>2
  <2> QED
    BY <1>4, <2>3, <2>4
<1>5. ASSUME NEW m \in Notifications, Heard(m), UNCHANGED submitter
      PROVE  \E n \in DOMAIN backlog' :
               /\ TurnAt(r, n)' /\ backlog'[n].status = announced'[r]
               /\ \A k \in 1..(n - 1) : ~TurnAt(r, k)'
  <2>1. /\ backlog \in Seq(Notifications)
        /\ (\E n \in DOMAIN backlog : TurnAt(r, n)) => announced[r] # "none"
    BY <1>5, WholeBacklog
  <2>2. backlog' = backlog \/ backlog' = Append(backlog, m)
    BY <1>5 DEF Heard
  <2>3. /\ DOMAIN backlog \subseteq DOMAIN backlog'
        /\ \A n \in DOMAIN backlog : backlog'[n] = backlog[n]
        /\ \A n \in DOMAIN backlog : 1..(n - 1) \subseteq DOMAIN backlog
    BY <2>1, <2>2
  <2>4. CASE announced'[r] = announced[r]
    <3>1. PICK n \in DOMAIN backlog :
            /\ TurnAt(r, n) /\ backlog[n].status = announced[r]
            /\ \A k \in 1..(n - 1) : ~TurnAt(r, k)
      BY <1>2, <2>4
    <3>2. n \in DOMAIN backlog' /\ TurnAt(r, n)' /\ backlog'[n].status = announced'[r]
      BY <2>3, <2>4, <3>1 DEF TurnAt
    <3>3. \A k \in 1..(n - 1) : ~TurnAt(r, k)'
      BY <2>3, <3>1 DEF TurnAt
    <3> QED
      BY <3>2, <3>3
  <2>5. CASE announced'[r] # announced[r]
    <3>1. m.kind = "turn" /\ announced[m.run] = "none" /\ m.run \in Runs
          /\ announced' = [announced EXCEPT ![m.run] = m.status]
      BY <1>5, <2>5 DEF Heard, Notifications
    <3>2. m.run = r /\ announced'[r] = m.status
      BY <2>5, <3>1 DEF TypeOK
    <3>3. ~Registered(m.run)
      BY <1>1, <3>2 DEF Registered
    <3>4. backlog' = Append(backlog, m)
      BY <1>5, <3>3 DEF Heard
    <3>. PICK n \in Nat : n = Len(backlog) + 1
      BY <2>1
    <3>5. n \in DOMAIN backlog' /\ backlog'[n] = m /\ 1..(n - 1) = DOMAIN backlog
      BY <2>1, <3>4
    <3>6. \A k \in 1..(n - 1) : ~TurnAt(r, k)'
      BY <2>1, <2>3, <3>1, <3>2, <3>5 DEF TurnAt
    <3>7. TurnAt(r, n)' /\ backlog'[n].status = announced'[r]
      BY <3>1, <3>2, <3>5 DEF TurnAt
    <3> QED
      BY <3>5, <3>6, <3>7
  <2> QED
    BY <2>4, <2>5
<1> QED
  BY <1>3, <1>4, <1>5, BacklogSteps

\* A run that waits beyond its deadline has passed it.
LEMMA DeadlineKept ==
  ASSUME TypeOK, \A o \in Runs : Phases(o) /\ Deadline(o), [Next]_vars
  PROVE  \A r \in Runs : Deadline(r)'
<1> SUFFICES ASSUME NEW r \in Runs, waiter'[r] \in {"interrupting", "grace"}
             PROVE  run'[r].timeoutRequested
  BY DEF Deadline
<1>1. ASSUME waiter[r] \in {"interrupting", "grace"} PROVE run'[r].timeoutRequested
  BY <1>1, RunsKept DEF Deadline, RunKept, RequestsKept
<1>2. CASE UNCHANGED waiter
  BY <1>1, <1>2
<1>3. ASSUME NEW q \in Runs, Wait(q) PROVE run'[r].timeoutRequested
  <2>1. CASE WaitDeadline(q)
    <3>1. run[q] \in RunStates
      BY DEF TypeOK
    <3>2. run'[q].timeoutRequested
      BY <2>1, <3>1 DEF WaitDeadline, TypeOK, RunStates
    <3>3. r # q => waiter'[r] = waiter[r]
      BY <2>1 DEF WaitDeadline, WaitAt, TypeOK
    <3> QED
      BY <1>1, <3>2, <3>3
  <2>2. CASE WaitStarts(q) \/ WaitAnswers(q) \/ WaitInterrupted(q) \/ GraceEnds(q)
    <3>1. waiter[r] \in {"interrupting", "grace"}
      BY <2>2 DEF WaitStarts, WaitAnswers, WaitInterrupted, GraceEnds, WaitAt, TypeOK
    <3> QED
      BY <1>1, <3>1
  <2> QED
    BY <1>3, <2>1, <2>2 DEF Wait
<1>4. ASSUME NEW q \in Runs, Submits(q) \/ Stream(q) \/ Cancel(q) \/ Quiesce(q)
      PROVE  UNCHANGED waiter
  BY <1>4 DEF Submits, Submit, Spawned, Initialized, BadEvidence, Disconnected, Threaded,
              Register, SubmitRaises, SubmitKept, CallsKept, Stream, Cancel, CancelStarts,
              CancelEnds, CancelAt, CallKept, Quiesce
<1>5. ASSUME NEW k \in Processes, Reader(k) PROVE UNCHANGED waiter
  BY <1>5, ReaderFacts DEF ReaderKept, calls
<1>6. CASE RequestExpires \/ Kills \/ (\E k \in Processes : Server(k)) \/ UNCHANGED vars
  BY <1>2, <1>6 DEF RequestExpires, Kills, Server, ServerKept, calls, vars
<1> QED
  BY <1>2, <1>3, <1>4, <1>5, <1>6 DEF Next, Loop, Caller

\* ResultAsAnnounced, for one run.
Reported(r) ==
  /\ announced[r] # "none" => run[r].result # "none"
  /\ Agrees(run[r], announced[r])
  /\ Faithful(run[r], announced[r]) \/ protocolError \/ run[r].quiesced

\* It says the same of every run that is out.
LEMMA ReportedIsAsAnnounced ==
  ResultAsAnnounced <=> \A r \in Runs : Registered(r) => Reported(r)
BY DEF ResultAsAnnounced, Reported, Agrees, Faithful

\* A registration takes the result from the first announcement there was.
LEMMA RegisterAnnounced ==
  ASSUME TypeOK, \A o \in Runs : Phases(o) /\ Serial(o) /\ Awaited(o), Backlog,
         NEW r \in Runs, Register(r)
  PROVE  Reported(r)'
<1>1. PICK state \in RunStates :
        /\ state.result = "none" \/ (state.result = "failed" /\ protocolError)
        /\ Follows(r, state, backlog, Len(backlog), run'[r])
  BY RegisterAlone
<1>2. submitter[r] = "turning" /\ UNCHANGED <<announced, protocolError>>
  BY DEF Register, SubmitKept
<1>3. /\ backlog \in Seq(Notifications)
      /\ (\E n \in DOMAIN backlog : TurnAt(r, n)) => announced[r] # "none"
  BY <1>2, WholeBacklog
<1>4. DOMAIN backlog = 1..Len(backlog) /\ Len(backlog) \in Nat
  BY <1>3
<1>5. ASSUME announced[r] # "none"
      PROVE  \E n \in 1..Len(backlog) : First(r, backlog, n) /\ backlog[n].status = announced[r]
  BY <1>2, <1>4, <1>5 DEF Awaited, First, Announces, TurnAt
<1>6. announced[r] # "none" => run'[r].result # "none"
  BY <1>1, <1>5 DEF Follows, First
<1>7. CASE state.result = "failed"
  BY <1>1, <1>2, <1>6, <1>7 DEF Follows, Grows, Reported, Agrees
<1>8. CASE run'[r].result = "none"
  BY <1>2, <1>6, <1>8 DEF Reported, Agrees, Faithful
<1>9. CASE state.result = "none" /\ run'[r].result # "none"
  <2>1. PICK k \in 1..Len(backlog) : /\ First(r, backlog, k)
                                      /\ Agrees(run'[r], backlog[k].status)
                                      /\ Faithful(run'[r], backlog[k].status)
    BY <1>1, <1>9 DEF Follows
  <2>2. announced[r] # "none"
    BY <1>3, <1>4, <2>1 DEF First, Announces, TurnAt
  <2>3. PICK n \in 1..Len(backlog) : First(r, backlog, n) /\ backlog[n].status = announced[r]
    BY <1>5, <2>2
  <2>4. ~(k < n) /\ ~(n < k)
    <3>1. k < n => k \in 1..(n - 1)
      BY <1>4
    <3>2. n < k => n \in 1..(k - 1)
      BY <1>4
    <3> QED
      BY <2>1, <2>3, <3>1, <3>2 DEF First
  <2>5. k = n
    BY <1>4, <2>4
  <2>6. Agrees(run'[r], announced'[r]) /\ Faithful(run'[r], announced'[r])
    BY <1>2, <2>1, <2>3, <2>5
  <2> QED
    BY <1>6, <2>6, <1>2 DEF Reported, Agrees, Faithful
<1> QED
  BY <1>1, <1>7, <1>8, <1>9

\* A run that has a result keeps it, with what was announced of it first, and a
\* failure of the protocol is not forgotten before the run is quiesced.
LEMMA ReportedStays ==
  ASSUME NEW r, Reported(r), run[r].result # "none", run'[r].result = run[r].result,
         RequestsKept(run[r], run'[r]), announced'[r] = announced[r],
         run[r].quiesced => run'[r].quiesced,
         protocolError => protocolError' \/ run'[r].quiesced
  PROVE  Reported(r)'
<1>1. /\ Agrees(run'[r], announced[r])
      /\ Faithful(run[r], announced[r]) => Faithful(run'[r], announced[r])
  BY AgreesStays DEF Reported
<1>2. Faithful(run[r], announced[r]) \/ protocolError \/ run[r].quiesced
  BY DEF Reported
<1>3. Faithful(run'[r], announced'[r]) \/ protocolError' \/ run'[r].quiesced
  BY <1>1, <1>2
<1>4. /\ announced'[r] # "none" => run'[r].result # "none"
      /\ Agrees(run'[r], announced'[r])
  BY <1>1
<1> QED
  BY <1>3, <1>4 DEF Reported, Agrees, Faithful

\* And nothing is reported of a run without one.
LEMMA NothingReported ==
  ASSUME NEW r, announced'[r] = "none", run'[r].result = "none"
  PROVE  Reported(r)'
BY DEF Reported, Agrees, Faithful

\* A reader reports what it reads, or that the protocol failed.
LEMMA ReaderReports ==
  ASSUME TypeOK, NEW k \in Processes, Reader(k), NEW r \in Runs, Registered(r), Reported(r)
  PROVE  Reported(r)'
<1>1. /\ protocolError => protocolError'
      /\ Grows(run[r], run'[r])
      /\ Deaf \/ \E m \in Notifications : Heard(m)
  BY ReaderFacts
<1>2. CASE run[r].result # "none"
  <2>1. announced'[r] = announced[r]
    <3>1. CASE Deaf
      BY <3>1 DEF Deaf
    <3>2. ASSUME NEW m \in Notifications, Heard(m) PROVE announced'[r] = announced[r]
      <4>1. m.run \in Runs
        BY DEF Notifications
      <4> QED
        BY <1>2, <3>2, <4>1 DEF Heard, TypeOK
    <3> QED
      BY <1>1, <3>1, <3>2
  <2> QED
    BY <1>1, <1>2, <2>1, ReportedStays DEF Grows
<1>3. CASE run[r].result = "none"
  <2>1. announced[r] = "none"
    BY <1>3 DEF Reported
  <2>2. CASE run'[r].result = "failed" /\ protocolError'
    BY <2>2 DEF Reported, Agrees
  <2>3. CASE Deaf /\ run'[r].result = "none"
    BY <2>1, <2>3, NothingReported DEF Deaf
  <2>4. ASSUME NEW m \in Notifications, Heard(m),
               run'[r].result = "none" \/ (/\ r = m.run /\ m.kind = "turn"
                                           /\ Agrees(run'[r], m.status)
                                           /\ Faithful(run'[r], m.status))
        PROVE  Reported(r)'
    <3>1. m.run \in Runs
      BY DEF Notifications
    <3>2. announced'[r] = IF r = m.run /\ m.kind = "turn" THEN m.status ELSE "none"
      BY <1>3, <2>1, <2>4, <3>1 DEF Heard, TypeOK
    <3>3. r = m.run /\ m.kind = "turn" => run'[r].result # "none"
      BY <2>4 DEF Heard
    <3>4. CASE r = m.run /\ m.kind = "turn"
      <4>1. Agrees(run'[r], announced'[r]) /\ Faithful(run'[r], announced'[r])
        BY <2>4, <3>2, <3>3, <3>4
      <4> QED
        BY <3>3, <3>4, <4>1 DEF Reported, Agrees, Faithful
    <3>5. CASE ~(r = m.run /\ m.kind = "turn")
      BY <2>4, <3>2, <3>5, NothingReported
    <3> QED
      BY <3>4, <3>5
  <2> QED
    BY <1>1, <1>3, <2>2, <2>3, <2>4 DEF Deaf, Heard
<1> QED
  BY <1>2, <1>3

\* The other calls report nothing, but for the deadline.
LEMMA ClientReports ==
  ASSUME TypeOK, \A o \in Runs : Deadline(o),
         NEW q \in Runs, Stream(q) \/ Wait(q) \/ Cancel(q) \/ Quiesce(q),
         NEW r \in Runs, Reported(r)
  PROVE  Reported(r)'
<1>1. UNCHANGED <<announced, protocolError>>
  BY DEF Stream, Wait, Cancel, CallKept, Quiesce, adapter
<1>2. /\ run[r].result # "none" => run'[r].result = run[r].result
      /\ run'[r].result # run[r].result => run'[r].result = "timeout" /\ waiter[r] = "grace"
      /\ run[r].quiesced => run'[r].quiesced
      /\ RequestsKept(run[r], run'[r])
  BY ClientRuns
<1>3. CASE run[r].result # "none"
  BY <1>1, <1>2, <1>3, ReportedStays
<1>4. CASE run[r].result = "none"
  <2>1. announced'[r] = "none"
    BY <1>1, <1>4 DEF Reported
  <2>2. CASE run'[r].result = "none"
    BY <2>1, <2>2, NothingReported
  <2>3. CASE run'[r].result = "timeout" /\ waiter[r] = "grace"
    <3>1. run'[r].timeoutRequested
      BY <1>2, <2>3 DEF Deadline, RequestsKept
    <3> QED
      BY <2>1, <2>3, <3>1 DEF Reported, Agrees, Faithful
  <2> QED
    BY <1>2, <1>4, <2>2, <2>3
<1> QED
  BY <1>3, <1>4

\* submit reports what waits in the backlog; connect forgets that the protocol
\* failed, when the runs before are quiesced.
LEMMA SubmitReports ==
  ASSUME TypeOK, \A o \in Runs : Phases(o) /\ Serial(o) /\ Awaited(o), Backlog,
         NEW q \in Runs, Submits(q), NEW r \in Runs, submitter'[r] = "handed",
         Registered(r) => Reported(r)
  PROVE  Reported(r)'
<1>1. CASE Register(q) /\ q = r
  BY <1>1, RegisterAnnounced
<1>2. CASE ~(Register(q) /\ q = r)
  <2>1. announced' = announced
    BY DEF Submits, Submit, Spawned, Initialized, BadEvidence, Disconnected, Threaded,
           Register, SubmitRaises, SubmitKept
  <2>2. Registered(r)
    BY <1>2 DEF Submits, Submit, Spawned, Initialized, BadEvidence, Disconnected, Threaded,
                Register, SubmitRaises, SubmitAt, Registered, TypeOK
  <2>3. run'[r] = run[r]
    BY <1>2 DEF Submits, Submit, Spawned, Initialized, BadEvidence, Disconnected, Threaded,
                Register, SubmitRaises, SubmitKept, TypeOK
  <2>4. protocolError => protocolError' \/ run'[r].quiesced
    <3>1. CASE Submit(q)
      <4>1. submitter[q] = "idle" /\ \A o \in 1..(q - 1) : submitter[o] = "raised" \/ run[o].quiesced
        BY <3>1 DEF Submit
      <4>2. r < q => run[r].quiesced
        BY <2>2, <4>1 DEF Registered, Runs
      <4>3. ~run[q].quiesced
        BY <4>1, ActiveFacts DEF Registered
      <4>4. ~(q < r)
        BY <2>2, <4>1, <4>3 DEF Serial, Over, Registered, Runs
      <4>5. r # q
        BY <2>2, <4>1 DEF Registered
      <4> QED
        BY <2>3, <4>2, <4>4, <4>5 DEF Runs
    <3>2. CASE ~Submit(q)
      BY <3>2 DEF Submits, Spawned, Initialized, BadEvidence, Disconnected, Threaded,
                  Register, SubmitRaises, SubmitKept
    <3> QED
      BY <3>1, <3>2
  <2>5. CASE run[r].result # "none"
    BY <2>1, <2>2, <2>3, <2>4, <2>5, ReportedStays DEF RequestsKept
  <2>6. CASE run[r].result = "none"
    BY <2>1, <2>2, <2>3, <2>6, NothingReported DEF Reported
  <2> QED
    BY <2>5, <2>6
<1> QED
  BY <1>1, <1>2

\* And every other step keeps to it.
LEMMA AnnouncedKept ==
  ASSUME TypeOK, \A o \in Runs : Phases(o) /\ Serial(o) /\ Awaited(o) /\ Deadline(o), Backlog,
         ResultAsAnnounced, [Next]_vars
  PROVE  ResultAsAnnounced'
<1>1. \A r \in Runs : Registered(r) => Reported(r)
  BY ReportedIsAsAnnounced
<1>2. ASSUME NEW r \in Runs, submitter'[r] = "handed" PROVE Reported(r)'
  <2>1. ASSUME NEW q \in Runs, Submits(q) PROVE Reported(r)'
    BY <1>1, <1>2, <2>1, SubmitReports
  <2>2. ASSUME NEW q \in Runs, Stream(q) \/ Wait(q) \/ Cancel(q) \/ Quiesce(q)
        PROVE  Reported(r)'
    <3>1. Registered(r)
      BY <1>2, <2>2 DEF Stream, Wait, Cancel, CallKept, Quiesce, Registered
    <3> QED
      BY <1>1, <2>2, <3>1, ClientReports
  <2>3. ASSUME NEW k \in Processes, Reader(k) PROVE Reported(r)'
    <3>1. Registered(r)
      BY <1>2, <2>3, ReaderFacts DEF ReaderKept, calls, Registered
    <3> QED
      BY <1>1, <2>3, <3>1, ReaderReports
  <2>4. CASE RequestExpires \/ Kills \/ (\E k \in Processes : Server(k)) \/ UNCHANGED vars
    <3>1. UNCHANGED <<announced, run, protocolError, submitter>>
      BY <2>4 DEF RequestExpires, Kills, Server, ServerKept, calls, adapter, vars
    <3>2. Reported(r)
      BY <1>1, <1>2, <3>1 DEF Registered
    <3> QED
      BY <3>1, <3>2 DEF Reported, Agrees, Faithful
  <2> QED
    BY <2>1, <2>2, <2>3, <2>4 DEF Next, Loop, Caller
<1>3. \A r \in Runs : (Registered(r) => Reported(r))'
  BY <1>2 DEF Registered
<1> QED
  BY <1>3 DEF ResultAsAnnounced, Reported, Agrees, Faithful

-----------------------------------------------------------------------------
(* The terminal event. *)

\* TerminalEventOnce, for one run.
EndStreamed(r) ==
  IF run[r].result # "none" /\ stream[r] # "ended" THEN OneEnd(run[r])
  ELSE EndsOf(run[r]) = {} /\ (stream[r] = "ended" => run[r].result # "none")

\* It says the same of every run.
LEMMA EndStreamedIsOnce == TerminalEventOnce <=> \A r \in Runs : EndStreamed(r)
BY DEF TerminalEventOnce, EndStreamed, OneEnd, EndsOf

\* A run that goes on or ends keeps it.
LEMMA GrowingStreamed ==
  ASSUME NEW r \in Runs, EndStreamed(r), Grows(run[r], run'[r]), stream'[r] = stream[r]
  PROVE  EndStreamed(r)'
<1>1. EndsOf(run'[r]) = EndsOf(run[r]) /\ OneEnd(run[r]) => OneEnd(run'[r])
  BY DEF OneEnd
<1>2. /\ EndStreamed(r)' <=>
            IF run'[r].result # "none" /\ stream'[r] # "ended" THEN OneEnd(run'[r])
            ELSE EndsOf(run'[r]) = {} /\ (stream'[r] = "ended" => run'[r].result # "none")
      /\ run[r].result # "none" => run'[r].result = run[r].result
      /\ EndsWith(run[r], run'[r])
  BY DEF EndStreamed, OneEnd, EndsOf, Grows
<1> QED
  BY <1>1, <1>2 DEF EndStreamed, EndsWith

\* So does one whose consumer reads the next event.
LEMMA ReadingStreamed ==
  ASSUME TypeOK, NEW r \in Runs, EndStreamed(r), Stream(r)
  PROVE  EndStreamed(r)'
<1>1. run[r] \in RunStates
  BY DEF TypeOK
<1>2. CASE UNCHANGED run
  <2>1. ~(run[r].queue # <<>> /\ run' = [run EXCEPT ![r].queue = Tail(@)])
    <3>1. SUFFICES ASSUME run[r].queue # <<>>, run' = [run EXCEPT ![r].queue = Tail(@)]
                   PROVE  FALSE
      OBVIOUS
    <3>2. run'[r] = [run[r] EXCEPT !.queue = Tail(@)]
      BY <3>1 DEF TypeOK
    <3>3. run'[r].queue = Tail(run[r].queue) /\ run[r].queue \in Seq({"note", "end"})
      BY <1>1, <3>2 DEF RunStates
    <3>4. Len(Tail(run[r].queue)) # Len(run[r].queue)
      BY <3>1, <3>3
    <3> QED
      BY <1>2, <3>3, <3>4
  <2>2. stream[r] = "idle" /\ stream' = [stream EXCEPT ![r] = "reading"]
    BY <2>1 DEF Stream
  <2>3. stream[r] # "ended" /\ stream'[r] # "ended"
    BY <2>2 DEF TypeOK
  <2> QED
    BY <1>2, <2>3 DEF EndStreamed, OneEnd, EndsOf
<1>3. CASE /\ stream[r] = "reading" /\ run[r].queue # <<>>
           /\ stream' = [stream EXCEPT ![r] = IF Head(run[r].queue) = "end" THEN "ended" ELSE @]
           /\ run' = [run EXCEPT ![r].queue = Tail(@)]
  <2> DEFINE queue == run[r].queue
             rest == run'[r].queue
  <2>1. run'[r] = [run[r] EXCEPT !.queue = Tail(@)]
    BY <1>3 DEF TypeOK
  <2>2. run'[r].result = run[r].result /\ rest = Tail(queue) /\ queue \in Seq({"note", "end"})
    BY <1>1, <2>1 DEF RunStates
  <2>3. stream'[r] = IF queue[1] = "end" THEN "ended" ELSE "reading"
    BY <1>3, <2>2 DEF TypeOK
  <2>4. /\ 1 \in DOMAIN queue
        /\ \A n \in DOMAIN rest : n + 1 \in DOMAIN queue /\ rest[n] = queue[n + 1]
        /\ \A n \in DOMAIN queue \ {1} : n - 1 \in DOMAIN rest /\ rest[n - 1] = queue[n]
        /\ DOMAIN queue \subseteq Nat /\ DOMAIN rest \subseteq Nat \ {0}
    <3>1. /\ queue \in Seq({"note", "end"}) /\ queue # <<>> /\ rest = Tail(queue)
          /\ DOMAIN queue = 1..Len(queue) /\ Len(queue) \in Nat \ {0}
      BY <1>3, <2>2
    <3> HIDE DEF queue, rest
    <3>2. DOMAIN rest = 1..(Len(queue) - 1) /\ \A n \in 1..(Len(queue) - 1) : rest[n] = queue[n + 1]
      BY <3>1
    <3>3. ASSUME NEW n \in DOMAIN queue \ {1}
          PROVE  n - 1 \in DOMAIN rest /\ rest[n - 1] = queue[n]
      BY <3>1, <3>2, <3>3
    <3> QED
      BY <3>1, <3>2, <3>3
  <2>5. /\ EndsOf(run[r]) = {n \in DOMAIN queue : queue[n] = "end"}
        /\ EndsOf(run'[r]) = {n \in DOMAIN rest : rest[n] = "end"}
    BY DEF EndsOf
  <2>6. EndStreamed(r)' <=>
          IF run'[r].result # "none" /\ stream'[r] # "ended" THEN OneEnd(run'[r])
          ELSE EndsOf(run'[r]) = {} /\ (stream'[r] = "ended" => run'[r].result # "none")
    BY DEF EndStreamed, OneEnd, EndsOf
  <2> HIDE DEF queue, rest
  <2>7. CASE run[r].result = "none"
    <3>1. EndsOf(run[r]) = {}
      BY <2>7 DEF EndStreamed
    <3>2. queue[1] # "end" /\ EndsOf(run'[r]) = {}
      BY <2>4, <2>5, <3>1
    <3> QED
      BY <2>2, <2>3, <2>6, <2>7, <3>2
  <2>8. CASE run[r].result # "none"
    <3>1. PICK n \in DOMAIN queue : queue[n] = "end" /\ EndsOf(run[r]) = {n}
      BY <1>3, <2>5, <2>8 DEF EndStreamed, OneEnd
    <3>2. CASE n = 1
      <4>1. EndsOf(run'[r]) = {}
        <5>1. ASSUME NEW m \in DOMAIN rest, rest[m] = "end" PROVE FALSE
          <6>1. m + 1 \in EndsOf(run[r]) /\ m \in Nat \ {0}
            BY <2>4, <2>5, <5>1
          <6> QED
            BY <3>1, <3>2, <6>1
        <5> QED
          BY <2>5, <5>1
      <4> QED
        BY <2>2, <2>3, <2>6, <2>8, <3>1, <3>2, <4>1
    <3>3. CASE n # 1
      <4>1. queue[1] # "end"
        BY <2>4, <2>5, <3>1, <3>3
      <4>2. n - 1 \in EndsOf(run'[r])
        BY <2>4, <2>5, <3>1, <3>3
      <4>3. ASSUME NEW m \in EndsOf(run'[r]) PROVE m = n - 1
        <5>1. m \in Nat /\ m + 1 \in EndsOf(run[r])
          BY <2>4, <2>5
        <5> QED
          BY <3>1, <5>1
      <4>4. OneEnd(run'[r])
        BY <4>2, <4>3 DEF OneEnd
      <4> QED
        BY <2>2, <2>3, <2>6, <2>8, <4>1, <4>4
    <3> QED
      BY <3>2, <3>3
  <2> QED
    BY <2>7, <2>8
<1> QED
  BY <1>2, <1>3 DEF Stream

\* The other calls of a run let it go on or end.
LEMMA ClientGrows ==
  ASSUME TypeOK, NEW q \in Runs, Wait(q) \/ Cancel(q)
  PROVE  Grows(run[q], run'[q])
<1>1. run[q] \in RunStates
  BY DEF TypeOK
<1>2. ASSUME NEW state,
             \/ state = [run[q] EXCEPT !.timeoutRequested = TRUE]
             \/ state = [run[q] EXCEPT !.cancelRequested = TRUE] /\ run[q].result = "none"
      PROVE  Grows(run[q], state)
  <2>1. /\ state \in RunStates /\ state.quiesced = run[q].quiesced
        /\ state.result = run[q].result /\ state.queue = run[q].queue
    BY <1>1, <1>2 DEF RunStates
  <2>2. RequestsKept(run[q], state)
    BY <1>1, <1>2 DEF RunStates, RequestsKept
  <2> QED
    BY <2>1, <2>2 DEF Grows, EndsWith, EndsOf
<1>3. CASE UNCHANGED run
  BY <1>1, <1>3, GrowsNot
<1>4. CASE WaitDeadline(q) \/ (CancelStarts(q) /\ run' # run)
  <2>1. \/ run'[q] = [run[q] EXCEPT !.timeoutRequested = TRUE]
        \/ run'[q] = [run[q] EXCEPT !.cancelRequested = TRUE] /\ run[q].result = "none"
    BY <1>4 DEF WaitDeadline, CancelStarts, TypeOK
  <2> QED
    BY <1>2, <2>1
<1>5. CASE GraceEnds(q)
  <2>1. run'[q] = Finished(run[q], "timeout")
    BY <1>5 DEF GraceEnds, TypeOK
  <2> QED
    BY <1>1, <2>1, FinishedFacts DEF Statuses
<1> QED
  BY <1>3, <1>4, <1>5
  DEF Wait, WaitStarts, WaitAnswers, WaitInterrupted, Cancel, CancelEnds

\* Every step keeps the terminal event of every run.
LEMMA EndStreamedKept ==
  ASSUME TypeOK, \A o \in Runs : Phases(o) /\ Serial(o), Backlog, [Next]_vars,
         NEW r \in Runs, EndStreamed(r)
  PROVE  EndStreamed(r)'
<1>1. run[r] \in RunStates
  BY DEF TypeOK
<1>2. CASE run'[r] = run[r] /\ stream'[r] = stream[r]
  BY <1>1, <1>2, GrowsNot, GrowingStreamed
<1>3. ASSUME NEW q \in Runs, Submits(q) PROVE EndStreamed(r)'
  <2>1. UNCHANGED stream
    BY <1>3 DEF Submits, Submit, Spawned, Initialized, BadEvidence, Disconnected, Threaded,
                Register, SubmitRaises, SubmitKept, CallsKept
  <2>2. CASE Register(q)
    <3>1. run[q] = NewRun /\ submitter[q] = "turning"
      BY <2>2 DEF Phases, Register, Registered
    <3>2. backlog \in Seq(Notifications)
      BY <3>1, WholeBacklog
    <3>3. Grows(run[q], run'[q]) /\ run' = [run EXCEPT ![q] = run'[q]]
      BY <2>2, <3>1, <3>2, RegisterTypes
    <3>4. r # q => run'[r] = run[r]
      BY <3>3 DEF TypeOK
    <3> QED
      BY <1>2, <2>1, <3>3, <3>4, GrowingStreamed
  <2>3. ~Register(q) => UNCHANGED run
    BY <1>3 DEF Submits, Submit, Spawned, Initialized, BadEvidence, Disconnected, Threaded,
                SubmitRaises
  <2> QED
    BY <1>2, <2>1, <2>2, <2>3
<1>4. ASSUME NEW q \in Runs, Stream(q) \/ Wait(q) \/ Cancel(q) \/ Quiesce(q) PROVE EndStreamed(r)'
  <2>1. CASE r # q
    BY <1>2, <1>4, <2>1, ClientOut
  <2>2. CASE r = q /\ Stream(q)
    BY <2>2, ReadingStreamed
  <2>3. CASE r = q /\ (Wait(q) \/ Cancel(q))
    <3>1. UNCHANGED stream
      BY <2>3 DEF Wait, Cancel, CallKept
    <3> QED
      BY <2>3, <3>1, ClientGrows, GrowingStreamed
  <2>4. CASE r = q /\ Quiesce(q)
    <3>1. UNCHANGED stream
      BY <2>4 DEF Quiesce
    <3>2. run'[r].result = run[r].result /\ run'[r].queue = run[r].queue
      BY <1>1, <2>4 DEF Quiesce, QuiesceStarts, QuiesceEnds, TypeOK, RunStates
    <3> QED
      BY <3>1, <3>2 DEF EndStreamed, OneEnd, EndsOf
  <2> QED
    BY <1>4, <2>1, <2>2, <2>3, <2>4
<1>5. ASSUME NEW k \in Processes, Reader(k) PROVE EndStreamed(r)'
  <2>1. Grows(run[r], run'[r]) /\ UNCHANGED stream
    BY <1>5, ReaderFacts DEF ReaderKept, calls
  <2> QED
    BY <2>1, GrowingStreamed
<1>6. CASE RequestExpires \/ Kills \/ (\E k \in Processes : Server(k)) \/ UNCHANGED vars
  BY <1>2, <1>6 DEF RequestExpires, Kills, Server, ServerKept, calls, vars
<1> QED
  BY <1>3, <1>4, <1>5, <1>6 DEF Next, Loop, Caller

-----------------------------------------------------------------------------
(* Requests that are awaited. *)

\* The call of a run awaits its request.
Awaits(r, call) ==
  \/ call = "submit" /\ submitter[r] \in {"initializing", "threading", "turning"}
  \/ call = "wait" /\ waiter[r] = "interrupting"
  \/ call = "cancel" /\ canceller[r] = "interrupting"

\* NobodyForgotten, for every call.
LEMMA AwaitsRequest ==
  NobodyForgotten <=> \A r \in Runs, call \in Calls : Awaits(r, call) => future[r][call] # "none"
BY DEF NobodyForgotten, Awaits, Calls

\* No request is taken from the table.
Tabled(futures) ==
  /\ futures \in [Runs -> [Calls -> FutureStates]]
  /\ \A r \in Runs, call \in Calls : future[r][call] # "none" => futures[r][call] # "none"

\* One request is made, settled or popped.
Becomes(futures, q, c, f) == futures = [future EXCEPT ![q][c] = f]

\* The others stay.
LEMMA OneRequest ==
  ASSUME Futures, NEW q \in Runs, NEW c \in Calls, NEW f \in FutureStates, NEW futures,
         Becomes(futures, q, c, f)
  PROVE  /\ futures \in [Runs -> [Calls -> FutureStates]]
         /\ futures[q][c] = f
         /\ \A r \in Runs, call \in Calls :
              r # q \/ call # c => futures[r][call] = future[r][call]
BY DEF Futures, Becomes

\* A request that is settled is told to the one who awaits it.
LEMMA SettledTabled ==
  ASSUME Futures, NEW q \in Runs, NEW c \in Calls, NEW f \in FutureStates \ {"none"},
         NEW futures, Becomes(futures, q, c, f)
  PROVE  Tabled(futures)
<1>1. /\ futures \in [Runs -> [Calls -> FutureStates]]
      /\ futures[q][c] = f
      /\ \A r \in Runs, call \in Calls :
           r # q \/ call # c => futures[r][call] = future[r][call]
  BY OneRequest
<1>2. ASSUME NEW r \in Runs, NEW call \in Calls, future[r][call] # "none"
      PROVE  futures[r][call] # "none"
  BY <1>1, <1>2
<1> QED
  BY <1>1, <1>2 DEF Tabled

\* So is one that is lost.
LEMMA LostTabled ==
  ASSUME Futures, NEW futures, Tabled(futures)
  PROVE  Tabled(Lost(futures))
<1>1. /\ futures \in [Runs -> [Calls -> FutureStates]]
      /\ \A r \in Runs, call \in Calls : future[r][call] # "none" => futures[r][call] # "none"
  BY DEF Tabled
<1>2. \A r \in Runs, call \in Calls :
        Lost(futures)[r][call] = IF futures[r][call] = "pending" THEN "lost" ELSE futures[r][call]
  BY DEF Lost
<1>3. \A r \in Runs, call \in Calls : Lost(futures)[r][call] \in FutureStates
  BY <1>1, <1>2 DEF FutureStates
<1>4. Lost(futures) \in [Runs -> [Calls -> FutureStates]]
  BY <1>3 DEF Lost
<1>5. ASSUME NEW r \in Runs, NEW call \in Calls, future[r][call] # "none"
      PROVE  Lost(futures)[r][call] # "none"
  BY <1>1, <1>2, <1>5
<1> QED
  BY <1>4, <1>5 DEF Tabled

\* Whoever awaited a request still has it if none is taken from the table.
LEMMA TabledKept ==
  ASSUME Futures, NobodyForgotten, Tabled(future'),
         \A r \in Runs, call \in Calls : Awaits(r, call)' => Awaits(r, call)
  PROVE  Futures' /\ NobodyForgotten'
<1>1. \A r \in Runs, call \in Calls : Awaits(r, call)' => future'[r][call] # "none"
  BY AwaitsRequest DEF Tabled
<1>2. NobodyForgotten'
  BY <1>1 DEF NobodyForgotten, Awaits, Calls
<1> QED
  BY <1>2 DEF Tabled, Futures

\* So does everybody but one who begins to await its own, or no longer does.
LEMMA OneAwaits ==
  ASSUME Futures, NobodyForgotten, NEW q \in Runs, NEW c \in Calls, NEW f \in FutureStates,
         Becomes(future', q, c, f),
         Awaits(q, c)' => f # "none",
         \A r \in Runs, call \in Calls : r # q \/ call # c => (Awaits(r, call)' => Awaits(r, call))
  PROVE  Futures' /\ NobodyForgotten'
<1>1. /\ future' \in [Runs -> [Calls -> FutureStates]]
      /\ future'[q][c] = f
      /\ \A r \in Runs, call \in Calls :
           r # q \/ call # c => future'[r][call] = future[r][call]
  BY OneRequest
<1>2. \A r \in Runs, call \in Calls : Awaits(r, call) => future[r][call] # "none"
  BY AwaitsRequest
<1>3. ASSUME NEW r \in Runs, NEW call \in Calls, Awaits(r, call)' PROVE future'[r][call] # "none"
  <2>1. CASE r = q /\ call = c
    BY <1>1, <1>3, <2>1
  <2>2. CASE r # q \/ call # c
    BY <1>1, <1>2, <1>3, <2>2
  <2> QED
    BY <2>1, <2>2
<1>4. NobodyForgotten'
  BY <1>3 DEF NobodyForgotten, Awaits, Calls
<1> QED
  BY <1>1, <1>4 DEF Futures

\* submit has a request whenever it awaits one.
LEMMA SubmitAwaits ==
  ASSUME TypeOK, Futures, NobodyForgotten, NEW q \in Runs, Submits(q)
  PROVE  Futures' /\ NobodyForgotten'
<1> "submit" \in Calls /\ {"none", "pending"} \subseteq FutureStates
  BY DEF Calls, FutureStates
<1>1. UNCHANGED <<waiter, canceller>> /\ \E place : SubmitAt(q, place)
  BY DEF Submits, Submit, Spawned, Initialized, BadEvidence, Disconnected, Threaded,
         Register, SubmitRaises, SubmitKept, CallsKept
<1>2. \A r \in Runs, call \in Calls : r # q \/ call # "submit" => (Awaits(r, call)' <=> Awaits(r, call))
  BY <1>1 DEF Awaits, SubmitAt, TypeOK
<1>3. ASSUME NEW place, SubmitAt(q, place) PROVE submitter'[q] = place
  BY <1>3 DEF SubmitAt, TypeOK
<1>4. CASE Becomes(future', q, "submit", "pending")
  BY <1>2, <1>4, OneAwaits
<1>5. CASE /\ Becomes(future', q, "submit", "none")
           /\ \E place \in {"disconnecting", "handed", "raised"} : SubmitAt(q, place)
  <2>1. ~Awaits(q, "submit")'
    BY <1>3, <1>5 DEF Awaits
  <2> QED
    BY <1>2, <1>5, <2>1, OneAwaits
<1>6. CASE /\ Tabled(future')
           /\ \E place \in {"spawning", "raised"} : SubmitAt(q, place)
  <2>1. ~Awaits(q, "submit")'
    BY <1>3, <1>6 DEF Awaits
  <2>2. \A r \in Runs, call \in Calls : Awaits(r, call)' => Awaits(r, call)
    BY <1>2, <2>1
  <2> QED
    BY <1>6, <2>2, TabledKept
<1>7. Tabled(future) /\ Tabled(Lost(future))
  BY LostTabled DEF Tabled, Futures
<1>8. CASE Submit(q)
  BY <1>4, <1>6, <1>7, <1>8 DEF Submit, Ask, Becomes
<1>9. CASE Spawned(q) \/ Initialized(q) \/ Threaded(q)
  BY <1>4, <1>9 DEF Spawned, Initialized, Threaded, Ask, Becomes
<1>10. CASE BadEvidence(q) \/ Register(q) \/ SubmitRaises(q)
  BY <1>5, <1>10 DEF BadEvidence, Register, SubmitRaises, Pop, Becomes
<1>11. CASE Disconnected(q)
  BY <1>6, <1>7, <1>11 DEF Disconnected, StopEnds
<1> QED
  BY <1>8, <1>9, <1>10, <1>11 DEF Submits

\* And so have wait and cancel; events and quiesce await none.
LEMMA ClientAwaits ==
  ASSUME TypeOK, Futures, NobodyForgotten, NEW q \in Runs,
         Stream(q) \/ Wait(q) \/ Cancel(q) \/ Quiesce(q)
  PROVE  Futures' /\ NobodyForgotten'
<1> {"wait", "cancel"} \subseteq Calls /\ {"none", "pending"} \subseteq FutureStates
  BY DEF Calls, FutureStates
<1>1. Tabled(future) /\ Tabled(Lost(future))
  BY LostTabled DEF Tabled, Futures
<1>2. ASSUME \A r \in Runs, call \in Calls : Awaits(r, call)' => Awaits(r, call),
             future' \in {future, Lost(future)}
      PROVE  Futures' /\ NobodyForgotten'
  BY <1>1, <1>2, TabledKept
<1>3. CASE Stream(q) \/ Quiesce(q)
  <2>1. UNCHANGED <<submitter, waiter, canceller>> /\ future' \in {future, Lost(future)}
    BY <1>3 DEF Stream, Quiesce, QuiesceStarts, QuiesceEnds, StopEnds
  <2> QED
    BY <1>2, <2>1 DEF Awaits
<1>4. CASE Wait(q)
  <2>1. UNCHANGED <<submitter, canceller>> /\ \E place : WaitAt(q, place)
    BY <1>4 DEF Wait, WaitStarts, WaitAnswers, WaitDeadline, WaitInterrupted, GraceEnds, WaitAt,
                CallKept
  <2>2. \A r \in Runs, call \in Calls : r # q \/ call # "wait" => (Awaits(r, call)' <=> Awaits(r, call))
    BY <2>1 DEF Awaits, WaitAt, TypeOK
  <2>3. ASSUME NEW place, WaitAt(q, place) PROVE waiter'[q] = place
    BY <2>3 DEF WaitAt, TypeOK
  <2>4. CASE Ask(q, "wait", "interrupt")
    <3>1. Becomes(future', q, "wait", "pending")
      BY <2>4 DEF Ask, Becomes
    <3> QED
      BY <2>2, <3>1, OneAwaits
  <2>5. CASE WaitInterrupted(q)
    <3>1. ~Awaits(q, "wait")'
      BY <2>3, <2>5 DEF WaitInterrupted, Awaits
    <3>2. Becomes(future', q, "wait", "none")
      BY <2>5 DEF WaitInterrupted, Pop, Becomes
    <3> QED
      BY <2>2, <3>1, <3>2, OneAwaits
  <2>6. CASE UNCHANGED future /\ \E place \in {"waiting", "returned", "grace"} : WaitAt(q, place)
    <3>1. ~Awaits(q, "wait")'
      BY <2>3, <2>6 DEF Awaits
    <3> QED
      BY <1>2, <2>2, <2>6, <3>1
  <2> QED
    BY <1>4, <2>4, <2>5, <2>6 DEF Wait, WaitStarts, WaitAnswers, WaitDeadline, GraceEnds
<1>5. CASE Cancel(q)
  <2>1. UNCHANGED <<submitter, waiter>> /\ \E place : CancelAt(q, place)
    BY <1>5 DEF Cancel, CancelStarts, CancelEnds, CancelAt, CallKept
  <2>2. \A r \in Runs, call \in Calls : r # q \/ call # "cancel" => (Awaits(r, call)' <=> Awaits(r, call))
    BY <2>1 DEF Awaits, CancelAt, TypeOK
  <2>3. ASSUME NEW place, CancelAt(q, place) PROVE canceller'[q] = place
    BY <2>3 DEF CancelAt, TypeOK
  <2>4. CASE Ask(q, "cancel", "interrupt")
    <3>1. Becomes(future', q, "cancel", "pending")
      BY <2>4 DEF Ask, Becomes
    <3> QED
      BY <2>2, <3>1, OneAwaits
  <2>5. CASE CancelEnds(q)
    <3>1. ~Awaits(q, "cancel")'
      BY <2>3, <2>5 DEF CancelEnds, Awaits
    <3>2. Becomes(future', q, "cancel", "none")
      BY <2>5 DEF CancelEnds, Pop, Becomes
    <3> QED
      BY <2>2, <3>1, <3>2, OneAwaits
  <2>6. CASE UNCHANGED future /\ \E place \in {"returned", "raised"} : CancelAt(q, place)
    <3>1. ~Awaits(q, "cancel")'
      BY <2>3, <2>6 DEF Awaits
    <3> QED
      BY <1>2, <2>2, <2>6, <3>1
  <2> QED
    BY <1>5, <2>4, <2>5, <2>6 DEF Cancel, CancelStarts
<1> QED
  BY <1>3, <1>4, <1>5

\* A reader settles requests, and takes none away.
LEMMA ReaderTabled ==
  ASSUME TypeOK, Futures, NEW k \in Processes, Reader(k)
  PROVE  Tabled(future')
<1>1. Tabled(future)
  BY DEF Tabled, Futures
<1>2. ASSUME NEW futures, Tabled(futures),
             \E runs : FailProtocol(futures, runs) \/ Breaks(k, futures, runs)
                         \/ Continues(k, futures, runs)
      PROVE  Tabled(future')
  <2>1. future' = futures \/ future' = Lost(futures)
    BY <1>2 DEF FailProtocol, Breaks, Continues
  <2> QED
    BY <1>2, <2>1, LostTabled
<1>3. CASE ReadAnswer(k)
  <2>1. wire[reading[k]] # <<>> /\ Read(k).kind = "answer" /\ reading[k] \in Processes
    <3>1. Reads(k, "answer")
      BY <1>3 DEF ReadAnswer
    <3>2. reading[k] # 0 /\ wire[reading[k]] # <<>> /\ Read(k).kind = "answer"
      BY <3>1 DEF Reads, Read
    <3>3. reading[k] \in 0..MaxRuns
      BY DEF TypeOK
    <3> QED
      BY <3>2, <3>3 DEF Processes
  <2>2. Read(k) \in Messages
    BY <2>1 DEF Read, TypeOK
  <2>3. Read(k).run \in Runs /\ Read(k).call \in Calls
    BY <2>1, <2>2 DEF Messages, Notifications
  <2>4. {"answered", "refused"} \subseteq FutureStates \ {"none"}
    BY DEF FutureStates
  <2>5. PICK futures :
          /\ \E runs : Breaks(k, futures, runs) \/ Continues(k, futures, runs)
          /\ \/ futures = future
             \/ \E f \in {"answered", "refused"} :
                  Becomes(futures, Read(k).run, Read(k).call, f)
    BY <1>3 DEF ReadAnswer, Becomes
  <2>6. Tabled(futures)
    BY <1>1, <2>3, <2>4, <2>5, SettledTabled
  <2> QED
    BY <1>2, <2>5, <2>6
<1>4. CASE ReadNotification(k) \/ ReadRequest(k) \/ ReadGarbage(k) \/ ReadEnd(k)
  <2>1. \E runs : FailProtocol(future, runs) \/ Breaks(k, future, runs)
                    \/ Continues(k, future, runs)
    BY <1>4 DEF ReadNotification, ReadRequest, ReadGarbage, ReadEnd
  <2> QED
    BY <1>1, <1>2, <2>1
<1> QED
  BY <1>3, <1>4 DEF Reader

\* Every step leaves the ones who await a request theirs.
LEMMA NobodyForgottenKept ==
  ASSUME TypeOK, Futures, NobodyForgotten, [Next]_vars
  PROVE  Futures' /\ NobodyForgotten'
<1>1. ASSUME UNCHANGED calls, Tabled(future') PROVE Futures' /\ NobodyForgotten'
  <2>1. \A r \in Runs, call \in Calls : Awaits(r, call)' => Awaits(r, call)
    BY <1>1 DEF Awaits, calls
  <2> QED
    BY <1>1, <2>1, TabledKept
<1>2. ASSUME NEW k \in Processes, Reader(k) PROVE Futures' /\ NobodyForgotten'
  <2>1. UNCHANGED calls
    BY <1>2, ReaderFacts DEF ReaderKept
  <2> QED
    BY <1>1, <1>2, <2>1, ReaderTabled
<1>3. CASE RequestExpires
  <2>1. "expired" \in FutureStates \ {"none"}
    BY DEF FutureStates
  <2>2. \E r \in Runs, call \in Calls : Becomes(future', r, call, "expired")
    BY <1>3 DEF RequestExpires, Becomes
  <2>3. Tabled(future')
    BY <2>1, <2>2, SettledTabled
  <2> QED
    BY <1>1, <1>3, <2>3 DEF RequestExpires
<1>4. CASE Kills \/ (\E k \in Processes : Server(k)) \/ UNCHANGED vars
  <2>1. UNCHANGED <<calls, future>>
    BY <1>4 DEF Kills, Server, ServerKept, vars
  <2> QED
    BY <1>1, <2>1 DEF Tabled, Futures
<1>5. ASSUME NEW q \in Runs, Caller(q) PROVE Futures' /\ NobodyForgotten'
  BY <1>5, SubmitAwaits, ClientAwaits DEF Caller
<1> QED
  BY <1>2, <1>3, <1>4, <1>5 DEF Next, Loop

-----------------------------------------------------------------------------
(* The invariant. *)

\* The invariant holds at first.
LEMMA InvInit == Init => Inv
<1> SUFFICES ASSUME Init PROVE Inv
  OBVIOUS
<1>1. TypeOK
  BY TypeInit
<1>2. Stopping
  BY DEF Init, Stopping, Stops
<1>3. \A r \in Runs : Phases(r)
  BY DEF Init, Phases, Registered, NewRun
<1>4. \A r \in Runs : Serial(r) /\ Evidence(r)
  BY DEF Init, Serial, Evidence, Runs
<1>5. \A r \in Runs : TurnPlace(r) /\ Started(r)
  BY DEF Init, TurnPlace, TurnOn, Started
<1>6. backlog = <<>> /\ \A r \in Runs : announced[r] = "none" /\ submitter[r] = "idle"
  BY DEF Init
<1>7. Backlog /\ (\A r \in Runs : Awaited(r)) /\ ResultAsAnnounced
  BY <1>6 DEF Backlog, Awaited, ResultAsAnnounced, Registered
<1>10. \A r \in Runs : Deadline(r)
  BY DEF Init, Deadline
<1>8. TerminalEventOnce
  BY DEF Init, TerminalEventOnce, NewRun
<1>9. Futures /\ NobodyForgotten
  BY DEF Init, Futures, FutureStates, NobodyForgotten
<1> QED
  BY <1>1, <1>2, <1>3, <1>4, <1>5, <1>7, <1>8, <1>9, <1>10 DEF Inv, PlaceInv

\* And every step keeps it.
LEMMA InvKept == Inv /\ [Next]_vars => Inv'
<1> SUFFICES ASSUME Inv, [Next]_vars PROVE Inv'
  OBVIOUS
<1>1. /\ PlaceInv /\ TypeOK /\ Stopping /\ Backlog /\ ResultAsAnnounced
      /\ TerminalEventOnce /\ Futures /\ NobodyForgotten
      /\ \A o \in Runs : /\ Phases(o) /\ Serial(o) /\ Evidence(o)
                         /\ Started(o) /\ Awaited(o) /\ Deadline(o)
  BY DEF Inv, PlaceInv
<1>2. TypeOK'
  BY <1>1, TypesKept
<1>3. \A o \in Runs : Phases(o)'
  BY <1>1, PhasesKept
<1>4. \A o \in Runs : Serial(o)'
  BY <1>1, SerialKept
<1>5. \A o \in Runs : Evidence(o)'
  BY <1>1, EvidenceKept
<1>6. Stopping'
  BY <1>1, StoppingKept
<1>7. \A o \in Runs : TurnPlace(o)'
  BY <1>1, <1>2, <1>3, TurnPlaceKept
<1>8. Backlog'
  BY <1>1, <1>3, BacklogKept
<1>9. \A o \in Runs : Started(o)'
  BY <1>1, StartedKept
<1>10. \A o \in Runs : Awaited(o)'
  BY <1>1, AwaitedKept
<1>11. ResultAsAnnounced'
  BY <1>1, AnnouncedKept
<1>12. TerminalEventOnce'
  <2>1. \A o \in Runs : EndStreamed(o)
    BY <1>1, EndStreamedIsOnce
  <2>2. \A o \in Runs : EndStreamed(o)'
    BY <1>1, <2>1, EndStreamedKept
  <2> QED
    BY <2>2 DEF TerminalEventOnce, EndStreamed, OneEnd, EndsOf
<1>13. Futures' /\ NobodyForgotten'
  BY <1>1, NobodyForgottenKept
<1>14. \A o \in Runs : Deadline(o)'
  BY <1>1, DeadlineKept
<1> QED
  BY <1>2, <1>3, <1>4, <1>5, <1>6, <1>7, <1>8, <1>9, <1>10, <1>11, <1>12, <1>13, <1>14
  DEF Inv, PlaceInv

\* Runs come one after the other, one process at a time is used or stopped, and
\* what was announced of a run waits for its registration in order.
THEOREM AppServerInvariant == Spec => []Inv
BY InvInit, InvKept, PTL DEF Spec

\* A quiesced run's turn does not run, and a process the adapter has lost sight
\* of has no turn.
THEOREM AlwaysQuietWhenQuiesced == Spec => []QuietWhenQuiesced
<1>1. Inv => QuietWhenQuiesced
  <2> SUFFICES ASSUME Inv, NEW r \in Runs, turn[r] = "running"
               PROVE  ~run[r].quiesced /\ home[r] \in {current, stopping}
    BY DEF QuietWhenQuiesced
  <2>1. TurnPlace(r)
    BY DEF Inv, PlaceInv
  <2>2. home[r] \in Processes /\ TurnOn(r, home[r])
    BY <2>1 DEF TurnPlace, TurnOn
  <2> QED
    BY <2>1, <2>2 DEF TurnPlace
<1> QED
  BY <1>1, AppServerInvariant, PTL

\* A turn/completed that was read is never lost, and the result is what the first
\* one said, unless the deadline or the protocol's failure came before it.
THEOREM ResultAlwaysAsAnnounced == Spec => []ResultAsAnnounced
<1>1. Inv => ResultAsAnnounced
  BY DEF Inv
<1> QED
  BY <1>1, AppServerInvariant, PTL

\* A run that has ended has one terminal event in its queue until its consumer
\* has read it, and one that has not has none.
THEOREM AlwaysOneTerminalEvent == Spec => []TerminalEventOnce
<1>1. Inv => TerminalEventOnce
  BY DEF Inv
<1> QED
  BY <1>1, AppServerInvariant, PTL

\* The end of a run is told to wait as the server announced it, a completion never
\* as a failure while the protocol holds, and to the consumer once.
THEOREM EndAlwaysAsAnnounced == Spec => []EndAsAnnounced
<1> QED
  BY ResultAlwaysAsAnnounced, AlwaysOneTerminalEvent, PTL DEF EndAsAnnounced

\* Whoever awaits a request has one that is pending or settled: nothing the
\* processes or the adapter do leaves a call without its timer or its answer.
THEOREM NobodyEverForgotten == Spec => []NobodyForgotten
<1>1. Inv => NobodyForgotten
  BY DEF Inv
<1> QED
  BY <1>1, AppServerInvariant, PTL

-----------------------------------------------------------------------------
(* The run of the protocol. *)

\* wait returns once, and quiesce; neither happens beside the other, and quiesce
\* leaves the result alone.
ReportsInStep(r) ==
  /\ waiter[r] = "returned" => waiter'[r] = "returned"
  /\ waiter[r] # "returned" /\ waiter'[r] = "returned" => quiescer'[r] = quiescer[r]
  /\ quiescer[r] # "returned" /\ quiescer'[r] = "returned" =>
       waiter'[r] = waiter[r] /\ run'[r].result = run[r].result

\* Every step reports as the protocol allows.
LEMMA ReportsKept ==
  ASSUME TypeOK, \A o \in Runs : Phases(o), [Next]_vars
  PROVE  \A r \in Runs : ReportsInStep(r)
<1> SUFFICES ASSUME NEW r \in Runs PROVE ReportsInStep(r)
  OBVIOUS
<1>1. CASE UNCHANGED <<waiter, quiescer>>
  BY <1>1 DEF ReportsInStep
<1>2. ASSUME NEW q \in Runs, Wait(q) PROVE ReportsInStep(r)
  BY <1>2 DEF Wait, WaitStarts, WaitAnswers, WaitDeadline, WaitInterrupted, GraceEnds, WaitAt,
              CallKept, ReportsInStep, TypeOK
<1>3. ASSUME NEW q \in Runs, Quiesce(q) PROVE ReportsInStep(r)
  <2>1. CASE QuiesceStarts(q)
    BY <1>3, <2>1 DEF Quiesce, QuiesceStarts, ReportsInStep, TypeOK
  <2>2. CASE QuiesceEnds(q)
    <3>1. run[q] \in RunStates
      BY DEF TypeOK
    <3>2. run'[r].result = run[r].result
      BY <2>2, <3>1 DEF QuiesceEnds, TypeOK, RunStates
    <3> QED
      BY <1>3, <2>2, <3>2 DEF Quiesce, QuiesceEnds, ReportsInStep, TypeOK
  <2> QED
    BY <1>3, <2>1, <2>2 DEF Quiesce
<1>4. ASSUME NEW q \in Runs, Submits(q) \/ Stream(q) \/ Cancel(q) PROVE UNCHANGED <<waiter, quiescer>>
  BY <1>4 DEF Submits, Submit, Spawned, Initialized, BadEvidence, Disconnected, Threaded,
              Register, SubmitRaises, SubmitKept, CallsKept, Stream, Cancel, CancelStarts,
              CancelEnds, CancelAt, CallKept
<1>5. ASSUME NEW k \in Processes, Reader(k) PROVE UNCHANGED <<waiter, quiescer>>
  BY <1>5, ReaderFacts DEF ReaderKept, calls
<1>6. CASE RequestExpires \/ Kills \/ (\E k \in Processes : Server(k)) \/ UNCHANGED vars
  BY <1>1, <1>6 DEF RequestExpires, Kills, Server, ServerKept, calls, vars
<1> QED
  BY <1>1, <1>2, <1>3, <1>4, <1>5, <1>6 DEF Next, Loop, Caller

\* The protocol's run begins where the adapter does.
LEMMA RunInit == Init => \A r \in Runs : Abstract(r)!Init
BY DEF Init, Abstract!Init, Registered, NewRun

\* And each step of the adapter is a step of it, or none.
LEMMA RunStep ==
  Inv /\ Inv' /\ [Next]_vars => \A r \in Runs : [Abstract(r)!Next]_(Abstract(r)!run)
<1> SUFFICES ASSUME Inv, Inv', [Next]_vars, NEW r \in Runs
             PROVE  [Abstract(r)!Next]_(Abstract(r)!run)
  OBVIOUS
<1>1. /\ TypeOK /\ \A q \in Runs : Phases(q)
      /\ TypeOK' /\ Phases(r)'
  BY DEF Inv, PlaceInv
<1>2. RunKept(r) /\ ReportsInStep(r)
  BY <1>1, RunsKept, ReportsKept
<1>3. /\ run[r].result \in {"none"} \cup Statuses /\ run[r].quiesced \in BOOLEAN
      /\ run'[r].result \in {"none"} \cup Statuses /\ run'[r].quiesced \in BOOLEAN
  <2>1. run[r] \in RunStates /\ run'[r] \in RunStates
    BY <1>1 DEF TypeOK
  <2> QED
    BY <2>1 DEF RunStates
<1>4. "none" \notin Statuses
  BY DEF Statuses
<1>5. CASE ~Registered(r) /\ ~Registered(r)'
  <2>1. run[r] = NewRun /\ run'[r] = NewRun /\ waiter[r] = "idle" /\ waiter'[r] = "idle"
    BY <1>1, <1>5 DEF Phases
  <2> QED
    BY <1>5, <2>1 DEF Abstract!run, Registered
<1>6. CASE ~Registered(r) /\ Registered(r)'
  <2>1. run[r] = NewRun /\ waiter[r] = "idle" /\ quiescer[r] = "idle"
    BY <1>1, <1>6 DEF Phases
  <2>2. run[r].result = "none" /\ ~run[r].quiesced
    BY <2>1 DEF NewRun
  <2>3. Register(r)
    <3>1. submitter[r] # "handed" /\ submitter'[r] = "handed"
      BY <1>6 DEF Registered
    <3>2. ASSUME NEW q \in Runs, Submits(q) PROVE Register(r)
      <4>1. PICK place : SubmitAt(q, place) /\ (place = "handed" => Register(q))
        <5>1. Register(q) => SubmitAt(q, "handed")
          BY DEF Register
        <5>2. ~Register(q) =>
                \E place \in SubmitPlaces : SubmitAt(q, place) /\ place # "handed"
          BY <3>2 DEF Submits, Submit, Spawned, Initialized, BadEvidence, Disconnected, Threaded,
                      SubmitRaises, SubmitPlaces
        <5> QED
          BY <5>1, <5>2
      <4>2. q = r /\ place = "handed"
        BY <1>1, <3>1, <4>1 DEF SubmitAt, TypeOK
      <4> QED
        BY <4>1, <4>2
    <3>3. ASSUME NEW k \in Processes, Reader(k) PROVE FALSE
      BY <1>1, <3>1, <3>3, ReaderFacts DEF ReaderKept, calls
    <3> QED
      BY <3>1, <3>2, <3>3
      DEF Next, Loop, Caller, Stream, Wait, Cancel, CallKept, Quiesce, RequestExpires, Kills,
          Server, ServerKept, calls, vars
  <2>4. UNCHANGED <<waiter, quiescer>>
    BY <2>3 DEF Register, SubmitKept, CallsKept
  <2>5. ~run'[r].quiesced
    BY <1>1, <2>1, <2>4 DEF Phases
  <2>6. run'[r].quiesced = run[r].quiesced
    BY <1>3, <2>2, <2>5
  <2>7. Abstract(r)!HandOut
    BY <1>3, <1>6, <2>1, <2>2, <2>4, <2>6 DEF Abstract!HandOut, Abstract!Record, Abstract!Keep
  <2> QED
    BY <2>7 DEF Abstract!Next
<1>7. CASE Registered(r)
  <2>1. Registered(r)' /\ (run[r].result # "none" => run'[r].result = run[r].result)
    BY <1>2, <1>7 DEF RunKept, Registered
  <2>2. /\ waiter[r] = "returned" \/ quiescer[r] = "returned" => run[r].result # "none"
        /\ waiter'[r] = "returned" \/ quiescer'[r] = "returned" => run'[r].result # "none"
        /\ run[r].quiesced <=> quiescer[r] = "returned"
        /\ run'[r].quiesced <=> quiescer'[r] = "returned"
    BY <1>1 DEF Phases
  <2>3. CASE waiter[r] # "returned" /\ waiter'[r] = "returned"
    <3>1. run'[r].quiesced = run[r].quiesced
      BY <1>2, <1>3, <2>2, <2>3 DEF ReportsInStep
    <3>2. run'[r].result \in Statuses
      BY <1>3, <2>2, <2>3
    <3>3. Abstract(r)!Answer
      BY <1>7, <2>1, <2>3, <3>1, <3>2 DEF Abstract!Answer, Abstract!Keep, Abstract!Record
    <3> QED
      BY <3>3 DEF Abstract!Next
  <2>4. CASE quiescer[r] # "returned" /\ quiescer'[r] = "returned"
    <3>1. run'[r].result = run[r].result /\ waiter'[r] = waiter[r]
      BY <1>2, <2>4 DEF ReportsInStep
    <3>2. run[r].result \in Statuses /\ run'[r].quiesced = TRUE
      BY <1>3, <2>2, <2>4, <3>1
    <3>3. Abstract(r)!Release
      BY <1>7, <2>1, <3>1, <3>2 DEF Abstract!Release
    <3> QED
      BY <3>3 DEF Abstract!Next
  <2>5. CASE /\ waiter[r] = "returned" <=> waiter'[r] = "returned"
             /\ quiescer[r] = "returned" <=> quiescer'[r] = "returned"
    <3>1. run'[r].quiesced = run[r].quiesced
      BY <1>3, <2>2, <2>5
    <3>2. CASE run'[r].result = run[r].result
      BY <1>7, <2>1, <2>5, <3>1, <3>2 DEF Abstract!run
    <3>3. CASE run'[r].result # run[r].result
      <4>1. run[r].result = "none" /\ run'[r].result \in Statuses /\ waiter[r] # "returned"
        BY <1>3, <2>1, <2>2, <3>3
      <4>2. Abstract(r)!Finish
        BY <1>7, <2>1, <2>5, <3>1, <4>1 DEF Abstract!Finish, Abstract!Record
      <4> QED
        BY <4>2 DEF Abstract!Next
    <3> QED
      BY <3>2, <3>3
  <2>6. quiescer[r] = "returned" => quiescer'[r] = "returned"
    BY <1>2, <2>2 DEF RunKept
  <2> QED
    BY <1>2, <2>3, <2>4, <2>5, <2>6 DEF ReportsInStep
<1> QED
  BY <1>5, <1>6, <1>7

\* The adapter implements, for each of its runs, the run of the protocol: the
\* handle is handed out once, the first result stays, every wait answers with
\* it, and quiesce comes after it.
THEOREM EveryTurnImplementsAgentRun == Spec => ImplementsAgentRun
BY RunInit, RunStep, InvKept, AppServerInvariant, PTL DEF Spec, ImplementsAgentRun

=============================================================================
