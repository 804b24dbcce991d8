------------------------- MODULE HermesGatewayProofs -------------------------
(***************************************************************************)
(* Theorems about HermesGateway, for every set of runs, number of sockets  *)
(* and choice of clients: no run is handed out deaf, what was heard is     *)
(* recorded, and each run implements the run of the protocol.              *)
(***************************************************************************)
EXTENDS HermesGateway, WellFoundedInduction, TLAPS

Methods == {"create", "prompt", "subscribe", "interrupt"}
Events == Terminal \cup {"note"}
CallStates == {"none", "connecting", "pending", "expired", "answered", "failed"}
Places == {"idle", "subscribing", "waiting", "reading", "ended", "returned", "raised",
           "interrupting"}

\* An event goes by the native id only for a native run.
Messages ==
  [kind : {"answer"}, run : Runs, caller : Callers, ok : BOOLEAN]
  \cup {m \in [kind : {"event"}, run : Runs, event : Events, via : {"session", "native"}] :
          m.via = "native" => m.run \in clients.native}
  \cup [kind : {"garbage"}]

TypeOK ==
  /\ clients \in Clients
  /\ ws \in 0..MaxSockets /\ connected \in BOOLEAN
  /\ submitter \in [Runs -> {"idle", "creating", "prompting", "refused", "raised", "handed"}]
  /\ stale \in [Runs -> BOOLEAN] /\ wasConnected \in [Runs -> BOOLEAN]
  /\ heard \in [Runs -> BOOLEAN]
  /\ id \in [Runs -> Ids]
  /\ queue \in [Runs -> [Ids -> Seq(Events)]] /\ queued \in [Runs -> SUBSET Ids]
  /\ result \in [Runs -> [Ids -> {"none"} \cup Statuses]]
  /\ lock \in [Runs -> {"none", "wait", "stream"}]
  /\ call \in [Runs -> [Callers -> CallStates]]
  /\ waiter \in [Runs -> Places] /\ stream \in [Runs -> Places]
  /\ canceller \in [Runs -> Places]
  /\ sockets \in Sockets /\ open \subseteq Sockets
  /\ wire \in [Sockets -> Seq(Messages)]
  /\ asked \in [Sockets -> SUBSET (Runs \X Callers \X Methods)]
  /\ home \in [Runs -> 0..MaxSockets]

\* Where the callers of a run may be, before it is handed out and after.
Phases(r) ==
  /\ submitter[r] \notin {"creating", "prompting"} => call[r]["submit"] = "none"
  /\ submitter[r] # "handed" =>
       /\ id[r] = "tui" /\ lock[r] = "none" /\ r \notin quiesced
       /\ waiter[r] = "idle" /\ stream[r] = "idle"
  /\ submitter[r] = "handed" =>
       /\ id[r] = IF r \in clients.native THEN "native" ELSE "tui"
       /\ id[r] \in queued[r]
  /\ lock[r] = "wait" => waiter[r] = "subscribing"
  /\ lock[r] = "stream" => stream[r] = "subscribing"
  /\ waiter[r] = "returned" \/ r \in quiesced => ResultOf(r) # "none"

\* The ids whose queue the acknowledgement adopts.
OwnIds(r) == IF r \in clients.native THEN Ids ELSE {"tui"}

\* What was heard before the acknowledgement waits in a queue it will adopt.
HeardIsQueued(r) ==
  heard[r] /\ submitter[r] \in {"idle", "creating", "prompting"} =>
    \E i \in OwnIds(r) : \E n \in DOMAIN queue[r][i] : queue[r][i][n] \in Terminal

\* The request of r's submit that socket s has yet to answer, and its answers
\* that are yet to be read.
Requested(r, s, method) == <<r, "submit", method>> \in asked[s]
ReplyAt(r, s, n) ==
  /\ n \in DOMAIN wire[s]
  /\ wire[s][n].kind = "answer" /\ wire[s][n].run = r /\ wire[s][n].caller = "submit"

Underway(r, s) ==
  (\E method \in Methods : Requested(r, s, method)) \/ (\E n \in DOMAIN wire[s] : ReplyAt(r, s, n))

\* submit has at most one request or answer on the way.
OneAtATime(r) ==
  /\ \A s, t \in Sockets, method, other \in Methods :
       Requested(r, s, method) /\ Requested(r, t, other) => s = t /\ method = other
  /\ \A s, t \in Sockets, method \in Methods :
       Requested(r, s, method) => \A n \in DOMAIN wire[t] : ~ReplyAt(r, t, n)
  /\ \A s, t \in Sockets : \A n \in DOMAIN wire[s], k \in DOMAIN wire[t] :
       ReplyAt(r, s, n) /\ ReplyAt(r, t, k) => s = t /\ n = k

\* So the answer a prompt gets is its own, read from the socket it left by.
Rpc(r) ==
  /\ OneAtATime(r)
  /\ submitter[r] = "idle" \/ call[r]["submit"] \in {"answered", "connecting"} =>
       \A s \in Sockets : ~Underway(r, s)
  /\ submitter[r] = "prompting" => \A s \in Sockets : Underway(r, s) => home[r] = s
  /\ submitter[r] = "prompting" /\ call[r]["submit"] = "answered" /\ ~stale[r] =>
       home[r] \in receiving \cup deaf

RunInv(r) == Phases(r) /\ HeardIsQueued(r) /\ Rpc(r)
Inv ==
  /\ TypeOK /\ (\A r \in Runs : RunInv(r))
  /\ NoSilentRun /\ HeardIsRecorded /\ HeardIsStreamed /\ NobodyForgotten

-----------------------------------------------------------------------------
(* Operators. *)

\* What is recorded is a status, and what was recorded first stays.
LEMMA RecordedFacts ==
  ASSUME NEW old \in {"none"} \cup Statuses, NEW event
  PROVE  /\ Recorded(old, event) \in {"none"} \cup Statuses
         /\ old # "none" => Recorded(old, event) = old
         /\ event \in Terminal => Recorded(old, event) # "none"
BY DEF Recorded, StatusOf, Statuses

\* Where some number of S is natural, S has a least element.
LEMMA MinIsLeast ==
  ASSUME NEW S \in SUBSET Nat, S # {}
  PROVE  Min(S) \in S
<1>1. \E m \in S : \A n \in S : <<n, m>> \notin OpToRel(<, Nat)
  BY NatLessThanWellFounded, WFMin
<1>2. PICK m \in S : \A n \in S : <<n, m>> \notin OpToRel(<, Nat)
  BY <1>1
<1>3. ASSUME NEW n \in S PROVE m <= n
  <2>1. <<n, m>> \in Nat \X Nat
    OBVIOUS
  <2>2. ~(n < m)
    BY <1>2, <2>1 DEF OpToRel
  <2> QED
    BY <2>2
<1>4. \E k \in S : \A n \in S : k <= n
  BY <1>3
<1> QED
  BY <1>4 DEF Min

\* The same for a queue: a terminal event anywhere in it leaves a result.
LEMMA RecordedAllFacts ==
  ASSUME NEW old \in {"none"} \cup Statuses, NEW events \in Seq(Events)
  PROVE  /\ RecordedAll(old, events) \in {"none"} \cup Statuses
         /\ old # "none" => RecordedAll(old, events) = old
         /\ (\E n \in DOMAIN events : events[n] \in Terminal) =>
              RecordedAll(old, events) # "none"
<1>1. CASE Ends(events) = {}
  BY <1>1 DEF RecordedAll, Ends
<1>2. CASE Ends(events) # {}
  <2> DEFINE first == events[Min(Ends(events))]
  <2>1. Ends(events) \in SUBSET Nat
    BY DEF Ends
  <2>2. Min(Ends(events)) \in Ends(events)
    BY <1>2, <2>1, MinIsLeast
  <2>3. first \in Terminal
    BY <2>2 DEF Ends
  <2>4. RecordedAll(old, events) = Recorded(old, first)
    BY <1>2 DEF RecordedAll
  <2> HIDE DEF first
  <2> QED
    BY <2>3, <2>4, RecordedFacts
<1> QED
  BY <1>1, <1>2

-----------------------------------------------------------------------------
(* What a request does. *)

\* _call leaves by the socket of a connected adapter, or not at all.
LEMMA BeginEffect ==
  ASSUME TypeOK, NEW q \in Runs, NEW c \in Callers, NEW method \in Methods,
         Begin(q, c, method)
  PROVE  /\ \E state \in {"failed", "connecting", "pending"} :
              call' = [call EXCEPT ![q][c] = state]
         /\ \/ UNCHANGED <<asked, home>>
            \/ /\ connected /\ ws \in Sockets
               /\ call' = [call EXCEPT ![q][c] = "pending"]
               /\ SendOn(ws, q, c, method)
BY DEF TypeOK, Begin, SendOn, SendFails

\* What a receive loop takes is a message.
LEMMA HeadTyped ==
  ASSUME TypeOK, NEW s \in Sockets, wire[s] # <<>> PROVE Head(wire[s]) \in Messages
<1>1. wire[s] \in Seq(Messages)
  BY DEF TypeOK
<1> QED
  BY <1>1

\* A change of one cell of a table of tables.
LEMMA CellTyped ==
  ASSUME NEW A, NEW B, NEW C, NEW f \in [A -> [B -> C]], NEW a \in A, NEW b \in B, NEW x \in C
  PROVE  [f EXCEPT ![a][b] = x] \in [A -> [B -> C]]
OBVIOUS

\* What the rest relies on of a request: where it goes, and whose it is.
LEMMA BeginTypes ==
  ASSUME TypeOK, NEW q \in Runs, NEW c \in Callers, NEW method \in Methods,
         Begin(q, c, method)
  PROVE  /\ call' \in [Runs -> [Callers -> CallStates]]
         /\ asked' \in [Sockets -> SUBSET (Runs \X Callers \X Methods)]
         /\ home' \in [Runs -> 0..MaxSockets]
<1>1. call' \in [Runs -> [Callers -> CallStates]]
  <2>1. PICK state \in {"failed", "connecting", "pending"} :
          call' = [call EXCEPT ![q][c] = state]
    BY BeginEffect
  <2>2. state \in CallStates
    BY DEF CallStates
  <2>3. call \in [Runs -> [Callers -> CallStates]]
    BY DEF TypeOK
  <2> QED
    BY <2>1, <2>2, <2>3, CellTyped
<1>2. CASE UNCHANGED <<asked, home>>
  BY <1>1, <1>2 DEF TypeOK
<1>3. CASE ws \in Sockets /\ SendOn(ws, q, c, method)
  <2>1. <<q, c, method>> \in Runs \X Callers \X Methods
    OBVIOUS
  <2>2. asked' \in [Sockets -> SUBSET (Runs \X Callers \X Methods)]
    BY <1>3, <2>1 DEF TypeOK, SendOn
  <2>3. home' \in [Runs -> 0..MaxSockets]
    BY <1>3, HermesAssumption DEF TypeOK, SendOn, Sockets
  <2> QED
    BY <1>1, <2>2, <2>3
<1> QED
  BY <1>1, <1>2, <1>3, BeginEffect

-----------------------------------------------------------------------------
(* Types. *)

\* The gateway begins within its types.
LEMMA TypeInit == Init => TypeOK
<1> SUFFICES ASSUME Init PROVE TypeOK
  OBVIOUS
<1>1. 1 \in Sockets /\ 0 \in 0..MaxSockets /\ 1 \in 0..MaxSockets
  BY HermesAssumption DEF Sockets
<1>2. \A S : <<>> \in Seq(S)
  OBVIOUS
<1> QED
  BY <1>1, <1>2 DEF Init, TypeOK, Ids, CallStates, Places

\* submit keeps the types.
LEMMA SubmitTypes == \A q \in Runs : TypeOK /\ Submits(q) => TypeOK'
<1> SUFFICES ASSUME NEW q \in Runs, TypeOK, Submits(q) PROVE TypeOK'
  OBVIOUS
<1> "submit" \in Callers /\ "tui" \in Ids /\ "native" \in Ids
  BY DEF Callers, Ids
<1> "none" \in CallStates
  BY DEF CallStates
<1> {"create", "prompt"} \subseteq Methods
  BY DEF Methods
<1> Messages' = Messages
  BY DEF Submits, Submit, Created, SubmitRaises, SubmitRefused, Accepted, Prompted, SubmitKept, Messages
<1>1. CASE Submit(q)
  <2>1. Begin(q, "submit", "create")
    BY <1>1 DEF Submit
  <2> QED
    BY <1>1, <2>1, BeginTypes DEF Submit, TypeOK, SubmitAt, SubmitKept, adapter
<1>2. CASE Created(q)
  <2>1. Begin(q, "submit", "prompt")
    BY <1>2 DEF Created
  <2> QED
    BY <1>2, <2>1, BeginTypes DEF Created, TypeOK, SubmitAt, SubmitKept, adapter
<1>3. CASE SubmitRaises(q)
  <2>1. call' \in [Runs -> [Callers -> CallStates]]
    BY <1>3, CellTyped DEF SubmitRaises, Done, TypeOK
  <2>2. queue' \in [Runs -> [Ids -> Seq(Events)]]
    <3>1. <<>> \in Seq(Events)
      OBVIOUS
    <3> QED
      BY <1>3, <3>1, CellTyped DEF SubmitRaises, TypeOK
  <2> QED
    BY <1>3, <2>1, <2>2 DEF SubmitRaises, TypeOK, SubmitAt, SubmitKept, adapter
<1>4. CASE SubmitRefused(q)
  <2>1. call' \in [Runs -> [Callers -> CallStates]]
    BY <1>4, CellTyped DEF SubmitRefused, Done, TypeOK
  <2> QED
    BY <1>4, <2>1 DEF SubmitRefused, TypeOK, SubmitAt, SubmitKept, adapter
<1>5. CASE Accepted(q)
  <2> DEFINE i == IF q \in clients.native THEN "native" ELSE "tui"
  <2>1. call' \in [Runs -> [Callers -> CallStates]]
    BY <1>5, CellTyped DEF Accepted, Prompted, Done, TypeOK
  <2>2. Adopted(q) \in Seq(Events)
    BY DEF Adopted, TypeOK
  <2>3. queue' \in [Runs -> [Ids -> Seq(Events)]]
    BY <1>5, <2>2 DEF Accepted, Prompted, TypeOK
  <2>4. result' \in [Runs -> [Ids -> {"none"} \cup Statuses]]
    <3> DEFINE old == IF LostDuringSubmit(q) THEN Recorded(result[q][i], "lost") ELSE result[q][i]
    <3>1. result[q][i] \in {"none"} \cup Statuses
      BY DEF TypeOK
    <3>2. old \in {"none"} \cup Statuses
      BY <3>1, RecordedFacts
    <3>3. RecordedAll(old, Adopted(q)) \in {"none"} \cup Statuses
      BY <2>2, <3>2, RecordedAllFacts
    <3>4. result' = [result EXCEPT ![q][i] = RecordedAll(old, Adopted(q))]
      BY <1>5 DEF Accepted, Prompted
    <3> HIDE DEF old, i
    <3>5. i \in Ids
      BY DEF i
    <3> QED
      BY <3>3, <3>4, <3>5, CellTyped DEF TypeOK
  <2>5. /\ submitter' \in [Runs -> {"idle", "creating", "prompting", "refused", "raised", "handed"}]
        /\ id' \in [Runs -> Ids]
        /\ queued' \in [Runs -> SUBSET Ids]
    BY <1>5 DEF Accepted, Prompted, SubmitAt, Ids, TypeOK
  <2>6. /\ UNCHANGED <<adapter, lock, waiter, stream, canceller, clients, sockets, open, wire>>
        /\ UNCHANGED <<stale, wasConnected, heard, asked, home>>
    BY <1>5 DEF Accepted, Prompted, SubmitKept
  <2> QED
    BY <2>1, <2>3, <2>4, <2>5, <2>6 DEF TypeOK, adapter
<1> QED
  BY <1>1, <1>2, <1>3, <1>4, <1>5 DEF Submits

\* Where a caller goes is a place.
LEMMA MoveToTyped ==
  ASSUME TypeOK, NEW q \in Runs, NEW who \in {"wait", "stream"}, NEW place \in Places,
         MoveTo(q, who, place)
  PROVE  waiter' \in [Runs -> Places] /\ stream' \in [Runs -> Places]
BY DEF MoveTo, TypeOK

\* wait and events keep the types, and so do cancel and quiesce.
LEMMA ClientTypes == \A q \in Runs : TypeOK /\ Client(q) => TypeOK'
<1> SUFFICES ASSUME NEW q \in Runs, TypeOK, Client(q) PROVE TypeOK'
  OBVIOUS
<1> {"submit", "wait", "stream", "cancel"} \subseteq Callers
  BY DEF Callers
<1> "none" \in CallStates
  BY DEF CallStates
<1> {"interrupt", "subscribe"} \subseteq Methods
  BY DEF Methods
<1> /\ result[q][id[q]] \in {"none"} \cup Statuses
    /\ queue[q][id[q]] \in Seq(Events)
    /\ id[q] \in Ids
  BY DEF TypeOK
<1>1. CASE Submits(q)
  BY <1>1, SubmitTypes
<1>2. CASE Subscribes(q)
  <2> Messages' = Messages
    BY <1>2 DEF Subscribes, SubscribeCalls, Subscribed, SubscribeRaises, ClientKept, Messages
  <2>1. PICK who \in {"wait", "stream"} :
          SubscribeCalls(q, who) \/ Subscribed(q, who) \/ SubscribeRaises(q, who)
    BY <1>2 DEF Subscribes
  <2>2. CASE SubscribeCalls(q, who)
    <3>1. /\ waiter' \in [Runs -> Places] /\ stream' \in [Runs -> Places]
          /\ lock' \in [Runs -> {"none", "wait", "stream"}]
          /\ call' \in [Runs -> [Callers -> CallStates]]
          /\ asked' \in [Sockets -> SUBSET (Runs \X Callers \X Methods)]
          /\ home' \in [Runs -> 0..MaxSockets]
      <4>1. CASE q \in subscribed
        <5>1. MoveTo(q, who, After(who)) /\ After(who) \in Places
          BY <2>2, <4>1 DEF SubscribeCalls, After, Places
        <5> QED
          BY <2>2, <4>1, <5>1, MoveToTyped DEF SubscribeCalls, TypeOK
      <4>2. CASE q \notin subscribed
        <5>1. Begin(q, who, "subscribe")
          BY <2>2, <4>2 DEF SubscribeCalls
        <5> QED
          BY <2>2, <4>2, <5>1, BeginTypes DEF SubscribeCalls, TypeOK
      <4> QED
        BY <4>1, <4>2
    <3> QED
      BY <2>2, <3>1 DEF SubscribeCalls, ClientKept, TypeOK, adapter
  <2>3. CASE Subscribed(q, who)
    <3>1. call' \in [Runs -> [Callers -> CallStates]]
      BY <2>3, CellTyped DEF Subscribed, Done, TypeOK
    <3>2. RecordedAll(result[q][id[q]], queue[q][id[q]]) \in {"none"} \cup Statuses
      BY RecordedAllFacts
    <3>3. result' \in [Runs -> [Ids -> {"none"} \cup Statuses]]
      BY <2>3, <3>2, CellTyped DEF Subscribed, TypeOK
    <3>4. After(who) \in Places /\ MoveTo(q, who, After(who))
      BY <2>3 DEF Subscribed, After, Places
    <3>5. waiter' \in [Runs -> Places] /\ stream' \in [Runs -> Places]
      BY <3>4, MoveToTyped
    <3> QED
      BY <2>3, <3>1, <3>3, <3>5 DEF Subscribed, ClientKept, TypeOK, adapter
  <2>4. CASE SubscribeRaises(q, who)
    <3>1. call' \in [Runs -> [Callers -> CallStates]]
      BY <2>4, CellTyped DEF SubscribeRaises, Done, TypeOK
    <3>2. PICK place \in Places : MoveTo(q, who, place)
      BY <2>4 DEF SubscribeRaises, Places
    <3>3. waiter' \in [Runs -> Places] /\ stream' \in [Runs -> Places]
      BY <3>2, MoveToTyped
    <3> QED
      BY <2>4, <3>1, <3>3 DEF SubscribeRaises, ClientKept, TypeOK, adapter
  <2> QED
    BY <2>1, <2>2, <2>3, <2>4
<1>3. CASE WaitStarts(q) \/ WaitAnswers(q) \/ WaitTimesOut(q)
  <2> Messages' = Messages
    BY <1>3 DEF WaitStarts, WaitAnswers, WaitTimesOut, ClientKept, Messages
  <2>1. PICK place \in Places : MoveTo(q, "wait", place)
    BY <1>3 DEF WaitStarts, WaitAnswers, WaitTimesOut, Unresolved, Places
  <2>2. waiter' \in [Runs -> Places] /\ stream' \in [Runs -> Places]
    BY <2>1, MoveToTyped
  <2> QED
    BY <1>3, <2>2 DEF WaitStarts, WaitAnswers, WaitTimesOut, ClientKept, RpcKept, TypeOK, adapter
<1>4. CASE StreamStarts(q) \/ StreamTimesOut(q)
  <2> Messages' = Messages
    BY <1>4 DEF StreamStarts, StreamTimesOut, ClientKept, Messages
  <2>1. PICK place \in Places : MoveTo(q, "stream", place)
    BY <1>4 DEF StreamStarts, StreamTimesOut, Unresolved, Places
  <2>2. waiter' \in [Runs -> Places] /\ stream' \in [Runs -> Places]
    BY <2>1, MoveToTyped
  <2> QED
    BY <1>4, <2>2 DEF StreamStarts, StreamTimesOut, ClientKept, RpcKept, TypeOK, adapter
<1>5. CASE StreamReads(q)
  <2> Messages' = Messages
    BY <1>5 DEF StreamReads, ClientKept, Messages
  <2> DEFINE event == Head(queue[q][id[q]])
  <2>1. Recorded(result[q][id[q]], event) \in {"none"} \cup Statuses
    BY RecordedFacts
  <2>2. result' \in [Runs -> [Ids -> {"none"} \cup Statuses]]
    BY <1>5, <2>1, CellTyped DEF StreamReads, TypeOK
  <2>3. queue' \in [Runs -> [Ids -> Seq(Events)]]
    <3>1. Tail(queue[q][id[q]]) \in Seq(Events)
      BY <1>5 DEF StreamReads
    <3> QED
      BY <1>5, <3>1, CellTyped DEF StreamReads, TypeOK
  <2>4. PICK place \in Places : MoveTo(q, "stream", place)
    BY <1>5 DEF StreamReads, Places
  <2>5. waiter' \in [Runs -> Places] /\ stream' \in [Runs -> Places]
    BY <2>4, MoveToTyped
  <2> QED
    BY <1>5, <2>2, <2>3, <2>5 DEF StreamReads, ClientKept, RpcKept, TypeOK, adapter
<1>6. CASE CancelStarts(q)
  <2> Messages' = Messages
    BY <1>6 DEF CancelStarts, CancelKept, Messages
  <2>1. Begin(q, "cancel", "interrupt")
    BY <1>6 DEF CancelStarts
  <2> QED
    BY <1>6, <2>1, BeginTypes DEF CancelStarts, CancelKept, TypeOK, adapter, registry, Places
<1>7. CASE CancelEnds(q)
  <2> Messages' = Messages
    BY <1>7 DEF CancelEnds, CancelKept, Messages
  <2>1. call' \in [Runs -> [Callers -> CallStates]]
    BY <1>7, CellTyped DEF CancelEnds, Done, TypeOK
  <2> QED
    BY <1>7, <2>1 DEF CancelEnds, CancelKept, TypeOK, adapter, registry, Places
<1>8. CASE Quiesce(q)
  BY <1>8 DEF Quiesce, TypeOK, Messages, adapter, registry, world
<1> QED
  BY <1>1, <1>2, <1>3, <1>4, <1>5, <1>6, <1>7, <1>8 DEF Client

\* The requests a caller makes on a connection of its own.
LEMMA MethodOfTyped ==
  ASSUME NEW q \in Runs, NEW c \in Callers
  PROVE  MethodOf(q, c) \in Methods
BY DEF MethodOf, Callers, Methods

\* Connections come and go within their types.
LEMMA ConnectionTypes ==
  TypeOK /\ ((\E q \in Runs, c \in Callers : Connects(q, c) \/ CallExpires(q, c)) \/ Reconnects)
    => TypeOK'
<1> SUFFICES ASSUME TypeOK,
                    (\E q \in Runs, c \in Callers : Connects(q, c) \/ CallExpires(q, c))
                      \/ Reconnects
             PROVE  TypeOK'
  OBVIOUS
<1>0. ASSUME Opened, sockets < MaxSockets
      PROVE  /\ sockets' \in Sockets /\ ws' \in 0..MaxSockets /\ connected' \in BOOLEAN
             /\ open' \subseteq Sockets /\ stale' \in [Runs -> BOOLEAN]
  BY <1>0, HermesAssumption DEF Opened, TypeOK, Sockets
<1>1. ASSUME NEW q \in Runs, NEW c \in Callers, Connects(q, c) PROVE TypeOK'
  <2> Messages' = Messages
    BY <1>1 DEF Connects, Messages
  <2>1. CASE /\ sockets < MaxSockets /\ Opened
             /\ SendOn(sockets', q, c, MethodOf(q, c))
    <3>1. <<q, c, MethodOf(q, c)>> \in Runs \X Callers \X Methods
      BY MethodOfTyped
    <3>2. asked' \in [Sockets -> SUBSET (Runs \X Callers \X Methods)]
      BY <1>0, <2>1, <3>1 DEF SendOn, TypeOK
    <3>3. call' \in [Runs -> [Callers -> CallStates]]
      BY <2>1, CellTyped DEF SendOn, TypeOK, CallStates
    <3>4. sockets' \in 0..MaxSockets
      BY <1>0, <2>1, HermesAssumption DEF Sockets
    <3>5. home' \in [Runs -> 0..MaxSockets]
      BY <2>1, <3>4 DEF SendOn, TypeOK
    <3> QED
      BY <1>0, <1>1, <2>1, <3>2, <3>3, <3>5 DEF Connects, TypeOK, callers
  <2>2. CASE /\ call' = [call EXCEPT ![q][c] = "failed"]
             /\ UNCHANGED <<ws, connected, receiving, stale, sockets, open, asked, home>>
    <3>1. call' \in [Runs -> [Callers -> CallStates]]
      BY <2>2, CellTyped DEF TypeOK, CallStates
    <3> QED
      BY <1>1, <2>2, <3>1 DEF Connects, TypeOK, callers
  <2> QED
    BY <1>1, <2>1, <2>2 DEF Connects
<1>2. ASSUME NEW q \in Runs, NEW c \in Callers, CallExpires(q, c) PROVE TypeOK'
  <2>1. call' \in [Runs -> [Callers -> CallStates]]
    BY <1>2, CellTyped DEF CallExpires, TypeOK, CallStates
  <2> QED
    BY <1>2, <2>1 DEF CallExpires, TypeOK, adapter, registry, callers, world, Messages
<1>3. CASE Reconnects
  <2> Messages' = Messages
    BY <1>3 DEF Reconnects, ReconnectStarts, Reconnected, ReconnectFails, ReconnectKept, Messages
  <2>1. CASE ReconnectStarts \/ ReconnectFails
    BY <2>1 DEF ReconnectStarts, ReconnectFails, ReconnectKept, TypeOK, callers
  <2>2. CASE Reconnected
    BY <1>0, <2>2 DEF Reconnected, ReconnectKept, TypeOK, callers
  <2> QED
    BY <1>3, <2>1, <2>2 DEF Reconnects
<1> QED
  BY <1>1, <1>2, <1>3

\* Failing what runs and what is pending.
LEMMA FailTypes ==
  ASSUME TypeOK, FailActive, FailPending
  PROVE  /\ queue' \in [Runs -> [Ids -> Seq(Events)]]
         /\ result' \in [Runs -> [Ids -> {"none"} \cup Statuses]]
         /\ call' \in [Runs -> [Callers -> CallStates]]
<1>1. queue' \in [Runs -> [Ids -> Seq(Events)]]
  <2>1. ASSUME NEW r \in Runs, NEW i \in Ids PROVE Append(queue[r][i], "lost") \in Seq(Events)
    BY DEF TypeOK, Events, Terminal
  <2> QED
    BY <2>1 DEF FailActive, FailQueues, TypeOK
<1>2. result' \in [Runs -> [Ids -> {"none"} \cup Statuses]]
  BY DEF FailActive, TypeOK, Statuses
<1>3. call' \in [Runs -> [Callers -> CallStates]]
  BY DEF FailPending, TypeOK, CallStates
<1> QED
  BY <1>1, <1>2, <1>3

\* The receive loop keeps the types.
LEMMA ReceiveTypes == TypeOK /\ (\E s \in Sockets : ReceiveLoop(s)) => TypeOK'
<1> SUFFICES ASSUME NEW s \in Sockets, TypeOK, ReceiveLoop(s) PROVE TypeOK'
  OBVIOUS
<1> Messages' = Messages
  BY DEF ReceiveLoop, ReceiveAnswer, ReceiveEvent, ReceiveGarbage, NoticeClosed, Receives,
         world, Messages
<1>0. ASSUME Receives(s) PROVE wire' \in [Sockets -> Seq(Messages)]
  <2>1. Tail(wire[s]) \in Seq(Messages)
    BY <1>0 DEF Receives, TypeOK
  <2> QED
    BY <1>0, <2>1 DEF Receives, TypeOK
<1>1. CASE ReceiveAnswer(s)
  <2>1. call' \in [Runs -> [Callers -> CallStates]]
    <3> DEFINE m == Head(wire[s])
    <3>1. m \in Messages /\ m.kind = "answer"
      BY <1>1, HeadTyped DEF ReceiveAnswer, Receives
    <3>2. m.run \in Runs /\ m.caller \in Callers
      BY <3>1 DEF Messages
    <3>3. CASE call' = call
      BY <3>3 DEF TypeOK
    <3>4. CASE call' = [call EXCEPT ![m.run][m.caller] = IF m.ok THEN "answered" ELSE "failed"]
      BY <3>2, <3>4, CellTyped DEF TypeOK, CallStates
    <3> QED
      BY <1>1, <3>3, <3>4 DEF ReceiveAnswer
  <2> QED
    BY <1>0, <1>1, <2>1 DEF ReceiveAnswer, Receives, TypeOK, callers
<1>2. CASE ReceiveEvent(s)
  <2> DEFINE m == Head(wire[s])
             r == m.run
  <2>1. m \in Messages /\ m.kind = "event"
    BY <1>2, HeadTyped DEF ReceiveEvent, Receives
  <2>2. r \in Runs /\ m.event \in Events
    BY <2>1 DEF Messages
  <2>3. FiledUnder(m) \subseteq Ids
    BY <2>2 DEF FiledUnder, TypeOK, Ids
  <2>4. queue' \in [Runs -> [Ids -> Seq(Events)]]
    <3>1. queue' = [queue EXCEPT ![r] = [i \in Ids |->
                      IF i \in FiledUnder(m) THEN Append(queue[r][i], m.event) ELSE queue[r][i]]]
      BY <1>2, <2>2 DEF ReceiveEvent, TypeOK
    <3>2. [i \in Ids |-> IF i \in FiledUnder(m) THEN Append(queue[r][i], m.event)
                         ELSE queue[r][i]] \in [Ids -> Seq(Events)]
      BY <2>2 DEF TypeOK
    <3> QED
      BY <2>2, <3>1, <3>2 DEF TypeOK
  <2>5. result' \in [Runs -> [Ids -> {"none"} \cup Statuses]]
    <3> DEFINE row == [i \in Ids |-> IF i \in FiledUnder(m) /\ HandleKnown(r, i)
                                     THEN Recorded(result[r][i], m.event) ELSE result[r][i]]
    <3>1. result' = [result EXCEPT ![r] = row]
      BY <1>2, <2>2 DEF ReceiveEvent, TypeOK
    <3>2. ASSUME NEW i \in Ids
          PROVE  /\ result[r][i] \in {"none"} \cup Statuses
                 /\ Recorded(result[r][i], m.event) \in {"none"} \cup Statuses
      <4>1. result[r][i] \in {"none"} \cup Statuses
        BY <2>2 DEF TypeOK
      <4> QED
        BY <4>1, RecordedFacts
    <3>3. row \in [Ids -> {"none"} \cup Statuses]
      BY <3>2
    <3>4. r \in Runs /\ result \in [Runs -> [Ids -> {"none"} \cup Statuses]]
      BY <2>2 DEF TypeOK
    <3> HIDE DEF row, r
    <3> QED
      BY <3>1, <3>3, <3>4
  <2>6. queued' \in [Runs -> SUBSET Ids] /\ heard' \in [Runs -> BOOLEAN]
    BY <1>2, <2>2, <2>3 DEF ReceiveEvent, TypeOK
  <2> QED
    BY <1>0, <1>2, <2>4, <2>5, <2>6 DEF ReceiveEvent, Receives, TypeOK, callers
<1>3. CASE ReceiveGarbage(s)
  BY <1>0, <1>3 DEF ReceiveGarbage, Receives, TypeOK, callers
<1>4. CASE NoticeClosed(s)
  <2>1. FailActive /\ FailPending
    BY <1>4 DEF NoticeClosed
  <2> QED
    BY <1>4, <2>1, FailTypes DEF NoticeClosed, TypeOK, callers, world
<1> QED
  BY <1>1, <1>2, <1>3, <1>4 DEF ReceiveLoop

\* A message of the gateway.
LEMMA SaysTyped ==
  ASSUME TypeOK, NEW s \in Sockets, NEW m \in Messages, Says(s, m), UNCHANGED clients
  PROVE  wire' \in [Sockets -> Seq(Messages)] /\ Messages' = Messages
BY DEF Says, TypeOK, Messages

\* The gateway keeps the types.
LEMMA GatewayTypes == \A s \in Sockets : TypeOK /\ Gateway(s) => TypeOK'
<1> SUFFICES ASSUME NEW s \in Sockets, TypeOK, Gateway(s) PROVE TypeOK'
  OBVIOUS
<1>0. /\ UNCHANGED clients /\ Messages' = Messages
      /\ /\ wire' \in [Sockets -> Seq(Messages)]
         /\ asked' \in [Sockets -> SUBSET (Runs \X Callers \X Methods)]
         /\ open' \subseteq Sockets
         => TypeOK'
  BY DEF Gateway, TypeOK, Messages, adapter, registry, callers
<1>1. CASE Answers(s)
  <2>1. PICK request \in asked[s], ok \in BOOLEAN :
          /\ Says(s, [kind |-> "answer", run |-> request[1], caller |-> request[2], ok |-> ok])
          /\ asked' = [asked EXCEPT ![s] = @ \ {request}]
    BY <1>1 DEF Answers
  <2>2. request \in Runs \X Callers \X Methods
    BY DEF TypeOK
  <2>3. [kind |-> "answer", run |-> request[1], caller |-> request[2], ok |-> ok] \in Messages
    BY <2>2 DEF Messages
  <2>4. wire' \in [Sockets -> Seq(Messages)]
    BY <1>0, <2>1, <2>3, SaysTyped
  <2> QED
    BY <1>0, <1>1, <2>1, <2>4 DEF Answers, TypeOK
<1>2. CASE StartsRun(s) \/ Drops(s)
  BY <1>0, <1>2 DEF StartsRun, Drops, TypeOK
<1>3. CASE EndsRun(s)
  <2>1. PICK r \in Runs, event \in {"completed", "error"}, via \in {"session", "native"} :
          /\ via = "native" => r \in clients.native
          /\ Says(s, [kind |-> "event", run |-> r, event |-> event, via |-> via])
    BY <1>3 DEF EndsRun
  <2>2. [kind |-> "event", run |-> r, event |-> event, via |-> via] \in Messages
    BY <2>1 DEF Messages, Events, Terminal
  <2>3. wire' \in [Sockets -> Seq(Messages)]
    BY <1>0, <2>1, <2>2, SaysTyped
  <2> QED
    BY <1>0, <1>3, <2>3 DEF EndsRun, TypeOK
<1>4. CASE Speaks(s)
  <2>1. PICK m \in Messages : Says(s, m)
    <3>1. [kind |-> "garbage"] \in Messages
      BY DEF Messages
    <3>2. \A r \in Runs :
            [kind |-> "event", run |-> r, event |-> "note", via |-> "session"] \in Messages
      BY DEF Messages, Events
    <3> QED
      BY <1>4, <3>1, <3>2 DEF Speaks
  <2>2. wire' \in [Sockets -> Seq(Messages)]
    BY <1>0, <2>1, SaysTyped
  <2> QED
    BY <1>0, <1>4, <2>2 DEF Speaks, TypeOK
<1> QED
  BY <1>1, <1>2, <1>3, <1>4 DEF Gateway

\* Every step keeps the types.
LEMMA TypesKept == TypeOK /\ [Next]_vars => TypeOK'
<1> SUFFICES ASSUME TypeOK, [Next]_vars PROVE TypeOK'
  OBVIOUS
<1>1. CASE Disconnect
  <2>1. FailActive /\ FailPending
    BY <1>1 DEF Disconnect
  <2>2. 0 \in 0..MaxSockets
    BY HermesAssumption
  <2>3. Messages' = Messages
    BY <1>1 DEF Disconnect, Messages
  <2> QED
    BY <1>1, <2>1, <2>2, <2>3, FailTypes DEF Disconnect, TypeOK, callers
<1>2. CASE UNCHANGED vars
  BY <1>2 DEF vars, adapter, registry, callers, world, TypeOK, Messages
<1> QED
  BY <1>1, <1>2, ClientTypes, ConnectionTypes, ReceiveTypes, GatewayTypes DEF Next, Loop

-----------------------------------------------------------------------------
(* Callers. *)

\* The result of a run that is out, and the name it goes by, stay.
HandedKept(r) ==
  submitter[r] = "handed" =>
    /\ submitter'[r] = "handed" /\ id'[r] = id[r]
    /\ id[r] \in queued[r] => id[r] \in queued'[r]
    /\ result[r][id[r]] # "none" => result'[r][id[r]] = result[r][id[r]]

\* No step takes the handle of a run back, renames it or changes its result.
LEMMA HandedStays == \A r \in Runs : TypeOK /\ [Next]_vars => HandedKept(r)
<1> SUFFICES ASSUME NEW r \in Runs, TypeOK, [Next]_vars, submitter[r] = "handed"
             PROVE  /\ submitter'[r] = "handed" /\ id'[r] = id[r]
                    /\ id[r] \in queued[r] => id[r] \in queued'[r]
                    /\ result[r][id[r]] # "none" => result'[r][id[r]] = result[r][id[r]]
  BY DEF HandedKept
<1>1. /\ id[r] \in Ids /\ result[r][id[r]] \in {"none"} \cup Statuses
      /\ queue[r][id[r]] \in Seq(Events)
  BY DEF TypeOK
<1>2. ASSUME NEW q \in Runs, Submits(q)
      PROVE  /\ submitter'[r] = "handed" /\ id'[r] = id[r] /\ queued'[r] = queued[r]
             /\ result'[r] = result[r]
  BY <1>2 DEF Submits, Submit, Created, SubmitRaises, SubmitRefused, Accepted, Prompted,
              SubmitAt, TypeOK
<1>3. ASSUME NEW q \in Runs, NEW who \in {"wait", "stream"}, Subscribed(q, who)
      PROVE  /\ UNCHANGED <<submitter, id, queued>>
             /\ result[r][id[r]] # "none" => result'[r][id[r]] = result[r][id[r]]
  <2>1. UNCHANGED <<submitter, id, queued>>
    BY <1>3 DEF Subscribed, ClientKept
  <2>2. result' = [result EXCEPT ![q][id[q]] = RecordedAll(@, queue[q][id[q]])]
    BY <1>3 DEF Subscribed
  <2>3. CASE q # r
    BY <2>1, <2>2, <2>3 DEF TypeOK
  <2>4. CASE q = r
    <3>1. result'[r][id[r]] = RecordedAll(result[r][id[r]], queue[r][id[r]])
      BY <1>1, <2>2, <2>4 DEF TypeOK
    <3>2. result[r][id[r]] # "none" =>
            RecordedAll(result[r][id[r]], queue[r][id[r]]) = result[r][id[r]]
      BY <1>1, RecordedAllFacts
    <3> QED
      BY <2>1, <3>1, <3>2
  <2> QED
    BY <2>3, <2>4
<1>4. ASSUME NEW q \in Runs, StreamReads(q)
      PROVE  /\ UNCHANGED <<submitter, id, queued>>
             /\ result[r][id[r]] # "none" => result'[r][id[r]] = result[r][id[r]]
  BY <1>1, <1>4 DEF StreamReads, ClientKept, TypeOK, Recorded
<1>5. ASSUME NEW s \in Sockets, ReceiveEvent(s)
      PROVE  /\ UNCHANGED <<submitter, id>> /\ queued[r] \subseteq queued'[r]
             /\ result[r][id[r]] # "none" => result'[r][id[r]] = result[r][id[r]]
  <2> DEFINE m == Head(wire[s])
  <2>1. UNCHANGED <<submitter, id>>
    BY <1>5 DEF ReceiveEvent, Receives, callers
  <2>2. /\ queued' = [queued EXCEPT ![m.run] = @ \cup FiledUnder(m)]
        /\ result' = [result EXCEPT ![m.run] = [i \in Ids |->
                        IF i \in FiledUnder(m) /\ HandleKnown(m.run, i)
                          THEN Recorded(@[i], m.event) ELSE @[i]]]
    BY <1>5 DEF ReceiveEvent
  <2>3. queued[r] \subseteq queued'[r]
    BY <2>2 DEF TypeOK
  <2>4. result[r][id[r]] # "none" => result'[r][id[r]] = result[r][id[r]]
    BY <1>1, <2>2 DEF TypeOK, Recorded
  <2> QED
    BY <2>1, <2>3, <2>4
<1>6. ASSUME FailActive
      PROVE  result[r][id[r]] # "none" => result'[r][id[r]] = result[r][id[r]]
  BY <1>1, <1>6 DEF FailActive, Active
<1>7. CASE UNCHANGED <<submitter, id, queued, result>>
  BY <1>7
<1>8. ASSUME NEW q \in Runs, Client(q)
      PROVE  \/ Submits(q) \/ (\E who \in {"wait", "stream"} : Subscribed(q, who))
             \/ StreamReads(q) \/ UNCHANGED <<submitter, id, queued, result>>
  BY <1>8 DEF Client, Subscribes, SubscribeCalls, SubscribeRaises, ClientKept, WaitStarts,
              WaitAnswers, WaitTimesOut, StreamStarts, StreamTimesOut, CancelStarts, CancelEnds,
              CancelKept, Quiesce, registry
<1>9. ASSUME (\E q \in Runs, c \in Callers : Connects(q, c) \/ CallExpires(q, c))
               \/ Reconnects \/ \E s \in Sockets : Gateway(s)
      PROVE  UNCHANGED <<submitter, id, queued, result>>
  BY <1>9 DEF Connects, CallExpires, Reconnects, ReconnectStarts, Reconnected, ReconnectFails,
              ReconnectKept, Gateway, registry, callers
<1>10. ASSUME NEW s \in Sockets, ReceiveLoop(s)
       PROVE  \/ ReceiveEvent(s) \/ UNCHANGED <<submitter, id, queued, result>>
              \/ FailActive /\ UNCHANGED <<submitter, id, queued>>
  BY <1>10 DEF ReceiveLoop, ReceiveAnswer, ReceiveGarbage, NoticeClosed, Receives, callers
<1>11. CASE Disconnect
  BY <1>6, <1>11 DEF Disconnect, callers
<1>12. CASE UNCHANGED vars
  BY <1>7, <1>12 DEF vars, registry, callers
<1>13. ASSUME NEW q \in Runs, Client(q)
       PROVE  /\ submitter'[r] = "handed" /\ id'[r] = id[r]
              /\ id[r] \in queued[r] => id[r] \in queued'[r]
              /\ result[r][id[r]] # "none" => result'[r][id[r]] = result[r][id[r]]
  BY <1>2, <1>3, <1>4, <1>7, <1>8, <1>13
<1>14. ASSUME NEW s \in Sockets, ReceiveLoop(s)
       PROVE  /\ submitter'[r] = "handed" /\ id'[r] = id[r]
              /\ id[r] \in queued[r] => id[r] \in queued'[r]
              /\ result[r][id[r]] # "none" => result'[r][id[r]] = result[r][id[r]]
  BY <1>5, <1>6, <1>10, <1>14
<1> QED
  BY <1>9, <1>7, <1>11, <1>12, <1>13, <1>14 DEF Next, Loop

\* A request of another run, or of another caller, leaves the RPC of r's submit.
LEMMA OtherBegins ==
  ASSUME TypeOK, NEW r \in Runs, NEW q \in Runs, NEW c \in Callers, NEW method \in Methods,
         Begin(q, c, method), q # r \/ c # "submit"
  PROVE  call'[r]["submit"] = call[r]["submit"]
<1>1. PICK state \in {"failed", "connecting", "pending"} : call' = [call EXCEPT ![q][c] = state]
  BY BeginEffect
<1> QED
  BY <1>1 DEF TypeOK, Callers

\* submit keeps the phases.
LEMMA SubmitPhases ==
  \A r, q \in Runs : TypeOK /\ Phases(r) /\ HandedKept(r) /\ Submits(q) => Phases(r)'
<1> SUFFICES ASSUME NEW r \in Runs, NEW q \in Runs, TypeOK, Phases(r), HandedKept(r), Submits(q)
             PROVE  Phases(r)'
  OBVIOUS
<1> "submit" \in Callers /\ {"create", "prompt"} \subseteq Methods
  BY DEF Callers, Methods
<1>0. UNCHANGED <<clients, lock, waiter, stream, quiesced>>
  BY DEF Submits, Submit, Created, SubmitRaises, SubmitRefused, Accepted, Prompted, SubmitKept
<1>1. CASE Submit(q)
  <2>1. q # r => call'[r]["submit"] = call[r]["submit"]
    BY <1>1, OtherBegins DEF Submit
  <2> QED
    BY <1>0, <1>1, <2>1 DEF Submit, SubmitAt, Phases, ResultOf, TypeOK
<1>2. CASE Created(q)
  <2>1. q # r => call'[r]["submit"] = call[r]["submit"]
    BY <1>2, OtherBegins DEF Created
  <2> QED
    BY <1>0, <1>2, <2>1 DEF Created, SubmitAt, Phases, ResultOf, TypeOK
<1>3. CASE SubmitRaises(q)
  BY <1>0, <1>3 DEF SubmitRaises, SubmitAt, Done, Phases, ResultOf, TypeOK
<1>4. CASE SubmitRefused(q)
  BY <1>0, <1>4 DEF SubmitRefused, SubmitAt, Done, Phases, ResultOf, TypeOK
<1>5. CASE Accepted(q)
  <2>1. CASE q = r
    <3>1. waiter[r] = "idle" /\ r \notin quiesced /\ lock[r] = "none"
      BY <1>5, <2>1 DEF Phases, Accepted, Prompted
    <3>2. /\ id'[r] = IF r \in clients.native THEN "native" ELSE "tui"
          /\ id'[r] \in queued'[r]
          /\ submitter'[r] = "handed" /\ call'[r]["submit"] = "none"
      BY <1>5, <2>1 DEF Accepted, Prompted, SubmitAt, Done, TypeOK
    <3> QED
      BY <1>0, <3>1, <3>2 DEF Phases
  <2>2. CASE q # r
    <3>1. /\ submitter'[r] = submitter[r] /\ id'[r] = id[r] /\ queued'[r] = queued[r]
          /\ result'[r] = result[r] /\ call'[r] = call[r]
      BY <1>5, <2>2 DEF Accepted, Prompted, SubmitAt, Done, TypeOK
    <3> QED
      BY <1>0, <3>1 DEF Phases, ResultOf
  <2> QED
    BY <2>1, <2>2
<1> QED
  BY <1>1, <1>2, <1>3, <1>4, <1>5 DEF Submits

\* Where the clients of a run go, and that they hold no lock they do not use.
LEMMA ClientPhases ==
  \A r, q \in Runs : TypeOK /\ Phases(r) /\ HandedKept(r) /\ Phases(q) /\ Client(q) => Phases(r)'
<1> SUFFICES ASSUME NEW r \in Runs, NEW q \in Runs, TypeOK, Phases(r), Phases(q),
                    HandedKept(r), Client(q)
             PROVE  Phases(r)'
  OBVIOUS
<1> /\ {"submit", "wait", "stream", "cancel"} \subseteq Callers
    /\ {"interrupt", "subscribe"} \subseteq Methods
  BY DEF Callers, Methods
<1>1. CASE Submits(q)
  BY <1>1, SubmitPhases
<1>2. ASSUME ClientKept, UNCHANGED call \/ call'[r]["submit"] = call[r]["submit"],
             lock'[r] = "wait" => waiter'[r] = "subscribing",
             lock'[r] = "stream" => stream'[r] = "subscribing",
             submitter[r] # "handed" => lock'[r] = "none" /\ waiter'[r] = "idle" /\ stream'[r] = "idle",
             waiter'[r] = "returned" => waiter[r] = "returned" \/ result[r][id[r]] # "none"
      PROVE  Phases(r)'
  <2>1. /\ UNCHANGED <<clients, submitter, id, queued, quiesced>>
        /\ call'[r]["submit"] = call[r]["submit"]
    BY <1>2 DEF ClientKept
  <2>2. waiter[r] = "returned" => submitter[r] = "handed"
    BY DEF Phases
  <2>3. r \in quiesced => submitter[r] = "handed"
    BY DEF Phases
  <2>4. waiter'[r] = "returned" => submitter[r] = "handed"
    BY <1>2
  <2>5. waiter'[r] = "returned" \/ r \in quiesced' => result'[r][id'[r]] # "none"
    BY <1>2, <2>1, <2>2, <2>3, <2>4 DEF Phases, HandedKept, ResultOf
  <2> QED
    BY <1>2, <2>1, <2>5 DEF Phases, ResultOf
<1>3. CASE Subscribes(q)
  <2>1. PICK who \in {"wait", "stream"} :
          SubscribeCalls(q, who) \/ Subscribed(q, who) \/ SubscribeRaises(q, who)
    BY <1>3 DEF Subscribes
  <2>2. ClientKept
    BY <2>1 DEF SubscribeCalls, Subscribed, SubscribeRaises
  <2>3. CASE SubscribeCalls(q, who)
    <3>1. call'[r]["submit"] = call[r]["submit"]
      <4>1. CASE q \in subscribed
        BY <2>3, <4>1 DEF SubscribeCalls
      <4>2. CASE q \notin subscribed
        BY <2>3, <4>2, OtherBegins DEF SubscribeCalls
      <4> QED
        BY <4>1, <4>2
    <3> QED
      BY <1>2, <2>2, <2>3, <3>1 DEF SubscribeCalls, MoveTo, After, Place, Phases, TypeOK
  <2>4. CASE Subscribed(q, who)
    <3>1. call'[r]["submit"] = call[r]["submit"]
      BY <2>4 DEF Subscribed, Done, TypeOK
    <3> QED
      BY <1>2, <2>2, <2>4, <3>1 DEF Subscribed, MoveTo, After, Phases, TypeOK
  <2>5. CASE SubscribeRaises(q, who)
    <3>1. call'[r]["submit"] = call[r]["submit"]
      BY <2>5 DEF SubscribeRaises, Done, TypeOK
    <3> QED
      BY <1>2, <2>2, <2>5, <3>1 DEF SubscribeRaises, MoveTo, Phases, TypeOK
  <2> QED
    BY <2>1, <2>3, <2>4, <2>5
<1>4. CASE WaitStarts(q) \/ WaitAnswers(q) \/ WaitTimesOut(q)
  BY <1>2, <1>4 DEF WaitStarts, WaitAnswers, WaitTimesOut, MoveTo, Unresolved, RpcKept, Phases,
                    ResultOf, TypeOK
<1>5. CASE StreamStarts(q) \/ StreamTimesOut(q)
  BY <1>2, <1>5 DEF StreamStarts, StreamTimesOut, MoveTo, Unresolved, RpcKept, Phases, TypeOK
<1>6. CASE StreamReads(q)
  BY <1>2, <1>6 DEF StreamReads, MoveTo, RpcKept, Phases, TypeOK
<1>7. CASE CancelStarts(q) \/ CancelEnds(q)
  <2>1. call'[r]["submit"] = call[r]["submit"]
    <3>1. CASE CancelStarts(q)
      BY <3>1, OtherBegins DEF CancelStarts
    <3>2. CASE CancelEnds(q)
      BY <3>2 DEF CancelEnds, Done, TypeOK
    <3> QED
      BY <1>7, <3>1, <3>2
  <2> QED
    BY <1>7, <2>1 DEF CancelStarts, CancelEnds, CancelKept, registry, Phases, ResultOf
<1>8. CASE Quiesce(q)
  BY <1>8 DEF Quiesce, Phases, ResultOf, registry, world
<1> QED
  BY <1>1, <1>3, <1>4, <1>5, <1>6, <1>7, <1>8 DEF Client

\* An answer concerns the submit of r only if it answers that call.
LEMMA AnswerEffect ==
  ASSUME TypeOK, NEW s \in Sockets, ReceiveAnswer(s), NEW r \in Runs
  PROVE  /\ wire[s] \in Seq(Messages) /\ wire[s] # <<>>
         /\ call'[r]["submit"] # call[r]["submit"] =>
              /\ ReplyAt(r, s, 1)
              /\ call[r]["submit"] = "pending"
              /\ call'[r]["submit"] \in {"answered", "failed"}
<1> DEFINE m == Head(wire[s])
<1>1. wire[s] \in Seq(Messages) /\ wire[s] # <<>>
  BY DEF ReceiveAnswer, Receives, TypeOK
<1>2. m \in Messages /\ m.kind = "answer" /\ m = wire[s][1] /\ 1 \in DOMAIN wire[s]
  BY <1>1 DEF ReceiveAnswer
<1>3. m.run \in Runs /\ m.caller \in Callers
  BY <1>2 DEF Messages
<1>4. \/ call' = call
      \/ /\ call[m.run][m.caller] = "pending"
         /\ \E state \in {"answered", "failed"} : call' = [call EXCEPT ![m.run][m.caller] = state]
  BY DEF ReceiveAnswer
<1> HIDE DEF m
<1>5. call'[r]["submit"] # call[r]["submit"] =>
        /\ m.run = r /\ m.caller = "submit" /\ call[r]["submit"] = "pending"
        /\ call'[r]["submit"] \in {"answered", "failed"}
  <2>1. CASE call' = call
    BY <2>1
  <2>2. ASSUME NEW state \in {"answered", "failed"}, call[m.run][m.caller] = "pending",
               call' = [call EXCEPT ![m.run][m.caller] = state],
               call'[r]["submit"] # call[r]["submit"]
        PROVE  m.run = r /\ m.caller = "submit" /\ call'[r]["submit"] = state
    <3>1. call \in [Runs -> [Callers -> CallStates]] /\ "submit" \in Callers
      BY DEF TypeOK, Callers
    <3>2. m.run = r
      BY <2>2, <3>1, <1>3
    <3>3. call'[r] = [call[r] EXCEPT ![m.caller] = state]
      BY <2>2, <3>1, <3>2
    <3>4. m.caller = "submit"
      BY <2>2, <3>1, <3>3, <1>3
    <3> QED
      BY <3>1, <3>2, <3>3, <3>4
  <2> QED
    BY <1>4, <2>1, <2>2
<1> QED
  BY <1>1, <1>2, <1>5 DEF ReplyAt

\* Every step keeps the phases of every run.
LEMMA PhasesKept ==
  TypeOK /\ (\A r \in Runs : Phases(r)) /\ [Next]_vars => \A r \in Runs : Phases(r)'
<1> SUFFICES ASSUME TypeOK, \A q \in Runs : Phases(q), [Next]_vars, NEW r \in Runs
             PROVE  Phases(r)'
  OBVIOUS
<1>0. Phases(r) /\ HandedKept(r)
  BY HandedStays
<1>1. ASSUME UNCHANGED <<clients, submitter, id, quiesced, waiter, stream, lock>>,
             submitter[r] \notin {"creating", "prompting"} =>
               call'[r]["submit"] = call[r]["submit"]
      PROVE  Phases(r)'
  BY <1>0, <1>1 DEF Phases, ResultOf, HandedKept
<1>2. ASSUME NEW q \in Runs, NEW c \in Callers, Connects(q, c) \/ CallExpires(q, c)
      PROVE  Phases(r)'
  <2>1. q = r /\ c = "submit" => call[r]["submit"] # "none"
    BY <1>2 DEF Connects, CallExpires
  <2>2. q # r \/ c # "submit" => call'[r]["submit"] = call[r]["submit"]
    BY <1>2 DEF Connects, CallExpires, SendOn, TypeOK, Callers
  <2> QED
    BY <1>0, <1>1, <1>2, <2>1, <2>2
    DEF Connects, CallExpires, callers, registry, world, Phases
<1>3. CASE Reconnects \/ \E s \in Sockets : Gateway(s)
  BY <1>1, <1>3 DEF Reconnects, ReconnectStarts, Reconnected, ReconnectFails, ReconnectKept,
                    Gateway, registry, callers
<1>4. ASSUME NEW s \in Sockets, ReceiveLoop(s) PROVE Phases(r)'
  <2>1. UNCHANGED <<clients, submitter, id, quiesced, waiter, stream, lock>>
    BY <1>4 DEF ReceiveLoop, ReceiveAnswer, ReceiveEvent, ReceiveGarbage, NoticeClosed, Receives,
                callers, world
  <2>2. call[r]["submit"] = "none" => call'[r]["submit"] = "none"
    <3>1. CASE ReceiveAnswer(s)
      BY <3>1, AnswerEffect
    <3>2. CASE ReceiveEvent(s) \/ ReceiveGarbage(s)
      BY <3>2 DEF ReceiveEvent, ReceiveGarbage
    <3>3. CASE NoticeClosed(s)
      BY <3>3 DEF NoticeClosed, FailPending, TypeOK, Callers
    <3> QED
      BY <1>4, <3>1, <3>2, <3>3 DEF ReceiveLoop
  <2> QED
    BY <1>0, <1>1, <2>1, <2>2 DEF Phases
<1>5. CASE Disconnect
  <2>1. call[r]["submit"] = "none" => call'[r]["submit"] = "none"
    BY <1>5 DEF Disconnect, FailPending, TypeOK, Callers
  <2> QED
    BY <1>0, <1>1, <1>5, <2>1 DEF Disconnect, callers, Phases
<1>6. CASE UNCHANGED vars
  BY <1>1, <1>6 DEF vars, registry, callers, world
<1> QED
  BY <1>0, <1>2, <1>3, <1>4, <1>5, <1>6, ClientPhases DEF Next, Loop

-----------------------------------------------------------------------------
(* What was heard. *)

Early == {"idle", "creating", "prompting"}

\* Every queue of the run keeps what it holds, in its place.
Grown(r) ==
  \A i \in Ids : \A n \in DOMAIN queue[r][i] :
    n \in DOMAIN queue'[r][i] /\ queue'[r][i][n] = queue[r][i][n]

\* What is filed before the acknowledgement stays filed until it comes.
QueuesGrow(r) == submitter'[r] \in Early => submitter[r] \in Early /\ Grown(r)

\* One event more, at the end of a queue.
LEMMA AppendFacts ==
  ASSUME NEW seq \in Seq(Events), NEW event \in Events
  PROVE  /\ \A n \in DOMAIN seq : n \in DOMAIN Append(seq, event) /\ Append(seq, event)[n] = seq[n]
         /\ Len(seq) + 1 \in DOMAIN Append(seq, event)
         /\ Append(seq, event)[Len(seq) + 1] = event
OBVIOUS

\* A queue only grows, unless submit takes it down or hands it over, or the
\* consumer takes an event.
LEMMA QueueGrows ==
  ASSUME TypeOK, [Next]_vars, NEW r \in Runs, ~SubmitRaises(r), ~Accepted(r), ~StreamReads(r)
  PROVE  Grown(r)
<1>1. CASE queue'[r] = queue[r]
  BY <1>1 DEF Grown
<1>2. ASSUME NEW q \in Runs, Client(q) PROVE queue'[r] = queue[r]
  <2>1. CASE queue' = queue
    BY <2>1
  <2>2. CASE SubmitRaises(q)
    BY <2>2 DEF SubmitRaises, TypeOK
  <2>3. CASE Accepted(q)
    <3>1. \E i : queue' = [queue EXCEPT ![q] = [j \in Ids |-> IF j = i THEN Adopted(q) ELSE <<>>]]
      BY <2>3 DEF Accepted, Prompted
    <3>2. q # r
      BY <2>3
    <3> QED
      BY <3>1, <3>2 DEF TypeOK
  <2>4. CASE StreamReads(q)
    BY <2>4 DEF StreamReads, TypeOK
  <2> QED
    BY <1>2, <2>1, <2>2, <2>3, <2>4
    DEF Client, Submits, Submit, Created, SubmitRefused, Subscribes, SubscribeCalls, Subscribed,
        SubscribeRaises, WaitStarts, WaitAnswers, WaitTimesOut, StreamStarts, StreamTimesOut,
        CancelStarts, CancelEnds, CancelKept, Quiesce, registry
<1>3. CASE (\E q \in Runs, c \in Callers : Connects(q, c) \/ CallExpires(q, c))
             \/ Reconnects \/ (\E s \in Sockets : Gateway(s)) \/ UNCHANGED vars
  BY <1>1, <1>3 DEF Connects, CallExpires, Reconnects, ReconnectStarts, Reconnected,
                    ReconnectFails, ReconnectKept, Gateway, registry, vars
<1>4. ASSUME FailActive PROVE Grown(r)
  <2>1. SUFFICES ASSUME NEW i \in Ids
                 PROVE  \A n \in DOMAIN queue[r][i] :
                          n \in DOMAIN queue'[r][i] /\ queue'[r][i][n] = queue[r][i][n]
    BY DEF Grown
  <2>2. queue[r][i] \in Seq(Events) /\ "lost" \in Events
    BY DEF TypeOK, Events, Terminal
  <2>3. queue'[r][i] \in {queue[r][i], Append(queue[r][i], "lost")}
    BY <1>4 DEF FailActive, FailQueues
  <2> QED
    BY <2>2, <2>3, AppendFacts
<1>5. ASSUME NEW s \in Sockets, ReceiveEvent(s) PROVE Grown(r)
  <2>1. SUFFICES ASSUME NEW i \in Ids
                 PROVE  \A n \in DOMAIN queue[r][i] :
                          n \in DOMAIN queue'[r][i] /\ queue'[r][i][n] = queue[r][i][n]
    BY DEF Grown
  <2> DEFINE m == Head(wire[s])
  <2>2. m.run \in Runs /\ m.event \in Events
    <3>1. m \in Messages /\ m.kind = "event"
      BY <1>5, HeadTyped DEF ReceiveEvent, Receives
    <3> QED
      BY <3>1 DEF Messages
  <2>3. queue[r][i] \in Seq(Events)
    BY DEF TypeOK
  <2>4. queue'[r][i] \in {queue[r][i], Append(queue[r][i], m.event)}
    BY <1>5, <2>2 DEF ReceiveEvent, TypeOK
  <2> QED
    BY <2>2, <2>3, <2>4, AppendFacts
<1>6. ASSUME NEW s \in Sockets, ReceiveLoop(s) PROVE Grown(r)
  <2>1. ReceiveEvent(s) \/ FailActive \/ queue' = queue
    BY <1>6 DEF ReceiveLoop, ReceiveAnswer, ReceiveGarbage, NoticeClosed
  <2> QED
    BY <1>1, <1>4, <1>5, <2>1
<1>7. CASE Disconnect
  BY <1>4, <1>7 DEF Disconnect
<1> QED
  BY <1>1, <1>2, <1>3, <1>6, <1>7 DEF Next, Loop

\* Where a step may take a submit.
LEMMA SubmitMoves ==
  ASSUME TypeOK, [Next]_vars, NEW r \in Runs
  PROVE  submitter'[r] = submitter[r] \/ Submits(r)
<1>1. ASSUME NEW q \in Runs, Client(q) PROVE submitter' = submitter \/ Submits(q)
  BY <1>1
  DEF Client, Subscribes, SubscribeCalls, Subscribed, SubscribeRaises, ClientKept, WaitStarts,
      WaitAnswers, WaitTimesOut, StreamStarts, StreamReads, StreamTimesOut, CancelStarts,
      CancelEnds, CancelKept, Quiesce
<1>2. ASSUME NEW q \in Runs, Submits(q) PROVE submitter'[r] = submitter[r] \/ q = r
  <2>1. \E place : SubmitAt(q, place)
    BY <1>2 DEF Submits, Submit, Created, SubmitRaises, SubmitRefused, Accepted, Prompted
  <2> QED
    BY <2>1 DEF SubmitAt, TypeOK
<1>3. CASE (\E q \in Runs, c \in Callers : Connects(q, c) \/ CallExpires(q, c))
             \/ Reconnects \/ Disconnect \/ (\E s \in Sockets : Gateway(s)) \/ UNCHANGED vars
  BY <1>3 DEF Connects, CallExpires, Reconnects, ReconnectStarts, Reconnected, ReconnectFails,
              ReconnectKept, Gateway, Disconnect, callers, vars
<1>4. ASSUME NEW s \in Sockets, ReceiveLoop(s) PROVE submitter' = submitter
  BY <1>4 DEF ReceiveLoop, ReceiveAnswer, ReceiveEvent, ReceiveGarbage, NoticeClosed, Receives,
              callers
<1> QED
  BY <1>1, <1>2, <1>3, <1>4 DEF Next, Loop

\* The queues of a run that is not out only grow.
LEMMA QueuesGrowInStep == \A r \in Runs : TypeOK /\ (\A q \in Runs : Phases(q)) /\ [Next]_vars => QueuesGrow(r)
<1> SUFFICES ASSUME NEW r \in Runs, TypeOK, \A q \in Runs : Phases(q), [Next]_vars,
                    submitter'[r] \in Early
             PROVE  submitter[r] \in Early /\ Grown(r)
  BY DEF QueuesGrow
<1>1. submitter'[r] = submitter[r] \/ Submits(r)
  BY SubmitMoves
<1>2. ~SubmitRaises(r) /\ ~Accepted(r)
  BY DEF SubmitRaises, Accepted, Prompted, SubmitAt, Early, TypeOK
<1>3. submitter[r] \in Early
  BY <1>1, <1>2 DEF Submits, Submit, Created, SubmitRefused, Early
<1>4. ~StreamReads(r)
  <2>1. StreamReads(r) => stream[r] = "reading"
    BY DEF StreamReads
  <2> QED
    BY <1>3, <2>1 DEF Phases, Early
<1> QED
  BY <1>2, <1>3, <1>4, QueueGrows

\* The event a receive loop takes, and where it files it.
LEMMA EventEffect ==
  ASSUME TypeOK, \A q \in Runs : Phases(q), NEW s \in Sockets, ReceiveEvent(s), NEW r \in Runs,
         heard'[r], ~heard[r]
  PROVE  \E i \in OwnIds(r), event \in Terminal :
           /\ queue'[r][i] = Append(queue[r][i], event)
           /\ submitter[r] = "handed" =>
                i = id[r] /\ result'[r][i] = Recorded(result[r][i], event)
<1> DEFINE m == Head(wire[s])
<1>1. m \in Messages /\ m.kind = "event"
  BY HeadTyped DEF ReceiveEvent, Receives
<1>2. m.run \in Runs /\ m.event \in Events /\ m.via \in {"session", "native"}
      /\ (m.via = "native" => m.run \in clients.native)
  BY <1>1 DEF Messages
<1>3. m.run = r /\ FiledUnder(m) # {} /\ m.event \in Terminal
  BY <1>2 DEF ReceiveEvent, TypeOK
<1>4. PICK i \in FiledUnder(m) : TRUE
  BY <1>3
<1>5. i \in OwnIds(r) /\ i \in Ids /\ (submitter[r] = "handed" => i = id[r])
  BY <1>2, <1>3, <1>4 DEF FiledUnder, OwnIds, Phases, Ids
<1>6. queue'[r][i] = Append(queue[r][i], m.event)
  BY <1>3, <1>4, <1>5 DEF ReceiveEvent, TypeOK
<1>7. submitter[r] = "handed" => result'[r][i] = Recorded(result[r][i], m.event)
  BY <1>3, <1>4, <1>5 DEF ReceiveEvent, TypeOK, HandleKnown
<1> QED
  BY <1>3, <1>5, <1>6, <1>7

\* heard is set by a receive loop only.
LEMMA HeardSet ==
  TypeOK /\ [Next]_vars =>
    \/ heard' = heard
    \/ \E s \in Sockets : ReceiveEvent(s) /\ UNCHANGED <<clients, submitter, id>>
<1> SUFFICES ASSUME TypeOK, [Next]_vars
             PROVE  \/ heard' = heard
                    \/ \E s \in Sockets : ReceiveEvent(s) /\ UNCHANGED <<clients, submitter, id>>
  OBVIOUS
<1>1. ASSUME NEW q \in Runs, Client(q) PROVE heard' = heard
  BY <1>1 DEF Client, Submits, Submit, Created, SubmitRaises, SubmitRefused, Accepted, Prompted,
     Subscribes, SubscribeCalls, Subscribed, SubscribeRaises, ClientKept, WaitStarts,
     WaitAnswers, WaitTimesOut, StreamStarts, StreamReads, StreamTimesOut, CancelStarts, CancelEnds,
     CancelKept, Quiesce, registry
<1>2. ASSUME NEW q \in Runs, NEW c \in Callers, Connects(q, c) \/ CallExpires(q, c)
      PROVE  heard' = heard
  BY <1>2 DEF Connects, CallExpires, registry
<1>3. ASSUME Reconnects \/ Disconnect \/ \E s \in Sockets : Gateway(s) PROVE heard' = heard
  BY <1>3 DEF Reconnects, ReconnectStarts, Reconnected, ReconnectFails, ReconnectKept, Gateway,
              Disconnect, registry
<1>4. ASSUME NEW s \in Sockets, ReceiveLoop(s)
      PROVE  heard' = heard \/ (ReceiveEvent(s) /\ UNCHANGED <<clients, submitter, id>>)
  BY <1>4 DEF ReceiveLoop, ReceiveAnswer, ReceiveEvent, ReceiveGarbage, NoticeClosed, Receives,
              callers
<1>5. CASE UNCHANGED vars
  BY <1>5 DEF vars, registry
<1> QED
  BY <1>1, <1>2, <1>3, <1>4, <1>5 DEF Next, Loop

\* What the clients are up to is chosen once.
LEMMA ClientsStay == [Next]_vars => UNCHANGED clients
<1> SUFFICES ASSUME [Next]_vars PROVE UNCHANGED clients
  OBVIOUS
<1>1. ASSUME NEW q \in Runs, Client(q) PROVE UNCHANGED clients
  BY <1>1 DEF Client, Submits, Submit, Created, SubmitRaises, SubmitRefused, Accepted, Prompted,
     SubmitKept, Subscribes, SubscribeCalls, Subscribed, SubscribeRaises, ClientKept, WaitStarts,
     WaitAnswers, WaitTimesOut, StreamStarts, StreamReads, StreamTimesOut, CancelStarts, CancelEnds,
     CancelKept, Quiesce, world
<1>2. ASSUME NEW q \in Runs, NEW c \in Callers, Connects(q, c) \/ CallExpires(q, c)
      PROVE  UNCHANGED clients
  BY <1>2 DEF Connects, CallExpires, world
<1>3. ASSUME Reconnects \/ Disconnect \/ \E s \in Sockets : Gateway(s) \/ ReceiveLoop(s)
      PROVE  UNCHANGED clients
  BY <1>3 DEF Reconnects, ReconnectStarts, Reconnected, ReconnectFails, ReconnectKept, Gateway,
              Disconnect, ReceiveLoop, ReceiveAnswer, ReceiveEvent, ReceiveGarbage, NoticeClosed,
              Receives, world
<1>4. CASE UNCHANGED vars
  BY <1>4 DEF vars, world
<1> QED
  BY <1>1, <1>2, <1>3, <1>4 DEF Next, Loop

\* What was heard is still queued, for the run that is not out.
LEMMA HeardQueuedKept ==
  TypeOK /\ (\A q \in Runs : Phases(q)) /\ [Next]_vars =>
    \A r \in Runs : HeardIsQueued(r) => HeardIsQueued(r)'
<1> SUFFICES ASSUME TypeOK, \A q \in Runs : Phases(q), [Next]_vars, NEW r \in Runs,
                    HeardIsQueued(r), heard'[r], submitter'[r] \in Early
             PROVE  \E i \in OwnIds(r)' : \E n \in DOMAIN queue'[r][i] :
                      queue'[r][i][n] \in Terminal
  BY DEF HeardIsQueued, Early
<1>0. OwnIds(r) \subseteq Ids
  BY DEF OwnIds, Ids
<1>1. UNCHANGED clients
  BY ClientsStay
<1>2. OwnIds(r)' = OwnIds(r)
  BY <1>1 DEF OwnIds
<1>3. QueuesGrow(r)
  BY QueuesGrowInStep
<1>4. CASE heard[r]
  BY <1>0, <1>2, <1>3, <1>4 DEF HeardIsQueued, QueuesGrow, Grown, Early
<1>5. CASE ~heard[r]
  <2>1. PICK s \in Sockets : ReceiveEvent(s)
    BY <1>5, HeardSet
  <2>2. PICK i \in OwnIds(r), event \in Terminal : queue'[r][i] = Append(queue[r][i], event)
    BY <1>5, <2>1, EventEffect
  <2>3. queue[r][i] \in Seq(Events) /\ event \in Events
    BY <1>0 DEF TypeOK, Events
  <2>4. Len(queue[r][i]) + 1 \in DOMAIN queue'[r][i] /\ queue'[r][i][Len(queue[r][i]) + 1] = event
    BY <2>2, <2>3, AppendFacts
  <2> QED
    BY <1>2, <2>4
<1> QED
  BY <1>4, <1>5

\* Both halves of a queue that takes over another are found in it.
LEMMA ConcatFacts ==
  ASSUME NEW first \in Seq(Events), NEW second \in Seq(Events)
  PROVE  /\ \A n \in DOMAIN first :
              n \in DOMAIN (first \o second) /\ (first \o second)[n] = first[n]
         /\ \A n \in DOMAIN second :
              /\ Len(first) + n \in DOMAIN (first \o second)
              /\ (first \o second)[Len(first) + n] = second[n]
OBVIOUS

\* What was heard is found in the queue the acknowledgement adopts.
LEMMA AdoptedHears ==
  ASSUME NEW r \in Runs, TypeOK, HeardIsQueued(r), Accepted(r), heard[r]
  PROVE  Adopted(r) \in Seq(Events) /\ \E k \in DOMAIN Adopted(r) : Adopted(r)[k] \in Terminal
<1>1. submitter[r] = "prompting"
  BY DEF Accepted, Prompted
<1>2. PICK j \in OwnIds(r) : \E n \in DOMAIN queue[r][j] : queue[r][j][n] \in Terminal
  BY <1>1 DEF HeardIsQueued
<1>3. PICK n \in DOMAIN queue[r][j] : queue[r][j][n] \in Terminal
  BY <1>2
<1>4. queue[r]["native"] \in Seq(Events) /\ queue[r]["tui"] \in Seq(Events)
  BY DEF TypeOK, Ids
<1>5. Adopted(r) \in Seq(Events)
  BY <1>4 DEF Adopted
<1>6. CASE r \notin clients.native
  BY <1>2, <1>3, <1>5, <1>6 DEF Adopted, OwnIds
<1>7. CASE r \in clients.native
  <2> DEFINE first == queue[r]["native"]
             second == queue[r]["tui"]
  <2>1. Adopted(r) = first \o second
    BY <1>7 DEF Adopted
  <2>2. first \in Seq(Events) /\ second \in Seq(Events)
    BY <1>4
  <2>3. j = "native" => n \in DOMAIN first /\ first[n] \in Terminal
    BY <1>3
  <2>4. j = "tui" => n \in DOMAIN second /\ second[n] \in Terminal
    BY <1>3
  <2> HIDE DEF first, second
  <2>5. CASE j = "native"
    BY <1>5, <2>1, <2>2, <2>3, <2>5, ConcatFacts
  <2>6. CASE j = "tui"
    <3>1. /\ Len(first) + n \in DOMAIN (first \o second)
          /\ (first \o second)[Len(first) + n] = second[n]
      BY <2>2, <2>4, <2>6, ConcatFacts
    <3> QED
      BY <1>5, <2>1, <2>4, <2>6, <3>1
  <2> QED
    BY <1>2, <2>5, <2>6 DEF OwnIds, Ids
<1> QED
  BY <1>6, <1>7

\* The acknowledgement records what it finds.
LEMMA AcceptedRecords ==
  ASSUME NEW r \in Runs, TypeOK, HeardIsQueued(r), Accepted(r), heard[r]
  PROVE  ResultOf(r)' # "none"
<1> DEFINE i == IF r \in clients.native THEN "native" ELSE "tui"
           old == IF LostDuringSubmit(r) THEN Recorded(result[r][i], "lost") ELSE result[r][i]
<1>1. i \in Ids /\ result[r][i] \in {"none"} \cup Statuses
  BY DEF TypeOK, Ids
<1>2. old \in {"none"} \cup Statuses
  BY <1>1, RecordedFacts
<1>3. RecordedAll(old, Adopted(r)) # "none"
  BY <1>2, AdoptedHears, RecordedAllFacts
<1>4. id'[r] = i /\ result'[r][i] = RecordedAll(old, Adopted(r))
  BY <1>1 DEF Accepted, Prompted, TypeOK
<1> QED
  BY <1>3, <1>4 DEF ResultOf

\* Only the acknowledgement hands a run out.
LEMMA HandedByAccepted ==
  ASSUME NEW r \in Runs, TypeOK, [Next]_vars, submitter[r] # "handed", submitter'[r] = "handed"
  PROVE  Accepted(r)
<1>1. Submits(r)
  BY SubmitMoves
<1> QED
  BY <1>1 DEF Submits, Submit, Created, SubmitRaises, SubmitRefused, SubmitAt, TypeOK

\* A terminal event that was heard is recorded, in whatever order it comes.
LEMMA HeardRecordedKept ==
  /\ TypeOK /\ (\A r \in Runs : Phases(r) /\ HeardIsQueued(r))
  /\ HeardIsRecorded /\ [Next]_vars
  => HeardIsRecorded'
<1> SUFFICES ASSUME TypeOK, \A r \in Runs : Phases(r) /\ HeardIsQueued(r), HeardIsRecorded,
                    [Next]_vars, NEW r \in Runs, submitter'[r] = "handed", heard'[r]
             PROVE  ResultOf(r)' # "none"
  BY DEF HeardIsRecorded
<1>1. CASE submitter[r] = "handed"
  <2>1. HandedKept(r)
    BY HandedStays
  <2>2. CASE heard[r]
    BY <1>1, <2>1, <2>2 DEF HeardIsRecorded, HandedKept, ResultOf
  <2>3. CASE ~heard[r]
    <3>1. PICK s \in Sockets : ReceiveEvent(s)
      BY <2>3, HeardSet
    <3>2. PICK event \in Terminal : result'[r][id[r]] = Recorded(result[r][id[r]], event)
      BY <1>1, <2>3, <3>1, EventEffect
    <3>3. result[r][id[r]] \in {"none"} \cup Statuses
      BY DEF TypeOK
    <3> QED
      BY <1>1, <2>1, <3>2, <3>3, RecordedFacts DEF HandedKept, ResultOf
  <2> QED
    BY <2>2, <2>3
<1>2. CASE submitter[r] # "handed"
  <2>1. Accepted(r)
    BY <1>2, HandedByAccepted
  <2>2. heard[r]
    BY <1>2, HeardSet
  <2> QED
    BY <2>1, <2>2, AcceptedRecords
<1> QED
  BY <1>1, <1>2

\* A consumer that has ended does not come back.
LEMMA EndedStays ==
  ASSUME TypeOK, [Next]_vars, NEW r \in Runs, Phases(r), stream[r] = "ended"
  PROVE  stream'[r] = "ended"
<1>1. ASSUME NEW q \in Runs, Subscribes(q) PROVE stream'[r] = "ended"
  <2>1. PICK who \in {"wait", "stream"} :
          SubscribeCalls(q, who) \/ Subscribed(q, who) \/ SubscribeRaises(q, who)
    BY <1>1 DEF Subscribes
  <2>3. ASSUME NEW place, MoveTo(q, who, place) PROVE who = "wait" \/ q # r => stream'[r] = stream[r]
    BY <2>3 DEF MoveTo, TypeOK
  <2>4. who = "stream" /\ q = r => lock[r] # who /\ Place(r, who) # "subscribing"
    BY DEF Phases, Place
  <2>5. ~(who = "stream" /\ q = r)
    BY <2>1, <2>4 DEF SubscribeCalls, Subscribed, SubscribeRaises
  <2>6. UNCHANGED stream \/ \E place : MoveTo(q, who, place)
    BY <2>1 DEF SubscribeCalls, Subscribed, SubscribeRaises
  <2> QED
    BY <2>3, <2>5, <2>6
<1>2. ASSUME NEW q \in Runs, StreamStarts(q) \/ StreamReads(q) \/ StreamTimesOut(q)
      PROVE  stream'[r] = "ended"
  <2>1. stream[q] # "ended" /\ \E place : stream' = [stream EXCEPT ![q] = place]
    BY <1>2 DEF StreamStarts, StreamReads, StreamTimesOut, MoveTo
  <2> QED
    BY <2>1 DEF TypeOK
<1>3. ASSUME NEW q \in Runs, Client(q) PROVE stream'[r] = "ended"
  BY <1>1, <1>2, <1>3
  DEF Client, Submits, Submit, Created, SubmitRaises, SubmitRefused, Accepted, Prompted, SubmitKept,
      WaitStarts, WaitAnswers, WaitTimesOut, MoveTo, CancelStarts, CancelEnds, CancelKept, Quiesce
<1>4. CASE (\E q \in Runs, c \in Callers : Connects(q, c) \/ CallExpires(q, c))
             \/ Reconnects \/ Disconnect \/ (\E s \in Sockets : Gateway(s)) \/ UNCHANGED vars
  BY <1>4 DEF Connects, CallExpires, Reconnects, ReconnectStarts, Reconnected, ReconnectFails,
              ReconnectKept, Gateway, Disconnect, callers, vars
<1>5. ASSUME NEW s \in Sockets, ReceiveLoop(s) PROVE stream' = stream
  BY <1>5 DEF ReceiveLoop, ReceiveAnswer, ReceiveEvent, ReceiveGarbage, NoticeClosed, Receives,
              callers
<1> QED
  BY <1>3, <1>4, <1>5 DEF Next, Loop

\* A terminal event that was heard stays queued for the consumer.
LEMMA HeardStreamedKept ==
  ASSUME TypeOK, \A q \in Runs : Phases(q) /\ HeardIsQueued(q), HeardIsStreamed, [Next]_vars
  PROVE  HeardIsStreamed'
<1> SUFFICES ASSUME NEW r \in Runs, submitter'[r] = "handed", heard'[r], stream'[r] # "ended"
             PROVE  \E n \in DOMAIN queue'[r][id'[r]] : queue'[r][id'[r]][n] \in Terminal
  BY DEF HeardIsStreamed, Ends
<1>1. CASE submitter[r] = "handed"
  <2>1. id'[r] = id[r] /\ id[r] \in Ids /\ queue[r][id[r]] \in Seq(Events)
    <3>1. HandedKept(r)
      BY HandedStays
    <3>2. id[r] \in Ids /\ queue[r][id[r]] \in Seq(Events)
      BY DEF TypeOK
    <3> QED
      BY <1>1, <3>1, <3>2 DEF HandedKept
  <2>2. stream[r] # "ended"
    <3>1. Phases(r)
      OBVIOUS
    <3>2. stream[r] = "ended" => stream'[r] = "ended"
      BY <3>1, EndedStays
    <3> QED
      BY <3>2
  <2>3. CASE heard[r]
    <3>1. PICK n \in DOMAIN queue[r][id[r]] : queue[r][id[r]][n] \in Terminal
      BY <1>1, <2>2, <2>3 DEF HeardIsStreamed, Ends
    <3>2. CASE StreamReads(r)
      <4> DEFINE events == queue[r][id[r]]
      <4>1. /\ queue'[r][id[r]] = Tail(events)
            /\ events # <<>>
            /\ Head(events) \in Terminal => stream'[r] = "ended"
        BY <2>1, <3>2 DEF StreamReads, MoveTo, TypeOK
      <4>2. n # 1
        BY <2>1, <3>1, <4>1
      <4>3. n - 1 \in DOMAIN Tail(events) /\ Tail(events)[n - 1] = events[n]
        BY <2>1, <3>1, <4>1, <4>2
      <4> QED
        BY <2>1, <3>1, <4>1, <4>3
    <3>3. CASE ~StreamReads(r)
      <4>1. ~SubmitRaises(r) /\ ~Accepted(r)
        BY <1>1 DEF SubmitRaises, Accepted, Prompted
      <4>2. Grown(r)
        BY <3>3, <4>1, QueueGrows
      <4> QED
        BY <2>1, <3>1, <4>2 DEF Grown
    <3> QED
      BY <3>2, <3>3
  <2>4. CASE ~heard[r]
    <3>1. PICK s \in Sockets : ReceiveEvent(s)
      BY <2>4, HeardSet
    <3>2. PICK event \in Terminal : queue'[r][id[r]] = Append(queue[r][id[r]], event)
      <4>1. \A q \in Runs : Phases(q)
        OBVIOUS
      <4>2. \E i \in OwnIds(r), event \in Terminal :
              /\ queue'[r][i] = Append(queue[r][i], event)
              /\ submitter[r] = "handed" =>
                   i = id[r] /\ result'[r][i] = Recorded(result[r][i], event)
        BY <2>4, <3>1, <4>1, EventEffect
      <4> QED
        BY <1>1, <4>2
    <3>3. event \in Events
      BY DEF Events
    <3>4. /\ Len(queue[r][id[r]]) + 1 \in DOMAIN queue'[r][id[r]]
          /\ queue'[r][id[r]][Len(queue[r][id[r]]) + 1] = event
      BY <2>1, <3>2, <3>3, AppendFacts
    <3> QED
      BY <2>1, <3>4
  <2> QED
    BY <2>3, <2>4
<1>2. CASE submitter[r] # "handed"
  <2>1. Accepted(r)
    BY <1>2, HandedByAccepted
  <2>2. heard[r]
    BY <1>2, HeardSet
  <2>3. queue'[r][id'[r]] = Adopted(r)
    BY <2>1 DEF Accepted, Prompted, TypeOK, Ids
  <2> QED
    BY <2>1, <2>2, <2>3, AdoptedHears
<1> QED
  BY <1>1, <1>2

-----------------------------------------------------------------------------
(* The requests of submit. *)

\* Nothing new is on the way for the submit of r.
Quiet(r) ==
  /\ \A s \in Sockets, method \in Methods : Requested(r, s, method)' => Requested(r, s, method)
  /\ \A s \in Sockets : \A n \in DOMAIN wire'[s] : ReplyAt(r, s, n)' => ReplyAt(r, s, n)

\* What is not sent does not arrive twice.
LEMMA QuietKeeps ==
  ASSUME NEW r, Quiet(r), OneAtATime(r)
  PROVE  OneAtATime(r)' /\ \A s \in Sockets : Underway(r, s)' => Underway(r, s)
BY DEF Quiet, OneAtATime, Underway, ReplyAt

\* Steps that leave submit where it is, and its answer still to be trusted.
LEMMA QuietRpc ==
  ASSUME NEW r, Rpc(r), Quiet(r), submitter'[r] = submitter[r], home'[r] = home[r],
         call'[r]["submit"] \in {"answered", "connecting"} =>
           call'[r]["submit"] = call[r]["submit"],
         ~stale'[r] => ~stale[r] /\ (home[r] \in receiving \cup deaf =>
                                      home[r] \in receiving' \cup deaf')
  PROVE  Rpc(r)'
<1>1. OneAtATime(r)' /\ \A s \in Sockets : Underway(r, s)' => Underway(r, s)
  BY QuietKeeps DEF Rpc
<1> QED
  BY <1>1 DEF Rpc

\* A request sent when nothing else is on the way is alone.
LEMMA SentAlone ==
  ASSUME NEW r \in Runs, TypeOK, NEW socket \in Sockets, NEW method \in Methods,
         SendOn(socket, r, "submit", method), UNCHANGED wire, \A s \in Sockets : ~Underway(r, s)
  PROVE  /\ OneAtATime(r)'
         /\ method = "prompt" => \A s \in Sockets : Underway(r, s)' => home'[r] = s
<1>1. \A s \in Sockets : \A n \in DOMAIN wire'[s] : ~ReplyAt(r, s, n)'
  BY DEF Underway, ReplyAt
<1>2. \A s \in Sockets, other \in Methods :
        Requested(r, s, other)' => s = socket /\ other = method
  BY DEF SendOn, TypeOK, Requested, Underway
<1>3. method = "prompt" => home'[r] = socket
  BY DEF SendOn, TypeOK
<1> QED
  BY <1>1, <1>2, <1>3 DEF OneAtATime, Underway

\* submit's next request, when its last is settled.
LEMMA BeginAlone ==
  ASSUME NEW r \in Runs, TypeOK, NEW method \in Methods, Begin(r, "submit", method),
         UNCHANGED wire, OneAtATime(r), \A s \in Sockets : ~Underway(r, s)
  PROVE  /\ OneAtATime(r)'
         /\ call'[r]["submit"] \in {"failed", "connecting", "pending"}
         /\ call'[r]["submit"] = "connecting" => \A s \in Sockets : ~Underway(r, s)'
         /\ method = "prompt" => \A s \in Sockets : Underway(r, s)' => home'[r] = s
<1> "submit" \in Callers
  BY DEF Callers
<1>1. call'[r]["submit"] \in {"failed", "connecting", "pending"}
  BY BeginEffect DEF TypeOK
<1>2. CASE UNCHANGED <<asked, home>>
  <2>1. Quiet(r)
    BY <1>2 DEF Quiet, Requested, ReplyAt
  <2>2. \A s \in Sockets : ~Underway(r, s)'
    BY <2>1, QuietKeeps
  <2> QED
    BY <1>1, <2>1, <2>2, QuietKeeps
<1>3. CASE /\ ws \in Sockets /\ SendOn(ws, r, "submit", method)
           /\ call' = [call EXCEPT ![r]["submit"] = "pending"]
  <2>1. call'[r]["submit"] = "pending"
    BY <1>3 DEF TypeOK
  <2> QED
    BY <1>3, <2>1, SentAlone
<1> QED
  BY <1>2, <1>3, BeginEffect

\* The requests of others are not the submit of r.
LEMMA OtherQuiet ==
  ASSUME TypeOK, NEW r \in Runs, NEW q \in Runs, NEW c \in Callers, NEW method \in Methods,
         NEW socket \in Sockets, q # r \/ (c # "submit" /\ method # "prompt"),
         UNCHANGED wire, SendOn(socket, q, c, method) \/ UNCHANGED <<asked, home>>
  PROVE  Quiet(r) /\ home'[r] = home[r]
<1>1. CASE SendOn(socket, q, c, method)
  BY <1>1 DEF SendOn, TypeOK, Quiet, Requested, ReplyAt
<1>2. CASE UNCHANGED <<asked, home>>
  BY <1>2 DEF Quiet, Requested, ReplyAt
<1> QED
  BY <1>1, <1>2

\* The same for a call that may not leave.
LEMMA OtherBeginsQuietly ==
  ASSUME TypeOK, NEW r \in Runs, NEW q \in Runs, NEW c \in Callers, NEW method \in Methods,
         q # r \/ (c # "submit" /\ method # "prompt"), UNCHANGED wire, Begin(q, c, method)
  PROVE  Quiet(r) /\ home'[r] = home[r]
<1>1. CASE UNCHANGED <<asked, home>>
  BY <1>1 DEF Quiet, Requested, ReplyAt
<1>2. CASE ws \in Sockets /\ SendOn(ws, q, c, method)
  BY <1>2, OtherQuiet
<1> QED
  BY <1>1, <1>2, BeginEffect

\* submit's own steps.
LEMMA SubmitRpc == \A r, q \in Runs : TypeOK /\ Rpc(r) /\ Submits(q) => Rpc(r)'
<1> SUFFICES ASSUME NEW r \in Runs, NEW q \in Runs, TypeOK, Rpc(r), Submits(q) PROVE Rpc(r)'
  OBVIOUS
<1> "submit" \in Callers /\ {"create", "prompt"} \subseteq Methods
  BY DEF Callers, Methods
<1>0. UNCHANGED <<wire, receiving, deaf>>
  BY DEF Submits, Submit, Created, SubmitRaises, SubmitRefused, Accepted, Prompted, SubmitKept,
         adapter
<1>1. ASSUME UNCHANGED <<asked, home>>, submitter'[r] \notin {"idle", "prompting"},
             call'[r]["submit"] = "none"
      PROVE  Rpc(r)'
  <2>1. Quiet(r)
    BY <1>0, <1>1 DEF Quiet, Requested, ReplyAt
  <2>2. OneAtATime(r)'
    BY <2>1, QuietKeeps DEF Rpc
  <2> QED
    BY <1>1, <2>2 DEF Rpc
<1>2. ASSUME q # r, call'[r]["submit"] = call[r]["submit"], submitter'[r] = submitter[r],
             stale'[r] = stale[r], Quiet(r), home'[r] = home[r]
      PROVE  Rpc(r)'
  BY <1>0, <1>2, QuietRpc
<1>3. CASE Submit(q)
  <2>1. CASE q = r
    <3>1. Begin(r, "submit", "create") /\ submitter'[r] = "creating" /\ submitter[r] = "idle"
      BY <1>3, <2>1 DEF Submit, SubmitAt, TypeOK
    <3>2. OneAtATime(r) /\ \A s \in Sockets : ~Underway(r, s)
      BY <3>1 DEF Rpc
    <3> QED
      BY <1>0, <3>1, <3>2, BeginAlone DEF Rpc
  <2>2. CASE q # r
    <3>1. Quiet(r) /\ home'[r] = home[r] /\ call'[r]["submit"] = call[r]["submit"]
      BY <1>0, <1>3, <2>2, OtherBeginsQuietly, OtherBegins DEF Submit
    <3> QED
      BY <1>2, <1>3, <2>2, <3>1 DEF Submit, SubmitAt, TypeOK
  <2> QED
    BY <2>1, <2>2
<1>4. CASE Created(q)
  <2>1. CASE q = r
    <3>1. Begin(r, "submit", "prompt") /\ submitter'[r] = "prompting"
          /\ call[r]["submit"] = "answered"
      BY <1>4, <2>1 DEF Created, SubmitAt, TypeOK
    <3>2. OneAtATime(r) /\ \A s \in Sockets : ~Underway(r, s)
      BY <3>1 DEF Rpc
    <3> QED
      BY <1>0, <3>1, <3>2, BeginAlone DEF Rpc
  <2>2. CASE q # r
    <3>1. Quiet(r) /\ home'[r] = home[r] /\ call'[r]["submit"] = call[r]["submit"]
      BY <1>0, <1>4, <2>2, OtherBeginsQuietly, OtherBegins DEF Created
    <3> QED
      BY <1>2, <1>4, <2>2, <3>1 DEF Created, SubmitAt, TypeOK
  <2> QED
    BY <2>1, <2>2
<1>5. CASE SubmitRaises(q) \/ SubmitRefused(q) \/ Accepted(q)
  <2>1. UNCHANGED <<asked, home, stale>> /\ Done(q, "submit")
    BY <1>5 DEF SubmitRaises, SubmitRefused, Accepted, Prompted
  <2>2. CASE q = r
    BY <1>1, <1>5, <2>1, <2>2 DEF SubmitRaises, SubmitRefused, Accepted, Prompted, SubmitAt, Done, TypeOK
  <2>3. CASE q # r
    <3>1. Quiet(r)
      BY <1>0, <2>1 DEF Quiet, Requested, ReplyAt
    <3>2. call'[r]["submit"] = call[r]["submit"] /\ submitter'[r] = submitter[r]
      BY <1>5, <2>1, <2>3 DEF SubmitRaises, SubmitRefused, Accepted, Prompted, SubmitAt, Done, TypeOK
    <3> QED
      BY <1>2, <2>1, <2>3, <3>1, <3>2
  <2> QED
    BY <2>2, <2>3
<1> QED
  BY <1>3, <1>4, <1>5 DEF Submits

\* wait, events, cancel and quiesce send nothing for submit.
LEMMA ClientRpc == \A r, q \in Runs : TypeOK /\ Rpc(r) /\ Client(q) => Rpc(r)'
<1> SUFFICES ASSUME NEW r \in Runs, NEW q \in Runs, TypeOK, Rpc(r), Client(q), ~Submits(q)
             PROVE  Rpc(r)'
  BY SubmitRpc
<1> /\ {"submit", "wait", "stream", "cancel"} \subseteq Callers
    /\ {"interrupt", "subscribe"} \subseteq Methods
  BY DEF Callers, Methods
<1>1. UNCHANGED <<wire, receiving, deaf, stale, submitter>>
  BY DEF Client, Subscribes, SubscribeCalls, Subscribed, SubscribeRaises, ClientKept, WaitStarts,
         WaitAnswers, WaitTimesOut, StreamStarts, StreamReads, StreamTimesOut, CancelStarts,
         CancelEnds, CancelKept, Quiesce, adapter, registry, world
<1>2. ASSUME Quiet(r), home'[r] = home[r], call'[r]["submit"] = call[r]["submit"]
      PROVE  Rpc(r)'
  BY <1>1, <1>2, QuietRpc
<1>3. ASSUME UNCHANGED <<asked, home>>, call'[r]["submit"] = call[r]["submit"]
      PROVE  Rpc(r)'
  BY <1>1, <1>2, <1>3 DEF Quiet, Requested, ReplyAt
<1>4. ASSUME NEW c \in {"wait", "stream", "cancel"}, NEW method \in {"interrupt", "subscribe"},
             Begin(q, c, method)
      PROVE  Rpc(r)'
  BY <1>1, <1>2, <1>4, OtherBegins, OtherBeginsQuietly
<1>5. ASSUME NEW c \in {"wait", "stream", "cancel"}, Done(q, c), UNCHANGED <<asked, home>>
      PROVE  Rpc(r)'
  BY <1>3, <1>5 DEF Done, TypeOK
<1>6. CASE Subscribes(q)
  <2>1. PICK who \in {"wait", "stream"} :
          SubscribeCalls(q, who) \/ Subscribed(q, who) \/ SubscribeRaises(q, who)
    BY <1>6 DEF Subscribes
  <2> QED
    BY <1>3, <1>4, <1>5, <2>1 DEF SubscribeCalls, Subscribed, SubscribeRaises
<1>7. CASE CancelStarts(q) \/ CancelEnds(q)
  BY <1>4, <1>5, <1>7 DEF CancelStarts, CancelEnds
<1>8. CASE \/ WaitStarts(q) \/ WaitAnswers(q) \/ WaitTimesOut(q)
           \/ StreamStarts(q) \/ StreamReads(q) \/ StreamTimesOut(q) \/ Quiesce(q)
  BY <1>3, <1>8 DEF WaitStarts, WaitAnswers, WaitTimesOut, StreamStarts, StreamReads,
                    StreamTimesOut, Quiesce, RpcKept, world
<1> QED
  BY <1>6, <1>7, <1>8 DEF Client

\* A caller that opens a connection sends its own request there.
LEMMA ConnectionRpc ==
  \A r \in Runs :
    TypeOK /\ Phases(r) /\ Rpc(r)
    /\ ((\E q \in Runs, c \in Callers : Connects(q, c) \/ CallExpires(q, c)) \/ Reconnects)
    => Rpc(r)'
<1> SUFFICES ASSUME NEW r \in Runs, TypeOK, Phases(r), Rpc(r),
                    (\E q \in Runs, c \in Callers : Connects(q, c) \/ CallExpires(q, c)) \/ Reconnects
             PROVE  Rpc(r)'
  OBVIOUS
<1>0. ASSUME Opened PROVE stale'[r] /\ receiving \subseteq receiving'
  BY <1>0 DEF Opened
<1>1. ASSUME NEW q \in Runs, NEW c \in Callers, Connects(q, c) PROVE Rpc(r)'
  <2>1. UNCHANGED <<wire, deaf, submitter>> /\ call[q][c] = "connecting"
    BY <1>1 DEF Connects, callers
  <2>2. CASE /\ sockets < MaxSockets /\ Opened
             /\ SendOn(sockets', q, c, MethodOf(q, c))
    <3>1. sockets' \in Sockets /\ MethodOf(q, c) \in Methods
      BY <2>2, HermesAssumption, MethodOfTyped DEF Opened, TypeOK, Sockets
    <3>2. call'[q][c] = "pending"
      BY <2>2 DEF SendOn, TypeOK
    <3>3. CASE q = r /\ c = "submit"
      <4>1. \A s \in Sockets : ~Underway(r, s)
        BY <2>1, <3>3 DEF Rpc
      <4>2. submitter[r] \in {"creating", "prompting"}
        BY <2>1, <3>3 DEF Phases
      <4>3. submitter[r] = "prompting" => MethodOf(q, c) = "prompt"
        BY <3>3 DEF MethodOf
      <4> QED
        BY <2>1, <2>2, <3>1, <3>2, <3>3, <4>1, <4>2, <4>3, SentAlone DEF Rpc
    <3>4. CASE q # r \/ c # "submit"
      <4>1. c # "submit" => MethodOf(q, c) # "prompt"
        BY DEF MethodOf, Callers
      <4>2. Quiet(r) /\ home'[r] = home[r]
        BY <2>1, <2>2, <3>1, <3>4, <4>1, OtherQuiet
      <4>3. call'[r]["submit"] = call[r]["submit"]
        BY <2>2, <3>4 DEF SendOn, TypeOK, Callers
      <4> QED
        BY <1>0, <2>1, <2>2, <4>2, <4>3, QuietRpc
    <3> QED
      BY <3>3, <3>4
  <2>3. CASE /\ call' = [call EXCEPT ![q][c] = "failed"]
             /\ UNCHANGED <<ws, connected, receiving, stale, sockets, open, asked, home>>
    <3>1. Quiet(r)
      BY <2>1, <2>3 DEF Quiet, Requested, ReplyAt
    <3>2. call'[r]["submit"] \in {call[r]["submit"], "failed"}
      BY <2>3 DEF TypeOK, Callers
    <3> QED
      BY <2>1, <2>3, <3>1, <3>2, QuietRpc
  <2> QED
    BY <1>1, <2>2, <2>3 DEF Connects
<1>2. ASSUME NEW q \in Runs, NEW c \in Callers, CallExpires(q, c) PROVE Rpc(r)'
  <2>1. UNCHANGED <<wire, asked, home, stale, receiving, deaf, submitter>>
    BY <1>2 DEF CallExpires, adapter, registry, callers, world
  <2>2. Quiet(r)
    BY <2>1 DEF Quiet, Requested, ReplyAt
  <2>3. call'[r]["submit"] \in {call[r]["submit"], "expired"}
    BY <1>2 DEF CallExpires, TypeOK, Callers
  <2> QED
    BY <2>1, <2>2, <2>3, QuietRpc
<1>3. CASE Reconnects
  <2>1. UNCHANGED <<wire, asked, home, deaf, submitter, call>>
    BY <1>3 DEF Reconnects, ReconnectStarts, Reconnected, ReconnectFails, ReconnectKept, callers
  <2>2. Quiet(r)
    BY <2>1 DEF Quiet, Requested, ReplyAt
  <2>3. stale'[r] \/ UNCHANGED <<stale, receiving>>
    BY <1>0, <1>3 DEF Reconnects, ReconnectStarts, Reconnected, ReconnectFails
  <2> QED
    BY <2>1, <2>2, <2>3, QuietRpc
<1> QED
  BY <1>1, <1>2, <1>3

\* Reading a socket moves its messages up, and takes the first.
LEMMA ReadMoves ==
  ASSUME NEW s \in Sockets, TypeOK, Receives(s), NEW t \in Sockets, NEW n \in DOMAIN wire'[t]
  PROVE  \E k \in DOMAIN wire[t] :
           k = (IF t = s THEN n + 1 ELSE n) /\ wire'[t][n] = wire[t][k] /\ (t = s => k # 1)
<1>1. wire[s] \in Seq(Messages) /\ wire[s] # <<>>
  BY DEF Receives, TypeOK
<1>2. CASE t = s
  <2>1. wire'[t] = Tail(wire[s])
    BY <1>2 DEF Receives, TypeOK
  <2> QED
    BY <1>1, <1>2, <2>1
<1>3. CASE t # s
  BY <1>3 DEF Receives, TypeOK
<1> QED
  BY <1>2, <1>3

\* So the submit of r has no more on the way than before, and nothing at all
\* once its answer was read.
LEMMA ReadRpc ==
  ASSUME NEW s \in Sockets, TypeOK, Receives(s), NEW r \in Runs, OneAtATime(r)
  PROVE  /\ OneAtATime(r)'
         /\ \A t \in Sockets : Underway(r, t)' => Underway(r, t)
         /\ ReplyAt(r, s, 1) => \A t \in Sockets : ~Underway(r, t)'
<1>0. UNCHANGED asked
  BY DEF Receives
<1>1. \A t \in Sockets, method \in Methods : Requested(r, t, method)' <=> Requested(r, t, method)
  BY <1>0 DEF Requested
<1>2. ASSUME NEW t \in Sockets, NEW n \in DOMAIN wire'[t], ReplyAt(r, t, n)'
      PROVE  \E k \in DOMAIN wire[t] :
               k = (IF t = s THEN n + 1 ELSE n) /\ ReplyAt(r, t, k) /\ (t = s => k # 1)
  BY <1>2, ReadMoves DEF ReplyAt
<1>3. \A t \in Sockets : Underway(r, t)' => Underway(r, t)
  BY <1>1, <1>2 DEF Underway
<1>4. OneAtATime(r)'
  <2>1. \A t, u \in Sockets, method, other \in Methods :
          Requested(r, t, method)' /\ Requested(r, u, other)' => t = u /\ method = other
    BY <1>1 DEF OneAtATime
  <2>2. \A t, u \in Sockets, method \in Methods :
          Requested(r, t, method)' => \A n \in DOMAIN wire'[u] : ~ReplyAt(r, u, n)'
    BY <1>1, <1>2 DEF OneAtATime
  <2>3. ASSUME NEW t \in Sockets, NEW u \in Sockets, NEW n \in DOMAIN wire'[t],
               NEW k \in DOMAIN wire'[u], ReplyAt(r, t, n)', ReplyAt(r, u, k)'
        PROVE  t = u /\ n = k
    <3>1. wire'[t] \in Seq(Messages) /\ wire'[u] \in Seq(Messages)
      BY DEF Receives, TypeOK
    <3>2. n \in Nat /\ k \in Nat
      BY <3>1
    <3>3. PICK m \in DOMAIN wire[t] : m = (IF t = s THEN n + 1 ELSE n) /\ ReplyAt(r, t, m)
      BY <1>2, <2>3
    <3>4. PICK l \in DOMAIN wire[u] : l = (IF u = s THEN k + 1 ELSE k) /\ ReplyAt(r, u, l)
      BY <1>2, <2>3
    <3>5. t = u /\ m = l
      BY <3>3, <3>4 DEF OneAtATime
    <3> QED
      BY <3>2, <3>3, <3>4, <3>5
  <2> QED
    BY <2>1, <2>2, <2>3 DEF OneAtATime
<1>5. ASSUME ReplyAt(r, s, 1), NEW t \in Sockets PROVE ~Underway(r, t)'
  <2>1. \A method \in Methods : ~Requested(r, t, method)
    BY <1>5 DEF OneAtATime, ReplyAt
  <2>2. ASSUME NEW n \in DOMAIN wire'[t] PROVE ~ReplyAt(r, t, n)'
    <3> SUFFICES ASSUME ReplyAt(r, t, n)' PROVE FALSE
      OBVIOUS
    <3>1. PICK k \in DOMAIN wire[t] : ReplyAt(r, t, k) /\ (t = s => k # 1)
      BY <1>2
    <3>2. s = t /\ 1 = k
      BY <1>5, <3>1 DEF OneAtATime, ReplyAt
    <3> QED
      BY <3>1, <3>2
  <2> QED
    BY <1>1, <2>1, <2>2 DEF Underway
<1> QED
  BY <1>3, <1>4, <1>5

\* The receive loop answers a prompt on the socket it left by.
LEMMA ReceiveRpc ==
  \A r \in Runs : TypeOK /\ Rpc(r) /\ (\E s \in Sockets : ReceiveLoop(s)) => Rpc(r)'
<1> SUFFICES ASSUME NEW r \in Runs, NEW s \in Sockets, TypeOK, Rpc(r), ReceiveLoop(s)
             PROVE  Rpc(r)'
  OBVIOUS
<1>1. ASSUME Receives(s), receiving \cup deaf \subseteq receiving' \cup deaf',
             call'[r]["submit"] # call[r]["submit"] =>
               /\ ReplyAt(r, s, 1) /\ s \in receiving
               /\ call'[r]["submit"] \in {"answered", "failed"}
      PROVE  Rpc(r)'
  <2>1. UNCHANGED <<submitter, home, stale>>
    BY <1>1 DEF Receives, callers
  <2>2. /\ OneAtATime(r)'
        /\ \A t \in Sockets : Underway(r, t)' => Underway(r, t)
        /\ ReplyAt(r, s, 1) => \A t \in Sockets : ~Underway(r, t)'
    BY <1>1, ReadRpc DEF Rpc
  <2>3. ReplyAt(r, s, 1) => Underway(r, s)
    BY DEF Underway, ReplyAt
  <2>4. CASE call'[r]["submit"] = call[r]["submit"]
    BY <1>1, <2>1, <2>2, <2>4 DEF Rpc
  <2>5. CASE call'[r]["submit"] # call[r]["submit"]
    <3>1. submitter[r] = "prompting" => home[r] = s
      BY <1>1, <2>3, <2>5 DEF Rpc
    <3> QED
      BY <1>1, <2>1, <2>2, <2>5, <3>1 DEF Rpc
  <2> QED
    BY <2>4, <2>5
<1>2. CASE ReceiveAnswer(s)
  <2>1. /\ Receives(s) /\ s \in receiving
        /\ receiving \cup deaf \subseteq receiving' \cup deaf'
    BY <1>2 DEF ReceiveAnswer, Receives, Deafens
  <2> QED
    BY <1>1, <1>2, <2>1, AnswerEffect
<1>3. CASE ReceiveEvent(s) \/ ReceiveGarbage(s)
  BY <1>1, <1>3 DEF ReceiveEvent, ReceiveGarbage, Deafens
<1>4. CASE NoticeClosed(s)
  <2>1. UNCHANGED <<wire, asked, home, submitter>> /\ stale'[r]
    BY <1>4 DEF NoticeClosed, callers, world
  <2>2. Quiet(r)
    BY <2>1 DEF Quiet, Requested, ReplyAt
  <2>3. call'[r]["submit"] \in {call[r]["submit"], "failed"}
    BY <1>4 DEF NoticeClosed, FailPending, Callers
  <2> QED
    BY <2>1, <2>2, <2>3, QuietRpc
<1> QED
  BY <1>2, <1>3, <1>4 DEF ReceiveLoop

\* What the gateway says comes after what is unread.
LEMMA SaysLast ==
  ASSUME NEW s \in Sockets, TypeOK, NEW m, Says(s, m), NEW t \in Sockets, NEW n \in DOMAIN wire'[t]
  PROVE  \/ n \in DOMAIN wire[t] /\ wire'[t][n] = wire[t][n]
         \/ t = s /\ n = Len(wire[s]) + 1 /\ wire'[t][n] = m
<1>1. wire[s] \in Seq(Messages)
  BY DEF TypeOK
<1>2. wire'[t] = IF t = s THEN Append(wire[s], m) ELSE wire[t]
  BY DEF Says, TypeOK
<1> QED
  BY <1>1, <1>2

\* A message that is no answer to submit is none of its business.
LEMMA SaysQuiet ==
  ASSUME NEW s \in Sockets, TypeOK, NEW m, Says(s, m), NEW r \in Runs,
         ~(m.kind = "answer" /\ m.run = r /\ m.caller = "submit"),
         \A t \in Sockets, method \in Methods : Requested(r, t, method)' => Requested(r, t, method)
  PROVE  Quiet(r)
<1>1. ASSUME NEW t \in Sockets, NEW n \in DOMAIN wire'[t], ReplyAt(r, t, n)'
      PROVE  ReplyAt(r, t, n)
  BY <1>1, SaysLast DEF ReplyAt
<1> QED
  BY <1>1 DEF Quiet

\* The gateway answers each request once.
LEMMA GatewayRpc ==
  \A r \in Runs : TypeOK /\ Rpc(r) /\ (\E s \in Sockets : Gateway(s)) => Rpc(r)'
<1> SUFFICES ASSUME NEW r \in Runs, NEW s \in Sockets, TypeOK, Rpc(r), Gateway(s) PROVE Rpc(r)'
  OBVIOUS
<1>1. UNCHANGED <<submitter, home, stale, receiving, deaf, call>>
  BY DEF Gateway, adapter, registry, callers
<1>2. CASE Quiet(r)
  BY <1>1, <1>2, QuietRpc
<1>3. CASE StartsRun(s) \/ Drops(s)
  <2>1. Quiet(r)
    BY <1>3 DEF StartsRun, Drops, Quiet, Requested, ReplyAt, TypeOK
  <2> QED
    BY <1>2, <2>1
<1>4. CASE EndsRun(s) \/ Speaks(s)
  <2>1. UNCHANGED asked
    BY <1>4 DEF EndsRun, Speaks
  <2>2. \E m : Says(s, m) /\ m.kind # "answer"
    <3>1. CASE EndsRun(s)
      <4>1. PICK q \in Runs, event \in {"completed", "error"}, via \in {"session", "native"} :
              Says(s, [kind |-> "event", run |-> q, event |-> event, via |-> via])
        BY <3>1 DEF EndsRun
      <4>2. [kind |-> "event", run |-> q, event |-> event, via |-> via].kind # "answer"
        OBVIOUS
      <4> QED
        BY <4>1, <4>2
    <3>2. CASE Speaks(s)
      <4>1. [kind |-> "garbage"].kind # "answer"
        OBVIOUS
      <4>2. \A q \in Runs :
              [kind |-> "event", run |-> q, event |-> "note", via |-> "session"].kind # "answer"
        OBVIOUS
      <4> QED
        BY <3>2, <4>1, <4>2 DEF Speaks
    <3> QED
      BY <1>4, <3>1, <3>2
  <2>3. Quiet(r)
    BY <2>1, <2>2, SaysQuiet DEF Requested
  <2> QED
    BY <1>2, <2>3
<1>5. CASE Answers(s)
  <2>1. PICK request \in asked[s], ok \in BOOLEAN :
          /\ Says(s, [kind |-> "answer", run |-> request[1], caller |-> request[2], ok |-> ok])
          /\ asked' = [asked EXCEPT ![s] = @ \ {request}]
    BY <1>5 DEF Answers
  <2> DEFINE m == [kind |-> "answer", run |-> request[1], caller |-> request[2], ok |-> ok]
  <2>2. request \in Runs \X Callers \X Methods
    BY DEF TypeOK
  <2>3. \A t \in Sockets, method \in Methods :
          Requested(r, t, method)' => Requested(r, t, method) /\ ~(t = s /\ request = <<r, "submit", method>>)
    BY <2>1 DEF Requested, TypeOK
  <2>4. CASE ~(request[1] = r /\ request[2] = "submit")
    <3>1. ~(m.kind = "answer" /\ m.run = r /\ m.caller = "submit")
      BY <2>4
    <3>2. Quiet(r)
      BY <2>1, <2>3, <3>1, SaysQuiet
    <3> QED
      BY <1>2, <3>2
  <2>5. CASE request[1] = r /\ request[2] = "submit"
    <3>1. PICK method \in Methods : request = <<r, "submit", method>>
      BY <2>2, <2>5
    <3>2. Requested(r, s, method)
      BY <3>1 DEF Requested
    <3>3. \A t \in Sockets, other \in Methods : ~Requested(r, t, other)'
      BY <2>3, <3>1, <3>2 DEF Rpc, OneAtATime
    <3>4. ASSUME NEW t \in Sockets, NEW n \in DOMAIN wire'[t], ReplyAt(r, t, n)'
          PROVE  t = s /\ n = Len(wire[s]) + 1
      <4>1. ~ReplyAt(r, t, n)
        BY <3>2 DEF Rpc, OneAtATime, ReplyAt
      <4> QED
        BY <2>1, <3>4, <4>1, SaysLast DEF ReplyAt
    <3>5. OneAtATime(r)'
      BY <3>3, <3>4 DEF OneAtATime
    <3>6. \A t \in Sockets : Underway(r, t)' => t = s
      BY <3>3, <3>4 DEF Underway
    <3>7. Underway(r, s)
      BY <3>2 DEF Underway
    <3> QED
      BY <1>1, <3>5, <3>6, <3>7 DEF Rpc
  <2> QED
    BY <2>4, <2>5
<1> QED
  BY <1>3, <1>4, <1>5 DEF Gateway

\* Every step keeps the requests of submit apart.
LEMMA RpcKeeps ==
  TypeOK /\ (\A r \in Runs : Phases(r) /\ Rpc(r)) /\ [Next]_vars => \A r \in Runs : Rpc(r)'
<1> SUFFICES ASSUME TypeOK, \A r \in Runs : Phases(r) /\ Rpc(r), [Next]_vars, NEW r \in Runs
             PROVE  Rpc(r)'
  OBVIOUS
<1>1. CASE Disconnect
  <2>1. UNCHANGED <<wire, asked, home, submitter>> /\ stale'[r]
    BY <1>1 DEF Disconnect, callers
  <2>2. Quiet(r)
    BY <2>1 DEF Quiet, Requested, ReplyAt
  <2>3. call'[r]["submit"] \in {call[r]["submit"], "failed"}
    BY <1>1 DEF Disconnect, FailPending, Callers
  <2> QED
    BY <2>1, <2>2, <2>3, QuietRpc
<1>2. CASE UNCHANGED vars
  <2>1. UNCHANGED <<wire, asked, home, submitter, stale, call, receiving, deaf>>
    BY <1>2 DEF vars, adapter, registry, callers, world
  <2>2. Quiet(r)
    BY <2>1 DEF Quiet, Requested, ReplyAt
  <2> QED
    BY <2>1, <2>2, QuietRpc
<1> QED
  BY <1>1, <1>2, ClientRpc, ConnectionRpc, ReceiveRpc, GatewayRpc DEF Next, Loop

-----------------------------------------------------------------------------
(* The socket of a run. *)

\* Only a prompt ties a run to a socket.
LEMMA BeginHome ==
  ASSUME NEW r \in Runs, NEW q \in Runs, NEW c, NEW method, TypeOK, Begin(q, c, method),
         q # r \/ method # "prompt"
  PROVE  home'[r] = home[r]
BY DEF Begin, SendOn, SendFails, TypeOK

\* A run that is out keeps its socket.
LEMMA HomeStays ==
  ASSUME NEW r \in Runs, TypeOK, Phases(r), [Next]_vars, submitter[r] = "handed"
  PROVE  home'[r] = home[r]
<1>1. ASSUME NEW q \in Runs, Client(q) PROVE home'[r] = home[r]
  <2>1. CASE Submits(q)
    <3>1. CASE Submit(q) \/ Created(q)
      <4>1. q # r
        BY <3>1 DEF Submit, Created
      <4> QED
        BY <3>1, <4>1, BeginHome DEF Submit, Created
    <3> QED
      BY <2>1, <3>1 DEF Submits, SubmitRaises, SubmitRefused, Accepted, Prompted
  <2>2. CASE Subscribes(q)
    <3>1. PICK who \in {"wait", "stream"} :
            SubscribeCalls(q, who) \/ Subscribed(q, who) \/ SubscribeRaises(q, who)
      BY <2>2 DEF Subscribes
    <3> QED
      BY <3>1, BeginHome DEF SubscribeCalls, Subscribed, SubscribeRaises
  <2>3. CASE CancelStarts(q) \/ CancelEnds(q)
    BY <2>3, BeginHome DEF CancelStarts, CancelEnds
  <2> QED
    BY <1>1, <2>1, <2>2, <2>3
    DEF Client, WaitStarts, WaitAnswers, WaitTimesOut, StreamStarts, StreamReads, StreamTimesOut,
        Quiesce, RpcKept, world
<1>2. ASSUME NEW q \in Runs, NEW c \in Callers, Connects(q, c) \/ CallExpires(q, c)
      PROVE  home'[r] = home[r]
  <2>1. CASE Connects(q, c)
    <3>1. q # r \/ MethodOf(q, c) # "prompt"
      <4>1. call[q][c] = "connecting"
        BY <2>1 DEF Connects
      <4>2. q # r \/ c # "submit"
        BY <4>1 DEF Phases
      <4> QED
        BY <4>2 DEF MethodOf, Callers
    <3> QED
      BY <2>1, <3>1 DEF Connects, SendOn, TypeOK
  <2> QED
    BY <1>2, <2>1 DEF CallExpires, world
<1>3. CASE \/ Reconnects \/ Disconnect \/ UNCHANGED vars
           \/ \E s \in Sockets : ReceiveLoop(s) \/ Gateway(s)
  BY <1>3 DEF Reconnects, ReconnectStarts, Reconnected, ReconnectFails, ReconnectKept, Disconnect,
              ReceiveLoop, ReceiveAnswer, ReceiveEvent, ReceiveGarbage, NoticeClosed, Receives,
              Gateway, vars, world
<1> QED
  BY <1>1, <1>2, <1>3 DEF Next, Loop

\* Whoever stops listening fails the runs that are out; a loop that dies of an
\* exception is remembered.
LEMMA StopsListening ==
  TypeOK /\ [Next]_vars => FailActive \/ receiving \cup deaf \subseteq receiving' \cup deaf'
<1> SUFFICES ASSUME TypeOK, [Next]_vars, ~FailActive
             PROVE  receiving \cup deaf \subseteq receiving' \cup deaf'
  OBVIOUS
<1>1. ASSUME NEW q \in Runs, Client(q) PROVE UNCHANGED <<receiving, deaf>>
  BY <1>1 DEF Client, Submits, Submit, Created, SubmitRaises, SubmitRefused, Accepted, Prompted,
     SubmitKept, Subscribes, SubscribeCalls, Subscribed, SubscribeRaises, ClientKept, WaitStarts,
     WaitAnswers, WaitTimesOut, StreamStarts, StreamReads, StreamTimesOut, CancelStarts, CancelEnds,
     CancelKept, Quiesce, adapter
<1>2. ASSUME NEW q \in Runs, NEW c \in Callers, Connects(q, c) \/ CallExpires(q, c)
      PROVE  receiving \subseteq receiving' /\ deaf' = deaf
  BY <1>2 DEF Connects, CallExpires, Opened, adapter
<1>3. ASSUME Reconnects \/ UNCHANGED vars \/ \E s \in Sockets : Gateway(s)
      PROVE  receiving \subseteq receiving' /\ deaf' = deaf
  BY <1>3 DEF Reconnects, ReconnectStarts, Reconnected, ReconnectFails, ReconnectKept, Opened,
              Gateway, vars, adapter
<1>4. ASSUME NEW s \in Sockets, ReceiveLoop(s)
      PROVE  receiving \cup deaf \subseteq receiving' \cup deaf'
  BY <1>4 DEF ReceiveLoop, ReceiveAnswer, ReceiveEvent, ReceiveGarbage, NoticeClosed, Deafens
<1>5. ~Disconnect
  BY DEF Disconnect
<1> QED
  BY <1>1, <1>2, <1>3, <1>4, <1>5 DEF Next, Loop

\* A run is handed out deaf by no step, and no step leaves it deaf.
LEMMA NoSilentRunKept ==
  TypeOK /\ (\A r \in Runs : Phases(r) /\ Rpc(r)) /\ NoSilentRun /\ [Next]_vars => NoSilentRun'
<1> SUFFICES ASSUME TypeOK, \A r \in Runs : Phases(r) /\ Rpc(r), NoSilentRun, [Next]_vars,
                    NEW r \in Runs, submitter'[r] = "handed", ResultOf(r)' = "none"
             PROVE  home'[r] \in receiving' \cup deaf'
  BY DEF NoSilentRun
<1>1. CASE submitter[r] = "handed"
  <2>1. ResultOf(r) = "none" /\ id'[r] = id[r]
    BY <1>1, HandedStays DEF HandedKept, ResultOf
  <2>2. home'[r] = home[r] /\ home[r] \in receiving \cup deaf
    BY <1>1, <2>1, HomeStays DEF NoSilentRun
  <2>3. ~FailActive
    <3>1. id[r] \in queued[r] /\ id[r] \in Ids
      BY <1>1 DEF Phases, TypeOK
    <3>2. id[r] \in Active(r) /\ HandleKnown(r, id[r])
      BY <1>1, <2>1, <3>1 DEF Active, HandleKnown, ResultOf
    <3> QED
      BY <2>1, <3>1, <3>2 DEF FailActive, ResultOf
  <2> QED
    BY <2>2, <2>3, StopsListening
<1>2. CASE submitter[r] # "handed"
  <2> DEFINE i == IF r \in clients.native THEN "native" ELSE "tui"
             old == IF LostDuringSubmit(r) THEN Recorded(result[r][i], "lost") ELSE result[r][i]
  <2>1. Accepted(r)
    BY <1>2, HandedByAccepted
  <2>2. UNCHANGED <<home, receiving, deaf>>
    BY <2>1 DEF Accepted, Prompted, SubmitKept, adapter
  <2>3. result[r][i] \in {"none"} \cup Statuses /\ Adopted(r) \in Seq(Events)
    BY DEF TypeOK, Ids, Adopted
  <2>4. ResultOf(r)' = RecordedAll(old, Adopted(r))
    BY <2>1 DEF Accepted, Prompted, TypeOK, ResultOf, Ids
  <2>5. "lost" \in Terminal
    BY DEF Terminal
  <2>6. old \in {"none"} \cup Statuses /\ (LostDuringSubmit(r) => old # "none")
    BY <2>3, <2>5, RecordedFacts
  <2>7. ~LostDuringSubmit(r)
    BY <2>3, <2>4, <2>6, RecordedAllFacts
  <2>8. submitter[r] = "prompting" /\ call[r]["submit"] = "answered" /\ ~stale[r]
    BY <2>1, <2>7 DEF Accepted, Prompted, LostDuringSubmit
  <2> QED
    BY <2>2, <2>8 DEF Rpc
<1> QED
  BY <1>1, <1>2

-----------------------------------------------------------------------------
(* Suspended callers. *)

\* What a run's suspended callers have under way.
CallsOut(r) ==
  /\ submitter[r] \in {"creating", "prompting"} => call[r]["submit"] # "none"
  /\ canceller[r] = "interrupting" => call[r]["cancel"] # "none"
  /\ \A who \in {"wait", "stream"} : lock[r] = who => call[r][who] # "none"

\* A step that suspends nobody and ends no call forgets nobody.
LEMMA CallsStayOut ==
  ASSUME NEW r \in Runs, CallsOut(r), UNCHANGED <<submitter, canceller, lock>>,
         \A c \in Callers : call'[r][c] = "none" => call[r][c] = "none"
  PROVE  CallsOut(r)'
BY DEF CallsOut, Callers

\* A call that moves on is still a call.
LEMMA OneCallMoves ==
  ASSUME TypeOK, NEW q \in Runs, NEW c \in Callers, NEW state, state # "none",
         call' = [call EXCEPT ![q][c] = state], NEW r \in Runs
  PROVE  /\ \A d \in Callers : call'[r][d] = "none" => call[r][d] = "none"
         /\ call'[q][c] # "none"
BY DEF TypeOK

\* A call that is done is nobody else's.
LEMMA OneCallEnds ==
  ASSUME TypeOK, NEW q \in Runs, NEW c \in Callers, Done(q, c), NEW r \in Runs, NEW d \in Callers,
         q # r \/ c # d
  PROVE  call'[r][d] = call[r][d]
BY DEF Done, TypeOK

\* submit is suspended in a call it has begun.
LEMMA SubmitCallsOut ==
  ASSUME TypeOK, NEW q \in Runs, Submits(q), NEW r \in Runs, CallsOut(r)
  PROVE  CallsOut(r)'
<1> /\ {"submit", "wait", "stream", "cancel"} \subseteq Callers
    /\ {"create", "prompt"} \subseteq Methods
  BY DEF Callers, Methods
<1>1. UNCHANGED <<canceller, lock>>
  BY DEF Submits, Submit, Created, SubmitRaises, SubmitRefused, Accepted, Prompted, SubmitKept
<1>2. CASE Submit(q) \/ Created(q)
  <2>1. PICK method \in Methods : Begin(q, "submit", method)
    BY <1>2 DEF Submit, Created
  <2>2. PICK state \in {"failed", "connecting", "pending"} :
          call' = [call EXCEPT ![q]["submit"] = state]
    BY <2>1, BeginEffect
  <2>3. /\ \A d \in Callers : call'[r][d] = "none" => call[r][d] = "none"
        /\ call'[q]["submit"] # "none"
    BY <2>2, OneCallMoves
  <2>4. q # r => submitter'[r] = submitter[r]
    BY <1>2 DEF Submit, Created, SubmitAt, TypeOK
  <2> QED
    BY <1>1, <2>3, <2>4 DEF CallsOut
<1>3. CASE SubmitRaises(q) \/ SubmitRefused(q) \/ Accepted(q)
  <2>1. Done(q, "submit") /\ \E place \in {"raised", "refused", "handed"} : SubmitAt(q, place)
    BY <1>3 DEF SubmitRaises, SubmitRefused, Accepted, Prompted
  <2>2. \A d \in Callers : q # r \/ d # "submit" => call'[r][d] = call[r][d]
    BY <2>1, OneCallEnds
  <2>3. IF q = r THEN submitter'[r] \notin {"creating", "prompting"} ELSE submitter'[r] = submitter[r]
    BY <2>1 DEF SubmitAt, TypeOK
  <2> QED
    BY <1>1, <2>2, <2>3 DEF CallsOut
<1> QED
  BY <1>2, <1>3 DEF Submits

\* The lock of a subscription is taken with a call, and given back with it.
LEMMA SubscribeCallsOut ==
  ASSUME TypeOK, NEW q \in Runs, Subscribes(q), NEW r \in Runs, CallsOut(r)
  PROVE  CallsOut(r)'
<1> /\ {"submit", "wait", "stream", "cancel"} \subseteq Callers
    /\ "subscribe" \in Methods
  BY DEF Callers, Methods
<1>1. PICK who \in {"wait", "stream"} :
        SubscribeCalls(q, who) \/ Subscribed(q, who) \/ SubscribeRaises(q, who)
  BY DEF Subscribes
<1>2. UNCHANGED <<submitter, canceller>>
  BY <1>1 DEF SubscribeCalls, Subscribed, SubscribeRaises, ClientKept
<1>3. CASE SubscribeCalls(q, who) /\ q \in subscribed
  BY <1>2, <1>3, CallsStayOut DEF SubscribeCalls
<1>4. CASE SubscribeCalls(q, who) /\ q \notin subscribed
  <2>1. Begin(q, who, "subscribe") /\ lock' = [lock EXCEPT ![q] = who]
    BY <1>4 DEF SubscribeCalls
  <2>2. PICK state \in {"failed", "connecting", "pending"} : call' = [call EXCEPT ![q][who] = state]
    BY <2>1, BeginEffect
  <2>3. /\ \A d \in Callers : call'[r][d] = "none" => call[r][d] = "none"
        /\ call'[q][who] # "none"
    BY <2>2, OneCallMoves
  <2>4. lock'[r] = IF q = r THEN who ELSE lock[r]
    BY <2>1 DEF TypeOK
  <2> QED
    BY <1>2, <2>3, <2>4 DEF CallsOut
<1>5. CASE Subscribed(q, who) \/ SubscribeRaises(q, who)
  <2>1. Done(q, who) /\ lock[q] = who /\ lock' = [lock EXCEPT ![q] = "none"]
    BY <1>5 DEF Subscribed, SubscribeRaises
  <2>2. \A d \in Callers : q # r \/ d # who => call'[r][d] = call[r][d]
    BY <2>1, OneCallEnds
  <2>3. lock'[r] = IF q = r THEN "none" ELSE lock[r]
    BY <2>1 DEF TypeOK
  <2> QED
    BY <1>2, <2>2, <2>3 DEF CallsOut
<1> QED
  BY <1>1, <1>3, <1>4, <1>5

\* The other clients: cancel is suspended in a call it has begun.
LEMMA ClientCallsOut ==
  ASSUME TypeOK, NEW q \in Runs, Client(q), NEW r \in Runs, CallsOut(r)
  PROVE  CallsOut(r)'
<1> /\ {"submit", "wait", "stream", "cancel"} \subseteq Callers
    /\ "interrupt" \in Methods
  BY DEF Callers, Methods
<1>1. CASE CancelStarts(q)
  <2>1. /\ Begin(q, "cancel", "interrupt") /\ UNCHANGED <<submitter, lock>>
        /\ canceller' = [canceller EXCEPT ![q] = "interrupting"]
    BY <1>1 DEF CancelStarts, CancelKept, registry
  <2>2. PICK state \in {"failed", "connecting", "pending"} :
          call' = [call EXCEPT ![q]["cancel"] = state]
    BY <2>1, BeginEffect
  <2>3. /\ \A d \in Callers : call'[r][d] = "none" => call[r][d] = "none"
        /\ call'[q]["cancel"] # "none"
    BY <2>2, OneCallMoves
  <2>4. q # r => canceller'[r] = canceller[r]
    BY <2>1 DEF TypeOK
  <2> QED
    BY <2>1, <2>3, <2>4 DEF CallsOut
<1>2. CASE CancelEnds(q)
  <2>1. /\ Done(q, "cancel") /\ UNCHANGED <<submitter, lock>>
        /\ \E place \in {"returned", "raised"} : canceller' = [canceller EXCEPT ![q] = place]
    BY <1>2 DEF CancelEnds, CancelKept, registry
  <2>2. \A d \in Callers : q # r \/ d # "cancel" => call'[r][d] = call[r][d]
    BY <2>1, OneCallEnds
  <2>3. IF q = r THEN canceller'[r] # "interrupting" ELSE canceller'[r] = canceller[r]
    BY <2>1 DEF TypeOK
  <2> QED
    BY <2>1, <2>2, <2>3 DEF CallsOut
<1>3. CASE \/ WaitStarts(q) \/ WaitAnswers(q) \/ WaitTimesOut(q)
           \/ StreamStarts(q) \/ StreamReads(q) \/ StreamTimesOut(q) \/ Quiesce(q)
  <2>1. UNCHANGED <<submitter, canceller, lock, call>>
    BY <1>3 DEF WaitStarts, WaitAnswers, WaitTimesOut, StreamStarts, StreamReads, StreamTimesOut,
                Quiesce, ClientKept, RpcKept, registry
  <2> QED
    BY <2>1, CallsStayOut
<1> QED
  BY <1>1, <1>2, <1>3, SubmitCallsOut, SubscribeCallsOut DEF Client

\* Connections, timers, receive loops and the gateway end no call: they answer,
\* fail or expire it.
LEMMA OthersCallsOut ==
  ASSUME TypeOK, NEW r \in Runs, CallsOut(r), [Next]_vars, \A q \in Runs : ~Client(q)
  PROVE  CallsOut(r)'
<1>1. UNCHANGED <<submitter, canceller, lock>>
  BY DEF Next, Loop, Connects, CallExpires, Reconnects, ReconnectStarts, Reconnected,
         ReconnectFails, ReconnectKept, Disconnect, Gateway, ReceiveLoop, ReceiveAnswer,
         ReceiveEvent, ReceiveGarbage, NoticeClosed, Receives, callers, registry, vars
<1>2. CASE UNCHANGED call
  BY <1>1, <1>2, CallsStayOut
<1>3. CASE FailPending
  <2>1. \A c \in Callers : call'[r][c] = "none" => call[r][c] = "none"
    BY <1>3 DEF FailPending
  <2> QED
    BY <1>1, <2>1, CallsStayOut
<1>4. ASSUME NEW q \in Runs, NEW c \in Callers, NEW state \in {"pending", "failed", "expired", "answered"},
             call' = [call EXCEPT ![q][c] = state]
      PROVE  CallsOut(r)'
  <2>1. \A d \in Callers : call'[r][d] = "none" => call[r][d] = "none"
    BY <1>4, OneCallMoves
  <2> QED
    BY <1>1, <2>1, CallsStayOut
<1>5. ASSUME NEW q \in Runs, NEW c \in Callers, Connects(q, c) \/ CallExpires(q, c)
      PROVE  CallsOut(r)'
  <2>1. PICK state \in {"pending", "failed", "expired", "answered"} :
          call' = [call EXCEPT ![q][c] = state]
    BY <1>5 DEF Connects, CallExpires, SendOn
  <2> QED
    BY <1>4, <2>1
<1>6. ASSUME NEW s \in Sockets, ReceiveLoop(s) PROVE CallsOut(r)'
  <2>1. CASE ReceiveAnswer(s)
    <3> DEFINE m == Head(wire[s])
    <3>1. m \in Messages /\ m.kind = "answer"
      BY <2>1, HeadTyped DEF ReceiveAnswer, Receives
    <3>2. m.run \in Runs /\ m.caller \in Callers
      BY <3>1 DEF Messages
    <3>3. \/ UNCHANGED call
          \/ \E state \in {"answered", "failed"} : call' = [call EXCEPT ![m.run][m.caller] = state]
      BY <2>1 DEF ReceiveAnswer
    <3> HIDE DEF m
    <3> QED
      BY <1>2, <1>4, <3>2, <3>3
  <2>2. CASE ~ReceiveAnswer(s)
    <3>1. UNCHANGED call \/ FailPending
      BY <1>6, <2>2 DEF ReceiveLoop, ReceiveEvent, ReceiveGarbage, NoticeClosed
    <3> QED
      BY <1>2, <1>3, <3>1
  <2> QED
    BY <2>1, <2>2
<1>7. CASE Reconnects \/ Disconnect \/ (\E s \in Sockets : Gateway(s)) \/ UNCHANGED vars
  BY <1>2, <1>3, <1>7 DEF Reconnects, ReconnectStarts, Reconnected, ReconnectFails, ReconnectKept,
                          Disconnect, Gateway, vars
<1> QED
  BY <1>5, <1>6, <1>7 DEF Next, Loop

\* Every step keeps them out.
LEMMA NobodyForgottenKept ==
  ASSUME TypeOK, \A r \in Runs : Phases(r), NobodyForgotten, [Next]_vars
  PROVE  NobodyForgotten'
<1> SUFFICES ASSUME NEW r \in Runs
             PROVE  CallsOut(r)' /\ \A who \in {"wait", "stream"} :
                                     lock'[r] = who => Place(r, who)' = "subscribing"
  BY DEF NobodyForgotten, CallsOut
<1>1. CallsOut(r)
  BY DEF NobodyForgotten, CallsOut
<1>2. Phases(r)'
  BY PhasesKept
<1>3. \A who \in {"wait", "stream"} : lock'[r] = who => Place(r, who)' = "subscribing"
  BY <1>2 DEF Phases, Place
<1>4. CallsOut(r)'
  BY <1>1, ClientCallsOut, OthersCallsOut
<1> QED
  BY <1>3, <1>4

-----------------------------------------------------------------------------
(* The invariant. *)

\* It holds before the first submit.
LEMMA InvInit == Init => Inv
<1> SUFFICES ASSUME Init PROVE Inv
  OBVIOUS
<1>1. TypeOK
  BY TypeInit
<1>2. ASSUME NEW r \in Runs PROVE Phases(r) /\ HeardIsQueued(r) /\ Rpc(r)
  <2>1. Phases(r) /\ HeardIsQueued(r)
    <3>1. /\ submitter[r] = "idle" /\ call[r]["submit"] = "none" /\ id[r] = "tui"
          /\ lock[r] = "none" /\ r \notin quiesced
          /\ waiter[r] = "idle" /\ stream[r] = "idle" /\ heard[r] = FALSE
      BY DEF Init, Callers
    <3> QED
      BY <3>1 DEF Phases, HeardIsQueued
  <2>2. \A s \in Sockets : asked[s] = {} /\ DOMAIN wire[s] = {}
    BY DEF Init
  <2>3. \A s \in Sockets : ~Underway(r, s)
    BY <2>2 DEF Underway, Requested, ReplyAt
  <2>4. OneAtATime(r)
    BY <2>2 DEF OneAtATime, Requested, ReplyAt
  <2>5. submitter[r] = "idle"
    BY DEF Init
  <2> QED
    BY <2>1, <2>3, <2>4, <2>5 DEF Rpc
<1>3. NoSilentRun /\ HeardIsRecorded /\ HeardIsStreamed /\ NobodyForgotten
  BY DEF Init, NoSilentRun, HeardIsRecorded, HeardIsStreamed, NobodyForgotten
<1> QED
  BY <1>1, <1>2, <1>3 DEF Inv, RunInv

\* Every step keeps it.
LEMMA InvKept == Inv /\ [Next]_vars => Inv'
<1> SUFFICES ASSUME Inv, [Next]_vars PROVE Inv'
  OBVIOUS
<1>1. TypeOK /\ \A r \in Runs : Phases(r) /\ HeardIsQueued(r) /\ Rpc(r)
  BY DEF Inv, RunInv
<1>2. TypeOK'
  BY <1>1, TypesKept
<1>3. \A r \in Runs : Phases(r)' /\ HeardIsQueued(r)' /\ Rpc(r)'
  BY <1>1, PhasesKept, HeardQueuedKept, RpcKeeps
<1>4. NoSilentRun' /\ HeardIsRecorded' /\ HeardIsStreamed'
  BY <1>1, NoSilentRunKept, HeardRecordedKept, HeardStreamedKept DEF Inv
<1>5. NobodyForgotten'
  BY <1>1, NobodyForgottenKept DEF Inv
<1> QED
  BY <1>2, <1>3, <1>4, <1>5 DEF Inv, RunInv

\* Every reachable state satisfies the invariant: types, phases, queues and the
\* requests of submit.
THEOREM GatewayInvariant == Spec => []Inv
BY InvInit, InvKept, PTL DEF Spec

\* No run is handed out deaf: without a result it hears the socket of its
\* prompt, unless the receive loop of that socket died of an exception.
THEOREM NeverASilentRun == Spec => []NoSilentRun
<1>1. Inv => NoSilentRun
  BY DEF Inv
<1> QED
  BY <1>1, GatewayInvariant, PTL

\* A terminal event the receive loop filed is the run's result once it is out,
\* even if it came before the acknowledgement or under another id.
THEOREM HeardAlwaysRecorded == Spec => []HeardIsRecorded
<1>1. Inv => HeardIsRecorded
  BY DEF Inv
<1> QED
  BY <1>1, GatewayInvariant, PTL

\* The event itself reaches the consumer: it stays in the queue of the run until
\* the consumer has taken it, through every loss of the connection.
THEOREM HeardAlwaysStreamed == Spec => []HeardIsStreamed
<1>1. Inv => HeardIsStreamed
  BY DEF Inv
<1> QED
  BY <1>1, GatewayInvariant, PTL

\* An end that was heard is kept for wait and for the consumer, whatever the
\* acknowledgement, the deadlines and the connection do.
THEOREM HeardAlwaysKept == Spec => []HeardIsKept
<1> QED
  BY HeardAlwaysRecorded, HeardAlwaysStreamed, PTL DEF HeardIsKept

\* A suspended submit or cancel always has a call under way, and a subscription
\* lock is held only by a caller that has one.
THEOREM NobodyEverForgotten == Spec => []NobodyForgotten
<1>1. Inv => NobodyForgotten
  BY DEF Inv
<1> QED
  BY <1>1, GatewayInvariant, PTL

-----------------------------------------------------------------------------
(* The run of the protocol. *)

\* wait returns once, and quiesce; neither writes the result.
ReportsInStep(r) ==
  /\ waiter[r] = "returned" => waiter'[r] = "returned"
  /\ r \in quiesced => r \in quiesced'
  /\ waiter[r] # "returned" /\ waiter'[r] = "returned" =>
       UNCHANGED <<result, id, quiesced, submitter>>
  /\ r \notin quiesced /\ r \in quiesced' => UNCHANGED <<result, id, waiter, submitter>>

\* Every step reports as the protocol allows.
LEMMA ReportsKept ==
  TypeOK /\ (\A q \in Runs : Phases(q)) /\ [Next]_vars => \A r \in Runs : ReportsInStep(r)
<1> SUFFICES ASSUME TypeOK, \A q \in Runs : Phases(q), [Next]_vars, NEW r \in Runs
             PROVE  ReportsInStep(r)
  OBVIOUS
<1>1. CASE UNCHANGED <<waiter, quiesced>>
  BY <1>1 DEF ReportsInStep
<1>2. ASSUME NEW q \in Runs, Client(q) PROVE ReportsInStep(r)
  <2>1. CASE Subscribes(q)
    <3>1. PICK who \in {"wait", "stream"} :
            SubscribeCalls(q, who) \/ Subscribed(q, who) \/ SubscribeRaises(q, who)
      BY <2>1 DEF Subscribes
    <3>2. UNCHANGED quiesced
      BY <3>1 DEF SubscribeCalls, Subscribed, SubscribeRaises, ClientKept
    <3>3. UNCHANGED waiter \/
            /\ waiter[q] = "subscribing"
            /\ \E place \in {"waiting", "raised"} : waiter' = [waiter EXCEPT ![q] = place]
      BY <3>1 DEF SubscribeCalls, Subscribed, SubscribeRaises, MoveTo, After, Place, Phases
    <3> QED
      BY <3>2, <3>3 DEF ReportsInStep, TypeOK
  <2>2. CASE WaitStarts(q) \/ WaitAnswers(q)
    <3>1. /\ UNCHANGED <<result, id, quiesced, submitter>>
          /\ waiter[q] # "returned"
          /\ \E place : waiter' = [waiter EXCEPT ![q] = place]
      BY <2>2 DEF WaitStarts, WaitAnswers, MoveTo, ClientKept
    <3> QED
      BY <3>1 DEF ReportsInStep, TypeOK
  <2>3. CASE WaitTimesOut(q)
    BY <2>3 DEF WaitTimesOut, MoveTo, ClientKept, ReportsInStep, TypeOK
  <2>4. CASE Quiesce(q)
    BY <2>4 DEF Quiesce, registry, ReportsInStep
  <2> QED
    BY <1>1, <1>2, <2>1, <2>2, <2>3, <2>4
    DEF Client, Submits, Submit, Created, SubmitRaises, SubmitRefused, Accepted, Prompted,
        SubmitKept, StreamStarts, StreamReads, StreamTimesOut, MoveTo, ClientKept,
        CancelStarts, CancelEnds, CancelKept
<1>3. ASSUME NEW q \in Runs, NEW c \in Callers, Connects(q, c) \/ CallExpires(q, c)
      PROVE  ReportsInStep(r)
  BY <1>1, <1>3 DEF Connects, CallExpires, callers
<1>4. CASE Reconnects \/ Disconnect \/ UNCHANGED vars \/ \E s \in Sockets : Gateway(s)
  BY <1>1, <1>4 DEF Reconnects, ReconnectStarts, Reconnected, ReconnectFails, ReconnectKept,
                    Disconnect, Gateway, vars, callers
<1>5. ASSUME NEW s \in Sockets, ReceiveLoop(s) PROVE ReportsInStep(r)
  BY <1>1, <1>5 DEF ReceiveLoop, ReceiveAnswer, ReceiveEvent, ReceiveGarbage, NoticeClosed,
                    Receives, callers
<1> QED
  BY <1>2, <1>3, <1>4, <1>5 DEF Next, Loop

\* The protocol's run begins where the adapter does.
LEMMA RunInit == Init => \A r \in Runs : Abstract(r)!Init
BY DEF Init, Abstract!Init

\* And each step of the adapter is a step of it, or none.
LEMMA RunStep ==
  Inv /\ Inv' /\ [Next]_vars => \A r \in Runs : [Abstract(r)!Next]_(Abstract(r)!run)
<1> SUFFICES ASSUME Inv, Inv', [Next]_vars, NEW r \in Runs
             PROVE  [Abstract(r)!Next]_(Abstract(r)!run)
  OBVIOUS
<1>1. /\ TypeOK /\ \A q \in Runs : Phases(q)
      /\ TypeOK' /\ Phases(r)'
  BY DEF Inv, RunInv
<1>2. HandedKept(r) /\ ReportsInStep(r)
  BY <1>1, HandedStays, ReportsKept
<1>3. /\ ResultOf(r) \in {"none"} \cup Statuses
      /\ ResultOf(r)' \in {"none"} \cup Statuses
  BY <1>1 DEF TypeOK, ResultOf
<1>4. "none" \notin Statuses
  BY DEF Statuses
<1>5. CASE submitter[r] # "handed" /\ submitter'[r] # "handed"
  <2>1. /\ waiter[r] = "idle" /\ r \notin quiesced
        /\ waiter'[r] = "idle" /\ r \notin quiesced'
    BY <1>1, <1>5 DEF Phases
  <2> QED
    BY <1>5, <2>1 DEF Abstract!run
<1>6. CASE submitter[r] # "handed" /\ submitter'[r] = "handed"
  <2>1. Accepted(r)
    BY <1>1, <1>6, HandedByAccepted
  <2>2. /\ waiter[r] = "idle" /\ r \notin quiesced
        /\ waiter'[r] = "idle" /\ r \notin quiesced'
    BY <1>1, <1>6, <2>1 DEF Phases, Accepted, Prompted, SubmitKept
  <2>3. Abstract(r)!HandOut
    BY <1>3, <1>6, <2>2 DEF Abstract!HandOut, Abstract!Record, Abstract!Keep
  <2> QED
    BY <2>3 DEF Abstract!Next
<1>7. CASE submitter[r] = "handed"
  <2>1. submitter'[r] = "handed" /\ (ResultOf(r) # "none" => ResultOf(r)' = ResultOf(r))
    BY <1>2, <1>7 DEF HandedKept, ResultOf
  <2>2. /\ waiter[r] = "returned" \/ r \in quiesced => ResultOf(r) # "none"
        /\ waiter'[r] = "returned" \/ r \in quiesced' => ResultOf(r)' # "none"
    BY <1>1 DEF Phases
  <2>3. CASE waiter[r] # "returned" /\ waiter'[r] = "returned"
    <3>1. ResultOf(r)' = ResultOf(r) /\ quiesced' = quiesced
      BY <1>2, <2>3 DEF ReportsInStep, ResultOf
    <3>2. Abstract(r)!Answer
      BY <1>3, <1>7, <2>1, <2>2, <2>3, <3>1 DEF Abstract!Answer, Abstract!Keep
    <3> QED
      BY <3>2 DEF Abstract!Next
  <2>4. CASE r \notin quiesced /\ r \in quiesced'
    <3>1. ResultOf(r)' = ResultOf(r) /\ waiter' = waiter
      BY <1>2, <2>4 DEF ReportsInStep, ResultOf
    <3>2. Abstract(r)!Release
      BY <1>3, <1>7, <2>1, <2>2, <2>4, <3>1 DEF Abstract!Release
    <3> QED
      BY <3>2 DEF Abstract!Next
  <2>5. CASE /\ waiter[r] = "returned" <=> waiter'[r] = "returned"
             /\ r \in quiesced <=> r \in quiesced'
    <3>1. CASE ResultOf(r)' = ResultOf(r)
      BY <1>7, <2>1, <2>5, <3>1 DEF Abstract!run
    <3>2. CASE ResultOf(r)' # ResultOf(r)
      <4>1. ResultOf(r) = "none" /\ ResultOf(r)' \in Statuses /\ waiter[r] # "returned"
        BY <1>3, <2>1, <2>2, <3>2
      <4>2. Abstract(r)!Finish
        BY <1>7, <2>1, <2>5, <4>1 DEF Abstract!Finish, Abstract!Record
      <4> QED
        BY <4>2 DEF Abstract!Next
    <3> QED
      BY <3>1, <3>2
  <2> QED
    BY <1>2, <2>3, <2>4, <2>5 DEF ReportsInStep
<1> QED
  BY <1>5, <1>6, <1>7

\* The adapter implements, for each of its runs, the run of the protocol: the
\* handle is handed out once, the first result stays, every wait answers with
\* it, and quiesce comes after it.
THEOREM EveryRunImplementsAgentRun == Spec => ImplementsAgentRun
BY RunInit, RunStep, InvKept, GatewayInvariant, PTL DEF Spec, ImplementsAgentRun

=============================================================================
