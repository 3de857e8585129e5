----------------------------- MODULE DeckBridge -----------------------------
(***************************************************************************)
(* The bridge to Companion (extension/src/StreamDeckBridge.cpp, sdBridgeTick_ *)
(* in main.cpp) and the client of the Companion module (companion/src/        *)
(* bridge.js, main.js).                                                       *)
(*                                                                          *)
(* In REAPER the worker of the bridge owns the connections: it hands commands  *)
(* to the main thread through one queue and sends what the main thread put in  *)
(* the other to every client that subscribed, waiting for a client that does   *)
(* not read.  A tick of the main thread takes the commands, then sends the     *)
(* state of the surface if it changed or if somebody has just subscribed.      *)
(*                                                                          *)
(* The client is an event loop with one current socket and one timer; a socket *)
(* that is no longer the current one lives on with its listeners.  Of what is   *)
(* sent the model keeps the subscription, the greeting and the state.          *)
(***************************************************************************)
EXTENDS Naturals, Sequences

CONSTANTS
  Socks,      \* connections, numbered; the number is free again after both ends closed
  OutCap,     \* the lines broadcast keeps: 256
  WireCap,    \* lines a connection takes before its reader must read
  States,     \* what the surface may show
  MaxChange,  \* bound: changes of the surface
  MaxStir     \* bound: new settings of the client, and restarts of REAPER

\* A connection is never 0, and the numbers order the worker's clients.
DeckBridgeAssumption ==
  /\ Socks \subseteq Nat \ {0}
  /\ OutCap \in Nat /\ MaxChange \in Nat /\ MaxStir \in Nat

NoSock == 0
Unknown == "unknown"

Lines == {"hello"} \cup States
Commands == {"subscribe"}

VARIABLES
  \* the client
  wantOpen, timer, connected, \* wantOpen, reconnectTimer # null, connected
  sock,      \* sock
  mine,      \* every socket it made and did not destroy: "free", "opening" or "open"
  view,      \* state
  \* the wire
  toServer, toClient,
  \* REAPER
  alive,     \* external: it runs, and the bridge with it
  theirs,    \* the worker's clients: "none", "waiting" for accept, "in", "subscribed"
  inQueue, outQueue, \* g_inQueue, g_outQueue
  due,       \* what is left of the batch swapped out of g_outQueue, for each client
  mainPc,    \* the part of sdBridgeTick_ that comes next
  forceFull, \* forceFull
  cur, last, \* the state of the surface, and the one sent last
  changes, stirs,  \* bookkeeping
  lost,      \* history: the newest state met a full queue
  reopened   \* history: open() was called while the timer ran

client == <<wantOpen, timer, connected, sock, mine, view>>
tick == <<mainPc, forceFull, cur, last>>
count == <<changes, stirs>>
vars == <<client, toServer, toClient, alive, theirs, inQueue, outQueue, due, tick, count,
          lost, reopened>>

TypeOK ==
  /\ {wantOpen, timer, connected, alive, forceFull, lost, reopened} \subseteq BOOLEAN
  /\ sock \in Socks \cup {NoSock} /\ mine \in [Socks -> {"free", "opening", "open"}]
  /\ view \in States \cup {Unknown}
  /\ toServer \in [Socks -> Seq(Commands)] /\ toClient \in [Socks -> Seq(Lines)]
  /\ theirs \in [Socks -> {"none", "waiting", "in", "subscribed"}]
  /\ inQueue \in Seq(Commands)
  /\ outQueue \in Seq(Lines) /\ Len(outQueue) <= OutCap
  /\ due \in [Socks -> Seq(Lines)]
  /\ mainPc \in {"drain", "push"} /\ cur \in States /\ last \in States \cup {Unknown}
  /\ changes \in 0..MaxChange /\ stirs \in 0..MaxStir

Silent == [s \in Socks |-> <<>>]

\* The client was refused once, or has just been made.
Init ==
  /\ wantOpen = TRUE /\ timer = TRUE /\ connected = FALSE /\ sock = NoSock
  /\ mine = [s \in Socks |-> "free"] /\ view = Unknown
  /\ toServer = Silent /\ toClient = Silent /\ due = Silent
  /\ alive \in BOOLEAN /\ theirs = [s \in Socks |-> "none"]
  /\ inQueue = <<>> /\ outQueue = <<>>
  /\ mainPc = "drain" /\ forceFull = FALSE /\ cur \in States /\ last = Unknown
  /\ changes = 0 /\ stirs = 0 /\ lost = FALSE /\ reopened = FALSE

Stir == stirs < MaxStir /\ stirs' = stirs + 1 /\ UNCHANGED changes

-----------------------------------------------------------------------------
(* The client.                                                              *)

Reaper == <<alive, theirs, inQueue, outQueue, due, tick, lost>>

\* The sockets that are left when those in S are destroyed.
Destroy(S) == [s \in Socks |-> IF s \in S THEN "free" ELSE mine[s]]
Unread(S) == [s \in Socks |-> IF s \in S THEN <<>> ELSE toClient[s]]

\* A number that no end of a connection uses.
Fresh == {s \in Socks : mine[s] = "free" /\ theirs[s] = "none" /\ toServer[s] = <<>>}

\* _connect, among the sockets in left.
ConnectAmong(left) ==
  \E s \in Fresh : sock' = s /\ mine' = [left EXCEPT ![s] = "opening"]

\* Faulty: the old socket is left alone.
OpenKeepsSocket ==
  /\ Stir /\ wantOpen
  /\ ConnectAmong(mine) /\ connected' = FALSE
  /\ reopened' = (reopened \/ timer)
  /\ UNCHANGED <<wantOpen, timer, view, toServer, toClient, Reaper>>

\* open, with new settings: _teardown, _connect; the timer runs on.
Open ==
  /\ Stir /\ wantOpen
  /\ ConnectAmong(Destroy({sock})) /\ toClient' = Unread({sock}) /\ connected' = FALSE
  /\ reopened' = (reopened \/ timer)
  /\ UNCHANGED <<wantOpen, timer, view, toServer, Reaper>>

Close ==
  /\ Stir /\ wantOpen /\ wantOpen' = FALSE /\ timer' = FALSE
  /\ mine' = Destroy({sock}) /\ toClient' = Unread({sock})
  /\ sock' = NoSock /\ connected' = FALSE
  /\ UNCHANGED <<view, toServer, Reaper, reopened>>

Reconnect ==
  /\ timer /\ timer' = FALSE /\ ConnectAmong(mine)
  /\ UNCHANGED <<wantOpen, connected, view, toServer, toClient, Reaper, count, reopened>>

\* The connection stands before the server has accepted it.  What the client then
\* asks for goes to the current socket.
Connected(s) ==
  /\ mine[s] = "opening" /\ alive
  /\ mine' = [mine EXCEPT ![s] = "open"] /\ theirs' = [theirs EXCEPT ![s] = "waiting"]
  /\ connected' = TRUE
  /\ toServer' = IF sock = NoSock THEN toServer
                 ELSE [toServer EXCEPT ![sock] = Append(@, "subscribe")]
  /\ UNCHANGED <<wantOpen, timer, sock, view, toClient, alive, inQueue, outQueue, due, tick,
                 lost, count, reopened>>

\* Refused, or ended from the other side with everything read: whichever socket it
\* was, the current one goes too.
Closed(s) ==
  /\ \/ mine[s] = "opening" /\ ~alive
     \/ mine[s] = "open" /\ theirs[s] = "none" /\ toClient[s] = <<>>
  /\ mine' = Destroy({s, sock}) /\ toClient' = Unread({s, sock})
  /\ toServer' = IF theirs[s] = "none" THEN [toServer EXCEPT ![s] = <<>>] ELSE toServer
  /\ sock' = NoSock /\ connected' = FALSE
  /\ timer' = (timer \/ wantOpen)
  /\ UNCHANGED <<wantOpen, view, Reaper, count, reopened>>

Receive(s) ==
  /\ mine[s] = "open" /\ toClient[s] # <<>>
  /\ toClient' = [toClient EXCEPT ![s] = Tail(@)]
  /\ view' = IF Head(toClient[s]) \in States THEN Head(toClient[s]) ELSE view
  /\ UNCHANGED <<wantOpen, timer, connected, sock, mine, toServer, Reaper, count, reopened>>

-----------------------------------------------------------------------------
(* The worker of the bridge.                                                *)

Ours == <<client, reopened, count>>

\* It is not in the middle of sending.
Polling == alive /\ \A s \in Socks : due[s] = <<>>

Accept(s) ==
  /\ Polling /\ theirs[s] = "waiting" /\ theirs' = [theirs EXCEPT ![s] = "in"]
  /\ toClient' = IF mine[s] = "open" THEN [toClient EXCEPT ![s] = Append(@, "hello")]
                 ELSE toClient
  /\ UNCHANGED <<Ours, toServer, alive, inQueue, outQueue, due, tick, lost>>

Ingest(s) ==
  /\ Polling /\ theirs[s] \in {"in", "subscribed"} /\ toServer[s] # <<>>
  /\ toServer' = [toServer EXCEPT ![s] = Tail(@)]
  /\ inQueue' = Append(inQueue, Head(toServer[s]))
  /\ theirs' = [theirs EXCEPT ![s] = "subscribed"]
  /\ UNCHANGED <<Ours, toClient, alive, outQueue, due, tick, lost>>

EndOfStream(s) ==
  /\ Polling /\ theirs[s] \in {"in", "subscribed"} /\ toServer[s] = <<>> /\ mine[s] = "free"
  /\ theirs' = [theirs EXCEPT ![s] = "none"]
  /\ UNCHANGED <<Ours, toServer, toClient, alive, inQueue, outQueue, due, tick, lost>>

\* The whole queue is swapped out, for everybody who has subscribed by now.
TakeBatch ==
  /\ Polling /\ outQueue # <<>> /\ outQueue' = <<>>
  /\ due' = [s \in Socks |-> IF theirs[s] = "subscribed" THEN outQueue ELSE <<>>]
  /\ UNCHANGED <<Ours, toServer, toClient, alive, theirs, inQueue, tick, lost>>

\* One client after the other; one that does not read keeps the worker waiting,
\* one that has gone is dropped.
SendRaw(s) ==
  /\ due[s] # <<>> /\ \A r \in Socks : r < s => due[r] = <<>>
  /\ IF mine[s] = "free"
     THEN /\ due' = [due EXCEPT ![s] = <<>>] /\ theirs' = [theirs EXCEPT ![s] = "none"]
          /\ toServer' = [toServer EXCEPT ![s] = <<>>] /\ UNCHANGED toClient
     ELSE /\ Len(toClient[s]) < WireCap
          /\ due' = [due EXCEPT ![s] = Tail(@)]
          /\ toClient' = [toClient EXCEPT ![s] = Append(@, Head(due[s]))]
          /\ UNCHANGED <<theirs, toServer>>
  /\ UNCHANGED <<Ours, alive, inQueue, outQueue, tick, lost>>

-----------------------------------------------------------------------------
(* The main thread.                                                         *)

\* Faulty: the backlog has no end.
BroadcastUnbounded(l) == outQueue' = Append(outQueue, l)

\* broadcast: a full queue refuses what comes.
Broadcast(l) ==
  outQueue' = IF Len(outQueue) < OutCap THEN Append(outQueue, l) ELSE outQueue

\* Faulty: a new subscriber gets no snapshot.
SubscribedNever == FALSE

Subscribed == inQueue # <<>>

Drain ==
  /\ alive /\ mainPc = "drain" /\ mainPc' = "push"
  /\ forceFull' = Subscribed /\ inQueue' = <<>>
  /\ UNCHANGED <<Ours, toServer, toClient, alive, theirs, outQueue, due, cur, last, lost>>

Push ==
  /\ alive /\ mainPc = "push" /\ mainPc' = "drain" /\ forceFull' = FALSE
  /\ IF (\E s \in Socks : theirs[s] \in {"in", "subscribed"}) /\ (forceFull \/ cur # last)
     THEN last' = cur /\ Broadcast(cur) /\ lost' = (outQueue'[Len(outQueue')] # cur)
     ELSE UNCHANGED <<last, outQueue, lost>>
  /\ UNCHANGED <<Ours, toServer, toClient, alive, theirs, inQueue, due, cur>>

-----------------------------------------------------------------------------
(* From outside.                                                            *)

SurfaceChanges ==
  /\ changes < MaxChange /\ changes' = changes + 1
  /\ cur' \in States \ {cur}
  /\ UNCHANGED <<client, reopened, stirs, toServer, toClient, alive, theirs, inQueue,
                 outQueue, due, mainPc, forceFull, last, lost>>

\* REAPER ends, and everything the bridge had with it.
ReaperQuits ==
  /\ Stir /\ alive /\ alive' = FALSE
  /\ theirs' = [s \in Socks |-> "none"] /\ toServer' = Silent /\ due' = Silent
  /\ inQueue' = <<>> /\ outQueue' = <<>>
  /\ mainPc' = "drain" /\ forceFull' = FALSE /\ last' = Unknown /\ lost' = FALSE
  /\ UNCHANGED <<client, reopened, toClient, cur>>

ReaperStarts ==
  /\ ~alive /\ alive' = TRUE
  /\ UNCHANGED <<Ours, toServer, toClient, theirs, inQueue, outQueue, due, tick, lost>>

Client ==
  Reconnect \/ \E s \in Socks : Connected(s) \/ Closed(s) \/ Receive(s)

Worker ==
  \/ TakeBatch
  \/ \E s \in Socks : Accept(s) \/ Ingest(s) \/ EndOfStream(s) \/ SendRaw(s)

Main == Drain \/ Push

Next ==
  \/ Open \/ Close \/ Client \/ Worker \/ Main
  \/ SurfaceChanges \/ ReaperQuits \/ ReaperStarts

Fairness == WF_vars(Client) /\ WF_vars(Worker) /\ WF_vars(Main)

Spec == Init /\ [][Next]_vars /\ Fairness

-----------------------------------------------------------------------------
(* What the bridge promises.                                                *)

\* Companion shows what the surface shows, also after either side was restarted,
\* unless the newest state met a full queue.
ViewCatchesUp ==
  \A v \in States :
    (alive /\ wantOpen /\ cur = v)
      ~> (view = v \/ cur # v \/ lost \/ ~alive \/ ~wantOpen)

\* The client holds one connection at a time, unless it was opened again while it
\* waited to reconnect.
OneSocket ==
  reopened \/ \A r, s \in Socks : mine[r] # "free" /\ mine[s] # "free" => r = s

=============================================================================
