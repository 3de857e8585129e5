----------------------------- MODULE Lines_proofs -----------------------------
(***************************************************************************)
(* Proofs about the lines that break and are opened anew.                      *)
(*                                                                          *)
(* About UsbReopen, for any number of devices, faults and restarts: types, no   *)
(* use of a handle that was given back, and that what the main thread believes  *)
(* to be on the surface is there.  About DeckBridge, for any number of          *)
(* connections and any bound of the queue: types, and that the client holds one *)
(* connection.  A step of MCLines is a step of one and leaves the other alone.  *)
(***************************************************************************)
EXTENDS MCLines, TLAPS

\* What a frame in the queue holds is what was sent last for its part, and a device that
\* is closed has no queue.
QueueIsCached ==
  /\ \A p \in Parts : queued[p] # None => queued[p] = cache[p]
  /\ ~open[Uf8] => queued = Nothing

IInv == TypeOK /\ HandleHeld /\ QueueIsCached /\ CacheIsShown

LEMMA NothingType == Nothing \in [Parts -> Values \cup {None}]
BY DEF Nothing

LEMMA AllType == ASSUME NEW value, NEW S, value \in S PROVE All(value) \in [Devices -> S]
BY DEF All

LEMMA InitTyped == Init => TypeOK
<1> SUFFICES ASSUME Init PROVE TypeOK
  OBVIOUS
<1> USE UsbAssumption DEF Init
<1>1. open \in [Devices -> BOOLEAN] /\ worker \in [Devices -> BOOLEAN]
      /\ waking \in [Devices -> BOOLEAN] /\ leaving \in [Devices -> BOOLEAN]
      /\ needs \in [Devices -> BOOLEAN] /\ balks \in [Devices -> BOOLEAN]
  BY AllType
<1>2. link \in [Devices -> {"good", "dead", "late"}]
  BY AllType
<1>3. want \in [Parts -> Values] /\ missed \in [Parts -> BOOLEAN]
  OBVIOUS
<1>4. asked \in BOOLEAN /\ due \in BOOLEAN /\ rested \in BOOLEAN /\ dirty \in BOOLEAN
      /\ ledsInit \in BOOLEAN
  OBVIOUS
<1>5. left \in 0 .. Attempts /\ stirs \in 0 .. MaxStir
  OBVIOUS
<1>6. there \in [Devices -> BOOLEAN]
      /\ mainPc \in {"top", "restart", "recovery", "reopen", "push"}
      /\ toClose \subseteq Devices /\ toOpen \subseteq Devices
  OBVIOUS
<1>7. shown \in [Parts -> Values \cup {None}] /\ queued \in [Parts -> Values \cup {None}]
      /\ cache \in [Parts -> Values \cup {None}]
  BY NothingType
<1> QED
  BY <1>1, <1>2, <1>3, <1>4, <1>5, <1>6, <1>7 DEF TypeOK

LEMMA TypeStep == TypeOK /\ [Next]_vars => TypeOK'
<1> SUFFICES ASSUME TypeOK, [Next]_vars PROVE TypeOK'
  OBVIOUS
<1> USE UsbAssumption, NothingType DEF TypeOK, bus, threads, jobs, paint
<1>1. CASE TakeRestart
  <2>1. left' \in 0 .. Attempts
    BY <1>1 DEF TakeRestart
  <2>2. due' \in BOOLEAN /\ asked' \in BOOLEAN
    BY <1>1 DEF TakeRestart
  <2>3. mainPc' \in {"restart", "recovery"} /\ toClose' \subseteq Devices
        /\ toOpen' \subseteq Devices
    BY <1>1 DEF TakeRestart
  <2>4. UNCHANGED <<bus, link, shown, open, threads, queued, rested, paint, stirs, missed>>
    BY <1>1 DEF TakeRestart
  <2> QED
    BY <2>1, <2>2, <2>3, <2>4
<1>2. CASE RestartTried
  <2>1. left' \in 0 .. Attempts /\ mainPc' = "recovery"
    BY <1>2 DEF RestartTried
  <2>2. due' \in BOOLEAN
    BY <1>2 DEF RestartTried
  <2>3. UNCHANGED <<bus, link, shown, open, threads, queued, toClose, toOpen, asked, rested,
                    paint, stirs, missed>>
    BY <1>2 DEF RestartTried
  <2> QED
    BY <2>1, <2>2, <2>3
<1>3. CASE Recover
  BY <1>3 DEF Recover
<1>4. CASE Recovered
  BY <1>4 DEF Recovered
<1>5. CASE Push
  <2>1. queued' \in [Parts -> Values \cup {None}] /\ cache' \in [Parts -> Values \cup {None}]
    BY <1>5 DEF Push
  <2>2. missed' \in [Parts -> BOOLEAN]
    <3>1. CASE open[Uf8]
      <4>1. missed' = [p \in Parts |-> missed[p] /\ p \notin ToSend]
        BY <1>5, <3>1 DEF Push
      <4> QED
        BY <4>1, Zenon
    <3> QED
      BY <1>5, <3>1 DEF Push
  <2>3. dirty' \in BOOLEAN /\ ledsInit' \in BOOLEAN
    BY <1>5 DEF Push
  <2>4. UNCHANGED <<bus, link, shown, open, threads, toClose, toOpen, asked, left, due,
                    rested, want, stirs>> /\ mainPc' = "top"
    BY <1>5 DEF Push
  <2> QED
    BY <2>1, <2>2, <2>3, <2>4
<1>6. ASSUME NEW d \in Devices, BeginClose(d) PROVE TypeOK'
  BY <1>6 DEF BeginClose
<1>7. ASSUME NEW d \in Devices, Closed(d) PROVE TypeOK'
  BY <1>7 DEF Closed, Release
<1>8. ASSUME NEW d \in Devices, Open(d) PROVE TypeOK'
  <2>1. balks' \in [Devices -> BOOLEAN] /\ open' \in [Devices -> BOOLEAN]
        /\ worker' \in [Devices -> BOOLEAN] /\ waking' \in [Devices -> BOOLEAN]
    <3>1. CASE there[d] /\ ~balks[d]
      <4>1. /\ open' = [open EXCEPT ![d] = TRUE] /\ worker' = [worker EXCEPT ![d] = TRUE]
            /\ waking' = [waking EXCEPT ![d] = TRUE] /\ balks' = balks
        BY <1>8, <3>1 DEF Open
      <4> QED
        BY <4>1, Zenon
    <3>2. CASE ~(there[d] /\ ~balks[d])
      <4>1. UNCHANGED <<open, worker, waking>>
            /\ balks' = [balks EXCEPT ![d] = balks[d] /\ ~there[d]]
        BY <1>8, <3>2 DEF Open
      <4>2. [balks EXCEPT ![d] = balks[d] /\ ~there[d]] \in [Devices -> BOOLEAN]
        BY Zenon
      <4> QED
        BY <4>1, <4>2
    <3> QED
      BY <3>1, <3>2
  <2>2. dirty' \in BOOLEAN
    BY <1>8 DEF Open, Opened
  <2>3. missed' \in [Parts -> BOOLEAN]
    <3>1. \/ missed' = missed
          \/ missed' = [p \in Parts |-> p = "globals" /\ ledsInit]
      BY <1>8 DEF Open, Opened
    <3>2. [p \in Parts |-> p = "globals" /\ ledsInit] \in [Parts -> BOOLEAN]
      BY Zenon
    <3> QED
      BY <3>1, <3>2
  <2>4. shown' \in [Parts -> Values \cup {None}]
    BY <1>8 DEF Open, Opened
  <2>5. toOpen' \subseteq Devices
        /\ UNCHANGED <<there, link, leaving, needs, queued, mainPc, toClose, asked, left, due,
                       rested, ledsInit, want, cache, stirs>>
    BY <1>8 DEF Open
  <2> QED
    BY <2>1, <2>2, <2>3, <2>4, <2>5
<1>9. ASSUME NEW d \in Devices, WakeEnds(d) PROVE TypeOK'
  BY <1>9 DEF WakeEnds
<1>10. ASSUME NEW d \in Devices, WorkerEnds(d) PROVE TypeOK'
  BY <1>10 DEF WorkerEnds
<1>11. ASSUME NEW d \in Devices, NoteStale(d) PROVE TypeOK'
  BY <1>11 DEF NoteStale
<1>12. ASSUME NEW p \in Parts, Send(p) PROVE TypeOK'
  BY <1>12 DEF Send
<1>13. CASE Clock
  BY <1>13 DEF Clock, GapEnds, Rests
<1>14. ASSUME NEW d \in Devices, LinkFails(d) PROVE TypeOK'
  BY <1>14 DEF LinkFails, Trouble, Stir
<1>15. ASSUME NEW d \in Devices, LinkRecovers(d) PROVE TypeOK'
  BY <1>15 DEF LinkRecovers
<1>16. ASSUME NEW d \in Devices, Plugged(d) PROVE TypeOK'
  BY <1>16 DEF Plugged, Trouble, Stir
<1>17. ASSUME NEW p \in Parts, Change(p) PROVE TypeOK'
  BY <1>17 DEF Change, Stir
<1>18. CASE AskRestart
  BY <1>18 DEF AskRestart, Stir
<1>19. CASE LedsAgain
  <2>1. ledsInit' = FALSE /\ stirs' \in 0 .. MaxStir
    BY <1>19 DEF LedsAgain, Stir
  <2>2. ledsInit' \in BOOLEAN
    BY <2>1
  <2>3. UNCHANGED <<bus, link, shown, open, threads, queued, jobs, dirty, want, cache, missed>>
    BY <1>19 DEF LedsAgain
  <2> QED
    BY <2>1, <2>2, <2>3
<1>20. CASE UNCHANGED vars
  BY <1>20 DEF vars
<1> QED
  BY <1>1, <1>2, <1>3, <1>4, <1>5, <1>6, <1>7, <1>8, <1>9, <1>10, <1>11, <1>12, <1>13,
     <1>14, <1>15, <1>16, <1>17, <1>18, <1>19, <1>20 DEF Next, Tick, Threads

\* Every variable keeps its type.
THEOREM TypeCorrect == Spec => []TypeOK
<1>1. Init => TypeOK
  BY InitTyped
<1>2. TypeOK /\ [Next]_vars => TypeOK'
  BY TypeStep
<1> QED
  BY <1>1, <1>2, PTL DEF Spec

\* Only Closed takes a handle, and it waits for both threads.
LEMMA HandleStep == TypeOK /\ HandleHeld /\ [Next]_vars => HandleHeld'
<1> SUFFICES ASSUME TypeOK, HandleHeld, [Next]_vars PROVE HandleHeld'
  OBVIOUS
<1> USE DEF TypeOK, HandleHeld, bus, threads, jobs, paint
<1>1. ASSUME NEW d \in Devices, Closed(d) PROVE HandleHeld'
  BY <1>1 DEF Closed, Release
<1>2. ASSUME NEW d \in Devices, Open(d) PROVE HandleHeld'
  <2>1. CASE there[d] /\ ~balks[d]
    <3>1. /\ open' = [open EXCEPT ![d] = TRUE] /\ worker' = [worker EXCEPT ![d] = TRUE]
          /\ waking' = [waking EXCEPT ![d] = TRUE]
      BY <1>2, <2>1 DEF Open
    <3> QED
      BY <3>1
  <2>2. CASE ~(there[d] /\ ~balks[d])
    BY <1>2, <2>2 DEF Open
  <2> QED
    BY <2>1, <2>2
<1>3. ASSUME NEW d \in Devices, WakeEnds(d) PROVE HandleHeld'
  BY <1>3 DEF WakeEnds
<1>4. ASSUME NEW d \in Devices, WorkerEnds(d) PROVE HandleHeld'
  BY <1>4 DEF WorkerEnds
<1>5. CASE UNCHANGED <<open, worker, waking>>
  BY <1>5
<1>6. TakeRestart \/ RestartTried \/ Recover \/ Recovered \/ Push
        => UNCHANGED <<open, worker, waking>>
  BY DEF TakeRestart, RestartTried, Recover, Recovered, Push
<1>7. ASSUME NEW d \in Devices PROVE
        BeginClose(d) \/ NoteStale(d) \/ LinkFails(d) \/ LinkRecovers(d) \/ Plugged(d)
          => UNCHANGED <<open, worker, waking>>
  BY DEF BeginClose, NoteStale, LinkFails, LinkRecovers, Plugged, Trouble
<1>8. ASSUME NEW p \in Parts PROVE
        Send(p) \/ Change(p) => UNCHANGED <<open, worker, waking>>
  BY DEF Send, Change
<1>9. Clock \/ AskRestart \/ LedsAgain \/ UNCHANGED vars => UNCHANGED <<open, worker, waking>>
  BY DEF Clock, GapEnds, Rests, AskRestart, LedsAgain, vars
<1> QED
  BY <1>1, <1>2, <1>3, <1>4, <1>5, <1>6, <1>7, <1>8, <1>9 DEF Next, Tick, Threads

\* While a thread of a device runs, its handle is held: close() gives it back to nobody
\* who still uses it.
THEOREM NoUseAfterClose == Spec => []HandleHeld
<1>1. Init => TypeOK /\ HandleHeld
  BY InitTyped DEF Init, HandleHeld, All
<1>2. TypeOK /\ HandleHeld /\ [Next]_vars => (TypeOK /\ HandleHeld)'
  BY TypeStep, HandleStep
<1> QED
  BY <1>1, <1>2, PTL DEF Spec

\* What CacheIsShown and QueueIsCached speak of.
shownVars == <<open, queued, cache, dirty, ledsInit, shown, missed>>

LEMMA PushShown ==
  ASSUME TypeOK, QueueIsCached, CacheIsShown, Push
  PROVE  QueueIsCached' /\ CacheIsShown'
<1> USE DEF TypeOK
<1>1. CASE open[Uf8]
  <2>1. /\ queued' = [p \in Parts |-> IF p \in ToSend THEN want[p] ELSE queued[p]]
        /\ cache' = want
        /\ missed' = [p \in Parts |-> missed[p] /\ p \notin ToSend]
        /\ ~dirty' /\ open' = open /\ shown' = shown
    BY <1>1 DEF Push, bus, threads
  <2>2. ASSUME NEW p \in Parts, p \in ToSend PROVE queued'[p] = cache'[p] /\ queued'[p] # None
    BY <2>1, <2>2, UsbAssumption
  <2>3. ASSUME NEW p \in Parts, p \notin ToSend
        PROVE  /\ queued'[p] = queued[p] /\ cache'[p] = cache[p]
               /\ ~(p = "strips" /\ dirty) /\ ~(p = "globals" /\ ~ledsInit)
    BY <2>1, <2>3 DEF ToSend
  <2>4. ASSUME NEW p \in Parts, p \notin ToSend PROVE missed[p] => missed'[p]
    BY <2>1, <2>4, Zenon
  <2>5. QueueIsCached'
    BY <1>1, <2>1, <2>2, <2>3 DEF QueueIsCached
  <2>6. CacheIsShown'
    BY <1>1, <2>1, <2>2, <2>3, <2>4 DEF CacheIsShown
  <2> QED
    BY <2>5, <2>6
<1>2. CASE ~open[Uf8]
  BY <1>2 DEF Push, QueueIsCached, CacheIsShown, bus, threads
<1> QED
  BY <1>1, <1>2

LEMMA OpenShown ==
  ASSUME TypeOK, QueueIsCached, CacheIsShown, NEW d \in Devices, Open(d)
  PROVE  QueueIsCached' /\ CacheIsShown'
<1> USE UsbAssumption DEF TypeOK
<1>1. CASE ~(there[d] /\ ~balks[d])
  BY <1>1 DEF Open, QueueIsCached, CacheIsShown
<1>2. CASE there[d] /\ ~balks[d] /\ d # Uf8
  BY <1>2 DEF Open, Opened, QueueIsCached, CacheIsShown
<1>3. CASE there[d] /\ ~balks[d] /\ d = Uf8
  <2>1. /\ open'[Uf8] /\ queued' = queued /\ cache' = cache /\ dirty' = TRUE
        /\ ledsInit' = ledsInit
        /\ missed' = [p \in Parts |-> p = "globals" /\ ledsInit]
    BY <1>3 DEF Open, Opened
  <2>2. missed'["globals"] \/ ~ledsInit'
    <3>1. "globals" \in Parts
      BY DEF Parts
    <3> QED
      BY <2>1, <3>1, Zenon
  <2> QED
    BY <2>1, <2>2 DEF QueueIsCached, CacheIsShown, Parts
<1> QED
  BY <1>1, <1>2, <1>3

LEMMA SendShown ==
  ASSUME TypeOK, HandleHeld, QueueIsCached, CacheIsShown, NEW q \in Parts, Send(q)
  PROVE  QueueIsCached' /\ CacheIsShown'
<1> USE UsbAssumption DEF TypeOK, Send
<1>1. open[Uf8] /\ queued[q] = cache[q]
  BY DEF HandleHeld, QueueIsCached
<1>2. open' = open /\ queued' = [queued EXCEPT ![q] = None] /\ cache' = cache
      /\ dirty' = dirty /\ ledsInit' = ledsInit
  BY DEF bus, jobs, paint
<1>3. \/ shown' = [shown EXCEPT ![q] = queued[q]] /\ missed' = missed
      \/ missed' = [missed EXCEPT ![q] = TRUE] /\ shown' = shown
  OBVIOUS
<1>4. QueueIsCached'
  BY <1>1, <1>2 DEF QueueIsCached
<1>5. CacheIsShown'
  BY <1>1, <1>2, <1>3 DEF CacheIsShown
<1> QED
  BY <1>4, <1>5

LEMMA ClosedShown ==
  ASSUME TypeOK, QueueIsCached, CacheIsShown, NEW d \in Devices, Closed(d)
  PROVE  QueueIsCached' /\ CacheIsShown'
<1> USE UsbAssumption DEF TypeOK, Closed, Release, paint
<1>1. CASE d = Uf8
  BY <1>1 DEF QueueIsCached, CacheIsShown, Nothing
<1>2. CASE d # Uf8
  BY <1>2 DEF QueueIsCached, CacheIsShown
<1> QED
  BY <1>1, <1>2

LEMMA OthersShown ==
  ASSUME [Next]_vars
  PROVE  \/ Push \/ LedsAgain
         \/ \E d \in Devices : Closed(d) \/ Open(d)
         \/ \E p \in Parts : Send(p)
         \/ UNCHANGED shownVars
<1> USE DEF shownVars, bus, threads, jobs, paint
<1>1. TakeRestart \/ RestartTried \/ Recover \/ Recovered => UNCHANGED shownVars
  BY DEF TakeRestart, RestartTried, Recover, Recovered
<1>2. ASSUME NEW d \in Devices PROVE
        BeginClose(d) \/ WakeEnds(d) \/ WorkerEnds(d) \/ NoteStale(d) => UNCHANGED shownVars
  BY DEF BeginClose, WakeEnds, WorkerEnds, NoteStale
<1>3. ASSUME NEW d \in Devices PROVE
        LinkFails(d) \/ LinkRecovers(d) \/ Plugged(d) => UNCHANGED shownVars
  BY DEF LinkFails, LinkRecovers, Plugged, Trouble
<1>4. ASSUME NEW p \in Parts PROVE Change(p) => UNCHANGED shownVars
  BY DEF Change
<1>5. Clock \/ AskRestart \/ UNCHANGED vars => UNCHANGED shownVars
  BY DEF Clock, GapEnds, Rests, AskRestart, vars
<1> QED
  BY <1>1, <1>2, <1>3, <1>4, <1>5 DEF Next, Tick, Threads

LEMMA ShownStep == IInv /\ [Next]_vars => IInv'
<1> SUFFICES ASSUME IInv, [Next]_vars PROVE IInv'
  OBVIOUS
<1>1. TypeOK' /\ HandleHeld'
  BY TypeStep, HandleStep DEF IInv
<1>2. CASE LedsAgain
  <2>1. ~ledsInit' /\ UNCHANGED <<open, queued, cache, dirty, shown, missed>>
    BY <1>2 DEF LedsAgain
  <2> QED
    BY <1>1, <2>1 DEF IInv, QueueIsCached, CacheIsShown, Nothing
<1>3. CASE UNCHANGED shownVars
  BY <1>1, <1>3 DEF shownVars, IInv, QueueIsCached, CacheIsShown, Nothing
<1>4. CASE Push
  BY <1>1, <1>4, PushShown DEF IInv
<1>5. ASSUME NEW d \in Devices, Closed(d) PROVE IInv'
  BY <1>1, <1>5, ClosedShown DEF IInv
<1>6. ASSUME NEW d \in Devices, Open(d) PROVE IInv'
  BY <1>1, <1>6, OpenShown DEF IInv
<1>7. ASSUME NEW p \in Parts, Send(p) PROVE IInv'
  BY <1>1, <1>7, SendShown DEF IInv
<1> QED
  BY <1>2, <1>3, <1>4, <1>5, <1>6, <1>7, OthersShown

LEMMA InitHolds == Init => IInv
<1>1. Init => HandleHeld /\ QueueIsCached /\ CacheIsShown
  BY DEF Init, HandleHeld, QueueIsCached, CacheIsShown, Nothing, All
<1> QED
  BY <1>1, InitTyped DEF IInv

\* What the main thread believes to be on the UF8 is there once the queue is empty, whatever
\* was closed, opened, restarted or unplugged: every opening makes the bank dirty before the
\* next frame is compared with the cache.
THEOREM BelievedIsShown == Spec => []CacheIsShown
<1>1. Init => IInv
  BY InitHolds
<1>2. IInv /\ [Next]_vars => IInv'
  BY ShownStep
<1>3. IInv => CacheIsShown
  BY DEF IInv
<1> QED
  BY <1>1, <1>2, <1>3, PTL DEF Spec


-----------------------------------------------------------------------------
(* The bridge.                                                              *)

\* The client knows every connection it holds, and has none while it waits to reconnect.
Known ==
  /\ \A s \in Socks : mine[s] # "free" => s = sock
  /\ timer => sock = Bridge!NoSock

BridgeIInv == Bridge!TypeOK /\ (reopened \/ Known)

\* The types of the client, of the lines between the two, and of REAPER.
ClientTyped ==
  /\ wantOpen \in BOOLEAN /\ timer \in BOOLEAN /\ connected \in BOOLEAN /\ reopened \in BOOLEAN
  /\ sock \in Socks \cup {Bridge!NoSock} /\ mine \in [Socks -> {"free", "opening", "open"}]
  /\ view \in States \cup {Bridge!Unknown}
WireTyped ==
  /\ toServer \in [Socks -> Seq(Bridge!Commands)]
  /\ toClient \in [Socks -> Seq(Bridge!Lines)]
WorkerTyped ==
  /\ alive \in BOOLEAN
  /\ theirs \in [Socks -> {"none", "waiting", "in", "subscribed"}]
  /\ inQueue \in Seq(Bridge!Commands)
  /\ dueLines \in [Socks -> Seq(Bridge!Lines)]
OutTyped == outQueue \in Seq(Bridge!Lines) /\ Len(outQueue) <= OutCap
TickTyped ==
  /\ forceFull \in BOOLEAN /\ lost \in BOOLEAN
  /\ bridgePc \in {"drain", "push"} /\ cur \in States /\ last \in States \cup {Bridge!Unknown}
CountTyped == changes \in 0..MaxChange /\ bridgeStirs \in 0..MaxStir

BridgeParts == ClientTyped /\ WireTyped /\ WorkerTyped /\ OutTyped /\ TickTyped /\ CountTyped

LEMMA BridgeTyped ==
  /\ Bridge!TypeOK => BridgeParts
  /\ BridgeParts' => Bridge!TypeOK'
  /\ BridgeParts => Bridge!TypeOK
BY DEF BridgeParts, Bridge!TypeOK, ClientTyped, WireTyped, WorkerTyped, OutTyped, TickTyped, CountTyped

\* Among the sockets that remain, the new one is current.
LEMMA ConnectTyped ==
  ASSUME NEW rest, rest \in [Socks -> {"free", "opening", "open"}], Bridge!ConnectAmong(rest)
  PROVE  /\ sock' \in Socks /\ mine' = [rest EXCEPT ![sock'] = "opening"]
         /\ mine' \in [Socks -> {"free", "opening", "open"}]
BY DEF Bridge!ConnectAmong, Bridge!Fresh

LEMMA DestroyTyped ==
  ASSUME NEW S, mine \in [Socks -> {"free", "opening", "open"}],
         toClient \in [Socks -> Seq(Bridge!Lines)]
  PROVE  /\ Bridge!Destroy(S) \in [Socks -> {"free", "opening", "open"}]
         /\ Bridge!Unread(S) \in [Socks -> Seq(Bridge!Lines)]
BY DEF Bridge!Destroy, Bridge!Unread

LEMMA StirTyped == CountTyped /\ Bridge!Stir => CountTyped'
BY BridgeAssumption DEF CountTyped, Bridge!Stir, Bridge!DeckBridgeAssumption

\* A state or the greeting appended to what a connection holds.
LEMMA WireAppend ==
  ASSUME NEW q, q \in [Socks -> Seq(Bridge!Lines)], NEW s \in Socks, NEW l \in Bridge!Lines
  PROVE  [q EXCEPT ![s] = Append(@, l)] \in [Socks -> Seq(Bridge!Lines)]
OBVIOUS

LEMMA ClientTypeStep ==
  ASSUME Bridge!TypeOK, Bridge!Open \/ Bridge!Close \/ Bridge!Client
  PROVE  Bridge!TypeOK'
<1> USE DEF BridgeParts, Bridge!client, Bridge!tick, Bridge!count, Bridge!Reaper
<1>1. ClientTyped /\ WireTyped /\ WorkerTyped /\ OutTyped /\ TickTyped /\ CountTyped
  BY BridgeTyped
<1>2. ASSUME UNCHANGED Bridge!Reaper PROVE OutTyped' /\ TickTyped' /\ WorkerTyped'
  BY <1>1, <1>2 DEF OutTyped, TickTyped, WorkerTyped
<1>3. ASSUME UNCHANGED Bridge!count PROVE CountTyped'
  BY <1>1, <1>3 DEF CountTyped
<1>4. CASE Bridge!Open
  <2>1. Bridge!Destroy({sock}) \in [Socks -> {"free", "opening", "open"}]
        /\ Bridge!Unread({sock}) \in [Socks -> Seq(Bridge!Lines)]
    BY <1>1, DestroyTyped DEF ClientTyped, WireTyped
  <2>2. sock' \in Socks /\ mine' \in [Socks -> {"free", "opening", "open"}]
    BY <1>4, <2>1, ConnectTyped DEF Bridge!Open
  <2>3. ClientTyped'
    BY <1>1, <1>4, <2>2 DEF Bridge!Open, ClientTyped
  <2>4. WireTyped'
    BY <1>1, <1>4, <2>1 DEF Bridge!Open, WireTyped
  <2>5. CountTyped' /\ UNCHANGED Bridge!Reaper
    BY <1>1, <1>4, StirTyped DEF Bridge!Open
  <2> QED
    BY <1>2, <2>3, <2>4, <2>5, BridgeTyped
<1>5. CASE Bridge!Close
  <2>1. Bridge!Destroy({sock}) \in [Socks -> {"free", "opening", "open"}]
        /\ Bridge!Unread({sock}) \in [Socks -> Seq(Bridge!Lines)]
    BY <1>1, DestroyTyped DEF ClientTyped, WireTyped
  <2>2. ClientTyped'
    BY <1>1, <1>5, <2>1 DEF Bridge!Close, ClientTyped
  <2>3. WireTyped'
    BY <1>1, <1>5, <2>1 DEF Bridge!Close, WireTyped
  <2>4. CountTyped' /\ UNCHANGED Bridge!Reaper
    BY <1>1, <1>5, StirTyped DEF Bridge!Close
  <2> QED
    BY <1>2, <2>2, <2>3, <2>4, BridgeTyped
<1>6. CASE Bridge!Reconnect
  <2>1. sock' \in Socks /\ mine' \in [Socks -> {"free", "opening", "open"}]
    BY <1>1, <1>6, ConnectTyped DEF Bridge!Reconnect, ClientTyped
  <2>2. ClientTyped' /\ WireTyped'
    BY <1>1, <1>6, <2>1 DEF Bridge!Reconnect, ClientTyped, WireTyped
  <2>3. UNCHANGED <<Bridge!Reaper, Bridge!count>>
    BY <1>6 DEF Bridge!Reconnect
  <2> QED
    BY <1>2, <1>3, <2>2, <2>3, BridgeTyped
<1>7. ASSUME NEW s \in Socks, Bridge!Connected(s) PROVE Bridge!TypeOK'
  <2>1. ClientTyped'
    BY <1>1, <1>7 DEF Bridge!Connected, ClientTyped
  <2>2. "subscribe" \in Bridge!Commands
    BY DEF Bridge!Commands
  <2>3. CASE sock = Bridge!NoSock
    BY <1>1, <1>3, <1>7, <2>1, <2>3, BridgeTyped
       DEF Bridge!Connected, WireTyped, WorkerTyped, OutTyped, TickTyped
  <2>4. CASE sock # Bridge!NoSock
    <3>1. sock \in Socks
      BY <1>1, <2>4 DEF ClientTyped
    <3>2. toServer' = [toServer EXCEPT ![sock] = Append(@, "subscribe")] /\ toClient' = toClient
      BY <1>7, <2>4 DEF Bridge!Connected
    <3>3. WireTyped'
      BY <1>1, <2>2, <3>1, <3>2 DEF WireTyped
    <3> QED
      BY <1>1, <1>3, <1>7, <2>1, <3>3, BridgeTyped
         DEF Bridge!Connected, WorkerTyped, OutTyped, TickTyped
  <2> QED
    BY <2>3, <2>4
<1>8. ASSUME NEW s \in Socks, Bridge!Closed(s) PROVE Bridge!TypeOK'
  <2>1. Bridge!Destroy({s, sock}) \in [Socks -> {"free", "opening", "open"}]
        /\ Bridge!Unread({s, sock}) \in [Socks -> Seq(Bridge!Lines)]
    BY <1>1, DestroyTyped DEF ClientTyped, WireTyped
  <2>2. /\ mine' = Bridge!Destroy({s, sock}) /\ toClient' = Bridge!Unread({s, sock})
        /\ sock' = Bridge!NoSock /\ connected' = FALSE /\ timer' = (timer \/ wantOpen)
        /\ UNCHANGED <<wantOpen, view, Bridge!Reaper, Bridge!count, reopened>>
        /\ toServer' = IF theirs[s] = "none" THEN [toServer EXCEPT ![s] = <<>>] ELSE toServer
    BY <1>8 DEF Bridge!Closed
  <2>3. ClientTyped'
    BY <1>1, <2>1, <2>2 DEF ClientTyped
  <2>4. toServer' \in [Socks -> Seq(Bridge!Commands)]
    BY <1>1, <2>2 DEF WireTyped
  <2>5. WireTyped'
    BY <2>1, <2>2, <2>4 DEF WireTyped
  <2> QED
    BY <1>2, <1>3, <2>2, <2>3, <2>5, BridgeTyped
<1>9. ASSUME NEW s \in Socks, Bridge!Receive(s) PROVE Bridge!TypeOK'
  <2>1. toClient' = [toClient EXCEPT ![s] = Tail(@)] /\ toClient[s] \in Seq(Bridge!Lines)
        /\ toClient[s] # <<>>
    BY <1>1, <1>9 DEF Bridge!Receive, WireTyped
  <2>2. Tail(toClient[s]) \in Seq(Bridge!Lines)
    BY <2>1
  <2>3. ClientTyped' /\ WireTyped' /\ UNCHANGED <<Bridge!Reaper, Bridge!count>>
    BY <1>1, <1>9, <2>1, <2>2 DEF Bridge!Receive, ClientTyped, WireTyped
  <2> QED
    BY <1>2, <1>3, <2>3, BridgeTyped
<1> QED
  BY <1>4, <1>5, <1>6, <1>7, <1>8, <1>9 DEF Bridge!Client

LEMMA WorkerTypeStep ==
  ASSUME Bridge!TypeOK, Bridge!Worker
  PROVE  Bridge!TypeOK'
<1> USE DEF BridgeParts, Bridge!client, Bridge!tick, Bridge!count, Bridge!Ours
<1>1. ClientTyped /\ WireTyped /\ WorkerTyped /\ OutTyped /\ TickTyped /\ CountTyped
  BY BridgeTyped
<1>2. ASSUME UNCHANGED <<Bridge!Ours, Bridge!tick, lost>>
      PROVE  ClientTyped' /\ TickTyped' /\ CountTyped'
  BY <1>1, <1>2 DEF ClientTyped, TickTyped, CountTyped
<1>3. CASE Bridge!TakeBatch
  <2>1. /\ outQueue' = <<>>
        /\ dueLines' = [s \in Socks |-> IF theirs[s] = "subscribed" THEN outQueue ELSE <<>>]
        /\ UNCHANGED <<Bridge!Ours, toServer, toClient, alive, theirs, inQueue, Bridge!tick, lost>>
    BY <1>3 DEF Bridge!TakeBatch
  <2>2. OutTyped'
    BY <2>1, BridgeAssumption DEF OutTyped, Bridge!DeckBridgeAssumption
  <2>3. dueLines' \in [Socks -> Seq(Bridge!Lines)]
    BY <1>1, <2>1 DEF OutTyped
  <2>4. WorkerTyped' /\ WireTyped'
    BY <1>1, <2>1, <2>3 DEF WorkerTyped, WireTyped
  <2> QED
    BY <1>2, <2>1, <2>2, <2>4, BridgeTyped
<1>4. ASSUME NEW s \in Socks, Bridge!Accept(s) PROVE Bridge!TypeOK'
  <2>1. "hello" \in Bridge!Lines
    BY DEF Bridge!Lines
  <2>2. \/ toClient' = toClient
        \/ toClient' = [toClient EXCEPT ![s] = Append(@, "hello")]
    BY <1>4 DEF Bridge!Accept
  <2>3. toClient' \in [Socks -> Seq(Bridge!Lines)]
    <3>1. toClient \in [Socks -> Seq(Bridge!Lines)]
      BY <1>1 DEF WireTyped
    <3>2. [toClient EXCEPT ![s] = Append(@, "hello")] \in [Socks -> Seq(Bridge!Lines)]
      BY <2>1, <3>1, WireAppend
    <3> QED
      BY <2>2, <3>1, <3>2
  <2>4. WorkerTyped' /\ WireTyped' /\ OutTyped'
    BY <1>1, <1>4, <2>3 DEF Bridge!Accept, WorkerTyped, WireTyped, OutTyped
  <2> QED
    BY <1>2, <1>4, <2>4, BridgeTyped DEF Bridge!Accept
<1>5. ASSUME NEW s \in Socks, Bridge!Ingest(s) PROVE Bridge!TypeOK'
  <2>1. toServer[s] \in Seq(Bridge!Commands) /\ toServer[s] # <<>>
    BY <1>1, <1>5 DEF Bridge!Ingest, WireTyped
  <2>2. Tail(toServer[s]) \in Seq(Bridge!Commands) /\ Head(toServer[s]) \in Bridge!Commands
    BY <2>1
  <2>3. WorkerTyped' /\ WireTyped' /\ OutTyped'
    BY <1>1, <1>5, <2>2 DEF Bridge!Ingest, WorkerTyped, WireTyped, OutTyped
  <2> QED
    BY <1>2, <1>5, <2>3, BridgeTyped DEF Bridge!Ingest
<1>6. ASSUME NEW s \in Socks, Bridge!EndOfStream(s) PROVE Bridge!TypeOK'
  BY <1>1, <1>2, <1>6, BridgeTyped DEF Bridge!EndOfStream, WorkerTyped, WireTyped, OutTyped
<1>7. ASSUME NEW s \in Socks, Bridge!SendRaw(s) PROVE Bridge!TypeOK'
  <2>1. dueLines[s] # <<>> /\ UNCHANGED <<Bridge!Ours, alive, inQueue, outQueue, Bridge!tick, lost>>
    BY <1>7 DEF Bridge!SendRaw
  <2>2. CASE mine[s] = "free"
    <3>1. /\ dueLines' = [dueLines EXCEPT ![s] = <<>>]
          /\ theirs' = [theirs EXCEPT ![s] = "none"]
          /\ toServer' = [toServer EXCEPT ![s] = <<>>] /\ toClient' = toClient
      BY <1>7, <2>2 DEF Bridge!SendRaw
    <3>2. WorkerTyped' /\ WireTyped' /\ OutTyped'
      BY <1>1, <2>1, <3>1 DEF WorkerTyped, WireTyped, OutTyped
    <3> QED
      BY <1>2, <2>1, <3>2, BridgeTyped
  <2>3. CASE mine[s] # "free"
    <3>1. /\ dueLines' = [dueLines EXCEPT ![s] = Tail(@)]
          /\ toClient' = [toClient EXCEPT ![s] = Append(@, Head(dueLines[s]))]
          /\ UNCHANGED <<theirs, toServer>>
      BY <1>7, <2>3 DEF Bridge!SendRaw
    <3>2. dueLines[s] \in Seq(Bridge!Lines)
      BY <1>1 DEF WorkerTyped
    <3>3. Tail(dueLines[s]) \in Seq(Bridge!Lines) /\ Head(dueLines[s]) \in Bridge!Lines
      BY <2>1, <3>2
    <3>4. dueLines' \in [Socks -> Seq(Bridge!Lines)] /\ toClient' \in [Socks -> Seq(Bridge!Lines)]
      BY <1>1, <3>1, <3>3, WireAppend DEF WorkerTyped, WireTyped
    <3>5. WorkerTyped' /\ WireTyped' /\ OutTyped'
      BY <1>1, <2>1, <3>1, <3>4 DEF WorkerTyped, WireTyped, OutTyped
    <3> QED
      BY <1>2, <2>1, <3>5, BridgeTyped
  <2> QED
    BY <2>2, <2>3
<1> QED
  BY <1>3, <1>4, <1>5, <1>6, <1>7 DEF Bridge!Worker

LEMMA MainTypeStep ==
  ASSUME Bridge!TypeOK,
         \/ Bridge!Main \/ Bridge!SurfaceChanges \/ Bridge!ReaperQuits \/ Bridge!ReaperStarts
         \/ UNCHANGED bridge
  PROVE  Bridge!TypeOK'
<1> USE DEF BridgeParts, Bridge!client, Bridge!tick, Bridge!count, Bridge!Ours, ClientTyped, WireTyped,
            WorkerTyped, TickTyped
<1>1. ClientTyped /\ WireTyped /\ WorkerTyped /\ OutTyped /\ TickTyped /\ CountTyped
  BY BridgeTyped
<1>2. CASE Bridge!Drain
  BY <1>1, <1>2, BridgeTyped DEF Bridge!Drain, Bridge!Subscribed, OutTyped, CountTyped
<1>3. CASE Bridge!Push
  <2>1. /\ bridgePc' = "drain" /\ forceFull' = FALSE
        /\ UNCHANGED <<Bridge!Ours, toServer, toClient, alive, theirs, inQueue, dueLines, cur>>
    BY <1>3 DEF Bridge!Push
  <2>2. CASE UNCHANGED <<last, outQueue, lost>>
    BY <1>1, <2>1, <2>2, BridgeTyped DEF OutTyped, CountTyped
  <2>3. CASE last' = cur /\ Bridge!Broadcast(cur)
             /\ lost' = (outQueue'[Len(outQueue')] # cur)
    <3>1. cur \in Bridge!Lines
      BY <1>1 DEF Bridge!Lines
    <3>2. OutTyped'
      BY <1>1, <2>3, <3>1, BridgeAssumption
         DEF OutTyped, Bridge!Broadcast, Bridge!DeckBridgeAssumption
    <3>3. lost' \in BOOLEAN
      BY <2>3
    <3> QED
      BY <1>1, <2>1, <2>3, <3>2, <3>3, BridgeTyped DEF CountTyped
  <2> QED
    BY <1>3, <2>2, <2>3 DEF Bridge!Push
<1>4. CASE Bridge!SurfaceChanges
  <2>1. CountTyped'
    BY <1>1, <1>4, BridgeAssumption
       DEF Bridge!SurfaceChanges, CountTyped, Bridge!DeckBridgeAssumption
  <2> QED
    BY <1>1, <1>4, <2>1, BridgeTyped DEF Bridge!SurfaceChanges, OutTyped
<1>5. CASE Bridge!ReaperQuits
  <2>1. CountTyped'
    BY <1>1, <1>5, StirTyped DEF Bridge!ReaperQuits
  <2>2. OutTyped'
    BY <1>5, BridgeAssumption DEF Bridge!ReaperQuits, OutTyped, Bridge!DeckBridgeAssumption
  <2>3. Bridge!Silent \in [Socks -> Seq(Bridge!Commands)]
        /\ Bridge!Silent \in [Socks -> Seq(Bridge!Lines)]
    BY DEF Bridge!Silent
  <2>4. UNCHANGED <<Bridge!client, reopened, toClient, cur>>
        /\ alive' = FALSE /\ theirs' = [s \in Socks |-> "none"]
        /\ toServer' = Bridge!Silent /\ dueLines' = Bridge!Silent /\ inQueue' = <<>>
        /\ bridgePc' = "drain" /\ forceFull' = FALSE /\ last' = Bridge!Unknown /\ lost' = FALSE
    BY <1>5 DEF Bridge!ReaperQuits
  <2>5. ClientTyped' /\ WireTyped'
    BY <1>1, <2>3, <2>4
  <2>6. WorkerTyped'
    <3>1. alive' \in BOOLEAN
      BY <2>4
    <3>2. inQueue' = <<>>
      BY <2>4
    <3>3. inQueue' \in Seq(Bridge!Commands)
      BY <3>2
    <3>4. theirs' \in [Socks -> {"none", "waiting", "in", "subscribed"}]
      BY <2>4
    <3>5. dueLines' \in [Socks -> Seq(Bridge!Lines)]
      BY <2>3, <2>4
    <3> QED
      BY <3>1, <3>3, <3>4, <3>5
  <2>7. TickTyped'
    BY <1>1, <2>4
  <2> QED
    BY <2>1, <2>2, <2>5, <2>6, <2>7, BridgeTyped
<1>6. CASE Bridge!ReaperStarts
  BY <1>1, <1>6, BridgeTyped DEF Bridge!ReaperStarts, OutTyped, CountTyped
<1>7. CASE UNCHANGED bridge
  <2>1. ClientTyped' /\ WireTyped'
    BY <1>1, <1>7 DEF bridge
  <2>2. WorkerTyped' /\ OutTyped'
    BY <1>1, <1>7 DEF bridge, OutTyped
  <2>3. TickTyped' /\ CountTyped'
    BY <1>1, <1>7 DEF bridge, CountTyped
  <2> QED
    BY <2>1, <2>2, <2>3, BridgeTyped
<1> QED
  BY <1>2, <1>3, <1>4, <1>5, <1>6, <1>7 DEF Bridge!Main

\* A step of the bridge, or none.
BridgeStep == Bridge!Next \/ UNCHANGED bridge

LEMMA BridgeTypeStep == Bridge!TypeOK /\ BridgeStep => Bridge!TypeOK'
BY ClientTypeStep, WorkerTypeStep, MainTypeStep DEF BridgeStep, Bridge!Next

LEMMA BridgeInitTyped == Bridge!Init => Bridge!TypeOK
<1> SUFFICES ASSUME Bridge!Init PROVE Bridge!TypeOK
  OBVIOUS
<1>1. OutCap \in Nat /\ MaxChange \in Nat /\ MaxStir \in Nat
  BY BridgeAssumption DEF Bridge!DeckBridgeAssumption
<1>2. ClientTyped
  BY DEF ClientTyped, Bridge!Init
<1>3. WireTyped
  BY DEF WireTyped, Bridge!Init, Bridge!Silent
<1>4. WorkerTyped
  BY DEF WorkerTyped, Bridge!Init, Bridge!Silent
<1>5. OutTyped
  BY <1>1 DEF OutTyped, Bridge!Init
<1>6. TickTyped
  BY DEF TickTyped, Bridge!Init
<1>7. CountTyped
  BY <1>1 DEF CountTyped, Bridge!Init
<1> QED
  BY <1>2, <1>3, <1>4, <1>5, <1>6, <1>7, BridgeTyped DEF BridgeParts

\* A connection is made where there was none, and the end of one is the end of the
\* current one.
LEMMA KnownStep ==
  ASSUME BridgeIInv, BridgeStep
  PROVE  reopened' \/ Known'
<1> USE DEF BridgeIInv, Bridge!Reaper, Bridge!count
<1>1. Bridge!NoSock \notin Socks
  BY BridgeAssumption DEF Bridge!DeckBridgeAssumption, Bridge!NoSock
<1>2. mine \in [Socks -> {"free", "opening", "open"}] /\ timer \in BOOLEAN
  BY BridgeTyped DEF BridgeParts, ClientTyped
<1>3. ASSUME reopened PROVE reopened'
  <2>1. Bridge!Open \/ Bridge!Close \/ Bridge!Client => reopened'
    BY <1>3 DEF Bridge!Open, Bridge!Close, Bridge!Client, Bridge!Reconnect, Bridge!Connected,
                Bridge!Closed, Bridge!Receive
  <2>2. Bridge!Worker => reopened'
    BY <1>3 DEF Bridge!Worker, Bridge!TakeBatch, Bridge!Accept, Bridge!Ingest,
                Bridge!EndOfStream, Bridge!SendRaw, Bridge!Ours
  <2>3. Bridge!Main \/ Bridge!SurfaceChanges \/ Bridge!ReaperQuits \/ Bridge!ReaperStarts
          \/ UNCHANGED bridge => reopened'
    BY <1>3 DEF Bridge!Main, Bridge!Drain, Bridge!Push, Bridge!SurfaceChanges,
                Bridge!ReaperQuits, Bridge!ReaperStarts, Bridge!Ours, bridge
  <2> QED
    BY <2>1, <2>2, <2>3 DEF BridgeStep, Bridge!Next
<1>4. ASSUME Known, Bridge!Open PROVE reopened' \/ Known'
  <2>1. CASE timer
    BY <1>4, <2>1 DEF Bridge!Open
  <2>2. CASE ~timer
    <3>1. \A s \in Socks : Bridge!Destroy({sock})[s] = "free"
      BY <1>2, <1>4 DEF Known, Bridge!Destroy
    <3>2. Bridge!Destroy({sock}) \in [Socks -> {"free", "opening", "open"}]
      BY <1>2 DEF Bridge!Destroy
    <3>3. mine' = [Bridge!Destroy({sock}) EXCEPT ![sock'] = "opening"] /\ timer' = timer
      BY <1>4 DEF Bridge!Open, Bridge!ConnectAmong
    <3> QED
      BY <2>2, <3>1, <3>2, <3>3 DEF Known
  <2> QED
    BY <2>1, <2>2
<1>5. ASSUME Known, Bridge!Reconnect PROVE Known'
  <2>1. \A s \in Socks : mine[s] = "free"
    BY <1>1, <1>5 DEF Known, Bridge!Reconnect
  <2>2. mine' = [mine EXCEPT ![sock'] = "opening"] /\ timer' = FALSE
    BY <1>5 DEF Bridge!Reconnect, Bridge!ConnectAmong
  <2> QED
    BY <1>2, <2>1, <2>2 DEF Known
<1>6. ASSUME Known, Bridge!Close PROVE Known'
  BY <1>2, <1>6 DEF Known, Bridge!Close, Bridge!Destroy
<1>7. ASSUME Known, NEW s \in Socks, Bridge!Connected(s) PROVE Known'
  BY <1>2, <1>7 DEF Known, Bridge!Connected
<1>8. ASSUME Known, NEW s \in Socks, Bridge!Closed(s) PROVE Known'
  <2>1. mine' = Bridge!Destroy({s, sock}) /\ sock' = Bridge!NoSock
    BY <1>8 DEF Bridge!Closed
  <2> QED
    BY <1>2, <1>8, <2>1 DEF Known, Bridge!Destroy
<1>9. ASSUME UNCHANGED <<mine, sock, timer>>, Known PROVE Known'
  BY <1>9 DEF Known
<1>10. ASSUME NEW s \in Socks PROVE
         Bridge!Receive(s) \/ Bridge!Accept(s) \/ Bridge!Ingest(s) \/ Bridge!EndOfStream(s)
           \/ Bridge!SendRaw(s) => UNCHANGED <<mine, sock, timer>>
  BY DEF Bridge!Receive, Bridge!Accept, Bridge!Ingest, Bridge!EndOfStream, Bridge!SendRaw,
         Bridge!Ours, Bridge!client
<1>11. Bridge!TakeBatch \/ Bridge!Main \/ Bridge!SurfaceChanges \/ Bridge!ReaperQuits
         \/ Bridge!ReaperStarts \/ UNCHANGED bridge => UNCHANGED <<mine, sock, timer>>
  BY DEF Bridge!TakeBatch, Bridge!Main, Bridge!Drain, Bridge!Push, Bridge!SurfaceChanges,
         Bridge!ReaperQuits, Bridge!ReaperStarts, Bridge!Ours, Bridge!client, bridge
<1> QED
  BY <1>3, <1>4, <1>5, <1>6, <1>7, <1>8, <1>9, <1>10, <1>11
     DEF BridgeStep, Bridge!Next, Bridge!Client, Bridge!Worker

-----------------------------------------------------------------------------
(* The two together.                                                        *)

LinesIInv == IInv /\ BridgeIInv

LEMMA LinesStart == LinesInit => LinesIInv
<1>1. LinesInit => Init /\ Bridge!Init
  BY DEF LinesInit, UsbStill, BridgeStill
<1>2. Bridge!Init => Known
  BY DEF Bridge!Init, Known
<1> QED
  BY <1>1, <1>2, InitHolds, BridgeInitTyped DEF LinesIInv, BridgeIInv

LEMMA LinesSteps == LinesIInv /\ [LinesNext]_lines => LinesIInv'
<1>1. [LinesNext]_lines => [Next]_vars /\ BridgeStep
  BY DEF LinesNext, lines, BridgeStep
<1>2. BridgeIInv /\ BridgeStep => BridgeIInv'
  BY BridgeTypeStep, KnownStep DEF BridgeIInv
<1> QED
  BY <1>1, <1>2, ShownStep DEF LinesIInv

\* Every variable of the surfaces and of the bridge keeps its type; the queue of the
\* bridge stays within its bound (StreamDeckBridge.cpp, broadcast).
THEOREM LinesTypeCorrect == LinesSpec => []TypesOK
<1>1. LinesIInv => TypesOK
  BY DEF LinesIInv, IInv, BridgeIInv, TypesOK
<1> QED
  BY <1>1, LinesStart, LinesSteps, PTL DEF LinesSpec

\* However often REAPER ends and the settings change, the client holds one connection at
\* most, unless it was opened again while it waited to reconnect: every event of a socket
\* is one of the current socket (companion/src/bridge.js, open, close, _connect).
THEOREM OneConnection == LinesSpec => []OneSocket
<1>1. LinesIInv => OneSocket
  BY DEF LinesIInv, BridgeIInv, Known, OneSocket, Bridge!OneSocket
<1> QED
  BY <1>1, LinesStart, LinesSteps, PTL DEF LinesSpec

\* What is proved of the surfaces alone holds beside the bridge.
THEOREM SurfacesBesideTheBridge == LinesSpec => [](HandleHeld /\ CacheIsShown)
<1>1. LinesIInv => HandleHeld /\ CacheIsShown
  BY DEF LinesIInv, IInv
<1> QED
  BY <1>1, LinesStart, LinesSteps, PTL DEF LinesSpec

=============================================================================
