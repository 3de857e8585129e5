----------------------------- MODULE UsbReopen -----------------------------
(***************************************************************************)
(* The surfaces on the USB (extension/src/UF8Device.cpp, UF1Device.cpp) and    *)
(* what a tick of the main thread does about them (extension/src/main.cpp): it *)
(* restarts them all on request, opens one anew whose handle is dead, and sends *)
(* the UF8 what changed.                                                      *)
(*                                                                          *)
(* A device that is open has two threads: one sends the captured sequence that  *)
(* wakes the surface, the other sends heartbeats and, once that is over, what   *)
(* was queued.  Closing waits for both.  What the UF8 shows has two parts that   *)
(* are cached apart: the strips, sent again when the bank is dirty, and the      *)
(* global LEDs.                                                              *)
(***************************************************************************)
EXTENDS Naturals

CONSTANTS
  Devices,    \* the surfaces
  Uf8,        \* the one with strips
  Values,     \* what a part of it may show
  None,       \* no frame, or what the captured sequence leaves on the surface
  Attempts,   \* kRestartAttempts: 5
  MaxStir     \* bound: faults of the bus, restarts, changes of what is to be shown

ASSUME UsbAssumption ==
  /\ Uf8 \in Devices /\ None \notin Values
  /\ Attempts \in Nat \ {0} /\ MaxStir \in Nat

Parts == {"strips", "globals"}

VARIABLES
  \* the bus (external)
  there,    \* the device is plugged in and nobody else claims it
  balks,    \* it will refuse the next open, having been closed
  link,     \* how transfers end: "good", "dead" (NO_DEVICE, NOT_FOUND, IO), "late" (TIMEOUT)
  shown,    \* what each part of the UF8 shows
  \* the devices
  open,     \* handle_ # null; an object that did not open is not kept
  worker,   \* worker_ runs
  waking,   \* initInProgress_: initThread_ sends the sequence
  leaving,  \* shuttingDown_
  needs,    \* needsReopen_
  queued,   \* the newest frame of each part in the queue of the UF8
  \* the main thread
  mainPc,
  toClose, toOpen, \* what is left of the restart or the recovery
  asked,    \* g_restartRequest
  left,     \* g_restartAttemptsLeft
  due,      \* g_tickCounter >= g_restartNextTick
  rested,   \* five seconds since sLastReopen
  dirty,    \* g_bankDirty
  ledsInit, \* g_globalLedsInit
  want,     \* what each part should show
  cache,    \* what the main thread sent last for it
  \* bookkeeping
  stirs,
  missed    \* history: the last frame of the part was lost, or the UF8 opened since

bus == <<there, balks>>
threads == <<worker, waking, leaving, needs>>
jobs == <<mainPc, toClose, toOpen, asked, left, due, rested>>
paint == <<dirty, ledsInit, want, cache>>
vars == <<bus, link, shown, open, threads, queued, jobs, paint, stirs, missed>>

TypeOK ==
  /\ there \in [Devices -> BOOLEAN] /\ balks \in [Devices -> BOOLEAN]
  /\ link \in [Devices -> {"good", "dead", "late"}]
  /\ shown \in [Parts -> Values \cup {None}]
  /\ open \in [Devices -> BOOLEAN] /\ worker \in [Devices -> BOOLEAN]
  /\ waking \in [Devices -> BOOLEAN] /\ leaving \in [Devices -> BOOLEAN]
  /\ needs \in [Devices -> BOOLEAN]
  /\ queued \in [Parts -> Values \cup {None}] /\ cache \in [Parts -> Values \cup {None}]
  /\ want \in [Parts -> Values] /\ missed \in [Parts -> BOOLEAN]
  /\ mainPc \in {"top", "restart", "recovery", "reopen", "push"}
  /\ toClose \subseteq Devices /\ toOpen \subseteq Devices
  /\ asked \in BOOLEAN /\ due \in BOOLEAN /\ rested \in BOOLEAN
  /\ dirty \in BOOLEAN /\ ledsInit \in BOOLEAN
  /\ left \in 0 .. Attempts
  /\ stirs \in 0 .. MaxStir

Nothing == [p \in Parts |-> None]
All(value) == [d \in Devices |-> value]

\* Before the constructor has run initDevices_; the first tick does it here.
Init ==
  /\ there \in [Devices -> BOOLEAN] /\ balks = All(FALSE) /\ link = All("good")
  /\ open = All(FALSE) /\ worker = All(FALSE) /\ waking = All(FALSE)
  /\ leaving = All(FALSE) /\ needs = All(FALSE)
  /\ shown = Nothing /\ queued = Nothing /\ cache = Nothing
  /\ (\E v \in Values : want = [p \in Parts |-> v]) /\ missed = [p \in Parts |-> FALSE]
  /\ mainPc = "restart" /\ toClose = {} /\ toOpen = Devices
  /\ asked = FALSE /\ left = 0 /\ due = TRUE /\ rested = TRUE
  /\ dirty = FALSE /\ ledsInit = FALSE
  /\ stirs = 0

Stir == stirs < MaxStir /\ stirs' = stirs + 1

-----------------------------------------------------------------------------
(* A tick of the main thread *)

\* The restart that was asked for, or its next attempt, closes every device and
\* opens every device.
TakeRestart ==
  LET tries == IF asked THEN Attempts ELSE left
      now == tries > 0 /\ (asked \/ due)
  IN
  /\ mainPc = "top"
  /\ asked' = FALSE
  /\ due' = (due \/ asked)
  /\ left' = IF now THEN tries - 1 ELSE tries
  /\ mainPc' = IF now THEN "restart" ELSE "recovery"
  /\ toClose' = IF now THEN {d \in Devices : open[d]} ELSE {}
  /\ toOpen' = IF now THEN Devices ELSE {}
  /\ UNCHANGED <<bus, link, shown, open, threads, queued, rested, paint, stirs, missed>>

\* Faulty: one attempt is all.
RestartTriedOnce ==
  /\ mainPc = "restart" /\ toClose \cup toOpen = {}
  /\ left' = 0
  /\ mainPc' = "recovery"
  /\ UNCHANGED <<bus, link, shown, open, threads, queued, toClose, toOpen, asked, due, rested,
                 paint, stirs, missed>>

\* It is over when any device is open; if none is, it tries again in a second.
RestartTried ==
  /\ mainPc = "restart" /\ toClose \cup toOpen = {}
  /\ IF \E d \in Devices : open[d] THEN left' = 0 /\ UNCHANGED due
     ELSE due' = FALSE /\ UNCHANGED left
  /\ mainPc' = "recovery"
  /\ UNCHANGED <<bus, link, shown, open, threads, queued, toClose, toOpen, asked, rested,
                 paint, stirs, missed>>

\* The devices whose handles are dead are opened anew, every five seconds at most.
Recover ==
  LET stale == {d \in Devices : open[d] /\ needs[d]}
      now == stale # {} /\ rested
  IN
  /\ mainPc = "recovery"
  /\ rested' = (rested /\ ~now)
  /\ mainPc' = IF now THEN "reopen" ELSE "push"
  /\ toClose' = IF now THEN stale ELSE {}
  /\ toOpen' = IF now THEN stale ELSE {}
  /\ UNCHANGED <<bus, link, shown, open, threads, queued, asked, left, due, paint, stirs,
                 missed>>

\* The tick ends there.
Recovered ==
  /\ mainPc = "reopen" /\ toClose \cup toOpen = {}
  /\ mainPc' = "top"
  /\ UNCHANGED <<bus, link, shown, open, threads, queued, toClose, toOpen, asked, left, due,
                 rested, paint, stirs, missed>>

\* close() asks both threads to leave; the recovery turns to the next device when the
\* one before it is open.
BeginClose(d) ==
  /\ d \in toClose /\ leaving = All(FALSE)
  /\ mainPc = "reopen" => toOpen \subseteq toClose
  /\ leaving' = [leaving EXCEPT ![d] = TRUE]
  /\ UNCHANGED <<bus, link, shown, open, worker, waking, needs, queued, jobs, paint, stirs,
                 missed>>

\* The handle is given back, and what was queued goes with the device.
Release(d) ==
  /\ leaving' = [leaving EXCEPT ![d] = FALSE]
  /\ open' = [open EXCEPT ![d] = FALSE]
  /\ needs' = [needs EXCEPT ![d] = FALSE]
  /\ link' = [link EXCEPT ![d] = "good"]
  /\ queued' = IF d = Uf8 THEN Nothing ELSE queued
  /\ toClose' = toClose \ {d}
  /\ \E again \in BOOLEAN : balks' = [balks EXCEPT ![d] = again]
  /\ UNCHANGED <<there, shown, worker, waking, mainPc, toOpen, asked, left, due, rested, paint,
                 stirs, missed>>

\* Faulty: joins the worker alone.
ClosedEarly(d) == leaving[d] /\ ~worker[d] /\ Release(d)

\* Both threads are joined first.
Closed(d) == leaving[d] /\ ~worker[d] /\ ~waking[d] /\ Release(d)

\* Faulty: what the surface showed before is taken to be shown still.
OpenedClean(d) ==
  /\ shown' = IF d = Uf8 THEN Nothing ELSE shown
  /\ UNCHANGED <<dirty, missed>>

\* What opening does besides: the sequence blanks the UF8 and its strips will be sent.
Opened(d) ==
  IF d # Uf8 THEN UNCHANGED <<shown, dirty, missed>>
  ELSE /\ shown' = Nothing
       /\ dirty' = TRUE
       /\ missed' = [p \in Parts |-> p = "globals" /\ ledsInit]

Open(d) ==
  /\ d \in toOpen \ toClose /\ leaving = All(FALSE)
  /\ mainPc = "restart" => toClose = {}
  /\ toOpen' = toOpen \ {d}
  /\ IF there[d] /\ ~balks[d]
     THEN /\ open' = [open EXCEPT ![d] = TRUE]
          /\ worker' = [worker EXCEPT ![d] = TRUE]
          /\ waking' = [waking EXCEPT ![d] = TRUE]
          /\ Opened(d)
          /\ UNCHANGED balks
     ELSE /\ balks' = [balks EXCEPT ![d] = balks[d] /\ ~there[d]]
          /\ UNCHANGED <<shown, open, worker, waking, dirty, missed>>
  /\ UNCHANGED <<there, link, leaving, needs, queued, mainPc, toClose, asked, left, due,
                 rested, ledsInit, want, cache, stirs>>

\* What is sent: a part that changed, all strips of a dirty bank, all LEDs not sent yet.
ToSend ==
  {p \in Parts : cache[p] # want[p] \/ (p = "strips" /\ dirty)
                   \/ (p = "globals" /\ ~ledsInit)}

Push ==
  /\ mainPc = "push"
  /\ mainPc' = "top"
  /\ IF open[Uf8]
     THEN /\ queued' = [p \in Parts |-> IF p \in ToSend THEN want[p] ELSE queued[p]]
          /\ cache' = want
          /\ missed' = [p \in Parts |-> missed[p] /\ p \notin ToSend]
          /\ dirty' = FALSE
          /\ ledsInit' = TRUE
     ELSE UNCHANGED <<queued, cache, missed, dirty, ledsInit>>
  /\ UNCHANGED <<bus, link, shown, open, threads, toClose, toOpen, asked, left, due, rested,
                 want, stirs>>

GapEnds ==
  /\ ~due /\ due' = TRUE
  /\ UNCHANGED <<bus, link, shown, open, threads, queued, mainPc, toClose, toOpen, asked,
                 left, rested, paint, stirs, missed>>

Rests ==
  /\ ~rested /\ rested' = TRUE
  /\ UNCHANGED <<bus, link, shown, open, threads, queued, mainPc, toClose, toOpen, asked,
                 left, due, paint, stirs, missed>>

-----------------------------------------------------------------------------
(* The two threads of a device *)

\* The sequence runs to its end, or ends early: asked to leave, or a transfer failed.
WakeEnds(d) ==
  /\ waking[d]
  /\ waking' = [waking EXCEPT ![d] = FALSE]
  /\ UNCHANGED <<bus, link, shown, open, worker, leaving, needs, queued, jobs, paint, stirs,
                 missed>>

\* A frame of the queue is sent once the sequence is over; one that fails is gone.
Send(p) ==
  /\ worker[Uf8] /\ ~waking[Uf8] /\ queued[p] # None
  /\ queued' = [queued EXCEPT ![p] = None]
  /\ IF link[Uf8] = "good" THEN shown' = [shown EXCEPT ![p] = queued[p]] /\ UNCHANGED missed
     ELSE missed' = [missed EXCEPT ![p] = TRUE] /\ UNCHANGED shown
  /\ UNCHANGED <<bus, link, open, threads, jobs, paint, stirs>>

\* Fifty heartbeats in a row failed in a way that says the handle is dead.
NoteStale(d) ==
  /\ worker[d] /\ link[d] = "dead" /\ ~needs[d]
  /\ needs' = [needs EXCEPT ![d] = TRUE]
  /\ UNCHANGED <<bus, link, shown, open, worker, waking, leaving, queued, jobs, paint, stirs,
                 missed>>

WorkerEnds(d) ==
  /\ worker[d] /\ leaving[d]
  /\ worker' = [worker EXCEPT ![d] = FALSE]
  /\ UNCHANGED <<bus, link, shown, open, waking, leaving, needs, queued, jobs, paint, stirs,
                 missed>>

\* A key bound to "restart", read by the worker, or the action of REAPER.
AskRestart ==
  /\ Stir /\ asked' = TRUE
  /\ UNCHANGED <<bus, link, shown, open, threads, queued, mainPc, toClose, toOpen, left, due,
                 rested, paint, missed>>

-----------------------------------------------------------------------------
(* Surroundings *)

Trouble ==
  /\ Stir /\ UNCHANGED <<balks, shown, open, threads, queued, jobs, paint, missed>>

\* Transfers over an open handle begin to fail; those to a device that is there may
\* succeed again.
LinkFails(d) ==
  /\ Trouble /\ open[d] /\ link[d] = "good"
  /\ \E how \in {"dead", "late"} : link' = [link EXCEPT ![d] = how]
  /\ UNCHANGED there

LinkRecovers(d) ==
  /\ there[d] /\ link[d] # "good"
  /\ link' = [link EXCEPT ![d] = "good"]
  /\ UNCHANGED <<bus, shown, open, threads, queued, jobs, paint, stirs, missed>>

Plugged(d) ==
  /\ Trouble
  /\ there' = [there EXCEPT ![d] = ~@]
  /\ link' = IF open[d] THEN [link EXCEPT ![d] = "dead"] ELSE link

\* REAPER or the user changes what a part of the UF8 should show.
Change(p) ==
  /\ Stir
  /\ \E value \in Values \ {want[p]} : want' = [want EXCEPT ![p] = value]
  /\ UNCHANGED <<bus, link, shown, open, threads, queued, jobs, dirty, ledsInit, cache, missed>>

\* The modifier keys or the bindings change: all global LEDs are sent again.
LedsAgain ==
  /\ Stir
  /\ ledsInit' = FALSE
  /\ UNCHANGED <<bus, link, shown, open, threads, queued, jobs, dirty, want, cache, missed>>

-----------------------------------------------------------------------------
Tick ==
  \/ TakeRestart \/ RestartTried \/ Recover \/ Recovered \/ Push
  \/ \E d \in Devices : BeginClose(d) \/ Closed(d) \/ Open(d)

Threads == (\E d \in Devices : WakeEnds(d) \/ WorkerEnds(d)) \/ \E p \in Parts : Send(p)

Clock == GapEnds \/ Rests

Next ==
  \/ Tick \/ Threads \/ Clock
  \/ \E d \in Devices : NoteStale(d) \/ LinkFails(d) \/ LinkRecovers(d) \/ Plugged(d)
  \/ \E p \in Parts : Change(p)
  \/ AskRestart \/ LedsAgain

\* The timer ticks, time passes, and the threads go on with what they have to do.
Fairness == WF_vars(Tick) /\ WF_vars(Threads) /\ WF_vars(Clock)

Spec == Init /\ [][Next]_vars /\ Fairness

-----------------------------------------------------------------------------
\* Nobody uses a handle that was given back: while a thread of a device runs, the
\* device is open, also while a restart waits for a sequence that is still being sent
\* (UF8Device.cpp, close).
HandleHeld == \A d \in Devices : worker[d] \/ waking[d] => open[d]

\* What the main thread believes to be on the surface is there once the queue is empty,
\* whatever was closed and opened in between; but for frames that were lost on the way,
\* and for global LEDs since the surface was opened (main.cpp, pushZonesForVisibleSlots,
\* sendUf8GlobalLed).
CacheIsShown ==
  \A p \in Parts :
    (open[Uf8] /\ queued[p] = None /\ cache[p] # None /\ ~(p = "strips" /\ dirty))
      => shown[p] = cache[p] \/ missed[p] \/ (p = "globals" /\ ~ledsInit)

\* A restart that has closed everything does not give up while a surface is plugged in,
\* although a surface refuses the first open after a close (main.cpp, g_restartAttemptsLeft).
RestartComesBack ==
  (left > 0 /\ open = All(FALSE))
    ~> (\E d \in Devices : open[d]) \/ there = All(FALSE)

=============================================================================
