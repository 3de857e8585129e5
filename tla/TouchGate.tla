----------------------------- MODULE TouchGate -----------------------------
(***************************************************************************)
(* The debounced touch state of the UF8 faders (extension/src/main.cpp).    *)
(*                                                                          *)
(* Two threads share g_touchReported and g_touchReleasePending.  The        *)
(* worker thread of the UF8 handles the touch edges of the capacitive       *)
(* sensor (onUf8Input, FF 20): an on edge reports the touch at once, an off *)
(* edge only asks for a release.  The main thread walks the strips in       *)
(* commitDebouncedTouchReleases, once per timer tick, and drops a touch     *)
(* whose release was asked for and whose last press is old enough.          *)
(*                                                                          *)
(* One action is one access to a shared variable, so every interleaving of  *)
(* the two threads is a behaviour.  The clock is reduced to what the code   *)
(* asks of it: whether kTouchDebounceQuiet has passed since the last press. *)
(***************************************************************************)
EXTENDS Naturals

CONSTANT NStrips                \* 8 on the device

ASSUME NStripsAssumption == NStrips \in Nat \ {0}

Strips == 0 .. NStrips - 1

VARIABLES
  down,       \* down[s]: the last touch edge handled for strip s was an on edge
  reported,   \* g_touchReported
  pending,    \* g_touchReleasePending
  quiet,      \* quiet[s]: now - g_touchLastPress[s] >= kTouchDebounceQuiet
  pressing,   \* the strip whose on edge the worker is handling, or NoStrip
  strip,      \* s, the loop variable of commitDebouncedTouchReleases
  mainPc      \* where the main thread is in the body of that loop

vars == <<down, reported, pending, quiet, pressing, strip, mainPc>>

NoStrip == NStrips

TypeOK ==
  /\ down \in [Strips -> BOOLEAN]
  /\ reported \in [Strips -> BOOLEAN]
  /\ pending \in [Strips -> BOOLEAN]
  /\ quiet \in [Strips -> BOOLEAN]
  /\ pressing \in Strips \cup {NoStrip}
  /\ strip \in Strips
  /\ mainPc \in {"check", "clear", "exchange", "commit"}

Init ==
  /\ down = [s \in Strips |-> FALSE]
  /\ reported = [s \in Strips |-> FALSE]
  /\ pending = [s \in Strips |-> FALSE]
  /\ quiet = [s \in Strips |-> TRUE]
  /\ pressing = NoStrip
  /\ strip = 0
  /\ mainPc = "check"

-----------------------------------------------------------------------------
(* The worker thread.                                                       *)

\* state != 0: stamp the press and cancel a release that was asked for...
OnEdge(s) ==
  /\ pressing = NoStrip
  /\ ~down[s]
  /\ down' = [down EXCEPT ![s] = TRUE]
  /\ quiet' = [quiet EXCEPT ![s] = FALSE]
  /\ pending' = [pending EXCEPT ![s] = FALSE]
  /\ pressing' = s
  /\ UNCHANGED <<reported, strip, mainPc>>

\* ... then report the touch.
ReportTouch(s) ==
  /\ pressing = s
  /\ reported' = [reported EXCEPT ![s] = TRUE]
  /\ pressing' = NoStrip
  /\ UNCHANGED <<down, pending, quiet, strip, mainPc>>

\* state = 0: only ask for the release.
OffEdge(s) ==
  /\ pressing = NoStrip
  /\ down[s]
  /\ down' = [down EXCEPT ![s] = FALSE]
  /\ pending' = [pending EXCEPT ![s] = TRUE]
  /\ UNCHANGED <<reported, quiet, pressing, strip, mainPc>>

\* kTouchDebounceQuiet passes without a press of strip s.
PressAges(s) ==
  /\ ~quiet[s]
  /\ quiet' = [quiet EXCEPT ![s] = TRUE]
  /\ UNCHANGED <<down, reported, pending, pressing, strip, mainPc>>

-----------------------------------------------------------------------------
(* The main thread: commitDebouncedTouchReleases.                           *)

NextStrip == (strip + 1) % NStrips

\* Nothing to release on this strip, or pressed too recently: continue.
CheckSkip ==
  /\ mainPc = "check"
  /\ ~(pending[strip] /\ quiet[strip])
  /\ strip' = NextStrip
  /\ UNCHANGED <<down, reported, pending, quiet, pressing, mainPc>>

CheckDue ==
  /\ mainPc = "check"
  /\ pending[strip] /\ quiet[strip]
  /\ mainPc' = "clear"
  /\ UNCHANGED <<down, reported, pending, quiet, pressing, strip>>

ClearPending ==
  /\ mainPc = "clear"
  /\ pending' = [pending EXCEPT ![strip] = FALSE]
  /\ mainPc' = "exchange"
  /\ UNCHANGED <<down, reported, quiet, pressing, strip>>

\* wasReported = exchange(false); if it was not reported: continue.
DropTouch ==
  /\ mainPc = "exchange"
  /\ reported' = [reported EXCEPT ![strip] = FALSE]
  /\ \/ reported[strip] /\ mainPc' = "commit" /\ UNCHANGED strip
     \/ ~reported[strip] /\ mainPc' = "check" /\ strip' = NextStrip
  /\ UNCHANGED <<down, pending, quiet, pressing>>

\* Faulty: the request is cleared once more when the commit is done.
FinishCommitClears ==
  /\ mainPc = "commit"
  /\ pending' = [pending EXCEPT ![strip] = FALSE]
  /\ mainPc' = "check"
  /\ strip' = NextStrip
  /\ UNCHANGED <<down, reported, quiet, pressing>>

\* What the release writes: see FaderValue and FaderMotor.
FinishCommit ==
  /\ mainPc = "commit"
  /\ mainPc' = "check"
  /\ strip' = NextStrip
  /\ UNCHANGED <<down, reported, pending, quiet, pressing>>

-----------------------------------------------------------------------------
Main == CheckSkip \/ CheckDue \/ ClearPending \/ DropTouch \/ FinishCommit

Next ==
  \/ \E s \in Strips : OnEdge(s) \/ ReportTouch(s) \/ OffEdge(s) \/ PressAges(s)
  \/ Main

\* The timer keeps ticking, a handler that started finishes, time passes.
\* Nothing makes the user press or let go.
Fairness ==
  /\ WF_vars(Main)
  /\ \A s \in Strips : WF_vars(ReportTouch(s)) /\ WF_vars(PressAges(s))

Spec == Init /\ [][Next]_vars /\ Fairness

-----------------------------------------------------------------------------
(* Properties.                                                              *)

\* A strip whose finger is gone and that is still reported always has a
\* release on its way: either it is asked for, or the main thread is between
\* clearing the request and dropping the touch.  A touch that loses its
\* release keeps the motor of its strip silent until the next touch.
ReleaseOnItsWay ==
  \A s \in Strips :
    (reported[s] /\ ~down[s]) =>
      \/ pending[s]
      \/ strip = s /\ mainPc = "exchange"

\* A fader that is let go for good stops being reported (GetTouchState false),
\* however the two threads interleave.
TouchEnds ==
  \A s \in Strips : <>[](~down[s]) => <>[](~reported[s])

=============================================================================
