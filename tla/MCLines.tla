------------------------------- MODULE MCLines -------------------------------
(* The lines that break and are opened anew, one at a time: part, chosen at the  *)
(* start of a behaviour, says whether it is the surfaces on the USB or Companion  *)
(* at the bridge.                                                             *)
EXTENDS UsbReopen, Sequences

CONSTANTS Socks, OutCap, WireCap, States, MaxChange

VARIABLES
  part,
  wantOpen, timer, connected, sock, mine, view, toServer, toClient, alive, theirs,
  inQueue, outQueue, dueLines, bridgePc, forceFull, cur, last, changes, bridgeStirs, lost, reopened

Bridge == INSTANCE DeckBridge WITH
  due <- dueLines, mainPc <- bridgePc, stirs <- bridgeStirs

ASSUME BridgeAssumption == Bridge!DeckBridgeAssumption

bridge ==
  <<wantOpen, timer, connected, sock, mine, view, toServer, toClient, alive, theirs,
    inQueue, outQueue, dueLines, bridgePc, forceFull, cur, last, changes, bridgeStirs, lost,
    reopened>>
lines == <<vars, bridge, part>>

\* What is shown first: values and states are interchangeable.
Plain == [p \in Parts |-> CHOOSE v \in Values : TRUE]
FirstState == CHOOSE s \in States : TRUE

\* The part that stands still is at one place.
UsbStill == Init /\ there = All(TRUE) /\ want = Plain
BridgeStill == Bridge!Init /\ alive /\ cur = FirstState

LinesInit ==
  \/ part = "usb" /\ Init /\ want = Plain /\ BridgeStill
  \/ part = "bridge" /\ Bridge!Init /\ cur = FirstState /\ UsbStill

LinesNext ==
  /\ UNCHANGED part
  /\ \/ part = "usb" /\ Next /\ UNCHANGED bridge
     \/ part = "bridge" /\ Bridge!Next /\ UNCHANGED vars

LinesSpec ==
  /\ LinesInit /\ [][LinesNext]_lines
  /\ WF_vars(part = "usb" /\ Tick) /\ WF_vars(part = "usb" /\ Threads)
  /\ WF_vars(part = "usb" /\ Clock)
  /\ WF_bridge(part = "bridge" /\ Bridge!Client)
  /\ WF_bridge(part = "bridge" /\ Bridge!Worker)
  /\ WF_bridge(part = "bridge" /\ Bridge!Main)

-----------------------------------------------------------------------------
\* The types of both parts.
TypesOK == TypeOK /\ Bridge!TypeOK

\* Companion holds one connection, unless it was opened again while it waited.
OneSocket == Bridge!OneSocket

\* Companion comes to show what the surface shows.
ViewCatchesUp ==
  \A v \in States :
    (part = "bridge" /\ alive /\ wantOpen /\ cur = v)
      ~> (view = v \/ cur # v \/ lost \/ ~alive \/ ~wantOpen)

=============================================================================
