----------------------------- MODULE CdpTransports -----------------------------
(***************************************************************************)
(* The two transports of scripts/browser_test_support.py behind one        *)
(* CdpConnection.  A connection is given a WebSocket (CdpWebSocket) or a   *)
(* PipeTransport (CdpPipe) when it is made and keeps it; test-functional   *)
(* has a test of either kind.  To the connection they are the same: here   *)
(* they are shown to keep one promise, MessageChannel.                     *)
(***************************************************************************)
EXTENDS Naturals, Sequences

CONSTANTS
  MaxMessages, MaxFragments, MaxPings,  \* bounds of the WebSocket
  MaxCommands, Capacity, MaxTimeOuts    \* bounds and size of the pipes

ASSUME TransportAssumption ==
  /\ {MaxMessages, MaxFragments, MaxPings, MaxCommands, MaxTimeOuts} \subseteq Nat
  /\ Capacity \in Nat \ {0}

VARIABLES
  transport,       \* what the connection was given
  sent, received,  \* by the browser, and by receive()
  unwritten, wire, pings, pongs, reading, frame, fragments, torn,  \* of CdpWebSocket
  commands, payload, ended, outward, pending, handled, reply, inward,
  buffer, timeouts                                            \* of CdpPipe

Socket == INSTANCE CdpWebSocket
Pipe   == INSTANCE CdpPipe

messages      == <<transport, sent, received>>
ofSocket      == <<unwritten, wire, pings, pongs, reading, frame, fragments, torn>>
ofPipe        == <<commands, payload, ended, outward, pending, handled, reply, inward,
                   buffer, timeouts>>
transportVars == <<messages, ofSocket, ofPipe>>

TransportInit ==
  /\ transport \in {"WebSocket", "PipeTransport"}
  /\ Socket!Init /\ Pipe!Init

OverSocket(A) == transport = "WebSocket" /\ A /\ UNCHANGED <<transport, ofPipe>>
OverPipe(A)   == transport = "PipeTransport" /\ A /\ UNCHANGED <<transport, ofSocket>>

TransportNext == OverSocket(Socket!Next) \/ OverPipe(Pipe!Next)

(* Each keeps its own fairness; that of the one not in use asks nothing.   *)
TransportSpec == TransportInit /\ [][TransportNext]_transportVars /\ Socket!Fairness /\ Pipe!Fairness
-----------------------------------------------------------------------------
(* Properties *)

(* The transport in use is in a state of its own, the other untouched.     *)
TransportTypeOK == IF transport = "WebSocket" THEN Socket!TypeOK ELSE Pipe!TypeOK

(* Either transport returns the messages of the browser whole, in their    *)
(* order and once each, however they are cut up on the way and whatever    *)
(* deadlines pass while they are read.                                     *)
Channel == INSTANCE MessageChannel WITH Messages <- Socket!Texts \cup Pipe!Texts
IsChannel == Channel!Spec

(* So do the pipes with the commands to the browser, though they fill up   *)
(* and a write may take part of a message only.                            *)
CommandsAreWhole == Pipe!CommandsAreWhole

(* What is sent is received in the end: over a socket, however messages    *)
(* are cut into frames and wherever pings stand, unless the stream stopped *)
(* for a second inside a message; and over pipes, unless the test ends.    *)
AllReceived ==
  /\ transport = "WebSocket" => Socket!AllReceived
  /\ transport = "PipeTransport" => Pipe!AllAnswered
=============================================================================
