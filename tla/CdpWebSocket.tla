------------------------------ MODULE CdpWebSocket ------------------------------
(***************************************************************************)
(* WebSocket.receive of scripts/browser_test_support.py, called again and  *)
(* again as CdpConnection does, on the stream of a browser.                *)
(*                                                                         *)
(* A message is a text frame and continuation frames; pings may come       *)
(* between them.  A frame is read in two steps, its header and its rest,   *)
(* each of which waits for bytes.  A read that waits longer than the       *)
(* socket timeout, a second, raises TimeoutError: what was read of the     *)
(* frame and of the message is forgotten, and CdpConnection calls          *)
(* receive() once more.                                                    *)
(*                                                                         *)
(* Abstractions.  The extended length, the mask and the payload are the    *)
(* rest of a frame.  The bytes of half a header or half a rest stay in the *)
(* buffer, so that each arrives whole.  Close frames and frames the        *)
(* protocol forbids do not occur, and no deadline of a call passes.        *)
(***************************************************************************)
EXTENDS Naturals, Sequences

CONSTANTS
  MaxMessages,   \* bound on the messages
  MaxFragments,  \* bound on the frames of a message
  MaxPings       \* bound on the pings

VARIABLES
  sent,       \* the messages of the browser
  unwritten,  \* what the browser has not written of the last one
  wire,       \* what the client has not read
  pings,      \* the number of pings
  pongs,      \* the number of answers to them
  reading,    \* what receive() reads next
  frame,      \* the frame the header was read of
  fragments,  \* the frames of a message that are there
  received,   \* the messages receive() has returned
  torn        \* history: whether a read has timed out inside a message

browser == <<sent, unwritten, pings>>
client  == <<pongs, reading, frame, fragments, received, torn>>
vars    == <<browser, wire, client>>

Last == Len(sent)
Texts == {<<n>> : n \in 1..MaxMessages}

Half(part, opcode, m, fin) == [part |-> part, opcode |-> opcode, message |-> m, fin |-> fin]
Frame(opcode, m, fin)      == <<Half("header", opcode, m, fin), Half("rest", opcode, m, fin)>>

(* Message m in n frames. *)
Frames(m, n) ==
  [k \in 1..(2 * n) |-> Half(IF k % 2 = 1 THEN "header" ELSE "rest",
                            IF k <= 2 THEN "text" ELSE "continuation", m,
                            IF k <= 2 * n - 2 THEN "more" ELSE "final")]
-----------------------------------------------------------------------------
(* The browser *)

Send ==
  /\ unwritten = <<>> /\ Last < MaxMessages
  /\ sent' = Append(sent, <<Last + 1>>)
  /\ \E n \in 1..MaxFragments : unwritten' = Frames(Last + 1, n)
  /\ UNCHANGED <<pings, wire, client>>

Write ==
  /\ unwritten # <<>>
  /\ wire' = Append(wire, Head(unwritten))
  /\ unwritten' = Tail(unwritten)
  /\ UNCHANGED <<sent, pings, client>>

(* A control frame may stand between any two frames. *)
Ping ==
  /\ pings < MaxPings
  /\ unwritten # <<>> => Head(unwritten).part = "header"
  /\ pings' = pings + 1
  /\ wire' = wire \o Frame("ping", 0, "final")
  /\ UNCHANGED <<sent, unwritten, client>>
-----------------------------------------------------------------------------
(* receive *)

(* The rest of a frame, taken for a header, has reserved bits or an opcode *)
(* of its own making: a CdpError ends the test.                            *)
ReadHeader ==
  /\ reading = "header" /\ wire # <<>>
  /\ wire' = Tail(wire)
  /\ frame' = Head(wire)
  /\ reading' = IF Head(wire).part = "header" THEN "rest" ELSE "error"
  /\ UNCHANGED <<browser, pongs, fragments, received, torn>>

ReadPing ==
  /\ reading = "rest" /\ wire # <<>> /\ frame.opcode = "ping"
  /\ wire' = Tail(wire)
  /\ pongs' = pongs + 1 /\ reading' = "header"
  /\ UNCHANGED <<browser, frame, fragments, received, torn>>

(* Mutant: a message is returned at its first frame, and at each other. *)
ReadDataEarly ==
  /\ reading = "rest" /\ wire # <<>> /\ frame.opcode \in {"text", "continuation"}
  /\ wire' = Tail(wire)
  /\ reading' = "header" /\ received' = Append(received, <<frame.message>>)
  /\ UNCHANGED <<browser, pongs, frame, fragments, torn>>

(* A text frame begins a message, a continuation goes on with one. *)
ReadData ==
  /\ reading = "rest" /\ wire # <<>> /\ frame.opcode \in {"text", "continuation"}
  /\ wire' = Tail(wire)
  /\ \/ /\ (frame.opcode = "text") # (fragments = <<>>)
        /\ reading' = "error"
        /\ UNCHANGED <<fragments, received>>
     \/ /\ (frame.opcode = "text") = (fragments = <<>>)
        /\ reading' = "header"
        /\ IF frame.fin = "final"
           THEN fragments' = <<>> /\ received' = Append(received, <<frame.message>>)
           ELSE fragments' = Append(fragments, frame.message) /\ UNCHANGED received
  /\ UNCHANGED <<browser, pongs, frame, torn>>

(* The locals of receive() are gone; it is called again. *)
TimeOut ==
  /\ wire = <<>> /\ reading \in {"header", "rest"}
  /\ reading' = "header" /\ fragments' = <<>>
  /\ torn' = (torn \/ reading = "rest" \/ fragments # <<>>)
  /\ UNCHANGED <<browser, wire, pongs, frame, received>>
-----------------------------------------------------------------------------
Init ==
  /\ sent = <<>> /\ unwritten = <<>> /\ wire = <<>>
  /\ pings = 0 /\ pongs = 0
  /\ reading = "header" /\ frame = Half("rest", "ping", 0, "final")
  /\ fragments = <<>> /\ received = <<>> /\ torn = FALSE

Browser == Send \/ Write \/ Ping
Receive == ReadHeader \/ ReadPing \/ ReadData

Next == Browser \/ Receive \/ TimeOut

(* The browser writes what it has begun to send; the client reads on.      *)
Fairness == WF_vars(Write) /\ WF_vars(Receive)

Spec == Init /\ [][Next]_vars /\ Fairness
-----------------------------------------------------------------------------
(* Properties *)

(* Frames, headers and counters are of their kinds. *)
Halves == [part : {"header", "rest"}, opcode : {"text", "continuation", "ping"},
           message : 0..MaxMessages, fin : {"more", "final"}]
TypeOK ==
  /\ sent \in Seq(Texts) /\ received \in Seq(Texts)
  /\ unwritten \in Seq(Halves) /\ wire \in Seq(Halves) /\ frame \in Halves
  /\ pings \in 0..MaxPings /\ pongs \in 0..MaxPings
  /\ reading \in {"header", "rest", "error"}
  /\ fragments \in Seq(1..MaxMessages) /\ torn \in BOOLEAN

(* What is sent is received in the end, and every ping is answered, unless *)
(* the stream once stopped for a second inside a message: no stream of     *)
(* well-formed frames is refused otherwise.                                *)
AllReceived ==
  /\ \A n \in 1..MaxMessages : (Len(sent) >= n) ~> (Len(received) >= n \/ torn)
  /\ \A n \in 1..MaxPings : (pings >= n) ~> (pongs >= n \/ torn)
=============================================================================
