-------------------------------- MODULE CdpPipe --------------------------------
(***************************************************************************)
(* PipeTransport of scripts/browser_test_support.py: commands go to the    *)
(* browser on one pipe, and receive() takes its messages from another.     *)
(*                                                                         *)
(* A message is its text and the NUL that ends it.  The pipe of commands   *)
(* is bounded: send() waits until it can be written to, and raises at its  *)
(* deadline, which ends the test.  The pipe blocks, so that a write that   *)
(* has begun goes on, piece by piece, until all is written.                *)
(* receive() reads what is there into read_buffer and returns what stands  *)
(* before the first NUL; when its own deadline passes, read_buffer stays   *)
(* as it is and CdpConnection calls it once more.                          *)
(*                                                                         *)
(* Abstractions.  The text of a message is one item, however long.  The    *)
(* browser answers every command it has read, in order, and sends nothing  *)
(* else; it does not close its pipes.                                      *)
(***************************************************************************)
EXTENDS Naturals, Sequences, SequencesExt

CONSTANTS
  MaxCommands,  \* bound on the commands
  Capacity,     \* what the pipe of commands holds
  MaxTimeOuts   \* bound on the deadlines that receive() reaches

VARIABLES
  commands,  \* the commands given to send()
  payload,   \* what send() has not written of the last one
  ended,     \* whether the test has ended
  outward,   \* the pipe of commands
  pending,   \* what the browser has read of a command
  handled,   \* the commands the browser has read
  sent,      \* the messages of the browser
  reply,     \* what the browser has not written of the last one
  inward,    \* the pipe of messages
  buffer,    \* read_buffer
  received,  \* what receive() has returned
  timeouts   \* the deadlines that receive() has reached

sending   == <<commands, payload, ended>>
browser   == <<pending, handled, sent, reply>>
receiving == <<buffer, received, timeouts>>
vars      == <<sending, outward, browser, inward, receiving>>

Nul == 0
Texts == {<<n>> : n \in 1..MaxCommands}

Upto(s, n)   == SubSeq(s, 1, n)
Beyond(s, n) == SubSeq(s, n + 1, Len(s))
FirstNul(s)  == SelectInSeq(s, LAMBDA item : item = Nul)
-----------------------------------------------------------------------------
(* send *)

Send ==
  /\ ~ended /\ payload = <<>> /\ Len(commands) < MaxCommands
  /\ \E text \in {<<Len(commands) + 1>>} :
       commands' = Append(commands, text) /\ payload' = Append(text, Nul)
  /\ UNCHANGED <<ended, outward, browser, inward, receiving>>

(* Mutant: what did not fit is taken for written. *)
WriteOnce ==
  /\ payload # <<>>
  /\ \E n \in 1..Len(payload) :
       /\ Len(outward) + n <= Capacity
       /\ outward' = outward \o Upto(payload, n)
  /\ payload' = <<>>
  /\ UNCHANGED <<commands, ended, browser, inward, receiving>>

Write ==
  /\ payload # <<>>
  /\ \E n \in 1..Len(payload) :
       /\ Len(outward) + n <= Capacity
       /\ outward' = outward \o Upto(payload, n)
       /\ payload' = Beyond(payload, n)
  /\ UNCHANGED <<commands, ended, browser, inward, receiving>>

(* The deadline passes while the pipe is full and nothing is written. *)
SendTimesOut ==
  /\ Len(payload) = 2 /\ Len(outward) = Capacity
  /\ payload' = <<>> /\ ended' = TRUE
  /\ UNCHANGED <<commands, outward, browser, inward, receiving>>
-----------------------------------------------------------------------------
(* The browser *)

BrowserReads ==
  /\ outward # <<>>
  /\ outward' = Tail(outward)
  /\ IF Head(outward) = Nul
     THEN pending' = <<>> /\ handled' = Append(handled, pending)
     ELSE pending' = Append(pending, Head(outward)) /\ UNCHANGED handled
  /\ UNCHANGED <<sending, sent, reply, inward, receiving>>

BrowserAnswers ==
  /\ reply = <<>> /\ Len(sent) < Len(handled)
  /\ \E text \in {handled[Len(sent) + 1]} :
       sent' = Append(sent, text) /\ reply' = Append(text, Nul)
  /\ UNCHANGED <<sending, outward, pending, handled, inward, receiving>>

BrowserWrites ==
  /\ reply # <<>>
  /\ \E n \in 1..Len(reply) :
       inward' = inward \o Upto(reply, n) /\ reply' = Beyond(reply, n)
  /\ UNCHANGED <<sending, outward, pending, handled, sent, receiving>>
-----------------------------------------------------------------------------
(* receive, which a test calls when send() has returned *)

Calls == ~ended /\ payload = <<>>

Read ==
  /\ Calls /\ FirstNul(buffer) = 0 /\ inward # <<>>
  /\ \E n \in 1..Len(inward) :
       buffer' = buffer \o Upto(inward, n) /\ inward' = Beyond(inward, n)
  /\ UNCHANGED <<sending, outward, browser, received, timeouts>>

(* Mutant: what was read after the message is dropped with it. *)
ReturnDropping ==
  /\ Calls /\ FirstNul(buffer) # 0
  /\ received' = Append(received, Upto(buffer, FirstNul(buffer) - 1))
  /\ buffer' = <<>>
  /\ UNCHANGED <<sending, outward, browser, inward, timeouts>>

Return ==
  /\ Calls /\ FirstNul(buffer) # 0
  /\ received' = Append(received, Upto(buffer, FirstNul(buffer) - 1))
  /\ buffer' = Beyond(buffer, FirstNul(buffer))
  /\ UNCHANGED <<sending, outward, browser, inward, timeouts>>

ReceiveTimesOut ==
  /\ Calls /\ timeouts < MaxTimeOuts /\ FirstNul(buffer) = 0 /\ inward = <<>>
  /\ timeouts' = timeouts + 1
  /\ UNCHANGED <<sending, outward, browser, inward, buffer, received>>
-----------------------------------------------------------------------------
Init ==
  /\ commands = <<>> /\ payload = <<>> /\ ended = FALSE
  /\ outward = <<>> /\ inward = <<>>
  /\ pending = <<>> /\ handled = <<>> /\ sent = <<>> /\ reply = <<>>
  /\ buffer = <<>> /\ received = <<>> /\ timeouts = 0

Browser == BrowserReads \/ BrowserAnswers \/ BrowserWrites
Receive == Read \/ Return

Next == Send \/ Write \/ SendTimesOut \/ Browser \/ Receive \/ ReceiveTimesOut

(* Each process runs on; select() waits for what can be read or written.   *)
Fairness == /\ WF_vars(Write) /\ WF_vars(BrowserReads)
            /\ WF_vars(BrowserAnswers \/ BrowserWrites) /\ WF_vars(Receive)

Spec == Init /\ [][Next]_vars /\ Fairness
-----------------------------------------------------------------------------
(* Properties *)

(* Texts and their ends, in pipes of their size. *)
TypeOK ==
  /\ commands \in Seq(Texts) /\ handled \in Seq(Texts)
  /\ sent \in Seq(Texts) /\ received \in Seq(Texts)
  /\ \A items \in {payload, outward, pending, reply, inward, buffer} :
       Range(items) \subseteq {Nul} \cup UNION {Range(t) : t \in Texts}
  /\ Len(outward) <= Capacity /\ Len(payload) <= 2
  /\ timeouts \in 0..MaxTimeOuts

(* Commands come through whole, in their order and once each, also when a  *)
(* deadline has passed.                                                    *)
Commands == INSTANCE MessageChannel WITH
  Messages <- Texts, sent <- commands, received <- handled
CommandsAreWhole == Commands!Spec

(* A command that send() accepts is answered, and the answer received,     *)
(* unless the test ends.                                                   *)
AllAnswered ==
  \A n \in 1..MaxCommands : (Len(commands) >= n) ~> (Len(received) >= n \/ ended)
=============================================================================
