----------------------------- MODULE CdpConnection -----------------------------
(***************************************************************************)
(* How the browser tests drive a page: CdpConnection.call and wait_event   *)
(* of scripts/browser_test_support.py under the navigation helpers of      *)
(* test-functional.py, test-fast.py and helium_test_fast.py.               *)
(*                                                                         *)
(* A test is a script of commands and waits.  call() sends a command and   *)
(* reads messages until it has the answer; whatever else it reads goes to  *)
(* a list of events.  wait_event() looks for a match in that list, then    *)
(* reads on.  Answers and events share one ordered channel, and the page   *)
(* loads while all this happens.                                           *)
(*                                                                         *)
(* Abstractions.  There is one session, and the main frame is the only     *)
(* frame: its identifier is the same for every load, so an event says what *)
(* happened but not to which load, and the field "load" is for the         *)
(* properties alone.  The browser is external.                             *)
(***************************************************************************)
EXTENDS Naturals, Sequences, SequencesExt

CONSTANTS
  Script,     \* the operations of the test, in their order
  MaxReports  \* bound: no event nobody waits for once so many are reported

Commands == {"enable", "navigate", "evaluate"}
Waits    == {"frame", "dom"}

ASSUME ConnectionAssumption ==
  /\ Script \in Seq(Commands \cup Waits) /\ Script # <<>>
  /\ MaxReports \in Nat

(* The navigation helpers: after a navigate, and nowhere else, a test      *)
(* waits for the frame and then for its DOM.                               *)
ASSUME VisitAssumption ==
  /\ Script[1] \notin Waits
  /\ \A i \in 1..(Len(Script) - 1) :
       /\ (Script[i] = "navigate") <=> (Script[i + 1] = "frame")
       /\ (Script[i] = "frame") <=> (Script[i + 1] = "dom")

VARIABLES
  created,  \* 1 if the target was created with a page to load, 0 if blank
  step,     \* how many operations of the script are done
  doing,    \* where the client is in the next one
  command,  \* next_id of the connection
  events,   \* the messages kept for later
  asked,    \* history: the load the last navigate has asked for
  taken,    \* history: the events that wait_event has returned
  astray,   \* history: whether an evaluation was in another document
  inbox,    \* the commands the browser has not handled
  channel,  \* the messages the client has not read
  owed,     \* the navigate command that is not answered, 0 if none
  enabled,  \* whether the Page domain reports events
  page,     \* the document, how far it is, and the load that may replace it
  reported  \* history: the number of events the browser has reported

client         == <<created, step, doing, command, events, asked, taken, astray>>
browser        == <<inbox, channel, owed, enabled, page, reported>>
connectionVars == <<client, browser>>

Over == {"done", "timed_out"}

Operation  == Script[step + 1]
Answer(id) == [kind |-> "answer", id |-> id, serial |-> 0, load |-> page.doc, state |-> page.state]
Event(kind, n, p) == [kind |-> kind, id |-> 0, serial |-> n, load |-> p.doc, state |-> p.state]
Report(kind) ==
  IF enabled
  THEN reported' = reported + 1 /\ channel' = Append(channel, Event(kind, reported', page'))
  ELSE UNCHANGED <<reported, channel>>
Advance    == step' = step + 1 /\ doing' = IF step' = Len(Script) THEN "done" ELSE "next"
-----------------------------------------------------------------------------
(* The browser *)

HandleEnable ==
  /\ inbox # <<>> /\ Head(inbox).method = "enable"
  /\ inbox' = Tail(inbox) /\ enabled' = TRUE
  /\ channel' = Append(channel, Answer(Head(inbox).id))
  /\ UNCHANGED <<client, owed, page, reported>>

(* A navigation that has not committed gives way to the new one. *)
HandleNavigate ==
  /\ inbox # <<>> /\ Head(inbox).method = "navigate"
  /\ inbox' = Tail(inbox) /\ owed' = Head(inbox).id
  /\ page' = [page EXCEPT !.loading = asked]
  /\ UNCHANGED <<client, channel, enabled, reported>>

AnswerNavigate ==
  /\ owed # 0
  /\ channel' = Append(channel, Answer(owed))
  /\ owed' = 0
  /\ UNCHANGED <<client, inbox, enabled, page, reported>>

HandleEvaluate ==
  /\ inbox # <<>> /\ Head(inbox).method = "evaluate"
  /\ inbox' = Tail(inbox)
  /\ channel' = Append(channel, Answer(Head(inbox).id))
  /\ UNCHANGED <<client, owed, enabled, page, reported>>

(* Page.frameNavigated *)
CommitLoad ==
  /\ page.loading # 0
  /\ page' = [doc |-> page.loading, state |-> "parsing", loading |-> 0]
  /\ Report("frame")
  /\ UNCHANGED <<client, inbox, owed, enabled>>

(* Page.domContentEventFired *)
FireDomContent ==
  /\ page.state = "parsing"
  /\ page' = [page EXCEPT !.state = "ready"]
  /\ Report("dom")
  /\ UNCHANGED <<client, inbox, owed, enabled>>

(* A console message or a request of the page. *)
ReportOther ==
  /\ reported < MaxReports
  /\ UNCHANGED page /\ Report("other")
  /\ UNCHANGED <<client, inbox, owed, enabled>>
-----------------------------------------------------------------------------
(* call *)

SendCommand ==
  /\ doing = "next" /\ Operation \in Commands
  /\ command' = command + 1
  /\ inbox' = Append(inbox, [id |-> command', method |-> Operation])
  /\ asked' = IF Operation = "navigate" THEN asked + 1 ELSE asked
  /\ doing' = "answer"
  /\ UNCHANGED <<created, step, events, taken, astray, channel, owed, enabled, page, reported>>

(* Mutant: a message that is not the answer is dropped. *)
ReceiveAnswerOnly ==
  /\ doing = "answer" /\ channel # <<>>
  /\ channel' = Tail(channel)
  /\ IF Head(channel).id = command THEN Advance ELSE UNCHANGED <<step, doing>>
  /\ UNCHANGED <<created, command, events, asked, taken, astray, inbox, owed, enabled, page, reported>>

ReceiveAnswer ==
  LET m == Head(channel) IN
  /\ doing = "answer" /\ channel # <<>>
  /\ channel' = Tail(channel)
  /\ IF m.id = command
     THEN /\ Advance
          /\ astray' = \/ astray
                       \/ Operation = "evaluate" /\ <<m.load, m.state>> # <<asked, "ready">>
          /\ UNCHANGED events
     ELSE events' = Append(events, m) /\ UNCHANGED <<step, doing, astray>>
  /\ UNCHANGED <<created, command, asked, taken, inbox, owed, enabled, page, reported>>
-----------------------------------------------------------------------------
(* wait_event *)

(* Mutant: the events that came during a call are not looked at. *)
BeginWaitUnseeing ==
  /\ doing = "next" /\ Operation \in Waits
  /\ doing' = "wait"
  /\ UNCHANGED <<created, step, command, events, asked, taken, astray, browser>>

(* Mutant: the match is not taken out of the list. *)
BeginWaitKeeping ==
  /\ doing = "next" /\ Operation \in Waits
  /\ LET matching == {i \in DOMAIN events : events[i].kind = Operation} IN
     IF matching = {}
     THEN doing' = "wait" /\ UNCHANGED <<step, taken>>
     ELSE LET i == CHOOSE i \in matching : \A j \in matching : i <= j IN
          taken' = Append(taken, events[i]) /\ Advance
  /\ UNCHANGED <<created, command, events, asked, astray, browser>>

(* The first match of the list is taken, if there is one. *)
BeginWait ==
  /\ doing = "next" /\ Operation \in Waits
  /\ LET matching == {i \in DOMAIN events : events[i].kind = Operation} IN
     IF matching = {}
     THEN doing' = "wait" /\ UNCHANGED <<step, events, taken>>
     ELSE LET i == CHOOSE i \in matching : \A j \in matching : i <= j IN
          /\ events' = RemoveAt(events, i)
          /\ taken' = Append(taken, events[i])
          /\ Advance
  /\ UNCHANGED <<created, command, asked, astray, browser>>

(* What does not match is kept. *)
ReceiveEvent ==
  /\ doing = "wait" /\ channel # <<>>
  /\ channel' = Tail(channel)
  /\ IF Head(channel).kind = Operation
     THEN taken' = Append(taken, Head(channel)) /\ Advance /\ UNCHANGED events
     ELSE events' = Append(events, Head(channel)) /\ UNCHANGED <<step, doing, taken>>
  /\ UNCHANGED <<created, command, asked, astray, inbox, owed, enabled, page, reported>>

(* The deadline of call or wait_event has passed: the test fails. *)
TimeOut ==
  /\ doing \in {"answer", "wait"}
  /\ doing' = "timed_out"
  /\ UNCHANGED <<created, step, command, events, asked, taken, astray, browser>>
-----------------------------------------------------------------------------

(* The target is there, with its first page loading or blank. *)
ConnectionInit ==
  /\ step = 0 /\ doing = "next" /\ command = 0
  /\ events = <<>> /\ taken = <<>>
  /\ created \in {0, 1} /\ asked = created /\ astray = FALSE
  /\ inbox = <<>> /\ channel = <<>> /\ owed = 0
  /\ enabled = FALSE /\ reported = 0
  /\ page = [doc |-> 0, state |-> "ready", loading |-> created]

Load    == CommitLoad \/ FireDomContent \/ ReportOther
Handle  == HandleEnable \/ HandleNavigate \/ AnswerNavigate \/ HandleEvaluate
Client  == SendCommand \/ ReceiveAnswer \/ BeginWait \/ ReceiveEvent

ConnectionNext == Load \/ Handle \/ Client \/ TimeOut

(* The test reads as long as it waits; the browser handles what it is sent *)
(* and loads what it is asked for, from this machine.                      *)
Fairness == WF_connectionVars(Client) /\ WF_connectionVars(Handle) /\ WF_connectionVars(Load)

ConnectionSpec == ConnectionInit /\ [][ConnectionNext]_connectionVars /\ Fairness
-----------------------------------------------------------------------------
(* Properties *)

Documents == 0..asked
Messages  == [kind : Waits \cup {"answer", "other"}, id : 0..Len(Script), serial : Nat,
              load : Documents, state : {"parsing", "ready"}]

(* Messages and documents are of their kinds, and of documents that were   *)
(* asked for.                                                              *)
ConnectionTypeOK ==
  /\ created \in {0, 1} /\ step \in 0..Len(Script) /\ doing \in {"next", "answer", "wait"} \cup Over
  /\ command \in 0..Len(Script) /\ asked \in created..created + command /\ astray \in BOOLEAN
  /\ events \in Seq(Messages) /\ taken \in Seq(Messages) /\ channel \in Seq(Messages)
  /\ inbox \in Seq([id : 1..Len(Script), method : Commands])
  /\ owed \in 0..Len(Script) /\ enabled \in BOOLEAN
  /\ page \in [doc : Documents, state : {"parsing", "ready"}, loading : Documents]
  /\ reported \in Nat

(* What a test evaluates after navigating is evaluated in the document it  *)
(* asked for, parsed to its end: on a target created blank the waits of    *)
(* the navigation helpers are enough, however late the events of earlier   *)
(* loads come.                                                             *)
EvaluatesRequestedPage == created = 0 => ~astray

(* No event is lost between calls and waits and none is returned twice:    *)
(* what wait_event has returned, what is kept and what is on its way are   *)
(* all that was reported, and what is kept is in the order of the reports. *)
EventsAreTakenOnce ==
  LET all    == taken \o events \o channel
      places == {i \in DOMAIN all : i > Len(taken \o events) => all[i].kind # "answer"} IN
  /\ {all[i].serial : i \in places} = 1..reported
  /\ \A i, j \in places : i < j =>
       /\ all[i].serial # all[j].serial
       /\ Len(taken) < i => all[i].serial < all[j].serial

(* A test comes to its end: no wait is for an event that has come already. *)
ScriptEnds == <>(doing \in Over)
=============================================================================
