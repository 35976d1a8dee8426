------------------------- MODULE LinuxTests_proofs --------------------------
(***************************************************************************)
(* Proofs about what the Linux tests rest on.                              *)
(*                                                                         *)
(* LinuxGates: which gates, builds and tests a result depends on, for      *)
(* every set of profiles and images and any number of updates, with        *)
(* failing gates and commands that die anywhere.                           *)
(*                                                                         *)
(* CdpTransports and CdpConnection: how a test drives the browser it       *)
(* tests, for every script of a test that waits for its navigations, every *)
(* number of messages, pings and deadlines, and every size of pipe.  The   *)
(* three share no variable and no constant.                                *)
(***************************************************************************)
EXTENDS LinuxGates, CdpTransports, CdpConnection, FiniteSets, Sequences, SequenceTheorems,
        WellFoundedInduction, TLAPS

(* The report of Gate D names a profile whose graph the gate has passed,   *)
(* the graph of a profile is its own, and a build that runs has asked.     *)
GatedInv ==
  /\ gateD # None => \E g \in verified : g.profile = gateD.profile
  /\ \A p \in Profiles : graph[p] # None => graph[p].profile = p
  /\ pc \in {"ninja", "built"} => \E g \in verified : g.profile = job
-----------------------------------------------------------------------------

(* What GN generates for a profile is a graph of that profile. *)
LEMMA NewGraph ==
  ASSUME TypeOK, NEW p \in Profiles
  PROVE  LET g == [profile |-> p, source |-> source, image |-> image] IN
         g \in Graphs /\ g # None /\ g.profile = p
<1> DEFINE g == [profile |-> p, source |-> source, image |-> image]
<1>1. g \in Graphs
  BY DEF TypeOK, Graphs
<1>2. QED BY <1>1, NoneAssumption

(* A step of a gate keeps the types. *)
LEMMA TypeGates ==
  ASSUME TypeOK, Gates
  PROVE  TypeOK'
<1> USE DEF Resting, Busy, Rest, At, Goto, Fails, reports, out, history
<1>1. CASE GateC
  BY <1>1 DEF TypeOK, GateC
<1>2. ASSUME NEW p \in Profiles, GenerateGraph(p)
      PROVE  TypeOK'
  BY <1>2, NewGraph DEF TypeOK, GenerateGraph
<1>3. CASE VerifyGraph
  <2>1. graph[job] \in Graphs
    BY <1>3 DEF TypeOK, VerifyGraph
  <2>2. [profile |-> job, graph |-> graph[job]] \in ReportD
    BY <2>1 DEF TypeOK, ReportD
  <2>3. QED BY <1>3, <2>1, <2>2 DEF TypeOK, VerifyGraph
<1>4. ASSUME NEW p \in Profiles, AuditGraph(p)
      PROVE  TypeOK'
  <2>1. graph[p] \in Graphs
    BY <1>4 DEF TypeOK, AuditGraph
  <2>2. \A s \in {"complete", "failed"} : [status |-> s, graph |-> graph[p]] \in ReportF
    BY <2>1 DEF ReportF
  <2>3. QED BY <1>4, <2>2 DEF TypeOK, AuditGraph
<1>5. CASE Oracle
  BY <1>5 DEF TypeOK, Oracle
<1>6. QED BY <1>1, <1>2, <1>3, <1>4, <1>5 DEF Gates

(* So does a step of a build, a test or an update, and so do the crash and *)
(* the new image.                                                          *)
LEMMA TypeStep ==
  ASSUME TypeOK, [Next]_vars
  PROVE  TypeOK'
<1> USE DEF Resting, Busy, Rest, At, Goto, Fails, reports, out, history
<1>1. ASSUME NEW p \in Profiles, Build(p)
      PROVE  TypeOK'
  BY <1>1 DEF TypeOK, Build
<1>2. ASSUME NEW p \in Profiles, Test(p)
      PROVE  TypeOK'
  BY <1>2 DEF TypeOK, Test
<1>3. CASE Ninja
  BY <1>3 DEF TypeOK, Ninja
<1>4. CASE UpdateSource
  BY <1>4, GatesAssumption DEF TypeOK, UpdateSource, GatesAssumption
<1>5. CASE DropC \/ DropD \/ DropF
  BY <1>5 DEF TypeOK, DropC, DropD, DropF
<1>6. CASE DropBuilds
  BY <1>6 DEF TypeOK, DropBuilds
<1>7. CASE Crash
  BY <1>7 DEF TypeOK, Crash
<1>8. CASE RebuildImage
  BY <1>8 DEF TypeOK, RebuildImage
<1>9. CASE UNCHANGED vars
  BY <1>9 DEF TypeOK, vars
<1>10. CASE Gates
  BY <1>10, TypeGates
<1>11. QED
  BY <1>1, <1>2, <1>3, <1>4, <1>5, <1>6, <1>7, <1>8, <1>9, <1>10 DEF Next, Make, Update

(* Whatever fails or dies, every report is of the kind its gate writes:    *)
(* no report is about a graph that is not there, and a gate that is at     *)
(* work has one.                                                           *)
THEOREM TypeCorrect == Spec => []TypeOK
<1>1. Init => TypeOK
  BY GatesAssumption DEF Init, TypeOK, Resting, GatesAssumption
<1>2. TypeOK /\ [Next]_vars => TypeOK'
  BY TypeStep
<1>3. QED BY <1>1, <1>2, PTL DEF Spec
-----------------------------------------------------------------------------

(* What Gate D has recorded stays true: verified only grows, and the graph *)
(* it is looking at is the one of the profile it will name.                *)
LEMMA GatedStep ==
  ASSUME TypeOK, GatedInv, [Next]_vars
  PROVE  GatedInv'
<1> USE DEF Resting, Busy, Rest, At, Goto, Fails, reports, out, history
<1>1. CASE GateC
  BY <1>1 DEF GatedInv, GateC
<1>2. ASSUME NEW p \in Profiles, GenerateGraph(p)
      PROVE  GatedInv'
  <2>1. graph'[p].profile = p /\ \A q \in Profiles \ {p} : graph'[q] = graph[q]
    BY <1>2, NewGraph DEF TypeOK, GenerateGraph
  <2>2. QED BY <1>2, <2>1 DEF GatedInv, GenerateGraph
<1>3. CASE VerifyGraph
  <2>1. CASE gateD' = [profile |-> job, graph |-> graph[job]]
             /\ verified' = verified \cup {graph[job]} /\ pc' = "idle"
    <3>1. graph[job].profile = job
      BY <1>3 DEF GatedInv, TypeOK, VerifyGraph
    <3>2. gateD'.profile = job
      BY <2>1
    <3>3. QED BY <1>3, <2>1, <3>1, <3>2 DEF GatedInv, VerifyGraph
  <2>2. CASE pc' = "failed" /\ UNCHANGED <<gateD, verified>>
    BY <1>3, <2>2 DEF GatedInv, VerifyGraph
  <2>3. QED BY <1>3, <2>1, <2>2 DEF VerifyGraph
<1>4. ASSUME NEW p \in Profiles, AuditGraph(p)
      PROVE  GatedInv'
  BY <1>4 DEF GatedInv, AuditGraph
<1>5. CASE Oracle
  BY <1>5 DEF GatedInv, Oracle
<1>6. ASSUME NEW p \in Profiles, Build(p)
      PROVE  GatedInv'
  BY <1>6 DEF GatedInv, Build
<1>7. ASSUME NEW p \in Profiles, Test(p)
      PROVE  GatedInv'
  BY <1>7 DEF GatedInv, Test
<1>8. CASE Ninja
  BY <1>8 DEF GatedInv, Ninja
<1>9. CASE UpdateSource \/ DropC \/ DropD \/ DropF \/ DropBuilds
  BY <1>9 DEF GatedInv, UpdateSource, DropC, DropD, DropF, DropBuilds
<1>10. CASE Crash \/ RebuildImage
  BY <1>10 DEF GatedInv, Crash, RebuildImage
<1>11. CASE UNCHANGED vars
  BY <1>11 DEF GatedInv, vars
<1>12. QED
  BY <1>1, <1>2, <1>3, <1>4, <1>5, <1>6, <1>7, <1>8, <1>9, <1>10, <1>11
     DEF Next, Gates, Make, Update

(* Whatever fails or dies, and whatever image the commands run in, Chrome  *)
(* is built only for a profile a graph of which Gate D has passed          *)
(* (build.py compares the profile its report names).                       *)
THEOREM BuildsAreGated == Spec => []BuildIsOfGatedProfile
<1>1. Init => GatedInv
  BY DEF Init, GatedInv
<1>2. TypeOK /\ GatedInv /\ [Next]_vars => GatedInv'
  BY GatedStep
<1>3. GatedInv => BuildIsOfGatedProfile
  BY DEF GatedInv, BuildIsOfGatedProfile
<1>4. QED BY <1>1, <1>2, <1>3, TypeCorrect, PTL DEF Spec
-----------------------------------------------------------------------------

Updating == {"drop_c", "drop_d", "drop_f", "drop_builds"}

(* A step of an update has taken back the reports of those before it. *)
DroppedInv ==
  /\ pc \in {"drop_d", "drop_f", "drop_builds"} => gateC = None
  /\ pc \in {"drop_f", "drop_builds"} => gateD = None
  /\ pc = "drop_builds" => gateF = None

(* But while an update is at work, build reports are of the source that is *)
(* there, and so is the graph of the profile that Gate D names.            *)
CurrentInv ==
  "crash" \notin mishaps /\ pc \notin Updating =>
    /\ \A p \in Profiles : built[p] # None => built[p].source = source
    /\ gateD # None => graph[gateD.profile].source = source
    /\ pc \in {"verify", "ninja"} => graph[job].source = source

LEMMA DroppedStep ==
  ASSUME DroppedInv, [Next]_vars
  PROVE  DroppedInv'
<1> USE DEF Resting, Rest, At, Goto, Fails, reports, out, history, DroppedInv
<1>1. CASE Gates
  BY <1>1 DEF Gates, GateC, GenerateGraph, VerifyGraph, AuditGraph, Oracle
<1>2. CASE Make
  BY <1>2 DEF Make, Build, Ninja, Test
<1>3. CASE Update
  BY <1>3 DEF Update, UpdateSource, DropC, DropD, DropF, DropBuilds
<1>4. CASE Crash \/ RebuildImage
  BY <1>4 DEF Crash, RebuildImage
<1>5. CASE UNCHANGED vars
  BY <1>5 DEF vars
<1>6. QED BY <1>1, <1>2, <1>3, <1>4, <1>5 DEF Next

LEMMA CurrentStep ==
  ASSUME TypeOK, DroppedInv, CurrentInv, [Next]_vars
  PROVE  CurrentInv'
<1> USE DEF Resting, Busy, Rest, At, Goto, Fails, reports, out, history, Updating
<1>1. CASE GateC \/ Oracle
  BY <1>1 DEF CurrentInv, GateC, Oracle
<1>2. ASSUME NEW p \in Profiles, GenerateGraph(p)
      PROVE  CurrentInv'
  <2>1. graph'[p].source = source /\ \A q \in Profiles \ {p} : graph'[q] = graph[q]
    BY <1>2 DEF TypeOK, GenerateGraph
  <2>2. gateD # None => gateD.profile \in Profiles
    BY DEF TypeOK, ReportD
  <2>3. QED BY <1>2, <2>1, <2>2 DEF CurrentInv, GenerateGraph
<1>3. CASE VerifyGraph
  <2>1. gateD' = [profile |-> job, graph |-> graph[job]] => gateD'.profile = job
    OBVIOUS
  <2>2. QED BY <1>3, <2>1 DEF CurrentInv, VerifyGraph
<1>4. ASSUME NEW p \in Profiles, AuditGraph(p)
      PROVE  CurrentInv'
  BY <1>4 DEF CurrentInv, AuditGraph
<1>5. ASSUME NEW p \in Profiles, Build(p) \/ Test(p)
      PROVE  CurrentInv'
  BY <1>5 DEF CurrentInv, Build, Test
<1>6. CASE Ninja
  BY <1>6 DEF CurrentInv, Ninja, TypeOK
<1>7. CASE UpdateSource \/ DropC \/ DropD \/ DropF
  BY <1>7 DEF CurrentInv, UpdateSource, DropC, DropD, DropF
<1>8. CASE DropBuilds
  BY <1>8 DEF CurrentInv, DroppedInv, DropBuilds
<1>9. CASE Crash \/ RebuildImage
  BY <1>9 DEF CurrentInv, Crash, RebuildImage
<1>10. CASE UNCHANGED vars
  BY <1>10 DEF CurrentInv, vars
<1>11. QED
  BY <1>1, <1>2, <1>3, <1>4, <1>5, <1>6, <1>7, <1>8, <1>9, <1>10 DEF Next, Gates, Make, Update

(* Between commands every build report is of the source that is there,     *)
(* whatever fails and whatever image is used, if no command has died since *)
(* the last complete update (lines 376-383 of prepare-source-driver.py     *)
(* take the reports back one by one).                                      *)
THEOREM BuildReportsAreCurrent == Spec => []BuildReportIsCurrent
<1>1. Init => DroppedInv /\ CurrentInv
  BY DEF Init, DroppedInv, CurrentInv
<1>2. TypeOK /\ DroppedInv /\ CurrentInv /\ [Next]_vars => (DroppedInv /\ CurrentInv)'
  BY DroppedStep, CurrentStep
<1>3. CurrentInv => BuildReportIsCurrent
  BY DEF CurrentInv, BuildReportIsCurrent, Rest, Resting, Updating
<1>4. QED BY <1>1, <1>2, <1>3, TypeCorrect, PTL DEF Spec
-----------------------------------------------------------------------------

(* The graph GN makes of a profile from the source and the image of now.   *)
Fresh(p) == [profile |-> p, source |-> source, image |-> image]

(* In a volume with one profile, until something goes wrong: behind the    *)
(* reports of the gates stands the graph of now.                           *)
AuditedFor(p) ==
  /\ gateF # None => gateD # None
  /\ gateD # None => graph[p] = Fresh(p)
  /\ gateF # None => Fresh(p) \in audited \/ pc = "oracle"
  /\ pc \in {"verify", "oracle", "ninja", "built"} => job = p /\ graph[p] = Fresh(p)
  /\ pc \in {"ninja", "built"} => Fresh(p) \in audited

AuditedInv ==
  mishaps = {} /\ pc \notin Updating => \A p \in Profiles : Alone(p) => AuditedFor(p)

(* A graph once made is there for good: who is alone has always been.      *)
LEMMA AloneBefore ==
  ASSUME TypeOK, [Next]_vars, NEW p \in Profiles, Alone(p)'
  PROVE  Alone(p) /\ \A q \in Profiles : GenerateGraph(q) => q = p
<1> USE DEF out, Alone
<1>1. ASSUME NEW q \in Profiles, GenerateGraph(q)
      PROVE  Alone(p) /\ q = p
  <2>1. graph'[q] # None /\ \A r \in Profiles \ {q} : graph'[r] = graph[r]
    BY <1>1, NewGraph DEF TypeOK, GenerateGraph
  <2>2. QED BY <2>1
<1>2. CASE \A q \in Profiles : ~GenerateGraph(q)
  <2>1. graph' = graph
    BY <1>2 DEF Next, Gates, Make, Update, GateC, VerifyGraph, AuditGraph, Oracle, Build, Ninja, Test,
                UpdateSource, DropC, DropD, DropF, DropBuilds, Crash, RebuildImage, vars
  <2>2. QED BY <1>2, <2>1
<1>3. QED BY <1>1, <1>2

LEMMA AuditedStep ==
  ASSUME TypeOK, DroppedInv, AuditedInv, [Next]_vars
  PROVE  AuditedInv'
<1> USE DEF Resting, Busy, Rest, At, Goto, Fails, reports, out, history, Updating, Fresh
<1>. SUFFICES ASSUME (mishaps = {} /\ pc \notin Updating)', NEW p \in Profiles, Alone(p)'
     PROVE  AuditedFor(p)'
  BY DEF AuditedInv
<1>1. Alone(p) /\ \A q \in Profiles : GenerateGraph(q) => q = p
  BY AloneBefore
<1>2. CASE DropBuilds
  BY <1>2 DEF DroppedInv, DropBuilds, AuditedFor
<1>3. CASE Crash \/ RebuildImage
  BY <1>3 DEF Crash, RebuildImage
<1>4. CASE UpdateSource \/ DropC \/ DropD \/ DropF
  BY <1>4 DEF UpdateSource, DropC, DropD, DropF
<1>5. CASE GateC
  <2>1. AuditedFor(p)
    BY <1>1, <1>5 DEF AuditedInv, GateC
  <2>2. QED BY <1>5, <2>1 DEF AuditedFor, GateC
<1>6. ASSUME NEW q \in Profiles, GenerateGraph(q)
      PROVE  AuditedFor(p)'
  <2>1. AuditedFor(p) /\ q = p
    BY <1>1, <1>6 DEF AuditedInv, GenerateGraph
  <2>2. QED BY <1>6, <2>1 DEF AuditedFor, GenerateGraph, TypeOK
<1>7. CASE VerifyGraph
  <2>1. AuditedFor(p)
    BY <1>1, <1>7 DEF AuditedInv, VerifyGraph
  <2>2. gateF' = gateF /\ audited' = audited
    BY <1>7 DEF VerifyGraph
  <2>4. pc' = "idle" /\ gateD' = [profile |-> job, graph |-> graph[job]] /\ UNCHANGED mishaps
    BY <1>7, <2>1 DEF VerifyGraph
  <2>5. [profile |-> job, graph |-> graph[job]] \in ReportD
    BY <1>7 DEF VerifyGraph, TypeOK, ReportD
  <2>6. gateD' # None
    BY <2>4, <2>5, NoneAssumption
  <2>7. QED BY <1>7, <2>1, <2>2, <2>4, <2>6 DEF AuditedFor, VerifyGraph
<1>8. ASSUME NEW q \in Profiles, AuditGraph(q)
      PROVE  AuditedFor(p)'
  <2>1. AuditedFor(p)
    BY <1>1, <1>8 DEF AuditedInv, AuditGraph
  <2>2. q = p
    BY <1>1, <1>8 DEF AuditGraph, Alone
  <2>3. QED BY <1>8, <2>1, <2>2 DEF AuditedFor, AuditGraph
<1>9. CASE Oracle
  <2>1. AuditedFor(p)
    BY <1>1, <1>9 DEF AuditedInv, Oracle
  <2>2. QED BY <1>9, <2>1 DEF AuditedFor, Oracle
<1>10. ASSUME NEW q \in Profiles, Build(q)
       PROVE  AuditedFor(p)'
  <2>1. AuditedFor(p)
    BY <1>1, <1>10 DEF AuditedInv, Build
  <2>2. q = p
    BY <1>1, <1>10 DEF Build, Alone
  <2>3. QED BY <1>10, <2>1, <2>2 DEF AuditedFor, Build
<1>11. CASE Ninja
  <2>1. AuditedFor(p)
    BY <1>1, <1>11 DEF AuditedInv, Ninja
  <2>2. QED BY <1>11, <2>1 DEF AuditedFor, Ninja
<1>12. ASSUME NEW q \in Profiles, Test(q)
       PROVE  AuditedFor(p)'
  <2>1. AuditedFor(p)
    BY <1>1, <1>12 DEF AuditedInv, Test
  <2>2. QED BY <1>12, <2>1 DEF AuditedFor, Test
<1>13. CASE UNCHANGED vars
  BY <1>1, <1>13 DEF AuditedInv, AuditedFor, vars
<1>14. QED
  BY <1>2, <1>3, <1>4, <1>5, <1>6, <1>7, <1>8, <1>9, <1>10, <1>11, <1>12, <1>13
     DEF Next, Gates, Make, Update

(* In a volume with one profile, any number of updates after one another   *)
(* and any number of rebuilds: the graph a successful build was made with  *)
(* is the very one both enumerations of Gate F have passed, if since the   *)
(* last complete update no gate failed, no command died and the image      *)
(* stayed.                                                                 *)
THEOREM BuildsAreAudited == Spec => []BuildIsAudited
<1>1. Init => DroppedInv /\ AuditedInv
  BY DEF Init, DroppedInv, AuditedInv, AuditedFor
<1>2. TypeOK /\ DroppedInv /\ AuditedInv /\ [Next]_vars => (DroppedInv /\ AuditedInv)'
  BY DroppedStep, AuditedStep
<1>3. TypeOK /\ AuditedInv => BuildIsAudited
  BY DEF AuditedInv, AuditedFor, BuildIsAudited, TypeOK, Updating
<1>4. QED BY <1>1, <1>2, <1>3, TypeCorrect, PTL DEF Spec
-----------------------------------------------------------------------------

(* The Chrome of a profile is the one its build report is about, except    *)
(* while ninja is at work on it.                                           *)
BuiltInv ==
  "fail" \notin mishaps /\ "crash" \notin mishaps =>
    \A p \in Profiles : built[p] # None => chrome[p] = built[p] \/ (pc = "ninja" /\ job = p)

LEMMA BuiltStep ==
  ASSUME TypeOK, BuiltInv, [Next]_vars
  PROVE  BuiltInv'
<1> USE DEF Resting, Busy, Rest, At, Goto, Fails, reports, out, history
<1>1. CASE GateC \/ VerifyGraph \/ Oracle
  BY <1>1 DEF BuiltInv, GateC, VerifyGraph, Oracle
<1>2. ASSUME NEW p \in Profiles, GenerateGraph(p) \/ AuditGraph(p) \/ Test(p)
      PROVE  BuiltInv'
  BY <1>2 DEF BuiltInv, GenerateGraph, AuditGraph, Test
<1>3. ASSUME NEW p \in Profiles, Build(p)
      PROVE  BuiltInv'
  <2>1. \A q \in Profiles \ {p} : chrome'[q] = chrome[q]
    BY <1>3 DEF Build, TypeOK
  <2>2. QED BY <1>3, <2>1 DEF BuiltInv, Build
<1>4. CASE Ninja
  BY <1>4 DEF BuiltInv, Ninja, TypeOK
<1>5. CASE UpdateSource \/ DropC \/ DropD \/ DropF
  BY <1>5 DEF BuiltInv, UpdateSource, DropC, DropD, DropF
<1>6. CASE DropBuilds
  BY <1>6 DEF BuiltInv, DropBuilds, TypeOK
<1>7. CASE Crash \/ RebuildImage
  BY <1>7 DEF BuiltInv, Crash, RebuildImage
<1>8. CASE UNCHANGED vars
  BY <1>8 DEF BuiltInv, vars
<1>9. QED BY <1>1, <1>2, <1>3, <1>4, <1>5, <1>6, <1>7, <1>8 DEF Next, Gates, Make, Update

(* The Chrome of a profile that is tested is the one its build report is   *)
(* about, whatever graphs were generated since, if no command failed or    *)
(* died since the last complete update.                                    *)
THEOREM TestedIsReported == Spec => []TestedIsBuilt
<1>1. Init => BuiltInv
  BY DEF Init, BuiltInv
<1>2. TypeOK /\ BuiltInv /\ [Next]_vars => BuiltInv'
  BY BuiltStep
<1>. DEFINE Tested == pc = "tested" => built[job] # None
<1>3. Init => Tested
  BY DEF Init
<1>4. Tested /\ [Next]_vars => Tested'
  <2> USE DEF Resting, Busy, Rest, At, Goto, Fails, reports, out, history
  <2>1. Tested /\ Gates => Tested'
    BY DEF Gates, GateC, GenerateGraph, VerifyGraph, AuditGraph, Oracle
  <2>2. Tested /\ Make => Tested'
    BY DEF Make, Build, Ninja, Test
  <2>3. Tested /\ Update => Tested'
    BY DEF Update, UpdateSource, DropC, DropD, DropF, DropBuilds
  <2>4. QED BY <2>1, <2>2, <2>3 DEF Next, Crash, RebuildImage, vars
<1>5. TypeOK /\ BuiltInv /\ Tested => TestedIsBuilt
  BY DEF BuiltInv, TestedIsBuilt, TypeOK
<1>6. QED BY <1>1, <1>2, <1>3, <1>4, <1>5, TypeCorrect, PTL DEF Spec
-----------------------------------------------------------------------------

(***************************************************************************)
(* The transports: a pipe and a socket are the one channel.                *)
(***************************************************************************)

(* Item k of the messages <<1>>, <<2>> and so on, each with its end.       *)
ItemAt(k) == IF k % 2 = 1 THEN (k + 1) \div 2 ELSE 0
(* The items from the place after the given one on.                        *)
IsStream(items, from) == \A k \in 1..Len(items) : items[k] = ItemAt(from + k)
IsNumbered(texts) == texts \in Seq(Seq(Nat)) /\ \A k \in 1..Len(texts) : texts[k] = <<k>>

(* What is on its way to the browser goes on where it has read to.         *)
CommandSeqs ==
  /\ IsNumbered(commands) /\ IsNumbered(handled) /\ Len(commands) <= MaxCommands
  /\ pending \in Seq(Nat) /\ outward \in Seq(Nat) /\ payload \in Seq(Nat)
  /\ Len(pending) <= 1 /\ Len(outward) <= Capacity /\ Len(payload) <= 2

CommandStreams ==
  LET read == 2 * Len(handled) + Len(pending) IN
  /\ IsStream(pending, 2 * Len(handled))
  /\ IsStream(outward, read) /\ IsStream(payload, read + Len(outward))

Written == 2 * Len(handled) + Len(pending) + Len(outward) + Len(payload)

(* A send that gives up leaves nothing of its message behind.              *)
CommandInv ==
  /\ CommandSeqs /\ CommandStreams
  /\ ended \in BOOLEAN
  /\ ~ended => Written = 2 * Len(commands)
  /\ ended  => (Written + 2 = 2 * Len(commands) /\ payload = <<>>)

(* What is on its way from it goes on where receive() has returned to.     *)
AnswerSeqs ==
  /\ IsNumbered(sent) /\ IsNumbered(received) /\ Len(sent) <= Len(handled)
  /\ buffer \in Seq(Nat) /\ inward \in Seq(Nat) /\ reply \in Seq(Nat)
  /\ timeouts \in 0..MaxTimeOuts

AnswerStreams ==
  LET returned == 2 * Len(received) IN
  /\ IsStream(buffer, returned)
  /\ IsStream(inward, returned + Len(buffer))
  /\ IsStream(reply, returned + Len(buffer) + Len(inward))

Returned == 2 * Len(received) + Len(buffer) + Len(inward) + Len(reply)

AnswerInv == AnswerSeqs /\ AnswerStreams /\ Returned = 2 * Len(sent)

(* Half k of message m in n frames.                                        *)
FrameIs(h, m, n, k) ==
  /\ h \in Socket!Halves /\ h.message = m
  /\ h.part = IF k % 2 = 1 THEN "header" ELSE "rest"
  /\ h.opcode = IF k <= 2 THEN "text" ELSE "continuation"
  /\ h.fin = IF k <= 2 * n - 2 THEN "more" ELSE "final"

(* What a reader knows between two halves: the messages that are complete, *)
(* whether it is inside another, what it reads next, the last header and   *)
(* the pings it has answered.                                              *)
Readers == [done : 0..Len(sent), inside : BOOLEAN, reads : {"header", "rest"},
            head : Socket!Halves, answered : 0..pings]

(* Reader s takes half h and is t.                                         *)
Takes(s, h, t) ==
  /\ h.part = s.reads
  /\ (h.opcode # "ping") =>
       (h.message = s.done + 1 /\ h.opcode = IF s.inside THEN "continuation" ELSE "text")
  /\ IF h.part = "header"
     THEN t = [s EXCEPT !.reads = "rest", !.head = h]
     ELSE /\ h = [s.head EXCEPT !.part = "rest"] /\ t.reads = "header"
          /\ IF h.opcode = "ping"
             THEN t.done = s.done /\ t.inside = s.inside /\ t.answered = s.answered + 1
             ELSE /\ t.done = (IF h.fin = "final" THEN s.done + 1 ELSE s.done)
                  /\ t.inside = (h.fin = "more") /\ t.answered = s.answered

IsRun(run, halves) == \A k \in 1..Len(halves) : Takes(run[k - 1], halves[k], run[k])

(* The reader that has read c halves of the last message in n frames.      *)
HasRead(s, n, c) ==
  /\ s.done = (IF c = 2 * n THEN Len(sent) ELSE Len(sent) - 1)
  /\ s.inside = (1 < c /\ c < 2 * n)
  /\ s.reads = (IF c % 2 = 0 THEN "header" ELSE "rest")
  /\ c % 2 = 1 => s.head = Socket!Frames(Len(sent), n)[c]
  /\ s.answered = pings

(* The reader that receive() would be, had no deadline passed inside a     *)
(* message.                                                                *)
IsClient(s) ==
  /\ s.done = Len(received) /\ s.answered = pongs
  /\ reading = "rest" => (s.reads = "rest" /\ s.head = frame)
  /\ fragments # <<>> => s.inside

(* What is not written is the end of the last message in n frames.         *)
Unwritten(n) ==
  /\ Len(unwritten) <= 2 * n
  /\ \A k \in 1..Len(unwritten) :
       unwritten[k] = Socket!Frames(Len(sent), n)[2 * n - Len(unwritten) + k]

(* A run over the wire, from the client to what is not written.            *)
Parses(run, n) ==
  /\ run \in [0..Len(wire) -> Readers] /\ IsRun(run, wire)
  /\ IsClient(run[0]) /\ HasRead(run[Len(wire)], n, 2 * n - Len(unwritten))

(* The types of the socket.                                                *)
SocketTypes ==
  /\ IsNumbered(sent) /\ IsNumbered(received)
  /\ Len(received) <= Len(sent) /\ Len(sent) <= MaxMessages
  /\ unwritten \in Seq(Socket!Halves) /\ wire \in Seq(Socket!Halves) /\ frame \in Socket!Halves
  /\ pings \in 0..MaxPings /\ pongs \in 0..pings
  /\ reading \in {"header", "rest", "error"}
  /\ fragments \in Seq(1..MaxMessages) /\ torn \in BOOLEAN

SocketInv ==
  /\ SocketTypes
  /\ \E n \in Nat \ {0} :
       Unwritten(n) /\ (reading # "error" => \E run : Parses(run, n))

(* The transport in use; the pipe of commands is at rest beside a socket.  *)
TransportInv ==
  /\ transport \in {"WebSocket", "PipeTransport"}
  /\ CommandInv
  /\ transport = "PipeTransport" => AnswerInv
  /\ transport = "WebSocket" => SocketInv

(***************************************************************************)
(* Streams: what is left of one that n items are taken from the front of,  *)
(* what two make that meet, and one message as a stream.                   *)
(***************************************************************************)

(* A part from the front of a stream, and the rest of it.                  *)
LEMMA StreamUpto ==
  ASSUME NEW s \in Seq(Nat), NEW a \in Nat, IsStream(s, a), NEW n \in 0..Len(s)
  PROVE  /\ Pipe!Upto(s, n) \in Seq(Nat) /\ Len(Pipe!Upto(s, n)) = n
         /\ IsStream(Pipe!Upto(s, n), a)
         /\ Pipe!Beyond(s, n) \in Seq(Nat) /\ Len(Pipe!Beyond(s, n)) = Len(s) - n
         /\ IsStream(Pipe!Beyond(s, n), a + n)
<1>. DEFINE m == Len(s)
<1>1. m \in Nat /\ n \in Nat /\ n <= m /\ \A k \in 1..m : s[k] \in Nat  OBVIOUS
<1>2. /\ Pipe!Upto(s, n) \in Seq(Nat) /\ Len(Pipe!Upto(s, n)) = n
      /\ \A k \in 1..n : Pipe!Upto(s, n)[k] = s[k]
  BY <1>1 DEF Pipe!Upto
<1>3. /\ Pipe!Beyond(s, n) \in Seq(Nat) /\ Len(Pipe!Beyond(s, n)) = m - n
      /\ \A k \in 1..(m - n) : Pipe!Beyond(s, n)[k] = s[n + k]
  BY <1>1 DEF Pipe!Beyond
<1>4. IsStream(Pipe!Upto(s, n), a)
  <2>1. \A k \in 1..n : k \in 1..m  BY <1>1
  <2>2. \A k \in 1..n : Pipe!Upto(s, n)[k] = ItemAt(a + k)
    BY <1>2, <2>1 DEF IsStream
  <2>. QED  BY <1>2, <2>2 DEF IsStream
<1>5. ASSUME NEW k \in 1..(m - n)
      PROVE  Pipe!Beyond(s, n)[k] = ItemAt((a + n) + k)
  <2>1. n + k \in 1..m /\ a + (n + k) = (a + n) + k  BY <1>1
  <2>. QED  BY <1>3, <2>1 DEF IsStream
<1>6. IsStream(Pipe!Beyond(s, n), a + n)
  BY <1>3, <1>5 DEF IsStream
<1>. QED  BY <1>2, <1>3, <1>4, <1>6

(* Two streams that meet.                                                  *)
LEMMA StreamConcat ==
  ASSUME NEW s \in Seq(Nat), NEW t \in Seq(Nat), NEW a \in Nat,
         IsStream(s, a), IsStream(t, a + Len(s))
  PROVE  IsStream(s \o t, a)
<1>1. /\ Len(s) \in Nat /\ Len(t) \in Nat /\ Len(s \o t) = Len(s) + Len(t)
      /\ \A k \in 1..(Len(s) + Len(t)) : (s \o t)[k] = IF k <= Len(s) THEN s[k] ELSE t[k - Len(s)]
  BY ConcatProperties
<1>2. ASSUME NEW k \in 1..(Len(s) + Len(t))
      PROVE  (s \o t)[k] = ItemAt(a + k)
  <2>1. CASE k <= Len(s)
    BY <1>1, <2>1 DEF IsStream
  <2>2. CASE k > Len(s)
    <3>1. k - Len(s) \in 1..Len(t) /\ (a + Len(s)) + (k - Len(s)) = a + k  BY <1>1, <2>2
    <3>. QED  BY <1>1, <2>2, <3>1 DEF IsStream
  <2>. QED  BY <1>1, <2>1, <2>2
<1>. QED  BY <1>1, <1>2 DEF IsStream

(* A message with its end.                                                 *)
LEMMA StreamOfText ==
  ASSUME NEW n \in Nat
  PROVE  IsStream(Append(<<n + 1>>, 0), 2 * n)
<1>. DEFINE s == Append(<<n + 1>>, 0)
<1>1. Len(s) = 2 /\ s[1] = n + 1 /\ s[2] = 0  OBVIOUS
<1>2. ItemAt(2 * n + 1) = n + 1 /\ ItemAt(2 * n + 2) = 0  BY DEF ItemAt
<1>. QED  BY <1>1, <1>2 DEF IsStream

(***************************************************************************)
(* The first NUL of a stream that begins with a message ends that message. *)
(***************************************************************************)
LEMMA StreamFirstNul ==
  ASSUME NEW s \in Seq(Nat), NEW n \in Nat, IsStream(s, 2 * n), Pipe!FirstNul(s) # 0
  PROVE  Pipe!FirstNul(s) = 2 /\ Len(s) >= 2 /\ s[1] = n + 1
<1>. DEFINE Nuls == {i \in 1..Len(s) : s[i] = 0}
<1>1. ItemAt(2 * n + 1) = n + 1 /\ ItemAt(2 * n + 2) = 0  BY DEF ItemAt
<1>2. Pipe!FirstNul(s) = IF Nuls # {} THEN Pipe!Min(Nuls) ELSE 0
  BY DEF Pipe!FirstNul, Pipe!SelectInSeq, Pipe!Nul
<1>3. PICK i \in Nuls : TRUE  BY <1>2
<1>4. Len(s) >= 1 /\ s[1] = n + 1  BY <1>1, <1>3 DEF IsStream
<1>5. Len(s) >= 2 /\ s[2] = 0  BY <1>1, <1>3, <1>4 DEF IsStream
<1>6. 2 \in Nuls /\ \A j \in Nuls : 2 <= j  BY <1>4, <1>5
<1>7. Pipe!Min(Nuls) = 2  BY <1>6 DEF Pipe!Min
<1>. QED  BY <1>2, <1>3, <1>4, <1>5, <1>7

(***************************************************************************)
(* The commands: every step of send() and of the browser keeps what is on  *)
(* its way in place, and the browser takes the next command whole.         *)
(***************************************************************************)

(* One more message on a numbered list.                                    *)
LEMMA Numbered ==
  ASSUME NEW s, IsNumbered(s), NEW t, t = Append(s, <<Len(s) + 1>>)
  PROVE  IsNumbered(t) /\ Len(t) = Len(s) + 1
<1>1. <<Len(s) + 1>> \in Seq(Nat)  BY DEF IsNumbered
<1>. QED  BY <1>1 DEF IsNumbered

(* The items of message n + 1.                                             *)
LEMMA ItemIsNul ==
  ASSUME NEW n \in Nat
  PROVE  ItemAt(2 * n + 1) = n + 1 /\ ItemAt(2 * n + 2) = 0
BY DEF ItemAt

(* A message whose end is still missing.                                   *)
LEMMA StreamOfItem ==
  ASSUME NEW n \in Nat
  PROVE  IsStream(<<n + 1>>, 2 * n)
<1>. DEFINE s == <<n + 1>>
<1>1. \A k \in 1..Len(s) : k = 1 /\ s[k] = n + 1  OBVIOUS
<1>. QED  BY <1>1, ItemIsNul DEF IsStream

(* A list that has one item.                                               *)
LEMMA OneItem ==
  ASSUME NEW s \in Seq(Nat), s # <<>>, Len(s) <= 1
  PROVE  s = <<s[1]>>
<1>1. /\ Head(s) \in Nat /\ Head(s) = s[1]
      /\ Tail(s) \in Seq(Nat) /\ Len(Tail(s)) = Len(s) - 1 /\ s = <<Head(s)>> \o Tail(s)
  BY HeadTailProperties
<1>2. Tail(s) = <<>>  BY <1>1
<1>3. <<Head(s)>> \in Seq(Nat)  BY <1>1
<1>. QED  BY <1>1, <1>2, <1>3, ConcatEmptySeq

(* The types of what carries the commands.                                 *)
LEMMA CommandLengths ==
  ASSUME CommandInv
  PROVE  /\ commands \in Seq(Seq(Nat)) /\ handled \in Seq(Seq(Nat)) /\ pending \in Seq(Nat)
         /\ outward \in Seq(Nat) /\ payload \in Seq(Nat)
         /\ Len(commands) \in Nat /\ Len(handled) \in Nat
         /\ Len(pending) \in Nat /\ Len(outward) \in Nat /\ Len(payload) \in Nat
<1>1. /\ commands \in Seq(Seq(Nat)) /\ handled \in Seq(Seq(Nat)) /\ pending \in Seq(Nat)
      /\ outward \in Seq(Nat) /\ payload \in Seq(Nat)
  BY DEF CommandInv, CommandSeqs, IsNumbered
<1>. QED  BY <1>1

(* send() begins a command when none is half written.                      *)
LEMMA CommandSend ==
  ASSUME CommandInv, Pipe!Send
  PROVE  CommandInv' /\ Pipe!Commands!Next
<1>. DEFINE n == Len(commands)
<1>1. /\ commands' = Append(commands, <<n + 1>>) /\ payload' = Append(<<n + 1>>, 0)
      /\ payload = <<>> /\ ~ended /\ n < MaxCommands
      /\ UNCHANGED <<ended, outward, pending, handled>>
  BY DEF Pipe!Send, Pipe!Nul, Pipe!browser
<1>2. n \in Nat /\ IsNumbered(commands') /\ Len(commands') = n + 1
  BY <1>1, CommandLengths, Numbered DEF CommandInv, CommandSeqs
<1>3. payload' \in Seq(Nat) /\ Len(payload') <= 2 /\ IsStream(payload', 2 * n)
      /\ Len(payload') >= 2
  BY <1>1, <1>2, StreamOfText
<1>4. 2 * Len(handled) + Len(pending) + Len(outward) = 2 * n
  BY <1>1, CommandLengths DEF CommandInv, Written
<1>5. CommandSeqs'
  BY <1>1, <1>2, <1>3, TransportAssumption DEF CommandInv, CommandSeqs
<1>6. CommandStreams'  BY <1>1, <1>3, <1>4 DEF CommandInv, CommandStreams
<1>7. Written' = 2 * Len(commands')
  BY <1>1, <1>2, <1>3, <1>4 DEF Written
<1>8. CommandInv'  BY <1>1, <1>5, <1>6, <1>7 DEF CommandInv
<1>9. <<n + 1>> \in Pipe!Texts  BY <1>1, <1>2, TransportAssumption DEF Pipe!Texts
<1>. QED  BY <1>1, <1>8, <1>9 DEF Pipe!Commands!Next, Pipe!Commands!Send

(* A part of what is left to write moves into the pipe.                    *)
LEMMA CommandWrite ==
  ASSUME CommandInv, Pipe!Write
  PROVE  CommandInv' /\ UNCHANGED <<commands, handled>>
<1>. DEFINE read == 2 * Len(handled) + Len(pending)
<1>1. read \in Nat /\ Len(outward) \in Nat /\ read + Len(outward) \in Nat  BY CommandLengths
<1>2. PICK n \in 1..Len(payload) :
        /\ Len(outward) + n <= Capacity
        /\ outward' = outward \o Pipe!Upto(payload, n)
        /\ payload' = Pipe!Beyond(payload, n)
  BY DEF Pipe!Write
<1>3. UNCHANGED <<commands, ended, pending, handled>> /\ payload # <<>>
  BY DEF Pipe!Write, Pipe!browser
<1>4. /\ payload \in Seq(Nat) /\ outward \in Seq(Nat)
      /\ IsStream(payload, read + Len(outward)) /\ IsStream(outward, read)
  BY CommandLengths DEF CommandInv, CommandStreams
<1>5. n \in Nat /\ n <= Len(payload) /\ n \in 0..Len(payload)  BY <1>4
<1>6. /\ Pipe!Upto(payload, n) \in Seq(Nat) /\ Len(Pipe!Upto(payload, n)) = n
      /\ IsStream(Pipe!Upto(payload, n), read + Len(outward))
      /\ payload' \in Seq(Nat) /\ Len(payload') = Len(payload) - n
      /\ IsStream(payload', read + Len(outward) + n)
  BY <1>1, <1>2, <1>4, <1>5, StreamUpto
<1>7. /\ outward' \in Seq(Nat) /\ Len(outward') = Len(outward) + n
      /\ IsStream(outward', read)
  <2>1. outward' \in Seq(Nat) /\ Len(outward') = Len(outward) + n
    BY <1>2, <1>4, <1>6, ConcatProperties
  <2>2. IsStream(outward', read)
    BY <1>1, <1>2, <1>4, <1>6, StreamConcat
  <2>. QED  BY <2>1, <2>2
<1>8. CommandSeqs'
  BY <1>2, <1>3, <1>5, <1>6, <1>7, CommandLengths, TransportAssumption
  DEF CommandInv, CommandSeqs
<1>9. CommandStreams'
  <2>1. read + Len(outward') = read + Len(outward) + n  BY <1>1, <1>5, <1>7
  <2>. QED  BY <1>3, <1>6, <1>7, <2>1 DEF CommandInv, CommandStreams
<1>10. Written' = Written  BY <1>3, <1>5, <1>6, <1>7, CommandLengths DEF Written
<1>. QED  BY <1>3, <1>8, <1>9, <1>10 DEF CommandInv

(* A send() that gives up has written nothing: a command is smaller than   *)
(* what the deadline is looked at for.                                     *)
LEMMA CommandEnds ==
  ASSUME CommandInv, Pipe!SendTimesOut
  PROVE  CommandInv' /\ UNCHANGED <<commands, handled>>
<1>1. Len(payload) = 2 /\ ~ended
  <2>1. Len(payload) = 2  BY DEF Pipe!SendTimesOut
  <2>. QED  BY <2>1 DEF CommandInv
<1>2. payload' = <<>> /\ ended' = TRUE /\ UNCHANGED <<commands, outward, pending, handled>>
  BY DEF Pipe!SendTimesOut, Pipe!browser
<1>3. CommandSeqs'  BY <1>2 DEF CommandInv, CommandSeqs
<1>4. CommandStreams'  BY <1>2 DEF CommandInv, CommandStreams, IsStream
<1>5. Written' + 2 = Written  BY <1>1, <1>2 DEF Written
<1>. QED  BY <1>1, <1>2, <1>3, <1>4, <1>5 DEF CommandInv

(* The browser takes an item; with the NUL the command is complete, and it *)
(* is the next one.                                                        *)
LEMMA CommandRead ==
  ASSUME CommandInv, Pipe!BrowserReads
  PROVE  CommandInv' /\ [Pipe!Commands!Next]_<<commands, handled>>
<1>. DEFINE n == Len(handled)
            read == 2 * n + Len(pending)
            item == Head(outward)
<1>1. /\ n \in Nat /\ read \in Nat /\ outward # <<>> /\ outward \in Seq(Nat)
      /\ IsStream(outward, read) /\ IsStream(pending, 2 * n)
      /\ pending \in Seq(Nat) /\ Len(pending) <= 1
  BY CommandLengths DEF Pipe!BrowserReads, CommandInv, CommandSeqs, CommandStreams
<1>2. outward' = Tail(outward) /\ UNCHANGED <<commands, payload, ended>>
  BY DEF Pipe!BrowserReads, Pipe!sending
<1>3. /\ outward' \in Seq(Nat) /\ Len(outward') = Len(outward) - 1
      /\ IsStream(outward', read + 1) /\ Len(outward) \in Nat
  BY <1>1, <1>2 DEF IsStream
<1>4. item = ItemAt(read + 1)  BY <1>1 DEF IsStream
<1>5. IsStream(payload, read + Len(outward))  BY DEF CommandInv, CommandStreams
<1>6. CASE pending = <<>>
  <2>1. read = 2 * n /\ item = n + 1  BY <1>1, <1>4, <1>6, ItemIsNul
  <2>2. pending' = <<n + 1>> /\ handled' = handled
    BY <1>1, <1>6, <2>1 DEF Pipe!BrowserReads, Pipe!Nul
  <2>3. /\ pending' \in Seq(Nat) /\ Len(pending') >= 1 /\ Len(pending') <= 1
        /\ Len(pending') \in Nat
    BY <1>1, <2>2
  <2>4. IsStream(pending', 2 * n)  BY <1>1, <2>2, StreamOfItem
  <2>5. 2 * Len(handled') + Len(pending') = read + 1  BY <1>1, <2>1, <2>2, <2>3
  <2>6. CommandSeqs'
    BY <1>2, <1>3, <2>2, <2>3, TransportAssumption DEF CommandInv, CommandSeqs
  <2>7. CommandStreams'
    <3>1. read + 1 + Len(outward') = read + Len(outward)  BY <1>1, <1>3
    <3>. QED  BY <1>2, <1>3, <1>5, <2>2, <2>4, <2>5, <3>1 DEF CommandStreams
  <2>8. Written' = Written  BY <1>2, <1>3, <2>5 DEF Written
  <2>9. CommandInv'  BY <1>2, <2>2, <2>6, <2>7, <2>8 DEF CommandInv
  <2>. QED  BY <1>2, <2>2, <2>9
<1>7. CASE pending # <<>>
  <2>1. Len(pending) >= 1 /\ Len(pending) \in Nat  BY <1>1, <1>7
  <2>2. read + 1 = 2 * n + 2  BY <1>1, <2>1
  <2>3. item = 0  BY <1>1, <1>4, <2>2, ItemIsNul
  <2>4. pending = <<n + 1>>
    <3>1. pending[1] = n + 1  BY <1>1, <2>1, ItemIsNul DEF IsStream
    <3>. QED  BY <1>1, <1>7, <3>1, OneItem
  <2>5. pending' = <<>> /\ handled' = Append(handled, <<n + 1>>)
    BY <2>3, <2>4 DEF Pipe!BrowserReads, Pipe!Nul
  <2>6. IsNumbered(handled') /\ Len(handled') = n + 1
    BY <2>5, Numbered DEF CommandInv, CommandSeqs
  <2>7. n < Len(commands) /\ commands[n + 1] = <<n + 1>>
    <3>1. n < Len(commands)
      BY <1>1, <2>1, CommandLengths DEF CommandInv, Written
    <3>. QED  BY <1>1, <3>1, CommandLengths DEF CommandInv, CommandSeqs, IsNumbered
  <2>8. 2 * Len(handled') + Len(pending') = read + 1 /\ 2 * Len(handled') = read + 1
    BY <1>1, <2>2, <2>5, <2>6
  <2>9. CommandSeqs'
    BY <1>2, <1>3, <2>5, <2>6, TransportAssumption DEF CommandInv, CommandSeqs
  <2>10. CommandStreams'
    <3>1. read + 1 + Len(outward') = read + Len(outward)  BY <1>1, <1>3
    <3>2. IsStream(pending', read + 1)  BY <2>5 DEF IsStream
    <3>. QED  BY <1>2, <1>3, <1>5, <2>8, <3>1, <3>2 DEF CommandStreams
  <2>11. Written' = Written  BY <1>2, <1>3, <2>8 DEF Written
  <2>12. CommandInv'  BY <1>2, <2>9, <2>10, <2>11 DEF CommandInv
  <2>. QED  BY <1>2, <2>5, <2>7, <2>12 DEF Pipe!Commands!Next, Pipe!Commands!Receive
<1>. QED  BY <1>6, <1>7

(* Every step of the pipe keeps the commands whole.                        *)
LEMMA CommandStep ==
  ASSUME CommandInv, Pipe!Next \/ UNCHANGED ofPipe
  PROVE  CommandInv' /\ [Pipe!Commands!Next]_<<commands, handled>>
<1>1. CASE \/ UNCHANGED ofPipe \/ Pipe!BrowserAnswers \/ Pipe!BrowserWrites
           \/ Pipe!Read \/ Pipe!Return \/ Pipe!ReceiveTimesOut
  <2>1. UNCHANGED <<commands, payload, ended, outward, pending, handled>>
    BY <1>1 DEF ofPipe, Pipe!BrowserAnswers, Pipe!BrowserWrites, Pipe!Read, Pipe!Return,
                Pipe!ReceiveTimesOut, Pipe!sending, Pipe!browser
  <2>. QED  BY <2>1 DEF CommandInv, CommandSeqs, CommandStreams, Written
<1>2. CASE Pipe!Send  BY <1>2, CommandSend
<1>3. CASE Pipe!Write  BY <1>3, CommandWrite
<1>4. CASE Pipe!SendTimesOut  BY <1>4, CommandEnds
<1>5. CASE Pipe!BrowserReads  BY <1>5, CommandRead
<1>. QED  BY <1>1, <1>2, <1>3, <1>4, <1>5 DEF Pipe!Next, Pipe!Browser, Pipe!Receive

(***************************************************************************)
(* The answers: every step of the browser and of receive() keeps what is   *)
(* on its way in place, and receive() returns the next message whole.      *)
(***************************************************************************)

(* The types of what carries the messages.                                 *)
LEMMA AnswerLengths ==
  ASSUME AnswerInv
  PROVE  /\ sent \in Seq(Seq(Nat)) /\ received \in Seq(Seq(Nat))
         /\ buffer \in Seq(Nat) /\ inward \in Seq(Nat) /\ reply \in Seq(Nat)
         /\ Len(sent) \in Nat /\ Len(received) \in Nat
         /\ Len(buffer) \in Nat /\ Len(inward) \in Nat /\ Len(reply) \in Nat
<1>1. /\ sent \in Seq(Seq(Nat)) /\ received \in Seq(Seq(Nat))
      /\ buffer \in Seq(Nat) /\ inward \in Seq(Nat) /\ reply \in Seq(Nat)
  BY DEF AnswerInv, AnswerSeqs, IsNumbered
<1>. QED  BY <1>1

(* The browser begins a message when the last one is written.              *)
LEMMA AnswerBegins ==
  ASSUME CommandInv, AnswerInv, Pipe!BrowserAnswers
  PROVE  AnswerInv' /\ Channel!Next
<1>. DEFINE n == Len(sent)
<1>1. /\ sent' = Append(sent, handled[n + 1]) /\ reply' = Append(handled[n + 1], 0)
      /\ reply = <<>> /\ n < Len(handled)
      /\ UNCHANGED <<handled, received, buffer, inward, timeouts>>
  BY DEF Pipe!BrowserAnswers, Pipe!Nul, Pipe!receiving
<1>2. n \in Nat /\ Len(handled) \in Nat  BY AnswerLengths, CommandLengths
<1>3. handled[n + 1] = <<n + 1>>
  BY <1>1, <1>2 DEF CommandInv, CommandSeqs, IsNumbered
<1>4. IsNumbered(sent') /\ Len(sent') = n + 1
  BY <1>1, <1>3, Numbered DEF AnswerInv, AnswerSeqs
<1>5. reply' \in Seq(Nat) /\ Len(reply') = 2 /\ IsStream(reply', 2 * n)
  BY <1>1, <1>2, <1>3, StreamOfText
<1>6. 2 * Len(received) + Len(buffer) + Len(inward) = 2 * n
  BY <1>1 DEF AnswerInv, Returned
<1>7. AnswerSeqs'  BY <1>1, <1>2, <1>4, <1>5 DEF AnswerInv, AnswerSeqs
<1>8. AnswerStreams'  BY <1>1, <1>5, <1>6 DEF AnswerInv, AnswerStreams
<1>9. Returned' = 2 * Len(sent')
  <2>1. Returned' = 2 * n + Len(reply')  BY <1>1, <1>6 DEF Returned
  <2>2. Len(sent') = n + 1 /\ Len(reply') = 2  BY <1>4, <1>5
  <2>. QED  BY <1>2, <2>1, <2>2
<1>10. <<n + 1>> \in Pipe!Texts
  <2>1. Len(handled) <= Len(commands)
    BY CommandLengths DEF CommandInv, Written
  <2>2. n + 1 \in 1..MaxCommands
    BY <1>1, <1>2, <2>1, CommandLengths, TransportAssumption DEF CommandInv, CommandSeqs
  <2>. QED  BY <2>2 DEF Pipe!Texts
<1>. QED  BY <1>1, <1>3, <1>7, <1>8, <1>9, <1>10 DEF AnswerInv, Channel!Next, Channel!Send

(* It writes a part of it.                                                 *)
LEMMA AnswerWrite ==
  ASSUME AnswerInv, Pipe!BrowserWrites
  PROVE  AnswerInv' /\ UNCHANGED <<sent, received>>
<1>. DEFINE read == 2 * Len(received) + Len(buffer)
<1>1. read \in Nat /\ Len(inward) \in Nat /\ read + Len(inward) \in Nat  BY AnswerLengths
<1>2. PICK n \in 1..Len(reply) :
        inward' = inward \o Pipe!Upto(reply, n) /\ reply' = Pipe!Beyond(reply, n)
  BY DEF Pipe!BrowserWrites
<1>3. UNCHANGED <<sent, received, handled, buffer, timeouts>>
  BY DEF Pipe!BrowserWrites, Pipe!receiving
<1>4. /\ reply \in Seq(Nat) /\ inward \in Seq(Nat)
      /\ IsStream(reply, read + Len(inward)) /\ IsStream(inward, read)
  BY AnswerLengths DEF AnswerInv, AnswerStreams
<1>5. n \in Nat /\ n <= Len(reply) /\ n \in 0..Len(reply)  BY <1>4
<1>6. /\ Pipe!Upto(reply, n) \in Seq(Nat) /\ Len(Pipe!Upto(reply, n)) = n
      /\ IsStream(Pipe!Upto(reply, n), read + Len(inward))
      /\ reply' \in Seq(Nat) /\ Len(reply') = Len(reply) - n
      /\ IsStream(reply', read + Len(inward) + n)
  BY <1>1, <1>2, <1>4, <1>5, StreamUpto
<1>7. inward' \in Seq(Nat) /\ Len(inward') = Len(inward) + n
  BY <1>2, <1>4, <1>6, ConcatProperties
<1>8. IsStream(inward', read)  BY <1>1, <1>2, <1>4, <1>6, StreamConcat
<1>9. AnswerSeqs'  BY <1>3, <1>6, <1>7 DEF AnswerInv, AnswerSeqs
<1>10. AnswerStreams'
  <2>1. read + Len(inward') = read + Len(inward) + n  BY <1>1, <1>5, <1>7
  <2>. QED  BY <1>3, <1>6, <1>8, <2>1 DEF AnswerInv, AnswerStreams
<1>11. Returned' = Returned  BY <1>3, <1>5, <1>6, <1>7 DEF Returned
<1>. QED  BY <1>3, <1>9, <1>10, <1>11 DEF AnswerInv

(* os.read appends what there is to the buffer.                            *)
LEMMA AnswerRead ==
  ASSUME AnswerInv, Pipe!Read
  PROVE  AnswerInv' /\ UNCHANGED <<sent, received>>
<1>. DEFINE returned == 2 * Len(received)
<1>1. returned \in Nat /\ Len(buffer) \in Nat /\ returned + Len(buffer) \in Nat
  BY AnswerLengths
<1>2. PICK n \in 1..Len(inward) :
        buffer' = buffer \o Pipe!Upto(inward, n) /\ inward' = Pipe!Beyond(inward, n)
  BY DEF Pipe!Read
<1>3. UNCHANGED <<sent, received, handled, reply, timeouts>>
  BY DEF Pipe!Read, Pipe!browser
<1>4. /\ inward \in Seq(Nat) /\ buffer \in Seq(Nat)
      /\ IsStream(inward, returned + Len(buffer)) /\ IsStream(buffer, returned)
  BY AnswerLengths DEF AnswerInv, AnswerStreams
<1>5. n \in Nat /\ n <= Len(inward) /\ n \in 0..Len(inward)  BY <1>4
<1>6. /\ Pipe!Upto(inward, n) \in Seq(Nat) /\ Len(Pipe!Upto(inward, n)) = n
      /\ IsStream(Pipe!Upto(inward, n), returned + Len(buffer))
      /\ inward' \in Seq(Nat) /\ Len(inward') = Len(inward) - n
      /\ IsStream(inward', returned + Len(buffer) + n)
  BY <1>1, <1>2, <1>4, <1>5, StreamUpto
<1>7. buffer' \in Seq(Nat) /\ Len(buffer') = Len(buffer) + n
  BY <1>2, <1>4, <1>6, ConcatProperties
<1>8. IsStream(buffer', returned)  BY <1>1, <1>2, <1>4, <1>6, StreamConcat
<1>9. AnswerSeqs'  BY <1>3, <1>6, <1>7 DEF AnswerInv, AnswerSeqs
<1>10. AnswerStreams'
  <2>1. returned + Len(buffer') = returned + Len(buffer) + n  BY <1>1, <1>5, <1>7
  <2>2. returned + Len(buffer') + Len(inward') = returned + Len(buffer) + Len(inward)
    BY <1>1, <1>4, <1>5, <1>6, <1>7
  <2>. QED  BY <1>3, <1>6, <1>8, <2>1, <2>2 DEF AnswerInv, AnswerStreams
<1>11. Returned' = Returned  BY <1>3, <1>5, <1>6, <1>7 DEF Returned
<1>. QED  BY <1>3, <1>9, <1>10, <1>11 DEF AnswerInv

(* The first NUL of the buffer ends the next message, which is returned.   *)
LEMMA AnswerReturn ==
  ASSUME AnswerInv, Pipe!Return
  PROVE  AnswerInv' /\ Channel!Next
<1>. DEFINE n == Len(received)
<1>1. /\ n \in Nat /\ Len(sent) \in Nat /\ buffer \in Seq(Nat) /\ IsStream(buffer, 2 * n)
      /\ received \in Seq(Seq(Nat)) /\ sent \in Seq(Seq(Nat))
  BY AnswerLengths DEF AnswerInv, AnswerStreams
<1>2. Pipe!FirstNul(buffer) = 2 /\ Len(buffer) >= 2 /\ buffer[1] = n + 1
  BY <1>1, StreamFirstNul DEF Pipe!Return
<1>3. /\ received' = Append(received, Pipe!Upto(buffer, 1)) /\ buffer' = Pipe!Beyond(buffer, 2)
      /\ UNCHANGED <<sent, handled, reply, inward, timeouts>>
  BY <1>2 DEF Pipe!Return, Pipe!browser
<1>4. Pipe!Upto(buffer, 1) = <<n + 1>>
  <2>1. /\ Pipe!Upto(buffer, 1) \in Seq(Nat) /\ Len(Pipe!Upto(buffer, 1)) >= 1
        /\ Len(Pipe!Upto(buffer, 1)) <= 1 /\ Pipe!Upto(buffer, 1)[1] = n + 1
    BY <1>1, <1>2 DEF Pipe!Upto
  <2>. QED  BY <2>1, OneItem
<1>5. /\ buffer' \in Seq(Nat) /\ Len(buffer') = Len(buffer) - 2
      /\ IsStream(buffer', 2 * n + 2)
  BY <1>1, <1>2, <1>3, StreamUpto
<1>6. IsNumbered(received') /\ Len(received') = n + 1
  BY <1>3, <1>4, Numbered DEF AnswerInv, AnswerSeqs
<1>7. n < Len(sent) /\ sent[n + 1] = <<n + 1>>
  <2>1. n < Len(sent)  BY <1>1, <1>2 DEF AnswerInv, Returned
  <2>. QED  BY <1>1, <2>1 DEF AnswerInv, AnswerSeqs, IsNumbered
<1>8. AnswerSeqs'  BY <1>3, <1>5, <1>6 DEF AnswerInv, AnswerSeqs
<1>9. AnswerStreams'
  <2>1. /\ 2 * Len(received') = 2 * n + 2
        /\ 2 * n + 2 + Len(buffer') = 2 * n + Len(buffer)
    BY <1>1, <1>5, <1>6
  <2>. QED  BY <1>3, <1>5, <2>1 DEF AnswerInv, AnswerStreams
<1>10. Returned' = Returned  BY <1>3, <1>5, <1>6 DEF Returned
<1>. QED
  BY <1>3, <1>4, <1>7, <1>8, <1>9, <1>10 DEF AnswerInv, Channel!Next, Channel!Receive

(* Every step of the pipe keeps the messages whole.                        *)
LEMMA AnswerStep ==
  ASSUME CommandInv, AnswerInv, Pipe!Next
  PROVE  AnswerInv' /\ [Channel!Next]_<<sent, received>>
<1>1. CASE \/ Pipe!Send \/ Pipe!Write \/ Pipe!SendTimesOut \/ Pipe!BrowserReads
           \/ Pipe!ReceiveTimesOut
  <2>1. UNCHANGED <<sent, received, reply, inward, buffer>>
    BY <1>1 DEF Pipe!Send, Pipe!Write, Pipe!SendTimesOut, Pipe!BrowserReads,
                Pipe!ReceiveTimesOut, Pipe!browser, Pipe!receiving
  <2>2. timeouts' \in 0..MaxTimeOuts
    BY <1>1, TransportAssumption
    DEF AnswerInv, AnswerSeqs, Pipe!Send, Pipe!Write, Pipe!SendTimesOut, Pipe!BrowserReads,
        Pipe!ReceiveTimesOut, Pipe!receiving
  <2>3. Len(handled') >= Len(handled)
    <3>1. handled' = handled \/ handled' = Append(handled, pending)
      BY <1>1 DEF Pipe!Send, Pipe!Write, Pipe!SendTimesOut, Pipe!BrowserReads,
                  Pipe!ReceiveTimesOut, Pipe!browser
    <3>. QED  BY <3>1, CommandLengths
  <2>4. AnswerSeqs'
    BY <2>1, <2>2, <2>3, CommandLengths, CommandStep, AnswerLengths DEF AnswerInv, AnswerSeqs
  <2>. QED  BY <2>1, <2>4 DEF AnswerInv, AnswerStreams, Returned
<1>2. CASE Pipe!BrowserAnswers  BY <1>2, AnswerBegins
<1>3. CASE Pipe!BrowserWrites  BY <1>3, AnswerWrite
<1>4. CASE Pipe!Read  BY <1>4, AnswerRead
<1>5. CASE Pipe!Return  BY <1>5, AnswerReturn
<1>. QED  BY <1>1, <1>2, <1>3, <1>4, <1>5 DEF Pipe!Next, Pipe!Browser, Pipe!Receive

(***************************************************************************)
(* Frames: a message in n frames is 2n halves, of their kinds; half c + 1  *)
(* is what a reader of c halves takes next.                                *)
(***************************************************************************)

(* What half k of a message in n frames is.                                *)
LEMMA FramesAt ==
  ASSUME NEW m \in 0..MaxMessages, NEW n \in Nat \ {0}
  PROVE  /\ Socket!Frames(m, n) \in Seq(Socket!Halves) /\ Len(Socket!Frames(m, n)) = 2 * n
         /\ \A k \in 1..(2 * n) : FrameIs(Socket!Frames(m, n)[k], m, n, k)
<1>1. \A k \in 1..(2 * n) : FrameIs(Socket!Frames(m, n)[k], m, n, k)
  BY DEF FrameIs, Socket!Frames, Socket!Half, Socket!Halves
<1>2. 2 * n \in Nat  OBVIOUS
<1>3. Socket!Frames(m, n) \in Seq(Socket!Halves) /\ Len(Socket!Frames(m, n)) = 2 * n
  BY <1>1, <1>2 DEF Socket!Frames, FrameIs
<1>. QED  BY <1>1, <1>3

(* A reader that stands between two frames takes the next header.          *)
LEMMA NextHeader ==
  ASSUME SocketTypes, NEW n \in Nat \ {0}, NEW c \in 0..(2 * n - 1), c % 2 = 0,
         NEW s \in Readers, HasRead(s, n, c), NEW h, h = Socket!Frames(Len(sent), n)[c + 1]
  PROVE  \E t \in Readers : Takes(s, h, t) /\ HasRead(t, n, c + 1)
<1>. DEFINE t == [s EXCEPT !.reads = "rest", !.head = h]
<1>1. Len(sent) \in 0..MaxMessages /\ c + 1 \in 1..(2 * n) /\ (c + 1) % 2 = 1
  <2>1. Len(sent) \in 0..MaxMessages
    BY TransportAssumption DEF SocketTypes, IsNumbered
  <2>2. c + 1 \in 1..(2 * n) /\ (c + 1) % 2 = 1  OBVIOUS
  <2>. QED  BY <2>1, <2>2
<1>2. FrameIs(h, Len(sent), n, c + 1)  BY <1>1, FramesAt
<1>3. /\ h.part = "header" /\ h.opcode = (IF c + 1 <= 2 THEN "text" ELSE "continuation")
      /\ h.message = Len(sent) /\ h \in Socket!Halves
  BY <1>1, <1>2 DEF FrameIs
<1>4. t \in Readers  BY <1>3 DEF Readers
<1>5. s.done = Len(sent) - 1 /\ s.reads = "header" /\ s.inside = (c + 1 > 2)
  BY <1>1 DEF HasRead
<1>6. Takes(s, h, t)  BY <1>1, <1>3, <1>5 DEF Takes, Readers
<1>7. HasRead(t, n, c + 1)  BY <1>1 DEF HasRead, Readers
<1>. QED  BY <1>4, <1>6, <1>7

(* A reader of a header takes the rest of that frame.                      *)
LEMMA NextRest ==
  ASSUME SocketTypes, NEW n \in Nat \ {0}, NEW c \in 0..(2 * n - 1), c % 2 = 1,
         NEW s \in Readers, HasRead(s, n, c), NEW h, h = Socket!Frames(Len(sent), n)[c + 1]
  PROVE  \E t \in Readers : Takes(s, h, t) /\ HasRead(t, n, c + 1)
<1>. DEFINE t == [done |-> IF c + 1 = 2 * n THEN Len(sent) ELSE Len(sent) - 1,
                  inside |-> c + 1 < 2 * n, reads |-> "header", head |-> s.head,
                  answered |-> pings]
<1>1. Len(sent) \in 0..MaxMessages /\ c + 1 \in 1..(2 * n) /\ (c + 1) % 2 = 0
  <2>1. Len(sent) \in 0..MaxMessages
    BY TransportAssumption DEF SocketTypes, IsNumbered
  <2>2. c + 1 \in 1..(2 * n) /\ (c + 1) % 2 = 0  OBVIOUS
  <2>. QED  BY <2>1, <2>2
<1>2. FrameIs(h, Len(sent), n, c + 1)  BY <1>1, FramesAt
<1>3. /\ h.part = "rest" /\ h.opcode = (IF c + 1 <= 2 THEN "text" ELSE "continuation")
      /\ h.message = Len(sent) /\ h.fin = (IF c + 1 = 2 * n THEN "final" ELSE "more")
  BY <1>1, <1>2 DEF FrameIs
<1>4. h = [s.head EXCEPT !.part = "rest"]
  <2>1. s.head = Socket!Frames(Len(sent), n)[c]  BY DEF HasRead
  <2>2. s.head = Socket!Half("header", IF c <= 2 THEN "text" ELSE "continuation", Len(sent),
                             IF c <= 2 * n - 2 THEN "more" ELSE "final")
    BY <1>1, <2>1 DEF Socket!Frames
  <2>3. h = Socket!Half("rest", IF c + 1 <= 2 THEN "text" ELSE "continuation", Len(sent),
                        IF c + 1 <= 2 * n - 2 THEN "more" ELSE "final")
    BY <1>1 DEF Socket!Frames
  <2>4. (c <= 2 <=> c + 1 <= 2) /\ (c <= 2 * n - 2 <=> c + 1 <= 2 * n - 2)  BY <1>1
  <2>. DEFINE opcode == IF c <= 2 THEN "text" ELSE "continuation"
              fin    == IF c <= 2 * n - 2 THEN "more" ELSE "final"
  <2>5. s.head = Socket!Half("header", opcode, Len(sent), fin)  BY <2>2
  <2>6. h = Socket!Half("rest", opcode, Len(sent), fin)
    <3>1. (IF c + 1 <= 2 THEN "text" ELSE "continuation") = opcode  BY <2>4
    <3>2. (IF c + 1 <= 2 * n - 2 THEN "more" ELSE "final") = fin  BY <2>4
    <3>. QED  BY <2>3, <3>1, <3>2, Zenon
  <2>. HIDE DEF opcode, fin
  <2>. QED  BY <2>5, <2>6 DEF Socket!Half
<1>5. /\ s.done = Len(sent) - 1 /\ s.reads = "rest" /\ s.inside = (c + 1 > 2)
      /\ s.answered = pings /\ s.done \in 0..Len(sent) /\ pings \in Nat
  BY <1>1 DEF HasRead, Readers, SocketTypes
<1>6. t \in Readers  BY <1>1, <1>5 DEF Readers
<1>7. Takes(s, h, t)
  <2>1. h.part = s.reads /\ h.part = "rest" /\ t.reads = "header"  BY <1>3, <1>5
  <2>2. h.message = s.done + 1 /\ h.opcode = (IF s.inside THEN "continuation" ELSE "text")
    <3>1. h.message = s.done + 1  BY <1>1, <1>3, <1>5
    <3>2. h.opcode = (IF c + 1 > 2 THEN "continuation" ELSE "text")  BY <1>1, <1>3
    <3>3. h.opcode = (IF s.inside THEN "continuation" ELSE "text")
      <4>1. s.inside = (c + 1 > 2)  BY <1>5
      <4>. QED  BY <3>2, <4>1, Zenon
    <3>. QED  BY <3>1, <3>3
  <2>3. h.opcode # "ping"  BY <1>3
  <2>4. t.done = (IF h.fin = "final" THEN s.done + 1 ELSE s.done)  BY <1>1, <1>3, <1>5
  <2>5. t.inside = (h.fin = "more")  BY <1>1, <1>3
  <2>6. t.answered = s.answered  BY <1>5
  <2>. QED  BY <1>4, <2>1, <2>2, <2>3, <2>4, <2>5, <2>6 DEF Takes
<1>8. HasRead(t, n, c + 1)  BY <1>1 DEF HasRead
<1>. QED  BY <1>6, <1>7, <1>8

(***************************************************************************)
(* Runs: one that goes on with a half, and what is left of one when the    *)
(* first half is read.                                                     *)
(***************************************************************************)

(* A half is written: the run goes on with a reader that takes it.         *)
LEMMA RunAppend ==
  ASSUME NEW S, NEW w \in Seq(Socket!Halves), NEW run \in [0..Len(w) -> S], IsRun(run, w),
         NEW h \in Socket!Halves, NEW t \in S, Takes(run[Len(w)], h, t)
  PROVE  \E longer \in [0..Len(Append(w, h)) -> S] :
           /\ IsRun(longer, Append(w, h))
           /\ longer[0] = run[0] /\ longer[Len(Append(w, h))] = t
<1>. DEFINE n == Len(w)
            longer == [k \in 0..(n + 1) |-> IF k <= n THEN run[k] ELSE t]
<1>1. n \in Nat /\ Len(Append(w, h)) = n + 1
      /\ \A k \in 1..(n + 1) : Append(w, h)[k] = IF k <= n THEN w[k] ELSE h
  BY AppendProperties
<1>2. longer \in [0..(n + 1) -> S]  BY <1>1
<1>3. longer[0] = run[0] /\ longer[n + 1] = t  BY <1>1
<1>4. ASSUME NEW k \in 1..(n + 1)
      PROVE  Takes(longer[k - 1], Append(w, h)[k], longer[k])
  <2>1. CASE k <= n  BY <1>1, <2>1 DEF IsRun
  <2>2. CASE k = n + 1  BY <1>1, <2>2
  <2>. QED  BY <1>1, <2>1, <2>2
<1>5. IsRun(longer, Append(w, h))  BY <1>1, <1>4 DEF IsRun
<1>. QED  BY <1>1, <1>2, <1>3, <1>5

(* The first half is read: what is left is a run of its own.               *)
LEMMA RunTail ==
  ASSUME NEW S, NEW w \in Seq(Socket!Halves), w # <<>>,
         NEW run \in [0..Len(w) -> S], IsRun(run, w)
  PROVE  /\ Takes(run[0], Head(w), run[1]) /\ run[0] \in S /\ run[1] \in S
         /\ \E rest \in [0..Len(Tail(w)) -> S] :
              /\ IsRun(rest, Tail(w))
              /\ rest[0] = run[1] /\ rest[Len(Tail(w))] = run[Len(w)]
<1>. DEFINE n == Len(w)
            rest == [k \in 0..(n - 1) |-> run[k + 1]]
<1>1. /\ n \in Nat /\ n >= 1 /\ Len(Tail(w)) = n - 1 /\ Head(w) = w[1]
      /\ \A k \in 1..(n - 1) : Tail(w)[k] = w[k + 1]
  BY HeadTailProperties
<1>2. rest \in [0..(n - 1) -> S]  BY <1>1
<1>3. rest[0] = run[1] /\ rest[n - 1] = run[n]  BY <1>1
<1>4. ASSUME NEW k \in 1..(n - 1)
      PROVE  Takes(rest[k - 1], Tail(w)[k], rest[k])
  BY <1>1 DEF IsRun
<1>5. IsRun(rest, Tail(w))  BY <1>1, <1>4 DEF IsRun
<1>6. Takes(run[0], Head(w), run[1])  BY <1>1 DEF IsRun
<1>7. run[0] \in S /\ run[1] \in S  BY <1>1
<1>. QED  BY <1>1, <1>2, <1>3, <1>5, <1>6, <1>7

(***************************************************************************)
(* The browser on a socket: what it sends follows what it has sent, what   *)
(* it writes goes on with what it has written, and a ping stands between   *)
(* two frames.                                                             *)
(***************************************************************************)

(* The browser begins a message, in one or in two frames.                  *)
LEMMA SocketSend ==
  ASSUME SocketInv, Socket!Send
  PROVE  SocketInv' /\ Channel!Next
<1>. DEFINE m == Len(sent)
<1>1. PICK n \in 1..MaxFragments : unwritten' = Socket!Frames(m + 1, n)
  BY DEF Socket!Send, Socket!Last
<1>2. /\ sent' = Append(sent, <<m + 1>>) /\ unwritten = <<>> /\ m < MaxMessages
      /\ UNCHANGED <<pings, wire, pongs, reading, frame, fragments, received, torn>>
  BY DEF Socket!Send, Socket!Last, Socket!client
<1>3. m \in Nat /\ IsNumbered(sent') /\ Len(sent') = m + 1 /\ m + 1 \in 0..MaxMessages
  <2>1. m \in Nat  BY DEF SocketInv, SocketTypes, IsNumbered
  <2>2. IsNumbered(sent') /\ Len(sent') = m + 1
    BY <1>2, Numbered DEF SocketInv, SocketTypes
  <2>. QED  BY <1>2, <2>1, <2>2, TransportAssumption
<1>4. n \in Nat \ {0}  BY TransportAssumption
<1>5. unwritten' \in Seq(Socket!Halves) /\ Len(unwritten') = 2 * n
  BY <1>1, <1>3, <1>4, FramesAt
<1>6. SocketTypes'
  <2>1. Len(received) <= Len(sent')  BY <1>2, <1>3 DEF SocketInv, SocketTypes
  <2>. QED  BY <1>2, <1>3, <1>5, <2>1 DEF SocketInv, SocketTypes
<1>7. Unwritten(n)'
  <2>1. \A k \in 1..(2 * n) : 2 * n - 2 * n + k = k  BY <1>4
  <2>. QED  BY <1>1, <1>3, <1>4, <1>5, <2>1 DEF Unwritten
<1>8. ASSUME reading # "error"
      PROVE  \E run : Parses(run, n)'
  <2>1. PICK o \in Nat \ {0} : \E run : Parses(run, o)  BY <1>8 DEF SocketInv
  <2>2. PICK run, s : Parses(run, o) /\ s = run[Len(wire)]  BY <2>1
  <2>3. /\ run \in [0..Len(wire) -> Readers] /\ IsRun(run, wire) /\ IsClient(run[0])
        /\ HasRead(s, o, 2 * o)
    <3>1. 2 * o - Len(unwritten) = 2 * o  BY <1>2
    <3>. QED  BY <2>2, <3>1 DEF Parses
  <2>4. Readers \subseteq Readers'
    <3>1. 0..Len(sent) \subseteq (0..Len(sent))' /\ pings' = pings  BY <1>2, <1>3
    <3>. QED  BY <3>1 DEF Readers
  <2>5. run \in [0..Len(wire) -> Readers']  BY <2>3, <2>4
  <2>6. HasRead(s, n, 0)'
    <3>1. s.done = m /\ s.inside = FALSE /\ s.reads = "header" /\ s.answered = pings
      <4>1. (2 * o) % 2 = 0 /\ ~(1 < 2 * o /\ 2 * o < 2 * o)  OBVIOUS
      <4>. QED  BY <2>3, <4>1 DEF HasRead
    <3>2. Len(sent') - 1 = m /\ 0 # 2 * n /\ 0 % 2 = 0 /\ ~(1 < 0 /\ 0 < 2 * n)
      BY <1>3, <1>4
    <3>3. s.done = (IF 0 = 2 * n THEN Len(sent') ELSE Len(sent') - 1)  BY <3>1, <3>2
    <3>4. s.inside = (1 < 0 /\ 0 < 2 * n)  BY <3>1, <3>2
    <3>5. s.reads = (IF 0 % 2 = 0 THEN "header" ELSE "rest") /\ 0 % 2 # 1  BY <3>1
    <3>. QED  BY <1>2, <3>1, <3>3, <3>4, <3>5 DEF HasRead
  <2>7. IsClient(run[0])'  BY <1>2, <2>3 DEF IsClient
  <2>8. 2 * n - Len(unwritten') = 0  BY <1>4, <1>5
  <2>9. Parses(run, n)'  BY <1>2, <2>2, <2>3, <2>5, <2>6, <2>7, <2>8 DEF Parses
  <2>. QED  BY <2>9
<1>9. SocketInv'  BY <1>2, <1>4, <1>6, <1>7, <1>8 DEF SocketInv
<1>10. <<m + 1>> \in Socket!Texts  BY <1>3 DEF Socket!Texts
<1>. QED  BY <1>2, <1>9, <1>10 DEF Channel!Next, Channel!Send

(* It writes the next half of it.                                          *)
LEMMA SocketWrite ==
  ASSUME SocketInv, Socket!Write
  PROVE  SocketInv' /\ UNCHANGED <<sent, received>>
<1>. DEFINE h == Head(unwritten)
<1>1. /\ wire' = Append(wire, h) /\ unwritten' = Tail(unwritten) /\ unwritten # <<>>
      /\ UNCHANGED <<sent, pings, pongs, reading, frame, fragments, received, torn>>
  BY DEF Socket!Write, Socket!client
<1>2. unwritten \in Seq(Socket!Halves) /\ wire \in Seq(Socket!Halves)
  BY DEF SocketInv, SocketTypes
<1>3. /\ h \in Socket!Halves /\ h = unwritten[1] /\ wire' \in Seq(Socket!Halves)
      /\ unwritten' \in Seq(Socket!Halves) /\ Len(unwritten') = Len(unwritten) - 1
      /\ Len(unwritten) >= 1
  BY <1>1, <1>2
<1>4. SocketTypes'  BY <1>1, <1>3 DEF SocketInv, SocketTypes
<1>5. PICK n \in Nat \ {0} :
        Unwritten(n) /\ (reading # "error" => \E run : Parses(run, n))
  BY DEF SocketInv
<1>6. Unwritten(n)'
  <2>1. Len(unwritten') <= 2 * n  BY <1>3, <1>5 DEF Unwritten
  <2>2. ASSUME NEW k \in 1..Len(unwritten')
        PROVE  unwritten'[k] = Socket!Frames(Len(sent), n)[2 * n - Len(unwritten') + k]
    <3>1. unwritten'[k] = unwritten[k + 1] /\ k + 1 \in 1..Len(unwritten)
      BY <1>1, <1>2, <1>3
    <3>2. 2 * n - Len(unwritten') + k = 2 * n - Len(unwritten) + (k + 1)
      BY <1>3, <1>5
    <3>. QED  BY <1>5, <3>1, <3>2 DEF Unwritten
  <2>. QED  BY <1>1, <2>1, <2>2 DEF Unwritten
<1>7. ASSUME reading # "error"
      PROVE  \E run : Parses(run, n)'
  <2>1. PICK run, s, c : /\ Parses(run, n) /\ s = run[Len(wire)]
                         /\ c = 2 * n - Len(unwritten)
    BY <1>5, <1>7
  <2>2. c \in 0..(2 * n - 1) /\ 2 * n - Len(unwritten') = c + 1
    BY <1>3, <1>5, <2>1 DEF Unwritten
  <2>3. h = Socket!Frames(Len(sent), n)[c + 1]
    <3>1. 1 \in 1..Len(unwritten)  BY <1>3
    <3>. QED  BY <1>3, <1>5, <2>1, <3>1 DEF Unwritten
  <2>4. /\ run \in [0..Len(wire) -> Readers] /\ IsRun(run, wire) /\ IsClient(run[0])
        /\ s \in Readers /\ HasRead(s, n, c)
    <3>1. Len(wire) \in 0..Len(wire)  BY <1>2
    <3>. QED  BY <2>1, <3>1 DEF Parses
  <2>5. PICK t \in Readers : Takes(s, h, t) /\ HasRead(t, n, c + 1)
    <3>1. c % 2 = 0 \/ c % 2 = 1  BY <2>2
    <3>. HIDE DEF h
    <3>2. SocketTypes  BY DEF SocketInv
    <3>3. CASE c % 2 = 0  BY <2>2, <2>3, <2>4, <3>2, <3>3, NextHeader
    <3>4. CASE c % 2 = 1  BY <2>2, <2>3, <2>4, <3>2, <3>4, NextRest
    <3>. QED  BY <3>1, <3>3, <3>4
  <2>6. PICK longer \in [0..Len(wire') -> Readers] :
          IsRun(longer, wire') /\ longer[0] = run[0] /\ longer[Len(wire')] = t
    <3>. HIDE DEF h
    <3>1. Takes(run[Len(wire)], h, t) /\ h \in Socket!Halves  BY <1>3, <2>1, <2>5
    <3>2. \E longer \in [0..Len(Append(wire, h)) -> Readers] :
            /\ IsRun(longer, Append(wire, h))
            /\ longer[0] = run[0] /\ longer[Len(Append(wire, h))] = t
      BY <1>2, <2>4, <2>5, <3>1, RunAppend
    <3>. QED  BY <1>1, <3>2
  <2>7. Readers' = Readers  BY <1>1 DEF Readers
  <2>8. IsClient(run[0])'  BY <1>1, <2>4 DEF IsClient
  <2>9. HasRead(t, n, c + 1)'  BY <1>1, <2>5 DEF HasRead
  <2>10. Parses(longer, n)'
    <3>1. (2 * n - Len(unwritten))' = c + 1  BY <2>2
    <3>. QED  BY <2>6, <2>7, <2>8, <2>9, <3>1 DEF Parses
  <2>. QED  BY <2>10
<1>. QED  BY <1>1, <1>4, <1>6, <1>7 DEF SocketInv

(* It writes a ping between two frames.                                    *)
LEMMA SocketPing ==
  ASSUME SocketInv, Socket!Ping
  PROVE  SocketInv' /\ UNCHANGED <<sent, received>>
<1>. DEFINE a == Socket!Half("header", "ping", 0, "final")
            b == Socket!Half("rest", "ping", 0, "final")
<1>1. /\ wire' = wire \o <<a, b>> /\ pings' = pings + 1 /\ pings < MaxPings
      /\ unwritten # <<>> => Head(unwritten).part = "header"
      /\ UNCHANGED <<sent, unwritten, pongs, reading, frame, fragments, received, torn>>
  BY DEF Socket!Ping, Socket!client, Socket!Frame
<1>2. a \in Socket!Halves /\ b \in Socket!Halves
  BY TransportAssumption DEF Socket!Half, Socket!Halves
<1>3. unwritten \in Seq(Socket!Halves) /\ wire \in Seq(Socket!Halves)
  BY DEF SocketInv, SocketTypes
<1>4. /\ wire' = Append(Append(wire, a), b) /\ Append(wire, a) \in Seq(Socket!Halves)
      /\ wire' \in Seq(Socket!Halves)
  BY <1>1, <1>2, <1>3
<1>5. SocketTypes'
  <2>1. pings' \in 0..MaxPings /\ pongs \in 0..(pings + 1)
    BY <1>1, TransportAssumption DEF SocketInv, SocketTypes
  <2>. QED  BY <1>1, <1>4, <2>1 DEF SocketInv, SocketTypes
<1>6. PICK n \in Nat \ {0} :
        Unwritten(n) /\ (reading # "error" => \E run : Parses(run, n))
  BY DEF SocketInv
<1>7. Unwritten(n)'  BY <1>1, <1>6 DEF Unwritten
<1>8. ASSUME reading # "error"
      PROVE  \E run : Parses(run, n)'
  <2>1. PICK run, s, c : /\ Parses(run, n) /\ s = run[Len(wire)]
                         /\ c = 2 * n - Len(unwritten)
    BY <1>6, <1>8
  <2>. DEFINE t == [s EXCEPT !.reads = "rest", !.head = a]
              u == [s EXCEPT !.head = a, !.answered = s.answered + 1]
  <2>2. /\ run \in [0..Len(wire) -> Readers] /\ IsRun(run, wire) /\ IsClient(run[0])
        /\ s \in Readers /\ HasRead(s, n, c)
    <3>1. Len(wire) \in 0..Len(wire)  BY <1>3
    <3>. QED  BY <2>1, <3>1 DEF Parses
  <2>3. c % 2 = 0 /\ c \in Nat
    <3>1. CASE unwritten = <<>>  BY <1>6, <2>1, <3>1
    <3>2. CASE unwritten # <<>>
      <4>1. c \in 0..(2 * n - 1) /\ 1 \in 1..Len(unwritten) /\ Head(unwritten) = unwritten[1]
        BY <1>3, <1>6, <2>1, <3>2 DEF Unwritten
      <4>2. Head(unwritten) = Socket!Frames(Len(sent), n)[c + 1]
        BY <1>6, <2>1, <4>1 DEF Unwritten
      <4>3. c + 1 \in 1..(2 * n)  BY <4>1
      <4>4. FrameIs(Head(unwritten), Len(sent), n, c + 1)
        <5>1. Len(sent) \in 0..MaxMessages
          BY TransportAssumption DEF SocketInv, SocketTypes, IsNumbered
        <5>. QED  BY <4>2, <4>3, <5>1, FramesAt
      <4>5. (c + 1) % 2 = 1  BY <1>1, <3>2, <4>4 DEF FrameIs
      <4>. QED  BY <4>1, <4>5
    <3>. QED  BY <3>1, <3>2
  <2>4. s.reads = "header" /\ s.answered = pings /\ pings \in Nat
    BY <2>2, <2>3 DEF HasRead, SocketInv, SocketTypes
  <2>5. Readers \subseteq Readers'
    <3>1. 0..pings \subseteq 0..(pings + 1)  BY <2>4
    <3>. QED  BY <1>1, <3>1 DEF Readers
  <2>6. t \in Readers' /\ u \in Readers'
    <3>1. s \in Readers' /\ pings' = s.answered + 1 /\ s.answered + 1 \in 0..pings'
      BY <1>1, <2>2, <2>4, <2>5
    <3>2. t \in Readers'  BY <1>2, <3>1 DEF Readers
    <3>. QED  BY <1>2, <3>1 DEF Readers
  <2>7. Takes(s, a, t)  BY <2>2, <2>4 DEF Takes, Readers, Socket!Half
  <2>8. Takes(t, b, u)  BY <2>2, <2>4 DEF Takes, Readers, Socket!Half
  <2>9. HasRead(u, n, c)'
    <3>1. /\ u.done = s.done /\ u.inside = s.inside /\ u.reads = s.reads
          /\ u.answered = s.answered + 1
      BY <2>2 DEF Readers
    <3>. HIDE DEF u
    <3>2. s.reads = (IF c % 2 = 0 THEN "header" ELSE "rest")  BY <2>2 DEF HasRead
    <3>3. c % 2 # 1  BY <2>3
    <3>. QED  BY <1>1, <2>2, <2>4, <3>1, <3>2, <3>3 DEF HasRead
  <2>10. run \in [0..Len(wire) -> Readers']  BY <2>2, <2>5
  <2>. HIDE DEF a, b, t, u
  <2>11. PICK once \in [0..Len(Append(wire, a)) -> Readers'] :
           /\ IsRun(once, Append(wire, a)) /\ once[0] = run[0]
           /\ once[Len(Append(wire, a))] = t
    <3>1. Takes(run[Len(wire)], a, t)  BY <2>1, <2>7
    <3>2. PICK R : R = Readers'  OBVIOUS
    <3>3. /\ run \in [0..Len(wire) -> R] /\ t \in R /\ wire \in Seq(Socket!Halves)
          /\ IsRun(run, wire) /\ a \in Socket!Halves
      BY <1>2, <1>3, <2>2, <2>6, <2>10, <3>2
    <3>4. \E once \in [0..Len(Append(wire, a)) -> R] :
            /\ IsRun(once, Append(wire, a)) /\ once[0] = run[0]
            /\ once[Len(Append(wire, a))] = t
      <4>. HIDE DEF t, a
      <4>. QED  BY <3>1, <3>3, RunAppend
    <3>. QED  BY <3>2, <3>4
  <2>12. PICK twice \in [0..Len(wire') -> Readers'] :
           IsRun(twice, wire') /\ twice[0] = once[0] /\ twice[Len(wire')] = u
    BY <1>2, <1>4, <2>6, <2>8, <2>11, RunAppend
  <2>13. IsClient(run[0])'  BY <1>1, <2>2 DEF IsClient
  <2>14. (2 * n - Len(unwritten))' = c  BY <1>1, <2>1
  <2>15. Parses(twice, n)'
    <3>. QED  BY <2>9, <2>11, <2>12, <2>13, <2>14 DEF Parses
  <2>. QED  BY <2>15
<1>. QED  BY <1>1, <1>5, <1>7, <1>8 DEF SocketInv

(***************************************************************************)
(* The client on a socket: when it takes a half, what is left is read on   *)
(* from the reader that has taken it.                                      *)
(***************************************************************************)

(* The client is a reader of the run that leads to what is not written.    *)
LEMMA SocketTakes ==
  ASSUME SocketInv, wire # <<>>, reading # "error"
  PROVE  \E n \in Nat \ {0}, s \in Readers, t \in Readers :
           /\ Unwritten(n) /\ IsClient(s) /\ Takes(s, Head(wire), t)
           /\ \E rest \in [0..Len(Tail(wire)) -> Readers] :
                /\ IsRun(rest, Tail(wire)) /\ rest[0] = t
                /\ HasRead(rest[Len(Tail(wire))], n, 2 * n - Len(unwritten))
<1>1. PICK n \in Nat \ {0} : Unwritten(n) /\ \E run : Parses(run, n)
  BY DEF SocketInv
<1>2. PICK run : Parses(run, n)  BY <1>1
<1>3. /\ run \in [0..Len(wire) -> Readers] /\ IsRun(run, wire) /\ IsClient(run[0])
      /\ HasRead(run[Len(wire)], n, 2 * n - Len(unwritten)) /\ wire \in Seq(Socket!Halves)
  BY <1>2 DEF Parses, SocketInv, SocketTypes
<1>4. /\ Takes(run[0], Head(wire), run[1]) /\ run[0] \in Readers /\ run[1] \in Readers
      /\ \E rest \in [0..Len(Tail(wire)) -> Readers] :
           /\ IsRun(rest, Tail(wire))
           /\ rest[0] = run[1] /\ rest[Len(Tail(wire))] = run[Len(wire)]
  BY <1>3, RunTail
<1>5. PICK rest \in [0..Len(Tail(wire)) -> Readers] :
        /\ IsRun(rest, Tail(wire))
        /\ rest[0] = run[1] /\ rest[Len(Tail(wire))] = run[Len(wire)]
  BY <1>4
<1>6. HasRead(rest[Len(Tail(wire))], n, 2 * n - Len(unwritten))  BY <1>3, <1>5
<1>. QED  BY <1>1, <1>3, <1>4, <1>5, <1>6

(* It takes a half and is a reader again.                                  *)
LEMMA SocketReadsOn ==
  ASSUME SocketInv, wire # <<>>, reading # "error", wire' = Tail(wire),
         UNCHANGED <<sent, unwritten, pings>>, SocketTypes',
         reading' # "error" =>
           \A s, t \in Readers : (IsClient(s) /\ Takes(s, Head(wire), t)) => IsClient(t)'
  PROVE  SocketInv'
<1>1. PICK n \in Nat \ {0}, s \in Readers, t \in Readers :
        /\ Unwritten(n) /\ IsClient(s) /\ Takes(s, Head(wire), t)
        /\ \E rest \in [0..Len(Tail(wire)) -> Readers] :
             /\ IsRun(rest, Tail(wire)) /\ rest[0] = t
             /\ HasRead(rest[Len(Tail(wire))], n, 2 * n - Len(unwritten))
  BY SocketTakes
<1>2. PICK rest \in [0..Len(Tail(wire)) -> Readers] :
        /\ IsRun(rest, Tail(wire)) /\ rest[0] = t
        /\ HasRead(rest[Len(Tail(wire))], n, 2 * n - Len(unwritten))
  BY <1>1
<1>3. Unwritten(n)'  BY <1>1 DEF Unwritten
<1>4. Readers' = Readers  BY DEF Readers
<1>5. PICK c, last : c = 2 * n - Len(unwritten) /\ last = rest[Len(Tail(wire))]  OBVIOUS
<1>6. HasRead(last, n, c)'  BY <1>2, <1>5 DEF HasRead
<1>7. c = (2 * n - Len(unwritten))' /\ last = rest[Len(wire')]  BY <1>5
<1>8. ASSUME reading' # "error"
      PROVE  Parses(rest, n)'
  <2>1. IsClient(t)'  BY <1>1, <1>8
  <2>. QED  BY <1>2, <1>4, <1>6, <1>7, <2>1 DEF Parses
<1>. QED  BY <1>3, <1>8 DEF SocketInv

(* It reads a header and knows the frame.                                  *)
LEMMA SocketReadHeader ==
  ASSUME SocketInv, Socket!ReadHeader
  PROVE  SocketInv' /\ UNCHANGED <<sent, received>>
<1>. DEFINE h == Head(wire)
<1>1. /\ reading = "header" /\ wire # <<>> /\ wire' = Tail(wire) /\ frame' = h
      /\ reading' = (IF h.part = "header" THEN "rest" ELSE "error")
      /\ UNCHANGED <<sent, unwritten, pings, pongs, fragments, received, torn>>
  BY DEF Socket!ReadHeader, Socket!browser
<1>2. SocketTypes'
  <2>1. wire' \in Seq(Socket!Halves) /\ frame' \in Socket!Halves
    BY <1>1 DEF SocketInv, SocketTypes
  <2>. QED  BY <1>1, <2>1 DEF SocketInv, SocketTypes
<1>3. ASSUME reading' # "error", NEW s \in Readers, NEW t \in Readers,
             IsClient(s), Takes(s, h, t)
      PROVE  IsClient(t)'
  <2>1. h.part = "header"  BY <1>1, <1>3
  <2>2. t = [s EXCEPT !.reads = "rest", !.head = h]  BY <1>3, <2>1 DEF Takes
  <2>. HIDE DEF h
  <2>3. t.done = s.done /\ t.inside = s.inside /\ t.answered = s.answered
        /\ t.reads = "rest" /\ t.head = h
    BY <2>2 DEF Readers
  <2>. QED  BY <1>1, <1>3, <2>3 DEF IsClient
<1>. HIDE DEF h
<1>4. SocketInv'  BY <1>1, <1>2, <1>3, SocketReadsOn DEF h
<1>. QED  BY <1>1, <1>4

(* It reads the rest of a ping, answers it and reads on.                   *)
LEMMA SocketReadPing ==
  ASSUME SocketInv, Socket!ReadPing
  PROVE  SocketInv' /\ UNCHANGED <<sent, received>>
<1>. DEFINE h == Head(wire)
<1>1. /\ reading = "rest" /\ wire # <<>> /\ wire' = Tail(wire) /\ frame.opcode = "ping"
      /\ pongs' = pongs + 1 /\ reading' = "header"
      /\ UNCHANGED <<sent, unwritten, pings, frame, fragments, received, torn>>
  BY DEF Socket!ReadPing, Socket!browser
<1>2. ASSUME NEW s \in Readers, NEW t \in Readers, IsClient(s), Takes(s, h, t)
      PROVE  IsClient(t)' /\ t.answered = pongs + 1
  <2>1. s.reads = "rest" /\ s.head = frame /\ s.done = Len(received) /\ s.answered = pongs
    BY <1>1, <1>2 DEF IsClient
  <2>2. h = [s.head EXCEPT !.part = "rest"] /\ h.part = "rest"  BY <1>2, <2>1 DEF Takes
  <2>3. h.opcode = "ping"  BY <1>1, <2>1, <2>2 DEF SocketInv, SocketTypes, Socket!Halves
  <2>4. t.done = s.done /\ t.inside = s.inside /\ t.answered = s.answered + 1
    BY <1>2, <2>2, <2>3 DEF Takes
  <2>. QED  BY <1>1, <1>2, <2>1, <2>4 DEF IsClient
<1>3. SocketTypes'
  <2>1. PICK s \in Readers, t \in Readers : IsClient(s) /\ Takes(s, h, t)
    BY <1>1, SocketTakes
  <2>2. pongs + 1 \in 0..pings  BY <1>2, <2>1 DEF Readers
  <2>3. wire' \in Seq(Socket!Halves)  BY <1>1 DEF SocketInv, SocketTypes
  <2>. QED  BY <1>1, <2>2, <2>3 DEF SocketInv, SocketTypes
<1>. HIDE DEF h
<1>4. SocketInv'  BY <1>1, <1>2, <1>3, SocketReadsOn DEF h
<1>. QED  BY <1>1, <1>4

(***************************************************************************)
(* A frame of a message that is read is of the next message to return.     *)
(***************************************************************************)

(* A frame of a message that is read is of the next message to return.     *)
LEMMA SocketDataIs ==
  ASSUME SocketInv, reading = "rest", frame.opcode # "ping",
         NEW h, NEW s \in Readers, NEW t \in Readers, IsClient(s), Takes(s, h, t)
  PROVE  /\ frame.message = Len(received) + 1 /\ frame.message \in 1..MaxMessages
         /\ t.inside = (frame.fin = "more") /\ t.answered = pongs
         /\ t.done = (IF frame.fin = "final" THEN Len(received) + 1 ELSE Len(received))
         /\ t.done <= Len(sent)
<1>1. s.reads = "rest" /\ s.head = frame /\ s.done = Len(received) /\ s.answered = pongs
  BY DEF IsClient
<1>2. h = [s.head EXCEPT !.part = "rest"] /\ h.part = "rest"  BY <1>1 DEF Takes
<1>3. /\ h.opcode = frame.opcode /\ h.message = frame.message /\ h.fin = frame.fin
      /\ frame.message \in 0..MaxMessages
  BY <1>1, <1>2 DEF SocketInv, SocketTypes, Socket!Halves
<1>4. h.message = s.done + 1  BY <1>3 DEF Takes
<1>5. t.done = (IF h.fin = "final" THEN s.done + 1 ELSE s.done)
      /\ t.inside = (h.fin = "more") /\ t.answered = s.answered
  BY <1>2, <1>3 DEF Takes
<1>6. t.done <= Len(sent) /\ s.done \in Nat
  BY DEF Readers, SocketInv, SocketTypes, IsNumbered
<1>7. frame.message = Len(received) + 1 /\ frame.message \in 1..MaxMessages
  BY <1>1, <1>3, <1>4, <1>6, TransportAssumption
<1>8. t.inside = (frame.fin = "more")  BY <1>3, <1>5
<1>. QED  BY <1>1, <1>3, <1>5, <1>6, <1>7, <1>8

(* It reads the rest of a frame of a message: a first frame while no       *)
(* fragments are kept, a continuation after one, and with the final frame  *)
(* it returns that message.                                                *)
LEMMA SocketReadData ==
  ASSUME SocketInv, Socket!ReadData
  PROVE  SocketInv' /\ [Channel!Next]_<<sent, received>>
<1>. DEFINE h == Head(wire)
            m == frame.message
<1>1. /\ reading = "rest" /\ wire # <<>> /\ wire' = Tail(wire) /\ frame.opcode # "ping"
      /\ UNCHANGED <<sent, unwritten, pings, pongs, frame, torn>>
  BY DEF Socket!ReadData, Socket!browser
<1>2. PICK s \in Readers, t \in Readers : IsClient(s) /\ Takes(s, h, t)
  BY <1>1, SocketTakes
<1>3. m = Len(received) + 1 /\ m \in 1..MaxMessages
  BY <1>1, <1>2, SocketDataIs
<1>4. wire' \in Seq(Socket!Halves)  BY <1>1 DEF SocketInv, SocketTypes
<1>5. CASE reading' = "error" /\ UNCHANGED <<fragments, received>>
  <2>1. SocketTypes'  BY <1>1, <1>4, <1>5 DEF SocketInv, SocketTypes
  <2>2. SocketInv'  BY <1>1, <1>5, <2>1, SocketReadsOn
  <2>. QED  BY <1>1, <1>5, <2>2
<1>6. CASE /\ reading' = "header" /\ frame.fin = "final" /\ fragments' = <<>>
           /\ received' = Append(received, <<m>>)
  <2>1. /\ IsNumbered(received') /\ Len(received') = Len(received) + 1
    BY <1>3, <1>6, Numbered DEF SocketInv, SocketTypes
  <2>2. Len(received) + 1 <= Len(sent)
    <3>1. t.done = Len(received) + 1 /\ t.done <= Len(sent)
      BY <1>1, <1>2, <1>6, SocketDataIs
    <3>. QED  BY <3>1
  <2>3. SocketTypes'  BY <1>1, <1>4, <1>6, <2>1, <2>2 DEF SocketInv, SocketTypes
  <2>4. ASSUME NEW x \in Readers, NEW y \in Readers, IsClient(x), Takes(x, h, y)
        PROVE  IsClient(y)'
    <3>1. y.done = Len(received) + 1 /\ y.answered = pongs
      BY <1>1, <1>6, <2>4, SocketDataIs
    <3>. QED  BY <1>1, <1>6, <2>1, <3>1 DEF IsClient
  <2>5. SocketInv'
    <3>. HIDE DEF h
    <3>. QED  BY <1>1, <2>3, <2>4, SocketReadsOn DEF h
  <2>6. Len(received) < Len(sent) /\ sent[Len(received) + 1] = <<m>>
    <3>1. Len(received) + 1 \in 1..Len(sent)
      BY <2>2 DEF SocketInv, SocketTypes, IsNumbered
    <3>. QED  BY <1>3, <2>2, <3>1 DEF SocketInv, SocketTypes, IsNumbered
  <2>. QED  BY <1>1, <1>6, <2>5, <2>6 DEF Channel!Next, Channel!Receive
<1>7. CASE /\ reading' = "header" /\ frame.fin # "final" /\ fragments' = Append(fragments, m)
           /\ UNCHANGED received
  <2>1. SocketTypes'  BY <1>1, <1>3, <1>4, <1>7 DEF SocketInv, SocketTypes
  <2>2. ASSUME NEW x \in Readers, NEW y \in Readers, IsClient(x), Takes(x, h, y)
        PROVE  IsClient(y)'
    <3>1. y.done = Len(received) /\ y.answered = pongs /\ y.inside = (frame.fin = "more")
      BY <1>1, <1>7, <2>2, SocketDataIs
    <3>2. frame.fin = "more"  BY <1>7 DEF SocketInv, SocketTypes, Socket!Halves
    <3>. QED  BY <1>1, <1>7, <3>1, <3>2 DEF IsClient
  <2>3. SocketInv'
    <3>. HIDE DEF h
    <3>. QED  BY <1>1, <2>1, <2>2, SocketReadsOn DEF h
  <2>. QED  BY <1>1, <1>7, <2>3
<1>. QED  BY <1>5, <1>6, <1>7 DEF Socket!ReadData

(* A deadline that passes throws away what has been read of a message, and *)
(* the header when it has been read.  The stream stays where it is.        *)
LEMMA SocketTimeOut ==
  ASSUME SocketInv, Socket!TimeOut
  PROVE  SocketInv' /\ UNCHANGED <<sent, received>>
<1>1. /\ reading \in {"header", "rest"} /\ reading' = "header" /\ fragments' = <<>>
      /\ torn' = (torn \/ reading = "rest" \/ fragments # <<>>)
      /\ UNCHANGED <<sent, unwritten, pings, wire, pongs, frame, received>>
  BY DEF Socket!TimeOut, Socket!browser
<1>2. SocketTypes'
  <2>1. torn' \in BOOLEAN  BY <1>1
  <2>. QED  BY <1>1, <2>1 DEF SocketInv, SocketTypes
<1>3. PICK n \in Nat \ {0} : Unwritten(n) /\ \E run : Parses(run, n)
  BY <1>1 DEF SocketInv
<1>4. Unwritten(n)'  BY <1>1, <1>3 DEF Unwritten
<1>5. PICK run, s, c : /\ Parses(run, n) /\ s = run[Len(wire)]
                       /\ c = 2 * n - Len(unwritten)
  BY <1>3
<1>6. Readers' = Readers  BY <1>1 DEF Readers
<1>7. IsClient(run[0])'  BY <1>1, <1>5 DEF Parses, IsClient
<1>8. HasRead(s, n, c)'  BY <1>1, <1>5 DEF Parses, HasRead
<1>9. Parses(run, n)'
  <2>1. (2 * n - Len(unwritten))' = c /\ s = run[Len(wire')]  BY <1>1, <1>5
  <2>. QED  BY <1>1, <1>5, <1>6, <1>7, <1>8, <2>1 DEF Parses
<1>. QED  BY <1>1, <1>2, <1>4, <1>9 DEF SocketInv

(* Every step of the socket keeps the run and is one of the channel.       *)
LEMMA SocketStep ==
  ASSUME SocketInv, Socket!Next
  PROVE  SocketInv' /\ [Channel!Next]_<<sent, received>>
BY SocketSend, SocketWrite, SocketPing, SocketReadHeader, SocketReadPing, SocketReadData,
   SocketTimeOut
   DEF Socket!Next, Socket!Browser, Socket!Receive

(* Nothing has been sent.                                                  *)
LEMMA TransportBegins ==
  ASSUME TransportInit
  PROVE  TransportInv /\ Channel!Init /\ Pipe!Commands!Init
<1>1. /\ commands = <<>> /\ payload = <<>> /\ ended = FALSE /\ outward = <<>> /\ inward = <<>>
      /\ pending = <<>> /\ handled = <<>> /\ sent = <<>> /\ reply = <<>> /\ buffer = <<>>
      /\ received = <<>> /\ timeouts = 0 /\ unwritten = <<>> /\ wire = <<>> /\ pings = 0
      /\ pongs = 0 /\ reading = "header" /\ fragments = <<>> /\ torn = FALSE
      /\ frame = Socket!Half("rest", "ping", 0, "final")
  BY DEF TransportInit, Pipe!Init, Socket!Init
<1>2. CommandInv
  <2>1. CommandSeqs  BY <1>1, TransportAssumption DEF CommandSeqs, IsNumbered
  <2>2. CommandStreams  BY <1>1 DEF CommandStreams, IsStream
  <2>3. Written = 2 * Len(commands)  BY <1>1 DEF Written
  <2>. QED  BY <1>1, <2>1, <2>2, <2>3 DEF CommandInv
<1>3. AnswerInv
  <2>1. AnswerSeqs  BY <1>1, TransportAssumption DEF AnswerSeqs, IsNumbered
  <2>2. AnswerStreams  BY <1>1 DEF AnswerStreams, IsStream
  <2>3. Returned = 2 * Len(sent)  BY <1>1 DEF Returned
  <2>. QED  BY <2>1, <2>2, <2>3 DEF AnswerInv
<1>4. SocketInv
  <2>1. frame \in Socket!Halves
    BY <1>1, TransportAssumption DEF Socket!Half, Socket!Halves
  <2>2. SocketTypes
    <3>1. IsNumbered(<<>>) /\ Len(<<>>) = 0  BY DEF IsNumbered
    <3>2. 0 <= MaxMessages /\ 0 \in 0..MaxPings /\ 0 \in 0..0  BY TransportAssumption
    <3>3. /\ IsNumbered(sent) /\ IsNumbered(received) /\ Len(received) <= Len(sent)
          /\ Len(sent) <= MaxMessages
      BY <1>1, <3>1, <3>2
    <3>4. pings \in 0..MaxPings /\ pongs \in 0..pings  BY <1>1, <3>2
    <3>5. /\ unwritten \in Seq(Socket!Halves) /\ wire \in Seq(Socket!Halves)
          /\ fragments \in Seq(1..MaxMessages)
      BY <1>1
    <3>6. torn \in BOOLEAN /\ reading \in {"header", "rest", "error"}  BY <1>1
    <3>. QED  BY <2>1, <3>3, <3>4, <3>5, <3>6 DEF SocketTypes
  <2>3. Unwritten(1)  BY <1>1 DEF Unwritten
  <2>. DEFINE s   == [done |-> 0, inside |-> FALSE, reads |-> "header", head |-> frame,
                      answered |-> 0]
              run == [k \in 0..0 |-> s]
  <2>4. s \in Readers  BY <1>1, <2>1 DEF Readers
  <2>5. run \in [0..Len(wire) -> Readers] /\ IsRun(run, wire)  BY <1>1, <2>4 DEF IsRun
  <2>6. IsClient(s)  BY <1>1 DEF IsClient
  <2>7. HasRead(s, 1, 2)
    <3>1. 2 % 2 = 0 /\ 2 % 2 # 1 /\ 2 = 2 * 1 /\ ~(1 < 2 /\ 2 < 2 * 1) /\ Len(sent) = 0
      BY <1>1
    <3>2. s.done = 0 /\ s.inside = FALSE /\ s.reads = "header" /\ s.answered = 0  OBVIOUS
    <3>3. s.inside = (1 < 2 /\ 2 < 2 * 1)  BY <3>1, <3>2
    <3>. HIDE DEF s
    <3>. QED  BY <1>1, <3>1, <3>2, <3>3 DEF HasRead
  <2>8. run[0] = s /\ run[Len(wire)] = s /\ 2 * 1 - Len(unwritten) = 2  BY <1>1
  <2>9. Parses(run, 1)
    <3>. HIDE DEF s, run
    <3>. QED  BY <2>5, <2>6, <2>7, <2>8 DEF Parses
  <2>10. \E r : Parses(r, 1)  BY <2>9
  <2>. QED  BY <2>2, <2>3, <2>10 DEF SocketInv
<1>. QED
  BY <1>1, <1>2, <1>3, <1>4
     DEF TransportInit, TransportInv, Channel!Init, Pipe!Commands!Init

(* The socket is left alone.                                               *)
LEMMA SocketKeeps ==
  ASSUME SocketInv, UNCHANGED <<messages, ofSocket>>
  PROVE  SocketInv'
<1>1. SocketTypes'  BY DEF SocketInv, SocketTypes, messages, ofSocket
<1>2. PICK n \in Nat \ {0} :
        Unwritten(n) /\ (reading # "error" => \E run : Parses(run, n))
  BY DEF SocketInv
<1>3. Unwritten(n)'  BY <1>2 DEF Unwritten, messages, ofSocket
<1>4. ASSUME NEW run, Parses(run, n)
      PROVE  Parses(run, n)'
  <2>1. Readers' = Readers  BY DEF Readers, messages, ofSocket
  <2>2. PICK s, c : s = run[Len(wire)] /\ c = 2 * n - Len(unwritten)  OBVIOUS
  <2>3. HasRead(s, n, c)'  BY <1>4, <2>2 DEF Parses, HasRead, messages, ofSocket
  <2>4. IsClient(run[0])'  BY <1>4 DEF Parses, IsClient, messages, ofSocket
  <2>5. s = run[Len(wire')] /\ c = (2 * n - Len(unwritten))' /\ wire' = wire
    BY <2>2 DEF ofSocket
  <2>. QED  BY <1>4, <2>1, <2>3, <2>4, <2>5 DEF Parses
<1>. QED  BY <1>1, <1>2, <1>3, <1>4 DEF SocketInv, ofSocket

(* So is the pipe.                                                         *)
LEMMA AnswerKeeps ==
  ASSUME AnswerInv, UNCHANGED <<messages, ofPipe>>
  PROVE  AnswerInv'
BY DEF AnswerInv, AnswerSeqs, AnswerStreams, Returned, messages, ofPipe

(***************************************************************************)
(* A step of either transport is one of the channel and one of the         *)
(* channel of commands, or changes neither.                                *)
(***************************************************************************)
LEMMA TransportStep ==
  ASSUME TransportInv, [TransportNext]_transportVars
  PROVE  /\ TransportInv' /\ [Channel!Next]_<<sent, received>>
         /\ [Pipe!Commands!Next]_<<commands, handled>>
<1>1. CASE OverSocket(Socket!Next)
  <2>1. transport = "WebSocket" /\ Socket!Next /\ UNCHANGED <<transport, ofPipe>>
    BY <1>1 DEF OverSocket
  <2>2. SocketInv' /\ [Channel!Next]_<<sent, received>>
    BY <2>1, SocketStep DEF TransportInv
  <2>3. CommandInv' /\ [Pipe!Commands!Next]_<<commands, handled>>
    BY <2>1, CommandStep DEF TransportInv
  <2>. QED  BY <2>1, <2>2, <2>3 DEF TransportInv
<1>2. CASE OverPipe(Pipe!Next)
  <2>1. transport = "PipeTransport" /\ Pipe!Next /\ UNCHANGED transport
    BY <1>2 DEF OverPipe
  <2>2. AnswerInv' /\ [Channel!Next]_<<sent, received>>
    BY <2>1, AnswerStep DEF TransportInv
  <2>3. CommandInv' /\ [Pipe!Commands!Next]_<<commands, handled>>
    BY <2>1, CommandStep DEF TransportInv
  <2>. QED  BY <2>1, <2>2, <2>3 DEF TransportInv
<1>3. CASE UNCHANGED transportVars
  <2>1. UNCHANGED <<messages, ofSocket>> /\ UNCHANGED <<messages, ofPipe>>
        /\ UNCHANGED ofPipe /\ UNCHANGED <<transport, sent, received>>
    BY <1>3 DEF transportVars, messages
  <2>2. CommandInv' /\ [Pipe!Commands!Next]_<<commands, handled>>
    BY <2>1, CommandStep DEF TransportInv
  <2>. QED  BY <2>1, <2>2, AnswerKeeps, SocketKeeps DEF TransportInv
<1>. QED  BY <1>1, <1>2, <1>3 DEF TransportNext

(* The items of a stream are those of the messages and the NUL.            *)
LEMMA StreamRange ==
  ASSUME NEW s \in Seq(Nat), NEW a \in Nat, IsStream(s, a), a + Len(s) <= 2 * MaxCommands
  PROVE  Pipe!Range(s) \subseteq {Pipe!Nul} \cup UNION {Pipe!Range(t) : t \in Pipe!Texts}
<1>. SUFFICES ASSUME NEW x \in Pipe!Range(s)
              PROVE  x = 0 \/ \E t \in Pipe!Texts : x \in Pipe!Range(t)
  BY DEF Pipe!Nul
<1>1. PICK k \in 1..Len(s) : x = ItemAt(a + k)  BY DEF Pipe!Range, IsStream
<1>2. MaxCommands \in Nat /\ a + k <= 2 * MaxCommands /\ a + k >= 1  BY <1>1, TransportAssumption
<1>3. x = 0 \/ x \in 1..MaxCommands  BY <1>1, <1>2 DEF ItemAt
<1>4. ASSUME x \in 1..MaxCommands
      PROVE  <<x>> \in Pipe!Texts /\ x \in Pipe!Range(<<x>>)
  <2>1. <<x>>[1] = x /\ 1 \in DOMAIN <<x>>  OBVIOUS
  <2>. QED  BY <1>4, <2>1 DEF Pipe!Texts, Pipe!Range
<1>. QED  BY <1>3, <1>4

(* Numbered messages are among the texts the module names.                 *)
LEMMA NumberedTexts ==
  ASSUME NEW s, NEW n \in Nat, IsNumbered(s), Len(s) <= n
  PROVE  s \in Seq({<<k>> : k \in 1..n})
<1>. DEFINE T == {<<k>> : k \in 1..n}
<1>1. s \in Seq(Seq(Nat)) /\ \A k \in 1..Len(s) : s[k] = <<k>> /\ k \in 1..n
  BY DEF IsNumbered
<1>2. \A k \in 1..Len(s) : s[k] \in T  BY <1>1
<1>. HIDE DEF T
<1>3. s \in [1..Len(s) -> T] /\ Len(s) \in Nat
  <2>1. s \in [1..Len(s) -> Seq(Nat)] /\ Len(s) \in Nat  BY <1>1
  <2>. QED  BY <1>2, <2>1
<1>4. s \in Seq(T)  BY <1>3, SeqDef
<1>. QED  BY <1>4 DEF T

(* What the invariants say of a socket implies its types.                  *)
LEMMA SocketIsTyped ==
  ASSUME SocketInv
  PROVE  Socket!TypeOK
<1>1. sent \in Seq(Socket!Texts) /\ received \in Seq(Socket!Texts)
  <2>1. Len(sent) \in Nat /\ Len(received) \in Nat
    BY DEF SocketInv, SocketTypes, IsNumbered
  <2>2. Len(received) <= MaxMessages /\ Len(sent) <= MaxMessages
    BY <2>1, TransportAssumption DEF SocketInv, SocketTypes
  <2>. QED
    BY <2>2, NumberedTexts, TransportAssumption DEF SocketInv, SocketTypes, Socket!Texts
<1>2. pongs \in 0..MaxPings
  BY TransportAssumption DEF SocketInv, SocketTypes
<1>. QED  BY <1>1, <1>2 DEF SocketInv, SocketTypes, Socket!TypeOK

(* So it is for a pipe.                                                    *)
LEMMA PipeIsTyped ==
  ASSUME CommandInv, AnswerInv
  PROVE  Pipe!TypeOK
<1>1. /\ Len(handled) <= Len(commands) /\ Len(commands) <= MaxCommands
      /\ 2 * Len(handled) + Len(pending) + Len(outward) + Len(payload) <= 2 * MaxCommands
  BY CommandLengths, TransportAssumption DEF CommandInv, CommandSeqs, Written
<1>2. /\ Len(received) <= Len(sent) /\ Len(sent) <= Len(handled)
      /\ 2 * Len(received) + Len(buffer) + Len(inward) + Len(reply) = 2 * Len(sent)
  BY AnswerLengths DEF AnswerInv, AnswerSeqs, Returned
<1>3. /\ Len(handled) <= MaxCommands /\ Len(sent) <= MaxCommands
      /\ Len(received) <= MaxCommands /\ MaxCommands \in Nat
  BY <1>1, <1>2, CommandLengths, AnswerLengths, TransportAssumption
<1>4. /\ commands \in Seq(Pipe!Texts) /\ handled \in Seq(Pipe!Texts)
      /\ sent \in Seq(Pipe!Texts) /\ received \in Seq(Pipe!Texts)
  BY <1>1, <1>3, NumberedTexts
     DEF CommandInv, CommandSeqs, AnswerInv, AnswerSeqs, Pipe!Texts
<1>5. ASSUME NEW items \in {payload, outward, pending, reply, inward, buffer}
      PROVE  Pipe!Range(items) \subseteq {Pipe!Nul} \cup UNION {Pipe!Range(t) : t \in Pipe!Texts}
  <2>. DEFINE read == 2 * Len(handled) + Len(pending)
              back == 2 * Len(received) + Len(buffer)
  <2>1. /\ IsStream(pending, 2 * Len(handled)) /\ IsStream(outward, read)
        /\ IsStream(payload, read + Len(outward))
    BY DEF CommandInv, CommandStreams
  <2>2. /\ IsStream(buffer, 2 * Len(received)) /\ IsStream(inward, back)
        /\ IsStream(reply, back + Len(inward))
    BY DEF AnswerInv, AnswerStreams
  <2>3. PICK start \in Nat : IsStream(items, start) /\ start + Len(items) <= 2 * MaxCommands
    <3>1. CASE items = pending
      <4>1. 2 * Len(handled) \in Nat /\ 2 * Len(handled) + Len(pending) <= 2 * MaxCommands
        BY <1>1, CommandLengths, TransportAssumption
      <4>. QED  BY <2>1, <3>1, <4>1
    <3>2. CASE items = outward
      <4>1. read \in Nat /\ read + Len(outward) <= 2 * MaxCommands
        BY <1>1, CommandLengths, TransportAssumption
      <4>. QED  BY <2>1, <3>2, <4>1
    <3>3. CASE items = payload
      <4>1. read + Len(outward) \in Nat /\ read + Len(outward) + Len(payload) <= 2 * MaxCommands
        BY <1>1, CommandLengths, TransportAssumption
      <4>. QED  BY <2>1, <3>3, <4>1
    <3>4. CASE items = buffer
      <4>1. 2 * Len(received) \in Nat /\ 2 * Len(received) + Len(buffer) <= 2 * MaxCommands
        BY <1>2, <1>3, AnswerLengths, TransportAssumption
      <4>. QED  BY <2>2, <3>4, <4>1
    <3>5. CASE items = inward
      <4>1. back \in Nat /\ back + Len(inward) <= 2 * MaxCommands
        BY <1>2, <1>3, AnswerLengths, TransportAssumption
      <4>. QED  BY <2>2, <3>5, <4>1
    <3>6. CASE items = reply
      <4>1. back + Len(inward) \in Nat /\ back + Len(inward) + Len(reply) <= 2 * MaxCommands
        BY <1>2, <1>3, AnswerLengths, TransportAssumption
      <4>. QED  BY <2>2, <3>6, <4>1
    <3>. QED  BY <3>1, <3>2, <3>3, <3>4, <3>5, <3>6
  <2>4. items \in Seq(Nat)  BY CommandLengths, AnswerLengths
  <2>. QED  BY <2>3, <2>4, StreamRange
<1>. QED
  BY <1>4, <1>5 DEF Pipe!TypeOK, CommandInv, CommandSeqs, AnswerInv, AnswerSeqs

(* TRANSPORT.  A message on its way is in one place of one stream, and     *)
(* what is read is the next of it: for every size of pipe, number of       *)
(* messages and number of deadlines, with pings and fragments in every     *)
(* position.                                                               *)
THEOREM TransportIsSound == TransportSpec => []TransportInv
<1>1. TransportInit => TransportInv  BY TransportBegins
<1>2. TransportInv /\ [TransportNext]_transportVars => TransportInv'  BY TransportStep
<1>. QED  BY <1>1, <1>2, PTL DEF TransportSpec

(* What send() and receive() keep is well typed, over either transport.    *)
THEOREM TransportTypeCorrect == TransportSpec => []TransportTypeOK
<1>1. TransportInv => TransportTypeOK
  BY SocketIsTyped, PipeIsTyped DEF TransportInv, TransportTypeOK
<1>. QED  BY <1>1, TransportIsSound, PTL

(* REFINEMENT.  Both transports are the one channel the connection is      *)
(* written against: receive() returns the messages in the order they were  *)
(* sent, none twice, none in part and none left out.  A deadline that      *)
(* passes inside a message costs the socket what is to come, which it      *)
(* reports as an error, and never makes it return the wrong part of the    *)
(* stream.                                                                 *)
THEOREM EitherIsChannel == TransportSpec => IsChannel
<1>1. TransportInit => TransportInv /\ Channel!Init  BY TransportBegins
<1>2. TransportInv /\ [TransportNext]_transportVars => TransportInv' /\ [Channel!Next]_Channel!vars
  BY TransportStep DEF Channel!vars
<1>. QED  BY <1>1, <1>2, PTL DEF TransportSpec, IsChannel, Channel!Spec

(* The browser handles the commands send() was called with, in that order  *)
(* and each whole, however the pipe divides them.                          *)
THEOREM CommandsComeWhole == TransportSpec => CommandsAreWhole
<1>1. TransportInit => TransportInv /\ Pipe!Commands!Init  BY TransportBegins
<1>2. TransportInv /\ [TransportNext]_transportVars
        => TransportInv' /\ [Pipe!Commands!Next]_Pipe!Commands!vars
  BY TransportStep DEF Pipe!Commands!vars
<1>. QED
  BY <1>1, <1>2, PTL
     DEF TransportSpec, CommandsAreWhole, Pipe!CommandsAreWhole, Pipe!Commands!Spec
-----------------------------------------------------------------------------

(***************************************************************************)
(* The connection: answers, events and the page a test asked for.          *)
(***************************************************************************)

(* What is left of r without its place i.                                  *)
IsWithout(q, r, i) ==
  /\ i \in 1..Len(r) /\ Len(q) = Len(r) - 1
  /\ \A k \in 1..Len(q) : q[k] = r[IF k < i THEN k ELSE k + 1]

NoneOf(r, kind)      == \A i \in 1..Len(r) : r[i].kind # kind
AtMostOne(r, kind) == \A i, j \in 1..Len(r) : r[i].kind = kind /\ r[j].kind = kind => i = j

(* Of n reported events t are taken and those of r are not, in their       *)
(* order; answers stand between the latter.                                *)
IsWhole(t, r, n) ==
  /\ \A i \in 1..Len(t) : t[i].serial \in 1..n
  /\ \A i \in 1..Len(r) : r[i].kind # "answer" => r[i].serial \in 1..n
  /\ \A i, j \in 1..Len(t) : i < j => t[i].serial # t[j].serial
  /\ \A i \in 1..Len(t), j \in 1..Len(r) : r[j].kind # "answer" => t[i].serial # r[j].serial
  /\ \A i, j \in 1..Len(r) :
       (i < j /\ r[i].kind # "answer" /\ r[j].kind # "answer") => r[i].serial < r[j].serial
  /\ \A m \in 1..n : \/ \E i \in 1..Len(t) : t[i].serial = m
                     \/ \E j \in 1..Len(r) : r[j].kind # "answer" /\ r[j].serial = m

(* What wait_event has not returned.                                       *)
Untaken    == events \o channel
Active  == {"next", "answer", "wait"}

(* Where the client is in its script.                                      *)
Progress ==
  /\ created \in {0, 1} /\ step \in 0..Len(Script) /\ doing \in Active \cup Over
  /\ doing \in Active => step < Len(Script)
  /\ command \in 0..Len(Script) /\ command <= step + 1
  /\ doing \in {"next", "wait", "done"} => command <= step
  /\ doing = "answer" => (Operation \in Commands /\ command >= 1)
  /\ doing = "wait" => Operation \in Waits

(* The types of the rest.                                                  *)
ConnectionTypes ==
  /\ asked \in created..created + command /\ astray \in BOOLEAN
  /\ events \in Seq(Messages) /\ taken \in Seq(Messages) /\ channel \in Seq(Messages)
  /\ inbox \in Seq([id : 1..Len(Script), method : Commands])
  /\ owed \in 0..Len(Script) /\ enabled \in BOOLEAN
  /\ page \in [doc : Documents, state : {"parsing", "ready"}, loading : Documents]
  /\ reported \in Nat

(* The command that is not answered is in one place.                       *)
Unhandled == inbox = <<[id |-> command, method |-> Operation]>> /\ owed = 0
Handled   == inbox = <<>> /\ owed = command /\ Operation = "navigate"
Answered  ==
  /\ inbox = <<>> /\ owed = 0
  /\ \E k \in 1..Len(channel) : channel[k].kind = "answer" /\ channel[k].id = command

(* It is answered before the script goes on, and answers are never kept.   *)
Outstanding ==
  /\ NoneOf(events, "answer")
  /\ \A k \in 1..Len(channel) : channel[k].kind # "answer" => channel[k].id = 0
  /\ doing \in {"next", "wait", "done"} => (inbox = <<>> /\ owed = 0 /\ NoneOf(channel, "answer"))
  /\ doing = "answer" =>
       \/ Unhandled /\ NoneOf(channel, "answer")
       \/ Handled /\ NoneOf(channel, "answer")
       \/ Answered /\ AtMostOne(channel, "answer")

(* How far a navigation to the document asked for has come.                *)
Settled(d) ==
  /\ page = [doc |-> d, state |-> "ready", loading |-> 0]
  /\ NoneOf(Untaken, "frame") /\ NoneOf(Untaken, "dom")
Requested ==
  /\ page = [doc |-> asked - 1, state |-> "ready", loading |-> asked]
  /\ NoneOf(Untaken, "frame") /\ NoneOf(Untaken, "dom")

Parsing    == page = [doc |-> asked, state |-> "parsing", loading |-> 0] /\ NoneOf(Untaken, "dom")
Parsed     == page = [doc |-> asked, state |-> "ready", loading |-> 0] /\ AtMostOne(Untaken, "dom")

Navigating == Requested \/ ((Parsing \/ Parsed) /\ AtMostOne(Untaken, "frame"))
Committed  == (Parsing \/ Parsed) /\ NoneOf(Untaken, "frame")

(* Before each operation the page is where the last one has left it.       *)
Phases ==
  /\ Operation = "dom" => Committed
  /\ Operation = "frame" => Navigating
  /\ (Operation = "navigate" /\ doing = "answer") =>
       IF inbox # <<>> THEN Settled(asked - 1) ELSE Navigating
  /\ (Operation \in Commands /\ ~(Operation = "navigate" /\ doing = "answer")) => Settled(asked)
  /\ (Operation = "evaluate" /\ doing = "answer") =>
       \A k \in 1..Len(channel) :
         channel[k].kind = "answer" => <<channel[k].load, channel[k].state>> = <<asked, "ready">>

(* On a target created blank nothing has gone astray.                      *)
Visits == created = 0 => (~astray /\ (doing \in Active => Phases))

ConnectionInv ==
  Progress /\ ConnectionTypes /\ Outstanding /\ IsWhole(taken, Untaken, reported) /\ Visits

(***************************************************************************)
(* Sequences without one of their places: where the others are, and which  *)
(* they are when it is the head of a part.                                 *)
(***************************************************************************)

(* A place that is not left out is still there.                            *)
LEMMA WithoutPlaces ==
  ASSUME NEW S, NEW r \in Seq(S), NEW q \in Seq(S), NEW i, IsWithout(q, r, i),
         NEW j \in 1..Len(r), j # i
  PROVE  \E k \in 1..Len(q) : q[k] = r[j] /\ k = IF j < i THEN j ELSE j - 1
<1>1. Len(r) \in Nat /\ Len(q) = Len(r) - 1 /\ i \in 1..Len(r)  BY DEF IsWithout
<1>2. CASE j < i
  <2>1. j \in 1..Len(q) /\ q[j] = r[j]  BY <1>1, <1>2 DEF IsWithout
  <2>. QED  BY <1>2, <2>1
<1>3. CASE j > i
  <2>1. j - 1 \in 1..Len(q) /\ ~(j - 1 < i) /\ (j - 1) + 1 = j  BY <1>1, <1>3
  <2>2. q[j - 1] = r[j]  BY <2>1 DEF IsWithout
  <2>3. j - 1 = IF j < i THEN j ELSE j - 1  BY <1>1, <1>3
  <2>. QED  BY <2>1, <2>2, <2>3
<1>. QED  BY <1>1, <1>2, <1>3

(* del self.events[index].                                                 *)
LEMMA RemoveAtIsWithout ==
  ASSUME NEW S, NEW s \in Seq(S), NEW i \in 1..Len(s)
  PROVE  RemoveAt(s, i) \in Seq(S) /\ IsWithout(RemoveAt(s, i), s, i)
<1>. DEFINE a == SubSeq(s, 1, i - 1)
            b == SubSeq(s, i + 1, Len(s))
<1>1. Len(s) \in Nat /\ i \in Nat /\ 1 <= i /\ i <= Len(s)  OBVIOUS
<1>2. a \in Seq(S) /\ Len(a) = i - 1 /\ \A k \in 1..(i - 1) : a[k] = s[k]
  BY <1>1
<1>3. b \in Seq(S) /\ Len(b) = Len(s) - i /\ \A k \in 1..(Len(s) - i) : b[k] = s[i + k]
  BY <1>1
<1>. HIDE DEF a, b
<1>4. /\ a \o b \in Seq(S) /\ Len(a \o b) = Len(s) - 1
      /\ \A k \in 1..(Len(s) - 1) : (a \o b)[k] = IF k <= i - 1 THEN a[k] ELSE b[k - (i - 1)]
  <2>1. /\ a \o b \in Seq(S) /\ Len(a \o b) = Len(a) + Len(b)
        /\ \A k \in 1..(Len(a) + Len(b)) : (a \o b)[k] = IF k <= Len(a) THEN a[k] ELSE b[k - Len(a)]
    BY <1>2, <1>3, ConcatProperties
  <2>2. Len(a) + Len(b) = Len(s) - 1  BY <1>1, <1>2, <1>3
  <2>. QED  BY <1>2, <2>1, <2>2
<1>5. ASSUME NEW k \in 1..(Len(s) - 1)
      PROVE  (a \o b)[k] = s[IF k < i THEN k ELSE k + 1]
  <2>1. CASE k < i  BY <1>1, <1>2, <1>4, <2>1
  <2>2. CASE ~(k < i)
    <3>1. k - (i - 1) \in 1..(Len(s) - i) /\ i + (k - (i - 1)) = k + 1 /\ ~(k <= i - 1)
      BY <1>1, <2>2
    <3>. QED  BY <1>3, <1>4, <2>2, <3>1
  <2>. QED  BY <2>1, <2>2
<1>6. RemoveAt(s, i) = a \o b  BY DEF RemoveAt, a, b
<1>. QED  BY <1>4, <1>5, <1>6 DEF IsWithout

(* A place of the first of two parts.                                      *)
LEMMA WithoutConcat ==
  ASSUME NEW S, NEW s \in Seq(S), NEW t \in Seq(S), NEW q \in Seq(S), NEW i, IsWithout(q, s, i)
  PROVE  IsWithout(q \o t, s \o t, i) /\ (s \o t)[i] = s[i]
<1>1. Len(s) \in Nat /\ Len(t) \in Nat /\ Len(q) = Len(s) - 1 /\ i \in 1..Len(s)
  BY DEF IsWithout
<1>2. /\ Len(s \o t) = Len(s) + Len(t)
      /\ \A k \in 1..(Len(s) + Len(t)) : (s \o t)[k] = IF k <= Len(s) THEN s[k] ELSE t[k - Len(s)]
  BY ConcatProperties
<1>3. /\ Len(q \o t) = Len(q) + Len(t)
      /\ \A k \in 1..(Len(q) + Len(t)) : (q \o t)[k] = IF k <= Len(q) THEN q[k] ELSE t[k - Len(q)]
  BY ConcatProperties
<1>4. ASSUME NEW k \in 1..(Len(q) + Len(t))
      PROVE  (q \o t)[k] = (s \o t)[IF k < i THEN k ELSE k + 1]
  <2>1. CASE k <= Len(q)
    <3>1. q[k] = s[IF k < i THEN k ELSE k + 1]  BY <1>1, <2>1 DEF IsWithout
    <3>. QED  BY <1>1, <1>2, <1>3, <2>1, <3>1
  <2>2. CASE k > Len(q)
    <3>1. ~(k < i) /\ k + 1 - Len(s) = k - Len(q) /\ ~(k + 1 <= Len(s)) /\ ~(k <= Len(q))
      BY <1>1, <2>2
    <3>. QED  BY <1>1, <1>2, <1>3, <3>1
  <2>. QED  BY <1>1, <2>1, <2>2
<1>. QED  BY <1>1, <1>2, <1>3, <1>4 DEF IsWithout

(* The first place of the second part, left out or moved to the first.     *)
LEMMA ConcatHead ==
  ASSUME NEW S, NEW s \in Seq(S), NEW t \in Seq(S), t # <<>>
  PROVE  /\ IsWithout(s \o Tail(t), s \o t, Len(s) + 1) /\ (s \o t)[Len(s) + 1] = Head(t)
         /\ Append(s, Head(t)) \o Tail(t) = s \o t
<1>1. /\ Len(s) \in Nat /\ Len(t) \in Nat /\ Len(t) >= 1 /\ Head(t) = t[1] /\ Head(t) \in S
      /\ Tail(t) \in Seq(S) /\ Len(Tail(t)) = Len(t) - 1
      /\ \A k \in 1..(Len(t) - 1) : Tail(t)[k] = t[k + 1]
  BY HeadTailProperties
<1>. DEFINE u == Tail(t)
<1>. HIDE DEF u
<1>2. u \in Seq(S) /\ Len(u) = Len(t) - 1 /\ \A k \in 1..(Len(t) - 1) : u[k] = t[k + 1]
  BY <1>1 DEF u
<1>3. /\ Len(s \o t) = Len(s) + Len(t) /\ s \o t \in Seq(S)
      /\ \A k \in 1..(Len(s) + Len(t)) : (s \o t)[k] = IF k <= Len(s) THEN s[k] ELSE t[k - Len(s)]
  BY ConcatProperties
<1>4. /\ Len(s \o u) = Len(s) + Len(t) - 1
      /\ \A k \in 1..(Len(s) + Len(u)) : (s \o u)[k] = IF k <= Len(s) THEN s[k] ELSE u[k - Len(s)]
  <2>1. /\ Len(s \o u) = Len(s) + Len(u)
        /\ \A k \in 1..(Len(s) + Len(u)) : (s \o u)[k] = IF k <= Len(s) THEN s[k] ELSE u[k - Len(s)]
    BY <1>2, ConcatProperties
  <2>2. Len(s) + Len(u) = Len(s) + Len(t) - 1  BY <1>1, <1>2
  <2>. QED  BY <2>1, <2>2
<1>5. IsWithout(s \o u, s \o t, Len(s) + 1)
  <2>1. ASSUME NEW k \in 1..(Len(s) + Len(t) - 1)
        PROVE  (s \o u)[k] = (s \o t)[IF k < Len(s) + 1 THEN k ELSE k + 1]
    <3>1. CASE k <= Len(s)  BY <1>1, <1>2, <1>3, <1>4, <3>1
    <3>2. CASE k > Len(s)
      <4>1. /\ k - Len(s) \in 1..(Len(t) - 1) /\ (k + 1) - Len(s) = (k - Len(s)) + 1
            /\ ~(k <= Len(s)) /\ ~(k < Len(s) + 1) /\ ~(k + 1 <= Len(s))
            /\ k + 1 \in 1..(Len(s) + Len(t)) /\ k \in 1..(Len(s) + Len(u))
        BY <1>1, <1>2, <3>2
      <4>. QED  BY <1>2, <1>3, <1>4, <4>1
    <3>3. k <= Len(s) \/ k > Len(s)  BY <1>1
    <3>. QED  BY <3>1, <3>2, <3>3
  <2>. QED  BY <1>1, <1>3, <1>4, <2>1 DEF IsWithout
<1>6. (s \o t)[Len(s) + 1] = Head(t)
  <2>1. /\ Len(s) + 1 \in 1..(Len(s) + Len(t)) /\ ~(Len(s) + 1 <= Len(s))
        /\ (Len(s) + 1) - Len(s) = 1
    BY <1>1
  <2>. QED  BY <1>1, <1>3, <2>1
<1>7. Append(s, Head(t)) \o u = s \o t
  <2>1. PICK h : h = Head(t) /\ <<h>> \in Seq(S)  BY <1>1
  <2>2. t = <<h>> \o u  BY <1>1, <2>1, HeadTailProperties DEF u
  <2>3. Append(s, h) = s \o <<h>>  BY <1>1, <2>1
  <2>4. (s \o <<h>>) \o u = s \o (<<h>> \o u)  BY <1>2, <2>1, ConcatAssociative
  <2>. QED  BY <2>1, <2>2, <2>3, <2>4
<1>. QED  BY <1>5, <1>6, <1>7 DEF u

(* One more at the end.                                                    *)
LEMMA ConcatAppend ==
  ASSUME NEW S, NEW s \in Seq(S), NEW t \in Seq(S), NEW m \in S
  PROVE  s \o Append(t, m) = Append(s \o t, m)
<1>1. Append(t, m) = t \o <<m>> /\ <<m>> \in Seq(S) /\ s \o t \in Seq(S)
  BY ConcatProperties
<1>2. Append(s \o t, m) = (s \o t) \o <<m>>  BY <1>1
<1>. QED  BY <1>1, <1>2, ConcatAssociative

(***************************************************************************)
(* Kinds that none or at most one of a sequence is of.                     *)
(***************************************************************************)

(* Kinds when a place is left out.                                         *)
LEMMA KindsWithout ==
  ASSUME NEW S, NEW r \in Seq(S), NEW q \in Seq(S), NEW i, IsWithout(q, r, i), NEW kind
  PROVE  /\ NoneOf(r, kind) => NoneOf(q, kind)
         /\ AtMostOne(r, kind) => AtMostOne(q, kind)
         /\ (AtMostOne(r, kind) /\ r[i].kind = kind) => NoneOf(q, kind)
<1>1. Len(r) \in Nat /\ Len(q) = Len(r) - 1 /\ i \in 1..Len(r)  BY DEF IsWithout
<1>2. ASSUME NEW k \in 1..Len(q)
      PROVE  \E j \in 1..Len(r) : q[k] = r[j] /\ j # i /\ j = IF k < i THEN k ELSE k + 1
  <2>1. CASE k < i  BY <1>1, <2>1 DEF IsWithout
  <2>2. CASE ~(k < i)  BY <1>1, <2>2 DEF IsWithout
  <2>. QED  BY <2>1, <2>2
<1>3. NoneOf(r, kind) => NoneOf(q, kind)  BY <1>2 DEF NoneOf
<1>4. AtMostOne(r, kind) => AtMostOne(q, kind)
  <2>1. SUFFICES ASSUME AtMostOne(r, kind), NEW k \in 1..Len(q), NEW l \in 1..Len(q),
                        q[k].kind = kind, q[l].kind = kind
                 PROVE  k = l
    BY DEF AtMostOne
  <2>2. PICK a \in 1..Len(r) : q[k] = r[a] /\ a # i /\ a = IF k < i THEN k ELSE k + 1
    BY <1>2
  <2>3. PICK b \in 1..Len(r) : q[l] = r[b] /\ b # i /\ b = IF l < i THEN l ELSE l + 1
    BY <1>2
  <2>4. a = b  BY <2>1, <2>2, <2>3 DEF AtMostOne
  <2>. QED  BY <1>1, <2>2, <2>3, <2>4
<1>5. (AtMostOne(r, kind) /\ r[i].kind = kind) => NoneOf(q, kind)
  BY <1>1, <1>2 DEF AtMostOne, NoneOf
<1>. QED  BY <1>3, <1>4, <1>5

(* Kinds when one is added.                                                *)
LEMMA KindsAppend ==
  ASSUME NEW S, NEW r \in Seq(S), NEW m \in S, NEW kind
  PROVE  /\ NoneOf(r, kind) => AtMostOne(Append(r, m), kind)
         /\ (m.kind # kind /\ NoneOf(r, kind)) => NoneOf(Append(r, m), kind)
         /\ (m.kind # kind /\ AtMostOne(r, kind)) => AtMostOne(Append(r, m), kind)
<1>1. Len(Append(r, m)) = Len(r) + 1 /\ Len(r) \in Nat  OBVIOUS
<1>2. ASSUME NEW k \in 1..(Len(r) + 1)
      PROVE  IF k = Len(r) + 1 THEN Append(r, m)[k] = m
                               ELSE k \in 1..Len(r) /\ Append(r, m)[k] = r[k]
  OBVIOUS
<1>. QED  BY <1>1, <1>2 DEF NoneOf, AtMostOne

(***************************************************************************)
(* The events stay whole: one is taken, an answer is read, an answer comes *)
(* and an event is reported.                                               *)
(***************************************************************************)

(* An event is taken.                                                      *)
LEMMA WholeTaken ==
  ASSUME NEW S, NEW t \in Seq(S), NEW r \in Seq(S), NEW q \in Seq(S), NEW n \in Nat,
         IsWhole(t, r, n), NEW i, IsWithout(q, r, i), r[i].kind # "answer"
  PROVE  IsWhole(Append(t, r[i]), q, n)
<1>. DEFINE m == r[i]
            u == Append(t, m)
<1>1. Len(r) \in Nat /\ Len(q) = Len(r) - 1 /\ i \in 1..Len(r) /\ Len(t) \in Nat
  BY DEF IsWithout
<1>2. m \in S /\ Len(u) = Len(t) + 1
  BY <1>1
<1>3. ASSUME NEW k \in 1..Len(u)
      PROVE  IF k = Len(t) + 1 THEN u[k] = m ELSE k \in 1..Len(t) /\ u[k] = t[k]
  BY <1>1, <1>2
<1>4. ASSUME NEW k \in 1..Len(q)
      PROVE  \E j \in 1..Len(r) : q[k] = r[j] /\ j # i /\ j = IF k < i THEN k ELSE k + 1
  <2>1. CASE k < i  BY <1>1, <2>1 DEF IsWithout
  <2>2. CASE ~(k < i)  BY <1>1, <2>2 DEF IsWithout
  <2>. QED  BY <2>1, <2>2
<1>5. /\ m.serial \in 1..n
      /\ \A j \in 1..Len(r) : (r[j].kind # "answer" /\ j # i) => r[j].serial # m.serial
  <2>1. m.serial \in 1..n  BY <1>1 DEF IsWhole
  <2>2. ASSUME NEW j \in 1..Len(r), r[j].kind # "answer", j # i
        PROVE  r[j].serial # m.serial
    <3>1. r[j].serial \in 1..n  BY <2>2 DEF IsWhole
    <3>2. CASE j < i  BY <1>1, <2>1, <2>2, <3>1, <3>2 DEF IsWhole
    <3>3. CASE i < j  BY <1>1, <2>1, <2>2, <3>1, <3>3 DEF IsWhole
    <3>. QED  BY <1>1, <2>2, <3>2, <3>3
  <2>. QED  BY <2>1, <2>2
<1>. HIDE DEF m, u
<1>6. \A k \in 1..Len(u) : u[k].serial \in 1..n  BY <1>3, <1>5 DEF IsWhole
<1>7. \A k \in 1..Len(q) : q[k].kind # "answer" => q[k].serial \in 1..n
  BY <1>4 DEF IsWhole
<1>8. ASSUME NEW k \in 1..Len(u), NEW l \in 1..Len(u), k < l
      PROVE  u[k].serial # u[l].serial
  <2>1. k # Len(t) + 1 /\ k \in 1..Len(t) /\ u[k] = t[k]  BY <1>1, <1>2, <1>3, <1>8
  <2>2. CASE l = Len(t) + 1
    <3>1. u[l] = m /\ t[k].serial # m.serial
      BY <1>1, <1>3, <2>1, <2>2 DEF IsWhole, m
    <3>. QED  BY <2>1, <3>1
  <2>3. CASE l # Len(t) + 1
    <3>1. l \in 1..Len(t) /\ u[l] = t[l]  BY <1>3, <2>3
    <3>. QED  BY <1>8, <2>1, <3>1 DEF IsWhole
  <2>. QED  BY <2>2, <2>3
<1>9. ASSUME NEW k \in 1..Len(u), NEW l \in 1..Len(q), q[l].kind # "answer"
      PROVE  u[k].serial # q[l].serial
  <2>1. PICK j \in 1..Len(r) : q[l] = r[j] /\ j # i  BY <1>4
  <2>2. CASE k = Len(t) + 1  BY <1>3, <1>5, <1>9, <2>1, <2>2
  <2>3. CASE k # Len(t) + 1
    <3>1. k \in 1..Len(t) /\ u[k] = t[k]  BY <1>3, <2>3
    <3>. QED  BY <1>9, <2>1, <3>1 DEF IsWhole
  <2>. QED  BY <2>2, <2>3
<1>10. ASSUME NEW k \in 1..Len(q), NEW l \in 1..Len(q), k < l,
              q[k].kind # "answer", q[l].kind # "answer"
       PROVE  q[k].serial < q[l].serial
  <2>1. PICK a \in 1..Len(r) : q[k] = r[a] /\ a = IF k < i THEN k ELSE k + 1  BY <1>4
  <2>2. PICK b \in 1..Len(r) : q[l] = r[b] /\ b = IF l < i THEN l ELSE l + 1  BY <1>4
  <2>3. a < b  BY <1>1, <1>10, <2>1, <2>2
  <2>4. r[a].kind # "answer" /\ r[b].kind # "answer"  BY <1>10, <2>1, <2>2
  <2>5. r[a].serial < r[b].serial  BY <2>3, <2>4 DEF IsWhole
  <2>. QED  BY <2>1, <2>2, <2>5
<1>11. ASSUME NEW e \in 1..n
       PROVE  \/ \E k \in 1..Len(u) : u[k].serial = e
              \/ \E k \in 1..Len(q) : q[k].kind # "answer" /\ q[k].serial = e
  <2>1. CASE \E k \in 1..Len(t) : t[k].serial = e
    <3>1. PICK k \in 1..Len(t) : t[k].serial = e  BY <2>1
    <3>2. k \in 1..Len(u) /\ k # Len(t) + 1  BY <1>1, <1>2
    <3>. QED  BY <1>3, <3>1, <3>2
  <2>2. CASE \E j \in 1..Len(r) : r[j].kind # "answer" /\ r[j].serial = e
    <3>1. PICK j \in 1..Len(r) : r[j].kind # "answer" /\ r[j].serial = e  BY <2>2
    <3>2. CASE j = i
      <4>1. Len(t) + 1 \in 1..Len(u)  BY <1>1, <1>2
      <4>. QED  BY <1>3, <3>1, <3>2, <4>1 DEF m
    <3>3. CASE j # i
      <4>1. \E k \in 1..Len(q) : q[k] = r[j] /\ k = IF j < i THEN j ELSE j - 1
        BY <3>3, WithoutPlaces
      <4>. QED  BY <3>1, <4>1
    <3>. QED  BY <3>2, <3>3
  <2>. QED  BY <2>1, <2>2 DEF IsWhole
<1>12. IsWhole(u, q, n)
  BY <1>6, <1>7, <1>8, <1>9, <1>10, <1>11 DEF IsWhole
<1>. QED  BY <1>12 DEF u, m

(* An answer is read.                                                      *)
LEMMA WholeAnswered ==
  ASSUME NEW S, NEW t \in Seq(S), NEW r \in Seq(S), NEW q \in Seq(S), NEW n \in Nat,
         IsWhole(t, r, n), NEW i, IsWithout(q, r, i), r[i].kind = "answer"
  PROVE  IsWhole(t, q, n)
<1>1. Len(r) \in Nat /\ Len(q) = Len(r) - 1 /\ i \in 1..Len(r) /\ Len(t) \in Nat
  BY DEF IsWithout
<1>2. ASSUME NEW k \in 1..Len(q)
      PROVE  \E j \in 1..Len(r) : q[k] = r[j] /\ j = IF k < i THEN k ELSE k + 1
  <2>1. CASE k < i  BY <1>1, <2>1 DEF IsWithout
  <2>2. CASE ~(k < i)  BY <1>1, <2>2 DEF IsWithout
  <2>. QED  BY <2>1, <2>2
<1>3. \A k \in 1..Len(q) : q[k].kind # "answer" => q[k].serial \in 1..n
  BY <1>2 DEF IsWhole
<1>4. \A k \in 1..Len(t), l \in 1..Len(q) : q[l].kind # "answer" => t[k].serial # q[l].serial
  BY <1>2 DEF IsWhole
<1>5. ASSUME NEW k \in 1..Len(q), NEW l \in 1..Len(q), k < l,
             q[k].kind # "answer", q[l].kind # "answer"
      PROVE  q[k].serial < q[l].serial
  <2>1. PICK a \in 1..Len(r) : q[k] = r[a] /\ a = IF k < i THEN k ELSE k + 1  BY <1>2
  <2>2. PICK b \in 1..Len(r) : q[l] = r[b] /\ b = IF l < i THEN l ELSE l + 1  BY <1>2
  <2>3. a < b  BY <1>1, <1>5, <2>1, <2>2
  <2>. QED  BY <1>5, <2>1, <2>2, <2>3 DEF IsWhole
<1>6. ASSUME NEW e \in 1..n
      PROVE  \/ \E k \in 1..Len(t) : t[k].serial = e
             \/ \E k \in 1..Len(q) : q[k].kind # "answer" /\ q[k].serial = e
  <2>1. CASE \E j \in 1..Len(r) : r[j].kind # "answer" /\ r[j].serial = e
    <3>1. PICK j \in 1..Len(r) : r[j].kind # "answer" /\ r[j].serial = e  BY <2>1
    <3>2. \E k \in 1..Len(q) : q[k] = r[j] /\ k = IF j < i THEN j ELSE j - 1
      BY <3>1, WithoutPlaces
    <3>. QED  BY <3>1, <3>2
  <2>. QED  BY <2>1 DEF IsWhole
<1>. QED  BY <1>3, <1>4, <1>5, <1>6 DEF IsWhole

(* An answer comes, or the event that was reported last.                   *)
LEMMA WholeAppend ==
  ASSUME NEW S, NEW t \in Seq(S), NEW r \in Seq(S), NEW m \in S, NEW n \in Nat,
         IsWhole(t, r, n)
  PROVE  /\ m.kind = "answer" => IsWhole(t, Append(r, m), n)
         /\ (m.kind # "answer" /\ m.serial = n + 1) => IsWhole(t, Append(r, m), n + 1)
<1>. DEFINE q == Append(r, m)
<1>1. Len(q) = Len(r) + 1 /\ Len(r) \in Nat  OBVIOUS
<1>2. ASSUME NEW k \in 1..Len(q)
      PROVE  IF k = Len(r) + 1 THEN q[k] = m ELSE k \in 1..Len(r) /\ q[k] = r[k]
  BY <1>1
<1>3. \A k \in 1..Len(r) : k \in 1..Len(q) /\ q[k] = r[k]  BY <1>1
<1>4. Len(r) + 1 \in 1..Len(q) /\ q[Len(r) + 1] = m  BY <1>1
<1>. HIDE DEF q
<1>5. ASSUME m.kind = "answer"
      PROVE  IsWhole(t, q, n)
  <2>1. \A k \in 1..Len(q) : q[k].kind # "answer" => (k \in 1..Len(r) /\ q[k] = r[k])
    BY <1>2, <1>5
  <2>2. ASSUME NEW e \in 1..n
        PROVE  \/ \E k \in 1..Len(t) : t[k].serial = e
               \/ \E k \in 1..Len(q) : q[k].kind # "answer" /\ q[k].serial = e
    <3>1. \/ \E k \in 1..Len(t) : t[k].serial = e
          \/ \E k \in 1..Len(r) : r[k].kind # "answer" /\ r[k].serial = e
      BY DEF IsWhole
    <3>. QED  BY <1>3, <3>1
  <2>3. \A i, j \in 1..Len(q) :
          (i < j /\ q[i].kind # "answer" /\ q[j].kind # "answer") => q[i].serial < q[j].serial
    BY <2>1 DEF IsWhole
  <2>4. \A i \in 1..Len(t), j \in 1..Len(q) : q[j].kind # "answer" => t[i].serial # q[j].serial
    BY <2>1 DEF IsWhole
  <2>5. \A k \in 1..Len(q) : q[k].kind # "answer" => q[k].serial \in 1..n
    BY <2>1 DEF IsWhole
  <2>. QED  BY <2>2, <2>3, <2>4, <2>5 DEF IsWhole
<1>6. ASSUME m.kind # "answer", m.serial = n + 1
      PROVE  IsWhole(t, q, n + 1)
  <2>1. \A k \in 1..Len(t) : t[k].serial \in 1..(n + 1) /\ t[k].serial # n + 1
    BY DEF IsWhole
  <2>2. \A k \in 1..Len(q) : q[k].kind # "answer" => q[k].serial \in 1..(n + 1)
    <3>1. \A k \in 1..Len(r) : r[k].kind # "answer" => r[k].serial \in 1..(n + 1)
      BY DEF IsWhole
    <3>2. m.serial \in 1..(n + 1)  BY <1>6
    <3>. QED  BY <1>2, <3>1, <3>2
  <2>3. \A k \in 1..Len(t), l \in 1..Len(q) : q[l].kind # "answer" => t[k].serial # q[l].serial
    BY <1>2, <1>6, <2>1 DEF IsWhole
  <2>4. ASSUME NEW k \in 1..Len(q), NEW l \in 1..Len(q), k < l,
               q[k].kind # "answer", q[l].kind # "answer"
        PROVE  q[k].serial < q[l].serial
    <3>1. k \in 1..Len(r) /\ q[k] = r[k]  BY <1>1, <1>2, <2>4
    <3>2. CASE l = Len(r) + 1
      <4>1. r[k].serial \in 1..n  BY <2>4, <3>1 DEF IsWhole
      <4>2. q[l] = m  BY <1>4, <3>2
      <4>. QED  BY <1>6, <3>1, <4>1, <4>2
    <3>3. CASE l # Len(r) + 1
      <4>1. l \in 1..Len(r) /\ q[l] = r[l]  BY <1>2, <3>3
      <4>. QED  BY <2>4, <3>1, <4>1 DEF IsWhole
    <3>. QED  BY <3>2, <3>3
  <2>5. ASSUME NEW e \in 1..(n + 1)
        PROVE  \/ \E k \in 1..Len(t) : t[k].serial = e
               \/ \E k \in 1..Len(q) : q[k].kind # "answer" /\ q[k].serial = e
    <3>1. CASE e = n + 1  BY <1>4, <1>6, <3>1
    <3>2. CASE e \in 1..n
      <4>1. \/ \E k \in 1..Len(t) : t[k].serial = e
            \/ \E k \in 1..Len(r) : r[k].kind # "answer" /\ r[k].serial = e
        BY <3>2 DEF IsWhole
      <4>. QED  BY <1>3, <4>1
    <3>. QED  BY <3>1, <3>2
  <2>6. \A i, j \in 1..Len(t) : i < j => t[i].serial # t[j].serial  BY DEF IsWhole
  <2>. QED  BY <2>1, <2>2, <2>3, <2>4, <2>5, <2>6 DEF IsWhole
<1>. QED  BY <1>5, <1>6 DEF q

(***************************************************************************)
(* The property over the list of all messages follows.                     *)
(***************************************************************************)
LEMMA WholeIsOnce ==
  ASSUME ConnectionTypes, NoneOf(events, "answer"), IsWhole(taken, Untaken, reported)
  PROVE  EventsAreTakenOnce
<1>. DEFINE all    == taken \o events \o channel
            places == {i \in DOMAIN all : i > Len(taken \o events) => all[i].kind # "answer"}
            r      == Untaken
            n      == Len(taken)
<1>1. /\ events \in Seq(Messages) /\ taken \in Seq(Messages) /\ channel \in Seq(Messages)
      /\ n \in Nat /\ Len(events) \in Nat /\ Len(channel) \in Nat /\ reported \in Nat
  BY DEF ConnectionTypes
<1>2. /\ r \in Seq(Messages) /\ Len(r) = Len(events) + Len(channel)
      /\ \A i \in 1..(Len(events) + Len(channel)) :
           r[i] = IF i <= Len(events) THEN events[i] ELSE channel[i - Len(events)]
  BY <1>1, ConcatProperties DEF Untaken
<1>3. all = taken \o r  BY <1>1, ConcatAssociative DEF Untaken
<1>4. Len(taken \o events) = n + Len(events)  BY <1>1, ConcatProperties
<1>. HIDE DEF all, r
<1>5. /\ DOMAIN all = 1..(n + Len(r))
      /\ \A i \in 1..(n + Len(r)) : all[i] = IF i <= n THEN taken[i] ELSE r[i - n]
  <2>1. /\ taken \o r \in Seq(Messages) /\ Len(taken \o r) = n + Len(r)
        /\ \A i \in 1..(n + Len(r)) : (taken \o r)[i] = IF i <= n THEN taken[i] ELSE r[i - n]
    <3>1. taken \in Seq(Messages) /\ r \in Seq(Messages)  BY <1>1, <1>2
    <3>. QED  BY <3>1, ConcatProperties
  <2>. QED  BY <1>3, <2>1
<1>6. ASSUME NEW i \in places
      PROVE  \/ i \in 1..n /\ all[i] = taken[i]
             \/ i \in Nat /\ i > n /\ i - n \in 1..Len(r) /\ all[i] = r[i - n] /\ r[i - n].kind # "answer"
  <2>1. i \in 1..(n + Len(r)) /\ (i > n + Len(events) => all[i].kind # "answer")
    BY <1>4, <1>5
  <2>2. CASE i <= n  BY <1>1, <1>5, <2>1, <2>2
  <2>3. CASE i > n
    <3>1. i - n \in 1..Len(r) /\ all[i] = r[i - n]  BY <1>1, <1>2, <1>5, <2>1, <2>3
    <3>2. CASE i > n + Len(events)  BY <1>1, <1>2, <2>1, <2>3, <3>1, <3>2
    <3>3. CASE i <= n + Len(events)
      <4>1. i - n \in 1..Len(events)  BY <1>1, <2>1, <2>3, <3>3
      <4>2. r[i - n] = events[i - n]  BY <1>1, <1>2, <4>1
      <4>3. r[i - n].kind # "answer"  BY <4>1, <4>2 DEF NoneOf
      <4>4. i \in Nat  BY <1>1, <1>2, <2>1
      <4>. QED  BY <2>3, <3>1, <4>3, <4>4
    <3>. QED  BY <1>1, <2>1, <3>2, <3>3
  <2>. QED  BY <1>1, <2>1, <2>2, <2>3
<1>7. ASSUME NEW i \in 1..n
      PROVE  i \in places /\ all[i] = taken[i]
  <2>1. i \in 1..(n + Len(r)) /\ i <= n /\ ~(i > n + Len(events))  BY <1>1, <1>2
  <2>. QED  BY <1>4, <1>5, <2>1
<1>8. ASSUME NEW j \in 1..Len(r), r[j].kind # "answer"
      PROVE  n + j \in places /\ all[n + j] = r[j]
  <2>1. n + j \in 1..(n + Len(r)) /\ ~(n + j <= n) /\ (n + j) - n = j  BY <1>1, <1>2
  <2>2. all[n + j] = r[j]  BY <1>5, <2>1
  <2>. QED  BY <1>5, <1>8, <2>1, <2>2
<1>. HIDE DEF places
<1>9. ASSUME NEW i \in places
      PROVE  all[i].serial \in 1..reported
  BY <1>6 DEF IsWhole, r
<1>10. ASSUME NEW e \in 1..reported
       PROVE  \E i \in places : all[i].serial = e
  <2>1. \/ \E i \in 1..n : taken[i].serial = e
        \/ \E j \in 1..Len(r) : r[j].kind # "answer" /\ r[j].serial = e
    BY DEF IsWhole, r
  <2>2. CASE \E i \in 1..n : taken[i].serial = e  BY <1>7, <2>2
  <2>3. CASE \E j \in 1..Len(r) : r[j].kind # "answer" /\ r[j].serial = e  BY <1>8, <2>3
  <2>. QED  BY <2>1, <2>2, <2>3
<1>11. {all[i].serial : i \in places} = 1..reported  BY <1>9, <1>10
<1>12. ASSUME NEW i \in places, NEW j \in places, i < j
       PROVE  /\ all[i].serial # all[j].serial
              /\ n < i => all[i].serial < all[j].serial
  <2>1. CASE j \in 1..n /\ all[j] = taken[j]
    <3>1. i \in Nat /\ ~(i > n)  BY <1>1, <1>6, <1>12, <2>1
    <3>2. i \in 1..n /\ all[i] = taken[i]  BY <1>6, <3>1
    <3>. QED  BY <1>1, <1>12, <2>1, <3>1, <3>2 DEF IsWhole
  <2>2. CASE j \in Nat /\ j > n /\ j - n \in 1..Len(r) /\ all[j] = r[j - n] /\ r[j - n].kind # "answer"
    <3>1. CASE i \in 1..n /\ all[i] = taken[i]
      BY <1>1, <2>2, <3>1 DEF IsWhole, r
    <3>2. CASE i \in Nat /\ i > n /\ i - n \in 1..Len(r) /\ all[i] = r[i - n] /\ r[i - n].kind # "answer"
      <4>1. i - n < j - n  BY <1>1, <1>12, <2>2, <3>2
      <4>2. r[i - n].serial < r[j - n].serial  BY <2>2, <3>2, <4>1 DEF IsWhole, r
      <4>3. r[i - n].serial \in 1..reported /\ r[j - n].serial \in 1..reported
        BY <2>2, <3>2 DEF IsWhole, r
      <4>. QED  BY <1>1, <2>2, <3>2, <4>2, <4>3
    <3>. QED  BY <1>6, <3>1, <3>2
  <2>. QED  BY <1>6, <2>1, <2>2
<1>. QED  BY <1>11, <1>12 DEF EventsAreTakenOnce, places, all

(***************************************************************************)
(* The operation the client is in, and the one it advances to.             *)
(***************************************************************************)

(* An active client has an operation.                                      *)
LEMMA OperationIs ==
  ASSUME Progress, doing \in Active
  PROVE  Operation \in Commands \cup Waits /\ step \in 0..(Len(Script) - 1)
BY ConnectionAssumption DEF Progress, Operation

(* The next operation follows it in the script: a FRAME after a navigation *)
(* and a DOM after a FRAME, and nowhere else.                              *)
LEMMA AdvanceIs ==
  ASSUME Progress, doing \in Active, Advance
  PROVE  /\ step' = step + 1 /\ step' \in 0..Len(Script) /\ doing' \in {"next", "done"}
         /\ doing' = "next" =>
              /\ step' < Len(Script) /\ Operation' \in Commands \cup Waits
              /\ (Operation = "navigate") <=> (Operation' = "frame")
              /\ (Operation = "frame") <=> (Operation' = "dom")
<1>1. /\ step' = step + 1 /\ step \in 0..(Len(Script) - 1) /\ Len(Script) \in Nat
      /\ doing' = (IF step' = Len(Script) THEN "done" ELSE "next")
  BY OperationIs, ConnectionAssumption DEF Advance
<1>2. ASSUME doing' = "next"
      PROVE  /\ step' < Len(Script) /\ Operation' \in Commands \cup Waits
             /\ (Operation = "navigate") <=> (Operation' = "frame")
             /\ (Operation = "frame") <=> (Operation' = "dom")
  <2>1. step + 1 \in 1..(Len(Script) - 1)  BY <1>1, <1>2
  <2>2. Operation' = Script[(step + 1) + 1]  BY <1>1 DEF Operation
  <2>3. Operation' \in Commands \cup Waits  BY <2>1, <2>2, ConnectionAssumption
  <2>. QED  BY <1>1, <2>1, <2>2, <2>3, VisitAssumption DEF Operation
<1>. QED  BY <1>1, <1>2

(***************************************************************************)
(* What has not been taken: its type, and what a message that comes adds.  *)
(***************************************************************************)

(* Its type.                                                               *)
LEMMA UntakenTyped ==
  ASSUME ConnectionTypes
  PROVE  /\ events \in Seq(Messages) /\ channel \in Seq(Messages) /\ Untaken \in Seq(Messages)
         /\ taken \in Seq(Messages) /\ Len(events) \in Nat /\ reported \in Nat
BY ConcatProperties DEF ConnectionTypes, Untaken

(* A message comes.                                                        *)
LEMMA MessageComes ==
  ASSUME ConnectionTypes, NEW m \in Messages, channel' = Append(channel, m),
         UNCHANGED <<asked, events>>
  PROVE  /\ channel' \in Seq(Messages) /\ Messages' = Messages
         /\ Untaken' = Append(Untaken, m) /\ Len(channel') = Len(channel) + 1
         /\ \A k \in 1..Len(channel) : k \in 1..Len(channel') /\ channel'[k] = channel[k]
         /\ \A k \in 1..Len(channel') :
              IF k = Len(channel) + 1 THEN channel'[k] = m
                                      ELSE k \in 1..Len(channel) /\ channel'[k] = channel[k]
<1>1. events \in Seq(Messages) /\ channel \in Seq(Messages)  BY UntakenTyped
<1>2. Messages' = Messages  BY DEF Messages, Documents
<1>3. Untaken' = events \o Append(channel, m)  BY DEF Untaken
<1>4. Untaken' = Append(Untaken, m)  BY <1>1, <1>3, ConcatAppend DEF Untaken
<1>. QED  BY <1>1, <1>2, <1>4

(* An answer comes: nothing changes about the events.                      *)
LEMMA AnswerComes ==
  ASSUME ConnectionInv, NEW id \in 0..Len(Script), channel' = Append(channel, Answer(id)),
         UNCHANGED <<asked, events, taken, reported>>
  PROVE  /\ Answer(id) \in Messages /\ Answer(id).kind = "answer" /\ Answer(id).id = id
         /\ IsWhole(taken, Untaken, reported)'
         /\ NoneOf(Untaken, "frame") => NoneOf(Untaken, "frame")'
         /\ NoneOf(Untaken, "dom") => NoneOf(Untaken, "dom")'
         /\ AtMostOne(Untaken, "frame") => AtMostOne(Untaken, "frame")'
         /\ AtMostOne(Untaken, "dom") => AtMostOne(Untaken, "dom")'
<1>1. ConnectionTypes /\ IsWhole(taken, Untaken, reported)  BY DEF ConnectionInv
<1>2. Answer(id) \in Messages /\ Answer(id).kind = "answer" /\ Answer(id).id = id
  BY <1>1 DEF ConnectionTypes, Answer, Messages
<1>3. PICK m : m = Answer(id)  OBVIOUS
<1>4. Untaken' = Append(Untaken, m)  BY <1>1, <1>2, <1>3, MessageComes
<1>5. IsWhole(taken, Append(Untaken, m), reported)
  BY <1>1, <1>2, <1>3, UntakenTyped, WholeAppend
<1>6. /\ NoneOf(Untaken, "frame") => NoneOf(Append(Untaken, m), "frame")
      /\ NoneOf(Untaken, "dom") => NoneOf(Append(Untaken, m), "dom")
      /\ AtMostOne(Untaken, "frame") => AtMostOne(Append(Untaken, m), "frame")
      /\ AtMostOne(Untaken, "dom") => AtMostOne(Append(Untaken, m), "dom")
  BY <1>1, <1>2, <1>3, UntakenTyped, KindsAppend
<1>. QED  BY <1>2, <1>4, <1>5, <1>6

(* The command the browser takes next.                                     *)
LEMMA InboxTyped ==
  ASSUME ConnectionTypes, inbox # <<>>
  PROVE  /\ Head(inbox).id \in 0..Len(Script)
         /\ Tail(inbox) \in Seq([id : 1..Len(Script), method : Commands])
<1>. DEFINE C == [id : 1..Len(Script), method : Commands]
<1>1. inbox \in Seq(C)  BY DEF ConnectionTypes
<1>2. \A c \in C : c.id \in 0..Len(Script)  OBVIOUS
<1>. HIDE DEF C
<1>3. Head(inbox) \in C /\ Tail(inbox) \in Seq(C)  BY <1>1, HeadTailProperties
<1>. QED  BY <1>2, <1>3 DEF C

(* An event is reported, or is not because reporting is off: the events    *)
(* stay whole, and of the kinds a visit counts only its own can have one   *)
(* more.                                                                   *)
LEMMA EventComes ==
  ASSUME ConnectionInv, NEW kind \in {"frame", "dom", "other"}, Report(kind),
         page' \in [doc : Documents, state : {"parsing", "ready"}, loading : Documents],
         UNCHANGED client
  PROVE  /\ reported' \in Nat /\ IsWhole(taken, Untaken, reported)'
         /\ \/ UNCHANGED channel
            \/ \E m \in Messages : channel' = Append(channel, m) /\ m.kind = kind /\ m.id = 0
         /\ \A k \in {"frame", "dom"} : k # kind =>
              /\ NoneOf(Untaken, k) => NoneOf(Untaken, k)'
              /\ AtMostOne(Untaken, k) => AtMostOne(Untaken, k)'
         /\ NoneOf(Untaken, "frame") => AtMostOne(Untaken, "frame")'
         /\ NoneOf(Untaken, "dom") => AtMostOne(Untaken, "dom")'
<1>1. /\ ConnectionTypes /\ IsWhole(taken, Untaken, reported) /\ reported \in Nat
      /\ UNCHANGED <<asked, events, taken>>
  BY DEF ConnectionInv, ConnectionTypes, client
<1>2. CASE ~enabled
  <2>1. UNCHANGED <<reported, channel>>  BY <1>2 DEF Report
  <2>2. Untaken' = Untaken  BY <1>1, <2>1 DEF Untaken
  <2>. QED  BY <1>1, <2>1, <2>2 DEF NoneOf, AtMostOne
<1>3. CASE enabled
  <2>1. PICK m : m = Event(kind, reported', page')  OBVIOUS
  <2>2. reported' = reported + 1 /\ channel' = Append(channel, m)
    BY <1>3, <2>1 DEF Report
  <2>3. m \in Messages /\ m.kind = kind /\ m.id = 0 /\ m.serial = reported + 1
    BY <1>1, <2>1, <2>2, ConnectionAssumption DEF Event, Messages, Waits
  <2>4. Untaken' = Append(Untaken, m)  BY <1>1, <2>2, <2>3, MessageComes
  <2>5. IsWhole(taken, Append(Untaken, m), reported + 1)
    BY <1>1, <2>3, UntakenTyped, WholeAppend
  <2>6. \A k \in {"frame", "dom"} :
          /\ NoneOf(Untaken, k) => AtMostOne(Append(Untaken, m), k)
          /\ k # kind => /\ NoneOf(Untaken, k) => NoneOf(Append(Untaken, m), k)
                         /\ AtMostOne(Untaken, k) => AtMostOne(Append(Untaken, m), k)
    BY <1>1, <2>3, UntakenTyped, KindsAppend
  <2>7. IsWhole(taken, Untaken, reported)'  BY <1>1, <2>2, <2>4, <2>5
  <2>. QED  BY <1>1, <2>2, <2>3, <2>4, <2>6, <2>7
<1>. QED  BY <1>2, <1>3

(***************************************************************************)
(* The command that is not answered: it stays where it is when an event is *)
(* reported, and is on its way back when its answer comes.                 *)
(***************************************************************************)

(* An event is reported.                                                   *)
LEMMA OutstandingReports ==
  ASSUME ConnectionTypes, Outstanding, NEW m \in Messages, channel' = Append(channel, m),
         m.kind # "answer", m.id = 0, UNCHANGED <<client, inbox, owed>>
  PROVE  Outstanding'
<1>1. UNCHANGED <<step, doing, command, events, asked>> /\ Operation' = Operation
  BY DEF client, Operation
<1>2. /\ \A k \in 1..Len(channel) : k \in 1..Len(channel') /\ channel'[k] = channel[k]
      /\ \A k \in 1..Len(channel') :
           IF k = Len(channel) + 1 THEN channel'[k] = m
                                   ELSE k \in 1..Len(channel) /\ channel'[k] = channel[k]
  BY <1>1, MessageComes
<1>3. NoneOf(events, "answer")'  BY <1>1 DEF Outstanding, NoneOf
<1>4. NoneOf(channel, "answer") => NoneOf(channel, "answer")'  BY <1>2 DEF NoneOf
<1>5. AtMostOne(channel, "answer") => AtMostOne(channel, "answer")'  BY <1>2 DEF AtMostOne
<1>6. \A k \in 1..Len(channel') : channel'[k].kind # "answer" => channel'[k].id = 0
  BY <1>2 DEF Outstanding
<1>7. Answered => Answered'  BY <1>1, <1>2 DEF Answered
<1>8. (Unhandled => Unhandled') /\ (Handled => Handled')
  BY <1>1 DEF Unhandled, Handled
<1>. QED  BY <1>1, <1>3, <1>4, <1>5, <1>6, <1>7, <1>8 DEF Outstanding

(* Where the command is when the browser has one.                          *)
LEMMA OutstandingIs ==
  ASSUME Progress, Outstanding, doing \in Active \cup {"done"}
  PROVE  /\ inbox # <<>> => /\ doing = "answer" /\ Unhandled /\ Head(inbox).id = command
                            /\ Head(inbox).method = Operation /\ Tail(inbox) = <<>>
         /\ owed # 0 => doing = "answer" /\ Handled
<1>1. ASSUME inbox # <<>>
      PROVE  /\ doing = "answer" /\ Unhandled /\ Head(inbox).id = command
             /\ Head(inbox).method = Operation /\ Tail(inbox) = <<>>
  <2>1. doing = "answer"  BY <1>1 DEF Active, Outstanding
  <2>2. Unhandled  BY <1>1, <2>1 DEF Outstanding, Handled, Answered
  <2>3. PICK c : inbox = <<c>> /\ c = [id |-> command, method |-> Operation]
    BY <2>2 DEF Unhandled
  <2>4. Head(inbox) = c /\ Tail(inbox) = <<>>  BY <2>3
  <2>. QED  BY <2>1, <2>2, <2>3, <2>4
<1>2. ASSUME owed # 0
      PROVE  doing = "answer" /\ Handled
  <2>1. doing = "answer"  BY <1>2 DEF Active, Outstanding
  <2>. QED  BY <1>2, <2>1 DEF Outstanding, Unhandled, Answered
<1>. QED  BY <1>1, <1>2

(* The answer comes.                                                       *)
LEMMA OutstandingAnswers ==
  ASSUME Progress, ConnectionTypes, Outstanding, NEW m \in Messages, channel' = Append(channel, m),
         m.kind = "answer", UNCHANGED client,
         \/ inbox # <<>> /\ m.id = Head(inbox).id /\ inbox' = Tail(inbox) /\ UNCHANGED owed
         \/ owed # 0 /\ m.id = owed /\ owed' = 0 /\ UNCHANGED inbox
  PROVE  Outstanding'
<1>1. UNCHANGED <<step, doing, command, events, asked>> /\ Operation' = Operation
  BY DEF client, Operation
<1>2. /\ \A k \in 1..Len(channel) : k \in 1..Len(channel') /\ channel'[k] = channel[k]
      /\ \A k \in 1..Len(channel') :
           IF k = Len(channel) + 1 THEN channel'[k] = m
                                   ELSE k \in 1..Len(channel) /\ channel'[k] = channel[k]
      /\ Len(channel') = Len(channel) + 1 /\ Len(channel) \in Nat
  BY <1>1, MessageComes DEF ConnectionTypes
<1>3. NoneOf(events, "answer")'  BY <1>1 DEF Outstanding, NoneOf
<1>4. \A k \in 1..Len(channel') : channel'[k].kind # "answer" => channel'[k].id = 0
  BY <1>2 DEF Outstanding
<1>5. CASE doing = "timed_out"  BY <1>1, <1>3, <1>4, <1>5 DEF Outstanding
<1>6. CASE doing \in Active \cup {"done"}
  <2>1. /\ Unhandled \/ Handled
        /\ m.id = command /\ inbox' = <<>> /\ owed' = 0
    BY <1>6, OutstandingIs DEF Unhandled, Handled
  <2>2. doing = "answer"  BY <1>6, OutstandingIs
  <2>3. NoneOf(channel, "answer")
    <3>1. ~Answered  BY DEF Answered
    <3>. QED  BY <2>2, <3>1 DEF Outstanding
  <2>4. AtMostOne(channel, "answer")'  BY <1>2, <2>3 DEF NoneOf, AtMostOne
  <2>5. Answered'
    <3>1. Len(channel) + 1 \in 1..Len(channel')  BY <1>2
    <3>2. channel'[Len(channel) + 1] = m  BY <1>2, <3>1
    <3>. QED  BY <1>1, <2>1, <3>1, <3>2 DEF Answered
  <2>. QED  BY <1>1, <1>3, <1>4, <2>2, <2>4, <2>5 DEF Outstanding
<1>. QED  BY <1>5, <1>6 DEF Progress, Over, Active

(***************************************************************************)
(* What the browser does when a load goes on: it is of the navigation that *)
(* is waited for.                                                          *)
(***************************************************************************)
LEMMA PhasesLoad ==
  ASSUME Progress, Phases, doing \in Active
  PROVE  /\ page.loading # 0 => Requested
         /\ page.state = "parsing" => Parsing /\ page.loading = 0
         /\ (page.loading # 0 \/ page.state = "parsing") =>
              \/ Operation = "dom" /\ Committed
              \/ Operation = "frame" /\ Navigating
              \/ Operation = "navigate" /\ doing = "answer" /\ inbox = <<>> /\ Navigating
<1>1. Operation \in Commands \cup Waits  BY OperationIs
<1>2. ASSUME NEW d, Settled(d)
      PROVE  page.loading = 0 /\ page.state = "ready"
  BY <1>2 DEF Settled
<1>3. \/ page.loading = 0 /\ page.state = "ready"
      \/ Operation = "dom" /\ Committed
      \/ Operation = "frame" /\ Navigating
      \/ Operation = "navigate" /\ doing = "answer" /\ inbox = <<>> /\ Navigating
  BY <1>1, <1>2 DEF Phases, Waits
<1>. QED  BY <1>3 DEF Committed, Navigating, Requested, Parsing, Parsed

(* A step of the browser that leaves the page as it is and reports nothing *)
(* of its loads.                                                           *)
LEMMA PhasesKept ==
  ASSUME Phases, UNCHANGED <<step, doing, asked, page>>,
         NoneOf(Untaken, "frame") => NoneOf(Untaken, "frame")',
         NoneOf(Untaken, "dom") => NoneOf(Untaken, "dom")',
         AtMostOne(Untaken, "frame") => AtMostOne(Untaken, "frame")',
         AtMostOne(Untaken, "dom") => AtMostOne(Untaken, "dom")',
         (Operation = "navigate" /\ doing = "answer") => (inbox' # <<>> <=> inbox # <<>>),
         (Operation = "evaluate" /\ doing = "answer") =>
           \A k \in 1..Len(channel') : channel'[k].kind = "answer" =>
             <<channel'[k].load, channel'[k].state>> = <<asked, "ready">>
  PROVE  Phases'
<1>1. Operation' = Operation  BY DEF Operation
<1>2. Parsing => Parsing'  BY DEF Parsing
<1>3. Parsed => Parsed'  BY DEF Parsed
<1>4. Requested => Requested'  BY DEF Requested
<1>5. Navigating => Navigating'  BY <1>2, <1>3, <1>4 DEF Navigating
<1>6. Committed => Committed'  BY <1>2, <1>3 DEF Committed
<1>7. /\ Settled(asked) => Settled(asked)'
      /\ Settled(asked - 1) => Settled(asked - 1)'
  BY DEF Settled
<1>. QED  BY <1>1, <1>5, <1>6, <1>7 DEF Phases

(* Steps of the browser leave the client where it is.                      *)
LEMMA ProgressKept ==
  ASSUME Progress, UNCHANGED client
  PROVE  Progress' /\ UNCHANGED <<created, step, doing, command, events, asked, taken, astray>>
BY DEF Progress, Operation, client

(* Page.enable, and the commands that change no page.                      *)
LEMMA ConnectionHandleEnable ==
  ASSUME ConnectionInv, HandleEnable
  PROVE  ConnectionInv'
<1>. DEFINE id == Head(inbox).id
<1>1. /\ inbox # <<>> /\ Head(inbox).method = "enable" /\ inbox' = Tail(inbox)
      /\ channel' = Append(channel, Answer(id)) /\ enabled' = TRUE
      /\ UNCHANGED <<client, owed, page, reported>>
  BY DEF HandleEnable
<1>2. /\ Progress' /\ Progress /\ ConnectionTypes /\ Outstanding /\ Visits
      /\ UNCHANGED <<created, step, doing, command, events, asked, taken, astray>>
  BY <1>1, ProgressKept DEF ConnectionInv
<1>3. id \in 0..Len(Script) /\ inbox' \in Seq([id : 1..Len(Script), method : Commands])
  BY <1>1, <1>2, InboxTyped
<1>. HIDE DEF id
<1>4. /\ Answer(id) \in Messages /\ Answer(id).kind = "answer" /\ Answer(id).id = id
      /\ IsWhole(taken, Untaken, reported)'
      /\ NoneOf(Untaken, "frame") => NoneOf(Untaken, "frame")'
      /\ NoneOf(Untaken, "dom") => NoneOf(Untaken, "dom")'
      /\ AtMostOne(Untaken, "frame") => AtMostOne(Untaken, "frame")'
      /\ AtMostOne(Untaken, "dom") => AtMostOne(Untaken, "dom")'
  BY <1>1, <1>2, <1>3, AnswerComes
<1>5. channel' \in Seq(Messages)  BY <1>1, <1>2, <1>4, MessageComes
<1>6. Messages' = Messages /\ Documents' = Documents  BY <1>2 DEF Messages, Documents
<1>7. ConnectionTypes'  BY <1>1, <1>2, <1>3, <1>5, <1>6 DEF ConnectionTypes
<1>8. Outstanding'
  <2>1. PICK m \in Messages : m = Answer(id)  BY <1>4
  <2>. QED  BY <1>1, <1>2, <1>4, <2>1, OutstandingAnswers DEF id
<1>9. ASSUME created = 0, doing \in Active, Phases
      PROVE  Phases'
  <2>1. Operation = "enable"  BY <1>1, <1>2, <1>9, OutstandingIs
  <2>. QED  BY <1>1, <1>2, <1>4, <1>9, <2>1, PhasesKept
<1>10. Visits'  BY <1>2, <1>9 DEF Visits
<1>. QED  BY <1>2, <1>4, <1>7, <1>8, <1>10 DEF ConnectionInv

(* Runtime.evaluate says which document is there and how far it is.        *)
LEMMA ConnectionHandleEvaluate ==
  ASSUME ConnectionInv, HandleEvaluate
  PROVE  ConnectionInv'
<1>. DEFINE id == Head(inbox).id
<1>1. /\ inbox # <<>> /\ Head(inbox).method = "evaluate" /\ inbox' = Tail(inbox)
      /\ channel' = Append(channel, Answer(id))
      /\ UNCHANGED <<client, owed, enabled, page, reported>>
  BY DEF HandleEvaluate
<1>2. /\ Progress' /\ Progress /\ ConnectionTypes /\ Outstanding /\ Visits
      /\ UNCHANGED <<created, step, doing, command, events, asked, taken, astray>>
  BY <1>1, ProgressKept DEF ConnectionInv
<1>3. id \in 0..Len(Script) /\ inbox' \in Seq([id : 1..Len(Script), method : Commands])
  BY <1>1, <1>2, InboxTyped
<1>. HIDE DEF id
<1>4. /\ Answer(id) \in Messages /\ Answer(id).kind = "answer" /\ Answer(id).id = id
      /\ IsWhole(taken, Untaken, reported)'
      /\ NoneOf(Untaken, "frame") => NoneOf(Untaken, "frame")'
      /\ NoneOf(Untaken, "dom") => NoneOf(Untaken, "dom")'
      /\ AtMostOne(Untaken, "frame") => AtMostOne(Untaken, "frame")'
      /\ AtMostOne(Untaken, "dom") => AtMostOne(Untaken, "dom")'
  BY <1>1, <1>2, <1>3, AnswerComes
<1>5. /\ channel' \in Seq(Messages)
      /\ \A k \in 1..Len(channel') :
           IF k = Len(channel) + 1 THEN channel'[k] = Answer(id)
                                   ELSE k \in 1..Len(channel) /\ channel'[k] = channel[k]
  BY <1>1, <1>2, <1>4, MessageComes
<1>6. Messages' = Messages /\ Documents' = Documents  BY <1>2 DEF Messages, Documents
<1>7. ConnectionTypes'  BY <1>1, <1>2, <1>3, <1>5, <1>6 DEF ConnectionTypes
<1>8. Outstanding'
  <2>1. PICK m \in Messages : m = Answer(id)  BY <1>4
  <2>. QED  BY <1>1, <1>2, <1>4, <2>1, OutstandingAnswers DEF id
<1>9. ASSUME created = 0, doing \in Active, Phases
      PROVE  Phases'
  <2>1. Operation = "evaluate" /\ doing = "answer"  BY <1>1, <1>2, <1>9, OutstandingIs
  <2>2. page = [doc |-> asked, state |-> "ready", loading |-> 0]
    BY <1>9, <2>1 DEF Phases, Commands, Settled
  <2>3. Answer(id).load = asked /\ Answer(id).state = "ready"  BY <2>2 DEF Answer
  <2>4. \A k \in 1..Len(channel') : channel'[k].kind = "answer" =>
          <<channel'[k].load, channel'[k].state>> = <<asked, "ready">>
    BY <1>5, <1>9, <2>1, <2>3 DEF Phases
  <2>. QED  BY <1>1, <1>2, <1>4, <1>9, <2>1, <2>4, PhasesKept
<1>10. Visits'  BY <1>2, <1>9 DEF Visits
<1>. QED  BY <1>2, <1>4, <1>7, <1>8, <1>10 DEF ConnectionInv

(* The answer to a navigation that was started.                            *)
LEMMA ConnectionAnswerNavigate ==
  ASSUME ConnectionInv, AnswerNavigate
  PROVE  ConnectionInv'
<1>1. /\ owed # 0 /\ owed' = 0 /\ channel' = Append(channel, Answer(owed))
      /\ UNCHANGED <<client, inbox, enabled, page, reported>>
  BY DEF AnswerNavigate
<1>2. /\ Progress' /\ Progress /\ ConnectionTypes /\ Outstanding /\ Visits
      /\ UNCHANGED <<created, step, doing, command, events, asked, taken, astray>>
  BY <1>1, ProgressKept DEF ConnectionInv
<1>3. owed \in 0..Len(Script) /\ 0 \in 0..Len(Script)
  BY <1>2, ConnectionAssumption DEF ConnectionTypes
<1>4. /\ Answer(owed) \in Messages /\ Answer(owed).kind = "answer" /\ Answer(owed).id = owed
      /\ IsWhole(taken, Untaken, reported)'
      /\ NoneOf(Untaken, "frame") => NoneOf(Untaken, "frame")'
      /\ NoneOf(Untaken, "dom") => NoneOf(Untaken, "dom")'
      /\ AtMostOne(Untaken, "frame") => AtMostOne(Untaken, "frame")'
      /\ AtMostOne(Untaken, "dom") => AtMostOne(Untaken, "dom")'
  BY <1>1, <1>2, <1>3, AnswerComes
<1>5. channel' \in Seq(Messages)  BY <1>1, <1>2, <1>4, MessageComes
<1>6. Messages' = Messages /\ Documents' = Documents  BY <1>2 DEF Messages, Documents
<1>7. ConnectionTypes'  BY <1>1, <1>2, <1>3, <1>5, <1>6 DEF ConnectionTypes
<1>8. Outstanding'
  <2>1. PICK m \in Messages : m = Answer(owed)  BY <1>4
  <2>. QED  BY <1>1, <1>2, <1>4, <2>1, OutstandingAnswers
<1>9. ASSUME created = 0, doing \in Active, Phases
      PROVE  Phases'
  <2>1. Operation = "navigate"  BY <1>1, <1>2, <1>9, OutstandingIs DEF Handled
  <2>. QED  BY <1>1, <1>2, <1>4, <1>9, <2>1, PhasesKept
<1>10. Visits'  BY <1>2, <1>9 DEF Visits
<1>. QED  BY <1>2, <1>4, <1>7, <1>8, <1>10 DEF ConnectionInv

(* Page.navigate starts a load.                                            *)
LEMMA ConnectionHandleNavigate ==
  ASSUME ConnectionInv, HandleNavigate
  PROVE  ConnectionInv'
<1>1. /\ inbox # <<>> /\ Head(inbox).method = "navigate" /\ inbox' = Tail(inbox)
      /\ owed' = Head(inbox).id /\ page' = [page EXCEPT !.loading = asked]
      /\ UNCHANGED <<client, channel, enabled, reported>>
  BY DEF HandleNavigate
<1>2. /\ Progress' /\ Progress /\ ConnectionTypes /\ Outstanding /\ Visits
      /\ UNCHANGED <<created, step, doing, command, events, asked, taken, astray>>
  BY <1>1, ProgressKept DEF ConnectionInv
<1>3. Untaken' = Untaken /\ Operation' = Operation  BY <1>1, <1>2 DEF Untaken, Operation
<1>4. Messages' = Messages /\ Documents' = Documents  BY <1>2 DEF Messages, Documents
<1>5. ConnectionTypes'
  <2>1. /\ owed' \in 0..Len(Script)
        /\ inbox' \in Seq([id : 1..Len(Script), method : Commands])
    BY <1>1, <1>2, InboxTyped
  <2>2. asked \in Documents
    <3>1. asked \in Nat  BY <1>2 DEF ConnectionTypes, Progress
    <3>. QED  BY <3>1 DEF Documents
  <2>3. page' \in [doc : Documents, state : {"parsing", "ready"}, loading : Documents]
    BY <1>1, <1>2, <2>2 DEF ConnectionTypes
  <2>. QED  BY <1>1, <1>2, <1>4, <2>1, <2>3 DEF ConnectionTypes
<1>6. Outstanding'
  <2>1. NoneOf(events, "answer")' /\ (NoneOf(channel, "answer") => NoneOf(channel, "answer")')
    BY <1>1, <1>2 DEF Outstanding, NoneOf
  <2>2. CASE doing = "timed_out"  BY <1>1, <1>2, <2>1, <2>2 DEF Outstanding
  <2>3. CASE doing \in Active \cup {"done"}
    <3>1. /\ doing = "answer" /\ Unhandled /\ Head(inbox).id = command
          /\ Head(inbox).method = Operation /\ Tail(inbox) = <<>>
      BY <1>1, <1>2, <2>3, OutstandingIs
    <3>2. Handled'  BY <1>1, <1>2, <1>3, <3>1 DEF Handled
    <3>3. NoneOf(channel, "answer")
      <4>1. ~Handled /\ ~Answered  BY <1>1 DEF Handled, Answered
      <4>. QED  BY <1>2, <3>1, <4>1 DEF Outstanding
    <3>. QED  BY <1>1, <1>2, <2>1, <3>1, <3>2, <3>3 DEF Outstanding
  <2>. QED  BY <1>2, <2>2, <2>3 DEF Progress, Over
<1>7. ASSUME created = 0, doing \in Active, Phases
      PROVE  Phases'
  <2>1. Operation = "navigate" /\ doing = "answer" /\ inbox' = <<>>
    BY <1>1, <1>2, <1>7, OutstandingIs
  <2>2. Settled(asked - 1)  BY <1>1, <1>7, <2>1 DEF Phases
  <2>3. Requested'  BY <1>1, <1>2, <1>3, <2>2 DEF Settled, Requested
  <2>4. Navigating'  BY <2>3 DEF Navigating
  <2>. QED  BY <1>2, <1>3, <2>1, <2>4 DEF Phases, Commands
<1>8. Visits'  BY <1>2, <1>7 DEF Visits
<1>9. IsWhole(taken, Untaken, reported)'  BY <1>1, <1>2, <1>3 DEF ConnectionInv
<1>. QED  BY <1>2, <1>5, <1>6, <1>8, <1>9 DEF ConnectionInv

(***************************************************************************)
(* What is kept of the invariant when the page goes on and reports it.     *)
(***************************************************************************)

(* A step of the page that keeps the phases.                               *)
LEMMA ConnectionReports ==
  ASSUME ConnectionInv, NEW kind \in {"frame", "dom", "other"}, Report(kind),
         page' \in [doc : Documents, state : {"parsing", "ready"}, loading : Documents],
         UNCHANGED <<client, inbox, owed, enabled>>, (created = 0 /\ doing \in Active) => Phases'
  PROVE  ConnectionInv'
<1>1. /\ Progress' /\ Progress /\ ConnectionTypes /\ Outstanding /\ Visits
      /\ UNCHANGED <<created, step, doing, command, events, asked, taken, astray>>
  BY ProgressKept DEF ConnectionInv
<1>2. /\ reported' \in Nat /\ IsWhole(taken, Untaken, reported)'
      /\ \/ UNCHANGED channel
         \/ \E m \in Messages : channel' = Append(channel, m) /\ m.kind = kind /\ m.id = 0
  BY EventComes
<1>3. Messages' = Messages /\ Documents' = Documents  BY <1>1 DEF Messages, Documents
<1>4. channel' \in Seq(Messages)  BY <1>1, <1>2, MessageComes DEF ConnectionTypes
<1>5. ConnectionTypes'  BY <1>1, <1>2, <1>3, <1>4 DEF ConnectionTypes
<1>6. Outstanding'
  <2>1. CASE UNCHANGED channel
    BY <1>1, <2>1
       DEF Outstanding, Unhandled, Handled, Answered, NoneOf, AtMostOne, Operation
  <2>2. CASE \E m \in Messages : channel' = Append(channel, m) /\ m.kind = kind /\ m.id = 0
    BY <1>1, <2>2, OutstandingReports
  <2>. QED  BY <1>2, <2>1, <2>2
<1>7. Visits'  BY <1>1 DEF Visits
<1>. QED  BY <1>1, <1>2, <1>5, <1>6, <1>7 DEF ConnectionInv

(* The document is committed and the frame reported.                       *)
LEMMA ConnectionCommitLoad ==
  ASSUME ConnectionInv, CommitLoad
  PROVE  ConnectionInv'
<1>1. /\ page.loading # 0 /\ Report("frame") /\ UNCHANGED <<client, inbox, owed, enabled>>
      /\ page' = [doc |-> page.loading, state |-> "parsing", loading |-> 0]
  BY DEF CommitLoad
<1>2. page' \in [doc : Documents, state : {"parsing", "ready"}, loading : Documents]
  BY <1>1 DEF ConnectionInv, ConnectionTypes, Documents, Progress
<1>3. ASSUME created = 0, doing \in Active
      PROVE  Phases'
  <2>1. Progress /\ Phases /\ UNCHANGED <<step, doing, asked>> /\ Operation' = Operation
    BY <1>1, <1>3 DEF ConnectionInv, Visits, Operation, client
  <2>2. Requested /\ (\/ Operation = "frame"
                      \/ Operation = "navigate" /\ doing = "answer" /\ inbox = <<>>)
    <3>1. Requested  BY <1>1, <1>3, <2>1, PhasesLoad
    <3>2. ~Committed  BY <1>1 DEF Committed, Parsing, Parsed
    <3>. QED  BY <1>1, <1>3, <2>1, <3>1, <3>2, PhasesLoad
  <2>3. NoneOf(Untaken, "dom")' /\ AtMostOne(Untaken, "frame")'
    BY <1>1, <1>2, <2>2, EventComes DEF Requested
  <2>4. Parsing'  BY <1>1, <2>1, <2>2, <2>3 DEF Requested, Parsing
  <2>5. Navigating'  BY <2>3, <2>4 DEF Navigating
  <2>. QED  BY <1>1, <2>1, <2>2, <2>5 DEF Phases, Commands
<1>. QED  BY <1>1, <1>2, <1>3, ConnectionReports

(* It is parsed, and its DOM content reported.                             *)
LEMMA ConnectionFireDomContent ==
  ASSUME ConnectionInv, FireDomContent
  PROVE  ConnectionInv'
<1>1. /\ page.state = "parsing" /\ Report("dom") /\ UNCHANGED <<client, inbox, owed, enabled>>
      /\ page' = [page EXCEPT !.state = "ready"]
  BY DEF FireDomContent
<1>2. page' \in [doc : Documents, state : {"parsing", "ready"}, loading : Documents]
  BY <1>1 DEF ConnectionInv, ConnectionTypes
<1>3. ASSUME created = 0, doing \in Active
      PROVE  Phases'
  <2>1. Progress /\ Phases /\ UNCHANGED <<step, doing, asked>> /\ Operation' = Operation
    BY <1>1, <1>3 DEF ConnectionInv, Visits, Operation, client
  <2>2. /\ Parsing
        /\ \/ Operation = "dom" /\ Committed
           \/ Operation = "frame" /\ Navigating
           \/ Operation = "navigate" /\ doing = "answer" /\ inbox = <<>> /\ Navigating
    BY <1>1, <1>3, <2>1, PhasesLoad
  <2>3. /\ AtMostOne(Untaken, "dom")'
        /\ NoneOf(Untaken, "frame") => NoneOf(Untaken, "frame")'
        /\ AtMostOne(Untaken, "frame") => AtMostOne(Untaken, "frame")'
    BY <1>1, <1>2, <2>2, EventComes DEF Parsing
  <2>4. Parsed'  BY <1>1, <2>1, <2>2, <2>3 DEF Parsing, Parsed
  <2>5. Committed => Committed'  BY <2>3, <2>4 DEF Committed
  <2>6. Navigating => Navigating'
    <3>1. ~Requested  BY <1>1 DEF Requested
    <3>. QED  BY <2>3, <2>4, <3>1 DEF Navigating
  <2>. QED  BY <1>1, <2>1, <2>2, <2>5, <2>6 DEF Phases, Commands
<1>. QED  BY <1>1, <1>2, <1>3, ConnectionReports

(* Events no test waits for.                                               *)
LEMMA ConnectionReportOther ==
  ASSUME ConnectionInv, ReportOther
  PROVE  ConnectionInv'
<1>1. Report("other") /\ UNCHANGED page /\ UNCHANGED <<client, inbox, owed, enabled>>
  BY DEF ReportOther
<1>2. page' \in [doc : Documents, state : {"parsing", "ready"}, loading : Documents]
  BY <1>1 DEF ConnectionInv, ConnectionTypes
<1>3. ASSUME created = 0, doing \in Active
      PROVE  Phases'
  <2>1. Phases /\ ConnectionTypes /\ UNCHANGED <<step, doing, asked, events>>
    BY <1>1, <1>3 DEF ConnectionInv, Visits, client
  <2>2. /\ \/ UNCHANGED channel
           \/ \E m \in Messages : channel' = Append(channel, m) /\ m.kind = "other" /\ m.id = 0
        /\ NoneOf(Untaken, "frame") => NoneOf(Untaken, "frame")'
        /\ NoneOf(Untaken, "dom") => NoneOf(Untaken, "dom")'
        /\ AtMostOne(Untaken, "frame") => AtMostOne(Untaken, "frame")'
        /\ AtMostOne(Untaken, "dom") => AtMostOne(Untaken, "dom")'
    BY <1>1, <1>2, EventComes
  <2>3. \A k \in 1..Len(channel') : channel'[k].kind = "answer" =>
          k \in 1..Len(channel) /\ channel'[k] = channel[k]
    <3>1. CASE UNCHANGED channel  BY <3>1
    <3>2. CASE \E m \in Messages : channel' = Append(channel, m) /\ m.kind = "other"
      <4>1. PICK m \in Messages : channel' = Append(channel, m) /\ m.kind = "other"  BY <3>2
      <4>. QED  BY <2>1, <4>1, MessageComes
    <3>. QED  BY <2>2, <3>1, <3>2
  <2>. QED  BY <1>1, <2>1, <2>2, <2>3, PhasesKept DEF Phases
<1>. QED  BY <1>1, <1>2, <1>3, ConnectionReports

(***************************************************************************)
(* The client sends its next command.                                      *)
(***************************************************************************)

(* call() sends a command.                                                 *)
LEMMA ConnectionSendCommand ==
  ASSUME ConnectionInv, SendCommand
  PROVE  ConnectionInv'
<1>1. /\ doing = "next" /\ Operation \in Commands /\ command' = command + 1
      /\ inbox' = Append(inbox, [id |-> command + 1, method |-> Operation])
      /\ asked' = (IF Operation = "navigate" THEN asked + 1 ELSE asked) /\ doing' = "answer"
      /\ UNCHANGED <<created, step, events, taken, astray, channel, owed, enabled, page, reported>>
  BY DEF SendCommand
<1>2. Progress /\ ConnectionTypes /\ Outstanding /\ Visits  BY DEF ConnectionInv
<1>3. Operation' = Operation /\ Untaken' = Untaken  BY <1>1 DEF Operation, Untaken
<1>4. inbox = <<>> /\ owed = 0 /\ NoneOf(channel, "answer")  BY <1>1, <1>2 DEF Outstanding
<1>5. inbox' = <<[id |-> command', method |-> Operation]>>  BY <1>1, <1>4
<1>6. /\ command \in Nat /\ command + 1 \in 1..Len(Script) /\ command <= step
      /\ step < Len(Script) /\ asked \in Nat /\ created \in Nat
  BY <1>1, <1>2, ConnectionAssumption DEF Progress, Active, ConnectionTypes
<1>7. Progress'  BY <1>1, <1>2, <1>3, <1>6, ConnectionAssumption DEF Progress, Active
<1>8. ConnectionTypes'
  <2>1. asked' \in (created..created + command)'
    BY <1>1, <1>2, <1>6 DEF ConnectionTypes
  <2>2. Documents \subseteq Documents'  BY <1>1, <1>6 DEF Documents
  <2>3. Messages \subseteq Messages'  BY <2>2 DEF Messages
  <2>4. events' \in Seq(Messages)' /\ taken' \in Seq(Messages)' /\ channel' \in Seq(Messages)'
    <3>1. PICK M : M = Messages'  OBVIOUS
    <3>2. Messages \subseteq M  BY <2>3, <3>1
    <3>3. events \in Seq(M) /\ taken \in Seq(M) /\ channel \in Seq(M)
      BY <1>2, <3>2, SeqMonotonic DEF ConnectionTypes
    <3>. QED  BY <1>1, <3>1, <3>3
  <2>5. inbox' \in Seq([id : 1..Len(Script), method : Commands])
    <3>1. [id |-> command + 1, method |-> Operation] \in [id : 1..Len(Script), method : Commands]
      BY <1>1, <1>6
    <3>. QED  BY <1>1, <1>2, <3>1 DEF ConnectionTypes
  <2>6. page' \in [doc : Documents', state : {"parsing", "ready"}, loading : Documents']
    BY <1>1, <1>2, <2>2 DEF ConnectionTypes
  <2>. QED  BY <1>1, <1>2, <2>1, <2>4, <2>5, <2>6 DEF ConnectionTypes
<1>9. Outstanding'
  <2>1. Unhandled'  BY <1>1, <1>3, <1>4, <1>5 DEF Unhandled
  <2>2. NoneOf(events, "answer")' /\ NoneOf(channel, "answer")'
    BY <1>1, <1>2, <1>4 DEF Outstanding, NoneOf
  <2>. QED  BY <1>1, <1>2, <2>1, <2>2 DEF Outstanding
<1>10. ASSUME created = 0, Phases
       PROVE  Phases'
  <2>1. Settled(asked)  BY <1>1, <1>10 DEF Phases
  <2>2. Operation = "navigate" => (asked' - 1 = asked /\ inbox' # <<>>)
    BY <1>1, <1>5, <1>6
  <2>3. Operation # "navigate" => asked' = asked  BY <1>1
  <2>4. PICK a : a = asked  OBVIOUS
  <2>5. Settled(a)'  BY <1>1, <1>3, <2>1, <2>4 DEF Settled
  <2>6. Operation = "navigate" => Settled(asked - 1)'  BY <2>2, <2>4, <2>5 DEF Settled
  <2>7. Operation # "navigate" => Settled(asked)'  BY <2>3, <2>4, <2>5 DEF Settled
  <2>8. \A k \in 1..Len(channel') : channel'[k].kind # "answer"
    BY <1>1, <1>4 DEF NoneOf
  <2>. QED  BY <1>1, <1>3, <2>2, <2>6, <2>7, <2>8 DEF Phases, Commands
<1>11. Visits'  BY <1>1, <1>2, <1>10 DEF Visits, Active
<1>12. IsWhole(taken, Untaken, reported)'  BY <1>1, <1>3 DEF ConnectionInv
<1>. QED  BY <1>7, <1>8, <1>9, <1>11, <1>12 DEF ConnectionInv

(***************************************************************************)
(* The client reads a message: of the answers it is the one, of the events *)
(* the first that is on its way.                                           *)
(***************************************************************************)

(* What is left when a message is read.                                    *)
LEMMA MessageRead ==
  ASSUME ConnectionTypes, channel # <<>>, channel' = Tail(channel), UNCHANGED asked
  PROVE  /\ Head(channel) \in Messages /\ channel' \in Seq(Messages) /\ Messages' = Messages
         /\ Head(channel) = channel[1] /\ 1 \in 1..Len(channel)
         /\ \A k \in 1..Len(channel') : k + 1 \in 1..Len(channel) /\ channel'[k] = channel[k + 1]
         /\ \A k \in 1..Len(channel) : k # 1 => k - 1 \in 1..Len(channel')
         /\ UNCHANGED events => /\ IsWithout(Untaken', Untaken, Len(events) + 1)
                                /\ Untaken[Len(events) + 1] = Head(channel)
         /\ events' = Append(events, Head(channel)) =>
              Untaken' = Untaken /\ events' \in Seq(Messages)
<1>1. events \in Seq(Messages) /\ channel \in Seq(Messages)  BY UntakenTyped
<1>2. Messages' = Messages  BY DEF Messages, Documents
<1>3. /\ IsWithout(events \o Tail(channel), events \o channel, Len(events) + 1)
      /\ (events \o channel)[Len(events) + 1] = Head(channel)
      /\ Append(events, Head(channel)) \o Tail(channel) = events \o channel
  BY <1>1, ConcatHead
<1>4. /\ Head(channel) \in Messages /\ Tail(channel) \in Seq(Messages)
      /\ Len(Tail(channel)) = Len(channel) - 1 /\ Len(channel) \in Nat /\ Len(channel) >= 1
      /\ Head(channel) = channel[1]
      /\ \A k \in 1..Len(Tail(channel)) : Tail(channel)[k] = channel[k + 1]
  BY <1>1, HeadTailProperties
<1>5. UNCHANGED events => /\ IsWithout(Untaken', Untaken, Len(events) + 1)
                          /\ Untaken[Len(events) + 1] = Head(channel)
  BY <1>3 DEF Untaken
<1>6. events' = Append(events, Head(channel)) =>
        Untaken' = Untaken /\ events' \in Seq(Messages)
  BY <1>1, <1>3, <1>4 DEF Untaken
<1>. QED  BY <1>2, <1>4, <1>5, <1>6

(* Reading keeps the types.                                                *)
LEMMA TypesOfRead ==
  ASSUME ConnectionInv, Progress', channel' \in Seq(Messages), events' \in Seq(Messages),
         taken' \in Seq(Messages), astray' \in BOOLEAN,
         UNCHANGED <<created, command, asked, inbox, owed, enabled, page, reported>>
  PROVE  ConnectionTypes'
<1>1. Messages' = Messages /\ Documents' = Documents  BY DEF Messages, Documents
<1>. QED  BY <1>1 DEF ConnectionInv, ConnectionTypes

(* call() reads the answer to its command and returns.                     *)
LEMMA ConnectionReceiveAnswer ==
  ASSUME ConnectionInv, ReceiveAnswer, Head(channel).id = command
  PROVE  ConnectionInv'
<1>. DEFINE m == Head(channel)
            i == Len(events) + 1
<1>1. /\ doing = "answer" /\ channel # <<>> /\ channel' = Tail(channel) /\ Advance
      /\ astray' = (astray \/ (Operation = "evaluate" /\ <<m.load, m.state>> # <<asked, "ready">>))
      /\ UNCHANGED <<created, command, asked, taken, events, inbox, owed, enabled, page, reported>>
  BY DEF ReceiveAnswer
<1>2. Progress /\ ConnectionTypes /\ Outstanding /\ Visits  BY DEF ConnectionInv
<1>3. /\ m \in Messages /\ channel' \in Seq(Messages) /\ Messages' = Messages
      /\ m = channel[1] /\ 1 \in 1..Len(channel) /\ IsWithout(Untaken', Untaken, i)
      /\ Untaken[i] = m
      /\ \A k \in 1..Len(channel') : k + 1 \in 1..Len(channel) /\ channel'[k] = channel[k + 1]
  BY <1>1, <1>2, MessageRead
<1>. HIDE DEF m, i
<1>4. command >= 1 /\ m.kind = "answer"
  BY <1>1, <1>2, <1>3 DEF Progress, Outstanding, m
<1>5. Answered /\ AtMostOne(channel, "answer") /\ inbox = <<>> /\ owed = 0
  <2>1. ~NoneOf(channel, "answer")  BY <1>3, <1>4 DEF NoneOf
  <2>. QED  BY <1>1, <1>2, <2>1 DEF Outstanding, Answered
<1>6. NoneOf(channel, "answer")'
  <2>1. ASSUME NEW k \in 1..Len(channel')
        PROVE  channel'[k].kind # "answer"
    <3>1. k + 1 \in 1..Len(channel) /\ channel'[k] = channel[k + 1] /\ k + 1 # 1  BY <1>3
    <3>. QED  BY <1>3, <1>4, <1>5, <3>1 DEF AtMostOne
  <2>. QED  BY <2>1 DEF NoneOf
<1>7. /\ step' = step + 1 /\ step' \in 0..Len(Script) /\ doing' \in {"next", "done"}
      /\ doing' = "next" =>
           /\ step' < Len(Script) /\ Operation' \in Commands \cup Waits
           /\ (Operation = "navigate") <=> (Operation' = "frame")
           /\ (Operation = "frame") <=> (Operation' = "dom")
  BY <1>1, <1>2, AdvanceIs DEF Active
<1>8. Progress'  BY <1>1, <1>2, <1>7 DEF Progress, Active, Over
<1>9. Outstanding'
  <2>1. NoneOf(events, "answer")'  BY <1>1, <1>2 DEF Outstanding, NoneOf
  <2>2. \A k \in 1..Len(channel') : channel'[k].kind # "answer" => channel'[k].id = 0
    BY <1>2, <1>3 DEF Outstanding
  <2>. QED  BY <1>1, <1>5, <1>6, <1>7, <2>1, <2>2 DEF Outstanding
<1>10. /\ Untaken \in Seq(Messages) /\ Untaken' \in Seq(Messages) /\ taken \in Seq(Messages)
       /\ events \in Seq(Messages) /\ reported \in Nat
  <2>1. /\ Untaken \in Seq(Messages) /\ taken \in Seq(Messages) /\ events \in Seq(Messages)
        /\ reported \in Nat
    BY <1>2, UntakenTyped
  <2>2. Untaken' = events \o channel'  BY <1>1 DEF Untaken
  <2>. QED  BY <1>3, <2>1, <2>2, ConcatProperties
<1>11. IsWhole(taken, Untaken, reported)'
  <2>1. PICK q : q = Untaken'  OBVIOUS
  <2>2. IsWhole(taken, q, reported)
    BY <1>3, <1>4, <1>10, <2>1, WholeAnswered DEF ConnectionInv
  <2>. QED  BY <1>1, <2>1, <2>2
<1>12. /\ NoneOf(Untaken, "frame") => NoneOf(Untaken, "frame")'
       /\ NoneOf(Untaken, "dom") => NoneOf(Untaken, "dom")'
       /\ AtMostOne(Untaken, "frame") => AtMostOne(Untaken, "frame")'
       /\ AtMostOne(Untaken, "dom") => AtMostOne(Untaken, "dom")'
  <2>1. PICK q : q = Untaken'  OBVIOUS
  <2>2. /\ NoneOf(Untaken, "frame") => NoneOf(q, "frame")
        /\ NoneOf(Untaken, "dom") => NoneOf(q, "dom")
        /\ AtMostOne(Untaken, "frame") => AtMostOne(q, "frame")
        /\ AtMostOne(Untaken, "dom") => AtMostOne(q, "dom")
    BY <1>3, <1>10, <2>1, KindsWithout
  <2>. QED  BY <2>1, <2>2
<1>13. ASSUME created = 0
       PROVE  ~astray' /\ (doing' = "next" => Phases')
  <2>1. ~astray /\ Phases  BY <1>1, <1>2, <1>13 DEF Visits, Active
  <2>2. Operation = "evaluate" => <<m.load, m.state>> = <<asked, "ready">>
    BY <1>1, <1>3, <1>4, <2>1 DEF Phases
  <2>3. ~astray'  BY <1>1, <2>1, <2>2
  <2>4. Operation \in Commands  BY <1>1, <1>2 DEF Progress
  <2>5. ASSUME doing' = "next", Operation = "navigate"
        PROVE  Phases'
    <3>1. Navigating  BY <1>1, <1>5, <2>1, <2>5 DEF Phases
    <3>2. (Parsing => Parsing') /\ (Parsed => Parsed') /\ (Requested => Requested')
      BY <1>1, <1>12 DEF Parsing, Parsed, Requested
    <3>3. Navigating'  BY <1>12, <3>1, <3>2 DEF Navigating
    <3>4. Operation' = "frame"  BY <1>7, <2>5
    <3>. QED  BY <3>3, <3>4 DEF Phases, Commands
  <2>6. ASSUME doing' = "next", Operation # "navigate"
        PROVE  Phases'
    <3>1. Settled(asked)  BY <1>1, <2>1, <2>4, <2>6 DEF Phases
    <3>2. Settled(asked)'  BY <1>1, <1>12, <3>1 DEF Settled
    <3>3. Operation' \in Commands  BY <1>7, <2>4, <2>6 DEF Commands, Waits
    <3>. QED  BY <2>6, <3>2, <3>3 DEF Phases, Commands
  <2>. QED  BY <2>3, <2>5, <2>6
<1>14. Visits'  BY <1>1, <1>7, <1>13 DEF Visits, Active
<1>15. astray' \in BOOLEAN  BY <1>1, <1>2 DEF ConnectionTypes
<1>16. ConnectionTypes'  BY <1>1, <1>3, <1>8, <1>10, <1>15, TypesOfRead
<1>. QED  BY <1>8, <1>9, <1>11, <1>14, <1>16 DEF ConnectionInv

(***************************************************************************)
(* The client keeps what it does not look for.                             *)
(***************************************************************************)

(* An event that comes first is appended to self.events.                   *)
LEMMA ConnectionKeepsEvent ==
  ASSUME ConnectionInv, doing \in {"answer", "wait"}, channel # <<>>, channel' = Tail(channel),
         events' = Append(events, Head(channel)), Head(channel).kind # "answer",
         UNCHANGED <<created, step, doing, command, asked, taken, astray, inbox, owed, enabled,
                     page, reported>>
  PROVE  ConnectionInv'
<1>. DEFINE m == Head(channel)
<1>1. Progress /\ ConnectionTypes /\ Outstanding /\ Visits  BY DEF ConnectionInv
<1>2. /\ m \in Messages /\ channel' \in Seq(Messages) /\ Messages' = Messages
      /\ m = channel[1] /\ 1 \in 1..Len(channel) /\ Untaken' = Untaken /\ events' \in Seq(Messages)
      /\ \A k \in 1..Len(channel') : k + 1 \in 1..Len(channel) /\ channel'[k] = channel[k + 1]
      /\ \A k \in 1..Len(channel) : k # 1 => k - 1 \in 1..Len(channel')
  BY <1>1, MessageRead
<1>3. Operation' = Operation  BY DEF Operation
<1>4. Progress'  BY <1>1, <1>3 DEF Progress
<1>5. NoneOf(events, "answer")'
  <2>1. PICK e : e = Append(events, m)  OBVIOUS
  <2>2. NoneOf(e, "answer")
    BY <1>1, <1>2, <2>1, UntakenTyped, KindsAppend DEF Outstanding
  <2>. QED  BY <2>1, <2>2
<1>6. NoneOf(channel, "answer") => NoneOf(channel, "answer")'  BY <1>2 DEF NoneOf
<1>7. AtMostOne(channel, "answer") => AtMostOne(channel, "answer")'
  BY <1>2 DEF AtMostOne
<1>8. \A k \in 1..Len(channel') : channel'[k].kind # "answer" => channel'[k].id = 0
  BY <1>1, <1>2 DEF Outstanding
<1>9. Answered => Answered'
  <2>1. SUFFICES ASSUME Answered
                 PROVE  \E k \in 1..Len(channel') :
                          channel'[k].kind = "answer" /\ channel'[k].id = command
    BY DEF Answered
  <2>2. PICK k \in 1..Len(channel) : channel[k].kind = "answer" /\ channel[k].id = command
    BY <2>1 DEF Answered
  <2>3. k # 1  BY <1>2, <2>2
  <2>4. k - 1 \in 1..Len(channel') /\ channel'[k - 1] = channel[(k - 1) + 1] /\ (k - 1) + 1 = k
    BY <1>2, <2>3
  <2>. QED  BY <2>2, <2>4
<1>10. (Unhandled => Unhandled') /\ (Handled => Handled')  BY <1>3 DEF Unhandled, Handled
<1>11. Outstanding'  BY <1>1, <1>5, <1>6, <1>7, <1>8, <1>9, <1>10 DEF Outstanding
<1>12. Phases => Phases'
  <2>1. SUFFICES ASSUME Phases PROVE Phases'  OBVIOUS
  <2>2. \A k \in 1..Len(channel') : \E j \in 1..Len(channel) : channel'[k] = channel[j]
    BY <1>2
  <2>3. (Operation = "evaluate" /\ doing = "answer") =>
          \A k \in 1..Len(channel') : channel'[k].kind = "answer" =>
            <<channel'[k].load, channel'[k].state>> = <<asked, "ready">>
    BY <2>1, <2>2 DEF Phases
  <2>. QED  BY <1>2, <2>1, <2>3, PhasesKept
<1>13. Visits'  BY <1>1, <1>12 DEF Visits
<1>14. IsWhole(taken, Untaken, reported)'  BY <1>2 DEF ConnectionInv
<1>15. ConnectionTypes'
  <2>1. taken' \in Seq(Messages) /\ astray' \in BOOLEAN  BY <1>1 DEF ConnectionTypes
  <2>. QED  BY <1>2, <1>4, <2>1, TypesOfRead
<1>. QED  BY <1>4, <1>11, <1>13, <1>14, <1>15 DEF ConnectionInv

(***************************************************************************)
(* A set of numbers has a least one.                                       *)
(***************************************************************************)

(* A set of numbers has a least one.                                       *)
LEMMA LeastNat ==
  ASSUME NEW N \in SUBSET Nat, N # {}
  PROVE  \E x \in N : \A y \in N : x <= y
<1>. DEFINE less == {p \in Nat \X Nat : p[1] < p[2]}
<1>1. IsWellFoundedOn(less, Nat)  BY NatLessThanWellFounded, Zenon DEF OpToRel
<1>. HIDE DEF less
<1>2. PICK x \in N : \A y \in N : ~(<<y, x>> \in less)
  BY <1>1, WFMin
<1>3. \A y \in N : ~(y < x)  BY <1>2 DEF less
<1>. QED  BY <1>3

(* call() reads an event.                                                  *)
LEMMA ConnectionReceiveOther ==
  ASSUME ConnectionInv, ReceiveAnswer, Head(channel).id # command
  PROVE  ConnectionInv'
<1>1. /\ doing = "answer" /\ channel # <<>> /\ channel' = Tail(channel)
      /\ events' = Append(events, Head(channel))
      /\ UNCHANGED <<created, step, doing, command, asked, taken, astray, inbox, owed, enabled,
                     page, reported>>
  BY DEF ReceiveAnswer
<1>2. Head(channel).kind # "answer"
  <2>1. Head(channel) = channel[1] /\ 1 \in 1..Len(channel)
    BY <1>1, MessageRead DEF ConnectionInv
  <2>2. SUFFICES ASSUME channel[1].kind = "answer" PROVE FALSE  BY <2>1
  <2>3. Answered /\ AtMostOne(channel, "answer")
    BY <1>1, <2>1, <2>2 DEF ConnectionInv, Outstanding, NoneOf
  <2>. QED  BY <1>1, <2>1, <2>2, <2>3 DEF Answered, AtMostOne
<1>. QED  BY <1>1, <1>2, ConnectionKeepsEvent

(***************************************************************************)
(* The client takes the event it waits for, and goes on: after a frame the *)
(* document asked for has been committed, after a DOM it is parsed.        *)
(***************************************************************************)
LEMMA ConnectionTakesEvent ==
  ASSUME ConnectionInv, doing \in {"next", "wait"}, Operation \in Waits, Advance,
         NEW i, IsWithout(Untaken', Untaken, i), Untaken[i].kind = Operation,
         taken' = Append(taken, Untaken[i]), events' \in Seq(Messages), channel' \in Seq(Messages),
         NoneOf(events, "answer")', NoneOf(channel, "answer")',
         \A k \in 1..Len(channel') : channel'[k].kind # "answer" => channel'[k].id = 0,
         UNCHANGED <<created, command, asked, astray, inbox, owed, enabled, page, reported>>
  PROVE  ConnectionInv'
<1>. DEFINE m == Untaken[i]
<1>1. Progress /\ ConnectionTypes /\ Outstanding /\ Visits  BY DEF ConnectionInv
<1>2. /\ step' = step + 1 /\ step' \in 0..Len(Script) /\ doing' \in {"next", "done"}
      /\ doing' = "next" =>
           /\ step' < Len(Script) /\ Operation' \in Commands \cup Waits
           /\ (Operation = "navigate") <=> (Operation' = "frame")
           /\ (Operation = "frame") <=> (Operation' = "dom")
  BY <1>1, AdvanceIs DEF Active
<1>3. Progress'
  <2>1. command <= step /\ step \in Nat  BY <1>1 DEF Progress
  <2>2. doing' \in Active \cup Over  BY <1>2 DEF Active, Over
  <2>3. (doing' \in Active => step' < Len(Script)) /\ doing' \notin {"answer", "wait"}
    BY <1>2 DEF Active
  <2>. QED  BY <1>1, <1>2, <2>1, <2>2, <2>3 DEF Progress
<1>4. /\ Untaken \in Seq(Messages) /\ taken \in Seq(Messages) /\ reported \in Nat
  BY <1>1, UntakenTyped
<1>5. Untaken' \in Seq(Messages)
  <2>1. Untaken' = events' \o channel'  BY DEF Untaken
  <2>. QED  BY <2>1, ConcatProperties
<1>6. m \in Messages /\ taken' \in Seq(Messages)
  <2>1. i \in 1..Len(Untaken)  BY DEF IsWithout
  <2>. QED  BY <1>4, <2>1
<1>. HIDE DEF m
<1>7. m.kind = Operation /\ m.kind # "answer"  BY DEF m, Waits
<1>8. IsWhole(taken, Untaken, reported)'
  <2>1. PICK q : q = Untaken'  OBVIOUS
  <2>2. IsWhole(Append(taken, Untaken[i]), q, reported)
    BY <1>4, <1>5, <1>7, <2>1, WholeTaken DEF ConnectionInv, m
  <2>. QED  BY <2>1, <2>2
<1>9. \A kind : /\ NoneOf(Untaken, kind) => NoneOf(Untaken, kind)'
                /\ AtMostOne(Untaken, kind) => AtMostOne(Untaken, kind)'
                /\ (AtMostOne(Untaken, kind) /\ m.kind = kind) => NoneOf(Untaken, kind)'
  <2>1. PICK q : q = Untaken'  OBVIOUS
  <2>2. \A kind : /\ NoneOf(Untaken, kind) => NoneOf(q, kind)
                  /\ AtMostOne(Untaken, kind) => AtMostOne(q, kind)
                  /\ (AtMostOne(Untaken, kind) /\ Untaken[i].kind = kind) => NoneOf(q, kind)
    BY <1>4, <1>5, <2>1, KindsWithout
  <2>. QED  BY <2>1, <2>2 DEF m
<1>10. ~NoneOf(Untaken, m.kind)
  <2>1. i \in 1..Len(Untaken)  BY DEF IsWithout
  <2>. QED  BY <2>1 DEF NoneOf, m
<1>11. ASSUME created = 0, doing' = "next"
       PROVE  Phases'
  <2>1. Phases  BY <1>1, <1>11 DEF Visits, Active
  <2>2. CASE Operation = "frame"
    <3>1. (Parsing \/ Parsed) /\ AtMostOne(Untaken, "frame")
      BY <1>7, <1>10, <2>1, <2>2 DEF Phases, Navigating, Requested
    <3>2. (Parsing => Parsing') /\ (Parsed => Parsed')
      BY <1>9 DEF Parsing, Parsed
    <3>3. NoneOf(Untaken, "frame")'  BY <1>7, <1>9, <2>2, <3>1
    <3>4. Committed'  BY <3>1, <3>2, <3>3 DEF Committed
    <3>5. Operation' = "dom"  BY <1>2, <1>11, <2>2
    <3>. QED  BY <3>4, <3>5 DEF Phases, Commands
  <2>3. CASE Operation = "dom"
    <3>1. Parsed /\ NoneOf(Untaken, "frame")
      BY <1>7, <1>10, <2>1, <2>3 DEF Phases, Committed, Parsing
    <3>2. NoneOf(Untaken, "dom")' /\ NoneOf(Untaken, "frame")'
      BY <1>7, <1>9, <2>3, <3>1 DEF Parsed
    <3>3. Settled(asked)'  BY <3>1, <3>2 DEF Parsed, Settled
    <3>4. Operation' \in Commands  BY <1>2, <1>11, <2>3 DEF Commands, Waits
    <3>. QED  BY <1>11, <3>3, <3>4 DEF Phases, Commands
  <2>. QED  BY <2>2, <2>3 DEF Waits
<1>12. Visits'
  <2>1. created = 0 => ~astray'  BY <1>1 DEF Visits
  <2>2. doing' \in Active => doing' = "next"  BY <1>2 DEF Active
  <2>. QED  BY <1>11, <2>1, <2>2 DEF Visits
<1>13. Outstanding'
  <2>1. inbox = <<>> /\ owed = 0  BY <1>1 DEF Outstanding
  <2>. QED  BY <1>2, <2>1 DEF Outstanding
<1>14. ConnectionTypes'
  <2>1. astray' \in BOOLEAN  BY <1>1 DEF ConnectionTypes
  <2>. QED  BY <1>3, <1>6, <2>1, TypesOfRead
<1>. QED  BY <1>3, <1>8, <1>12, <1>13, <1>14 DEF ConnectionInv

(* wait_event reads a message.                                             *)
LEMMA ConnectionReceiveEvent ==
  ASSUME ConnectionInv, ReceiveEvent
  PROVE  ConnectionInv'
<1>1. /\ doing = "wait" /\ channel # <<>> /\ channel' = Tail(channel)
      /\ UNCHANGED <<created, command, asked, astray, inbox, owed, enabled, page, reported>>
  BY DEF ReceiveEvent
<1>2. Progress /\ ConnectionTypes /\ Outstanding /\ NoneOf(channel, "answer")
  BY <1>1 DEF ConnectionInv, Outstanding
<1>3. /\ channel' \in Seq(Messages) /\ Head(channel) = channel[1] /\ 1 \in 1..Len(channel)
      /\ \A k \in 1..Len(channel') : k + 1 \in 1..Len(channel) /\ channel'[k] = channel[k + 1]
      /\ UNCHANGED events => /\ IsWithout(Untaken', Untaken, Len(events) + 1)
                             /\ Untaken[Len(events) + 1] = Head(channel)
  BY <1>1, <1>2, MessageRead
<1>4. CASE Head(channel).kind = Operation
  <2>1. taken' = Append(taken, Head(channel)) /\ Advance /\ UNCHANGED events
    BY <1>4 DEF ReceiveEvent
  <2>2. NoneOf(channel, "answer")'  BY <1>2, <1>3 DEF NoneOf
  <2>3. NoneOf(events, "answer")'  BY <1>2, <2>1 DEF Outstanding, NoneOf
  <2>4. \A k \in 1..Len(channel') : channel'[k].kind # "answer" => channel'[k].id = 0
    BY <1>2, <1>3 DEF Outstanding
  <2>5. Operation \in Waits  BY <1>1, <1>2 DEF Progress
  <2>6. events' \in Seq(Messages)  BY <1>2, <2>1 DEF ConnectionTypes
  <2>7. PICK i : /\ IsWithout(Untaken', Untaken, i) /\ Untaken[i].kind = Operation
                 /\ taken' = Append(taken, Untaken[i])
    BY <1>3, <1>4, <2>1
  <2>. QED
    BY <1>1, <1>3, <2>1, <2>2, <2>3, <2>4, <2>5, <2>6, <2>7, ConnectionTakesEvent
<1>5. CASE Head(channel).kind # Operation
  <2>1. /\ events' = Append(events, Head(channel)) /\ UNCHANGED <<step, doing, taken>>
    BY <1>5 DEF ReceiveEvent
  <2>2. Head(channel).kind # "answer"  BY <1>2, <1>3 DEF NoneOf
  <2>. QED  BY <1>1, <2>1, <2>2, ConnectionKeepsEvent
<1>. QED  BY <1>4, <1>5

(* wait_event looks through the events that are kept.                      *)
LEMMA ConnectionBeginWait ==
  ASSUME ConnectionInv, BeginWait
  PROVE  ConnectionInv'
<1>. DEFINE matching == {i \in DOMAIN events : events[i].kind = Operation}
<1>1. /\ doing = "next" /\ Operation \in Waits
      /\ UNCHANGED <<created, command, asked, astray, inbox, channel, owed, enabled, page, reported>>
  BY DEF BeginWait, browser
<1>2. Progress /\ ConnectionTypes /\ Outstanding /\ Visits  BY DEF ConnectionInv
<1>3. CASE matching = {}
  <2>1. doing' = "wait" /\ UNCHANGED <<step, events, taken>>  BY <1>3 DEF BeginWait
  <2>2. Operation' = Operation /\ Untaken' = Untaken  BY <1>1, <2>1 DEF Operation, Untaken
  <2>3. Progress'
    <3>1. doing' \in Active  BY <2>1 DEF Active
    <3>. QED  BY <1>1, <1>2, <2>1, <2>2, <3>1 DEF Progress, Active
  <2>4. Messages' = Messages /\ Documents' = Documents  BY <1>1 DEF Messages, Documents
  <2>5. ConnectionTypes'  BY <1>1, <1>2, <2>1, <2>4 DEF ConnectionTypes
  <2>6. Outstanding'  BY <1>1, <1>2, <2>1 DEF Outstanding, NoneOf
  <2>7. Phases => Phases'
    <3>1. (Parsing => Parsing') /\ (Parsed => Parsed') /\ (Requested => Requested')
      BY <1>1, <2>2 DEF Parsing, Parsed, Requested
    <3>2. \A kind : /\ NoneOf(Untaken, kind) => NoneOf(Untaken, kind)'
                    /\ AtMostOne(Untaken, kind) => AtMostOne(Untaken, kind)'
      BY <2>2 DEF NoneOf, AtMostOne
    <3>3. (Committed => Committed') /\ (Navigating => Navigating')
      BY <3>1, <3>2 DEF Committed, Navigating
    <3>. QED  BY <1>1, <2>1, <2>2, <3>3 DEF Phases, Waits, Commands
  <2>8. Visits'  BY <1>1, <1>2, <2>1, <2>7 DEF Visits, Active
  <2>9. IsWhole(taken, Untaken, reported)'  BY <1>1, <2>1, <2>2 DEF ConnectionInv
  <2>. QED  BY <2>3, <2>5, <2>6, <2>8, <2>9 DEF ConnectionInv
<1>4. CASE matching # {}
  <2>1. PICK i : /\ i = CHOOSE x \in matching : \A j \in matching : x <= j
                 /\ events' = RemoveAt(events, i) /\ taken' = Append(taken, events[i]) /\ Advance
    BY <1>4 DEF BeginWait
  <2>2. i \in matching
    <3>1. events \in Seq(Messages) /\ matching \subseteq Nat
      BY <1>2 DEF ConnectionTypes
    <3>. HIDE DEF matching
    <3>2. \E x \in matching : \A j \in matching : x <= j
      BY <1>4, <3>1, LeastNat
    <3>. QED  BY <2>1, <3>2
  <2>3. /\ i \in 1..Len(events) /\ events[i].kind = Operation /\ events \in Seq(Messages)
        /\ channel \in Seq(Messages)
    BY <1>2, <2>2 DEF ConnectionTypes
  <2>4. events' \in Seq(Messages) /\ IsWithout(events', events, i)
    BY <2>1, <2>3, RemoveAtIsWithout
  <2>5. IsWithout(Untaken', Untaken, i) /\ Untaken[i] = events[i]
    <3>1. PICK e : e = events'  OBVIOUS
    <3>2. IsWithout(e \o channel, events \o channel, i) /\ (events \o channel)[i] = events[i]
      BY <2>3, <2>4, <3>1, WithoutConcat
    <3>. QED  BY <1>1, <3>1, <3>2 DEF Untaken
  <2>6. NoneOf(events, "answer")'
    <3>1. PICK e : e = events'  OBVIOUS
    <3>2. NoneOf(e, "answer")
      BY <1>2, <2>3, <2>4, <3>1, KindsWithout DEF Outstanding
    <3>. QED  BY <3>1, <3>2
  <2>7. NoneOf(channel, "answer")'  BY <1>1, <1>2 DEF Outstanding, NoneOf
  <2>8. \A k \in 1..Len(channel') : channel'[k].kind # "answer" => channel'[k].id = 0
    BY <1>1, <1>2 DEF Outstanding
  <2>. QED
    BY <1>1, <2>1, <2>3, <2>4, <2>5, <2>6, <2>7, <2>8, ConnectionTakesEvent
<1>. QED  BY <1>3, <1>4

(* A deadline passes: the test ends where it is.                           *)
LEMMA ConnectionTimesOut ==
  ASSUME ConnectionInv, TimeOut
  PROVE  ConnectionInv'
<1>1. /\ doing' = "timed_out" /\ doing \in Active
      /\ UNCHANGED <<created, step, command, events, asked, taken, astray, inbox, channel, owed,
                     enabled, page, reported>>
  BY DEF TimeOut, browser, Active
<1>2. Progress /\ ConnectionTypes /\ Outstanding /\ Visits  BY DEF ConnectionInv
<1>3. Progress'  BY <1>1, <1>2 DEF Progress, Active, Over
<1>4. Messages' = Messages /\ Documents' = Documents /\ Untaken' = Untaken
  BY <1>1 DEF Messages, Documents, Untaken
<1>5. ConnectionTypes'  BY <1>1, <1>2, <1>4 DEF ConnectionTypes
<1>6. Outstanding'  BY <1>1, <1>2 DEF Outstanding, NoneOf
<1>7. Visits'  BY <1>1, <1>2 DEF Visits, Active
<1>8. IsWhole(taken, Untaken, reported)'  BY <1>1, <1>4 DEF ConnectionInv
<1>. QED  BY <1>3, <1>5, <1>6, <1>7, <1>8 DEF ConnectionInv

(* Nothing changes.                                                        *)
LEMMA ConnectionKeeps ==
  ASSUME ConnectionInv, UNCHANGED connectionVars
  PROVE  ConnectionInv'
<1>1. UNCHANGED <<created, step, doing, command, events, asked, taken, astray, inbox, channel,
                  owed, enabled, page, reported>>
  BY DEF connectionVars, client, browser
<1>2. /\ Messages' = Messages /\ Documents' = Documents /\ Untaken' = Untaken
      /\ Operation' = Operation
  BY <1>1 DEF Messages, Documents, Untaken, Operation
<1>3. Progress'  BY <1>1, <1>2 DEF ConnectionInv, Progress
<1>4. ConnectionTypes'  BY <1>1, <1>2 DEF ConnectionInv, ConnectionTypes
<1>5. Outstanding'
  BY <1>1, <1>2 DEF ConnectionInv, Outstanding, NoneOf, AtMostOne, Unhandled, Handled, Answered
<1>6. Phases => Phases'  BY <1>1, <1>2, PhasesKept DEF Phases
<1>7. Visits'  BY <1>1, <1>6 DEF ConnectionInv, Visits
<1>8. IsWhole(taken, Untaken, reported)'  BY <1>1, <1>2 DEF ConnectionInv
<1>. QED  BY <1>3, <1>4, <1>5, <1>7, <1>8 DEF ConnectionInv

(* A test begins.                                                          *)
LEMMA ConnectionBegins ==
  ASSUME ConnectionInit
  PROVE  ConnectionInv
<1>1. /\ step = 0 /\ doing = "next" /\ command = 0 /\ events = <<>> /\ taken = <<>>
      /\ created \in {0, 1} /\ asked = created /\ astray = FALSE /\ inbox = <<>>
      /\ channel = <<>> /\ owed = 0 /\ enabled = FALSE /\ reported = 0
      /\ page = [doc |-> 0, state |-> "ready", loading |-> created]
  BY DEF ConnectionInit
<1>2. Len(Script) \in Nat /\ Len(Script) >= 1  BY ConnectionAssumption
<1>3. Progress  BY <1>1, <1>2 DEF Progress, Active
<1>4. Untaken = <<>>  BY <1>1 DEF Untaken
<1>5. ConnectionTypes
  <2>1. asked \in created..created + command /\ 0 \in Documents /\ created \in Documents
    BY <1>1 DEF Documents
  <2>2. page \in [doc : Documents, state : {"parsing", "ready"}, loading : Documents]
    BY <1>1, <2>1
  <2>3. /\ events \in Seq(Messages) /\ taken \in Seq(Messages) /\ channel \in Seq(Messages)
        /\ inbox \in Seq([id : 1..Len(Script), method : Commands])
    BY <1>1
  <2>4. owed \in 0..Len(Script) /\ reported \in Nat  BY <1>1, <1>2
  <2>5. enabled \in BOOLEAN /\ astray \in BOOLEAN  BY <1>1
  <2>. QED  BY <2>1, <2>2, <2>3, <2>4, <2>5 DEF ConnectionTypes
<1>6. Outstanding  BY <1>1 DEF Outstanding, NoneOf
<1>7. ASSUME created = 0
      PROVE  Phases
  <2>1. Operation \in Commands
    <3>1. Operation = Script[1]  BY <1>1 DEF Operation
    <3>2. Operation \in Commands \cup Waits  BY <1>1, <1>3, OperationIs DEF Active
    <3>. QED  BY <3>1, <3>2, VisitAssumption
  <2>2. Settled(asked)  BY <1>1, <1>4, <1>7 DEF Settled, NoneOf
  <2>. QED  BY <1>1, <2>1, <2>2 DEF Phases, Commands
<1>8. Visits  BY <1>1, <1>7 DEF Visits
<1>9. IsWhole(taken, Untaken, reported)
  <2>1. Len(taken) = 0 /\ Len(Untaken) = 0  BY <1>1, <1>4
  <2>2. 1..Len(taken) = {} /\ 1..Len(Untaken) = {} /\ 1..reported = {}  BY <1>1, <2>1
  <2>. QED  BY <2>2 DEF IsWhole
<1>. QED  BY <1>3, <1>5, <1>6, <1>8, <1>9 DEF ConnectionInv

(* Every step of the client, of the browser and of the page keeps the      *)
(* invariant.                                                              *)
LEMMA ConnectionStep ==
  ASSUME ConnectionInv, [ConnectionNext]_connectionVars
  PROVE  ConnectionInv'
<1>1. CASE ReceiveAnswer
  BY <1>1, ConnectionReceiveAnswer, ConnectionReceiveOther
<1>. QED
  BY <1>1, ConnectionHandleEnable, ConnectionHandleEvaluate, ConnectionAnswerNavigate,
     ConnectionHandleNavigate, ConnectionCommitLoad, ConnectionFireDomContent,
     ConnectionReportOther, ConnectionSendCommand, ConnectionBeginWait, ConnectionReceiveEvent,
     ConnectionTimesOut, ConnectionKeeps
     DEF ConnectionNext, Load, Handle, Client

(* CONNECTION.  The command that has no answer is in one place, what has   *)
(* been reported is taken or waiting in the order of its reporting, and    *)
(* after a navigation the page is as far as the client has seen it to be.  *)
THEOREM ConnectionIsSound == ConnectionSpec => []ConnectionInv
<1>1. ConnectionInit => ConnectionInv  BY ConnectionBegins
<1>2. ConnectionInv /\ [ConnectionNext]_connectionVars => ConnectionInv'  BY ConnectionStep
<1>. QED  BY <1>1, <1>2, PTL DEF ConnectionSpec

(* The state of the connection is well typed in every reachable state.     *)
THEOREM ConnectionTypeCorrect == ConnectionSpec => []ConnectionTypeOK
<1>1. ConnectionInv => ConnectionTypeOK
  BY DEF ConnectionInv, Progress, Active, ConnectionTypes, ConnectionTypeOK
<1>. QED  BY <1>1, ConnectionIsSound, PTL

(* THE PAGE.  A test that waits for the frame and for the DOM after it has *)
(* navigated evaluates its script in the document it asked for, for every  *)
(* script that does so, with events of other kinds in between.             *)
THEOREM TestsReachTheirPage == ConnectionSpec => []EvaluatesRequestedPage
<1>1. ConnectionInv => EvaluatesRequestedPage
  BY DEF ConnectionInv, Visits, EvaluatesRequestedPage
<1>. QED  BY <1>1, ConnectionIsSound, PTL

(* THE EVENTS.  An event that is reported while a command is out is        *)
(* neither lost nor returned twice: each is taken, kept or on its way,     *)
(* once.                                                                   *)
THEOREM EventsAreKept == ConnectionSpec => []EventsAreTakenOnce
<1>1. ConnectionInv => EventsAreTakenOnce
  BY WholeIsOnce DEF ConnectionInv, Outstanding
<1>. QED  BY <1>1, ConnectionIsSound, PTL
=============================================================================
