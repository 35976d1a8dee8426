---------------------------- MODULE MacBuild_proofs ----------------------------
(***************************************************************************)
(* Proofs about MacBuild for every number of overlay patches and every set *)
(* of settings, with and without crashes, failures and shrinking series.   *)
(*                                                                         *)
(* The reports do not always match out/ once something has gone wrong, but *)
(* they never claim a build that did not happen: the identity in the local *)
(* variables of build enters the history before it enters the report, and  *)
(* the candidate takes its identity from the report alone.                 *)
(***************************************************************************)
EXTENDS MacBuild, TLAPS

(* What a command may rely on once its first checks have passed. *)
Ready ==
  /\ pc = "generate" => job.args \in Settings
  /\ pc = "compile" => source # 0 /\ graph \in Settings

Reports ==
  /\ pc = "record" => job \in completed
  /\ built # None => built \in completed
  /\ CandidateWasCompleted

(* What a reset has removed so far. *)
Removed ==
  /\ pc \in {"rm_out", "rm_stage", "rm_metadata"} => source = 0
  /\ pc \in {"rm_stage", "rm_metadata"} => app = None /\ graph = None
  /\ pc = "rm_metadata" => candidate = None

(* As long as patches are only appended, whatever is in place was made     *)
(* from a series no longer than the configured one and than the tree's;    *)
(* and the application from one no shorter than the last build reports.    *)
OverlayGrows ==
  "shrink" \notin mishaps =>
    /\ source <= overlay
    /\ source # 0 => source = prepared
    /\ configured # None =>
         configured.overlay <= overlay /\ (source # 0 => configured.overlay <= source)
    /\ built # None =>
         built.overlay <= overlay /\ (source # 0 => built.overlay <= source)
    /\ pc \in {"generate", "report", "compile", "record"} => source = job.overlay
    /\ pc = "record" => app.overlay = job.overlay
    /\ app \notin {None, Mixed} =>
         app.overlay <= overlay /\ (built # None => built.overlay <= app.overlay)

(* Until a command is stopped or fails, out/'s graph is that of the last   *)
(* configure; and its application, if the series has not shrunk either,    *)
(* that of the last build.                                                 *)
GraphIsReported ==
  "crash" \notin mishaps /\ "fail" \notin mishaps =>
    /\ pc \in Resting \cup {"compile", "record"} /\ configured # None => graph = configured.args
    /\ pc \in {"report", "compile", "record", "configured"} => graph = job.args

AppIsReported ==
  mishaps = {} =>
    /\ pc \in Resting \cup {"generate", "report"} /\ built # None => app = AppOf(built)
    /\ pc \in {"record", "built"} => app = AppOf(job)
    /\ candidate # None => candidate.app = AppOf(candidate.identity)

-----------------------------------------------------------------------------

(* Every phase writes values of the right type and leaves the next step    *)
(* what it needs.                                                          *)
LEMMA TypeStep ==
  ASSUME TypeOK, Ready, [Next]_vars
  PROVE  TypeOK' /\ Ready'
<1> USE DEF Resting, Busy, At, Rest, Goto, Fails
<1> USE BuildAssumption DEF BuildAssumption
<1>1. CASE Prepare
  BY <1>1 DEF TypeOK, Ready, Prepare, Lengths, inputs, meta, out
<1>2. CASE Configure
  BY <1>2 DEF TypeOK, Ready, Configure, Identities, inputs, tree, out
<1>3. CASE Generate
  BY <1>3 DEF TypeOK, Ready, Generate, inputs, tree, meta
<1>4. CASE ReportConfigured
  BY <1>4 DEF TypeOK, Ready, ReportConfigured, inputs, tree, out
<1>5. CASE Build
  <2>1. configured \in Identities
    BY <1>5 DEF Build, IsCurrent, TypeOK, Identities
  <2>2. QED BY <1>5, <2>1 DEF TypeOK, Ready, Build, IsCurrent, inputs, tree, meta
<1>6. CASE Compile
  BY <1>6 DEF TypeOK, Ready, Compile, Apps, Lengths, inputs, tree, meta
<1>7. CASE RecordBuilt
  BY <1>7 DEF TypeOK, Ready, RecordBuilt, inputs, tree, out
<1>8. CASE Stage
  <2>1. built \in Identities
    BY <1>8 DEF Stage, IsCurrent, TypeOK, Identities
  <2>2. QED BY <1>8, <2>1 DEF TypeOK, Ready, Stage, Candidates, inputs, tree, meta, out
<1>9. CASE Reset
  <2>1. CASE ResetSource
    BY <2>1 DEF TypeOK, Ready, ResetSource, inputs, meta, out
  <2>2. CASE ResetOut
    BY <2>2 DEF TypeOK, Ready, ResetOut, inputs, tree, meta
  <2>3. CASE ResetStage
    BY <2>3 DEF TypeOK, Ready, ResetStage, inputs, tree, meta, out
  <2>4. CASE ResetMetadata
    BY <2>4 DEF TypeOK, Ready, ResetMetadata, inputs, meta, out
  <2>5. QED BY <1>9, <2>1, <2>2, <2>3, <2>4 DEF Reset
<1>10. CASE Crash
  BY <1>10 DEF TypeOK, Ready, Crash, inputs, tree, meta, out
<1>11. CASE Switch
  BY <1>11 DEF TypeOK, Ready, Switch, tree, meta, out
<1>12. CASE ExtendOverlay \/ ShrinkOverlay
  BY <1>12 DEF TypeOK, Ready, ExtendOverlay, ShrinkOverlay, tree, meta, out
<1>13. CASE UNCHANGED vars
  BY <1>13 DEF TypeOK, Ready, vars, inputs, tree, meta, out
<1>14. QED BY <1>1, <1>2, <1>3, <1>4, <1>5, <1>6, <1>7, <1>8, <1>9, <1>10, <1>11, <1>12,
              <1>13 DEF Next, Phase

(* Type correctness, whatever is interrupted, fails or is taken back.      *)
THEOREM TypeCorrect == Spec => []TypeOK
<1>1. Init => TypeOK /\ Ready
  BY BuildAssumption DEF Init, TypeOK, Ready, BuildAssumption, Resting, Busy, Lengths, Identities
<1>2. TypeOK /\ Ready /\ [Next]_vars => TypeOK' /\ Ready'
  BY TypeStep
<1>3. QED BY <1>1, <1>2, PTL DEF Spec

(* A report or a candidate gets an identity only after its compilation     *)
(* has finished, and completed compilations are never forgotten.           *)
LEMMA ReportsStep ==
  ASSUME Reports, [Next]_vars
  PROVE  Reports'
<1> USE DEF Resting, Busy, At, Rest, Goto, Fails
<1>1. completed \subseteq completed'
  BY DEF Next, Phase, Reset, vars, Prepare, Configure, Generate, ReportConfigured, Build, Compile,
         RecordBuilt, Stage, ResetSource, ResetOut, ResetStage, ResetMetadata, Crash, Switch,
         ExtendOverlay, ShrinkOverlay
<1>2. CASE Compile
  BY <1>1, <1>2 DEF Compile, Reports, CandidateWasCompleted, meta
<1>3. CASE RecordBuilt
  BY <1>3 DEF RecordBuilt, Reports, CandidateWasCompleted
<1>4. CASE Stage
  BY <1>1, <1>4 DEF Stage, IsCurrent, Reports, CandidateWasCompleted, meta
<1>5. CASE Reset
  BY <1>1, <1>5 DEF Reset, ResetSource, ResetOut, ResetStage, ResetMetadata, Reports,
                    CandidateWasCompleted, meta
<1>6. CASE Prepare \/ Configure \/ Generate \/ ReportConfigured \/ Build
  BY <1>1, <1>6 DEF Prepare, Configure, Generate, ReportConfigured, Build, Reports,
                    CandidateWasCompleted, meta
<1>7. CASE Crash \/ Switch \/ ExtendOverlay \/ ShrinkOverlay \/ UNCHANGED vars
  BY <1>1, <1>7 DEF Crash, Switch, ExtendOverlay, ShrinkOverlay, vars, Reports, CandidateWasCompleted, meta
<1>8. QED BY <1>2, <1>3, <1>4, <1>5, <1>6, <1>7 DEF Next, Phase

(* No candidate carries an identity for which no compilation ever ran to   *)
(* its end.                                                                *)
THEOREM CandidatesWereCompleted == Spec => []CandidateWasCompleted
<1>1. Init => Reports
  BY DEF Init, Reports, CandidateWasCompleted
<1>2. Reports /\ [Next]_vars => Reports'
  BY ReportsStep
<1>3. Reports => CandidateWasCompleted
  BY DEF Reports
<1>4. QED BY <1>1, <1>2, <1>3, PTL DEF Spec
-----------------------------------------------------------------------------

(* A reset takes things away in one order and nothing comes back meanwhile. *)
LEMMA RemovedStep ==
  ASSUME Removed, [Next]_vars
  PROVE  Removed'
<1> USE DEF Removed, Resting, Busy, At, Rest, Goto, Fails
<1>1. CASE Phase
  BY <1>1 DEF Phase, Prepare, Configure, Generate, ReportConfigured, Build, Compile, RecordBuilt, Stage
<1>2. CASE Reset
  BY <1>2 DEF Reset, ResetSource, ResetOut, ResetStage, ResetMetadata, tree, out
<1>3. CASE Crash \/ Switch \/ ExtendOverlay \/ ShrinkOverlay \/ UNCHANGED vars
  BY <1>3 DEF Crash, Switch, ExtendOverlay, ShrinkOverlay, vars, tree, out
<1>4. QED BY <1>1, <1>2, <1>3 DEF Next

(* An identity that is current names the patches the tree carries.         *)
LEMMA CurrentIsWhole ==
  ASSUME TypeOK, OverlayGrows, "shrink" \notin mishaps
  PROVE  /\ IsCurrent(configured) => configured.overlay = source /\ source = overlay
         /\ IsCurrent(built) => built.overlay = source /\ source = overlay
<1>1. source \in Nat /\ overlay \in Nat
  BY BuildAssumption DEF TypeOK, Lengths, BuildAssumption
<1>2. \A identity : IsCurrent(identity) =>
                      identity.overlay = overlay /\ identity # None /\ source # 0
  BY DEF IsCurrent
<1>3. QED BY <1>1, <1>2 DEF OverlayGrows

(* Lengths of series are compared as numbers. *)
LEMMA NumbersAreCompared ==
  ASSUME TypeOK
  PROVE  /\ source \in Nat /\ overlay \in Nat \ {0} /\ prepared \in Nat
         /\ configured # None => configured.overlay \in Nat \ {0}
         /\ built # None => built.overlay \in Nat \ {0}
         /\ job.overlay \in Nat \ {0}
         /\ app \notin {None, Mixed} => app.overlay \in Nat \ {0}
BY BuildAssumption DEF TypeOK, Lengths, Identities, Apps, BuildAssumption

(* The series, the tree, the reports and the application keep their order. *)
LEMMA GrowsStep ==
  ASSUME TypeOK, Ready, Removed, OverlayGrows, [Next]_vars
  PROVE  OverlayGrows'
<1> USE DEF Resting, Busy, At, Rest, Goto, Fails
<1>n. /\ source \in Nat /\ overlay \in Nat \ {0} /\ prepared \in Nat
      /\ configured # None => configured.overlay \in Nat \ {0}
      /\ built # None => built.overlay \in Nat \ {0}
      /\ job.overlay \in Nat \ {0}
      /\ app \notin {None, Mixed} => app.overlay \in Nat \ {0}
  BY NumbersAreCompared
<1>m. "shrink" \in mishaps => "shrink" \in mishaps' \/ ResetMetadata
  BY DEF Next, Phase, Reset, vars, Prepare, Configure, Generate, ReportConfigured, Build, Compile,
         RecordBuilt, Stage, ResetSource, ResetOut, ResetStage, Crash, Switch,
         ExtendOverlay, ShrinkOverlay
<1>1. CASE Prepare
  BY <1>1, <1>n, <1>m DEF OverlayGrows, Prepare, inputs, meta, out
<1>2. CASE Configure
  BY <1>2, <1>n, <1>m DEF OverlayGrows, Configure, inputs, tree, out
<1>3. CASE Generate \/ ReportConfigured
  BY <1>3, <1>n, <1>m DEF OverlayGrows, Generate, ReportConfigured, inputs, tree, meta, out
<1>4. CASE Build
  <2>1. "shrink" \notin mishaps => configured.overlay = source
    BY <1>4, CurrentIsWhole DEF Build
  <2>2. QED BY <1>4, <1>n, <1>m, <2>1 DEF OverlayGrows, Build, inputs, tree, meta
<1>5. CASE Compile
  BY <1>5, <1>n, <1>m DEF Ready, OverlayGrows, Compile, inputs, tree, meta
<1>6. CASE RecordBuilt
  BY <1>6, <1>n, <1>m DEF OverlayGrows, RecordBuilt, inputs, tree, out
<1>7. CASE Stage
  BY <1>7, <1>n, <1>m DEF OverlayGrows, Stage, inputs, tree, meta, out
<1>8. CASE ResetSource \/ ResetOut \/ ResetStage
  BY <1>8, <1>n, <1>m DEF OverlayGrows, ResetSource, ResetOut, ResetStage, inputs, tree, meta, out
<1>9. CASE ResetMetadata
  BY <1>9, <1>n DEF OverlayGrows, Removed, ResetMetadata, inputs, meta, out
<1>10. CASE Crash \/ Switch \/ ExtendOverlay \/ UNCHANGED vars
  <2>1. CASE Crash \/ Switch \/ UNCHANGED vars
    BY <1>m, <2>1 DEF OverlayGrows, Crash, Switch, vars, inputs, tree, meta, out
  <2>2. CASE ExtendOverlay
    <3>1. overlay' \in Nat /\ overlay' > overlay
      BY <2>2, BuildAssumption DEF ExtendOverlay, Lengths, BuildAssumption
    <3>2. UNCHANGED <<tree, meta, out, pc, job, mishaps>> /\ pc \in Resting
      BY <2>2 DEF ExtendOverlay
    <3>3. QED BY <1>n, <3>1, <3>2 DEF OverlayGrows, tree, meta, out
  <2>3. QED BY <1>10, <2>1, <2>2
<1>11. CASE ShrinkOverlay
  BY <1>11 DEF OverlayGrows, ShrinkOverlay
<1>12. QED BY <1>1, <1>2, <1>3, <1>4, <1>5, <1>6, <1>7, <1>8, <1>9, <1>10, <1>11
           DEF Next, Phase, Reset

(* While patches are only appended, no candidate has another overlay than  *)
(* its identity says, whatever else goes wrong.                            *)
LEMMA OverlayStep ==
  ASSUME TypeOK, Removed, OverlayGrows, CandidateHasOverlay, [Next]_vars
  PROVE  CandidateHasOverlay'
<1> USE DEF Resting, Busy, At, Rest, Goto, Fails, CandidateHasOverlay
<1>1. CASE Stage
  <2>1. ASSUME "shrink" \notin mishaps, app # None, app # Mixed
        PROVE  app.overlay = built.overlay
    <3>1. IsCurrent(built) /\ built # None
      BY <1>1 DEF Stage, IsCurrent
    <3>2. built.overlay = overlay
      BY <2>1, <3>1, CurrentIsWhole
    <3>3. app.overlay <= overlay /\ built.overlay <= app.overlay
      BY <2>1, <3>1 DEF OverlayGrows
    <3>4. QED BY <2>1, <3>1, <3>2, <3>3, NumbersAreCompared
  <2>2. CASE candidate' = [app |-> app, identity |-> built] /\ app # None /\ mishaps' = mishaps
    BY <2>1, <2>2
  <2>3. CASE candidate' = candidate
    BY <1>1, <2>3 DEF Stage
  <2>4. QED BY <1>1, <2>2, <2>3 DEF Stage
<1>2. CASE Prepare \/ Configure \/ Generate \/ ReportConfigured \/ Build \/ Compile \/ RecordBuilt
  BY <1>2 DEF Prepare, Configure, Generate, ReportConfigured, Build, Compile, RecordBuilt
<1>3. CASE Reset
  BY <1>3 DEF Reset, ResetSource, ResetOut, ResetStage, ResetMetadata, Removed
<1>4. CASE Crash \/ Switch \/ ExtendOverlay \/ ShrinkOverlay \/ UNCHANGED vars
  BY <1>4 DEF Crash, Switch, ExtendOverlay, ShrinkOverlay, vars
<1>5. QED BY <1>1, <1>2, <1>3, <1>4 DEF Next, Phase

(* As long as the series is only appended to, a candidate has the overlay  *)
(* its identity names, however many commands were stopped or failed.       *)
THEOREM CandidatesHaveOverlay == Spec => []CandidateHasOverlay
<1>1. Init => Ready /\ Removed /\ OverlayGrows /\ CandidateHasOverlay
  <2>1. Init => overlay \in Nat
    BY BuildAssumption DEF Init, Lengths, BuildAssumption
  <2>2. QED BY <2>1 DEF Init, Ready, Removed, OverlayGrows, CandidateHasOverlay
<1>2. TypeOK /\ Ready /\ [Next]_vars => Ready'
  BY TypeStep
<1>3. Removed /\ [Next]_vars => Removed'
  BY RemovedStep
<1>4. TypeOK /\ Ready /\ Removed /\ OverlayGrows /\ [Next]_vars => OverlayGrows'
  BY GrowsStep
<1>5. TypeOK /\ Removed /\ OverlayGrows /\ CandidateHasOverlay /\ [Next]_vars => CandidateHasOverlay'
  BY OverlayStep
<1>6. QED BY <1>1, <1>2, <1>3, <1>4, <1>5, TypeCorrect, PTL DEF Spec
-----------------------------------------------------------------------------

(* out/'s graph and application change only together with what the next    *)
(* report will say of them, unless a command is stopped or fails.          *)
LEMMA GraphStep ==
  ASSUME TypeOK, GraphIsReported, [Next]_vars
  PROVE  GraphIsReported'
<1> USE DEF GraphIsReported, Resting, Busy, At, Rest, Goto, Fails
<1>1. CASE Configure
  BY <1>1, NoneAssumption DEF Configure, Identities, TypeOK, out
<1>2. CASE Prepare \/ Generate \/ ReportConfigured
  BY <1>2 DEF Prepare, Generate, ReportConfigured, meta, out
<1>3. CASE Build
  BY <1>3 DEF Build, IsCurrent, meta
<1>4. CASE Compile \/ RecordBuilt \/ Stage
  BY <1>4 DEF Compile, RecordBuilt, Stage, meta, out
<1>5. CASE Reset
  BY <1>5 DEF Reset, ResetSource, ResetOut, ResetStage, ResetMetadata, meta, out
<1>6. CASE Crash \/ Switch \/ ExtendOverlay \/ ShrinkOverlay \/ UNCHANGED vars
  BY <1>6 DEF Crash, Switch, ExtendOverlay, ShrinkOverlay, vars, meta, out
<1>7. QED BY <1>1, <1>2, <1>3, <1>4, <1>5, <1>6 DEF Next, Phase

LEMMA AppStep ==
  ASSUME TypeOK, Removed, OverlayGrows, GraphIsReported, AppIsReported, [Next]_vars
  PROVE  AppIsReported'
<1> USE DEF AppIsReported, Resting, Busy, At, Rest, Goto, Fails
<1>1. CASE Prepare \/ Configure \/ Generate \/ ReportConfigured
  BY <1>1 DEF Prepare, Configure, Generate, ReportConfigured, meta, out
<1>2. CASE Build
  BY <1>2 DEF Build, meta
<1>3. CASE Compile
  <2>1. mishaps = {} => graph = job.args /\ source = job.overlay
    BY <1>3 DEF GraphIsReported, OverlayGrows, Compile
  <2>2. QED BY <1>3, <2>1 DEF Compile, AppOf, meta
<1>4. CASE RecordBuilt \/ Stage
  BY <1>4 DEF RecordBuilt, Stage, IsCurrent, meta, out
<1>5. CASE Reset
  BY <1>5 DEF Removed, Reset, ResetSource, ResetOut, ResetStage, ResetMetadata, meta, out
<1>6. CASE Crash \/ Switch \/ ExtendOverlay \/ ShrinkOverlay \/ UNCHANGED vars
  BY <1>6 DEF Crash, Switch, ExtendOverlay, ShrinkOverlay, vars, meta, out
<1>7. QED BY <1>1, <1>2, <1>3, <1>4, <1>5, <1>6 DEF Next, Phase

(* Until something goes wrong, and again from a complete reset on, every   *)
(* phase holds what its report names.                                      *)
THEOREM PhasesHoldWhatTheyName == Spec => []PhasesAreExact
<1>1. Init => Ready /\ Removed /\ OverlayGrows /\ GraphIsReported /\ AppIsReported
  <2>1. Init => overlay \in Nat
    BY BuildAssumption DEF Init, Lengths, BuildAssumption
  <2>2. QED BY <2>1 DEF Init, Ready, Removed, OverlayGrows, GraphIsReported, AppIsReported
<1>2. TypeOK /\ Ready /\ [Next]_vars => Ready'
  BY TypeStep
<1>3. Removed /\ [Next]_vars => Removed'
  BY RemovedStep
<1>4. TypeOK /\ Ready /\ Removed /\ OverlayGrows /\ [Next]_vars => OverlayGrows'
  BY GrowsStep
<1>5. TypeOK /\ GraphIsReported /\ [Next]_vars => GraphIsReported'
  BY GraphStep
<1>6. TypeOK /\ Removed /\ OverlayGrows /\ GraphIsReported /\ AppIsReported /\ [Next]_vars
        => AppIsReported'
  BY AppStep
<1>7. GraphIsReported /\ AppIsReported => PhasesAreExact
  BY DEF GraphIsReported, AppIsReported, PhasesAreExact
<1>8. QED BY <1>1, <1>2, <1>3, <1>4, <1>5, <1>6, <1>7, TypeCorrect, PTL DEF Spec
=============================================================================
