------------------------------- MODULE MacBuild -------------------------------
(***************************************************************************)
(* From a prepared source to a staged candidate: `configure`, `build`,     *)
(* `stage-runtime` and `reset` of scripts/macos_backend.py.                *)
(*                                                                         *)
(* Every phase writes a report with the build identity it worked under,    *)
(* and every later phase compares that identity with the one the inputs    *)
(* have now.  The report files and the directories they describe, out/     *)
(* above all, are changed one after the other, and out/ is changed in      *)
(* place by GN and by ninja.  What can go wrong is a report that matches   *)
(* the current inputs while out/ holds something else.                     *)
(*                                                                         *)
(* Abstractions.  The overlay is the number of patches of the series that  *)
(* are configured, and a patch is never changed: MacSource is about that.  *)
(* The settings are everything else an identity digests: Xcode, SDK,       *)
(* clang, the GN profile and the compiler cache, which the operator        *)
(* changes by installing software and by the environment.  `prepare` is    *)
(* one step that does what it promises.                                    *)
(***************************************************************************)
EXTENDS Naturals

CONSTANTS
  MaxOverlay,  \* the longest overlay series
  Settings,    \* settings a build may be made under
  None,        \* no file
  Mixed,       \* an application left half rebuilt
  MayHappen    \* the mishaps considered: "crash" of a command between two
               \* steps, "fail" of GN, ninja or the audits, "shrink" of the
               \* series when the operator takes patches back

ASSUME BuildAssumption ==
  /\ MaxOverlay \in Nat \ {0}
  /\ None \notin Settings
  /\ MayHappen \subseteq {"crash", "fail", "shrink"}

VARIABLES
  overlay,     \* length of the configured overlay series
  setting,     \* the settings in force
  source,      \* the overlay the source tree carries, 0 without a tree
  prepared,    \* the overlay prepare-macos.json names, 0 without a marker
  args,        \* the settings metadata/macos-release.args.gn was written for
  configured,  \* the identity in configure-macos.json
  graph,       \* the settings out/'s GN graph was generated for
  app,         \* what out/'s Chromium.app was built from
  built,       \* the identity in build-macos.json
  candidate,   \* candidate.json and the application it names
  completed,   \* history: the identities ninja finished a build for
  pc,          \* the command in progress and where it is
  job,         \* the identity the command works under
  mishaps      \* history: what has gone wrong since the last complete reset

inputs == <<overlay, setting>>
tree   == <<source, prepared>>
meta   == <<args, configured, built>>
out    == <<graph, app>>
vars   == <<inputs, tree, meta, out, candidate, completed, pc, job, mishaps>>

Lengths    == 1..MaxOverlay
Apps       == [overlay : Lengths, setting : Settings]
Identities == [overlay : Lengths, setting : Settings, args : Settings \cup {None}]
Candidates == [app : Apps \cup {Mixed}, identity : Identities]
Resting    == {"idle", "configured", "built", "staged", "failed"}
Busy       == {"generate", "report", "compile", "record",
               "rm_out", "rm_stage", "rm_metadata"}

ASSUME NoneAssumption == None \notin Identities

(* require_build_identity against current_build_components.  Clang is a    *)
(* file of the source tree: without a tree no recorded identity matches.   *)
IsCurrent(identity) ==
  /\ source # 0 /\ identity # None
  /\ identity = [overlay |-> overlay, setting |-> setting, args |-> args]

(* The application an identity stands for. *)
AppOf(identity) == [overlay |-> identity.overlay, setting |-> identity.args]

At(l)   == pc = l
Rest    == pc \in Resting
Goto(l) == pc' = l
Fails   == "fail" \in MayHappen /\ Goto("failed") /\ mishaps' = mishaps \cup {"fail"}
-----------------------------------------------------------------------------
(* prepare: patches are only ever added to a tree. *)
Prepare ==
  /\ Rest /\ source <= overlay /\ prepared <= overlay
  /\ source' = overlay /\ prepared' = overlay
  /\ Goto("idle")
  /\ UNCHANGED <<inputs, meta, out, candidate, completed, job, mishaps>>

(* The arguments are written first; a complete report of the same identity *)
(* then ends the command, whatever out/ holds.                             *)
Configure ==
  /\ Rest /\ source # 0 /\ prepared = overlay
  /\ args' = setting
  /\ job' = [overlay |-> overlay, setting |-> setting, args |-> setting]
  /\ Goto(IF configured = job' THEN "configured" ELSE "generate")
  /\ UNCHANGED <<inputs, tree, configured, built, out, candidate, completed, mishaps>>

(* out/'s arguments are replaced, then GN writes the graph; the report     *)
(* comes after GN has succeeded.                                           *)
Generate ==
  /\ At("generate")
  /\ graph' = job.args
  /\ \/ Goto("report") /\ UNCHANGED mishaps
     \/ Fails
  /\ UNCHANGED <<inputs, tree, meta, app, candidate, completed, job>>

ReportConfigured ==
  /\ At("report")
  /\ configured' = job
  /\ Goto("configured")
  /\ UNCHANGED <<inputs, tree, args, built, out, candidate, completed, job, mishaps>>

UpToDate == app = [overlay |-> source, setting |-> graph]

(* Mutant: the identity of the configuration is not compared. *)
BuildStale ==
  /\ Rest /\ configured # None /\ source # 0
  /\ job' = configured
  /\ app' = IF graph = None \/ UpToDate THEN app ELSE Mixed
  /\ Goto(IF graph = None THEN "failed" ELSE "compile")
  /\ UNCHANGED <<inputs, tree, meta, graph, candidate, completed, mishaps>>

(* Ninja needs a graph; from its first output on, the application is       *)
(* neither the old one nor the new one.                                    *)
Build ==
  /\ Rest /\ IsCurrent(configured)
  /\ job' = configured
  /\ app' = IF graph = None \/ UpToDate THEN app ELSE Mixed
  /\ Goto(IF graph = None THEN "failed" ELSE "compile")
  /\ UNCHANGED <<inputs, tree, meta, graph, candidate, completed, mishaps>>

(* Mutant: a failed compilation is recorded like a finished one. *)
CompileUnchecked ==
  /\ At("compile")
  /\ \/ /\ app' = [overlay |-> source, setting |-> graph]
        /\ completed' = completed \cup {job}
     \/ /\ "fail" \in MayHappen
        /\ UNCHANGED <<app, completed>>
  /\ Goto("record")
  /\ UNCHANGED <<inputs, tree, meta, graph, candidate, job, mishaps>>

Compile ==
  /\ At("compile")
  /\ \/ /\ app' = [overlay |-> source, setting |-> graph]
        /\ completed' = completed \cup {job}
        /\ Goto("record")
        /\ UNCHANGED mishaps
     \/ Fails /\ UNCHANGED <<app, completed>>
  /\ UNCHANGED <<inputs, tree, meta, graph, candidate, job>>

RecordBuilt ==
  /\ At("record")
  /\ built' = job
  /\ Goto("built")
  /\ UNCHANGED <<inputs, tree, args, configured, out, candidate, completed, job, mishaps>>

(* Mutant: the identity of the build is not compared, and the candidate     *)
(* gets the current one. *)
StageStale ==
  /\ Rest /\ source # 0 /\ built # None /\ app # None
  /\ candidate' = [app |-> app,
                    identity |-> [overlay |-> overlay, setting |-> setting, args |-> args]]
  /\ Goto("staged")
  /\ UNCHANGED <<inputs, tree, meta, out, completed, job, mishaps>>

(* Whatever application out/ holds is copied, signed, audited and named by *)
(* its own digest; the candidate takes its identity from the build report. *)
Stage ==
  /\ Rest /\ IsCurrent(built)
  /\ \/ /\ app # None
        /\ candidate' = [app |-> app, identity |-> built]
        /\ Goto("staged")
        /\ UNCHANGED mishaps
     \/ app = None /\ Goto("failed") /\ UNCHANGED <<candidate, mishaps>>
     \/ Fails /\ UNCHANGED candidate
  /\ UNCHANGED <<inputs, tree, meta, out, completed, job>>
-----------------------------------------------------------------------------
(* reset --yes: the source, out/, stage/, then the metadata. *)

ResetSource ==
  /\ Rest
  /\ source' = 0
  /\ Goto("rm_out")
  /\ UNCHANGED <<inputs, prepared, meta, out, candidate, completed, job, mishaps>>

ResetOut ==
  /\ At("rm_out")
  /\ \/ /\ app \notin {None, Mixed}
        /\ app' = Mixed /\ graph' \in {graph, None}
        /\ UNCHANGED pc
     \/ /\ app' = None /\ graph' = None
        /\ Goto("rm_stage")
  /\ UNCHANGED <<inputs, tree, meta, candidate, completed, job, mishaps>>

ResetStage ==
  /\ At("rm_stage")
  /\ candidate' = None
  /\ Goto("rm_metadata")
  /\ UNCHANGED <<inputs, tree, meta, out, completed, job, mishaps>>

ResetMetadata ==
  /\ At("rm_metadata")
  /\ \/ prepared' = 0 /\ UNCHANGED <<meta, pc, mishaps>>
     \/ args' = None /\ UNCHANGED <<prepared, configured, built, pc, mishaps>>
     \/ configured' = None /\ UNCHANGED <<prepared, args, built, pc, mishaps>>
     \/ built' = None /\ UNCHANGED <<prepared, args, configured, pc, mishaps>>
     \/ /\ prepared = 0 /\ meta = <<None, None, None>>
        /\ Goto("idle") /\ mishaps' = {}
        /\ UNCHANGED <<prepared, meta>>
  /\ UNCHANGED <<inputs, source, out, candidate, completed, job>>
-----------------------------------------------------------------------------

Crash ==
  /\ "crash" \in MayHappen /\ pc \in Busy
  /\ Goto("idle")
  /\ mishaps' = mishaps \cup {"crash"}
  /\ UNCHANGED <<inputs, tree, meta, out, candidate, completed, job>>

Switch ==
  /\ Rest
  /\ \E s \in Settings \ {setting} : setting' = s
  /\ UNCHANGED <<overlay, tree, meta, out, candidate, completed, pc, job, mishaps>>

ExtendOverlay ==
  /\ Rest
  /\ \E n \in Lengths : n > overlay /\ overlay' = n
  /\ UNCHANGED <<setting, tree, meta, out, candidate, completed, pc, job, mishaps>>

ShrinkOverlay ==
  /\ Rest /\ "shrink" \in MayHappen
  /\ \E n \in Lengths : n < overlay /\ overlay' = n
  /\ mishaps' = mishaps \cup {"shrink"}
  /\ UNCHANGED <<setting, tree, meta, out, candidate, completed, pc, job>>

Init ==
  /\ overlay \in Lengths /\ setting \in Settings
  /\ source = 0 /\ prepared = 0
  /\ args = None /\ configured = None /\ built = None
  /\ graph = None /\ app = None
  /\ candidate = None /\ completed = {}
  /\ pc = "idle"
  /\ job = [overlay |-> overlay, setting |-> setting, args |-> None]
  /\ mishaps = {}

Phase == \/ Prepare
         \/ Configure \/ Generate \/ ReportConfigured
         \/ Build \/ Compile \/ RecordBuilt
         \/ Stage
Reset == ResetSource \/ ResetOut \/ ResetStage \/ ResetMetadata
Next  == Phase \/ Reset \/ Crash \/ Switch \/ ExtendOverlay \/ ShrinkOverlay

Spec == Init /\ [][Next]_vars
-----------------------------------------------------------------------------
(* Properties *)

(* Every file holds what some phase writes to it. *)
TypeOK ==
  /\ overlay \in Lengths /\ setting \in Settings
  /\ source \in 0..MaxOverlay /\ prepared \in 0..MaxOverlay
  /\ args \in Settings \cup {None}
  /\ configured \in Identities \cup {None} /\ built \in Identities \cup {None}
  /\ graph \in Settings \cup {None} /\ app \in Apps \cup {None, Mixed}
  /\ candidate \in Candidates \cup {None}
  /\ completed \in SUBSET Identities
  /\ pc \in Resting \cup Busy
  /\ job \in Identities
  /\ mishaps \subseteq MayHappen

(* Until something goes wrong, and again from a complete reset on, each    *)
(* phase holds what its report names, in any order of switching settings,  *)
(* appending patches and building again.  A configure that succeeds, by    *)
(* generating or by reusing, leaves in out/ the graph of the settings it   *)
(* was asked for, even if the series has shrunk; a build that succeeds has *)
(* built the overlay and the settings of the identity it reports; and a    *)
(* staged candidate is the application its identity stands for.            *)
PhasesAreExact ==
  /\ pc = "configured" /\ mishaps \subseteq {"shrink"} => graph = job.args
  /\ pc = "built" /\ mishaps = {} => app = AppOf(job)
  /\ candidate # None /\ mishaps = {} => candidate.app = AppOf(candidate.identity)

(* Whatever is interrupted, a candidate's identity is one for which a      *)
(* compilation ran to its end: no report outlives a build that never was.  *)
CandidateWasCompleted == candidate # None => candidate.identity \in completed

(* As long as patches are only appended, stopped commands and failed       *)
(* builds never stage an application under the identity of another         *)
(* overlay.                                                                *)
CandidateHasOverlay ==
  candidate # None /\ candidate.app # Mixed /\ "shrink" \notin mishaps =>
    candidate.app.overlay = candidate.identity.overlay
=============================================================================
