----------------------------- MODULE LinuxRelease ---------------------------
(***************************************************************************)
(* From a built browser to an installation: stage-runtime.py,              *)
(* package-runtime.py, helium_test_fast.py, qualify-package.py and the     *)
(* checks of runtime_install.py.                                           *)
(*                                                                         *)
(* Every command is a container of its own on one work volume, and nothing *)
(* keeps two from running at once: the model has one stager, one packager, *)
(* one tester, one qualifier and one installer, MaxBusy of which take turns*)
(* at any step.  No build is in progress while the browser is staged or    *)
(* tested.  Artifacts have names made of the version that the lock gives,  *)
(* so that a second package of a version replaces the first.               *)
(*                                                                         *)
(* Abstractions.  A build is what its output directory makes of a file.    *)
(* The libraries beside it are in LibraryClosure, the installation itself  *)
(* in RuntimeInstall.  No two archives have one digest: the times in them  *)
(* differ.  An audit, a copy or a browser test fails or does not.          *)
(***************************************************************************)
EXTENDS Integers, FiniteSets

CONSTANTS
  Products,   \* "chromium", "helium", or both
  Versions,   \* product versions a lock may name
  Builds,     \* builds of the browser
  Version,    \* the version of each build
  Files,      \* files beside those that are always staged
  Lists,      \* the files that GN lists as the run-time needs of a build
  Required,   \* the files that are always staged
  None,       \* no file
  MaxBusy,    \* bound on the commands that run at once
  MaxRuns,    \* bound on the packages made
  MaxCrashes  \* bound on the packagers killed

ASSUME ReleaseAssumption ==
  /\ Products \subseteq {"chromium", "helium"}
  /\ Version \in [Builds -> Versions]
  /\ Lists \in [Builds -> SUBSET Files] /\ Required \cap Files = {}
  /\ MaxBusy \in Nat /\ MaxRuns \in Nat /\ MaxCrashes \in Nat

VARIABLES
  product,     \* the product of this volume
  lock,        \* the version that the lock of the image names
  out,         \* out/: the build in it
  deps,        \* the list of run-time needs beside it
  stage,       \* stage/: the build each staged file is of
  stager,      \* stage-runtime: the temporary tree
  package,     \* package/
  archive,     \* artifacts/: the archive of each version,
  checksum,    \* its .sha256
  acceptance,  \* and its .acceptance.json
  packager,    \* package-runtime
  report,      \* test-fast.json
  tester,      \* the browser test in progress
  qualifier,   \* qualify-package
  installer,   \* install: its copies of the three artifacts
  runs,        \* the packages begun, which tells archives apart
  crashes      \* history: the packagers killed among their artifacts

artifacts == <<archive, checksum, acceptance>>
built     == <<product, lock, out, deps>>
counters  == <<runs, crashes>>
commands  == <<stager, packager, tester, qualifier, installer>>
vars == <<built, stage, package, artifacts, commands, report, counters>>

(* A tree of files, each from a build; a package; what a test says.  *)
Tree   == UNION {[F -> Builds] : F \in SUBSET (Files \cup Required)}
Bundle == [run : 1..MaxRuns, version : Versions, files : Tree]
Report == [status : {"running", "complete", "failed"}, version : Versions,
           tested : Builds, closed : {"yes", "no"}]

Nothing == [f \in {} |-> 0]

Busy(c) == IF c = None THEN 0 ELSE 1
MayBegin == Busy(stager) + Busy(packager) + Busy(tester) + Busy(qualifier) + Busy(installer) < MaxBusy
-----------------------------------------------------------------------------
(* The builder *)

NewImage ==
  /\ lock' \in Versions \ {lock}
  /\ UNCHANGED <<product, out, deps, stage, package, artifacts, commands, report, counters>>

(* build, in the one output directory; what is beside the browser stays. *)
Build ==
  /\ stager = None /\ tester = None
  /\ out' \in {b \in Builds \ {out} : Version[b] = lock}
  /\ UNCHANGED <<product, lock, deps, stage, package, artifacts, commands, report, counters>>
-----------------------------------------------------------------------------
(* stage-runtime *)

(* A list that is there is used.  Otherwise GN writes one, and is run once *)
(* more without it; if that fails, the list stays.                         *)
EnsureRuntimeDeps ==
  /\ product = "helium" /\ out # None /\ stager = None /\ MayBegin
  /\ deps = None
  /\ deps' = Lists[out]
  /\ UNCHANGED <<product, lock, out, stage, package, artifacts, commands, report, counters>>

(* What is copied, in a temporary tree with its manifest, *)
CollectFiles ==
  /\ stager = None /\ MayBegin /\ out # None
  /\ product = "helium" => deps # None
  /\ stager' = [f \in Required \cup (IF product = "helium" THEN deps ELSE {}) |-> out]
  /\ UNCHANGED <<built, stage, package, artifacts, packager, tester, qualifier, installer, report, counters>>

(* is found wanting, or its command is killed, *)
StageFails ==
  /\ stager # None
  /\ stager' = None
  /\ UNCHANGED <<built, stage, package, artifacts, packager, tester, qualifier, installer, report, counters>>

(* or else put in place of the stage that is there, which goes first. *)
RemoveStage ==
  /\ stager # None /\ stage # None
  /\ stage' = None
  /\ UNCHANGED <<built, package, artifacts, commands, report, counters>>

PlaceStage ==
  /\ stager # None /\ stage = None
  /\ stage' = stager /\ stager' = None
  /\ UNCHANGED <<built, package, artifacts, packager, tester, qualifier, installer, report,
                 counters>>
-----------------------------------------------------------------------------
(* package-runtime *)

Packaging(pc) == packager # None /\ packager.pc = pc
Unpackaged    == <<built, stage, stager, tester, qualifier, installer, report>>

(* The version is that of the image; the manifest of the stage is read. *)
BeginPackage ==
  /\ packager = None /\ MayBegin /\ stage # None /\ runs < MaxRuns
  /\ runs' = runs + 1
  /\ packager' = [pc |-> "copy", run |-> runs + 1, version |-> lock, manifest |-> stage, files |-> Nothing]
  /\ UNCHANGED <<Unpackaged, package, artifacts, crashes>>

(* Mutant: what was copied is not compared with the manifest. *)
CopyStagedUnchecked(f) ==
  /\ Packaging("copy") /\ f \in DOMAIN packager.manifest \ DOMAIN packager.files
  /\ stage # None /\ f \in DOMAIN stage
  /\ packager' = [packager EXCEPT !.files =
                    [g \in DOMAIN @ \cup {f} |-> IF g = f THEN stage[f] ELSE @[g]]]
  /\ UNCHANGED <<Unpackaged, package, artifacts, counters>>

(* A staged file is copied and compared with the manifest.  The stage may  *)
(* be another by now, or gone, and then PackageFails.                      *)
CopyStaged(f) ==
  /\ Packaging("copy") /\ f \in DOMAIN packager.manifest \ DOMAIN packager.files
  /\ stage # None /\ f \in DOMAIN stage /\ stage[f] = packager.manifest[f]
  /\ packager' = [packager EXCEPT !.files =
                    [g \in DOMAIN @ \cup {f} |-> IF g = f THEN stage[f] ELSE @[g]]]
  /\ UNCHANGED <<Unpackaged, package, artifacts, counters>>

Copied == DOMAIN packager.files = DOMAIN packager.manifest
Made   == [run |-> packager.run, version |-> packager.version, files |-> packager.files]

(* Anything may fail until the first artifact is published: the temporary  *)
(* tree and archive go.                                                    *)
PackageFails ==
  /\ Packaging("copy")
  /\ packager' = None
  /\ UNCHANGED <<Unpackaged, package, artifacts, counters>>

(* The archive, verified under another name, replaces the one that is      *)
(* there, and keeps the other artifacts of its name; a Chromium bundle has *)
(* no archive.                                                             *)
ReplaceArchive ==
  /\ Packaging("copy") /\ Copied /\ product = "helium"
  /\ archive' = [archive EXCEPT ![packager.version] = Made]
  /\ packager' = [packager EXCEPT !.pc = "checksum"]
  /\ UNCHANGED <<Unpackaged, package, checksum, acceptance, counters>>

ReplaceChecksum ==
  /\ Packaging("checksum")
  /\ checksum' = [checksum EXCEPT ![packager.version] = archive[packager.version].run]
  /\ packager' = [packager EXCEPT !.pc = "remove"]
  /\ UNCHANGED <<Unpackaged, package, archive, acceptance, counters>>

RemovePackage ==
  /\ Packaging("remove") \/ (Packaging("copy") /\ Copied /\ product = "chromium")
  /\ package' = None
  /\ packager' = [packager EXCEPT !.pc = "place"]
  /\ UNCHANGED <<Unpackaged, artifacts, counters>>

PlacePackage ==
  /\ Packaging("place")
  /\ package' = Made /\ packager' = None
  /\ UNCHANGED <<Unpackaged, artifacts, counters>>
-----------------------------------------------------------------------------
(* test-fast *)

Untested == <<built, stage, package, artifacts, stager, packager, qualifier, installer, counters>>

(* The old report goes; the new one says "running" and has the version of  *)
(* the lock.                                                               *)
BeginTest ==
  /\ product = "helium" /\ tester = None /\ MayBegin /\ out # None
  /\ tester' = "testing"
  /\ report' = [status |-> "running", version |-> lock, tested |-> out, closed |-> "no"]
  /\ UNCHANGED Untested

(* The browser of out/ is tested.  It must have the version of the lock;   *)
(* the report of a test that passed says whether the browser was closed.   *)
EndTest ==
  /\ tester # None
  /\ \/ report' = [report EXCEPT !.status = "failed"]
     \/ /\ Version[report.tested] = report.version
        /\ \E c \in {"yes", "no"} : report' = [report EXCEPT !.status = "complete", !.closed = c]
  /\ tester' = None
  /\ UNCHANGED Untested
-----------------------------------------------------------------------------
(* qualify-package, whose operator names an archive of the volume *)

Qualifying(pc) == qualifier # None /\ qualifier.pc = pc
Unqualified    == <<built, stage, package, archive, checksum, stager, packager, tester, installer,
                    report, counters>>

(* What is judged is this reading of the report.  For its digest, which    *)
(* nothing compares, the acceptance reads the file again.                  *)
ReadReport(v) ==
  /\ product = "helium" /\ qualifier = None /\ MayBegin
  /\ report # None /\ report.status = "complete"
  /\ qualifier' = [pc |-> "digest", name |-> v, report |-> report, sum |-> checksum[v], run |-> 0]
  /\ UNCHANGED <<Unqualified, acceptance>>

(* The checksum was read first, and now the archive is. *)
DigestArchive ==
  /\ Qualifying("digest")
  /\ LET a == archive[qualifier.name] IN
     qualifier' = IF a # None /\ qualifier.sum = a.run
                  THEN [qualifier EXCEPT !.pc = "extract", !.run = a.run] ELSE None
  /\ UNCHANGED <<Unqualified, acceptance>>

(* Mutant: how the browser was closed is not asked. *)
ReportChecksButClosing(r) == r.status = "complete"

(* Everything the report has to show. *)
ReportChecks(r) == r.status = "complete" /\ r.closed = "yes"

(* The archive is read once more, for its manifest. *)
ReadManifest ==
  /\ Qualifying("extract")
  /\ LET a == archive[qualifier.name] IN
     qualifier' = IF a.version = qualifier.report.version /\ ReportChecks(qualifier.report)
                  THEN [qualifier EXCEPT !.pc = "accept"] ELSE None
  /\ UNCHANGED <<Unqualified, acceptance>>

WriteAcceptance ==
  /\ Qualifying("accept")
  /\ acceptance' = [acceptance EXCEPT ![qualifier.name] =
                      [run |-> qualifier.run, version |-> qualifier.report.version, of |-> qualifier.report]]
  /\ qualifier' = None
  /\ UNCHANGED Unqualified
-----------------------------------------------------------------------------
(* install *)

Installing(pc) == installer # None /\ installer.pc = pc
Uninstalled    == <<built, stage, package, artifacts, stager, packager, tester, qualifier, report, counters>>

(* The artifacts of the version of the lock are copied out of the volume,  *)
(* one after the other.                                                    *)
CopyArchive ==
  /\ product = "helium" /\ installer = None /\ MayBegin /\ archive[lock] # None
  /\ installer' = [pc |-> "checksum", name |-> lock, archive |-> archive[lock], sum |-> None, acc |-> None]
  /\ UNCHANGED Uninstalled

CopyChecksum ==
  /\ Installing("checksum")
  /\ installer' = IF checksum[installer.name] = None THEN None
                  ELSE [installer EXCEPT !.pc = "acceptance", !.sum = checksum[installer.name]]
  /\ UNCHANGED Uninstalled

CopyAcceptance ==
  /\ Installing("acceptance")
  /\ installer' = IF acceptance[installer.name] = None THEN None
                  ELSE [installer EXCEPT !.pc = "verify", !.acc = acceptance[installer.name]]
  /\ UNCHANGED Uninstalled

(* Mutant: only the checksum and the version are asked. *)
VerifiedArchiveUnbound(a, sum, acc) == sum = a.run /\ a.version = acc.version

(* The checksum and the acceptance name this archive, and the manifest in  *)
(* it has the version of the acceptance.                                   *)
VerifiedArchive(a, sum, acc) == sum = a.run /\ acc.run = a.run /\ a.version = acc.version

(* What is verified is unpacked and installed (RuntimeInstall). *)
Verify ==
  /\ Installing("verify")
  /\ installer' = IF VerifiedArchive(installer.archive, installer.sum, installer.acc)
                  THEN [installer EXCEPT !.pc = "install"] ELSE None
  /\ UNCHANGED Uninstalled

Install == Installing("install") /\ installer' = None /\ UNCHANGED Uninstalled
-----------------------------------------------------------------------------
(* A package is killed, or cannot write, among its artifacts; *)
PackageKilled ==
  /\ packager # None /\ packager.pc # "copy" /\ crashes < MaxCrashes
  /\ packager' = None /\ crashes' = crashes + 1
  /\ UNCHANGED <<Unpackaged, package, artifacts, runs>>

(* so is a test, which leaves its report as it was, a qualification or an  *)
(* installation.                                                           *)
Killed ==
  /\ \/ tester # None /\ tester' = None /\ UNCHANGED <<qualifier, installer>>
     \/ qualifier # None /\ qualifier' = None /\ UNCHANGED <<tester, installer>>
     \/ installer # None /\ installer' = None /\ UNCHANGED <<tester, qualifier>>
  /\ UNCHANGED <<built, stage, package, artifacts, stager, packager, report, counters>>

Init ==
  /\ product \in Products /\ lock \in Versions /\ out = None /\ deps = None /\ stage = None
  /\ package = None /\ report = None
  /\ archive = [v \in Versions |-> None] /\ checksum = archive /\ acceptance = archive
  /\ stager = None /\ packager = None /\ tester = None /\ qualifier = None /\ installer = None
  /\ runs = 0 /\ crashes = 0

StageRuntime   == EnsureRuntimeDeps \/ CollectFiles \/ StageFails \/ RemoveStage \/ PlaceStage
PackageRuntime == BeginPackage \/ (\E f \in Files \cup Required : CopyStaged(f)) \/ PackageFails
                  \/ ReplaceArchive \/ ReplaceChecksum \/ RemovePackage \/ PlacePackage
TestFast       == BeginTest \/ EndTest
QualifyPackage == (\E v \in Versions : ReadReport(v)) \/ DigestArchive \/ ReadManifest \/ WriteAcceptance
InstallRuntime == CopyArchive \/ CopyChecksum \/ CopyAcceptance \/ Verify \/ Install

Next == NewImage \/ Build \/ StageRuntime \/ PackageRuntime \/ TestFast \/ QualifyPackage
        \/ InstallRuntime \/ PackageKilled \/ Killed

Spec == Init /\ [][Next]_vars
-----------------------------------------------------------------------------
TypeOK ==
  /\ product \in Products /\ lock \in Versions /\ out \in Builds \cup {None}
  /\ deps \in (SUBSET Files) \cup {None} /\ stage \in Tree \cup {None} /\ stager \in Tree \cup {None}
  /\ package \in Bundle \cup {None}
  /\ archive \in [Versions -> Bundle \cup {None}]
  /\ checksum \in [Versions -> 1..MaxRuns \cup {None}]
  /\ \A v \in Versions : acceptance[v] # None => acceptance[v].of \in Report
  /\ report \in Report \cup {None}
  /\ installer # None => installer.archive \in Bundle
  /\ runs \in 0..MaxRuns /\ crashes \in 0..MaxCrashes

(* Every archive and every package directory holds files of one build      *)
(* only, all that a stage must have among them, though the stage may be    *)
(* replaced while it is copied.                                            *)
Bundles == {archive[v] : v \in Versions} \cup {package} \cup
           {IF installer = None THEN None ELSE installer.archive}
PackagedIsOneStage ==
  \A b \in Bundles \ {None} :
    /\ Required \subseteq DOMAIN b.files
    /\ \A f, g \in DOMAIN b.files : b.files[f] = b.files[g]

(* What is being installed is the very archive that was accepted, under    *)
(* the version of its acceptance, whatever package, test and qualification *)
(* replaced while its three artifacts were copied, and whatever was killed.*)
InstalledIsAccepted ==
  Installing("install") =>
    /\ installer.acc.run = installer.archive.run /\ installer.acc.version = installer.archive.version
    /\ installer.acc.of.status = "complete"

(* The report that an acceptance was judged by is of a test that passed, of*)
(* a browser of its version that was closed in the end.                    *)
AcceptanceIsOfPassingTest ==
  \A v \in Versions : acceptance[v] # None =>
    LET r == acceptance[v].of IN
    /\ r.status = "complete" /\ r.closed = "yes"
    /\ Version[r.tested] = acceptance[v].version /\ acceptance[v].version = v

=============================================================================
