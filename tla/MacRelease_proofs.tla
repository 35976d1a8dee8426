--------------------------- MODULE MacRelease_proofs ---------------------------
(***************************************************************************)
(* Proofs about MacRelease for every set of payloads, identities and       *)
(* acceptance revisions, with and without crashes.                         *)
(*                                                                         *)
(* What a published archive says about acceptance is decided several       *)
(* commands earlier.  The inductive invariant follows the evidence along   *)
(* that way: from the harnesses to the local variables of test-staged,     *)
(* from there to accepted.json, from accepted.json to the local variables  *)
(* of package, and from those to archive, manifest and report.  History    *)
(* only grows, so evidence once there is never lost.                       *)
(***************************************************************************)
EXTENDS MacRelease, TLAPS

(* A candidate that is being promoted or reported has passed. *)
JobPassed ==
  /\ pc = "promote" => JobAccepted \in passed
  /\ accepted # None => accepted \in passed

(* A package under the regular name is made of what was accepted. *)
PackingAccepted ==
  pc \in Packing /\ job.mode = "accepted" => WasAcceptedAs(job.payload, job.identity)

Evidence ==
  /\ JobPassed
  /\ PackingAccepted
  /\ ArchiveWasAccepted
  /\ ReleaseIdentityWasAccepted

(* A reset has taken the whole release before it takes the report.         *)
Removed ==
  pc = "rm_metadata" =>
    /\ \A m \in Modes : archive[m] = None /\ checksum[m] = None
    /\ manifest = None /\ sums = None

(* What verify-release has compared before its test. *)
Compared == packaged # None /\ archive[packaged.mode] = packaged.payload

(* The sums a complete package leaves. *)
SumsOf(package) == [payload |-> package.payload, manifest |-> package]

(* Without a crash every checksum is that of the archive next to it, and   *)
(* manifest and report are of one package, except where package has        *)
(* written the one and is about to write the other.                        *)
OneRelease ==
  "crash" \notin mishaps =>
    /\ pc \notin {"checksum", "rm_release"} => \A m \in Modes : checksum[m] = archive[m]
    /\ pc = "checksum" => \A m \in Modes \ {job.mode} : checksum[m] = archive[m]
    /\ pc \in Packing => archive[job.mode] = job.payload
    /\ pc \notin {"sums", "record", "rm_release", "rm_metadata"} =>
         manifest = packaged /\ (manifest # None => sums = SumsOf(manifest))
    /\ pc \in {"sums", "record"} => manifest = job
    /\ pc = "record" => sums = SumsOf(job)
    /\ pc \in Testing /\ job.kind = "verify" => Compared
    /\ pc = "verified" => Compared

-----------------------------------------------------------------------------
(* Types *)

(* Every command writes values of the right type, and test and package     *)
(* keep their local variables apart: the step lemma of type correctness.   *)
LEMMA TypeStep ==
  ASSUME TypeOK, [Next]_vars
  PROVE  TypeOK'
<1> USE DEF Testing, Packing, Resting, Busy, At, Rest, Goto, Return
<1> USE ReleaseAssumption DEF ReleaseAssumption
<1>1. CASE Stage
  BY <1>1 DEF TypeOK, Stage, release, history, Candidates
<1>2. CASE Test
  <2>1. ASSUME NEW kind \in Kinds, NEW payload \in Payloads,
               TestBegin(kind, payload)
        PROVE  TypeOK'
    BY <2>1 DEF TypeOK, TestBegin, TestJobs, stage, release, history
  <2>2. CASE TestCandidate
    BY <1>2, <2>1, <2>2 DEF TypeOK, TestCandidate, Candidates, Kinds
  <2>3. CASE TestSupplied
    BY <1>2, <2>1, <2>3 DEF TestSupplied, Kinds
  <2>4. CASE ProductPasses
    BY <2>4 DEF TypeOK, ProductPasses, stage, release, history
  <2>5. CASE StealthBegins
    BY <2>5 DEF TypeOK, StealthBegins, TestJobs, stage, release, history
  <2>6. CASE StealthPasses
    BY <2>6 DEF TypeOK, StealthPasses, JobAccepted, TestJobs, Candidates,
                stage, release, history
  <2>7. CASE Promote
    BY <2>7 DEF TypeOK, Promote, JobAccepted, TestJobs, Candidates, release, history
  <2>8. CASE ReportTest
    BY <2>8 DEF TypeOK, ReportTest, TestJobs, stage, release, history
  <2>9. CASE TestFails
    BY <2>9 DEF TypeOK, TestFails, TestJobs, stage, release, history
  <2>10. QED BY <1>2, <2>2, <2>3, <2>4, <2>5, <2>6, <2>7, <2>8, <2>9 DEF Test
<1>3. CASE Package
  <2>1. ASSUME NEW mode \in Modes, candidate # None, PublishArchive(mode)
        PROVE  TypeOK'
    BY <2>1 DEF TypeOK, PublishArchive, Candidates, Packages, stage, history
  <2>2. CASE PackageAccepted \/ PackageSkipping
    BY <2>1, <2>2 DEF PackageAccepted, PackageSkipping, Modes
  <2>3. CASE PublishChecksum
    BY <2>3 DEF TypeOK, PublishChecksum, Packages, stage, history
  <2>4. CASE PublishManifest
    BY <2>4 DEF TypeOK, PublishManifest, Packages, stage, history
  <2>5. CASE ManifestFails
    BY <2>5 DEF TypeOK, ManifestFails, stage, release, history
  <2>6. CASE PublishSums
    BY <2>6 DEF TypeOK, PublishSums, Packages, Sums, stage, history
  <2>7. CASE RecordPackage
    BY <2>7 DEF TypeOK, RecordPackage, stage, release, history
  <2>8. QED BY <1>3, <2>2, <2>3, <2>4, <2>5, <2>6, <2>7 DEF Package
<1>4. CASE Verify
  BY <1>4 DEF TypeOK, Verify, TestBegin, TestJobs, Packages, Kinds, stage, release, history
<1>5. CASE Reset
  <2>1. CASE ResetBegin
    BY <2>1 DEF TypeOK, ResetBegin, stage, release, history
  <2>2. CASE ResetStage
    BY <2>2 DEF TypeOK, ResetStage, stage, release, history
  <2>3. CASE ResetRelease
    BY <2>3 DEF TypeOK, ResetRelease, stage, release, history
  <2>4. CASE ResetMetadata
    BY <2>4 DEF TypeOK, ResetMetadata, stage, release, history
  <2>5. QED BY <1>5, <2>1, <2>2, <2>3, <2>4 DEF Reset
<1>6. CASE Crash
  BY <1>6 DEF TypeOK, Crash, stage, release, history
<1>7. CASE ChangeInputs
  BY <1>7 DEF TypeOK, ChangeInputs, stage, release, history
<1>8. CASE ChangeSuite
  BY <1>8 DEF TypeOK, ChangeSuite, stage, release, history
<1>9. CASE UNCHANGED vars
  BY <1>9 DEF TypeOK, vars, stage, release, history
<1>10. QED BY <1>1, <1>2, <1>3, <1>4, <1>5, <1>6, <1>7, <1>8, <1>9 DEF Next

(* Type correctness: the files hold what the commands write, whatever the  *)
(* order of commands and wherever they die.                                *)
THEOREM TypeCorrect == Spec => []TypeOK
<1>1. Init => TypeOK
  BY DEF Init, TypeOK, Resting, Busy, Testing, Packing
<1>2. TypeOK /\ [Next]_vars => TypeOK'
  BY TypeStep
<1>3. QED BY <1>1, <1>2, PTL DEF Spec

-----------------------------------------------------------------------------
(* Evidence of acceptance *)

(* What has been accepted stays accepted: history only grows.              *)
LEMMA AcceptedForGood ==
  ASSUME [Next]_vars
  PROVE  /\ passed \subseteq passed'
         /\ \A p : WasAccepted(p) => WasAccepted(p)'
         /\ \A p, i : WasAcceptedAs(p, i) => WasAcceptedAs(p, i)'
<1>1. passed \subseteq passed'
  BY DEF Next, vars, Stage, Test, Package, Verify, Reset, Crash, ChangeInputs, ChangeSuite,
         TestCandidate, TestSupplied, TestBegin, ProductPasses, StealthBegins, StealthPasses,
         Promote, ReportTest, TestFails, PackageAccepted, PackageSkipping, PublishArchive,
         PublishChecksum, PublishManifest, ManifestFails, PublishSums, RecordPackage,
         ResetBegin, ResetStage, ResetRelease, ResetMetadata, history
<1>2. QED BY <1>1 DEF WasAccepted, WasAcceptedAs

(* Only Promote writes accepted.json, and it writes what has passed.       *)
LEMMA JobPassedStep ==
  ASSUME TypeOK, JobPassed, [Next]_vars
  PROVE  JobPassed'
<1>1. passed \subseteq passed'
  BY AcceptedForGood
<1>2. CASE StealthPasses
  BY <1>1, <1>2 DEF StealthPasses, JobPassed, JobAccepted, Goto, At, stage
<1>3. CASE Promote
  BY <1>1, <1>3 DEF Promote, JobPassed, Goto, At
<1>4. CASE Reset
  BY <1>1, <1>4 DEF Reset, ResetBegin, ResetStage, ResetRelease, ResetMetadata, JobPassed,
                    Goto, At, Rest, Resting, stage
<1>5. ASSUME ~StealthPasses, ~Promote, ~Reset
      PROVE  (accepted' = accepted /\ pc' # "promote") \/ UNCHANGED <<accepted, pc, job>>
  BY <1>5 DEF Next, vars, Stage, Test, Package, Verify, Crash, ChangeInputs, ChangeSuite,
         TestCandidate, TestSupplied, TestBegin, ProductPasses, StealthBegins,
         ReportTest, TestFails, PackageAccepted, PackageSkipping, PublishArchive,
         PublishChecksum, PublishManifest, ManifestFails, PublishSums, RecordPackage,
         Goto, Return, stage
<1>6. QED BY <1>1, <1>2, <1>3, <1>4, <1>5 DEF JobPassed, JobAccepted

(* package starts under the regular name only from an accepted record of   *)
(* the same bundle and the same identity.                                  *)
LEMMA PackingStep ==
  ASSUME TypeOK, JobPassed, PackingAccepted, [Next]_vars
  PROVE  PackingAccepted'
<1>1. \A p, i : WasAcceptedAs(p, i) => WasAcceptedAs(p, i)'
  BY AcceptedForGood
<1>2. CASE PackageAccepted
  <2>1. /\ accepted \in passed
        /\ accepted.payload = candidate.payload /\ accepted.identity = candidate.identity
    BY <1>2 DEF PackageAccepted, JobPassed
  <2>2. WasAcceptedAs(candidate.payload, candidate.identity)
    BY <2>1 DEF WasAcceptedAs
  <2>3. job'.payload = candidate.payload /\ job'.identity = candidate.identity
    BY <1>2 DEF PackageAccepted, PublishArchive
  <2>4. QED BY <1>1, <2>2, <2>3 DEF PackingAccepted
<1>3. CASE PackageSkipping
  BY <1>3 DEF PackageSkipping, PublishArchive, PackingAccepted
<1>4. ASSUME ~PackageAccepted, ~PackageSkipping, pc' \in Packing
      PROVE  pc \in Packing /\ job' = job
  BY <1>4 DEF Next, vars, Stage, Test, Package, Verify, Reset, Crash, ChangeInputs, ChangeSuite,
         TestCandidate, TestSupplied, TestBegin, ProductPasses, StealthBegins, StealthPasses,
         Promote, ReportTest, TestFails,
         PublishChecksum, PublishManifest, ManifestFails, PublishSums, RecordPackage,
         ResetBegin, ResetStage, ResetRelease, ResetMetadata, Goto, Return, At, Packing
<1>5. QED BY <1>1, <1>2, <1>3, <1>4 DEF PackingAccepted

(* The regular archive is replaced by PackageAccepted alone.               *)
LEMMA ArchiveStep ==
  ASSUME TypeOK, JobPassed, ArchiveWasAccepted, [Next]_vars
  PROVE  ArchiveWasAccepted'
<1> USE DEF Modes
<1>1. \A p : WasAccepted(p) => WasAccepted(p)'
  BY AcceptedForGood
<1>2. CASE PackageAccepted
  <2>1. accepted \in passed /\ accepted.payload = candidate.payload
    BY <1>2 DEF PackageAccepted, JobPassed
  <2>2. WasAccepted(candidate.payload)
    BY <2>1 DEF WasAccepted
  <2>3. archive'["accepted"] = candidate.payload
    BY <1>2 DEF PackageAccepted, PublishArchive, TypeOK
  <2>4. QED BY <1>1, <2>2, <2>3 DEF ArchiveWasAccepted
<1>3. CASE PackageSkipping
  <2>1. archive'["accepted"] = archive["accepted"]
    BY <1>3 DEF PackageSkipping, PublishArchive, TypeOK
  <2>2. QED BY <1>1, <2>1 DEF ArchiveWasAccepted
<1>4. CASE ResetRelease
  <2>1. archive'["accepted"] \in {archive["accepted"], None}
    BY <1>4 DEF ResetRelease, TypeOK, release
  <2>2. QED BY <1>1, <2>1 DEF ArchiveWasAccepted
<1>5. ASSUME ~PackageAccepted, ~PackageSkipping, ~ResetRelease
      PROVE  archive' = archive
  BY <1>5 DEF Next, vars, Stage, Test, Package, Verify, Reset, Crash, ChangeInputs, ChangeSuite,
         TestCandidate, TestSupplied, TestBegin, ProductPasses, StealthBegins, StealthPasses,
         Promote, ReportTest, TestFails,
         PublishChecksum, PublishManifest, ManifestFails, PublishSums, RecordPackage,
         ResetBegin, ResetStage, ResetMetadata, release
<1>6. QED BY <1>1, <1>2, <1>3, <1>4, <1>5 DEF ArchiveWasAccepted

(* Manifest and report are copied from the local variables of package.     *)
LEMMA IdentityStep ==
  ASSUME TypeOK, PackingAccepted, ReleaseIdentityWasAccepted, [Next]_vars
  PROVE  ReleaseIdentityWasAccepted'
<1>1. \A p, i : WasAcceptedAs(p, i) => WasAcceptedAs(p, i)'
  BY AcceptedForGood
<1>2. CASE PublishManifest
  <2>1. /\ manifest'.mode = job.mode /\ manifest'.payload = job.payload
        /\ manifest'.identity = job.identity
        /\ pc \in Packing /\ packaged' = packaged
    BY <1>2 DEF PublishManifest, At, Packing, history
  <2>2. QED BY <1>1, <2>1 DEF PackingAccepted, ReleaseIdentityWasAccepted
<1>3. CASE RecordPackage
  <2>1. packaged' = job /\ pc \in Packing /\ manifest' = manifest
    BY <1>3 DEF RecordPackage, At, Packing, release
  <2>2. QED BY <1>1, <2>1 DEF PackingAccepted, ReleaseIdentityWasAccepted
<1>4. CASE Reset
  <2>1. manifest' \in {manifest, None} /\ packaged' \in {packaged, None}
    BY <1>4 DEF Reset, ResetBegin, ResetStage, ResetRelease, ResetMetadata, release, history
  <2>2. QED BY <1>1, <2>1 DEF ReleaseIdentityWasAccepted
<1>5. ASSUME ~PublishManifest, ~RecordPackage, ~Reset
      PROVE  manifest' = manifest /\ packaged' = packaged
  BY <1>5 DEF Next, vars, Stage, Test, Package, Verify, Crash, ChangeInputs, ChangeSuite,
         TestCandidate, TestSupplied, TestBegin, ProductPasses, StealthBegins, StealthPasses,
         Promote, ReportTest, TestFails, PackageAccepted, PackageSkipping, PublishArchive,
         PublishChecksum, ManifestFails, PublishSums, release, history
<1>6. QED BY <1>1, <1>2, <1>3, <1>4, <1>5 DEF ReleaseIdentityWasAccepted

(* The inductive invariant of acceptance.                                  *)
THEOREM EvidenceInvariant == Spec => [](TypeOK /\ Evidence)
<1>1. Init => Evidence
  BY DEF Init, Evidence, JobPassed, PackingAccepted, ArchiveWasAccepted,
         ReleaseIdentityWasAccepted, Packing, Modes
<1>2. TypeOK /\ Evidence /\ [Next]_vars => Evidence'
  BY JobPassedStep, PackingStep, ArchiveStep, IdentityStep DEF Evidence
<1>3. QED BY <1>1, <1>2, TypeCorrect, PTL DEF Spec

(* No archive is published under the regular name unless acceptance passed *)
(* on its very payload, and manifests and package reports that claim       *)
(* acceptance give the identity under which the payload was accepted.      *)
THEOREM ReleasesAreAccepted == Spec => []ReleaseWasAccepted
<1>1. Evidence => ReleaseWasAccepted
  BY DEF Evidence, ReleaseWasAccepted
<1>2. QED BY <1>1, EvidenceInvariant, PTL
-----------------------------------------------------------------------------
(* One release *)

(* Nothing is published while a reset removes the metadata.                *)
LEMMA RemovedStep ==
  ASSUME TypeOK, Removed, [Next]_vars
  PROVE  Removed'
<1> USE DEF Removed, Resting, Testing, Packing, At, Rest, Goto, Return
<1>1. CASE Reset
  BY <1>1 DEF Reset, ResetBegin, ResetStage, ResetRelease, ResetMetadata, stage, release
<1>2. CASE Stage \/ Verify \/ Crash
  BY <1>2 DEF Stage, Verify, TestBegin, Crash
<1>3. CASE Test
  BY <1>3 DEF Test, TestCandidate, TestSupplied, TestBegin, ProductPasses, StealthBegins,
              StealthPasses, Promote, ReportTest, TestFails
<1>4. CASE Package
  BY <1>4 DEF Package, PackageAccepted, PackageSkipping, PublishArchive, PublishChecksum,
              PublishManifest, ManifestFails, PublishSums, RecordPackage
<1>5. CASE ChangeInputs \/ ChangeSuite \/ UNCHANGED vars
  BY <1>5 DEF ChangeInputs, ChangeSuite, vars, release
<1>6. QED BY <1>1, <1>2, <1>3, <1>4, <1>5 DEF Next

(* What package has left to write is what does not match yet.              *)
LEMMA OneReleaseStep ==
  ASSUME TypeOK, Removed, OneRelease, [Next]_vars
  PROVE  OneRelease'
<1> USE DEF OneRelease, Compared, Resting, Testing, Packing, At, Rest, Goto, Return
<1>1. CASE Stage
  BY <1>1 DEF Stage, release, history
<1>2. ASSUME NEW kind \in {"candidate", "supplied"}, NEW payload, Rest, TestBegin(kind, payload)
      PROVE  OneRelease'
  BY <1>2 DEF TestBegin, release, history
<1>3. CASE TestCandidate \/ TestSupplied
  BY <1>2, <1>3 DEF TestCandidate, TestSupplied
<1>4. CASE ProductPasses \/ StealthPasses
  BY <1>4 DEF ProductPasses, StealthPasses, release, history
<1>5. CASE StealthBegins
  BY <1>5 DEF StealthBegins, TypeOK, TestJobs, release, history
<1>6. CASE Promote \/ ReportTest \/ TestFails
  BY <1>6 DEF Promote, ReportTest, TestFails, release, history
<1>7. ASSUME NEW mode \in Modes, Rest, candidate # None, PublishArchive(mode)
      PROVE  OneRelease'
  BY <1>7 DEF PublishArchive, TypeOK, history
<1>8. CASE PackageAccepted \/ PackageSkipping
  BY <1>7, <1>8 DEF PackageAccepted, PackageSkipping, Modes
<1>9. CASE PublishChecksum
  BY <1>9 DEF PublishChecksum, TypeOK, Packages, history
<1>10. CASE PublishManifest
  BY <1>10 DEF PublishManifest, history
<1>11. CASE ManifestFails
  BY <1>11 DEF ManifestFails, release, history
<1>12. CASE PublishSums
  BY <1>12 DEF PublishSums, SumsOf, history
<1>13. CASE RecordPackage
  BY <1>13 DEF RecordPackage, release, history
<1>14. CASE Verify
  BY <1>14 DEF Verify, TestBegin, release, history
<1>15. CASE ResetBegin \/ ResetStage
  BY <1>15 DEF ResetBegin, ResetStage, release, history
<1>16. CASE ResetRelease
  BY <1>16 DEF ResetRelease, release, history
<1>17. CASE ResetMetadata
  BY <1>17 DEF ResetMetadata, Removed, release
<1>18. CASE Crash
  BY <1>18 DEF Crash
<1>19. CASE ChangeInputs \/ ChangeSuite \/ UNCHANGED vars
  BY <1>19 DEF ChangeInputs, ChangeSuite, vars, release, history
<1>20. QED BY <1>1, <1>3, <1>4, <1>5, <1>6, <1>8, <1>9, <1>10, <1>11, <1>12, <1>13, <1>14,
              <1>15, <1>16, <1>17, <1>18, <1>19 DEF Next, Test, Package, Reset

(* If no command has died since the last reset, a release that verifies    *)
(* is the work of one package run, although a package may have stopped     *)
(* half way for want of a manifest, and although verify-release reads      *)
(* neither checksum nor sums nor the mode of the manifest.                 *)
THEOREM VerifiedReleasesAreOne == Spec => []VerifiedIsOneRelease
<1>1. Init => Removed /\ OneRelease
  BY DEF Init, Removed, OneRelease, Packing, Testing
<1>2. TypeOK /\ Removed /\ [Next]_vars => Removed'
  BY RemovedStep
<1>3. TypeOK /\ Removed /\ OneRelease /\ [Next]_vars => OneRelease'
  BY OneReleaseStep
<1>4. TypeOK /\ OneRelease => VerifiedIsOneRelease
  BY DEF TypeOK, Packages, OneRelease, Compared, SumsOf, VerifiedIsOneRelease
<1>5. QED BY <1>1, <1>2, <1>3, <1>4, TypeCorrect, PTL DEF Spec
=============================================================================
