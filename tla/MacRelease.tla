------------------------------ MODULE MacRelease ------------------------------
(***************************************************************************)
(* From a staged candidate to a published archive: `test-staged`,          *)
(* `package`, `verify-release` and `reset` of scripts/macos_backend.py.    *)
(*                                                                         *)
(* `test-staged` runs two acceptance harnesses that live in a sibling      *)
(* checkout and promotes the candidate by writing accepted.json; `package` *)
(* demands that record, and publishes archive, checksum, manifest, sums    *)
(* and report one file after the other; `verify-release` reads them back.  *)
(* Between commands the operator stages other candidates, tests other      *)
(* applications and changes the inputs; the sibling checkout may change at *)
(* any time, and a command may die between two writes.                     *)
(*                                                                         *)
(* Abstractions.  A payload is an application bundle, and stands for its   *)
(* fingerprint and for the digest of the archive made of it.  An identity  *)
(* is split into the inputs verify-release compares, the lock and the      *)
(* overlay, and the tools it does not.  Audits and harnesses pass or fail. *)
(* All locks name one Chromium version, so every archive of a mode has one *)
(* name.                                                                   *)
(***************************************************************************)
CONSTANTS
  Payloads,  \* application bundles
  Inputs,    \* locks and overlays
  Tools,     \* the rest of a build identity
  Suites,    \* revisions of the acceptance source
  None,      \* no file
  MayHappen  \* the mishaps considered: "crash" between two steps

ASSUME ReleaseAssumption ==
  /\ None \notin Payloads \cup Suites
  /\ MayHappen \subseteq {"crash"}

VARIABLES
  current,    \* the build identity the inputs have now
  suite,      \* the revision the sibling checkout is at
  candidate,  \* candidate.json
  accepted,   \* accepted.json
  archive,    \* the archive of each mode
  checksum,   \* the .sha256 file of each archive
  manifest,   \* release-manifest.json
  sums,       \* SHA256SUMS
  packaged,   \* package-macos.json
  passed,     \* history: the candidates both harnesses passed
  mishaps,    \* history: what has happened since the last complete reset
  pc,         \* the command in progress and where it is
  job         \* its local variables, None between commands

stage    == <<candidate, accepted>>
release  == <<archive, checksum, manifest, sums>>
history  == <<passed, mishaps>>
vars     == <<current, suite, stage, release, packaged, history, pc, job>>

(* With MACOS_SKIP_ACCEPTANCE an archive is named "-experimental". *)
Modes == {"accepted", "skipped"}
Kinds == {"candidate", "supplied", "verify"}

Identities == [inputs : Inputs, tools : Tools]
Candidates == [payload : Payloads, identity : Identities]
Packages   == [payload : Payloads, identity : Identities, mode : Modes]
Sums       == [payload : Payloads, manifest : Packages]
TestJobs   == [kind : Kinds, payload : Payloads, identity : Identities,
               first : Suites, second : Suites]

Resting == {"idle", "verified"}
Testing == {"product", "pause", "stealth", "promote", "report"}
Packing == {"checksum", "manifest", "sums", "record"}
Busy    == Testing \cup Packing \cup {"rm_stage", "rm_release", "rm_metadata"}

Rest       == pc \in Resting
At(l)      == pc = l
Goto(l)    == pc' = l
Return(l)  == pc' = l /\ job' = None
-----------------------------------------------------------------------------
(* stage-runtime, as far as it matters here: some bundle becomes the       *)
(* candidate of the current identity.                                      *)
Stage ==
  /\ Rest
  /\ \E p \in Payloads : candidate' = [payload |-> p, identity |-> current]
  /\ Goto("idle")
  /\ UNCHANGED <<current, suite, accepted, release, packaged, history, job>>

-----------------------------------------------------------------------------
(* test-staged *)

(* The digest of the acceptance source is taken as each harness starts. *)
TestBegin(kind, payload) ==
  /\ job' = [kind |-> kind, payload |-> payload, identity |-> current,
             first |-> suite, second |-> suite]
  /\ Goto("product")
  /\ UNCHANGED <<current, suite, stage, release, packaged, history>>

TestCandidate ==
  /\ Rest /\ candidate # None /\ candidate.identity = current
  /\ TestBegin("candidate", candidate.payload)

TestSupplied ==
  /\ Rest
  /\ \E p \in Payloads : TestBegin("supplied", p)

ProductPasses ==
  /\ At("product") /\ suite = job.first
  /\ Goto("pause")
  /\ UNCHANGED <<current, suite, stage, release, packaged, history, job>>

StealthBegins ==
  /\ At("pause")
  /\ job' = [job EXCEPT !.second = suite]
  /\ Goto("stealth")
  /\ UNCHANGED <<current, suite, stage, release, packaged, history>>

JobAccepted == [payload |-> job.payload, identity |-> job.identity]

StealthPasses ==
  /\ At("stealth") /\ suite = job.second
  /\ IF job.kind = "candidate"
     THEN passed' = passed \cup {JobAccepted} /\ Goto("promote")
     ELSE UNCHANGED passed /\ Goto("report")
  /\ UNCHANGED <<current, suite, stage, release, packaged, mishaps, job>>

(* promote_accepted *)
Promote ==
  /\ At("promote")
  /\ accepted' = JobAccepted
  /\ Goto("report")
  /\ UNCHANGED <<current, suite, candidate, release, packaged, history, job>>

ReportTest ==
  /\ At("report")
  /\ Return(IF job.kind = "verify" THEN "verified" ELSE "idle")
  /\ UNCHANGED <<current, suite, stage, release, packaged, history>>

(* A harness fails, or the acceptance source was changed under it, or the  *)
(* promoted copy fails its audit.                                          *)
TestFails ==
  /\ pc \in {"product", "stealth", "promote"}
  /\ Return("idle")
  /\ UNCHANGED <<current, suite, stage, release, packaged, history>>
-----------------------------------------------------------------------------
(* package *)

PublishArchive(mode) ==
  /\ archive' = [archive EXCEPT ![mode] = candidate.payload]
  /\ job' = [payload |-> candidate.payload, identity |-> candidate.identity, mode |-> mode]
  /\ Goto("checksum")
  /\ UNCHANGED <<current, suite, stage, checksum, manifest, sums, packaged, history>>

(* Mutant: the identity of the accepted record is not compared. *)
PackageAnyIdentity ==
  /\ Rest /\ candidate # None /\ candidate.identity = current
  /\ accepted # None /\ accepted.payload = candidate.payload
  /\ PublishArchive("accepted")

PackageAccepted ==
  /\ Rest /\ candidate # None /\ candidate.identity = current
  /\ accepted # None /\ accepted.payload = candidate.payload
  /\ accepted.identity = candidate.identity
  /\ PublishArchive("accepted")

PackageSkipping ==
  /\ Rest /\ candidate # None /\ candidate.identity = current
  /\ PublishArchive("skipped")

PublishChecksum ==
  /\ At("checksum")
  /\ checksum' = [checksum EXCEPT ![job.mode] = job.payload]
  /\ Goto("manifest")
  /\ UNCHANGED <<current, suite, stage, archive, manifest, sums, packaged, history, job>>

PublishManifest ==
  /\ At("manifest")
  /\ manifest' = job
  /\ Goto("sums")
  /\ UNCHANGED <<current, suite, stage, archive, checksum, sums, packaged, history, job>>

(* The source commit cannot be determined: the archive is out already. *)
ManifestFails ==
  /\ At("manifest")
  /\ Return("idle")
  /\ UNCHANGED <<current, suite, stage, release, packaged, history>>

(* Mutant: the sums are left to the next package. *)
PublishSumsNever ==
  /\ At("sums")
  /\ Goto("record")
  /\ UNCHANGED <<current, suite, stage, release, packaged, history, job>>

PublishSums ==
  /\ At("sums")
  /\ sums' = [payload |-> job.payload, manifest |-> manifest]
  /\ Goto("record")
  /\ UNCHANGED <<current, suite, stage, archive, checksum, manifest, packaged, history, job>>

RecordPackage ==
  /\ At("record")
  /\ packaged' = job
  /\ Return("idle")
  /\ UNCHANGED <<current, suite, stage, release, history>>
-----------------------------------------------------------------------------
(* verify-release: report, archive and manifest must agree on the digest,  *)
(* and the manifest with the lock and the overlay of the repository; then  *)
(* the extracted bundle is tested as a supplied one.                       *)
Verify ==
  /\ Rest /\ packaged # None /\ manifest # None
  /\ archive[packaged.mode] = packaged.payload
  /\ manifest.payload = packaged.payload
  /\ manifest.identity.inputs = current.inputs
  /\ TestBegin("verify", packaged.payload)

-----------------------------------------------------------------------------
(* reset --yes: stage/, release/, metadata/, in each file after file.      *)

ResetBegin ==
  /\ Rest /\ Goto("rm_stage")
  /\ UNCHANGED <<current, suite, stage, release, packaged, history, job>>

ResetStage ==
  /\ At("rm_stage")
  /\ \/ candidate # None /\ candidate' = None /\ UNCHANGED <<accepted, pc>>
     \/ accepted # None /\ accepted' = None /\ UNCHANGED <<candidate, pc>>
     \/ candidate = None /\ accepted = None /\ Goto("rm_release") /\ UNCHANGED stage
  /\ UNCHANGED <<current, suite, release, packaged, history, job>>

ResetRelease ==
  /\ At("rm_release")
  /\ \/ /\ \E m \in Modes :
             archive[m] # None /\ archive' = [archive EXCEPT ![m] = None]
        /\ UNCHANGED <<checksum, manifest, sums, pc>>
     \/ /\ \E m \in Modes :
             checksum[m] # None /\ checksum' = [checksum EXCEPT ![m] = None]
        /\ UNCHANGED <<archive, manifest, sums, pc>>
     \/ manifest # None /\ manifest' = None /\ UNCHANGED <<archive, checksum, sums, pc>>
     \/ sums # None /\ sums' = None /\ UNCHANGED <<archive, checksum, manifest, pc>>
     \/ /\ \A m \in Modes : archive[m] = None /\ checksum[m] = None
        /\ manifest = None /\ sums = None
        /\ Goto("rm_metadata") /\ UNCHANGED release
  /\ UNCHANGED <<current, suite, stage, packaged, history, job>>

ResetMetadata ==
  /\ At("rm_metadata")
  /\ packaged' = None
  /\ mishaps' = {}
  /\ Goto("idle")
  /\ UNCHANGED <<current, suite, stage, release, passed, job>>
-----------------------------------------------------------------------------

Crash ==
  /\ "crash" \in MayHappen /\ pc \in Busy
  /\ Return("idle")
  /\ mishaps' = mishaps \cup {"crash"}
  /\ UNCHANGED <<current, suite, stage, release, packaged, passed>>

ChangeInputs ==
  /\ Rest
  /\ \E i \in Identities \ {current} : current' = i
  /\ UNCHANGED <<suite, stage, release, packaged, history, pc, job>>

ChangeSuite ==
  /\ \E s \in Suites \ {suite} : suite' = s
  /\ UNCHANGED <<current, stage, release, packaged, history, pc, job>>

Init ==
  /\ current \in Identities /\ suite \in Suites
  /\ candidate = None /\ accepted = None /\ packaged = None
  /\ archive = [m \in Modes |-> None] /\ checksum = [m \in Modes |-> None]
  /\ manifest = None /\ sums = None
  /\ passed = {} /\ mishaps = {}
  /\ pc = "idle"
  /\ job = None

Test    == TestCandidate \/ TestSupplied \/ ProductPasses \/ StealthBegins
             \/ StealthPasses \/ Promote \/ ReportTest \/ TestFails
Package == PackageAccepted \/ PackageSkipping \/ PublishChecksum \/ PublishManifest
             \/ ManifestFails \/ PublishSums \/ RecordPackage
Reset   == ResetBegin \/ ResetStage \/ ResetRelease \/ ResetMetadata

Next == Stage \/ Test \/ Package \/ Verify \/ Reset \/ Crash \/ ChangeInputs \/ ChangeSuite

Spec == Init /\ [][Next]_vars
-----------------------------------------------------------------------------
(* Properties *)

(* Every file holds what some command writes to it. *)
TypeOK ==
  /\ current \in Identities /\ suite \in Suites
  /\ candidate \in Candidates \cup {None}
  /\ accepted \in Candidates \cup {None}
  /\ archive \in [Modes -> Payloads \cup {None}]
  /\ checksum \in [Modes -> Payloads \cup {None}]
  /\ manifest \in Packages \cup {None}
  /\ sums \in Sums \cup {None}
  /\ packaged \in Packages \cup {None}
  /\ passed \in SUBSET Candidates /\ mishaps \subseteq MayHappen
  /\ pc \in Resting \cup Busy
  /\ IF pc \in Testing THEN job \in TestJobs
     ELSE IF pc \in Packing THEN job \in Packages ELSE job = None
  /\ pc \in {"sums", "record"} => manifest \in Packages

(* Both harnesses have passed on exactly this bundle, as a candidate. *)
WasAccepted(payload) == \E t \in passed : t.payload = payload

(* Both harnesses have passed on this bundle under this build identity. *)
WasAcceptedAs(payload, identity) ==
  \E t \in passed : t.payload = payload /\ t.identity = identity

(* An archive under the regular name holds a bundle that passed acceptance, *)
(* however commands were interleaved, refused, repeated or interrupted.    *)
ArchiveWasAccepted ==
  archive["accepted"] # None => WasAccepted(archive["accepted"])

(* A manifest and a package report that do not confess a skipped           *)
(* acceptance name a bundle that passed under the very identity they give. *)
ReleaseIdentityWasAccepted ==
  /\ manifest # None /\ manifest.mode = "accepted" =>
       WasAcceptedAs(manifest.payload, manifest.identity)
  /\ packaged # None /\ packaged.mode = "accepted" =>
       WasAcceptedAs(packaged.payload, packaged.identity)

(* Neither can be had without the other: what is released under the        *)
(* regular name was accepted, bytes and identity.                          *)
ReleaseWasAccepted == ArchiveWasAccepted /\ ReleaseIdentityWasAccepted

(* If no command has died since the last reset, a release that verifies is *)
(* the work of one package run: report, manifest, archive, checksum and    *)
(* sums describe each other.                                               *)
VerifiedIsOneRelease ==
  pc = "verified" /\ mishaps = {} =>
    /\ manifest.mode = packaged.mode /\ manifest.identity = packaged.identity
    /\ checksum[packaged.mode] = archive[packaged.mode]
    /\ sums = [payload |-> archive[packaged.mode], manifest |-> manifest]

=============================================================================
