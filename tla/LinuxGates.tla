------------------------------ MODULE LinuxGates ------------------------------
(***************************************************************************)
(* The gates of a Linux work volume: what generate-gn.py (Gate D),         *)
(* audit-chrome-graph-driver.py (Gate F) and build.py check before a       *)
(* build, and what update_integration of prepare-source-driver.py takes    *)
(* back when it has changed the source.                                    *)
(*                                                                         *)
(* The gates leave reports in /work/metadata.  The profiles of a product   *)
(* share that directory and have an out/ directory each.  A later command  *)
(* looks for the reports of earlier ones, so what matters is which reports *)
(* are there, and what they were made of: they do not say it themselves,   *)
(* and the fields "graph" below are history.                               *)
(*                                                                         *)
(* Abstractions.  The source is the number of updates made to it, and an   *)
(* update that changes it has recorded it too: PatchUpdate is about that.  *)
(* The builder image carries the profiles and the locks.  Gates A, B and E *)
(* leave reports that are made once or read by nobody.  Nothing but        *)
(* .NOTPARALLEL keeps two commands apart; here there is one at a time.     *)
(***************************************************************************)
EXTENDS Naturals

CONSTANTS
  Profiles,    \* profiles of the product
  Images,      \* builder images
  MaxSource,   \* bound on the updates of the source
  None,        \* no file
  Mixed,       \* a Chrome left half rebuilt
  MayHappen    \* the mishaps considered: a gate or a build fails ("fail"), a
               \* command dies ("crash"), the image is built anew ("image")

ASSUME GatesAssumption ==
  /\ MaxSource \in Nat /\ None # Mixed
  /\ MayHappen \subseteq {"fail", "crash", "image"}

VARIABLES
  source,    \* the state of /work/src
  image,     \* the builder image
  gateC,     \* the source gate-c-report.json was made for
  gateD,     \* gate-d-report.json
  gateF,     \* gate-f-report.json
  graph,     \* the GN graph in the out/ of each profile
  chrome,    \* the Chrome in the out/ of each profile
  built,     \* build-<profile>.json: the graph it was written for
  verified,  \* history: the graphs Gate D has passed
  audited,   \* history: the graphs Gate F has passed, oracle included
  mishaps,   \* history: what has happened since the last complete update
  pc,        \* the command in progress and where it is
  job        \* the profile it works on

reports == <<gateC, gateD, gateF, built>>
out     == <<graph, chrome>>
history == <<verified, audited, mishaps>>
vars    == <<source, image, reports, out, history, pc, job>>

Graphs  == [profile : Profiles, source : 0..MaxSource, image : Images]
ReportD == [profile : Profiles, graph : Graphs]
ReportF == [status : {"complete", "failed"}, graph : Graphs]
(* No file is told from every file. *)
ASSUME NoneAssumption == None \notin Graphs \cup ReportD \cup ReportF \cup (0..MaxSource)

Resting == {"idle", "failed", "built", "tested"}
Busy    == {"verify", "oracle", "ninja", "drop_c", "drop_d", "drop_f", "drop_builds"}

Rest    == pc \in Resting
At(l)   == pc = l
Goto(l) == pc' = l
Fails   == "fail" \in MayHappen /\ Goto("failed") /\ mishaps' = mishaps \cup {"fail"}
-----------------------------------------------------------------------------
(* Gate C, verify-source.py: the report is written if all checks pass, and *)
(* an older one is left alone if they do not.                              *)
GateC ==
  /\ Rest
  /\ gateC' = source
  /\ Goto("idle")
  /\ UNCHANGED <<source, image, gateD, gateF, built, out, history, job>>

(* Gate D *)

(* Mutant: out/ is removed before gn gen writes to it. *)
GenerateGraphAnew(p) ==
  /\ Rest /\ gateC # None
  /\ graph' = [graph EXCEPT ![p] = [profile |-> p, source |-> source, image |-> image]]
  /\ chrome' = [chrome EXCEPT ![p] = None]
  /\ job' = p
  /\ Goto("verify")
  /\ UNCHANGED <<source, image, reports, history>>

GenerateGraph(p) ==
  /\ Rest /\ gateC # None
  /\ graph' = [graph EXCEPT ![p] = [profile |-> p, source |-> source, image |-> image]]
  /\ job' = p
  /\ Goto("verify")
  /\ UNCHANGED <<source, image, reports, chrome, history>>

VerifyGraph ==
  /\ At("verify")
  /\ \/ /\ gateD' = [profile |-> job, graph |-> graph[job]]
        /\ verified' = verified \cup {graph[job]}
        /\ Goto("idle") /\ UNCHANGED mishaps
     \/ Fails /\ UNCHANGED <<gateD, verified>>
  /\ UNCHANGED <<source, image, gateC, gateF, built, out, audited, job>>

(* Gate F: the audit writes its report whether it finds failures or not.   *)
AuditGraph(p) ==
  /\ Rest /\ gateD # None /\ graph[p] # None
  /\ job' = p
  /\ \/ /\ gateF' = [status |-> "complete", graph |-> graph[p]]
        /\ Goto("oracle") /\ UNCHANGED mishaps
     \/ gateF' = [status |-> "failed", graph |-> graph[p]] /\ Fails
  /\ UNCHANGED <<source, image, gateC, gateD, built, out, verified, audited>>

(* The second enumeration and the second classifier. *)
Oracle ==
  /\ At("oracle")
  /\ \/ audited' = audited \cup {graph[job]} /\ Goto("idle") /\ UNCHANGED mishaps
     \/ Fails /\ UNCHANGED audited
  /\ UNCHANGED <<source, image, reports, out, verified, job>>
-----------------------------------------------------------------------------
(* build *)

(* Mutant: the profile Gate D passed for is not compared. *)
BuildAnyProfile(p) ==
  /\ Rest /\ gateD # None /\ gateF # None
  /\ graph[p] # None
  /\ job' = p
  /\ chrome' = [chrome EXCEPT ![p] = IF @ = graph[p] THEN @ ELSE Mixed]
  /\ Goto("ninja")
  /\ UNCHANGED <<source, image, reports, graph, history>>

(* Both reports must be there, and Gate D's must name the profile. *)
Build(p) ==
  /\ Rest /\ gateD # None /\ gateF # None
  /\ gateD.profile = p
  /\ graph[p] # None
  /\ job' = p
  /\ chrome' = [chrome EXCEPT ![p] = IF @ = graph[p] THEN @ ELSE Mixed]
  /\ Goto("ninja")
  /\ UNCHANGED <<source, image, reports, graph, history>>

Ninja ==
  /\ At("ninja")
  /\ \/ /\ chrome' = [chrome EXCEPT ![job] = graph[job]]
        /\ built' = [built EXCEPT ![job] = graph[job]]
        /\ Goto("built") /\ UNCHANGED mishaps
     \/ Fails /\ UNCHANGED <<chrome, built>>
  /\ UNCHANGED <<source, image, gateC, gateD, gateF, graph, verified, audited, job>>

(* test: the driver asks for the build report alone. *)
Test(p) ==
  /\ Rest /\ built[p] # None
  /\ job' = p
  /\ Goto("tested")
  /\ UNCHANGED <<source, image, reports, out, history>>
-----------------------------------------------------------------------------
(* update_integration, from the moment patches.json lists the new patches. *)

UpdateSource ==
  /\ Rest /\ source < MaxSource
  /\ source' = source + 1
  /\ Goto("drop_c")
  /\ UNCHANGED <<image, reports, out, history, job>>

DropC ==
  /\ At("drop_c")
  /\ gateC' = None
  /\ Goto("drop_d")
  /\ UNCHANGED <<source, image, gateD, gateF, built, out, history, job>>

DropD ==
  /\ At("drop_d")
  /\ gateD' = None
  /\ Goto("drop_f")
  /\ UNCHANGED <<source, image, gateC, gateF, built, out, history, job>>

(* Mutant: the report of Gate F is left. *)
DropFNever ==
  /\ At("drop_f")
  /\ Goto("drop_builds")
  /\ UNCHANGED <<source, image, reports, out, history, job>>

DropF ==
  /\ At("drop_f")
  /\ gateF' = None
  /\ Goto("drop_builds")
  /\ UNCHANGED <<source, image, gateC, gateD, built, out, history, job>>

(* Mutant: the build reports are left. *)
DropBuildsNever ==
  /\ At("drop_builds")
  /\ Goto("idle")
  /\ UNCHANGED <<source, image, reports, out, history, job>>

DropBuilds ==
  /\ At("drop_builds")
  /\ \/ /\ \E p \in Profiles : built[p] # None /\ built' = [built EXCEPT ![p] = None]
        /\ UNCHANGED <<mishaps, pc>>
     \/ /\ \A p \in Profiles : built[p] = None
        /\ mishaps' = {}
        /\ Goto("idle")
        /\ UNCHANGED built
  /\ UNCHANGED <<source, image, gateC, gateD, gateF, out, verified, audited, job>>
-----------------------------------------------------------------------------

Crash ==
  /\ "crash" \in MayHappen /\ pc \in Busy
  /\ Goto("idle")
  /\ mishaps' = mishaps \cup {"crash"}
  /\ UNCHANGED <<source, image, reports, out, verified, audited, job>>

(* chromium-build image, after an edit of the repository. *)
RebuildImage ==
  /\ "image" \in MayHappen /\ Rest
  /\ \E i \in Images \ {image} : image' = i
  /\ Goto("idle")
  /\ mishaps' = mishaps \cup {"image"}
  /\ UNCHANGED <<source, reports, out, verified, audited, job>>

Init ==
  /\ source = 0 /\ image \in Images
  /\ gateC = None /\ gateD = None /\ gateF = None
  /\ graph  = [p \in Profiles |-> None]
  /\ chrome = [p \in Profiles |-> None]
  /\ built  = [p \in Profiles |-> None]
  /\ verified = {} /\ audited = {} /\ mishaps = {}
  /\ pc = "idle"
  /\ job \in Profiles

Gates  == \/ GateC
          \/ \E p \in Profiles : GenerateGraph(p) \/ AuditGraph(p)
          \/ VerifyGraph \/ Oracle
Make   == (\E p \in Profiles : Build(p) \/ Test(p)) \/ Ninja
Update == UpdateSource \/ DropC \/ DropD \/ DropF \/ DropBuilds

Next == Gates \/ Make \/ Update \/ Crash \/ RebuildImage

Spec == Init /\ [][Next]_vars
-----------------------------------------------------------------------------
(* Properties *)

(* Every report is of the kind its gate writes. *)
TypeOK ==
  /\ source \in 0..MaxSource /\ image \in Images
  /\ gateC \in (0..MaxSource) \cup {None}
  /\ gateD \in ReportD \cup {None} /\ gateF \in ReportF \cup {None}
  /\ graph \in [Profiles -> Graphs \cup {None}]
  /\ chrome \in [Profiles -> Graphs \cup {None, Mixed}]
  /\ built \in [Profiles -> Graphs \cup {None}]
  /\ verified \in SUBSET Graphs /\ audited \in SUBSET Graphs /\ mishaps \subseteq MayHappen
  /\ pc \in Resting \cup Busy /\ job \in Profiles
  /\ pc \in {"verify", "oracle", "ninja"} => graph[job] # None

(* No other profile has a graph in the volume. *)
Alone(p) == \A q \in Profiles \ {p} : graph[q] = None

(* With one profile in the volume, and if since the last complete update   *)
(* no gate failed, no command died and the image stayed, a build that      *)
(* succeeds was made with the very graph Gate F has passed.                *)
BuildIsAudited ==
  pc = "built" /\ mishaps = {} /\ Alone(job) => graph[job] \in audited

(* Whatever fails or dies, a profile is built only after Gate D has passed *)
(* for a graph of that very profile.                                       *)
BuildIsOfGatedProfile ==
  pc \in {"ninja", "built"} => \E g \in verified : g.profile = job

(* A build report is of the source that is there: an update takes all of   *)
(* them back before it ends, and so no test runs on an older source, if no *)
(* update died.                                                            *)
BuildReportIsCurrent ==
  Rest /\ "crash" \notin mishaps =>
    \A p \in Profiles : built[p] # None => built[p].source = source

(* The Chrome that is tested is the one the build report is about, if no   *)
(* build failed or died since the last complete update.                    *)
TestedIsBuilt ==
  pc = "tested" /\ mishaps \subseteq {"image"} => chrome[job] = built[job]

=============================================================================
