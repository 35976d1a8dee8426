# chromium-build: specifications, model checks and proofs

`chromium-build` is a set of Python programs around a Chromium checkout. They
fetch and prepare the source, configure and build it, gate and test the result,
package it, and install it on a user's machine. Most of them are commands that
an operator runs one after another, hours apart. What a command knows of the
commands before it is what they left on disk: source trees, output directories,
and small JSON reports that say what was done. Nearly every hazard of this code
is therefore of one kind: a report that no longer describes what it lies beside,
because a command died, failed, ran in another order, or ran with other inputs.
The other kind is in the browser tests, where one thread talks to a browser that
sends what it wants when it wants, under deadlines.

Paths below are relative to `src/`. `TLC` runs the `*.cfg` files, `tlapm` checks
the `*_proofs.tla` modules.

## 1. Inventory

| Part | Code | State it keeps | Operations | Modelled by |
|---|---|---|---|---|
| Installer | `scripts/runtime_install.py` | version slots, the links `<prefix>`, `<prefix>.previous`, `bin/helium` | install, rollback and their undo paths | `RuntimeInstall`, `VersionSwitch` |
| macOS source | `scripts/macos_backend.py` | source tree, `source-acquired.json`, `prepare-macos.json` | fetch, prepare (fresh, append, reuse), reset | `MacSource` |
| macOS build | same | `args.gn`, `out/`, `configure-macos.json`, `build-macos.json`, the staged candidate | configure, build, stage-runtime, reset | `MacBuild` |
| macOS release | same | candidate and accepted record, archive, checksum, manifest, sums, package report | test-staged, package, verify-release, reset | `MacRelease` |
| Helium update | `scripts/prepare-source-driver.py` | source files, the disposition report | update-integration | `PatchUpdate` |
| Linux gates | `scripts/generate-gn.py`, `audit-chrome-graph*.py`, `build.py`, `verify-source.py`, `test-functional-driver.py` | the gate reports of a volume, an output directory per profile | gates C, D, F, build, functional test, source update | `LinuxGates` |
| CDP client | `scripts/browser_test_support.py`, `helium_test_fast.py`, `test-functional.py` | saved events, read buffers, the message being put together | call, wait_event, receive, send | `CdpConnection`, `CdpWebSocket`, `CdpPipe`, `CdpTransports`, `MessageChannel` |
| Work root and locks | `scripts/macos_backend.py` 430-520, 4500-4589 | marker, layout, the two lock files | claim the root, wait for the lock | `WorkRoot` |
| Downloads | same, 1150-1330 | locked inputs, threads, one descriptor | download inputs, and a large one in ranges | `LockedInputs` |
| macOS fetch | same, 1640-2330 | depot_tools, source with its Git metadata, a lite archive moved aside, `.gclient`, stamp, reports | fetch, reset | `MacFetch` |
| Linux preparation, a tree | `scripts/prepare-source.py`, `prepare-helium.py`, `verify-source.py` | a tree, and three reports on it | patch, prune, substitute, link; Gate C | `SourceRecipe` |
| Linux preparation, the volume | `scripts/fetch-inputs.py`, `prepare-source-driver.py` | inputs, fetch report and stamp, source with its stamp, reports, receipt | fetch, prepare, reuse | `LinuxPrepare` |
| Linux libraries | `scripts/stage-runtime.py` 276-328, `package-runtime.py` 88-113, `linux_runtime.py` 130-159, 222-347 | `lib/` of a bundle, the list of a walk | copy the closure, audit it | `LibraryClosure` |
| Linux release | rest of `stage-runtime.py`, `package-runtime.py`, `helium_test_fast.py`, `qualify-package.py`, the checks of `runtime_install.py` | list of run-time needs, stage, archive, checksum, package directory, test report, acceptance | stage, package, test, qualify, install | `LinuxRelease` |
| Process teardown, Wayland | `scripts/browser_test_support.py` 380-566, `helium_wayland.py` | processes, a socket, a directory | start, terminate | not modelled (section 7) |
| GN arguments, probes, CI checks, front ends | `scripts/generate-gn-args.py`, `linux_product.py`, `verify-environment.py`, ... | none, or one report each | straight-line checks | not modelled (section 7) |

How the parts meet:

- Within a platform, through files. On macOS `MacFetch` (over `WorkRoot` and
  `LockedInputs`) makes the tree that `MacSource` patches; `MacSource`, which has fetch in
  three steps, leaves the tree and the report that `MacBuild` starts from (its
  `Prepare`); `MacBuild` leaves the candidate that `MacRelease` tests (its `Stage`). On
  Linux `LinuxPrepare` (over `SourceRecipe`) makes the tree that `PatchUpdate` changes
  and `LinuxGates` builds from; `LinuxRelease` packages what was built, with the
  libraries of `LibraryClosure`, up to the point where `RuntimeInstall` takes over.
  `PatchUpdate` records what it has changed before it takes back the reports of
  `LinuxGates` (its `Update`).
- Between processes at once: two commands on one macOS work root meet at the locks of
  `WorkRoot`. The containers of Linux have no lock, and any two may run on one volume.
- With the operator, who edits the lock, the patch series, the settings and the
  acceptance checkout between commands, or during one.
- With the operating system, which may stop a command between any two writes.
- The CDP client with a browser, over a WebSocket or a pair of pipes.

What makes each part correct, and what can break it, is listed line by line in
`PROJECT.json` under `hazards`, with the properties that watch over each.

## 2. Plan

Done: the parts with the most state and the most ways to go wrong, in this order:
`RuntimeInstall`, `MacSource`, `MacBuild`, `MacRelease`, `PatchUpdate`, `LinuxGates`,
`CdpConnection`, the two transports, `LibraryClosure`; then `SourceRecipe` and
`LinuxPrepare`, `LinuxRelease`, and `WorkRoot`, `LockedInputs` and `MacFetch`, which are
composed by EXTENDS: a module adds its state and its actions to those of the module
below. Every safety property that a run checks is also proved (section 5).

Left, in this order:

1. Compositions: `PatchUpdate` under the `Update` of `LinuxGates`, and `MacSource`
   under the `Prepare` of `MacBuild`.
2. `ProcessTeardown`, and the Wayland harness on top of it, if the kernel's rules for
   groups, orphans and pids are first written down as a module of their own.

## 3. Conventions of the models

**One action, one write.** A command is a sequence of actions, one for each change
that is visible on disk (or on a link, a pipe, a socket). `pc` says where it is and
`job` holds its local variables, so that a command can die between any two writes,
and so that what it read at its beginning may be stale when it uses it. Reads and
checks up to the next write are in the same action.

**Mishaps.** Constant `MayHappen` says which mishaps an instance considers and the
history variable `mishaps` which of them have happened: since the beginning, or
where the code has a command that recovers from everything (`reset`, a complete
update) since that command. Some properties hold only until a mishap, and say so in
their antecedent: `"crash" \notin mishaps`. Variables named `clean`, `torn` and
`created` do the same work in `PatchUpdate`, `CdpWebSocket` and `CdpConnection`. A
run lets everything happen and checks all properties, those that hold always and
those that hold until something goes wrong, together. What does go wrong beyond the
condition is described in section 6.

**Crashes.** A crash is an action of its own, enabled while a command is in
progress. It leaves the disk as it is and forgets the local variables. A removal
of a directory, which is no single step, has states of its own in between. After a
crash any command may be tried, and its own guards say whether it runs.

**Data.** A digest is the thing digested. A patch is a model value, a tree is the
list of its patches, a bundle is one value, a build identity is a record of what it
depends on. Command-line text, JSON layout and log messages are left out.

## 4. Modules and code

`PROJECT.json` maps each definition to the lines it stands for. In short:

**`RuntimeInstall`** (`runtime_install.py`). State: `slot` (each version directory:
absent, whole, torn, or bare of its manifest), the three links, and per process
`pc` and `job` (`origin` is the code's `created_slot`, `oldTarget` and `oldLauncher`
its locals). `BeginInstall` to `FinalProbe` are `install` (271-338) in its order:
validate, publish the slot, probe it, remember the replaced version, switch prefix,
switch launcher, probe again. `UndoPrefix`, `UndoPrevious`, `UndoLauncher`,
`TearSlot` and `ClearSlot` are its two `except` branches. Actions whose names begin
with `Rb` are `rollback` (341-371). `Crash` ends a process anywhere; `Relink` is a user
who points a link elsewhere between operations.
**`VersionSwitch`** is what a user sees of it: versions kept, one active, one to
fall back to.

**`WorkRoot`** (`macos_backend.py` `main`, `WorkLayout`, `operation_lock`). State: what
stands in the root, who holds which lock, where each process is, who was killed.
A process takes the initialization lock, looks, writes the marker through a
temporary file, lays out the directories, and waits for the lock in the root.
**`LockedInputs`** (`download_locked_entries`, `download_ranges`). State: `inputs`, a state
for each input of the lock and for each range of the large one, and the one
`descriptor` the ranges are written through. Verified files stay, files that do not
verify stop the fetch, a failure lets the running threads come to their end.
**`MacFetch`** (`fetch_inputs`, `clone_depot_tools`, `replace_archive_with_git_source`,
`initialize_chromium_git_hook_metadata`, `sync`, `reset_work`). State: `depot` for how far the
checkout of depot_tools has come, `tree` with its method, revision, and the state of
each dependency root in it, the record, the lite archive moved aside, `.gclient`,
stamp and report. One action for each step that leaves something behind; `pc` is the
step of the one command that holds the lock. The network may fail at any step.

**`MacSource`** (`macos_backend.py` `fetch_inputs`, `prepare_source`, `apply_native_overlay`,
`reset_work`). State: the tree as `[base, body, files, overlay]`, the acquisition
record and the preparation marker, beside the lock and the series the operator
edits. `prepare` is three ways (fresh, reuse, append), one action for each patch.

**`MacBuild`** (`configure_source`, `build_source`, `stage_runtime`). State: the
reports, `graph` and `app` for what is in `out/`, and `candidate`. GN and ninja change
`out/` in place; a build that fails or dies leaves it `Mixed`. `Prepare` is the whole
of `MacSource`'s preparation as one step that does what it promises.

**`MacRelease`** (`test_staged`, `package_bundle`, `verify_release_bundle`). State: candidate and
accepted record, the published files, each written by an action of its own. The
two harnesses each read the revision of the acceptance checkout, which may change
at any moment. `verify-release` reads the files as the code does; after a crash
`SHA256SUMS` may therefore be older than what it lists, which no check reads.

**`PatchUpdate`** (`update_integration`). State: which patches each file carries, the
report, and the update's locals with its backup. `Patched` applies one patch file by
file as `patch --batch` does, toggling a file that has it already.

**`SourceRecipe`** (`prepare-source.py`, `prepare-helium.py`, `verify-source.py`). No state: each
step is an operator from trees to the set of trees it may leave, empty if the program
stops, and `Chromium` and `Helium` compose the steps in the order of the two programs.
A recipe says what the archive has, what is pruned, kept and substituted, and what
three layers of patches do. `GateC` is the conjunction of its checks.
**`LinuxPrepare`** (`fetch-inputs.py`, `prepare-source-driver.py`). State: `inputs`, the fetch report
and its stamp, `source` with the lock and the inputs it was made of, each report in
the shared metadata directory, and the receipt. A lock belongs to the image, so it
changes between commands only.

**`LinuxGates`** (`generate-gn.py`, `audit-chrome-graph*.py`, `build.py`,
`test-functional-driver.py`, the end of `update_integration`). State: which reports
exist and, as history, the graph each was made of; the graph and the Chrome of
each profile's `out/`.

**`LinuxRelease`** (`stage-runtime.py`, `package-runtime.py`, `helium_test_fast.py`, `qualify-package.py`,
`runtime_install.py`). State: `out` and the list of run-time needs beside it, the stage as
a function from files to the build each is of, the three artifacts of each version,
the package directory, the test report, and a variable for each of the five
commands. A bundle is copied file by file, the three artifacts are replaced and
copied one by one.

**`CdpConnection`** (`call`, `wait_event` and the navigation helpers of the tests).
State: the client's list of kept events and its place in the script; the browser's
page, loads in progress and the channel. Everything of the browser is external.
`doing` is where the client is: between two operations, waiting for an answer, or
waiting for an event. `VisitAssumption` says what the navigation helpers make of a test:
a wait for the frame follows each navigation and nothing else, and a wait for its DOM
follows that.
**`CdpWebSocket`** and **`CdpPipe`** are the two ways a message gets to it: frame by
frame under a socket timeout (`reading` is what `receive` reads next, `Frames(m, n)` the
halves of message `m` in `n` frames), and through a bounded pipe. **`CdpTransports`** puts
one of them behind a connection (`TransportSpec`) and shows both to implement
**`MessageChannel`**.

**`LibraryClosure`** (`copy_system_closure`, `bundle_libraries`, `_resolve_needed`,
`audit_tree`, `audit_closure`). State: `lib` and `pending`. `HeliumCopies` and
`ChromiumCopies` are one turn of the respective `while pending` loop. The two loops
differ in when a library counts as copied and in what they refuse. `Audit` is
`audit_closure` for Chromium (`AuditClosure`) and `audit_tree` for Helium (`AuditTree`): no
file of the tree `Fails`. `Lacks` and `TwoProviders` are what `_resolve_needed` finds,
`SharesSoname` and `NeedsGlibc` are checks of their own, and `OutsideRuntime` is the GNU
C++ runtime outside `graphics_gnu_allowlist` and `ffmpeg_closure`; the closure is written
as what is in every set closed under the walk, without a loop. What is wrong with a
file by itself (class, machine, interpreter, search paths) is the mark `unfit`. A copied
library can therefore be rejected, as `tests/test_helium_runtime.py` 324-334 has it for a
SONAME, and `RefusedForCause` says for what: never for a library that is missing or
of glibc.

## 5. What is checked and proved

Each run checks its whole list at once, the properties that always hold and those
that hold until a mishap. All runs pass.

| Run | Instance | What it shows |
|---|---|---|
| `install` | one installer, three versions, crashes, a user who relinks | links never dangle; a failed operation restores the product and a successful one can be rolled back; without a crash the installer accepts its own links and the active version is whole; it implements `VersionSwitch` |
| `source` | two revisions, series `a`, `ab`, `abc`, `d`, crashes, rejects, edits | a prepared tree is exact until something goes wrong; a half-patched tree is never published; no patch is applied twice; the marker stays behind the tree |
| `build` | two patches, two settings, crashes, failures, a shrinking series | each phase holds what its report names until something goes wrong; a candidate's identity was compiled to the end; no wrong overlay without a shrinking series |
| `release` | two bundles, two inputs, two suites, crashes | regular archive, manifest and report name bundles that passed both harnesses; a verified release is of one package run if nothing died |
| `update` | three patches over five files, refusals, crashes | recorded patches are never touched; success is what a fresh preparation gives, and failure what there was, when patches are independent |
| `gates` | two profiles, two images, two updates, failures, crashes | Gate D of the very profile precedes each build; graph, report and tested Chrome agree until something goes wrong |
| `connection` | a target blank or with its page, two navigations, at most seven events | no event lost or taken twice; evaluations are in the page asked for; the script ends |
| `transports` | three messages of up to three frames and two pings; four commands over a pipe of three items, two deadlines | both transports implement `MessageChannel`; commands arrive whole; what is sent is received |
| `closure` | a browser, a helper with the file name of a library, five libraries (graphics, NSS, FFmpeg, the C++ runtime, glibc) with needs in cycles, two images, any libraries brought by the build | a walk ends with the least closed set, refuses only where it must, and always progresses; the audit rejects what was copied only for what no walk looks at |
| `prepare` | two products, three locks that share inputs and file names, recipes with one path in every combination of archive, lists and patches, two workers, a kill | the fetch report is backed by verified files; a tree in its place went through every step; reports and Gate C are about the tree that is there until a kill; what Gate C accepts is clean without exception |
| `packages` | a build for each of two versions, two package runs, any two of five commands at once, a kill | a bundle is of one stage; what is installed is the archive that was accepted; an acceptance rests on a passing test whose browser was closed |
| `fetch` | two processes on a root that is new, foreign or an older backend's, three locks, an input of three ranges, two threads of each kind, two dependency roots that name each other, a kill, an edit of the lock | no range is written through a closed descriptor; a failing network never stands in the way of the next fetch; a fetch that reports success has done every step for its lock; gclient never overwrites what the archive brought |

**Bounds, and why they are enough.** Nothing but equality is asked of versions,
bundles, identities, settings, profiles and images, so two of each tell a right one
from a wrong one; three version slots are needed so that active, previous and new
differ. The series of `source` are the three edits an operator makes: append,
append again, replace. Three patches are what it takes for one that is independent,
one that shares a file and one that creates a file. Two loads tell events of the
right load from those of an earlier one. Three frames give a message a first, a
middle and a last one; a pipe of three items holds less than two commands.
The recipes of `prepare` put one path through every combination, since no step of a
preparation relates two paths of a list to each other; three locks are what it takes
for two that share their archive and one whose input has the file name of another's.
In `closure` each thing that `audit_tree` asks is found amiss in some tree and in order in
another: the C++ runtime of a graphics library, of an FFmpeg library, of one that FFmpeg
needs and of neither, a name with two providers, two files of one SONAME.
In `fetch` three ranges with two threads let one fail while one runs and one waits;
two processes are enough for a lock, and two roots that name each other for the walk
over `DEPS` to meet a cycle. Two package runs put files of an earlier one beside those
of the later. `MaxSource`, `MaxReports`, `MaxMessages`, `MaxPings`, `MaxCommands`,
`MaxTimeOuts`, `MaxKills`, `MaxEdits`, `MaxBusy`, `MaxRuns` and `MaxCrashes` are bounds of the
instances and not of the program. The runs `prepare`, `packages` and `fetch` have one
kill to stay within a minute or two; with two, which take six to nine million
states, the same properties and the type invariants hold.

`release` and `gates` carry a `CONSTRAINT OneVaries`: among everything the files
and the history name, either the bundle or the identity is the same (`release`), and
of profile, source and image only one differs (`gates`). A confusion of two
values of one kind is inside that bound; a confusion that needs both at once is
not checked there (the theorems on `ReleaseWasAccepted` and `BuildIsOfGatedProfile` have
no such bound). Both runs, and `fetch` for its processes, use symmetry over the
interchangeable constants, which is sound for invariants, and check only those.

**Types.** Each module states its type invariant. It is proved for every component, and
no run repeats it.

**Deadlock** is checked except in `install`, where a script of the user's in the
place of a link makes every operation refuse for good, and in `connection` and
`transports`, where a script and a browser come to their end.

**Fairness** is assumed in the CDP modules alone: the client goes on reading as long as
its deadline has not passed, the browser handles what it is sent and goes on with
its loads, and what has been put into a pipe or a socket gets out. These are a
single loop and an operating system that schedules it. No fairness is assumed of the
commands of an operator, who may stop at any time, so they have safety properties
only; `ComesToAnEnd` says by a measure, without fairness, that a walk terminates.

**Each property can fail.** For every pair of run and property there is a mutant of a
mapped definition, a bug that is plausible there, that TLC refutes. The mutants stand
before the definitions they replace and are otherwise unused.

### Proofs

| Module | Theorem | Says, for all constants | Rests on |
|---|---|---|---|
| `RuntimeInstall_proofs` | `TypeCorrect` | types, any number of installers | |
| | `LinksAlwaysResolve` | no link dangles | `OneInstaller` |
| | `ImplementsVersionSwitch` | refinement of `VersionSwitch` | `OneInstaller` |
| | `OperationsAreAllOrNothing` | a failed operation restores the product, a successful one can be rolled back | `OneInstaller` |
| | `OwnLinksAreAccepted`, `ActiveVersionIsWhole` | the installer accepts its own links; the active version is whole | `OneInstaller` |
| `MacSource_proofs` | `TypeCorrect`, `PartialsAreUnpublished`, `PatchesAppliedOnce` | types; a midway tree has no marker; no patch twice | `SourceAssumption` |
| | `MarkersAreBehind`, `PreparesAreExact` | the marker stays behind the tree; a prepared tree is exact | `SourceAssumption`, `NoneAssumption` |
| `MacBuild_proofs` | `TypeCorrect`, `CandidatesWereCompleted` | types; a candidate's identity was compiled | `BuildAssumption` |
| | `CandidatesHaveOverlay`, `PhasesHoldWhatTheyName` | graph, application and candidate are what is said of them | `BuildAssumption`, `NoneAssumption` |
| `MacRelease_proofs` | `TypeCorrect`, `EvidenceInvariant`, `ReleasesAreAccepted` | published files name accepted bundles | `ReleaseAssumption` |
| | `VerifiedReleasesAreOne` | a verified release is of one package run | `ReleaseAssumption` |
| `LinuxSource_proofs`, `PatchUpdate` | `TypeCorrect`, `RecordedPatchesStay` | recorded patches are not touched | `PatchAssumption` |
| | `UpdatesAreAllOrNothing` | an update does all it says or, with independent patches, nothing | `PatchAssumption` |
| same, `LinuxPrepare` | `PrepareTypeCorrect` | types | `PrepareAssumption` |
| | `FetchReportsAreBacked` | a reported fetch has its files, verified | `PrepareAssumption`, `RecipeAssumption`, `NoneAssumption`, `NamesDiffer` |
| | `PublishedTreesArePrepared`, `ReportsAreOfTheSource`, `AcceptedTreesArePrepared` | a tree in its place, its reports, and what Gate C accepts | the same |
| `LinuxTests_proofs`, `LinuxGates` | `TypeCorrect`, `BuildsAreGated` | Gate D passed for the profile that is built | `GatesAssumption`, `NoneAssumption` |
| | `BuildReportsAreCurrent`, `BuildsAreAudited`, `TestedIsReported` | what is built and tested is what the reports are about | the same |
| same, `CdpTransports` | `TransportIsSound`, `TransportTypeCorrect` | the inductive invariant of both transports; types | `TransportAssumption` |
| | `EitherIsChannel`, `CommandsComeWhole` | refinement of `MessageChannel`: by either transport towards the client, by the pipe towards the browser | the same |
| same, `CdpConnection` | `ConnectionIsSound`, `ConnectionTypeCorrect` | the inductive invariant of client, browser and page; types | `ConnectionAssumption`, `VisitAssumption` |
| | `TestsReachTheirPage` | what a test evaluates on a blank target is evaluated in the document it asked for | the same |
| | `EventsAreKept` | no event is lost, and none is taken twice | the same |
| `LinuxBundle_proofs`, `LibraryClosure` | `TypeCorrect`, `WalksCopyLeastClosure`, `RefusalsHaveCause`, `WalksComeToAnEnd` | all three properties of the walks and the audits | `ClosureAssumption` |
| same, `LinuxRelease` | `ReleaseTypeCorrect` | types | `ReleaseAssumption` of `LinuxRelease` |
| | `PackagesAreOneStage`, `AcceptancesAreOfPassingTests`, `InstallsAreAccepted` | from the stage to the installed archive | the same |
| `MacFetch_proofs` | `TypeCorrect` | types, with those of `WorkRoot` and `LockedInputs` | `WorkRootAssumption`, `InputsAssumption`, `FetchAssumption`, `NoneAssumption` |
| | `WritesNeverStray` | no range is written through a closed descriptor | the same |
| | `RefusalsHaveCause` | nobody is refused for what commands that were not killed left behind | the same |
| | `FetchesAreWhole`, `ArchivesAreSpared` | a reported fetch has done every step; gclient overwrites nothing of the archive | the same |

What a component assumes of its constants is stated in its module and evaluated in
each run. `FetchAssumption` says among other things that no two inputs of one lock
have the same file name, and so does `NamesDiffer`, a hypothesis of the theorems on
`LinuxPrepare`; it is so in the lock files of `config/`, and of two with one name the
later would replace the earlier. `OneInstaller` is a hypothesis too: the actions of the
module are for any number. `VisitAssumption` restricts the scripts of `CdpConnection` to
those the three navigation helpers produce; a script that navigates without waiting
need not reach its page. Three proof modules hold more than
one component each, for which `LinuxPrepare`, `LibraryClosure` and the CDP modules have
names of their own for what the other modules call `Init`, `Next`, `Spec`, `TypeOK`, `pc`
and so on. The components of one module share no variable, and no theorem on one cites
a fact about another.

None of the properties is inductive by itself:

- *Installer.* A link is safe because of what an operation in progress still
  means to do. `JobOK` says what it relies on: its slot is on disk once probed, the
  targets it saved to restore are on disk, and a slot it created is named by no link
  when it is torn down. With two installers this fails, hence `OneInstaller`.
  `Remembers` says for each place of an operation which links are already new and that
  what it saved of the others is what it found; `ManagedInv` and `WholeInv` hold until
  a mishap, the latter for all slots but the one being removed.
- *Source.* `WorkingTree` ties `pc` to the body of the tree: `patching` means a midway
  tree and no marker. `NoPatchTwice` rests on the dry run of each patch, and on the
  lemma that appending what a sequence lacks keeps it without repetitions. For the
  rest, `PrepareIsAhead`: what a running prepare has applied and what it has left are
  together what its marker will claim; and while `NothingIsAmiss`, record and marker
  describe the tree they lie beside.
- *Evidence* (build, release, gates). The invariants carry evidence along: from history to the
  local variables of the command that found it, from there to the report it
  writes, and from the report to the next command that reads it. History only
  grows.
- *Build.* While the series only grows, what is configured and what is built is no
  longer than the tree's overlay, and the application no shorter than the build report
  says (`OverlayGrows`). `GraphIsReported` and `AppIsReported` tie `out/` to the reports at
  rest and to the command in progress otherwise; a reset needs `Removed`.
- *Release.* `OneRelease`: what a package run in progress has written so far agrees with
  its locals, and apart from what it writes next the files describe each other.
- *Gates.* `DroppedInv`: a step of an update finds the reports of the earlier steps gone.
  With it build reports and Gate D's are of the source that is there (`CurrentInv`), and
  of what is in `out/` (`BuiltInv`). `AuditedInv` needs that one profile alone has a graph,
  since the report of Gate F does not say whose.
- *Update.* What is kept of a file agrees with the file on all recorded patches, and
  the patches in hand are not recorded. `GoesAhead` says that the tree is that of the
  patches recorded and applied so far, `CanGoBack` that undoing what was applied, from
  the copies, gives the recorded tree if no two patches share a file.
- *Closure.* What has been looked at has its needs in `lib/` or on the list, and nothing
  is in either that some closed set does without; a refusal is then a fact about
  every closed set and not about the order of the walk. What was copied has its needs
  in `lib/`, so that `audit_tree` finds a provider for each and no glibc (`CopiedFinds`),
  and what fails of it fails for another reason.
- *Fetch.* Three machines are proved side by side, each with lemmas saying as what
  few things a step of the others shows to it. `RootInv`: only who holds the
  initialization lock looks at the root or writes to it. `SpanInv`: the descriptor is
  open while a range is to be written or being written, and not only while one is
  being written. `CauseInv`: each half-made thing (a repository without a remote, a
  tree without a record, an archive moved aside) belongs to the step in progress,
  unless somebody was killed. `FetchedIsWhole` collects what each step has done as the
  command comes past it; `ArchiveIsSpared` is the worklist argument again, for the roots
  that have been seen and those in the queue.
- *Linux preparation.* No file of `inputs/` that a report rests on is replaced
  (`FetchedInv`), no part of the tree is changed in its place (`TreeInv`), and reports are
  written while there is no tree or for the tree that is there (`ReportsInv`). What a
  tree went through is set algebra over the operators of `SourceRecipe`, one lemma
  for each product and step. Gate C never accepts Chromium (section 6), so what it
  has accepted is a Helium tree.
- *Linux release.* `StagesInv`: what is being staged or copied is of one build as far
  as it has come, and is checked when complete. `AcceptedInv`: each command checks what
  it reads against what it read before, so that its own copy stays consistent
  whatever takes the place of the original.

- *Pipes.* All that is on its way is one stream, the messages `<<1>>`, `<<2>>`, ... each
  with its end, and every place it passes (what is left to write, the pipe, the buffer)
  holds a piece that goes on where the place before it stops (`CommandStreams`,
  `AnswerStreams`; `ItemAt(k)` is item `k`). A step moves a piece from one end of a place to
  the next, which keeps the positions; and the first NUL of a stream that begins with
  a message ends that message, so what is returned is whole and the next one. When a
  send gives up nothing of its message is in the pipe, so the stream stops at a message.
- *Socket.* The invariant is a witness: a reader that knows between two halves what the
  protocol allows next, run over all the wire. It begins as `receive` stands and ends
  where the browser stands in the message it writes (`Parses`). Reading takes the first
  step of the run, writing adds one at its end. What ties `receive` to the first reader
  (`IsClient`) is an implication only: after a deadline inside a message its locals are
  gone, and it knows less than the reader does. The next half of that message is then
  refused, so that nothing is returned that is not next.
- *Connection.* `Outstanding`: the command that has no answer is in one place, unhandled,
  handled but not answered, or answered on the channel. `IsWhole`: the numbers of the
  events taken and of those not taken are all those reported, once each, and those not
  taken are in order; it is kept when one is left out anywhere, which is how
  `wait_event` takes from the middle of its list. `Phases`: on a target created blank the
  operation that comes next says how far the page is (settled, requested, parsing,
  parsed) and which events are still to come, at most one of each kind, so that no wait
  can be satisfied by an event of an earlier load.

**Only model-checked** are `ScriptEnds` and `AllReceived`: they are liveness under fairness,
which the prover cannot do. The safety property of every other pair of run and property
is a theorem, for all values of the constants.

## 6. Known divergences

What the models say of this code where its documentation, comments, messages or
tests say otherwise, or where it does what a reader would not expect. They are
reached in the modules when the condition of a property is dropped, or were met
while reading the code for them; each names the line where it happens. The
properties claim what holds beside them.

Installer (`runtime_install.py`):

- 351: `rollback` does not validate the prefix and replaces one that points outside
  the versions directory.
- 321: a kill between prefix and launcher, after a failed upgrade has pinned the
  launcher to a slot, leaves links that every later operation refuses as foreign.
- 297: a slot torn by a killed removal still has its manifest, and the next install
  of the same archive activates it.
- 317: below a symlinked directory the active version compares unequal to itself
  (`Aliased`), and reinstalling it makes it its own previous version.
- 294: of two installers at once one removes the slot the other has activated.
- 330: a failed final probe unlinks `<prefix>.previous` and does not restore what it
  named, so after a failed upgrade no rollback is possible.

macOS source and build (`macos_backend.py`):

- 2907: when a later one of several appended patches is rejected, the tree is ahead
  of its marker; with the patches taken back from the series `prepare` reports
  `unchanged`.
- 4476: a killed `reset` may leave the marker without its tree; `fetch` extracts a new
  one and `prepare` takes the marker for it.
- 2853: the series is read again long after its digest was taken; edited in between,
  the marker names another series than the one applied.
- 3282: a build that stops half way leaves the report of an earlier one, and with
  the settings switched back `stage-runtime` takes the half-rebuilt application.
- 3215: `build` does not ask which overlay the source carries; with the series taken
  back after a longer `prepare`, it builds one overlay under the identity of another.
- 3098: after a reset killed between `out/` and `metadata/`, `configure` reuses a report
  of an output directory that has no graph.

macOS fetch (`macos_backend.py`):

- 464: a kill before the marker is renamed leaves a temporary file in the root, which
  is then refused as somebody else's.
- 1247: a file of an earlier lock with the name of a locked input is never replaced:
  every fetch fails until it is removed by hand.
- 1647: a kill inside `clone_depot_tools` leaves a repository without its remote, or a
  checkout that is not clean; every later fetch refuses it, and `reset` leaves
  `tools/` alone.
- 2140: a kill between the move of the lite archive and the record of the checkout
  leaves a backup at which every fetch refuses until a reset. The branch at 2142 for a
  backup that is no directory cannot be reached.
- 2150: the replacement leaves `prepare-macos.json` and the stamp of the synchronization.
  `prepare` may then find the checkout prepared, with no patch in it; and with an old
  stamp the checkout is never synchronized (`FetchedIsWhole` excludes it by `"lite"`).
- 2107: a dependency root that has `.git` and no commit, after a kill, is taken for
  finished and never gets its commit.
- 4462: `WorkLayout.ensure` of another command runs outside the lock in the root and may
  recreate a directory that `reset` is removing, which then stops with an `OSError`.
- Partial downloads and extractions of killed processes bear their number and are
  never removed.

macOS release (`macos_backend.py`):

- 4359: the two harnesses of `test-staged` each compare the suite before and after their
  own run (4270, 4316) and nobody compares it between them, so that a candidate may be
  promoted on two revisions of the suite, where `docs/macos.md` 81-82 says that source
  changed during a run prevents promotion.
- 3966: the manifest takes its acceptance scope from the last test of any bundle and
  not from the accepted record. (By reading; the scope is not in the model.)

Linux (`prepare-source-driver.py`, gates):

- `prepare-source-driver.py` 384: a failed update restores files that were there before,
  so one that a patch created stays; and since it keeps one copy of a file, of before
  the last patch that touched it, two new patches on one file are not both undone.
  The retry runs `patch --batch` (368), which takes the patch that created the file
  for a reversed one, removes the file and exits 0, and the report says `applied`.
  `UpdateIsAllOrNothing` asks for independent patches, and for a tree its report
  describes.
- `prepare-source-driver.py` 351: a killed update skips its `except` branch, and the next
  one does the same to what was patched.
- `prepare-source-driver.py` 376: a kill between the record and the removal of the
  reports leaves those of the older source for good, since the next update finds
  nothing to do.
- `build.py` 34: `build` asks for the report of Gate F and not for its verdict, and the
  auditor writes the report before it exits with an error
  (`audit-chrome-graph.py` 247-317), so that a failed gate lets `build` run, where
  `docs/gate-f-oracle.md` 24-25 wants reports without failures.
- `build.py` 34: a Gate F report of one profile lets another profile build.
- `build.py` 33: after an image rebuild a failed Gate D has replaced the graph and
  leaves the report of the earlier one.
- `build.py` 69: a failed rebuild leaves the report of the earlier build, and `test`
  runs on what is in `out/`.

Linux preparation:

- `prepare-source-driver.py` 148: Gate C cannot accept prepared Chromium source. The
  driver hands `prepare-source.py` the triples `*-alpine-linux-musl`, and
  `verify-source.py` 173-176 asks for `*-unknown-linux-musl`.
- `chromium-build` 375-389: `ensure-source` goes by the existence of the stamp alone.
- `prepare-source-driver.py` 188: a kill between rename and receipt leaves a source with
  the reports and the receipt of another, or none; Gate C compares versions only and
  may accept it.
- The patches of this repository are no part of what reuse compares.

Linux release:

- `qualify-package.py` 86: a browser report without an archive digest qualifies any
  archive of its version, so that one that was never tested may be accepted, where
  the program's own docstring (2) and `docs/linux.md` 133-134 tie the two.
- `qualify-package.py` 99: for the digest of the report that an acceptance records, the
  report is read again, and may be another one than was judged (84). Nothing compares
  that digest, and the model leaves it out: `of` is the report that was judged, and
  `AcceptanceIsOfPassingTest` is about it. (By reading.)
- `stage-runtime.py` 208: a list of run-time needs that is there is used, whatever build
  it is of.
- `package-runtime.py`: the version of a package is that of the image's lock, whatever
  build is staged.

CDP tests:

- `helium_test_fast.py` 271, and likewise `test-fast.py` and the pipe test of
  `test-functional.py`: on a target created with its page and then navigated to it,
  late events of the first load satisfy the waits for the second, and the
  evaluation may meet another document (`EvaluatesRequestedPage` claims blank
  targets only).
- `browser_test_support.py` 104: a pause of a second inside a WebSocket message
  loses what was read of it, and the rest is refused (`AllReceived` excludes it by
  `torn`).

## 7. Not modelled

- *Process teardown and the Wayland harness*: what can go wrong there is decided by
  the kernel's rules for process groups, orphans and reused pids, on which the source
  relies without stating them. In the test scripts it is an outcome of a run.
- *The deadline of a streamed command* (`macos_backend.py` 391): it is looked at when a
  line arrives, so that a silent command is never stopped. This is a statement about
  real time inside one blocking read, with no other actor.
- *Switches and local failures of fetch*: `MACOS_SKIP_HOOKS`, `MACOS_SKIP_ACCEPTANCE`, a Git
  that fails on the local disk, a marker that cannot be read, the preflight of the host
  (`doctor`).
- *No state, no order*: GN arguments and output paths, the environment and runtime
  probes, the checks of the CI workflow, the front ends. They compute text from
  their input or look at a host, and ordinary tests reach all of it.
- *Outside*: Chromium's own build, `patch`, GN, ninja, the browser, the acceptance
  harnesses. They are outcomes, or are modelled by what they do to the files the code
  goes on to read; the entries of `map` for them are marked external.
- *Data*: contents of bundles, signing, fingerprints and manifests beyond equality,
  and what a gate looks for.
