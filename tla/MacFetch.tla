------------------------------- MODULE MacFetch -----------------------------
(***************************************************************************)
(* `fetch` and `reset` of scripts/macos_backend.py over one work root,     *)
(* called by several processes that may be killed at any step: inputs,     *)
(* depot_tools, the source tree with the Git metadata the hooks of gclient *)
(* want, the synchronization, the hooks and the reports.                   *)
(*                                                                         *)
(* MacSource begins where this module ends: it has fetch in three steps    *)
(* and follows the tree through the patches.                               *)
(*                                                                         *)
(* Abstractions.  A lock names a revision of Chromium, a commit of         *)
(* depot_tools and its inputs.  Dependency roots are those DEPS entries of *)
(* kind "git" whose condition holds and whose directory the archive has.   *)
(* Git on the local disk fails only if it is killed; what needs the        *)
(* network may fail at any time.  A fetch that is "refused" meets          *)
(* something that the next one will meet again; one that has "failed" met  *)
(* the network.                                                            *)
(***************************************************************************)
EXTENDS LockedInputs

CONSTANTS
  Locks,       \* what config/macos.inputs.lock may say
  RevisionOf,  \* the Chromium revision of each lock
  ToolsOf,     \* its commit of depot_tools
  ItemsOf,     \* its inputs
  ArchiveOf,   \* that one of them which is the Chromium archive
  Roots,       \* dependency roots
  DepsOf,      \* the dependency roots that the DEPS of src/ or a root names
  MaxEdits     \* bound on edits of the lock

Revisions == {RevisionOf[l] : l \in Locks}
Commits   == {ToolsOf[l] : l \in Locks}
Partial   == {"directory", "repository", "remote", "dirty"}

(* update_lock names the inputs of one lock differently. *)
ASSUME FetchAssumption ==
  /\ ItemsOf \in [Locks -> SUBSET Items]
  /\ \A l \in Locks : ArchiveOf[l] \in ItemsOf[l] /\ Cardinality(ItemsOf[l] \cap Large) <= 1
  /\ \A l \in Locks, i, j \in Items : {i, j} \subseteq ItemsOf[l] /\ NameOf[i] = NameOf[j] => i = j
  /\ DepsOf \in [{"src"} \cup Roots -> SUBSET Roots]
  /\ None \notin Revisions \cup Commits \cup Partial /\ Commits \cap Partial = {}
  /\ MaxEdits \in Nat

VARIABLES
  lock,      \* config/macos.inputs.lock
  depot,     \* tools/depot_tools
  tree,      \* src/
  acquired,  \* source-acquired.json
  backup,    \* source-archive/: the revision of the lite archive moved there
  config,    \* .gclient: the roots it takes out of gclient's hands
  stamp,     \* gclient-sync-complete.stamp
  report,    \* fetch-macos.json and its stamp
  pc,        \* where the command that holds the root is
  job,       \* its local variables
  edits,     \* history: how often the lock was edited
  mishaps    \* history: what has gone wrong

state == <<depot, tree, acquired, backup, config, stamp, report>>
vars  == <<rootVars, inputVars, lock, state, pc, job, edits, mishaps>>

Git     == {"none", "unborn", "committed", "replaced"}
Methods == {"archive", "lite", "checkout"}
Trees   == [revision : Revisions, method : Methods, files : {"all", "some"}, git : Git,
            roots : [Roots -> Git], synced : {"no", "yes"}, tools : {"foreign", "native"},
            hooked : {"no", "yes"}]
Records == [revision : Revisions, method : Methods]
Depots  == {None} \cup Partial \cup Commits

ASSUME NoneAssumption == None \notin Trees \cup Records

Over      == {"fetched", "cleared", "failed", "refused"}
Resetting == {"rm_source", "rm_outputs", "rm_metadata", "rm_config"}
Fetching  == {"inputs", "depot", "depot_init", "depot_remote", "depot_fetch",
              "depot_checkout", "depot_write", "rust", "harness", "source", "record", "replace", "checkout", "record_checkout",
              "worktree", "commit", "hooks", "deps", "commit_dep", "config", "sync", "stamp",
              "tools", "runhooks", "report"}

Jobs == [lock : Locks, queue : SUBSET ({"src"} \cup Roots), seen : SUBSET ({"src"} \cup Roots),
         paths : SUBSET Roots, todo : SUBSET Roots, dep : Roots \cup {None}]

Reading(l) == [lock |-> l, queue |-> {}, seen |-> {}, paths |-> {}, todo |-> {}, dep |-> None]
Revision   == RevisionOf[job.lock]

Goto(l) == pc' = l
Stop(l) == pc' = l /\ job' = Reading(job.lock)

(* A step of the command inside, which changes nothing outside of state.   *)
Step(from) ==
  /\ holder # None /\ pc = from
  /\ UNCHANGED <<rootVars, inputVars, lock, edits, mishaps>>

(* What the network may spoil, and the next fetch may have more luck with. *)
Fails(from) == Step(from) /\ Stop("failed") /\ UNCHANGED state

Bare(r, m) == [revision |-> r, method |-> m, files |-> "all",
               git |-> IF m = "checkout" THEN "committed" ELSE "none",
               roots |-> [d \in Roots |-> "none"], synced |-> "no", tools |-> "foreign", hooked |-> "no"]
-----------------------------------------------------------------------------
(* fetch: the inputs *)

EnterFetch(c) ==
  /\ Acquire(c)
  /\ BeginDownloads(ItemsOf[lock])
  /\ Goto("inputs") /\ job' = Reading(lock)
  /\ UNCHANGED <<lock, state, edits, mishaps>>

Load ==
  /\ holder # None /\ pc = "inputs" /\ Download
  /\ UNCHANGED <<rootVars, lock, state, pc, job, edits, mishaps>>

Unverified(l) == {i \in ItemsOf[l] : inputs[NameOf[i]] \notin {None, i}}

InputsEnd ==
  /\ holder # None /\ pc = "inputs" /\ Downloaded
  /\ Goto(CASE Where(thread, "failed") = {} -> "depot"
            [] Unverified(job.lock) # {}    -> "refused"
            [] OTHER                        -> "failed")
  /\ ThreadsEnd
  /\ UNCHANGED <<rootVars, inputs, lock, state, job, edits, mishaps>>
-----------------------------------------------------------------------------
(* fetch: depot_tools, which is a repository with one commit.  What is     *)
(* there is brought to the commit of the lock, unless it is no repository  *)
(* or has been changed.                                                    *)

DepotStands ==
  /\ Step("depot") /\ depot = ToolsOf[job.lock]
  /\ Goto("rust")
  /\ UNCHANGED <<state, job>>

(* Without a remote no fetch can ever succeed. *)
DepotRefused ==
  /\ Step("depot") /\ depot \in {"directory", "repository", "dirty"}
  /\ Stop("refused")
  /\ UNCHANGED state

DepotStep(from, is, becomes, to) ==
  /\ Step(from) /\ depot \in is
  /\ depot' = becomes
  /\ Goto(to)
  /\ UNCHANGED <<tree, acquired, backup, config, stamp, report, job>>

MakeDepot  == DepotStep("depot", {None}, "directory", "depot_init")
InitDepot  == DepotStep("depot_init", {"directory"}, "repository", "depot_remote")
NameRemote == DepotStep("depot_remote", {"repository"}, "remote", "depot_fetch")
KeepDepot  == DepotStep("depot", {"remote"} \cup (Commits \ {ToolsOf[job.lock]}), depot, "depot_fetch")

(* git fetch leaves the working tree alone, and so does a checkout that   *)
(* has yet to get its files.                                               *)
FetchDepot    == DepotStep("depot_fetch", {"remote"} \cup Commits, depot, "depot_checkout")
BeginCheckout == DepotStep("depot_checkout", {"remote"} \cup Commits, "dirty", "depot_write")
CheckoutDepot == DepotStep("depot_write", {"dirty"}, ToolsOf[job.lock], "rust")

(* rustup and cargo keep what they load in directories of their own. *)
EnsureRust   == Step("rust") /\ Goto("harness") /\ UNCHANGED <<state, job>>
FetchHarness == Step("harness") /\ Goto("source") /\ UNCHANGED <<state, job>>
-----------------------------------------------------------------------------
(* fetch: the source tree *)

SourceRefused ==
  /\ Step("source") /\ tree # None
  /\ acquired = None \/ (acquired # None /\ acquired.revision # Revision)
  /\ Stop("refused")
  /\ UNCHANGED state

SourceStands ==
  /\ Step("source") /\ tree # None
  /\ acquired # None /\ acquired.revision = Revision
  /\ Goto("replace")
  /\ UNCHANGED <<state, job>>

(* The archive is extracted elsewhere and renamed. *)
PlaceArchive ==
  /\ Step("source") /\ tree = None
  /\ tree' = Bare(Revision, "archive")
  /\ Goto("record")
  /\ UNCHANGED <<depot, acquired, backup, config, stamp, report, job>>

Record(from, method) ==
  /\ Step(from)
  /\ acquired' = [revision |-> Revision, method |-> method]
  /\ Goto(IF from = "record" THEN "replace" ELSE "worktree")
  /\ UNCHANGED <<depot, tree, backup, config, stamp, report, job>>

RecordArchive  == Record("record", "archive")

(* A tree that an older backend made of a lite archive gives way to a Git  *)
(* checkout: it is moved to source-archive/ first.                         *)
KeepTree ==
  /\ Step("replace") /\ acquired.method # "lite"
  /\ Goto("worktree")
  /\ UNCHANGED <<state, job>>

BackupRefused ==
  /\ Step("replace") /\ acquired.method = "lite" /\ backup # None
  /\ Stop("refused")
  /\ UNCHANGED state

MoveArchive ==
  /\ Step("replace") /\ acquired.method = "lite" /\ backup = None
  /\ backup' = tree.revision /\ tree' = None
  /\ Goto("checkout")
  /\ UNCHANGED <<depot, acquired, config, stamp, report, job>>

PlaceCheckout ==
  /\ Step("checkout")
  /\ tree' = Bare(Revision, "checkout")
  /\ Goto("record_checkout")
  /\ UNCHANGED <<depot, acquired, backup, config, stamp, report, job>>

RecordCheckout == Record("record_checkout", "checkout")
-----------------------------------------------------------------------------
(* fetch: Git metadata for an archive, which comes without. *)

(* ensure_archive_worktree of src/: a repository without a commit, which a *)
(* killed command leaves, gets its commit.                                 *)
WorktreeStands ==
  /\ Step("worktree") /\ tree.git = "committed"
  /\ Goto("hooks")
  /\ UNCHANGED <<state, job>>

InitWorktree ==
  /\ Step("worktree") /\ tree.git # "committed"
  /\ tree' = [tree EXCEPT !.git = "unborn"]
  /\ Goto("commit")
  /\ UNCHANGED <<depot, acquired, backup, config, stamp, report, job>>

CommitWorktree ==
  /\ Step("commit")
  /\ tree' = [tree EXCEPT !.git = "committed"]
  /\ Goto("hooks")
  /\ UNCHANGED <<depot, acquired, backup, config, stamp, report, job>>

(* Only an archive brings its dependencies along, without metadata. *)
BeginHooks ==
  /\ Step("hooks")
  /\ IF acquired.method = "archive"
     THEN Goto("deps") /\ job' = [job EXCEPT !.queue = {"src"}]
     ELSE Goto("config") /\ UNCHANGED job
  /\ UNCHANGED state

(* The DEPS of src/ name roots, whose DEPS name more. *)
VisitRoot(r) ==
  /\ Step("deps") /\ job.todo = {} /\ r \in job.queue
  /\ job' = [job EXCEPT !.queue = @ \ {r}, !.seen = @ \cup {r},
                        !.todo = IF r \in job.seen THEN {} ELSE DepsOf[r]]
  /\ UNCHANGED <<state, pc>>

(* Mutant: only what gets its metadata now is listed and followed. *)
TakeDepNew(d) ==
  /\ Step("deps") /\ d \in job.todo
  /\ IF tree.roots[d] = "none"
     THEN /\ tree' = [tree EXCEPT !.roots[d] = "unborn"]
          /\ Goto("commit_dep")
          /\ job' = [job EXCEPT !.queue = @ \cup {d}, !.paths = @ \cup {d}, !.todo = @ \ {d}, !.dep = d]
     ELSE /\ job' = [job EXCEPT !.todo = @ \ {d}]
          /\ UNCHANGED <<tree, pc>>
  /\ UNCHANGED <<depot, acquired, backup, config, stamp, report>>

(* Every root is listed and followed; one without .git gets a repository.  *)
(* One whose .git has no commit is left as it is.                          *)
TakeDep(d) ==
  /\ Step("deps") /\ d \in job.todo
  /\ job' = [job EXCEPT !.queue = @ \cup {d}, !.paths = @ \cup {d}, !.todo = @ \ {d},
                        !.dep = IF tree.roots[d] = "none" THEN d ELSE None]
  /\ IF tree.roots[d] = "none"
     THEN tree' = [tree EXCEPT !.roots[d] = "unborn"] /\ Goto("commit_dep")
     ELSE UNCHANGED <<tree, pc>>
  /\ UNCHANGED <<depot, acquired, backup, config, stamp, report>>

CommitDep ==
  /\ Step("commit_dep")
  /\ tree' = [tree EXCEPT !.roots[job.dep] = "committed"]
  /\ job' = [job EXCEPT !.dep = None]
  /\ Goto("deps")
  /\ UNCHANGED <<depot, acquired, backup, config, stamp, report>>

DepsEnd ==
  /\ Step("deps") /\ job.todo = {} /\ job.queue = {}
  /\ Goto("config")
  /\ UNCHANGED <<state, job>>
-----------------------------------------------------------------------------
(* fetch: synchronization, hooks and reports *)

WriteConfig ==
  /\ Step("config")
  /\ config' = job.paths
  /\ Goto("sync")
  /\ UNCHANGED <<depot, tree, acquired, backup, stamp, report, job>>

(* The stamp of an earlier synchronization is enough. *)
SyncStands ==
  /\ Step("sync") /\ stamp # None
  /\ Goto("tools")
  /\ UNCHANGED <<state, job>>

(* gclient brings every dependency to its revision, but those taken out of *)
(* its hands.                                                              *)
Synchronize ==
  /\ Step("sync") /\ stamp = None
  /\ tree' = [tree EXCEPT !.synced = "yes",
                          !.roots = [d \in Roots |-> IF tree.method = "archive" /\ d \notin config
                                                     THEN "replaced" ELSE tree.roots[d]]]
  /\ Goto("stamp")
  /\ UNCHANGED <<depot, acquired, backup, config, stamp, report, job>>

WriteStamp ==
  /\ Step("stamp")
  /\ stamp' = "complete"
  /\ Goto("tools")
  /\ UNCHANGED <<depot, tree, acquired, backup, config, report, job>>

(* Python, ninja and gn for this host, each unless it is there. *)
EnsureTools ==
  /\ Step("tools")
  /\ tree' = [tree EXCEPT !.tools = "native"]
  /\ Goto("runhooks")
  /\ UNCHANGED <<depot, acquired, backup, config, stamp, report, job>>

RunHooks ==
  /\ Step("runhooks")
  /\ tree' = [tree EXCEPT !.hooked = "yes"]
  /\ Goto("report")
  /\ UNCHANGED <<depot, acquired, backup, config, stamp, report, job>>

WriteReport ==
  /\ Step("report")
  /\ report' = job.lock
  /\ Stop("fetched")
  /\ UNCHANGED <<depot, tree, acquired, backup, config, stamp>>

NetworkFails ==
  \/ \E p \in {"depot_fetch", "depot_checkout", "rust", "harness", "checkout", "tools", "runhooks"} : Fails(p)
  \/ stamp = None /\ Fails("sync")
-----------------------------------------------------------------------------
(* reset --yes *)

EnterReset(c) ==
  /\ Acquire(c)
  /\ tree' = IF tree = None THEN None ELSE [tree EXCEPT !.files = "some"]
  /\ Goto("rm_source") /\ job' = Reading(lock)
  /\ UNCHANGED <<inputVars, lock, depot, acquired, backup, config, stamp, report, edits, mishaps>>

RemoveSource ==
  /\ Step("rm_source")
  /\ tree' = None
  /\ Goto("rm_outputs")
  /\ UNCHANGED <<depot, acquired, backup, config, stamp, report, job>>

RemoveOutputs ==
  /\ Step("rm_outputs")
  /\ Goto("rm_metadata")
  /\ UNCHANGED <<state, job>>

(* A command that comes lays the root out without asking for build.lock.   *)
(* If it makes out/macos-release/ anew when reset has emptied out/, reset  *)
(* cannot remove out/ and ends there.                                      *)
RemovalRaced ==
  /\ holder # None /\ pc = "rm_outputs"
  /\ \E d \in Commands : at[d] = "layout"
  /\ Stop("failed")
  /\ mishaps' = mishaps \cup {"reset"}
  /\ UNCHANGED <<rootVars, inputVars, lock, state, edits>>

(* Mutant: the metadata stays. *)
RemoveMetadataNever ==
  /\ Step("rm_metadata")
  /\ acquired' = None
  /\ Goto("rm_config")
  /\ UNCHANGED <<depot, tree, backup, config, stamp, report, job>>

RemoveMetadata ==
  /\ Step("rm_metadata")
  /\ \/ acquired # None /\ acquired' = None /\ UNCHANGED <<stamp, report, pc>>
     \/ stamp # None /\ stamp' = None /\ UNCHANGED <<acquired, report, pc>>
     \/ report # None /\ report' = None /\ UNCHANGED <<acquired, stamp, pc>>
     \/ acquired = None /\ stamp = None /\ report = None /\ Goto("rm_config")
        /\ UNCHANGED <<acquired, stamp, report>>
  /\ UNCHANGED <<depot, tree, backup, config, job>>

RemoveConfig ==
  /\ holder # None /\ pc = "rm_config"
  /\ config' = None
  /\ Stop("cleared")
  /\ mishaps' = mishaps \ {"reset"}
  /\ UNCHANGED <<rootVars, inputVars, lock, depot, tree, acquired, backup, stamp, report, edits>>
-----------------------------------------------------------------------------
Exit(c) ==
  /\ Leave(c) /\ pc \in Over
  /\ Goto("idle")
  /\ UNCHANGED <<inputVars, lock, state, job, edits, mishaps>>

Arrive(c) == Start(c) /\ UNCHANGED <<inputVars, lock, state, pc, job, edits, mishaps>>

Kill(c) ==
  /\ Killed(c)
  /\ IF Inside(c)
     THEN /\ Stop("idle") /\ ThreadsEnd
          /\ mishaps' = IF pc \in Resetting THEN mishaps \cup {"reset"} ELSE mishaps
     ELSE UNCHANGED <<pc, job, thread, span, descriptor, mishaps>>
  /\ UNCHANGED <<inputs, lock, state, edits>>

(* A command reads the lock once: to edit it later is to edit it after. *)
EditLock ==
  /\ edits < MaxEdits /\ holder = None
  /\ \E l \in Locks \ {lock} : lock' = l
  /\ edits' = edits + 1
  /\ UNCHANGED <<rootVars, inputVars, state, pc, job, mishaps>>

Lite(r) == [Bare(r, "lite") EXCEPT !.git = "committed", !.tools = "native", !.hooked = "yes"]

(* The root is new, or another's, or that of an older backend. *)
Init ==
  /\ lock \in Locks /\ InitInputs
  /\ backup = None /\ config = None /\ report = None
  /\ initializing = None /\ holder = None /\ at = [c \in Commands |-> "out"] /\ kills = 0
  /\ \/ /\ root \in {{}, {"foreign"}} /\ depot = None
        /\ tree = None /\ acquired = None /\ stamp = None /\ mishaps = {}
     \/ /\ root = {"marker", "layout"} /\ depot = ToolsOf[lock]
        /\ tree = Lite(RevisionOf[lock])
        /\ acquired = [revision |-> RevisionOf[lock], method |-> "lite"]
        /\ stamp \in {None, "complete"} /\ mishaps = {"lite"}
  /\ pc = "idle" /\ job = Reading(lock) /\ edits = 0

Fetch ==
  \/ Load \/ InputsEnd \/ NetworkFails
  \/ DepotStands \/ DepotRefused \/ MakeDepot \/ InitDepot \/ NameRemote \/ KeepDepot \/ FetchDepot
  \/ BeginCheckout \/ CheckoutDepot \/ EnsureRust \/ FetchHarness
  \/ SourceRefused \/ SourceStands \/ PlaceArchive \/ RecordArchive
  \/ KeepTree \/ BackupRefused \/ MoveArchive \/ PlaceCheckout \/ RecordCheckout
  \/ WorktreeStands \/ InitWorktree \/ CommitWorktree \/ BeginHooks
  \/ (\E r \in {"src"} \cup Roots : VisitRoot(r)) \/ (\E d \in Roots : TakeDep(d)) \/ CommitDep \/ DepsEnd
  \/ WriteConfig \/ SyncStands \/ Synchronize \/ WriteStamp \/ EnsureTools \/ RunHooks \/ WriteReport

Reset == RemoveSource \/ RemoveOutputs \/ RemovalRaced \/ RemoveMetadata \/ RemoveConfig

Next ==
  \/ Fetch \/ Reset \/ EditLock
  \/ \E c \in Commands : Arrive(c) \/ EnterFetch(c) \/ EnterReset(c) \/ Exit(c) \/ Kill(c)

Spec == Init /\ [][Next]_vars
-----------------------------------------------------------------------------
FetchTypeOK ==
  /\ lock \in Locks /\ depot \in Depots
  /\ tree \in Trees \cup {None} /\ acquired \in Records \cup {None} /\ backup \in Revisions \cup {None}
  /\ config \in (SUBSET Roots) \cup {None} /\ stamp \in {None, "complete"} /\ report \in Locks \cup {None}
  /\ pc \in {"idle"} \cup Over \cup Fetching \cup Resetting
  /\ job \in Jobs /\ edits \in 0..MaxEdits /\ mishaps \subseteq {"lite", "reset"}

TypeOK == RootTypeOK /\ InputsTypeOK /\ FetchTypeOK

(* A fetch, or a claim of the root, is refused only because of what a      *)
(* killed command has left, a lock that names another revision or another  *)
(* file of the same name, or what is not ours.  No failure of the network  *)
(* at any step, and no other command, leaves anything behind that stands   *)
(* in the way of the next fetch: repeating it is all there is to do.       *)
RefusedForCause ==
  /\ ClaimIsShared
  /\ pc = "refused" /\ kills = 0 =>
       \/ acquired # None /\ acquired.revision # Revision
       \/ Unverified(job.lock) # {}

(* When fetch says it is complete, each locked input is there and has been *)
(* verified, depot_tools is at its commit, the tree is of the revision of  *)
(* the lock and of the kind its record names, and has been through the     *)
(* synchronization and the hooks, whatever had failed or been killed       *)
(* before; unless a reset stopped between the tree and its metadata, or an *)
(* older backend has left its stamp.                                       *)
FetchedIsWhole ==
  pc = "fetched" =>
    /\ \A i \in ItemsOf[report] : Verifies(i)
    /\ depot = ToolsOf[report]
    /\ tree # None /\ tree.git = "committed" /\ tree.tools = "native" /\ tree.hooked = "yes"
    /\ "reset" \notin mishaps =>
         /\ tree.revision = RevisionOf[report] /\ tree.files = "all"
         /\ acquired = [revision |-> tree.revision, method |-> tree.method]
         /\ "lite" \notin mishaps => tree.synced = "yes"

(* The roots the DEPS of src/ lead to, over any number of steps. *)
Led == CHOOSE L \in SUBSET Roots :
         /\ DepsOf["src"] \cup UNION {DepsOf[d] : d \in L} = L
         /\ \A M \in SUBSET Roots : DepsOf["src"] \cup UNION {DepsOf[d] : d \in M} \subseteq M => L \subseteq M

(* gclient never overwrites a dependency that came with the archive, in    *)
(* the first fetch or in one that repeats a failed one and finds the       *)
(* metadata made; and when the hooks run every such dependency has its     *)
(* metadata, with the commit the hooks ask for, if no command was killed.  *)
(* Unless a reset stopped halfway: then a record may be of another tree.   *)
ArchiveIsSpared ==
  tree # None /\ tree.method = "archive" /\ "reset" \notin mishaps =>
    /\ \A d \in Led : tree.roots[d] # "replaced"
    /\ pc = "runhooks" =>
         \A d \in Led : tree.roots[d] \in IF kills = 0 THEN {"committed"} ELSE {"unborn", "committed"}
=============================================================================
