--------------------------- MODULE RuntimeInstall ---------------------------
(***************************************************************************)
(* The Helium installer, scripts/runtime_install.py: `install` and         *)
(* `rollback` over one installation prefix.                                *)
(*                                                                         *)
(* On disk an installation is a directory `<prefix>.versions` of version   *)
(* slots and three symlinks: `<prefix>` names the active slot,             *)
(* `<prefix>.previous` the slot to roll back to, and `<bin>/helium`, the   *)
(* launcher, names the wrapper script inside the prefix or inside a slot.  *)
(* There is no lock and no journal: every symlink is replaced atomically,  *)
(* one after the other, and a process may die between any two of them.     *)
(*                                                                         *)
(* Abstractions.  An archive that fails verification changes nothing, so   *)
(* only verified archives are installed; a slot is named by version and    *)
(* digest, so an archive is identified with its slot.  The temporary       *)
(* copy and the temporary links carry the process id in their names and    *)
(* are read by nobody: they are not represented.  The validations at the   *)
(* head of an operation are one step.                                      *)
(***************************************************************************)
CONSTANTS
  Slots,       \* the version slots that may be installed
  Procs,       \* installer processes
  None,        \* no link
  Foreign,     \* a directory outside the versions directory
  Script,      \* a file of the user's in the launcher's place
  ViaPrefix,   \* the launcher's target <prefix>/helium-wrapper
  Aliased,     \* TRUE iff a directory above the prefix is itself a symlink
  MayHappen    \* the mishaps considered: "crash" between two steps, "relink"

ASSUME ConstantsAssumption ==
  /\ Slots \cap {None, Foreign, Script, ViaPrefix} = {}
  /\ None \notin {Foreign, Script, ViaPrefix}
  /\ Foreign \notin {Script, ViaPrefix} /\ Script # ViaPrefix
  /\ Aliased \in BOOLEAN /\ MayHappen \subseteq {"crash", "relink"}

VARIABLES
  slot,      \* what is on disk of each slot
  prefix,    \* the target of <prefix>
  previous,  \* the target of <prefix>.previous
  launcher,  \* the target of <bin>/helium
  pc,        \* where each process is
  job,       \* the local variables of each process
  entry,     \* history: the links as each process found them
  mishaps    \* history: which mishaps have happened

links   == <<prefix, previous, launcher>>
history == <<entry, mishaps>>
vars    == <<slot, prefix, previous, launcher, pc, job, entry, mishaps>>

(* A slot is published whole by one rename.  Its removal deletes entry     *)
(* after entry, and may take package-manifest.json early or late.          *)
SlotStates == {"absent", "whole", "torn", "bare"}
Resting    == {"idle", "ok", "failed"}
InstallPcs == {"open", "publish", "probe", "keep", "switch", "launch",
               "final", "undo_prefix", "undo_previous", "undo_launcher",
               "tear", "clear"}
RollbackPcs == {"rb_switch", "rb_launch", "rb_probe", "rb_undo_prefix",
                "rb_undo_launcher", "rb_keep"}

-----------------------------------------------------------------------------
(* What the code reads from the links. *)

IsDir(t) == t \in Slots /\ slot[t] # "absent"

(* launcher.resolve(): the slot whose wrapper runs; a path through a       *)
(* missing prefix resolves to itself.                                      *)
Resolve(l) == IF l = ViaPrefix /\ prefix # None THEN prefix ELSE l

(* old_target != slot compares a resolved path with an unresolved one. *)
SameSlot(target, s) == target = s /\ ~Aliased

ValidatePrefix   == prefix = None \/ IsDir(prefix)
ValidatePrevious == previous = None \/ IsDir(previous)
ValidateLauncher == launcher \in {None, ViaPrefix, prefix}

Probeable(t) == t = Foreign \/ IsDir(t)

Goto(p, l) == pc' = [pc EXCEPT ![p] = l]

Begin(p, op, s, old) ==
  /\ pc[p] \in Resting
  /\ job' = [job EXCEPT ![p] = [op |-> op, slot |-> s, origin |-> "kept",
                                oldTarget |-> old, oldLauncher |-> None]]
  /\ entry' = [entry EXCEPT ![p] = [prefix |-> prefix, previous |-> previous,
                                    runs |-> Resolve(launcher)]]
  /\ UNCHANGED <<slot, links, mishaps>>

At(p, l) == pc[p] = l /\ UNCHANGED history

-----------------------------------------------------------------------------
(* install *)

BeginInstall(p, s) ==
  /\ ValidatePrevious /\ ValidatePrefix /\ ValidateLauncher
  /\ Begin(p, "install", s, None)
  /\ Goto(p, "open")

(* An existing slot is accepted on its manifest alone. *)
OpenSlot(p) ==
  LET s == job[p].slot IN
  /\ At(p, "open")
  /\ \/ /\ slot[s] = "absent"
        /\ job' = [job EXCEPT ![p].origin = "created"]
        /\ Goto(p, "publish")
     \/ /\ slot[s] \in {"whole", "torn"}
        /\ Goto(p, "probe")
        /\ UNCHANGED job
     \/ /\ slot[s] = "bare"
        /\ Goto(p, "failed")
        /\ UNCHANGED job
  /\ UNCHANGED <<slot, links>>

(* os.replace of the verified copy: refused over a directory with entries. *)
PublishSlot(p) ==
  LET s == job[p].slot IN
  /\ At(p, "publish")
  /\ \/ /\ slot[s] \in {"absent", "bare"}
        /\ slot' = [slot EXCEPT ![s] = "whole"]
        /\ Goto(p, "probe")
     \/ /\ slot[s] # "absent"
        /\ Goto(p, "failed")
        /\ UNCHANGED slot
  /\ UNCHANGED <<links, job>>

(* Mutant: a slot that fails its probe is removed though it was there before. *)
ProbeSlotRemovingAny(p) ==
  /\ At(p, "probe")
  /\ \/ IsDir(job[p].slot) /\ Goto(p, "keep")
     \/ Goto(p, "tear")
  /\ UNCHANGED <<slot, links, job>>

ProbeSlot(p) ==
  /\ At(p, "probe")
  /\ \/ IsDir(job[p].slot) /\ Goto(p, "keep")
     \/ Goto(p, IF job[p].origin = "created" THEN "tear" ELSE "failed")
  /\ UNCHANGED <<slot, links, job>>

(* Mutant: the replaced version is not remembered. *)
KeepPreviousNever(p) ==
  /\ At(p, "keep")
  /\ job' = [job EXCEPT ![p].oldTarget = prefix]
  /\ Goto(p, "switch")
  /\ UNCHANGED <<slot, links>>

KeepPrevious(p) ==
  /\ At(p, "keep")
  /\ job' = [job EXCEPT ![p].oldTarget = prefix]
  /\ previous' = IF prefix # None /\ ~SameSlot(prefix, job[p].slot)
                 THEN prefix ELSE previous
  /\ Goto(p, "switch")
  /\ UNCHANGED <<slot, prefix, launcher>>

(* Mutant: the launcher is resolved after the prefix was replaced. *)
SwitchPrefixFirst(p) ==
  /\ At(p, "switch")
  /\ job' = [job EXCEPT ![p].oldLauncher = IF launcher = ViaPrefix
                                           THEN job[p].slot ELSE launcher]
  /\ prefix' = job[p].slot
  /\ Goto(p, "launch")
  /\ UNCHANGED <<slot, previous, launcher>>

SwitchPrefix(p) ==
  /\ At(p, "switch")
  /\ job' = [job EXCEPT ![p].oldLauncher = Resolve(launcher)]
  /\ prefix' = job[p].slot
  /\ Goto(p, "launch")
  /\ UNCHANGED <<slot, previous, launcher>>

SwitchLauncher(p) ==
  /\ At(p, "launch")
  /\ launcher' = ViaPrefix
  /\ Goto(p, "final")
  /\ UNCHANGED <<slot, prefix, previous, job>>

FinalProbe(p) ==
  /\ At(p, "final")
  /\ \/ Probeable(Resolve(launcher)) /\ Goto(p, "ok")
     \/ Goto(p, "undo_prefix")
  /\ UNCHANGED <<slot, links, job>>

UndoPrefix(p) ==
  /\ At(p, "undo_prefix")
  /\ prefix' = job[p].oldTarget
  /\ Goto(p, "undo_previous")
  /\ UNCHANGED <<slot, previous, launcher, job>>

UndoPrevious(p) ==
  /\ At(p, "undo_previous")
  /\ previous' = IF previous = job[p].oldTarget THEN None ELSE previous
  /\ Goto(p, "undo_launcher")
  /\ UNCHANGED <<slot, prefix, launcher, job>>

UndoLauncher(p) ==
  LET j == job[p] IN
  /\ At(p, "undo_launcher")
  /\ launcher' = j.oldLauncher
  /\ Goto(p, IF j.origin = "created" /\ ~SameSlot(prefix, j.slot) THEN "tear" ELSE "failed")
  /\ UNCHANGED <<slot, prefix, previous, job>>

(* shutil.rmtree of the slot, entry after entry. *)
TearSlot(p) ==
  LET s == job[p].slot IN
  /\ At(p, "tear")
  /\ \/ /\ slot[s] # "absent"
        /\ \E rest \in {"torn", "bare"} : slot' = [slot EXCEPT ![s] = rest]
        /\ Goto(p, "clear")
     \/ /\ slot[s] = "absent"
        /\ Goto(p, "failed")
        /\ UNCHANGED slot
  /\ UNCHANGED <<links, job>>

(* Mutant: rmtree with ignore_errors, which may leave part of the slot. *)
ClearSlotIgnoringErrors(p) ==
  /\ At(p, "clear")
  /\ Goto(p, "failed")
  /\ UNCHANGED <<slot, links, job>>

ClearSlot(p) ==
  /\ At(p, "clear")
  /\ slot' = [slot EXCEPT ![job[p].slot] = "absent"]
  /\ Goto(p, "failed")
  /\ UNCHANGED <<links, job>>

-----------------------------------------------------------------------------
(* rollback *)

BeginRollback(p) ==
  /\ IsDir(previous)
  /\ ValidateLauncher
  /\ Begin(p, "rollback", previous, prefix)
  /\ Goto(p, "rb_switch")

RbSwitchPrefix(p) ==
  /\ At(p, "rb_switch")
  /\ prefix' = job[p].slot
  /\ Goto(p, "rb_launch")
  /\ UNCHANGED <<slot, previous, launcher, job>>

RbSwitchLauncher(p) ==
  /\ At(p, "rb_launch")
  /\ launcher' = ViaPrefix
  /\ Goto(p, "rb_probe")
  /\ UNCHANGED <<slot, prefix, previous, job>>

RbProbe(p) ==
  /\ At(p, "rb_probe")
  /\ \/ Probeable(Resolve(launcher)) /\ Goto(p, "rb_keep")
     \/ Goto(p, "rb_undo_prefix")
  /\ UNCHANGED <<slot, links, job>>

RbUndoPrefix(p) ==
  /\ At(p, "rb_undo_prefix")
  /\ prefix' = IF job[p].oldTarget # None THEN job[p].oldTarget ELSE prefix
  /\ Goto(p, "rb_undo_launcher")
  /\ UNCHANGED <<slot, previous, launcher, job>>

RbUndoLauncher(p) ==
  /\ At(p, "rb_undo_launcher")
  /\ launcher' = ViaPrefix
  /\ Goto(p, "failed")
  /\ UNCHANGED <<slot, prefix, previous, job>>

RbKeepPrevious(p) ==
  LET j == job[p] IN
  /\ At(p, "rb_keep")
  /\ previous' = IF j.oldTarget \notin {None, j.slot} THEN j.oldTarget
                 ELSE previous
  /\ Goto(p, "ok")
  /\ UNCHANGED <<slot, prefix, launcher, job>>

-----------------------------------------------------------------------------
(* The environment *)

(* A signal, a full disk or a power cut: links and slots stay as they are. *)
Crash(p) ==
  /\ "crash" \in MayHappen
  /\ pc[p] \notin Resting
  /\ Goto(p, "idle")
  /\ mishaps' = mishaps \cup {"crash"}
  /\ UNCHANGED <<slot, links, job, entry>>

(* The user points the prefix at a build of their own, or puts a script in *)
(* the launcher's place.                                                   *)
Relink ==
  /\ "relink" \in MayHappen
  /\ \A p \in Procs : pc[p] \in Resting
  /\ \/ prefix' = Foreign /\ UNCHANGED launcher
     \/ launcher' = Script /\ UNCHANGED prefix
  /\ pc' = [p \in Procs |-> "idle"]
  /\ mishaps' = mishaps \cup {"relink"}
  /\ UNCHANGED <<slot, previous, job, entry>>

-----------------------------------------------------------------------------
Init ==
  /\ slot = [s \in Slots |-> "absent"]
  /\ prefix = None /\ previous = None /\ launcher = None
  /\ pc = [p \in Procs |-> "idle"]
  /\ job = [p \in Procs |-> [op |-> "install", slot |-> None, origin |-> "kept",
                             oldTarget |-> None, oldLauncher |-> None]]
  /\ entry = [p \in Procs |-> [prefix |-> None, previous |-> None, runs |-> None]]
  /\ mishaps = {}

Install(p) ==
  \/ \E s \in Slots : BeginInstall(p, s)
  \/ OpenSlot(p) \/ PublishSlot(p) \/ ProbeSlot(p)
  \/ KeepPrevious(p) \/ SwitchPrefix(p) \/ SwitchLauncher(p) \/ FinalProbe(p)
  \/ UndoPrefix(p) \/ UndoPrevious(p) \/ UndoLauncher(p)
  \/ TearSlot(p) \/ ClearSlot(p)

Rollback(p) ==
  \/ BeginRollback(p)
  \/ RbSwitchPrefix(p) \/ RbSwitchLauncher(p) \/ RbProbe(p)
  \/ RbUndoPrefix(p) \/ RbUndoLauncher(p) \/ RbKeepPrevious(p)

Next == Relink \/ \E p \in Procs : Install(p) \/ Rollback(p) \/ Crash(p)

Spec == Init /\ [][Next]_vars

-----------------------------------------------------------------------------
Targets   == Slots \cup {None, Foreign}
Launchers == Slots \cup {None, Foreign, Script, ViaPrefix}

Jobs == [op : {"install", "rollback"}, slot : Slots \cup {None},
         origin : {"kept", "created"}, oldTarget : Targets,
         oldLauncher : Launchers]

(* Every variable holds a value of its kind: slots are in one of four      *)
(* states, links name slots or the listed exceptions.                      *)
TypeOK ==
  /\ slot \in [Slots -> SlotStates]
  /\ prefix \in Targets /\ previous \in Targets /\ launcher \in Launchers
  /\ pc \in [Procs -> Resting \cup InstallPcs \cup RollbackPcs]
  /\ job \in [Procs -> Jobs]
  /\ entry \in [Procs -> [prefix : Targets, previous : Targets,
                          runs : Launchers]]
  /\ mishaps \subseteq MayHappen

(* No link of the installation ever names a slot that is not on disk:      *)
(* what cleanup removes (remove_owned(slot)) is never what the prefix, the *)
(* rollback link or the launcher names, wherever the process dies.         *)
LinksResolve ==
  \A t \in {prefix, previous, launcher} \cap Slots : slot[t] # "absent"

(* An operation that fails leaves the product it found: the active version *)
(* and what the launcher runs (the except branches of install and          *)
(* rollback), unless there was none.  One that reports success made its    *)
(* slot the active one, behind the managed launcher, and left the version  *)
(* it replaced to roll back to.                                            *)
OperationsAreAtomic ==
  \A p \in Procs :
    /\ pc[p] = "failed" /\ entry[p].prefix # None =>
         /\ prefix = entry[p].prefix
         /\ entry[p].runs # None => Resolve(launcher) = entry[p].runs
    /\ pc[p] = "ok" =>
         /\ prefix = job[p].slot /\ launcher = ViaPrefix
         /\ entry[p].prefix \notin {None, job[p].slot} => previous = entry[p].prefix

Rest == \A p \in Procs : pc[p] \in Resting

(* As long as no operation died and nobody else touched the links, the     *)
(* installer never leaves links its own validations refuse: the next       *)
(* install and the next rollback are not turned away as unmanaged, however *)
(* many operations failed before.                                          *)
AcceptsOwnLinks ==
  Rest /\ mishaps = {} => ValidatePrefix /\ ValidatePrevious /\ ValidateLauncher

(* As long as no operation died, the active version is whole: every file   *)
(* of its manifest is there.                                               *)
ActiveIsWhole ==
  "crash" \notin mishaps /\ prefix \in Slots => slot[prefix] = "whole"

(* Seen without its links and processes the installer only switches        *)
(* between versions it keeps, and discards only versions nothing names.  A *)
(* directory of the user's is no version.                                  *)
Version(t) == IF t \in Slots THEN t ELSE None

Versions == INSTANCE VersionSwitch WITH
  Versions <- Slots, None <- None,
  active <- Version(prefix), fallback <- Version(previous),
  kept <- {s \in Slots : slot[s] # "absent"}

SwitchesKeptVersions == Versions!Spec
=============================================================================
