------------------------ MODULE RuntimeInstall_proofs ------------------------
(***************************************************************************)
(* Proofs about RuntimeInstall, for any set of slots, any processes and    *)
(* any mishaps.                                                            *)
(***************************************************************************)
EXTENDS RuntimeInstall, TLAPS

(* Nothing serialises installers; what is proved about links needs that no *)
(* two of them run at once.                                                *)
OneInstaller == \A p, q \in Procs : p = q

Present(t) == t \in Slots => slot[t] # "absent"

UndoPcs == {"undo_prefix", "undo_previous", "undo_launcher"}

(* What an operation relies on between its steps: its slot is on disk once *)
(* probed, the targets it saved to restore are on disk, and a slot it      *)
(* created is named by no link it would leave behind.                      *)
JobOK(p) ==
  LET j == job[p] IN
  /\ pc[p] \notin Resting => j.slot \in Slots
  /\ pc[p] = "open" => j.origin = "kept"
  /\ pc[p] \in {"keep", "switch", "launch", "final"} \cup RollbackPcs
       => Present(j.slot)
  /\ pc[p] \in {"switch", "launch", "final", "undo_prefix"} \cup RollbackPcs
       => Present(j.oldTarget)
  /\ pc[p] \in {"launch", "final"} \cup UndoPcs => Present(j.oldLauncher)
  /\ (\/ pc[p] \in {"publish", "tear", "clear"}
      \/ j.origin = "created" /\ pc[p] \in {"probe", "keep", "switch"})
       => j.slot \notin {prefix, previous, launcher}
  /\ j.origin = "created" /\ pc[p] \in {"switch", "launch", "final"} \cup UndoPcs
       => j.slot # j.oldTarget /\ j.slot # previous
  /\ j.origin = "created" /\ pc[p] \in {"launch", "final"} \cup UndoPcs
       => j.slot # j.oldLauncher
  /\ j.origin = "created" /\ pc[p] \in {"undo_previous", "undo_launcher"}
       => j.slot # prefix

IInv ==
  /\ TypeOK
  /\ Present(prefix) /\ Present(previous) /\ Present(launcher)
  /\ \A p \in Procs : JobOK(p)

-----------------------------------------------------------------------------
(* An assignment to one local variable of one process keeps the type. *)
LEMMA JobTypes ==
  ASSUME job \in [Procs -> Jobs], NEW p \in Procs
  PROVE  /\ [job EXCEPT ![p].origin = "created"] \in [Procs -> Jobs]
         /\ \A t \in Targets : [job EXCEPT ![p].oldTarget = t] \in [Procs -> Jobs]
         /\ \A l \in Launchers :
              [job EXCEPT ![p].oldLauncher = l] \in [Procs -> Jobs]
<1>1. [job EXCEPT ![p].origin = "created"] \in [Procs -> Jobs]
  BY DEF Jobs
<1>2. ASSUME NEW t \in Targets PROVE [job EXCEPT ![p].oldTarget = t] \in [Procs -> Jobs]
  BY DEF Jobs
<1>3. ASSUME NEW l \in Launchers
      PROVE  [job EXCEPT ![p].oldLauncher = l] \in [Procs -> Jobs]
  BY DEF Jobs
<1>4. QED
  BY <1>1, <1>2, <1>3

(* What OpenSlot notes: only a slot that was not there is its creation. *)
LEMMA OpenSlotJob ==
  ASSUME NEW p \in Procs, OpenSlot(p)
  PROVE  /\ pc[p] = "open"
         /\ UNCHANGED <<slot, prefix, previous, launcher, entry, mishaps>>
         /\ \/ /\ job' = [job EXCEPT ![p].origin = "created"]
               /\ slot[job[p].slot] = "absent"
               /\ Goto(p, "publish")
            \/ /\ job' = job
               /\ Goto(p, "probe") \/ Goto(p, "failed")
BY DEF OpenSlot, At, links, history

(* Every step keeps every variable in its type. *)
LEMMA TypeStep == TypeOK /\ [Next]_vars => TypeOK'
<1> SUFFICES ASSUME TypeOK, [Next]_vars PROVE TypeOK'
  OBVIOUS
<1> USE ConstantsAssumption DEF TypeOK, Targets, Launchers, SlotStates, Resting,
        InstallPcs, RollbackPcs, links, history
<1>0. \A p \in Procs : /\ job[p].slot \in Targets /\ job[p].oldTarget \in Targets
                      /\ job[p].oldLauncher \in Launchers
  BY DEF Jobs
<1>1. CASE Relink
  BY <1>1 DEF Relink
<1>2. ASSUME NEW p \in Procs, NEW s \in Slots, BeginInstall(p, s) PROVE TypeOK'
  BY <1>2 DEF BeginInstall, Begin, Goto, Resolve, Jobs
<1>3. ASSUME NEW p \in Procs, OpenSlot(p) PROVE TypeOK'
  <2>1. job' \in [Procs -> Jobs]
    BY <1>3, OpenSlotJob, JobTypes
  <2>2. pc' \in [Procs -> Resting \cup InstallPcs \cup RollbackPcs]
    BY <1>3, OpenSlotJob DEF Goto
  <2>3. UNCHANGED <<slot, prefix, previous, launcher, entry, mishaps>>
    BY <1>3, OpenSlotJob
  <2>4. QED
    BY <2>1, <2>2, <2>3
<1>4. ASSUME NEW p \in Procs, PublishSlot(p) PROVE TypeOK'
  BY <1>4 DEF PublishSlot, At, Goto
<1>5. ASSUME NEW p \in Procs, ProbeSlot(p) PROVE TypeOK'
  BY <1>5 DEF ProbeSlot, At, Goto
<1>6. ASSUME NEW p \in Procs, KeepPrevious(p) PROVE TypeOK'
  BY <1>6, JobTypes DEF KeepPrevious, At, Goto
<1>7. ASSUME NEW p \in Procs, SwitchPrefix(p) PROVE TypeOK'
  BY <1>7, JobTypes, <1>0 DEF SwitchPrefix, At, Goto, Resolve
<1>8. ASSUME NEW p \in Procs, SwitchLauncher(p) PROVE TypeOK'
  BY <1>8 DEF SwitchLauncher, At, Goto
<1>9. ASSUME NEW p \in Procs, FinalProbe(p) PROVE TypeOK'
  BY <1>9 DEF FinalProbe, At, Goto
<1>10. ASSUME NEW p \in Procs, UndoPrefix(p) PROVE TypeOK'
  BY <1>10, <1>0 DEF UndoPrefix, At, Goto
<1>11. ASSUME NEW p \in Procs, UndoPrevious(p) PROVE TypeOK'
  BY <1>11 DEF UndoPrevious, At, Goto
<1>12. ASSUME NEW p \in Procs, UndoLauncher(p) PROVE TypeOK'
  BY <1>12, <1>0 DEF UndoLauncher, At, Goto
<1>13. ASSUME NEW p \in Procs, TearSlot(p) PROVE TypeOK'
  BY <1>13 DEF TearSlot, At, Goto
<1>14. ASSUME NEW p \in Procs, ClearSlot(p) PROVE TypeOK'
  BY <1>14 DEF ClearSlot, At, Goto
<1>15. ASSUME NEW p \in Procs, BeginRollback(p) PROVE TypeOK'
  BY <1>15 DEF BeginRollback, Begin, Goto, Resolve, IsDir, Jobs
<1>16. ASSUME NEW p \in Procs, RbSwitchPrefix(p) PROVE TypeOK'
  BY <1>16, <1>0 DEF RbSwitchPrefix, At, Goto
<1>17. ASSUME NEW p \in Procs, RbSwitchLauncher(p) PROVE TypeOK'
  BY <1>17 DEF RbSwitchLauncher, At, Goto
<1>18. ASSUME NEW p \in Procs, RbProbe(p) PROVE TypeOK'
  BY <1>18 DEF RbProbe, At, Goto
<1>19. ASSUME NEW p \in Procs, RbUndoPrefix(p) PROVE TypeOK'
  BY <1>19, <1>0 DEF RbUndoPrefix, At, Goto
<1>20. ASSUME NEW p \in Procs, RbUndoLauncher(p) PROVE TypeOK'
  BY <1>20 DEF RbUndoLauncher, At, Goto
<1>21. ASSUME NEW p \in Procs, RbKeepPrevious(p) PROVE TypeOK'
  BY <1>21, <1>0 DEF RbKeepPrevious, At, Goto
<1>22. ASSUME NEW p \in Procs, Crash(p) PROVE TypeOK'
  BY <1>22 DEF Crash, Goto
<1>23. CASE UNCHANGED vars
  BY <1>23 DEF vars
<1>24. QED
  BY <1>1, <1>2, <1>3, <1>4, <1>5, <1>6, <1>7, <1>8, <1>9, <1>10, <1>11, <1>12,
     <1>13, <1>14, <1>15, <1>16, <1>17, <1>18, <1>19, <1>20, <1>21, <1>22, <1>23
     DEF Next, Install, Rollback

(* The links, the slots and the local variables of every installer always  *)
(* hold values of their kinds.                                             *)
THEOREM TypeCorrect == Spec => []TypeOK
<1>1. Init => TypeOK
  BY ConstantsAssumption DEF Init, TypeOK, Jobs, Targets, Launchers, SlotStates,
     Resting, InstallPcs, RollbackPcs
<1>2. QED
  BY <1>1, TypeStep, PTL DEF Spec

-----------------------------------------------------------------------------
(* What a step must re-establish: the three links name slots on disk, and  *)
(* the acting process can rely on its saved state.                         *)
LinksPresent == Present(prefix) /\ Present(previous) /\ Present(launcher)

LEMMA LinksStep ==
  ASSUME OneInstaller, IInv, [Next]_vars
  PROVE  LinksPresent' /\ \A q \in Procs : JobOK(q)'
<1> DEFINE Kept == LinksPresent' /\ \A q \in Procs : JobOK(q)'
<1> USE ConstantsAssumption
    DEF IInv, TypeOK, Jobs, Targets, Launchers, SlotStates, JobOK, Present, LinksPresent,
        Resting, InstallPcs, RollbackPcs, UndoPcs, links, OneInstaller
<1>1. CASE Relink
  BY <1>1 DEF Relink
<1>2. ASSUME NEW p \in Procs, NEW s \in Slots, BeginInstall(p, s) PROVE Kept
  BY <1>2 DEF BeginInstall, Begin, Goto
<1>3. ASSUME NEW p \in Procs, BeginRollback(p) PROVE Kept
  BY <1>3 DEF BeginRollback, Begin, Goto, IsDir
<1>4. ASSUME NEW p \in Procs, OpenSlot(p) PROVE Kept
  <2>1. /\ job'[p].slot = job[p].slot
        /\ pc'[p] \in {"publish", "probe", "failed"}
        /\ \/ job'[p].origin = "created"
              /\ slot[job[p].slot] = "absent"
           \/ job'[p].origin = job[p].origin /\ pc'[p] # "publish"
    BY <1>4, OpenSlotJob DEF Goto
  <2>2. pc[p] = "open" /\ UNCHANGED <<slot, prefix, previous, launcher>>
    BY <1>4, OpenSlotJob
  <2>3. JobOK(p)'
    BY <2>1, <2>2
  <2>4. QED
    BY <2>2, <2>3
<1>5. ASSUME NEW p \in Procs, PublishSlot(p) PROVE Kept
  BY <1>5 DEF PublishSlot, At, Goto
<1>6. ASSUME NEW p \in Procs, ProbeSlot(p) PROVE Kept
  BY <1>6 DEF ProbeSlot, At, Goto, IsDir
<1>7. ASSUME NEW p \in Procs, KeepPrevious(p) PROVE Kept
  BY <1>7 DEF KeepPrevious, At, Goto, SameSlot
<1>8. ASSUME NEW p \in Procs, SwitchPrefix(p) PROVE Kept
  BY <1>8 DEF SwitchPrefix, At, Goto, Resolve
<1>9. ASSUME NEW p \in Procs, SwitchLauncher(p) PROVE Kept
  BY <1>9 DEF SwitchLauncher, At, Goto
<1>10. ASSUME NEW p \in Procs, FinalProbe(p) PROVE Kept
  BY <1>10 DEF FinalProbe, At, Goto
<1>11. ASSUME NEW p \in Procs, UndoPrefix(p) PROVE Kept
  BY <1>11 DEF UndoPrefix, At, Goto
<1>12. ASSUME NEW p \in Procs, UndoPrevious(p) PROVE Kept
  BY <1>12 DEF UndoPrevious, At, Goto
<1>13. ASSUME NEW p \in Procs, UndoLauncher(p) PROVE Kept
  BY <1>13 DEF UndoLauncher, At, Goto, SameSlot
<1>14. ASSUME NEW p \in Procs, TearSlot(p) PROVE Kept
  BY <1>14 DEF TearSlot, At, Goto
<1>15. ASSUME NEW p \in Procs, ClearSlot(p) PROVE Kept
  BY <1>15 DEF ClearSlot, At, Goto
<1>16. ASSUME NEW p \in Procs, RbSwitchPrefix(p) PROVE Kept
  BY <1>16 DEF RbSwitchPrefix, At, Goto
<1>17. ASSUME NEW p \in Procs, RbSwitchLauncher(p) PROVE Kept
  BY <1>17 DEF RbSwitchLauncher, At, Goto
<1>18. ASSUME NEW p \in Procs, RbProbe(p) PROVE Kept
  BY <1>18 DEF RbProbe, At, Goto
<1>19. ASSUME NEW p \in Procs, RbUndoPrefix(p) PROVE Kept
  BY <1>19 DEF RbUndoPrefix, At, Goto
<1>20. ASSUME NEW p \in Procs, RbUndoLauncher(p) PROVE Kept
  BY <1>20 DEF RbUndoLauncher, At, Goto
<1>21. ASSUME NEW p \in Procs, RbKeepPrevious(p) PROVE Kept
  BY <1>21 DEF RbKeepPrevious, At, Goto
<1>22. ASSUME NEW p \in Procs, Crash(p) PROVE Kept
  BY <1>22 DEF Crash, Goto
<1>23. CASE UNCHANGED vars
  BY <1>23 DEF vars
<1>24. QED
  BY <1>1, <1>2, <1>3, <1>4, <1>5, <1>6, <1>7, <1>8, <1>9, <1>10, <1>11, <1>12, <1>13, <1>14, <1>15, <1>16, <1>17, <1>18, <1>19, <1>20, <1>21, <1>22, <1>23 DEF Next, Install, Rollback

(* With one installer at a time no link ever names a slot that is not on   *)
(* disk, whatever slots are installed, however operations fail and         *)
(* wherever they die.                                                      *)
THEOREM LinksAlwaysResolve ==
  ASSUME OneInstaller PROVE Spec => []LinksResolve
<1>1. Init => IInv
  BY ConstantsAssumption DEF Init, IInv, TypeOK, Jobs, Targets, Launchers, SlotStates,
     Resting, InstallPcs, RollbackPcs, JobOK, Present, UndoPcs
<1>2. IInv /\ [Next]_vars => IInv'
  BY LinksStep, TypeStep DEF IInv, LinksPresent
<1>3. IInv => LinksResolve
  BY DEF IInv, LinksResolve, Present
<1>4. QED
  BY <1>1, <1>2, <1>3, PTL DEF Spec

-----------------------------------------------------------------------------
(* Every step of the installer adds, discards, activates, withdraws,       *)
(* remembers or forgets one version, or is invisible.                      *)
LEMMA SwitchStep ==
  ASSUME OneInstaller, IInv, [Next]_vars
  PROVE  [Versions!Next]_(Versions!state)
<1> DEFINE kept == {s \in Slots : slot[s] # "absent"}
           Mapped == [Versions!Next]_(Versions!state)
<1> USE ConstantsAssumption DEF IInv, TypeOK, Jobs, Targets, SlotStates,
        JobOK, Present, Resting, InstallPcs, RollbackPcs, UndoPcs, links,
        Version, Versions!Next, Versions!state
<1>1. CASE UNCHANGED <<slot, prefix, previous>>
  BY <1>1
<1>2. ASSUME NEW p \in Procs, PublishSlot(p) PROVE Mapped
  <2>1. kept' = kept \cup {job[p].slot} \/ kept' = kept
    BY <1>2 DEF PublishSlot, At
  <2>2. QED
    BY <1>2, <2>1 DEF PublishSlot, At, Versions!Add
<1>3. ASSUME NEW p \in Procs, TearSlot(p) PROVE Mapped
  <2>1. kept' = kept
    BY <1>3 DEF TearSlot, At
  <2>2. QED
    BY <1>3, <2>1 DEF TearSlot
<1>4. ASSUME NEW p \in Procs, ClearSlot(p) PROVE Mapped
  <2>1. kept' = kept \ {job[p].slot}
    BY <1>4 DEF ClearSlot, At
  <2>2. QED
    BY <1>4, <2>1 DEF ClearSlot, At, Versions!Discard
<1>5. ASSUME NEW p \in Procs, KeepPrevious(p) PROVE Mapped
  BY <1>5 DEF KeepPrevious, At, Versions!Remember, Versions!Forget
<1>6. ASSUME NEW p \in Procs, SwitchPrefix(p) PROVE Mapped
  BY <1>6 DEF SwitchPrefix, At, Versions!Activate
<1>7. ASSUME NEW p \in Procs, UndoPrefix(p) PROVE Mapped
  BY <1>7 DEF UndoPrefix, At, Versions!Activate, Versions!Withdraw
<1>8. ASSUME NEW p \in Procs, UndoPrevious(p) PROVE Mapped
  BY <1>8 DEF UndoPrevious, At, Versions!Forget
<1>9. ASSUME NEW p \in Procs, RbSwitchPrefix(p) PROVE Mapped
  BY <1>9 DEF RbSwitchPrefix, At, Versions!Activate
<1>10. ASSUME NEW p \in Procs, RbUndoPrefix(p) PROVE Mapped
  BY <1>10 DEF RbUndoPrefix, At, Versions!Activate, Versions!Withdraw
<1>11. ASSUME NEW p \in Procs, RbKeepPrevious(p) PROVE Mapped
  BY <1>11 DEF RbKeepPrevious, At, Versions!Remember, Versions!Forget
<1>12. ASSUME NEW p \in Procs,
              \/ \E s \in Slots : BeginInstall(p, s)
              \/ BeginRollback(p) \/ OpenSlot(p) \/ ProbeSlot(p) \/ SwitchLauncher(p)
              \/ FinalProbe(p) \/ UndoLauncher(p) \/ RbSwitchLauncher(p) \/ RbProbe(p)
              \/ RbUndoLauncher(p) \/ Crash(p)
       PROVE  UNCHANGED <<slot, prefix, previous>>
  BY <1>12 DEF BeginInstall, BeginRollback, Begin, OpenSlot, ProbeSlot,
     SwitchLauncher, FinalProbe, UndoLauncher, RbSwitchLauncher, RbProbe,
     RbUndoLauncher, Crash
<1>13. CASE Relink
  BY <1>13 DEF Relink, Versions!Withdraw
<1>14. QED
  BY <1>1, <1>2, <1>3, <1>4, <1>5, <1>6, <1>7, <1>8, <1>9, <1>10, <1>11, <1>12, <1>13
     DEF Next, Install, Rollback, vars

(* One installer at a time, whatever the user links in between, only ever  *)
(* switches between versions it keeps.                                     *)
THEOREM ImplementsVersionSwitch ==
  ASSUME OneInstaller PROVE Spec => SwitchesKeptVersions
<1>1. Init => Versions!Init /\ IInv
  BY ConstantsAssumption DEF Init, IInv, TypeOK, Jobs, Targets, Launchers, SlotStates,
     Resting, InstallPcs, RollbackPcs, JobOK, Present, UndoPcs, Version, Versions!Init
<1>2. IInv /\ [Next]_vars => IInv'
  BY LinksStep, TypeStep DEF IInv, LinksPresent
<1>3. IInv /\ [Next]_vars => [Versions!Next]_(Versions!state)
  BY SwitchStep
<1>4. QED
  BY <1>1, <1>2, <1>3, PTL DEF Spec, SwitchesKeptVersions, Versions!Spec

-----------------------------------------------------------------------------
(* What an operation knows, from step to step, of the links it found: it   *)
(* has not touched them yet, or has saved what it needs to put them back,  *)
(* or has put them back.                                                   *)
Untouched(p) ==
  /\ prefix = entry[p].prefix
  /\ Resolve(launcher) = entry[p].runs
  /\ ValidateLauncher

Before == {"open", "publish", "probe", "keep", "switch", "rb_switch"}

Atomic(p) ==
  /\ pc[p] = "failed" /\ entry[p].prefix # None =>
       /\ prefix = entry[p].prefix
       /\ entry[p].runs # None => Resolve(launcher) = entry[p].runs
  /\ pc[p] = "ok" =>
       /\ prefix = job[p].slot /\ launcher = ViaPrefix
       /\ entry[p].prefix \notin {None, job[p].slot} => previous = entry[p].prefix

Remembers(p) ==
  LET j == job[p]
      e == entry[p] IN
  /\ pc[p] \notin Resting =>
       e.runs \in IF e.prefix = None THEN {None, ViaPrefix} ELSE {None, e.prefix}
  /\ pc[p] \in Before \cup {"tear", "clear"} => Untouched(p)
  /\ pc[p] \in {"switch", "launch", "final"} \cup UndoPcs \cup RollbackPcs
       => j.oldTarget = e.prefix
  /\ pc[p] \in {"launch", "final"} \cup UndoPcs => j.oldLauncher = e.runs
  /\ pc[p] \in {"switch", "launch", "final"} /\ e.prefix \notin {None, j.slot}
       => previous = e.prefix
  /\ pc[p] \in {"launch", "final", "rb_launch", "rb_probe", "rb_keep"} => prefix = j.slot
  /\ pc[p] \in {"final", "rb_probe", "rb_keep"} => launcher = ViaPrefix
  /\ pc[p] \in {"undo_previous", "undo_launcher"} => prefix = e.prefix
  /\ pc[p] = "rb_undo_launcher" /\ e.prefix # None => prefix = e.prefix
  /\ pc[p] \in {"ok", "failed"} => ValidateLauncher
  /\ Atomic(p)

RememberInv == \A p \in Procs : Remembers(p)

(* Until something goes wrong outside the installer its links name slots   *)
(* of its own, and at rest the launcher is one it manages.                 *)
Managed == Slots \cup {None}

ManagedInv ==
  mishaps = {} =>
    /\ prefix \in Managed /\ previous \in Managed
    /\ \A p \in Procs : job[p].oldTarget \in Managed /\ entry[p].prefix \in Managed
    /\ Rest => ValidateLauncher

(* Until an operation dies a slot is whole or absent, but for the one being *)
(* removed.                                                                *)
WholeInv ==
  "crash" \notin mishaps =>
    \A s \in Slots : \/ slot[s] \in {"absent", "whole"}
                     \/ \E p \in Procs : pc[p] = "clear" /\ job[p].slot = s

(* With one installer every step keeps what its operation remembers.       *)
LEMMA RememberStep ==
  ASSUME OneInstaller, TypeOK, RememberInv, [Next]_vars
  PROVE  RememberInv'
<1> USE ConstantsAssumption
    DEF TypeOK, Jobs, Targets, Launchers, RememberInv, Remembers, Untouched, Atomic, Before,
        Resting, InstallPcs, RollbackPcs, UndoPcs, links, history, OneInstaller,
        Resolve, ValidateLauncher
<1>1. CASE Relink
  BY <1>1 DEF Relink
<1>2. ASSUME NEW p \in Procs, NEW s \in Slots, BeginInstall(p, s) PROVE Remembers(p)'
  BY <1>2 DEF BeginInstall, Begin, Goto
<1>3. ASSUME NEW p \in Procs, BeginRollback(p) PROVE Remembers(p)'
  BY <1>3 DEF BeginRollback, Begin, Goto, IsDir
<1>4. ASSUME NEW p \in Procs, OpenSlot(p) PROVE Remembers(p)'
  <2>1. /\ job'[p].slot = job[p].slot
        /\ pc'[p] \in {"publish", "probe", "failed"}
        /\ pc[p] = "open"
        /\ UNCHANGED <<prefix, previous, launcher, entry>>
    BY <1>4, OpenSlotJob DEF Goto
  <2>2. QED
    BY <2>1
<1>5. ASSUME NEW p \in Procs, PublishSlot(p) PROVE Remembers(p)'
  BY <1>5 DEF PublishSlot, At, Goto
<1>6. ASSUME NEW p \in Procs, ProbeSlot(p) PROVE Remembers(p)'
  BY <1>6 DEF ProbeSlot, At, Goto
<1>7. ASSUME NEW p \in Procs, KeepPrevious(p) PROVE Remembers(p)'
  <2>1. /\ pc[p] = "keep" /\ pc'[p] = "switch"
        /\ UNCHANGED <<prefix, launcher, entry>>
        /\ job'[p].oldTarget = prefix /\ job'[p].slot = job[p].slot
        /\ prefix \notin {None, job[p].slot} => previous' = prefix
    BY <1>7 DEF KeepPrevious, At, Goto, SameSlot
  <2>2. QED
    BY <2>1
<1>8. ASSUME NEW p \in Procs, SwitchPrefix(p) PROVE Remembers(p)'
  BY <1>8 DEF SwitchPrefix, At, Goto
<1>9. ASSUME NEW p \in Procs, SwitchLauncher(p) PROVE Remembers(p)'
  BY <1>9 DEF SwitchLauncher, At, Goto
<1>10. ASSUME NEW p \in Procs, FinalProbe(p) PROVE Remembers(p)'
  BY <1>10 DEF FinalProbe, At, Goto
<1>11. ASSUME NEW p \in Procs, UndoPrefix(p) PROVE Remembers(p)'
  BY <1>11 DEF UndoPrefix, At, Goto
<1>12. ASSUME NEW p \in Procs, UndoPrevious(p) PROVE Remembers(p)'
  BY <1>12 DEF UndoPrevious, At, Goto
<1>13. ASSUME NEW p \in Procs, UndoLauncher(p) PROVE Remembers(p)'
  BY <1>13 DEF UndoLauncher, At, Goto
<1>14. ASSUME NEW p \in Procs, TearSlot(p) PROVE Remembers(p)'
  BY <1>14 DEF TearSlot, At, Goto
<1>15. ASSUME NEW p \in Procs, ClearSlot(p) PROVE Remembers(p)'
  BY <1>15 DEF ClearSlot, At, Goto
<1>16. ASSUME NEW p \in Procs, RbSwitchPrefix(p) PROVE Remembers(p)'
  BY <1>16 DEF RbSwitchPrefix, At, Goto
<1>17. ASSUME NEW p \in Procs, RbSwitchLauncher(p) PROVE Remembers(p)'
  BY <1>17 DEF RbSwitchLauncher, At, Goto
<1>18. ASSUME NEW p \in Procs, RbProbe(p) PROVE Remembers(p)'
  BY <1>18 DEF RbProbe, At, Goto
<1>19. ASSUME NEW p \in Procs, RbUndoPrefix(p) PROVE Remembers(p)'
  BY <1>19 DEF RbUndoPrefix, At, Goto
<1>20. ASSUME NEW p \in Procs, RbUndoLauncher(p) PROVE Remembers(p)'
  BY <1>20 DEF RbUndoLauncher, At, Goto
<1>21. ASSUME NEW p \in Procs, RbKeepPrevious(p) PROVE Remembers(p)'
  BY <1>21 DEF RbKeepPrevious, At, Goto
<1>22. ASSUME NEW p \in Procs, Crash(p) PROVE Remembers(p)'
  BY <1>22 DEF Crash, Goto
<1>23. CASE UNCHANGED vars
  BY <1>23 DEF vars
<1> HIDE DEF Remembers
<1>24. ASSUME NEW p \in Procs, Remembers(p)' PROVE RememberInv'
  BY <1>24
<1> HIDE DEF RememberInv
<1>25. QED
  BY ONLY <1>1, <1>2, <1>3, <1>4, <1>5, <1>6, <1>7, <1>8, <1>9, <1>10, <1>11, <1>12,
     <1>13, <1>14, <1>15, <1>16, <1>17, <1>18, <1>19, <1>20, <1>21, <1>22, <1>23,
     <1>24, [Next]_vars DEF Next, Install, Rollback

(* With one installer at a time an operation that fails leaves the version *)
(* it found active and what the launcher ran, and one that reports success *)
(* made its slot active, behind the managed launcher, with the version it  *)
(* replaced to roll back to: whatever slots are installed, however probes  *)
(* fail, and also where a directory above the prefix is itself a symlink.  *)
THEOREM OperationsAreAllOrNothing ==
  ASSUME OneInstaller PROVE Spec => []OperationsAreAtomic
<1>1. Init => TypeOK /\ RememberInv
  BY ConstantsAssumption DEF Init, TypeOK, Jobs, Targets, Launchers, SlotStates,
     Resting, InstallPcs, RollbackPcs, UndoPcs, RememberInv, Remembers, Untouched, Before,
     Atomic
<1>2. TypeOK /\ RememberInv /\ [Next]_vars => TypeOK' /\ RememberInv'
  BY TypeStep, RememberStep
<1>3. RememberInv => OperationsAreAtomic
  BY DEF RememberInv, Remembers, Atomic, OperationsAreAtomic
<1>4. QED
  BY <1>1, <1>2, <1>3, PTL DEF Spec

-----------------------------------------------------------------------------
(* With one installer every step leaves links the installer manages, until *)
(* something goes wrong outside it.                                        *)
LEMMA ManagedStep ==
  ASSUME OneInstaller, TypeOK, RememberInv, ManagedInv, [Next]_vars
  PROVE  ManagedInv'
<1> USE ConstantsAssumption
    DEF TypeOK, Jobs, Targets, Launchers, Managed, ManagedInv, RememberInv, Remembers,
        Resting, InstallPcs, RollbackPcs, UndoPcs, links, history, OneInstaller, Rest,
        ValidateLauncher
<1>1. CASE Relink
  BY <1>1 DEF Relink
<1>2. ASSUME NEW p \in Procs, NEW s \in Slots, BeginInstall(p, s) PROVE ManagedInv'
  BY <1>2 DEF BeginInstall, Begin, Goto
<1>3. ASSUME NEW p \in Procs, BeginRollback(p) PROVE ManagedInv'
  BY <1>3 DEF BeginRollback, Begin, Goto, IsDir
<1>4. ASSUME NEW p \in Procs, OpenSlot(p) PROVE ManagedInv'
  <2>1. /\ job'[p].oldTarget = job[p].oldTarget
        /\ pc[p] = "open" /\ pc'[p] \in {"publish", "probe", "failed"}
        /\ UNCHANGED <<prefix, previous, launcher, entry, mishaps>>
    BY <1>4, OpenSlotJob DEF Goto
  <2>2. ValidateLauncher
    BY <2>1 DEF Untouched, Before
  <2>3. QED
    BY <2>1, <2>2
<1>5. ASSUME NEW p \in Procs, KeepPrevious(p) PROVE ManagedInv'
  BY <1>5 DEF KeepPrevious, At, Goto
<1>6. ASSUME NEW p \in Procs, SwitchPrefix(p) PROVE ManagedInv'
  <2>1. job'[p].oldTarget = job[p].oldTarget /\ pc[p] = "switch" /\ pc'[p] = "launch"
    BY <1>6 DEF SwitchPrefix, At, Goto
  <2>2. prefix' \in Managed
    BY <1>6 DEF SwitchPrefix, At
  <2>3. UNCHANGED <<previous, entry, mishaps>>
    BY <1>6 DEF SwitchPrefix, At
  <2>4. QED
    BY <2>1, <2>2, <2>3
<1>7. ASSUME NEW p \in Procs,
              \/ PublishSlot(p) \/ ProbeSlot(p) \/ TearSlot(p) \/ ClearSlot(p)
       PROVE  ManagedInv'
  <2>1. UNCHANGED <<prefix, previous, launcher, job, entry, mishaps>>
    BY <1>7 DEF PublishSlot, ProbeSlot, TearSlot, ClearSlot, At
  <2>2. pc[p] \in {"publish", "probe", "tear", "clear"}
    BY <1>7 DEF PublishSlot, ProbeSlot, TearSlot, ClearSlot, At
  <2>3. ValidateLauncher
    BY <2>2 DEF Untouched, Before
  <2>4. QED
    BY <2>1, <2>3
<1>8. ASSUME NEW p \in Procs, SwitchLauncher(p) PROVE ManagedInv'
  BY <1>8 DEF SwitchLauncher, At, Goto
<1>9. ASSUME NEW p \in Procs, FinalProbe(p) PROVE ManagedInv'
  BY <1>9 DEF FinalProbe, At, Goto
<1>10. ASSUME NEW p \in Procs, UndoPrefix(p) PROVE ManagedInv'
  BY <1>10 DEF UndoPrefix, At, Goto
<1>11. ASSUME NEW p \in Procs, UndoPrevious(p) PROVE ManagedInv'
  BY <1>11 DEF UndoPrevious, At, Goto
<1>12. ASSUME NEW p \in Procs, UndoLauncher(p) PROVE ManagedInv'
  <2>1. launcher' = job[p].oldLauncher /\ pc[p] = "undo_launcher"
        /\ UNCHANGED <<prefix, previous, job, entry, mishaps>>
    BY <1>12 DEF UndoLauncher, At
  <2>2. launcher' = entry[p].runs /\ prefix = entry[p].prefix
    BY <2>1
  <2>3. ValidateLauncher'
    BY <2>1, <2>2
  <2>4. QED
    BY <2>1, <2>3
<1>13. ASSUME NEW p \in Procs, RbSwitchPrefix(p) PROVE ManagedInv'
  BY <1>13 DEF RbSwitchPrefix, At, Goto
<1>14. ASSUME NEW p \in Procs, RbSwitchLauncher(p) PROVE ManagedInv'
  BY <1>14 DEF RbSwitchLauncher, At, Goto
<1>15. ASSUME NEW p \in Procs, RbProbe(p) PROVE ManagedInv'
  BY <1>15 DEF RbProbe, At, Goto
<1>16. ASSUME NEW p \in Procs, RbUndoPrefix(p) PROVE ManagedInv'
  BY <1>16 DEF RbUndoPrefix, At, Goto
<1>17. ASSUME NEW p \in Procs, RbUndoLauncher(p) PROVE ManagedInv'
  BY <1>17 DEF RbUndoLauncher, At, Goto
<1>18. ASSUME NEW p \in Procs, RbKeepPrevious(p) PROVE ManagedInv'
  BY <1>18 DEF RbKeepPrevious, At, Goto
<1>19. ASSUME NEW p \in Procs, Crash(p) PROVE ManagedInv'
  BY <1>19 DEF Crash, Goto
<1>20. CASE UNCHANGED vars
  BY <1>20 DEF vars
<1> HIDE DEF ManagedInv
<1>21. QED
  BY ONLY <1>1, <1>2, <1>3, <1>4, <1>5, <1>6, <1>7, <1>8, <1>9, <1>10, <1>11, <1>12,
     <1>13, <1>14, <1>15, <1>16, <1>17, <1>18, <1>19, <1>20, [Next]_vars
     DEF Next, Install, Rollback

(* With one installer every step leaves slots whole or absent, but for the *)
(* one it is removing.                                                     *)
LEMMA WholeStep ==
  ASSUME OneInstaller, IInv, WholeInv, [Next]_vars
  PROVE  WholeInv'
<1> USE ConstantsAssumption
    DEF IInv, TypeOK, Jobs, SlotStates, JobOK, WholeInv, Resting, InstallPcs, RollbackPcs,
        links, history, OneInstaller
<1>1. CASE Relink
  BY <1>1 DEF Relink
<1>2. ASSUME NEW p \in Procs, NEW s \in Slots, BeginInstall(p, s) PROVE WholeInv'
  BY <1>2 DEF BeginInstall, Begin, Goto
<1>3. ASSUME NEW p \in Procs, BeginRollback(p) PROVE WholeInv'
  BY <1>3 DEF BeginRollback, Begin, Goto
<1>4. ASSUME NEW p \in Procs, OpenSlot(p) PROVE WholeInv'
  <2>1. pc[p] = "open" /\ UNCHANGED <<slot, mishaps>>
    BY <1>4, OpenSlotJob
  <2>2. QED
    BY <2>1
<1>5. ASSUME NEW p \in Procs, PublishSlot(p) PROVE WholeInv'
  BY <1>5 DEF PublishSlot, At, Goto
<1>6. ASSUME NEW p \in Procs, TearSlot(p) PROVE WholeInv'
  BY <1>6 DEF TearSlot, At, Goto
<1>7. ASSUME NEW p \in Procs, ClearSlot(p) PROVE WholeInv'
  BY <1>7 DEF ClearSlot, At, Goto
<1>8. ASSUME NEW p \in Procs, Crash(p) PROVE WholeInv'
  BY <1>8 DEF Crash, Goto
<1>9. ASSUME NEW p \in Procs, pc[p] # "clear", UNCHANGED <<slot, mishaps>>
      PROVE  WholeInv'
  BY <1>9
<1>10. ASSUME NEW p \in Procs,
              \/ ProbeSlot(p) \/ KeepPrevious(p) \/ SwitchPrefix(p) \/ SwitchLauncher(p)
              \/ FinalProbe(p) \/ UndoPrefix(p) \/ UndoPrevious(p) \/ UndoLauncher(p)
              \/ RbSwitchPrefix(p) \/ RbSwitchLauncher(p) \/ RbProbe(p)
              \/ RbUndoPrefix(p) \/ RbUndoLauncher(p) \/ RbKeepPrevious(p)
       PROVE  pc[p] # "clear" /\ UNCHANGED <<slot, mishaps>>
  BY <1>10 DEF ProbeSlot, KeepPrevious, SwitchPrefix, SwitchLauncher, FinalProbe,
     UndoPrefix, UndoPrevious, UndoLauncher, RbSwitchPrefix, RbSwitchLauncher, RbProbe,
     RbUndoPrefix, RbUndoLauncher, RbKeepPrevious, At
<1>11. CASE UNCHANGED vars
  BY <1>11 DEF vars
<1> HIDE DEF WholeInv
<1>12. QED
  BY ONLY <1>1, <1>2, <1>3, <1>4, <1>5, <1>6, <1>7, <1>8, <1>9, <1>10, <1>11,
     [Next]_vars DEF Next, Install, Rollback

(* What the last two theorems rest on. *)
LinksInv == IInv /\ RememberInv /\ ManagedInv /\ WholeInv

LEMMA LinksAlways == ASSUME OneInstaller PROVE Spec => []LinksInv
<1>1. Init => LinksInv
  BY ConstantsAssumption DEF Init, LinksInv, IInv, TypeOK, Jobs, Targets, Launchers,
     SlotStates, Resting, InstallPcs, RollbackPcs, JobOK, Present, UndoPcs, RememberInv,
     Remembers, Untouched, Before, Atomic, ManagedInv, Managed, WholeInv, ValidateLauncher
<1>2. LinksInv /\ [Next]_vars => LinksInv'
  <2> SUFFICES ASSUME LinksInv, [Next]_vars PROVE LinksInv'
    OBVIOUS
  <2>1. IInv /\ RememberInv /\ ManagedInv /\ WholeInv /\ TypeOK
    BY DEF LinksInv, IInv
  <2>2. IInv'
    BY <2>1, LinksStep, TypeStep DEF IInv, LinksPresent
  <2>3. RememberInv' /\ ManagedInv' /\ WholeInv'
    BY <2>1, RememberStep, ManagedStep, WholeStep
  <2>4. QED
    BY <2>2, <2>3 DEF LinksInv
<1>3. QED
  BY <1>1, <1>2, PTL DEF Spec

(* As long as one installer runs at a time, none died and nobody else      *)
(* touched the links, the installer finds links its own validations        *)
(* accept, however many operations failed before.                          *)
THEOREM OwnLinksAreAccepted ==
  ASSUME OneInstaller PROVE Spec => []AcceptsOwnLinks
<1>1. LinksInv => AcceptsOwnLinks
  BY DEF LinksInv, IInv, Present, ManagedInv, Managed, AcceptsOwnLinks, ValidatePrefix,
     ValidatePrevious, IsDir
<1>2. QED
  BY <1>1, LinksAlways, PTL

(* As long as one installer runs at a time and none died, every file of    *)
(* the active version is there, however often slots were removed, probed   *)
(* and reused.                                                             *)
THEOREM ActiveVersionIsWhole ==
  ASSUME OneInstaller PROVE Spec => []ActiveIsWhole
<1>1. LinksInv => ActiveIsWhole
  BY DEF LinksInv, IInv, Present, JobOK, WholeInv, ActiveIsWhole
<1>2. QED
  BY <1>1, LinksAlways, PTL
=============================================================================
