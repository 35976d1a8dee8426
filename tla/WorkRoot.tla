------------------------------- MODULE WorkRoot -----------------------------
(***************************************************************************)
(* The work root of the macOS backend and the two locks a command takes    *)
(* before it does anything (scripts/macos_backend.py, main): under the     *)
(* initialization lock of the repository it claims the root, if nobody     *)
(* has, and lays it out; then it waits for the lock inside the root.       *)
(*                                                                         *)
(* The kernel releases the locks of a process that dies.                   *)
(***************************************************************************)
EXTENDS Naturals, FiniteSets

CONSTANTS
  Commands,  \* processes that run a command
  None,      \* nobody, or no file
  MaxKills   \* bound on the commands that are killed

ASSUME WorkRootAssumption == None \notin Commands /\ MaxKills \in Nat

VARIABLES
  root,          \* what stands in the work root
  initializing,  \* who holds initialization.lock
  holder,        \* who holds build.lock
  at,            \* where each command is
  kills          \* history: the commands that were killed

rootVars == <<root, initializing, holder, at, kills>>

(* "foreign" is anything that is not ours, "temporary" the marker before   *)
(* it is renamed, "layout" the directories of WorkLayout.                  *)
Entries == {"foreign", "temporary", "marker", "layout"}
Outside == {"out", "denied"}

Go(c, where) == at' = [at EXCEPT ![c] = where]
Inside(c)    == at[c] = "inside"
-----------------------------------------------------------------------------
(* Mutant: every command initializes the root at once. *)
OpenUnlocked(c) ==
  /\ at[c] \in Outside
  /\ Go(c, "ensure")
  /\ UNCHANGED <<root, initializing, holder, kills>>

Open(c) ==
  /\ at[c] \in Outside /\ initializing = None
  /\ initializing' = c
  /\ Go(c, "ensure")
  /\ UNCHANGED <<root, holder, kills>>

(* A root that bears the marker is ours.  One without is claimed only if   *)
(* there is nothing in it: the marker is written to a temporary file.      *)
EnsureMarked(c) ==
  /\ at[c] = "ensure" /\ "marker" \in root
  /\ Go(c, "layout")
  /\ UNCHANGED <<root, initializing, holder, kills>>

Claim(c) ==
  /\ at[c] = "ensure" /\ root = {}
  /\ root' = {"temporary"}
  /\ Go(c, "publish")
  /\ UNCHANGED <<initializing, holder, kills>>

Deny(c) ==
  /\ at[c] = "ensure" /\ "marker" \notin root /\ root # {}
  /\ initializing' = None
  /\ Go(c, "denied")
  /\ UNCHANGED <<root, holder, kills>>

PublishMarker(c) ==
  /\ at[c] = "publish"
  /\ root' = (root \ {"temporary"}) \cup {"marker"}
  /\ Go(c, "layout")
  /\ UNCHANGED <<initializing, holder, kills>>

(* A root that bears the marker may be laid out any number of times: the   *)
(* initialization lock is given back, the build lock awaited.              *)
LayOut(c) ==
  /\ at[c] = "layout"
  /\ root' = root \cup {"layout"}
  /\ initializing' = None
  /\ Go(c, "wait")
  /\ UNCHANGED <<holder, kills>>

Acquire(c) ==
  /\ at[c] = "wait" /\ holder = None
  /\ holder' = c
  /\ Go(c, "inside")
  /\ UNCHANGED <<root, initializing, kills>>

Leave(c) ==
  /\ Inside(c)
  /\ holder' = None
  /\ Go(c, "out")
  /\ UNCHANGED <<root, initializing, kills>>

Killed(c) ==
  /\ at[c] \notin Outside /\ kills < MaxKills
  /\ initializing' = IF initializing = c THEN None ELSE initializing
  /\ holder' = IF holder = c THEN None ELSE holder
  /\ kills' = kills + 1
  /\ Go(c, "out")
  /\ UNCHANGED root

Start(c) == Open(c) \/ EnsureMarked(c) \/ Claim(c) \/ Deny(c) \/ PublishMarker(c) \/ LayOut(c)
-----------------------------------------------------------------------------
(* Locks are held by commands that are where they need them. *)
RootTypeOK ==
  /\ root \subseteq Entries
  /\ initializing \in Commands \cup {None} /\ holder \in Commands \cup {None}
  /\ at \in [Commands -> Outside \cup {"ensure", "publish", "layout", "wait", "inside"}]
  /\ kills \in 0..MaxKills

(* No command is denied a root that was empty or ours when the first one   *)
(* came, however many come at once: only what somebody else has put there, *)
(* or a temporary marker whose writer was killed, stands in the way.       *)
ClaimIsShared == \A c \in Commands : at[c] = "denied" => "foreign" \in root \/ kills > 0
=============================================================================
