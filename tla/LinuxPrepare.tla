----------------------------- MODULE LinuxPrepare ---------------------------
(***************************************************************************)
(* From locked inputs to a prepared source tree in a Linux work volume:    *)
(* fetch-inputs.py, prepare-source-driver.py, and Gate C                   *)
(* (verify-source.py) at the end.                                          *)
(*                                                                         *)
(* fetch runs a few worker threads.  prepare works on a temporary tree,    *)
(* writes its reports into the shared metadata directory one by one,       *)
(* renames the tree into place and then writes a receipt.  A tree that is  *)
(* there is never replaced: the operator moves it away.  The locks are     *)
(* part of the builder image, so a command sees one lock from its          *)
(* beginning to its end, and the next command may see another.             *)
(*                                                                         *)
(* Abstractions.  A file of inputs/ is the locked item it is a copy of.    *)
(* What a preparation does to the tree is a step (SourceRecipe), for it is *)
(* done out of everybody's sight.  The volume belongs to one product.      *)
(* Updates of the patches of a prepared tree are in PatchUpdate.           *)
(***************************************************************************)
EXTENDS SourceRecipe, Sequences

CONSTANTS
  Products,    \* "chromium", "helium", or both
  Locks,       \* what the lock files of the images may say
  Items,       \* inputs a lock may name: a URL, a size and a digest each
  Names,       \* file names in inputs/
  ItemsOf,     \* the inputs of each lock
  NameOf,      \* the file name of each input
  Version,     \* the Chromium and DevTools revisions of each lock
  Recipes,     \* what the inputs of each lock may ask for
  Workers,     \* worker threads of a fetch
  None,        \* no file
  MaxCrashes   \* bound on the commands that are killed

ASSUME PrepareAssumption ==
  /\ Products \subseteq {"chromium", "helium"}
  /\ ItemsOf \in [Locks -> SUBSET Items] /\ NameOf \in [Items -> Names]
  /\ \A l \in Locks : Recipes[l] \subseteq Recipe
  /\ Workers \in Nat \ {0}
  /\ None \notin Items \cup Locks
  /\ MaxCrashes \in Nat

VARIABLES
  product,  \* the product of this volume
  recipe,   \* what the inputs of each lock ask for, as far as they were read
  lock,     \* the lock of the image
  inputs,   \* inputs/
  fetched,  \* fetch-inputs.json: the lock it names
  stamp,    \* fetch-complete.stamp
  source,   \* /work/src
  records,  \* each report of prepare: the lock it was written under
  receipt,  \* source-complete.stamp
  command,       \* the command in progress and where it is
  task,      \* its local variables
  crashes   \* history: the commands that were killed

volume == <<inputs, fetched, stamp, source, records, receipt>>
prepareVars == <<product, recipe, lock, volume, command, task, crashes>>
setting == <<product, recipe, lock, crashes>>

Reports == <<"source-inputs", "patches", "pruning", "domain-substitution",
             "toolchain-selection", "system-unbundle">>
Between == {"idle", "failed", "reused", "accepted", "refused"}
Working    == {"fetch", "report", "stamp", "extract", "records", "rename", "receipt"}

(* A tree carries the lock and the files it was made from. *)
Source == [lock : Locks, made : SUBSET Items]
Task   == [lock : Locks, state : [Items -> {"todo", "busy", "done", "failed"}],
           made : SUBSET Items, todo : Nat]

(* No file is told from every file. *)
ASSUME NoneAssumption == None \notin Source /\ None \notin Recipe

Rest    == command \in Between
Goto(l) == command' = l
AreOf(l) == {i \in Items : task.state[i] = l}
Idle    == [lock |-> lock, state |-> [i \in Items |-> "done"], made |-> {}, todo |-> 0]
(* The file of an input is there with the size and the digest of the lock. *)
Verified(i) == inputs[NameOf[i]] = i

Found(l) == {inputs[NameOf[i]] : i \in ItemsOf[l]}
-----------------------------------------------------------------------------
(* fetch *)

BeginFetch ==
  /\ Rest
  /\ task' = [Idle EXCEPT !.state = [i \in Items |-> IF i \in ItemsOf[lock] THEN "todo" ELSE "done"]]
  /\ Goto("fetch")
  /\ UNCHANGED <<setting, volume>>

(* Mutant: a file that is there is used without looking into it. *)
FetchOneUnverified(i) ==
  /\ command = "fetch" /\ task.state[i] = "todo"
  /\ Cardinality(AreOf("busy")) < Workers
  /\ task' = [task EXCEPT !.state[i] = IF inputs[NameOf[i]] = None THEN "busy" ELSE "done"]
  /\ UNCHANGED <<setting, volume, command>>

(* A worker takes an item.  A file that is there is verified and never     *)
(* replaced; otherwise a download into a temporary file begins.            *)
FetchOne(i) ==
  /\ command = "fetch" /\ task.state[i] = "todo"
  /\ Cardinality(AreOf("busy")) < Workers
  /\ task' = [task EXCEPT !.state[i] = CASE inputs[NameOf[i]] = None -> "busy"
                                       [] Verified(i)              -> "done"
                                       [] OTHER                    -> "failed"]
  /\ UNCHANGED <<setting, volume, command>>

(* The download is complete, verified and renamed; *)
Downloaded(i) ==
  /\ command = "fetch" /\ task.state[i] = "busy"
  /\ inputs' = [inputs EXCEPT ![NameOf[i]] = i]
  /\ task' = [task EXCEPT !.state[i] = "done"]
  /\ UNCHANGED <<setting, fetched, stamp, source, records, receipt, command>>

(* or it is not, and the temporary file goes. *)
DownloadFails(i) ==
  /\ command = "fetch" /\ task.state[i] = "busy"
  /\ task' = [task EXCEPT !.state[i] = "failed"]
  /\ UNCHANGED <<setting, volume, command>>

(* What has not begun after a failure is cancelled, and what has is waited *)
(* for.                                                                    *)
FetchFails ==
  /\ command = "fetch" /\ AreOf("failed") # {} /\ AreOf("busy") = {}
  /\ Goto("failed") /\ task' = Idle
  /\ UNCHANGED <<setting, volume>>

WriteFetchReport ==
  /\ command = "fetch" /\ AreOf("done") = Items
  /\ fetched' = task.lock
  /\ Goto("stamp")
  /\ UNCHANGED <<setting, inputs, stamp, source, records, receipt, task>>

WriteFetchStamp ==
  /\ command = "stamp"
  /\ stamp' = task.lock
  /\ Goto("idle") /\ task' = Idle
  /\ UNCHANGED <<setting, inputs, fetched, source, records, receipt>>
-----------------------------------------------------------------------------
(* prepare *)

(* A prepared Helium tree is taken as it is if the receipt beside it names *)
(* the lock; nothing else of the tree is looked at.                        *)
Reuse ==
  /\ Rest /\ stamp # None
  /\ product = "helium" /\ source # None /\ receipt = lock
  /\ Goto("reused") /\ task' = Idle
  /\ UNCHANGED <<setting, volume>>

(* Of the inputs, Helium's prepare asks that the fetch report names the    *)
(* lock, Chromium's that files of their names are there.                   *)
MayPrepare(l) == (product = "helium" => fetched = l) /\ None \notin Found(l)

(* A tree that is there is never replaced. *)
BeginPrepare ==
  /\ Rest /\ stamp # None /\ source = None
  /\ MayPrepare(lock)
  /\ task' = [Idle EXCEPT !.made = Found(lock)]
  /\ Goto("extract")
  /\ UNCHANGED <<setting, volume>>

(* The temporary tree is extracted and prepared, or it is left where it is.*)
Transform ==
  /\ command = "extract"
  /\ \E r \in IF recipe[task.lock] = None THEN Recipes[task.lock] ELSE {recipe[task.lock]} :
       /\ recipe' = [recipe EXCEPT ![task.lock] = r]
       /\ \/ Prepared(product, r) # {} /\ Goto("records") /\ task' = [task EXCEPT !.todo = 1]
          \/ Prepared(product, r) = {} /\ Goto("failed") /\ task' = Idle
  /\ UNCHANGED <<product, lock, volume, crashes>>

TransformFails ==
  /\ command = "extract"
  /\ Goto("failed") /\ task' = Idle
  /\ UNCHANGED <<setting, volume>>

WriteRecord ==
  /\ command = "records"
  /\ records' = [records EXCEPT ![Reports[task.todo]] = task.lock]
  /\ task' = [task EXCEPT !.todo = @ + 1]
  /\ Goto(IF task.todo = Len(Reports) THEN "rename" ELSE "records")
  /\ UNCHANGED <<setting, inputs, fetched, stamp, source, receipt>>

(* The tree appears whole. *)
Rename ==
  /\ command = "rename"
  /\ source' = [lock |-> task.lock, made |-> task.made]
  /\ Goto("receipt")
  /\ UNCHANGED <<setting, inputs, fetched, stamp, records, receipt, task>>

(* Mutant: a receipt that is there is left as it is. *)
WriteReceiptOnce ==
  /\ command = "receipt"
  /\ receipt' = IF receipt = None THEN task.lock ELSE receipt
  /\ Goto("idle") /\ task' = Idle
  /\ UNCHANGED <<setting, inputs, fetched, stamp, source, records>>

WriteReceipt ==
  /\ command = "receipt"
  /\ receipt' = task.lock
  /\ Goto("idle") /\ task' = Idle
  /\ UNCHANGED <<setting, inputs, fetched, stamp, source, records>>
-----------------------------------------------------------------------------
(* Gate C *)

(* What the preparation under a lock leaves, and what its reports say.     *)
(* Each report may be of a run of its own.                                 *)
Outcome(l) == CHOOSE o \in Prepared(product, recipe[l]) : TRUE
TreeOf(s)  == Outcome(s.lock).tree
Told(r)    == Outcome(records[r]).findings

(* The provenance of the patches has the states that the disposition has;  *)
(* of their contents only the form of the digest is looked at.             *)
PatchesHold ==
  Version[records["patches"]] = Version[lock]

GateCHolds ==
  /\ Version[records["source-inputs"]] = Version[lock]
  /\ Version[source.lock] = Version[lock]
  /\ PatchesHold
  /\ Version[records["pruning"]] = Version[lock]
  /\ PruningHolds(TreeOf(source), Told("pruning"))
  /\ Version[records["domain-substitution"]] = Version[lock]
  /\ DomainsHold(Told("domain-substitution"))
  /\ ToolchainHolds(Told("toolchain-selection"))
  /\ UnbundleHolds(TreeOf(source))

GateC ==
  /\ Rest /\ source # None /\ \A r \in DOMAIN records : records[r] # None
  /\ Goto(IF GateCHolds THEN "accepted" ELSE "refused")
  /\ task' = Idle
  /\ UNCHANGED <<setting, volume>>
-----------------------------------------------------------------------------
(* The operator builds the image with another lock, *)
NewImage ==
  /\ Rest
  /\ lock' \in Locks \ {lock}
  /\ Goto("idle") /\ task' = [Idle EXCEPT !.lock = lock']
  /\ UNCHANGED <<product, recipe, volume, crashes>>

(* or moves the prepared tree away, as the refusal tells them to. *)
MoveAway ==
  /\ Rest /\ source # None
  /\ source' = None
  /\ Goto("idle") /\ UNCHANGED task
  /\ UNCHANGED <<setting, inputs, fetched, stamp, records, receipt>>

Killed ==
  /\ crashes < MaxCrashes /\ ~Rest
  /\ Goto("failed") /\ task' = Idle
  /\ crashes' = crashes + 1
  /\ UNCHANGED <<product, recipe, lock, volume>>

PrepareInit ==
  /\ product \in Products /\ recipe = [l \in Locks |-> None] /\ lock \in Locks
  /\ inputs = [n \in Names |-> None] /\ fetched = None /\ stamp = None
  /\ source = None /\ receipt = None
  /\ records = [r \in {Reports[k] : k \in DOMAIN Reports} |-> None]
  /\ command = "idle" /\ task = Idle /\ crashes = 0

Fetch   == BeginFetch \/ (\E i \in Items : FetchOne(i) \/ Downloaded(i) \/ DownloadFails(i))
           \/ FetchFails \/ WriteFetchReport \/ WriteFetchStamp
Prepare == Reuse \/ BeginPrepare \/ Transform \/ TransformFails \/ WriteRecord \/ Rename \/ WriteReceipt

PrepareNext == Fetch \/ Prepare \/ GateC \/ NewImage \/ MoveAway \/ Killed

PrepareSpec == PrepareInit /\ [][PrepareNext]_prepareVars
-----------------------------------------------------------------------------
PrepareTypeOK ==
  /\ product \in Products /\ recipe \in [Locks -> Recipe \cup {None}] /\ lock \in Locks
  /\ inputs \in [Names -> Items \cup {None}]
  /\ fetched \in Locks \cup {None} /\ stamp \in Locks \cup {None}
  /\ source \in Source \cup {None} /\ receipt \in Locks \cup {None}
  /\ records \in [{Reports[k] : k \in DOMAIN Reports} -> Locks \cup {None}]
  /\ command \in Between \cup Working /\ task \in Task /\ crashes \in 0..MaxCrashes

(* The fetch report and the fetch stamp name locks all of whose inputs are *)
(* in inputs/ and have been verified: with several workers, some of which  *)
(* fail, with commands killed and with names that several locks use.       *)
FetchReportIsBacked ==
  \A l \in {fetched, stamp} \ {None} : \A i \in ItemsOf[l] : Verified(i)

(* Nothing pruned is in a tree but what is kept or linked, and nothing of  *)
(* the domain list is without its substitution, except for what a layer of *)
(* patches adds after that step.                                           *)
AddedLate(r, layers) == UNION {r.patches[k].adds : k \in layers}
Sanitised(t, r, p) ==
  LET late(ls) == IF p = "helium" THEN AddedLate(r, ls) ELSE {}
      kept     == IF p = "helium" THEN r.kept ELSE {} IN
  /\ t.layers = Layers
  /\ t.files \cap r.pruning \subseteq kept \cup Links \cup late(Layers)
  /\ t.files \cap r.domains \subseteq t.substituted \cup Links \cup late({"local", "inventory"})

(* A tree at its final place went through every step for its lock, whatever*)
(* was killed, and a Helium tree was made from the inputs of its lock and  *)
(* no others (lines 194-262 of prepare-source-driver.py).                  *)
PublishedIsPrepared ==
  source # None =>
    /\ Sanitised(TreeOf(source), recipe[source.lock], product)
    /\ product = "helium" => source.made = ItemsOf[source.lock]

(* Between commands the receipt and all the reports of prepare are about   *)
(* the tree they lie beside, until a command has been killed.              *)
ReportsDescribeSource ==
  Rest /\ source # None /\ crashes = 0 =>
    receipt = source.lock /\ \A r \in DOMAIN records : records[r] = source.lock

(* What Gate C has accepted is free of everything its lock prunes but the  *)
(* kept build dependencies, without exception for late patches, and has no *)
(* domain left to late patches or to chance: the reports the gate goes by  *)
(* are those of the tree, until a command has been killed.                 *)
AcceptedIsPrepared ==
  command = "accepted" /\ crashes = 0 =>
    LET r == recipe[source.lock]
        t == TreeOf(source) IN
    /\ t.layers = Layers
    /\ t.files \cap r.pruning \subseteq r.kept
    /\ r.domains \cap t.files \subseteq t.substituted \cup Links
    /\ source.made = ItemsOf[source.lock]

=============================================================================
