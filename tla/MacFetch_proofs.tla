---------------------------- MODULE MacFetch_proofs -------------------------
(***************************************************************************)
(* Proofs about MacFetch, and with it about WorkRoot and LockedInputs, for *)
(* any number of commands, locks, inputs, ranges, workers and dependency   *)
(* roots, with kills and failures of the network at any step.              *)
(***************************************************************************)
EXTENDS MacFetch, TLAPS

(* Only a command under the initialization lock looks at the root or       *)
(* writes to it; what is in an unmarked root is not the layout.            *)
RootInv ==
  /\ \A c \in Commands : at[c] \in {"ensure", "publish", "layout"} => initializing = c
  /\ \A c \in Commands : holder = c => Inside(c)
  /\ "temporary" \in root => kills > 0 \/ \E c \in Commands : at[c] = "publish"
  /\ "layout" \in root => "marker" \in root
  /\ \A c \in Commands : at[c] = "layout" => "marker" \in root
  /\ ClaimIsShared

(* As long as a range is to be written the descriptor stays open.          *)
SpanInv == Where(span, "todo") \cup Where(span, "running") # {} => descriptor = "open"

(* Where a fetch counts on the tree, on its record and on none.            *)
WithTree == {"record", "replace", "record_checkout", "worktree", "commit", "hooks", "deps",
             "commit_dep", "config", "sync", "stamp", "tools", "runhooks", "report"}

PlaceInv ==
  /\ holder = None => pc = "idle"
  /\ pc \in WithTree => tree # None
  /\ pc \in (WithTree \cup {"checkout"}) \ {"record"} => acquired # None
  /\ pc \in {"rm_outputs", "rm_metadata", "rm_config"} => tree = None

(* Nothing half made is left behind by a command that was not killed.      *)
CauseInv ==
  kills = 0 =>
    /\ depot = "directory" => pc = "depot_init"
    /\ depot = "repository" => pc = "depot_remote"
    /\ depot = "dirty" => pc = "depot_write"
    /\ tree # None /\ acquired = None => pc = "record"
    /\ tree # None /\ backup # None /\ acquired # None /\ acquired.method = "lite" =>
         pc \in {"record", "record_checkout"}
    /\ pc = "refused" => \/ acquired # None /\ acquired.revision # Revision
                         \/ Unverified(job.lock) # {}

(* Where a fetch has its inputs, its depot_tools and its working tree.      *)
WithDepot  == {"rust", "harness", "source", "checkout", "fetched"} \cup WithTree
WithInputs == {"depot", "depot_init", "depot_remote", "depot_fetch", "depot_checkout",
               "depot_write"} \cup WithDepot
WithCommit == {"hooks", "deps", "commit_dep", "config", "sync", "stamp", "tools", "runhooks",
               "report", "fetched"}

(* An input that a thread is done with has been verified, and a thread     *)
(* that never began has been cancelled for another one's failure.          *)
InputsInv ==
  /\ pc = "inputs" =>
       /\ \A i \in Items : thread[i] # "none" <=> i \in ItemsOf[job.lock]
       /\ \A i \in Items : thread[i] = "done" => Verifies(i)
       /\ Where(thread, "cancelled") # {} => Where(thread, "failed") # {}
  /\ pc \in WithInputs => \A i \in ItemsOf[job.lock] : Verifies(i)

(* What the steps of a fetch have done so far. *)
DoneInv ==
  /\ pc \in WithDepot => depot = ToolsOf[job.lock]
  /\ pc = "fetched" => report = job.lock
  /\ pc \in WithCommit => tree # None /\ tree.git = "committed"
  /\ pc \in {"runhooks", "report", "fetched"} => tree.tools = "native"
  /\ pc \in {"report", "fetched"} => tree.hooked = "yes"

(* The record is of the tree, unless it was a lite one and its tree has    *)
(* been moved away: no fetch goes on with that.  The stamp is of a tree    *)
(* that was synchronized.                                                  *)
Moved   == acquired.method = "lite" /\ backup # None
Matches == acquired = [revision |-> tree.revision, method |-> tree.method]

RecordInv ==
  /\ pc = "record" => tree.revision = Revision /\ tree.method = "archive"
  /\ pc = "record_checkout" => tree.revision = Revision /\ tree.method = "checkout"
  /\ pc \in {"replace", "worktree", "commit"} \cup WithCommit =>
       acquired # None /\ acquired.revision = Revision
  /\ pc \in {"worktree", "commit"} \cup WithCommit => acquired.method # "lite"
  /\ pc \in {"checkout", "record_checkout"} => acquired.method = "lite" /\ backup # None
  /\ "lite" \notin mishaps /\ acquired # None => acquired.method # "lite"
  /\ pc = "rm_config" => acquired = None /\ stamp = None
  /\ "reset" \notin mishaps /\ pc \notin Resetting =>
       /\ tree # None => tree.files = "all" /\ (acquired # None => Matches \/ Moved)
       /\ tree = None /\ acquired # None => Moved
       /\ "lite" \notin mishaps =>
            /\ stamp # None => tree # None /\ tree.synced = "yes"
            /\ pc \in {"stamp", "tools", "runhooks", "report", "fetched"} => tree.synced = "yes"

Walked == {"config", "sync", "stamp", "tools", "runhooks", "report"}

(* The roots a fetch has listed were all visited or are in the queue, and  *)
(* so are the roots that they name or that it has yet to take up.          *)
WalkInv ==
  /\ pc \notin {"deps", "commit_dep"} \cup Walked => job.paths = {} /\ job.seen = {} /\ job.todo = {}
  /\ pc \in {"deps", "commit_dep"} =>
       /\ {"src"} \cup job.paths \subseteq job.seen \cup job.queue
       /\ \A r \in job.seen : DepsOf[r] \subseteq job.paths \cup job.todo
  /\ pc \in {"deps", "commit_dep"} \cup Walked =>
       \A d \in job.paths : tree.roots[d] # "none"
  /\ pc \in Walked /\ acquired.method = "archive" =>
       Led \subseteq job.paths
  /\ pc = "sync" => config = job.paths
  /\ pc = "commit_dep" => job.dep \in Roots
  /\ kills = 0 /\ tree # None =>
       \A d \in Roots : tree.roots[d] = "unborn" => pc = "commit_dep" /\ job.dep = d
  /\ tree # None /\ tree.method = "archive" /\ "reset" \notin mishaps =>
       \A d \in Led : tree.roots[d] # "replaced"

IInv == /\ TypeOK /\ RootInv /\ SpanInv /\ PlaceInv /\ CauseInv
        /\ InputsInv /\ DoneInv /\ RecordInv /\ WalkInv
-----------------------------------------------------------------------------

(* The locks, the downloads and the fetch are three machines: a step of    *)
(* one of them shows to the others as one of few things.                   *)
LEMMA RootSteps ==
  ASSUME [Next]_vars
  PROVE  \/ UNCHANGED rootVars
         \/ \E c \in Commands : Start(c) \/ Acquire(c) \/ Leave(c) \/ Killed(c)
<1>1. CASE Fetch
  <2>1. CASE Load \/ InputsEnd \/ NetworkFails \/ DepotStands \/ DepotRefused \/ MakeDepot \/ InitDepot
             \/ NameRemote \/ KeepDepot \/ FetchDepot \/ BeginCheckout \/ CheckoutDepot \/ EnsureRust \/ FetchHarness
    BY <2>1 DEF Load, InputsEnd, NetworkFails, DepotStands, DepotRefused, MakeDepot, InitDepot, NameRemote,
                KeepDepot, FetchDepot, BeginCheckout, CheckoutDepot, EnsureRust, FetchHarness, DepotStep, Fails, Step
  <2>2. CASE SourceRefused \/ SourceStands \/ PlaceArchive \/ RecordArchive \/ KeepTree \/ BackupRefused
             \/ MoveArchive \/ PlaceCheckout \/ RecordCheckout \/ WorktreeStands \/ InitWorktree
             \/ CommitWorktree \/ BeginHooks
    BY <2>2 DEF SourceRefused, SourceStands, PlaceArchive, RecordArchive, KeepTree, BackupRefused, MoveArchive,
                PlaceCheckout, RecordCheckout, WorktreeStands, InitWorktree, CommitWorktree, BeginHooks, Record, Step
  <2>3. CASE \/ \E r \in {"src"} \cup Roots : VisitRoot(r)
             \/ \E d \in Roots : TakeDep(d)
             \/ CommitDep \/ DepsEnd \/ WriteConfig \/ SyncStands \/ Synchronize \/ WriteStamp
             \/ EnsureTools \/ RunHooks \/ WriteReport
    BY <2>3 DEF VisitRoot, TakeDep, CommitDep, DepsEnd, WriteConfig, SyncStands, Synchronize, WriteStamp,
                EnsureTools, RunHooks, WriteReport, Step
  <2>. QED BY <1>1, <2>1, <2>2, <2>3 DEF Fetch
<1>2. CASE Reset
  BY <1>2 DEF Reset, RemoveSource, RemoveOutputs, RemovalRaced, RemoveMetadata, RemoveConfig, Step
<1>3. CASE EditLock
  BY <1>3 DEF EditLock
<1>4. ASSUME NEW c \in Commands, Arrive(c) \/ EnterFetch(c) \/ EnterReset(c) \/ Exit(c) \/ Kill(c)
      PROVE  Start(c) \/ Acquire(c) \/ Leave(c) \/ Killed(c)
  BY <1>4 DEF Arrive, EnterFetch, EnterReset, Exit, Kill
<1>5. CASE UNCHANGED vars
  BY <1>5 DEF vars
<1>. QED BY <1>1, <1>2, <1>3, <1>4, <1>5 DEF Next

(* Outside of the step that downloads, the threads of a fetch are left     *)
(* alone, begin, or have all ended.                                        *)
LEMMA InputSteps ==
  ASSUME lock \in Locks, [Next]_vars
  PROVE  \/ UNCHANGED inputVars
         \/ Download
         \/ \E wanted \in SUBSET Items : BeginDownloads(wanted)
         \/ ThreadsEnd /\ UNCHANGED inputs
<1>1. CASE Fetch
  <2>1. CASE Load
    BY <2>1 DEF Load
  <2>2. CASE InputsEnd
    BY <2>2 DEF InputsEnd
  <2>3. CASE NetworkFails \/ DepotStands \/ DepotRefused \/ MakeDepot \/ InitDepot
             \/ NameRemote \/ KeepDepot \/ FetchDepot \/ BeginCheckout \/ CheckoutDepot \/ EnsureRust \/ FetchHarness
    BY <2>3 DEF NetworkFails, DepotStands, DepotRefused, MakeDepot, InitDepot, NameRemote, KeepDepot,
                FetchDepot, BeginCheckout, CheckoutDepot, EnsureRust, FetchHarness, DepotStep, Fails, Step
  <2>4. CASE SourceRefused \/ SourceStands \/ PlaceArchive \/ RecordArchive \/ KeepTree \/ BackupRefused
             \/ MoveArchive \/ PlaceCheckout \/ RecordCheckout \/ WorktreeStands \/ InitWorktree
             \/ CommitWorktree \/ BeginHooks
    BY <2>4 DEF SourceRefused, SourceStands, PlaceArchive, RecordArchive, KeepTree, BackupRefused, MoveArchive,
                PlaceCheckout, RecordCheckout, WorktreeStands, InitWorktree, CommitWorktree, BeginHooks, Record, Step
  <2>5. CASE \/ \E r \in {"src"} \cup Roots : VisitRoot(r)
             \/ \E d \in Roots : TakeDep(d)
             \/ CommitDep \/ DepsEnd \/ WriteConfig \/ SyncStands \/ Synchronize \/ WriteStamp
             \/ EnsureTools \/ RunHooks \/ WriteReport
    BY <2>5 DEF VisitRoot, TakeDep, CommitDep, DepsEnd, WriteConfig, SyncStands, Synchronize, WriteStamp,
                EnsureTools, RunHooks, WriteReport, Step
  <2>. QED BY <1>1, <2>1, <2>2, <2>3, <2>4, <2>5 DEF Fetch
<1>2. CASE Reset
  BY <1>2 DEF Reset, RemoveSource, RemoveOutputs, RemovalRaced, RemoveMetadata, RemoveConfig, Step
<1>3. CASE EditLock
  BY <1>3 DEF EditLock
<1>4. ASSUME NEW c \in Commands, EnterFetch(c)
      PROVE  BeginDownloads(ItemsOf[lock]) /\ ItemsOf[lock] \in SUBSET Items
  BY <1>4, FetchAssumption DEF EnterFetch, FetchAssumption
<1>5. ASSUME NEW c \in Commands, Kill(c)
      PROVE  UNCHANGED inputVars \/ (ThreadsEnd /\ UNCHANGED inputs)
  BY <1>5 DEF Kill, inputVars
<1>6. ASSUME NEW c \in Commands, Arrive(c) \/ EnterReset(c) \/ Exit(c)
      PROVE  UNCHANGED inputVars
  BY <1>6 DEF Arrive, EnterReset, Exit
<1>7. CASE UNCHANGED vars
  BY <1>7 DEF vars
<1>. QED BY <1>1, <1>2, <1>3, <1>4, <1>5, <1>6, <1>7 DEF Next
-----------------------------------------------------------------------------
(* The locks of the work root *)

LEMMA RootTypes ==
  ASSUME RootTypeOK, [Next]_vars
  PROVE  RootTypeOK'
<1>1. CASE UNCHANGED rootVars
  BY <1>1 DEF RootTypeOK, rootVars
<1>2. ASSUME NEW c \in Commands, Start(c)
      PROVE  RootTypeOK'
  BY <1>2 DEF RootTypeOK, Start, Open, EnsureMarked, Claim, Deny, PublishMarker, LayOut, Go, Entries, Outside
<1>3. ASSUME NEW c \in Commands, Acquire(c) \/ Leave(c)
      PROVE  RootTypeOK'
  BY <1>3 DEF RootTypeOK, Acquire, Leave, Go, Outside
<1>4. ASSUME NEW c \in Commands, Killed(c)
      PROVE  RootTypeOK'
  BY <1>4, WorkRootAssumption DEF RootTypeOK, Killed, Go, Outside, WorkRootAssumption
<1>. QED BY RootSteps, <1>1, <1>2, <1>3, <1>4

LEMMA RootInvStep ==
  ASSUME RootTypeOK, RootInv, [Next]_vars
  PROVE  RootInv'
<1>1. CASE UNCHANGED rootVars
  BY <1>1 DEF RootInv, rootVars, ClaimIsShared, Inside
<1>2. ASSUME NEW c \in Commands, Start(c)
      PROVE  RootInv'
  <2>. USE WorkRootAssumption DEF WorkRootAssumption, RootTypeOK, RootInv, ClaimIsShared, Inside, Go, Outside
  <2>1. CASE Open(c)
    BY <2>1 DEF Open
  <2>2. CASE EnsureMarked(c)
    BY <2>2 DEF EnsureMarked
  <2>3. CASE Claim(c)
    BY <2>3 DEF Claim
  <2>4. CASE Deny(c)
    BY <2>4 DEF Deny, Entries
  <2>5. CASE PublishMarker(c)
    BY <2>5 DEF PublishMarker
  <2>6. CASE LayOut(c)
    BY <2>6 DEF LayOut
  <2>. QED BY <1>2, <2>1, <2>2, <2>3, <2>4, <2>5, <2>6 DEF Start
<1>3. ASSUME NEW c \in Commands, Acquire(c) \/ Leave(c)
      PROVE  RootInv'
  BY <1>3, WorkRootAssumption
     DEF WorkRootAssumption, RootTypeOK, RootInv, ClaimIsShared, Inside, Go, Outside, Acquire, Leave
<1>4. ASSUME NEW c \in Commands, Killed(c)
      PROVE  RootInv'
  BY <1>4, WorkRootAssumption
     DEF WorkRootAssumption, RootTypeOK, RootInv, ClaimIsShared, Inside, Go, Outside, Killed
<1>. QED BY RootSteps, <1>1, <1>2, <1>3, <1>4
-----------------------------------------------------------------------------
(* The threads that download *)

LEMMA InputTypes ==
  ASSUME lock \in Locks, InputsTypeOK, [Next]_vars
  PROVE  InputsTypeOK'
<1>. USE DEF InputsTypeOK, Threads, Spans
<1>1. CASE UNCHANGED inputVars
  BY <1>1 DEF inputVars
<1>2. ASSUME NEW i \in Items, TakeInput(i)
      PROVE  InputsTypeOK'
  BY <1>2 DEF TakeInput, Set
<1>3. ASSUME NEW i \in Items, OpenRanges(i) \/ Stream(i) \/ RejectInput(i)
      PROVE  InputsTypeOK'
  BY <1>3 DEF OpenRanges, Stream, RejectInput, Set
<1>4. ASSUME NEW i \in Items, CloseRanges(i)
      PROVE  InputsTypeOK'
  BY <1>4 DEF CloseRanges, Set, Assembled
<1>5. ASSUME NEW i \in Items, PublishInput(i)
      PROVE  InputsTypeOK'
  BY <1>5 DEF PublishInput, Set
<1>6. ASSUME NEW k \in 1..Ranges, TakeRange(k) \/ EndRange(k)
      PROVE  InputsTypeOK'
  BY <1>6 DEF TakeRange, EndRange
<1>7. CASE CancelRanges \/ CancelInputs
  BY <1>7 DEF CancelRanges, CancelInputs
<1>8. ASSUME NEW wanted \in SUBSET Items, BeginDownloads(wanted)
      PROVE  InputsTypeOK'
  BY <1>8 DEF BeginDownloads
<1>9. CASE ThreadsEnd /\ UNCHANGED inputs
  BY <1>9 DEF ThreadsEnd
<1>. QED BY InputSteps, <1>1, <1>2, <1>3, <1>4, <1>5, <1>6, <1>7, <1>8, <1>9 DEF Download

LEMMA SpanInvStep ==
  ASSUME lock \in Locks, InputsTypeOK, SpanInv, [Next]_vars
  PROVE  SpanInv'
<1>. USE DEF InputsTypeOK, SpanInv, Where
<1>1. CASE UNCHANGED <<span, descriptor>>
  BY <1>1
<1>2. ASSUME NEW i \in Items, TakeInput(i) \/ Stream(i) \/ PublishInput(i) \/ RejectInput(i)
      PROVE  UNCHANGED <<span, descriptor>>
  BY <1>2 DEF TakeInput, Stream, PublishInput, RejectInput
<1>3. ASSUME NEW i \in Items, OpenRanges(i)
      PROVE  SpanInv'
  BY <1>3 DEF OpenRanges
<1>4. ASSUME NEW i \in Items, CloseRanges(i)
      PROVE  SpanInv'
  BY <1>4 DEF CloseRanges
<1>5. ASSUME NEW k \in 1..Ranges, TakeRange(k) \/ EndRange(k)
      PROVE  SpanInv'
  BY <1>5 DEF TakeRange, EndRange
<1>6. CASE CancelRanges
  BY <1>6 DEF CancelRanges
<1>7. CASE ThreadsEnd
  BY <1>7 DEF ThreadsEnd
<1>8. UNCHANGED inputVars \/ CancelInputs \/ (\E wanted \in SUBSET Items : BeginDownloads(wanted)) => UNCHANGED <<span, descriptor>>
  BY DEF inputVars, CancelInputs, BeginDownloads
<1>. QED BY InputSteps, <1>1, <1>2, <1>3, <1>4, <1>5, <1>6, <1>7, <1>8 DEF Download
-----------------------------------------------------------------------------
(* The fetch *)

(* What a command is to do when it begins is to read its lock. *)
LEMMA ReadingIsJob ==
  ASSUME NEW l \in Locks
  PROVE  Reading(l) \in Jobs
BY DEF Reading, Jobs

LEMMA BareIsTree ==
  ASSUME NEW r \in Revisions, NEW m \in Methods
  PROVE  Bare(r, m) \in Trees /\ Bare(r, m) # None
BY NoneAssumption DEF Bare, Trees, Git, NoneAssumption

(* What works on a tree leaves a tree. *)
LEMMA TreesStay ==
  ASSUME FetchTypeOK, PlaceInv,
         \/ InitWorktree \/ CommitWorktree \/ CommitDep \/ Synchronize \/ EnsureTools \/ RunHooks
         \/ \E d \in Roots : TakeDep(d)
  PROVE  tree' \in Trees /\ tree' # None
<1>. SUFFICES tree' \in Trees
  BY NoneAssumption DEF NoneAssumption
<1>1. tree \in Trees
  BY DEF FetchTypeOK, PlaceInv, WithTree, InitWorktree, CommitWorktree, CommitDep, Synchronize, EnsureTools,
         RunHooks, TakeDep, Step
<1>2. CASE InitWorktree \/ CommitWorktree \/ CommitDep
  BY <1>1, <1>2 DEF InitWorktree, CommitWorktree, CommitDep, Trees, Git
<1>3. CASE Synchronize
  <2>. DEFINE R == [d \in Roots |-> IF tree.method = "archive" /\ d \notin config THEN "replaced"
                                    ELSE tree.roots[d]]
  <2>1. R \in [Roots -> Git]
    BY <1>1 DEF Trees, Git
  <2>2. tree' = [tree EXCEPT !.synced = "yes", !.roots = R]
    BY <1>3 DEF Synchronize
  <2>. HIDE DEF R
  <2>. QED BY <1>1, <2>1, <2>2 DEF Trees
<1>4. CASE EnsureTools \/ RunHooks
  BY <1>1, <1>4 DEF EnsureTools, RunHooks, Trees
<1>5. ASSUME NEW d \in Roots, TakeDep(d)
      PROVE  tree' \in Trees
  <2>1. [tree EXCEPT !.roots[d] = "unborn"] \in Trees
    BY <1>1 DEF Trees, Git
  <2>. QED BY <1>1, <1>5, <2>1 DEF TakeDep
<1>. QED BY <1>2, <1>3, <1>4, <1>5

LEMMA DepotTypes ==
  ASSUME FetchTypeOK,
         \/ DepotStands \/ DepotRefused \/ MakeDepot \/ InitDepot \/ NameRemote \/ KeepDepot \/ FetchDepot
         \/ BeginCheckout \/ CheckoutDepot \/ EnsureRust \/ FetchHarness \/ NetworkFails \/ InputsEnd \/ Load
  PROVE  FetchTypeOK'
<1>. USE DEF FetchTypeOK
<1>1. job.lock \in Locks /\ ToolsOf[job.lock] \in Commits
  BY DEF Jobs, Commits
<1>2. Reading(job.lock) \in Jobs
  BY <1>1, ReadingIsJob
<1>3. CASE DepotStands \/ DepotRefused \/ EnsureRust \/ FetchHarness
  BY <1>2, <1>3 DEF DepotStands, DepotRefused, EnsureRust, FetchHarness, Step, Goto, Stop, state, Over, Fetching
<1>4. CASE MakeDepot \/ InitDepot \/ NameRemote \/ KeepDepot \/ FetchDepot \/ BeginCheckout \/ CheckoutDepot
  BY <1>1, <1>4 DEF MakeDepot, InitDepot, NameRemote, KeepDepot, FetchDepot,
                    BeginCheckout, CheckoutDepot, DepotStep,
                    Step, Goto, Depots, Partial, Fetching
<1>5. CASE NetworkFails
  BY <1>2, <1>5 DEF NetworkFails, Fails, Step, Stop, state, Over
<1>6. CASE InputsEnd
  BY <1>6 DEF InputsEnd, Goto, state, Over, Fetching
<1>7. CASE Load
  BY <1>7 DEF Load, state
<1>. QED BY <1>3, <1>4, <1>5, <1>6, <1>7

LEMMA SourceTypes ==
  ASSUME FetchTypeOK, PlaceInv,
         \/ SourceRefused \/ SourceStands \/ PlaceArchive \/ RecordArchive \/ KeepTree \/ BackupRefused
         \/ MoveArchive \/ PlaceCheckout \/ RecordCheckout \/ WorktreeStands \/ InitWorktree
         \/ CommitWorktree \/ BeginHooks
  PROVE  FetchTypeOK'
<1>. USE DEF FetchTypeOK
<1>1. job.lock \in Locks /\ Revision \in Revisions
  BY DEF Jobs, Revisions, Revision
<1>2. Reading(job.lock) \in Jobs
  BY <1>1, ReadingIsJob
<1>3. CASE SourceRefused \/ SourceStands \/ KeepTree \/ BackupRefused \/ WorktreeStands
  BY <1>2, <1>3 DEF SourceRefused, SourceStands, KeepTree, BackupRefused, WorktreeStands, Step, Goto, Stop,
                    state, Over, Fetching
<1>4. CASE PlaceArchive \/ PlaceCheckout
  <2>1. Bare(Revision, "archive") \in Trees /\ Bare(Revision, "checkout") \in Trees
    BY <1>1, BareIsTree DEF Methods
  <2>. QED BY <1>4, <2>1 DEF PlaceArchive, PlaceCheckout, Step, Goto, Fetching
<1>5. CASE RecordArchive \/ RecordCheckout
  <2>1. acquired' \in Records
    BY <1>1, <1>5 DEF RecordArchive, RecordCheckout, Record, Records, Methods
  <2>. QED BY <1>5, <2>1 DEF RecordArchive, RecordCheckout, Record, Step, Goto, Fetching
<1>6. CASE MoveArchive
  <2>1. tree \in Trees
    BY <1>6 DEF MoveArchive, Step, PlaceInv, WithTree
  <2>2. tree.revision \in Revisions
    BY <2>1 DEF Trees
  <2>. QED BY <1>6, <2>2 DEF MoveArchive, Step, Goto, Fetching
<1>7. CASE InitWorktree \/ CommitWorktree
  BY <1>7, TreesStay DEF InitWorktree, CommitWorktree, Step, Goto, Fetching
<1>8. CASE BeginHooks
  <2>1. job' \in Jobs
    BY <1>8 DEF BeginHooks, Jobs
  <2>. QED BY <1>8, <2>1 DEF BeginHooks, Step, Goto, state, Fetching
<1>. QED BY <1>3, <1>4, <1>5, <1>6, <1>7, <1>8

LEMMA HookTypes ==
  ASSUME FetchTypeOK, PlaceInv,
         \/ \E r \in {"src"} \cup Roots : VisitRoot(r)
         \/ \E d \in Roots : TakeDep(d)
         \/ CommitDep \/ DepsEnd \/ WriteConfig \/ SyncStands \/ Synchronize \/ WriteStamp
         \/ EnsureTools \/ RunHooks \/ WriteReport
  PROVE  FetchTypeOK'
<1>. USE DEF FetchTypeOK
<1>1. job.lock \in Locks /\ job.paths \in SUBSET Roots
  BY DEF Jobs
<1>2. Reading(job.lock) \in Jobs
  BY <1>1, ReadingIsJob
<1>3. ASSUME NEW r \in {"src"} \cup Roots, VisitRoot(r)
      PROVE  FetchTypeOK'
  <2>1. DepsOf[r] \in SUBSET Roots
    BY FetchAssumption DEF FetchAssumption
  <2>2. job' \in Jobs
    BY <1>3, <2>1 DEF VisitRoot, Jobs
  <2>. QED BY <1>3, <2>2 DEF VisitRoot, Step, state
<1>4. ASSUME NEW d \in Roots, TakeDep(d)
      PROVE  FetchTypeOK'
  <2>1. job' \in Jobs
    BY <1>4 DEF TakeDep, Jobs
  <2>. QED BY <1>4, <2>1, TreesStay DEF TakeDep, Step, Goto, Fetching
<1>5. CASE CommitDep
  <2>1. job' \in Jobs
    BY <1>5 DEF CommitDep, Jobs
  <2>. QED BY <1>5, <2>1, TreesStay DEF CommitDep, Step, Goto, Fetching
<1>6. CASE Synchronize \/ EnsureTools \/ RunHooks
  BY <1>6, TreesStay DEF Synchronize, EnsureTools, RunHooks, Step, Goto, Fetching
<1>7. CASE DepsEnd \/ WriteConfig \/ SyncStands \/ WriteStamp
  BY <1>1, <1>7 DEF DepsEnd, WriteConfig, SyncStands, WriteStamp, Step, Goto, state, Fetching
<1>8. CASE WriteReport
  BY <1>1, <1>2, <1>8 DEF WriteReport, Step, Stop, Over
<1>. QED BY <1>3, <1>4, <1>5, <1>6, <1>7, <1>8

LEMMA ResetTypes ==
  ASSUME FetchTypeOK, Reset
  PROVE  FetchTypeOK'
<1>. USE DEF FetchTypeOK
<1>1. Reading(job.lock) \in Jobs
  BY ReadingIsJob DEF Jobs
<1>2. CASE RemoveSource \/ RemoveOutputs \/ RemovalRaced
  BY <1>1, <1>2 DEF RemoveSource, RemoveOutputs, RemovalRaced, Step, Goto, Stop, state, Over, Resetting
<1>3. CASE RemoveMetadata
  BY <1>3 DEF RemoveMetadata, Step, Goto, Resetting
<1>4. CASE RemoveConfig
  BY <1>1, <1>4 DEF RemoveConfig, Stop, Over
<1>. QED BY <1>2, <1>3, <1>4 DEF Reset

LEMMA StateTypes ==
  ASSUME FetchTypeOK, PlaceInv, [Next]_vars
  PROVE  FetchTypeOK'
<1>1. CASE Fetch
  BY <1>1, DepotTypes, SourceTypes, HookTypes DEF Fetch
<1>2. CASE Reset
  BY <1>2, ResetTypes
<1>3. CASE EditLock
  BY <1>3, FetchAssumption DEF EditLock, FetchTypeOK, state, FetchAssumption
<1>4. ASSUME NEW c \in Commands, Arrive(c) \/ Exit(c)
      PROVE  FetchTypeOK'
  BY <1>4 DEF Arrive, Exit, FetchTypeOK, state, Goto
<1>5. ASSUME NEW c \in Commands, EnterFetch(c)
      PROVE  FetchTypeOK'
  BY <1>5, ReadingIsJob DEF EnterFetch, FetchTypeOK, state, Goto, Fetching
<1>6. ASSUME NEW c \in Commands, EnterReset(c)
      PROVE  FetchTypeOK'
  <2>1. tree' \in Trees \cup {None}
    BY <1>6 DEF EnterReset, FetchTypeOK, Trees
  <2>. QED BY <1>6, <2>1, ReadingIsJob DEF EnterReset, FetchTypeOK, Goto, Resetting
<1>7. ASSUME NEW c \in Commands, Kill(c)
      PROVE  FetchTypeOK'
  <2>1. Reading(job.lock) \in Jobs
    BY ReadingIsJob DEF FetchTypeOK, Jobs
  <2>. QED BY <1>7, <2>1 DEF Kill, FetchTypeOK, Stop, state
<1>8. CASE UNCHANGED vars
  BY <1>8 DEF vars, state, FetchTypeOK
<1>. QED BY <1>1, <1>2, <1>3, <1>4, <1>5, <1>6, <1>7, <1>8 DEF Next

(* What is counted on is there: nothing takes it away but the command that *)
(* counts on it.                                                           *)
LEMMA PlaceInvStep ==
  ASSUME TypeOK, RootInv, PlaceInv, [Next]_vars
  PROVE  PlaceInv'
<1>. USE NoneAssumption DEF PlaceInv, WithTree, NoneAssumption
<1>1. FetchTypeOK
  BY DEF TypeOK
<1>2. CASE DepotStands \/ DepotRefused \/ EnsureRust \/ FetchHarness \/ NetworkFails
  BY <1>2 DEF DepotStands, DepotRefused, EnsureRust, FetchHarness, NetworkFails, Fails, Step, Stop, Goto,
              rootVars, state
<1>3. CASE MakeDepot \/ InitDepot \/ NameRemote \/ KeepDepot \/ FetchDepot \/ BeginCheckout \/ CheckoutDepot
  BY <1>3 DEF MakeDepot, InitDepot, NameRemote, KeepDepot, FetchDepot,
              BeginCheckout, CheckoutDepot, DepotStep, Step, Goto,
              rootVars
<1>4. CASE InputsEnd \/ Load
  BY <1>4 DEF InputsEnd, Load, Goto, rootVars, state
<1>5. CASE SourceRefused \/ SourceStands \/ KeepTree \/ BackupRefused \/ WorktreeStands \/ BeginHooks
  BY <1>5 DEF SourceRefused, SourceStands, KeepTree, BackupRefused, WorktreeStands, BeginHooks, Step, Stop, Goto,
              rootVars, state
<1>6. CASE PlaceArchive \/ PlaceCheckout
  <2>1. Bare(Revision, "archive") # None /\ Bare(Revision, "checkout") # None
    BY <1>1, BareIsTree DEF FetchTypeOK, Jobs, Revisions, Revision, Methods
  <2>. QED BY <1>6, <2>1 DEF PlaceArchive, PlaceCheckout, Step, Goto, rootVars
<1>7. CASE RecordArchive \/ RecordCheckout
  <2>1. acquired' \in Records
    BY <1>1, <1>7
       DEF RecordArchive, RecordCheckout, Record, Records, Methods, FetchTypeOK, Jobs, Revisions, Revision
  <2>. QED BY <1>7, <2>1 DEF RecordArchive, RecordCheckout, Record, Step, Goto, rootVars
<1>8. CASE MoveArchive
  BY <1>8 DEF MoveArchive, Step, Goto, rootVars
<1>9. CASE InitWorktree \/ CommitWorktree \/ CommitDep \/ Synchronize \/ EnsureTools \/ RunHooks
  BY <1>1, <1>9, TreesStay DEF InitWorktree, CommitWorktree, CommitDep, Synchronize, EnsureTools, RunHooks, Step,
                               Goto, rootVars
<1>10. ASSUME NEW d \in Roots, TakeDep(d)
       PROVE  PlaceInv'
  BY <1>1, <1>10, TreesStay DEF TakeDep, Step, Goto, rootVars
<1>11. CASE \/ \E r \in {"src"} \cup Roots : VisitRoot(r)
            \/ DepsEnd \/ WriteConfig \/ SyncStands \/ WriteStamp \/ WriteReport
  BY <1>11 DEF VisitRoot, DepsEnd, WriteConfig, SyncStands, WriteStamp, WriteReport, Step, Stop, Goto, rootVars, state
<1>12. CASE Reset
  BY <1>12 DEF Reset, RemoveSource, RemoveOutputs, RemovalRaced, RemoveMetadata, RemoveConfig, Step, Stop, Goto,
               rootVars, state
<1>13. CASE EditLock
  BY <1>13 DEF EditLock, rootVars, state
<1>14. ASSUME NEW c \in Commands, Arrive(c)
       PROVE  PlaceInv'
  BY <1>14 DEF Arrive, Start, Open, EnsureMarked, Claim, Deny, PublishMarker, LayOut, state
<1>15. ASSUME NEW c \in Commands, EnterFetch(c) \/ EnterReset(c)
       PROVE  PlaceInv'
  BY <1>15, WorkRootAssumption DEF WorkRootAssumption, EnterFetch, EnterReset, Acquire, Goto, state
<1>16. ASSUME NEW c \in Commands, Exit(c) \/ Kill(c)
       PROVE  PlaceInv'
  BY <1>16 DEF Exit, Leave, Kill, Killed, Stop, Goto, RootInv, state
<1>17. CASE UNCHANGED vars
  BY <1>17 DEF vars, rootVars, state
<1>18. CASE Fetch
  BY <1>2, <1>3, <1>4, <1>5, <1>6, <1>7, <1>8, <1>9, <1>10, <1>11, <1>18 DEF Fetch
<1>. QED BY <1>12, <1>13, <1>14, <1>15, <1>16, <1>17, <1>18 DEF Next

(* What stands in the way of a fetch was there, or somebody was killed.    *)
LEMMA CauseInvStep ==
  ASSUME TypeOK, RootInv, PlaceInv, CauseInv, [Next]_vars
  PROVE  CauseInv'
<1>. USE NoneAssumption DEF CauseInv, NoneAssumption
<1>1. FetchTypeOK /\ kills \in Nat
  BY WorkRootAssumption DEF TypeOK, RootTypeOK, WorkRootAssumption
<1>2. Reading(job.lock).lock = job.lock
  BY DEF Reading
<1>3. CASE DepotStands \/ EnsureRust \/ FetchHarness \/ NetworkFails
  BY <1>3 DEF DepotStands, EnsureRust, FetchHarness, NetworkFails, Fails, Step, Stop, Goto, rootVars, state
<1>4. CASE DepotRefused
  BY <1>4 DEF DepotRefused, Step, Stop, Goto, rootVars, state
<1>5. CASE MakeDepot \/ InitDepot \/ NameRemote \/ KeepDepot \/ FetchDepot \/ BeginCheckout \/ CheckoutDepot
  <2>1. ToolsOf[job.lock] \notin Partial
    BY <1>1, FetchAssumption DEF FetchTypeOK, Jobs, Commits, FetchAssumption
  <2>2. \A d \in Commits : d \notin Partial
    BY FetchAssumption DEF FetchAssumption
  <2>. QED BY <1>5, <2>1, <2>2 DEF MakeDepot, InitDepot, NameRemote, KeepDepot, FetchDepot,
                                   BeginCheckout, CheckoutDepot, DepotStep,
                                   Step, Goto, rootVars, Partial
<1>6. CASE InputsEnd
  BY <1>6 DEF InputsEnd, Goto, rootVars, state, Unverified, Revision
<1>7. CASE Load
  BY <1>7 DEF Load, rootVars, state
<1>8. CASE SourceRefused
  BY <1>2, <1>8 DEF SourceRefused, Step, Stop, rootVars, state, Revision
<1>9. CASE BackupRefused
  BY <1>9 DEF BackupRefused, Step, PlaceInv, WithTree, rootVars, state
<1>10. CASE SourceStands \/ KeepTree \/ WorktreeStands \/ BeginHooks
  BY <1>10 DEF SourceStands, KeepTree, WorktreeStands, BeginHooks, Step, Stop, Goto, rootVars, state
<1>11. CASE PlaceArchive \/ PlaceCheckout \/ MoveArchive
  BY <1>11 DEF PlaceArchive, PlaceCheckout, MoveArchive, Step, Goto, rootVars, PlaceInv, WithTree
<1>12. CASE RecordArchive \/ RecordCheckout
  <2>1. acquired' \in Records
    BY <1>1, <1>12
       DEF RecordArchive, RecordCheckout, Record, Records, Methods, FetchTypeOK, Jobs, Revisions, Revision
  <2>2. acquired'.method # "lite"
    BY <1>12 DEF RecordArchive, RecordCheckout, Record
  <2>. QED BY <1>12, <2>1, <2>2 DEF RecordArchive, RecordCheckout, Record, Step, Goto, rootVars
<1>13. CASE InitWorktree \/ CommitWorktree \/ CommitDep \/ Synchronize \/ EnsureTools \/ RunHooks
  BY <1>13 DEF InitWorktree, CommitWorktree, CommitDep, Synchronize, EnsureTools, RunHooks, Step, Goto, rootVars,
               PlaceInv, WithTree
<1>14. ASSUME NEW d \in Roots, TakeDep(d)
       PROVE  CauseInv'
  BY <1>14 DEF TakeDep, Step, Goto, rootVars, PlaceInv, WithTree
<1>15. CASE \/ \E r \in {"src"} \cup Roots : VisitRoot(r)
            \/ DepsEnd \/ WriteConfig \/ SyncStands \/ WriteStamp \/ WriteReport
  BY <1>15 DEF VisitRoot, DepsEnd, WriteConfig, SyncStands, WriteStamp, WriteReport, Step, Stop, Goto, rootVars, state
<1>16. CASE Reset
  BY <1>16 DEF Reset, RemoveSource, RemoveOutputs, RemovalRaced, RemoveMetadata, RemoveConfig, Step, Stop, Goto,
               rootVars, state, PlaceInv
<1>17. CASE EditLock
  BY <1>17 DEF EditLock, rootVars, inputVars, state, Revision, Unverified
<1>18. ASSUME NEW c \in Commands, Arrive(c)
       PROVE  CauseInv'
  BY <1>18 DEF Arrive, Start, Open, EnsureMarked, Claim, Deny, PublishMarker, LayOut, inputVars, state, Revision,
               Unverified
<1>19. ASSUME NEW c \in Commands, EnterFetch(c)
       PROVE  CauseInv'
  BY <1>19 DEF EnterFetch, Acquire, PlaceInv, Goto, state
<1>20. ASSUME NEW c \in Commands, EnterReset(c)
       PROVE  CauseInv'
  BY <1>20 DEF EnterReset, Acquire, PlaceInv, Goto
<1>21. ASSUME NEW c \in Commands, Exit(c)
       PROVE  CauseInv'
  BY <1>21 DEF Exit, Leave, Goto, Over, state
<1>22. ASSUME NEW c \in Commands, Kill(c)
       PROVE  CauseInv'
  BY <1>1, <1>22 DEF Kill, Killed
<1>23. CASE UNCHANGED vars
  BY <1>23 DEF vars, rootVars, inputVars, state, Revision, Unverified
<1>24. CASE Fetch
  BY <1>3, <1>4, <1>5, <1>6, <1>7, <1>8, <1>9, <1>10, <1>11, <1>12, <1>13, <1>14, <1>15, <1>24 DEF Fetch
<1>. QED BY <1>16, <1>17, <1>18, <1>19, <1>20, <1>21, <1>22, <1>23, <1>24 DEF Next
-----------------------------------------------------------------------------
(* What a fetch says it has done *)

(* A step of a fetch that has its inputs leaves the inputs and the locks   *)
(* alone and stays among those steps, or gives up.                         *)
LEMMA FetchGoesOn ==
  ASSUME FetchTypeOK, Fetch, pc # "inputs" \/ (~Load /\ ~InputsEnd)
  PROVE  /\ UNCHANGED <<rootVars, inputVars, lock, edits, mishaps>>
         /\ job'.lock = job.lock /\ holder # None
         /\ pc \in WithInputs /\ pc' \in WithInputs \cup {"failed", "refused"}
<1>. USE DEF WithInputs, WithDepot, WithTree
<1>1. job \in Jobs
  BY DEF FetchTypeOK
<1>2. CASE DepotStands \/ DepotRefused \/ EnsureRust \/ FetchHarness \/ NetworkFails
  BY <1>2 DEF DepotStands, DepotRefused, EnsureRust, FetchHarness, NetworkFails, Fails, Step, Stop, Goto, Reading
<1>3. CASE MakeDepot \/ InitDepot \/ NameRemote \/ KeepDepot \/ FetchDepot \/ BeginCheckout \/ CheckoutDepot
  BY <1>3 DEF MakeDepot, InitDepot, NameRemote, KeepDepot, FetchDepot,
              BeginCheckout, CheckoutDepot, DepotStep, Step, Goto
<1>4. CASE SourceRefused \/ SourceStands \/ KeepTree \/ BackupRefused \/ WorktreeStands \/ BeginHooks
  BY <1>1, <1>4 DEF SourceRefused, SourceStands, KeepTree, BackupRefused, WorktreeStands, BeginHooks, Step, Stop, Goto,
                    Reading, Jobs
<1>5. CASE PlaceArchive \/ PlaceCheckout \/ RecordArchive \/ RecordCheckout \/ MoveArchive
  BY <1>5 DEF PlaceArchive, PlaceCheckout, RecordArchive, RecordCheckout, Record, MoveArchive, Step, Goto
<1>6. CASE InitWorktree \/ CommitWorktree \/ CommitDep \/ Synchronize \/ EnsureTools \/ RunHooks
  BY <1>1, <1>6 DEF InitWorktree, CommitWorktree, CommitDep, Synchronize, EnsureTools, RunHooks, Step, Goto, Jobs
<1>7. ASSUME NEW d \in Roots, TakeDep(d)
      PROVE  /\ UNCHANGED <<rootVars, inputVars, lock, edits, mishaps>>
             /\ job'.lock = job.lock /\ holder # None
             /\ pc \in WithInputs /\ pc' \in WithInputs \cup {"failed", "refused"}
  BY <1>1, <1>7 DEF TakeDep, Step, Goto, Jobs
<1>8. ASSUME NEW r \in {"src"} \cup Roots, VisitRoot(r)
      PROVE  /\ UNCHANGED <<rootVars, inputVars, lock, edits, mishaps>>
             /\ job'.lock = job.lock /\ holder # None
             /\ pc \in WithInputs /\ pc' \in WithInputs \cup {"failed", "refused"}
  BY <1>1, <1>8 DEF VisitRoot, Step, Goto, Jobs
<1>9. CASE DepsEnd \/ WriteConfig \/ SyncStands \/ WriteStamp \/ WriteReport
  BY <1>9 DEF DepsEnd, WriteConfig, SyncStands, WriteStamp, WriteReport, Step, Stop, Goto, Reading
<1>10. ~Load /\ ~InputsEnd
  BY DEF Load, InputsEnd
<1>. QED BY <1>2, <1>3, <1>4, <1>5, <1>6, <1>7, <1>8, <1>9, <1>10 DEF Fetch

(* A thread that loads an input keeps what others have verified: the       *)
(* inputs of one lock have different names.                                *)
LEMMA LoadKeepsInputs ==
  ASSUME FetchTypeOK, InputsTypeOK, InputsInv, Load
  PROVE  InputsInv'
<1>. USE DEF FetchTypeOK, InputsTypeOK, InputsInv, Where, Verifies, WithInputs, WithDepot, WithTree
<1>1. /\ pc = "inputs" /\ pc' = "inputs" /\ job' = job
      /\ \/ \E i \in Items :
              TakeInput(i) \/ OpenRanges(i) \/ Stream(i) \/ CloseRanges(i) \/ PublishInput(i) \/ RejectInput(i)
         \/ \E k \in 1..Ranges : TakeRange(k) \/ EndRange(k)
         \/ CancelRanges \/ CancelInputs
  BY DEF Load, Download
<1>2. ASSUME NEW i \in Items, TakeInput(i)
      PROVE  InputsInv'
  BY <1>1, <1>2 DEF TakeInput, Set
<1>3. ASSUME NEW i \in Items, OpenRanges(i) \/ Stream(i) \/ CloseRanges(i) \/ RejectInput(i)
      PROVE  InputsInv'
  <2>1. PICK s \in {"ranges", "right", "wrong", "failed"} :
          /\ thread' = [thread EXCEPT ![i] = s]
          /\ s = "failed" \/ thread[i] # "failed"
    BY <1>3 DEF OpenRanges, Stream, CloseRanges, RejectInput, Set, Assembled
  <2>2. inputs' = inputs /\ thread[i] \notin {"none", "failed"}
    BY <1>3 DEF OpenRanges, Stream, CloseRanges, RejectInput
  <2>3. /\ DOMAIN thread' = Items /\ DOMAIN thread = Items
        /\ thread'[i] = s /\ \A j \in Items \ {i} : thread'[j] = thread[j]
    BY <2>1
  <2>. QED BY <1>1, <2>2, <2>3
<1>4. ASSUME NEW i \in Items, PublishInput(i)
      PROVE  InputsInv'
  <2>1. i \in ItemsOf[job.lock] /\ job.lock \in Locks
    BY <1>1, <1>4 DEF PublishInput, Jobs
  <2>2. \A j \in Items : thread[j] = "done" => j \in ItemsOf[job.lock]
    BY <1>1
  <2>3. \A j \in Items : j \in ItemsOf[job.lock] /\ NameOf[i] = NameOf[j] => i = j
    BY <2>1, FetchAssumption DEF FetchAssumption
  <2>4. inputs' = [inputs EXCEPT ![NameOf[i]] = i] /\ thread' = [thread EXCEPT ![i] = "done"]
    BY <1>4 DEF PublishInput, Set
  <2>5. thread[i] = "right" /\ NameOf \in [Items -> Names]
    BY <1>4, InputsAssumption DEF PublishInput, InputsAssumption
  <2>6. ASSUME NEW j \in Items, thread'[j] = "done"
        PROVE  inputs'[NameOf[j]] = j
    BY <1>1, <2>2, <2>3, <2>4, <2>5, <2>6
  <2>7. \A j \in Items : thread'[j] # "none" <=> thread[j] # "none"
    BY <2>4, <2>5
  <2>8. \A j \in Items : thread[j] # thread'[j] => j = i
    BY <2>4
  <2>9. DOMAIN thread' = Items /\ DOMAIN thread = Items
    BY <2>4
  <2>. QED BY <1>1, <2>4, <2>5, <2>6, <2>7, <2>8, <2>9
<1>5. ASSUME NEW k \in 1..Ranges, TakeRange(k) \/ EndRange(k)
      PROVE  InputsInv'
  BY <1>1, <1>5 DEF TakeRange, EndRange
<1>6. CASE CancelRanges
  BY <1>1, <1>6 DEF CancelRanges
<1>7. CASE CancelInputs
  BY <1>1, <1>7 DEF CancelInputs
<1>. QED BY <1>1, <1>2, <1>3, <1>4, <1>5, <1>6, <1>7

LEMMA InputsInvStep ==
  ASSUME TypeOK, PlaceInv, InputsInv, [Next]_vars
  PROVE  InputsInv'
<1>1. FetchTypeOK /\ InputsTypeOK
  BY DEF TypeOK
<1>2. CASE Load
  BY <1>1, <1>2, LoadKeepsInputs
<1>3. CASE InputsEnd
  <2>1. ASSUME Where(thread, "failed") = {}, NEW i \in ItemsOf[job.lock]
        PROVE  Verifies(i)
    <3>1. i \in Items
      BY <1>1, FetchAssumption DEF FetchTypeOK, Jobs, FetchAssumption
    <3>2. pc = "inputs" /\ Working = {} /\ Where(thread, "todo") = {}
      BY <1>3 DEF InputsEnd, Downloaded
    <3>3. thread[i] # "none" /\ thread[i] \in Threads /\ i \in DOMAIN thread
      BY <1>1, <3>1, <3>2 DEF InputsInv, InputsTypeOK
    <3>4. thread[i] \notin {"todo", "failed", "cancelled"}
      BY <2>1, <3>2, <3>3 DEF InputsInv, Where
    <3>5. thread[i] \notin {"busy", "ranges", "right", "wrong"}
      BY <3>2, <3>3 DEF Working, Where
    <3>. QED BY <3>1, <3>2, <3>3, <3>4, <3>5 DEF InputsInv, Threads
  <2>. QED BY <1>3, <2>1 DEF InputsEnd, Goto, InputsInv, Verifies, WithInputs, WithDepot, WithTree
<1>4. CASE Fetch /\ ~Load /\ ~InputsEnd
  <2>1. /\ UNCHANGED inputVars /\ job'.lock = job.lock
        /\ pc \in WithInputs /\ pc' \in WithInputs \cup {"failed", "refused"}
    BY <1>1, <1>4, FetchGoesOn
  <2>. QED BY <2>1 DEF InputsInv, Verifies, inputVars, WithInputs, WithDepot, WithTree
<1>5. CASE Reset
  BY <1>5 DEF Reset, RemoveSource, RemoveOutputs, RemovalRaced, RemoveMetadata, RemoveConfig, Step, Stop, Goto,
              InputsInv, WithInputs, WithDepot, WithTree
<1>6. CASE EditLock
  BY <1>6 DEF EditLock, inputVars, InputsInv, Verifies
<1>7. ASSUME NEW c \in Commands, Arrive(c)
      PROVE  InputsInv'
  BY <1>7 DEF Arrive, inputVars, InputsInv, Verifies
<1>8. ASSUME NEW c \in Commands, EnterFetch(c)
      PROVE  InputsInv'
  <2>1. ItemsOf[lock] \subseteq Items
    BY <1>1, FetchAssumption DEF FetchTypeOK, FetchAssumption
  <2>. QED BY <1>8, <2>1 DEF EnterFetch, BeginDownloads, Reading, Goto, InputsInv, Where, WithInputs, WithDepot, WithTree
<1>9. ASSUME NEW c \in Commands, EnterReset(c) \/ Exit(c)
      PROVE  InputsInv'
  BY <1>9 DEF EnterReset, Exit, Goto, InputsInv, WithInputs, WithDepot, WithTree
<1>10. ASSUME NEW c \in Commands, Kill(c)
       PROVE  InputsInv'
  BY <1>10 DEF Kill, Stop, InputsInv, Verifies, WithInputs, WithDepot, WithTree
<1>11. CASE UNCHANGED vars
  BY <1>11 DEF vars, inputVars, InputsInv, Verifies
<1>. QED BY <1>2, <1>3, <1>4, <1>5, <1>6, <1>7, <1>8, <1>9, <1>10, <1>11 DEF Next

(* What a step has done, later steps of the same fetch leave done.         *)
LEMMA DoneInvStep ==
  ASSUME TypeOK, PlaceInv, DoneInv, [Next]_vars
  PROVE  DoneInv'
<1>. USE DEF DoneInv, WithDepot, WithTree, WithCommit
<1>1. FetchTypeOK
  BY DEF TypeOK
<1>2. Fetch /\ pc # "inputs" => job'.lock = job.lock
  BY <1>1, FetchGoesOn
<1>3. CASE DepotStands \/ DepotRefused \/ EnsureRust \/ FetchHarness \/ NetworkFails
  BY <1>2, <1>3 DEF Fetch, DepotStands, DepotRefused, EnsureRust, FetchHarness, NetworkFails, Fails, Step, Stop, Goto, state
<1>4. CASE MakeDepot \/ InitDepot \/ NameRemote \/ KeepDepot \/ FetchDepot \/ BeginCheckout \/ CheckoutDepot
  BY <1>4 DEF MakeDepot, InitDepot, NameRemote, KeepDepot, FetchDepot,
              BeginCheckout, CheckoutDepot, DepotStep, Step, Goto
<1>5. CASE InputsEnd \/ Load
  BY <1>5 DEF InputsEnd, Load, Goto, state
<1>6. CASE SourceRefused \/ SourceStands \/ KeepTree \/ BackupRefused \/ WorktreeStands
  BY <1>6 DEF SourceRefused, SourceStands, KeepTree, BackupRefused, WorktreeStands, Step, Stop, Goto, state, PlaceInv
<1>7. CASE BeginHooks
  BY <1>1, <1>7 DEF FetchTypeOK, Jobs, BeginHooks, Step, Goto, state
<1>8. CASE PlaceArchive \/ PlaceCheckout \/ RecordArchive \/ RecordCheckout \/ MoveArchive
  BY <1>8 DEF PlaceArchive, PlaceCheckout, RecordArchive, RecordCheckout, Record, MoveArchive, Step, Goto
<1>9. CASE InitWorktree \/ CommitWorktree \/ CommitDep \/ Synchronize \/ EnsureTools \/ RunHooks
  <2>1. tree' # None /\ job'.lock = job.lock /\ tree \in Trees
    BY <1>1, <1>2, <1>9, TreesStay
       DEF Fetch, FetchTypeOK, PlaceInv, InitWorktree, CommitWorktree, CommitDep, Synchronize, EnsureTools, RunHooks, Step
  <2>2. CASE InitWorktree \/ CommitWorktree
    BY <2>1, <2>2 DEF InitWorktree, CommitWorktree, Step, Goto, Trees
  <2>3. CASE CommitDep \/ Synchronize
    <3>1. tree'.git = tree.git
      BY <2>1, <2>3 DEF CommitDep, Synchronize, Trees
    <3>. QED BY <2>1, <2>3, <3>1 DEF CommitDep, Synchronize, Step, Goto
  <2>4. CASE EnsureTools \/ RunHooks
    BY <2>1, <2>4 DEF EnsureTools, RunHooks, Step, Goto, Trees
  <2>. QED BY <1>9, <2>2, <2>3, <2>4
<1>10. ASSUME NEW d \in Roots, TakeDep(d)
       PROVE  DoneInv'
  <2>1. tree' # None /\ job'.lock = job.lock /\ tree \in Trees
    BY <1>1, <1>2, <1>10, TreesStay DEF Fetch, FetchTypeOK, PlaceInv, TakeDep, Step
  <2>2. tree'.git = tree.git
    BY <1>10, <2>1 DEF TakeDep, Trees
  <2>. QED BY <1>10, <2>1, <2>2 DEF TakeDep, Step, Goto
<1>11. ASSUME NEW r \in {"src"} \cup Roots, VisitRoot(r)
       PROVE  DoneInv'
  BY <1>2, <1>11 DEF Fetch, VisitRoot, Step, state
<1>12. CASE DepsEnd \/ WriteConfig \/ SyncStands \/ WriteStamp
  BY <1>12 DEF DepsEnd, WriteConfig, SyncStands, WriteStamp, Step, Goto, state
<1>13. CASE WriteReport
  BY <1>13 DEF WriteReport, Step, Stop, Reading
<1>14. CASE Reset
  BY <1>14 DEF Reset, RemoveSource, RemoveOutputs, RemovalRaced, RemoveMetadata, RemoveConfig, Step, Stop, Goto
<1>15. CASE EditLock
  BY <1>15 DEF EditLock, state
<1>16. ASSUME NEW c \in Commands, Arrive(c) \/ EnterFetch(c) \/ EnterReset(c) \/ Exit(c) \/ Kill(c)
       PROVE  DoneInv'
  BY <1>16 DEF Arrive, EnterFetch, EnterReset, Exit, Kill, Stop, Goto, state
<1>17. CASE UNCHANGED vars
  BY <1>17 DEF vars, state
<1>18. CASE Fetch
  BY <1>3, <1>4, <1>5, <1>6, <1>7, <1>8, <1>9, <1>10, <1>11, <1>12, <1>13, <1>18 DEF Fetch
<1>. QED BY <1>14, <1>15, <1>16, <1>17, <1>18 DEF Next

(* A tree and its record change together, but for the steps in between and *)
(* a tree that is moved away.                                              *)
LEMMA RecordInvStep ==
  ASSUME TypeOK, PlaceInv, RecordInv, [Next]_vars
  PROVE  RecordInv'
<1>. USE DEF RecordInv, Moved, Matches, Revision, WithCommit, Resetting
<1>1. FetchTypeOK
  BY DEF TypeOK
<1>2. Fetch /\ pc # "inputs" => job'.lock = job.lock /\ mishaps' = mishaps
  BY <1>1, FetchGoesOn
<1>3. CASE DepotStands \/ DepotRefused \/ EnsureRust \/ FetchHarness \/ NetworkFails
  BY <1>2, <1>3 DEF Fetch, DepotStands, DepotRefused, EnsureRust, FetchHarness, NetworkFails, Fails, Step, Stop, Goto, state
<1>4. CASE MakeDepot \/ InitDepot \/ NameRemote \/ KeepDepot \/ FetchDepot \/ BeginCheckout \/ CheckoutDepot
  BY <1>4 DEF MakeDepot, InitDepot, NameRemote, KeepDepot, FetchDepot,
              BeginCheckout, CheckoutDepot, DepotStep, Step, Goto
<1>5. CASE InputsEnd \/ Load
  BY <1>5 DEF InputsEnd, Load, Goto, state
<1>6. CASE SourceRefused \/ SourceStands \/ KeepTree \/ BackupRefused \/ WorktreeStands
  BY <1>6 DEF SourceRefused, SourceStands, KeepTree, BackupRefused, WorktreeStands, Step, Stop, Goto, state
<1>7. CASE BeginHooks
  BY <1>2, <1>7 DEF Fetch, BeginHooks, Step, Goto, state
<1>8. CASE PlaceArchive
  BY <1>1, <1>8, BareIsTree DEF FetchTypeOK, PlaceArchive, Bare, Step, Goto
<1>9. CASE PlaceCheckout
  BY <1>1, <1>9, BareIsTree DEF FetchTypeOK, PlaceCheckout, Bare, Step, Goto, PlaceInv
<1>10. CASE RecordArchive \/ RecordCheckout
  <2>1. acquired' \in Records /\ acquired' # None
    <3>1. acquired' \in Records
      BY <1>1, <1>10 DEF RecordArchive, RecordCheckout, Record, Records, Methods, FetchTypeOK, Jobs, Revisions
    <3>. QED BY <3>1, NoneAssumption DEF NoneAssumption
  <2>. QED BY <1>10, <2>1 DEF RecordArchive, RecordCheckout, Record, Step, Goto, PlaceInv, WithTree
<1>11. CASE MoveArchive
  <2>1. tree \in Trees /\ tree.revision # None
    <3>1. tree \in Trees /\ tree.revision \in Revisions
      BY <1>1, <1>11 DEF FetchTypeOK, MoveArchive, Step, PlaceInv, WithTree, Trees
    <3>. QED BY <3>1, FetchAssumption DEF FetchAssumption
  <2>. QED BY <1>11, <2>1 DEF MoveArchive, Step, Goto
<1>12. CASE InitWorktree \/ CommitWorktree \/ CommitDep \/ Synchronize \/ EnsureTools \/ RunHooks
  <2>1. tree' # None /\ job'.lock = job.lock /\ tree \in Trees /\ tree # None /\ mishaps' = mishaps
    BY <1>1, <1>2, <1>12, TreesStay, NoneAssumption
       DEF Fetch, FetchTypeOK, PlaceInv, WithTree, InitWorktree, CommitWorktree, CommitDep, Synchronize, EnsureTools,
           RunHooks, Step
  <2>2. /\ tree'.revision = tree.revision /\ tree'.method = tree.method /\ tree'.files = tree.files
        /\ tree'.synced \in {tree.synced, "yes"}
    BY <1>12, <2>1 DEF InitWorktree, CommitWorktree, CommitDep, Synchronize, EnsureTools, RunHooks, Trees
  <2>3. Synchronize => tree'.synced = "yes"
    BY <2>1 DEF Synchronize, Trees
  <2>. QED BY <1>12, <2>1, <2>2, <2>3
           DEF InitWorktree, CommitWorktree, CommitDep, Synchronize, EnsureTools, RunHooks, Step, Goto
<1>13. ASSUME NEW d \in Roots, TakeDep(d)
       PROVE  RecordInv'
  <2>1. tree' # None /\ job'.lock = job.lock /\ tree \in Trees /\ tree # None /\ mishaps' = mishaps
    BY <1>1, <1>2, <1>13, TreesStay DEF Fetch, FetchTypeOK, PlaceInv, WithTree, TakeDep, Step
  <2>2. /\ tree'.revision = tree.revision /\ tree'.method = tree.method /\ tree'.files = tree.files
        /\ tree'.synced = tree.synced
    BY <1>13, <2>1 DEF TakeDep, Trees
  <2>. QED BY <1>13, <2>1, <2>2 DEF TakeDep, Step, Goto
<1>14. ASSUME NEW r \in {"src"} \cup Roots, VisitRoot(r)
       PROVE  RecordInv'
  BY <1>2, <1>14 DEF Fetch, VisitRoot, Step, state
<1>15. CASE DepsEnd \/ WriteConfig \/ SyncStands \/ WriteReport
  BY <1>2, <1>15 DEF Fetch, DepsEnd, WriteConfig, SyncStands, WriteReport, Step, Stop, Goto, Reading, state
<1>16. CASE WriteStamp
  BY <1>16 DEF WriteStamp, Step, Goto, PlaceInv, WithTree
<1>17. CASE Reset
  <2>1. CASE RemoveSource \/ RemoveOutputs \/ RemovalRaced
    BY <2>1 DEF RemoveSource, RemoveOutputs, RemovalRaced, Step, Stop, Goto, state
  <2>2. CASE RemoveMetadata
    BY <2>2 DEF RemoveMetadata, Step, Goto
  <2>3. CASE RemoveConfig
    BY <2>3 DEF RemoveConfig, Stop, PlaceInv
  <2>. QED BY <1>17, <2>1, <2>2, <2>3 DEF Reset
<1>18. CASE EditLock
  BY <1>18 DEF EditLock, state
<1>19. ASSUME NEW c \in Commands, Arrive(c)
       PROVE  RecordInv'
  BY <1>19 DEF Arrive, state
<1>20. ASSUME NEW c \in Commands, EnterFetch(c)
       PROVE  RecordInv'
  BY <1>20 DEF EnterFetch, Acquire, PlaceInv, Goto, state
<1>21. ASSUME NEW c \in Commands, EnterReset(c)
       PROVE  RecordInv'
  BY <1>21 DEF EnterReset, Goto
<1>22. ASSUME NEW c \in Commands, Exit(c)
       PROVE  RecordInv'
  BY <1>22 DEF Exit, Over, Goto, state
<1>23. ASSUME NEW c \in Commands, Kill(c)
       PROVE  RecordInv'
  BY <1>23 DEF Kill, Stop, state
<1>24. CASE UNCHANGED vars
  BY <1>24 DEF vars, state
<1>25. CASE Fetch
  BY <1>3, <1>4, <1>5, <1>6, <1>7, <1>8, <1>9, <1>10, <1>11, <1>12, <1>13, <1>14, <1>15, <1>16, <1>25 DEF Fetch
<1>. QED BY <1>17, <1>18, <1>19, <1>20, <1>21, <1>22, <1>23, <1>24, <1>25 DEF Next
-----------------------------------------------------------------------------
(* The dependency roots *)

(* The roots that DEPS lead to are there to be chosen: a least set that    *)
(* the DEPS do not leave is the meet of all those sets.                    *)
LEMMA LedIsLeast ==
  /\ Led \in SUBSET Roots
  /\ \A M \in SUBSET Roots : DepsOf["src"] \cup UNION {DepsOf[d] : d \in M} \subseteq M => Led \subseteq M
<1>. DEFINE After(M)  == DepsOf["src"] \cup UNION {DepsOf[d] : d \in M}
            Closed(M) == After(M) \subseteq M
            L         == {d \in Roots : \A M \in SUBSET Roots : Closed(M) => d \in M}
<1>1. DepsOf["src"] \subseteq Roots /\ \A d \in Roots : DepsOf[d] \subseteq Roots
  BY FetchAssumption DEF FetchAssumption
<1>2. \A M, N \in SUBSET Roots : M \subseteq N => After(M) \subseteq After(N)
  OBVIOUS
<1>3. L \in SUBSET Roots /\ \A M \in SUBSET Roots : Closed(M) => L \subseteq M
  OBVIOUS
<1>4. After(L) \subseteq L
  <2>1. ASSUME NEW M \in SUBSET Roots, Closed(M)
        PROVE  After(L) \subseteq M
    BY <1>3, <2>1
  <2>2. After(L) \subseteq Roots
    BY <1>1, <1>3
  <2>. QED BY <2>1, <2>2
<1>5. L \subseteq After(L)
  <2>1. After(L) \in SUBSET Roots
    BY <1>1, <1>3
  <2>2. After(After(L)) \subseteq After(L)
    BY <1>2, <1>3, <1>4, <2>1
  <2>. QED BY <1>3, <2>1, <2>2
<1>6. \E N \in SUBSET Roots :
        /\ After(N) = N
        /\ \A M \in SUBSET Roots : Closed(M) => N \subseteq M
  <2>1. After(L) = L
    BY <1>4, <1>5
  <2>2. L \in SUBSET Roots
    BY <1>3
  <2>3. \A M \in SUBSET Roots : Closed(M) => L \subseteq M
    BY <1>3
  <2>. HIDE DEF L, After
  <2>. USE <2>2
  <2>. WITNESS L \in SUBSET Roots
  <2>. QED BY <2>1, <2>3
<1>. QED BY <1>6 DEF Led

(* A walk with nothing left in its queue has listed all of them.           *)
LEMMA WalkIsComplete ==
  ASSUME FetchTypeOK, WalkInv, DepsEnd
  PROVE  Led \subseteq job.paths
<1>1. job.paths \in SUBSET Roots
  BY DEF FetchTypeOK, Jobs
<1>2. {"src"} \cup job.paths \subseteq job.seen /\ \A r \in job.seen : DepsOf[r] \subseteq job.paths
  BY DEF WalkInv, DepsEnd, Step
<1>3. DepsOf["src"] \cup UNION {DepsOf[d] : d \in job.paths} \subseteq job.paths
  BY <1>2
<1>. QED BY <1>1, <1>3, LedIsLeast

(* Every root that the walk has listed keeps its metadata, and is kept out *)
(* of gclient's hands.                                                     *)
LEMMA WalkInvStep ==
  ASSUME TypeOK, PlaceInv, RecordInv, WalkInv, [Next]_vars
  PROVE  WalkInv'
<1>. USE DEF WalkInv, Walked, Reading
<1>1. FetchTypeOK /\ kills \in Nat /\ job \in Jobs /\ Led \subseteq Roots
  BY WorkRootAssumption, LedIsLeast DEF TypeOK, FetchTypeOK, RootTypeOK, WorkRootAssumption
<1>2. CASE DepotStands \/ DepotRefused \/ EnsureRust \/ FetchHarness \/ NetworkFails
  BY <1>2 DEF rootVars, DepotStands, DepotRefused, EnsureRust, FetchHarness, NetworkFails, Fails, Step, Stop, Goto, state
<1>3. CASE MakeDepot \/ InitDepot \/ NameRemote \/ KeepDepot \/ FetchDepot \/ BeginCheckout \/ CheckoutDepot
  BY <1>3 DEF rootVars, MakeDepot, InitDepot, NameRemote, KeepDepot, FetchDepot,
              BeginCheckout, CheckoutDepot, DepotStep, Step, Goto
<1>4. CASE InputsEnd \/ Load
  BY <1>4 DEF InputsEnd, Load, Goto, rootVars, state
<1>5. CASE SourceRefused \/ SourceStands \/ KeepTree \/ BackupRefused \/ WorktreeStands
  BY <1>5 DEF rootVars, SourceRefused, SourceStands, KeepTree, BackupRefused, WorktreeStands, Step, Stop, Goto, state
<1>6. CASE BeginHooks
  <2>1. pc = "hooks" /\ UNCHANGED <<tree, acquired, config, kills, mishaps>>
    BY <1>6 DEF rootVars, BeginHooks, Step, state
  <2>2. CASE acquired.method = "archive"
    BY <1>1, <1>6, <2>1, <2>2 DEF BeginHooks, Goto, Jobs
  <2>3. CASE acquired.method # "archive"
    BY <1>6, <2>1, <2>3 DEF BeginHooks, Goto
  <2>. QED BY <2>2, <2>3
<1>7. CASE PlaceArchive \/ PlaceCheckout
  <2>1. \A d \in Roots : Bare(Revision, "archive").roots[d] = "none" /\ Bare(Revision, "checkout").roots[d] = "none"
    BY DEF Bare
  <2>. QED BY <1>1, <1>7, <2>1 DEF rootVars, PlaceArchive, PlaceCheckout, Step, Goto
<1>8. CASE RecordArchive \/ RecordCheckout \/ MoveArchive
  BY <1>8 DEF rootVars, RecordArchive, RecordCheckout, Record, MoveArchive, Step, Goto
<1>9. CASE InitWorktree \/ CommitWorktree \/ EnsureTools \/ RunHooks
  <2>1. tree \in Trees /\ tree # None
    BY <1>1, <1>9, NoneAssumption
       DEF FetchTypeOK, PlaceInv, WithTree, InitWorktree, CommitWorktree, EnsureTools, RunHooks, Step, NoneAssumption
  <2>2. tree'.roots = tree.roots /\ tree'.method = tree.method
    BY <1>9, <2>1 DEF InitWorktree, CommitWorktree, EnsureTools, RunHooks, Trees
  <2>. QED BY <1>9, <2>1, <2>2 DEF rootVars, InitWorktree, CommitWorktree, EnsureTools, RunHooks, Step, Goto
<1>10. CASE Synchronize
  <2>1. tree \in Trees /\ tree # None /\ pc = "sync"
    BY <1>1, <1>10 DEF FetchTypeOK, PlaceInv, WithTree, Synchronize, Step
  <2>2. /\ \A d \in Roots : tree'.roots[d] = IF tree.method = "archive" /\ d \notin config THEN "replaced" ELSE tree.roots[d]
        /\ tree'.method = tree.method
    BY <1>10, <2>1 DEF Synchronize, Trees
  <2>3. pc' = "stamp" /\ UNCHANGED <<job, acquired, config, kills, mishaps>>
    BY <1>10 DEF rootVars, Synchronize, Step, Goto
  <2>4. job.paths \subseteq Roots
    BY <1>1 DEF Jobs
  <2>5. tree.method = "archive" /\ "reset" \notin mishaps => acquired.method = "archive"
    BY <2>1 DEF RecordInv, Matches, Moved, WithCommit, Resetting
  <2>. QED BY <1>1, <2>1, <2>2, <2>3, <2>4, <2>5
<1>11. CASE CommitDep
  <2>1. tree \in Trees /\ tree # None /\ pc = "commit_dep" /\ job.dep \in Roots
    BY <1>1, <1>11 DEF FetchTypeOK, PlaceInv, WithTree, CommitDep, Step
  <2>2. /\ tree'.method = tree.method
        /\ \A d \in Roots : tree'.roots[d] = IF d = job.dep THEN "committed" ELSE tree.roots[d]
    BY <1>11, <2>1 DEF CommitDep, Trees
  <2>3. /\ pc' = "deps" /\ UNCHANGED <<acquired, config, kills, mishaps>>
        /\ job'.paths = job.paths /\ job'.seen = job.seen /\ job'.queue = job.queue /\ job'.todo = job.todo
    BY <1>1, <1>11 DEF rootVars, CommitDep, Step, Goto, Jobs
  <2>4. job.paths \subseteq Roots
    BY <1>1 DEF Jobs
  <2>. QED BY <1>1, <2>1, <2>2, <2>3, <2>4
<1>12. ASSUME NEW d \in Roots, TakeDep(d)
       PROVE  WalkInv'
  <2>1. tree \in Trees /\ tree # None /\ pc = "deps" /\ d \in job.todo
    BY <1>1, <1>12 DEF FetchTypeOK, PlaceInv, WithTree, TakeDep, Step
  <2>2. /\ job'.queue = job.queue \cup {d} /\ job'.paths = job.paths \cup {d} /\ job'.todo = job.todo \ {d}
        /\ job'.seen = job.seen /\ job'.dep = IF tree.roots[d] = "none" THEN d ELSE None
        /\ UNCHANGED <<acquired, config, kills, mishaps>>
    BY <1>1, <1>12 DEF rootVars, TakeDep, Step, Jobs
  <2>3. job.paths \subseteq Roots
    BY <1>1 DEF Jobs
  <2>4. CASE tree.roots[d] = "none"
    <3>1. /\ pc' = "commit_dep" /\ tree'.method = tree.method /\ tree'.roots[d] = "unborn"
          /\ \A e \in Roots \ {d} : tree'.roots[e] = tree.roots[e]
      BY <1>12, <2>1, <2>4 DEF TakeDep, Goto, Trees
    <3>. QED BY <1>1, <2>1, <2>2, <2>3, <2>4, <3>1
  <2>5. CASE tree.roots[d] # "none"
    <3>1. pc' = "deps" /\ tree' = tree
      BY <1>12, <2>1, <2>5 DEF TakeDep
    <3>. QED BY <2>1, <2>2, <2>5, <3>1
  <2>. QED BY <2>4, <2>5
<1>13. ASSUME NEW r \in {"src"} \cup Roots, VisitRoot(r)
       PROVE  WalkInv'
  <2>1. /\ pc = "deps" /\ pc' = "deps" /\ job.todo = {} /\ UNCHANGED <<tree, acquired, config, kills, mishaps>>
        /\ job'.queue = job.queue \ {r} /\ job'.seen = job.seen \cup {r} /\ job'.paths = job.paths
        /\ job'.todo = IF r \in job.seen THEN {} ELSE DepsOf[r]
    BY <1>1, <1>13 DEF rootVars, VisitRoot, Step, state, Jobs
  <2>. QED BY <2>1
<1>14. CASE DepsEnd
  <2>1. Led \subseteq job.paths
    BY <1>1, <1>14, WalkIsComplete
  <2>. QED BY <1>14, <2>1 DEF rootVars, DepsEnd, Step, Goto, state
<1>15. CASE WriteConfig \/ SyncStands \/ WriteStamp
  <2>1. CASE WriteConfig
    BY <2>1 DEF rootVars, WriteConfig, Step, Goto
  <2>2. CASE SyncStands
    BY <2>2 DEF rootVars, SyncStands, Step, Goto, state
  <2>3. CASE WriteStamp
    BY <2>3 DEF rootVars, WriteStamp, Step, Goto
  <2>. QED BY <1>15, <2>1, <2>2, <2>3
<1>16. CASE WriteReport
  BY <1>16 DEF rootVars, WriteReport, Step, Stop
<1>17. CASE Reset
  BY <1>17 DEF Reset, RemoveSource, RemoveOutputs, RemovalRaced, RemoveMetadata, RemoveConfig, Step, Stop, Goto,
               rootVars, state, PlaceInv
<1>18. CASE EditLock
  BY <1>18 DEF EditLock, rootVars, state
<1>19. ASSUME NEW c \in Commands, Arrive(c)
       PROVE  WalkInv'
  BY <1>19 DEF Arrive, Start, Open, EnsureMarked, Claim, Deny, PublishMarker, LayOut, state
<1>20. ASSUME NEW c \in Commands, EnterFetch(c)
       PROVE  WalkInv'
  BY <1>20 DEF EnterFetch, Acquire, PlaceInv, Goto, state
<1>21. ASSUME NEW c \in Commands, EnterReset(c)
       PROVE  WalkInv'
  <2>1. tree # None => tree \in Trees
    BY <1>1 DEF FetchTypeOK
  <2>2. tree' # None => tree # None /\ tree'.roots = tree.roots /\ tree'.method = tree.method
    BY <1>21, <2>1 DEF EnterReset, Trees
  <2>. QED BY <1>21, <2>2 DEF EnterReset, Acquire, PlaceInv, Goto
<1>22. ASSUME NEW c \in Commands, Exit(c)
       PROVE  WalkInv'
  BY <1>22 DEF Exit, Leave, Over, Goto, state
<1>23. ASSUME NEW c \in Commands, Kill(c)
       PROVE  WalkInv'
  BY <1>1, <1>23 DEF Kill, Killed, Stop, state
<1>24. CASE UNCHANGED vars
  BY <1>24 DEF vars, rootVars, state
<1>25. CASE Fetch
  BY <1>2, <1>3, <1>4, <1>5, <1>6, <1>7, <1>8, <1>9, <1>10, <1>11, <1>12, <1>13, <1>14, <1>15, <1>16, <1>25 DEF Fetch
<1>. QED BY <1>17, <1>18, <1>19, <1>20, <1>21, <1>22, <1>23, <1>24, <1>25 DEF Next
-----------------------------------------------------------------------------
(* The invariant holds in a new root, another's and an older backend's,    *)
LEMMA Begins ==
  ASSUME Init
  PROVE  IInv
<1>. USE DEF Init
<1>1. RootTypeOK /\ RootInv
  BY WorkRootAssumption
     DEF RootTypeOK, RootInv, ClaimIsShared, Inside, Entries, Outside, WorkRootAssumption
<1>2. InputsTypeOK /\ SpanInv
  BY DEF InitInputs, NoThreads, InputsTypeOK, Threads, Spans, SpanInv, Where
<1>3. Reading(lock) \in Jobs /\ RevisionOf[lock] \in Revisions /\ ToolsOf[lock] \in Commits
  BY ReadingIsJob DEF Revisions, Commits
<1>4. Lite(RevisionOf[lock]) \in Trees
  <2>1. Bare(RevisionOf[lock], "lite") \in Trees
    BY <1>3, BareIsTree DEF Methods
  <2>. QED BY <2>1 DEF Lite, Trees, Git
<1>5. FetchTypeOK
  <2>1. acquired \in Records \cup {None}
    BY <1>3 DEF Records, Methods
  <2>. QED BY <1>3, <1>4, <2>1, FetchAssumption DEF FetchTypeOK, Depots, FetchAssumption
<1>6. PlaceInv
  BY DEF PlaceInv, WithTree
<1>7. CauseInv
  <2>1. depot \notin Partial
    BY <1>3, FetchAssumption DEF FetchAssumption
  <2>2. acquired # None \/ tree = None
    BY <1>3, NoneAssumption DEF Records, Methods, NoneAssumption
  <2>. QED BY <2>1, <2>2 DEF CauseInv, Partial
<1>8. InputsInv /\ DoneInv
  BY DEF InputsInv, DoneInv, WithInputs, WithDepot, WithTree, WithCommit
<1>9. RecordInv /\ WalkInv
  <2>1. CASE tree = None /\ acquired = None /\ stamp = None
    BY <2>1 DEF RecordInv, WalkInv, WithCommit, Walked, Reading
  <2>2. CASE /\ tree = Lite(RevisionOf[lock]) /\ mishaps = {"lite"}
             /\ acquired = [revision |-> RevisionOf[lock], method |-> "lite"]
    <3>1. /\ tree.files = "all" /\ tree.revision = RevisionOf[lock] /\ tree.method = "lite" /\ tree # None
          /\ \A d \in Roots : tree.roots[d] = "none"
      BY <1>4, <2>2, NoneAssumption DEF Lite, Bare, NoneAssumption
    <3>. QED BY <2>2, <3>1 DEF RecordInv, Matches, WalkInv, WithCommit, Walked, Reading
  <2>. QED BY <2>1, <2>2
<1>. QED BY <1>1, <1>2, <1>5, <1>6, <1>7, <1>8, <1>9 DEF IInv, TypeOK

(* and every step of any command preserves it.                             *)
LEMMA Stays ==
  ASSUME IInv, [Next]_vars
  PROVE  IInv'
<1>1. lock \in Locks /\ FetchTypeOK /\ InputsTypeOK /\ RootTypeOK
  BY DEF IInv, TypeOK, FetchTypeOK
<1>2. RootTypeOK' /\ RootInv'
  BY <1>1, RootTypes, RootInvStep DEF IInv
<1>3. InputsTypeOK' /\ SpanInv'
  BY <1>1, InputTypes, SpanInvStep DEF IInv
<1>4. FetchTypeOK' /\ PlaceInv' /\ CauseInv'
  BY <1>1, StateTypes, PlaceInvStep, CauseInvStep DEF IInv
<1>5. InputsInv' /\ DoneInv' /\ RecordInv' /\ WalkInv'
  BY InputsInvStep, DoneInvStep, RecordInvStep, WalkInvStep DEF IInv
<1>. QED BY <1>2, <1>3, <1>4, <1>5 DEF IInv, TypeOK

(* Root, inputs, tree and all records are always well typed.               *)
THEOREM TypeCorrect == Spec => []TypeOK
<1>1. IInv => TypeOK
  BY DEF IInv
<1>. QED BY <1>1, Begins, Stays, PTL DEF Spec

(* However many ranges, workers and failures there are, and whatever is    *)
(* killed: no thread writes when the descriptor has been closed.           *)
THEOREM WritesNeverStray == Spec => []NoStrayWrites
<1>1. IInv => NoStrayWrites
  BY DEF IInv, SpanInv, NoStrayWrites
<1>. QED BY <1>1, Begins, Stays, PTL DEF Spec

(* A claim or a fetch that is refused, with nobody killed, is refused for  *)
(* a cause outside of the commands, for any number of commands at once.    *)
THEOREM RefusalsHaveCause == Spec => []RefusedForCause
<1>1. IInv => RefusedForCause
  BY DEF IInv, RootInv, CauseInv, RefusedForCause
<1>. QED BY <1>1, Begins, Stays, PTL DEF Spec

(* A fetch that says it is complete has its inputs verified, depot_tools   *)
(* at its commit, and a tree of the locked revision that its record names, *)
(* synchronized and with its hooks run.                                    *)
THEOREM FetchesAreWhole == Spec => []FetchedIsWhole
<1>1. ASSUME IInv, pc = "fetched"
      PROVE  FetchedIsWhole
  <2>1. /\ report = job.lock /\ \A i \in ItemsOf[report] : Verifies(i)
        /\ depot = ToolsOf[report]
    BY <1>1 DEF IInv, DoneInv, InputsInv, WithInputs, WithDepot
  <2>2. tree # None /\ tree.git = "committed" /\ tree.tools = "native" /\ tree.hooked = "yes"
    BY <1>1 DEF IInv, DoneInv, WithCommit
  <2>3. "reset" \notin mishaps =>
          /\ tree.files = "all" /\ Matches /\ tree.revision = RevisionOf[report]
          /\ "lite" \notin mishaps => tree.synced = "yes"
    BY <1>1, <2>1, <2>2 DEF IInv, RecordInv, WithCommit, Resetting, Matches, Moved, Revision
  <2>. QED BY <2>1, <2>2, <2>3 DEF FetchedIsWhole, Matches
<1>2. IInv => FetchedIsWhole
  BY <1>1 DEF FetchedIsWhole
<1>. QED BY <1>2, Begins, Stays, PTL DEF Spec

(* However many fetches fail and are repeated, gclient overwrites no root  *)
(* of the archive; and the hooks find the metadata of each.                *)
THEOREM ArchivesAreSpared == Spec => []ArchiveIsSpared
<1>1. ASSUME IInv, tree # None, tree.method = "archive", "reset" \notin mishaps
      PROVE  ArchiveIsSpared
  <2>1. \A d \in Led : tree.roots[d] # "replaced"
    BY <1>1 DEF IInv, WalkInv
  <2>2. ASSUME pc = "runhooks", NEW d \in Led
        PROVE  tree.roots[d] \in IF kills = 0 THEN {"committed"} ELSE {"unborn", "committed"}
    <3>1. acquired.method = "archive"
      BY <1>1, <2>2 DEF IInv, RecordInv, WithCommit, Resetting, Matches, Moved
    <3>2. d \in Roots /\ d \in job.paths
      BY <1>1, <2>2, <3>1, LedIsLeast DEF IInv, WalkInv, Walked
    <3>3. tree.roots[d] \in Git
      BY <1>1, <3>2 DEF IInv, TypeOK, FetchTypeOK, Trees
    <3>4. tree.roots[d] # "none" /\ (kills = 0 => tree.roots[d] # "unborn")
      BY <1>1, <2>2, <3>2 DEF IInv, WalkInv, Walked
    <3>. QED BY <2>1, <3>3, <3>4 DEF Git
  <2>. QED BY <2>1, <2>2 DEF ArchiveIsSpared
<1>2. IInv => ArchiveIsSpared
  BY <1>1 DEF ArchiveIsSpared
<1>. QED BY <1>2, Begins, Stays, PTL DEF Spec
=============================================================================
