----------------------------- MODULE LockedInputs ---------------------------
(***************************************************************************)
(* Downloading the locked inputs of a macOS work root                      *)
(* (scripts/macos_backend.py, download_locked_entries): a thread for each  *)
(* input, up to a limit, and for a large input further threads that write  *)
(* its ranges through one descriptor into one temporary file.              *)
(*                                                                         *)
(* Abstractions.  A file of inputs/ is the locked input whose size and     *)
(* digests it has, or "junk".  A temporary file bears the number of its    *)
(* process: no later command reads it.  At most one input of a lock is     *)
(* large.                                                                  *)
(***************************************************************************)
EXTENDS Naturals, FiniteSets, WorkRoot

CONSTANTS
  Items,         \* inputs a lock may name: a URL, a size and digests each
  Names,         \* file names in inputs/
  NameOf,        \* the file name of each input
  Large,         \* inputs of RANGE_DOWNLOAD_THRESHOLD_BYTES and more
  Ranges,        \* how many ranges a large input has
  EntryWorkers,  \* threads for inputs
  RangeWorkers   \* threads for ranges

ASSUME InputsAssumption ==
  /\ NameOf \in [Items -> Names] /\ Large \subseteq Items
  /\ {Ranges, EntryWorkers, RangeWorkers} \subseteq Nat \ {0}
  /\ None \notin Items

VARIABLES
  inputs,      \* inputs/
  thread,      \* each input in the fetch of now
  span,        \* each range of the large input in the fetch of now
  descriptor   \* the descriptor of its temporary file

inputVars == <<inputs, thread, span, descriptor>>

Threads == {"none", "todo", "busy", "ranges", "right", "wrong", "done", "failed", "cancelled"}
Spans   == {"none", "todo", "running", "right", "wrong", "failed", "cancelled"}

Where(f, s) == {x \in DOMAIN f : f[x] = s}
Working     == UNION {Where(thread, s) : s \in {"busy", "ranges", "right", "wrong"}}
Set(i, s)   == thread' = [thread EXCEPT ![i] = s]

(* verify_locked_file *)
Verifies(i) == inputs[NameOf[i]] = i

NoThreads ==
  /\ thread = [i \in Items |-> "none"] /\ span = [k \in 1..Ranges |-> "none"]
  /\ descriptor = "closed"

ThreadsEnd ==
  /\ thread' = [i \in Items |-> "none"] /\ span' = [k \in 1..Ranges |-> "none"]
  /\ descriptor' = "closed"
-----------------------------------------------------------------------------
BeginDownloads(wanted) ==
  /\ thread' = [i \in Items |-> IF i \in wanted THEN "todo" ELSE "none"]
  /\ UNCHANGED <<inputs, span, descriptor>>

(* A file that is there is verified and never replaced. *)
TakeInput(i) ==
  /\ thread[i] = "todo" /\ Cardinality(Working) < EntryWorkers
  /\ Set(i, CASE inputs[NameOf[i]] = None -> "busy"
              [] Verifies(i)              -> "done"
              [] OTHER                    -> "failed")
  /\ UNCHANGED <<inputs, span, descriptor>>

(* A large input is loaded by ranges if the server offers them, *)
OpenRanges(i) ==
  /\ thread[i] = "busy" /\ i \in Large
  /\ descriptor' = "open"
  /\ span' = [k \in 1..Ranges |-> "todo"]
  /\ Set(i, "ranges")
  /\ UNCHANGED inputs

(* any other as one stream, whose end is taken as it comes. *)
Stream(i) ==
  /\ thread[i] = "busy"
  /\ \E s \in {"right", "wrong", "failed"} : Set(i, s)
  /\ UNCHANGED <<inputs, span, descriptor>>

TakeRange(k) ==
  /\ span[k] = "todo" /\ Cardinality(Where(span, "running")) < RangeWorkers
  /\ span' = [span EXCEPT ![k] = "running"]
  /\ UNCHANGED <<inputs, thread, descriptor>>

(* The range is written whole, or its thread fails. *)
EndRange(k) ==
  /\ span[k] = "running"
  /\ \E s \in {"right", "wrong", "failed"} : span' = [span EXCEPT ![k] = s]
  /\ UNCHANGED <<inputs, thread, descriptor>>

(* The first failure in the order of the ranges cancels what has not begun.*)
CancelRanges ==
  /\ Where(span, "todo") # {}
  /\ \E k \in Where(span, "failed") : \A j \in 1..(k - 1) : span[j] \in {"right", "wrong"}
  /\ span' = [k \in 1..Ranges |-> IF span[k] = "todo" THEN "cancelled" ELSE span[k]]
  /\ UNCHANGED <<inputs, thread, descriptor>>

Assembled == IF Where(span, "failed") # {} THEN "failed"
             ELSE IF Where(span, "wrong") # {} THEN "wrong" ELSE "right"

(* Mutant: the first failure closes the file. *)
CloseRangesAtOnce(i) ==
  /\ thread[i] = "ranges" /\ descriptor = "open"
  /\ \/ Where(span, "failed") # {}
     \/ Where(span, "todo") \cup Where(span, "running") = {}
  /\ descriptor' = "closed"
  /\ Set(i, Assembled)
  /\ UNCHANGED <<inputs, span>>

(* The executor waits for all its threads, then the file is closed. *)
CloseRanges(i) ==
  /\ thread[i] = "ranges" /\ descriptor = "open"
  /\ Where(span, "todo") \cup Where(span, "running") = {}
  /\ descriptor' = "closed"
  /\ span' = [k \in 1..Ranges |-> "none"]
  /\ Set(i, Assembled)
  /\ UNCHANGED inputs

(* The temporary file is verified and renamed, *)
PublishInput(i) ==
  /\ thread[i] = "right"
  /\ inputs' = [inputs EXCEPT ![NameOf[i]] = i]
  /\ Set(i, "done")
  /\ UNCHANGED <<span, descriptor>>

(* or it does not verify, and is removed. *)
RejectInput(i) ==
  /\ thread[i] = "wrong"
  /\ Set(i, "failed")
  /\ UNCHANGED <<inputs, span, descriptor>>

CancelInputs ==
  /\ Where(thread, "failed") # {} /\ Where(thread, "todo") # {}
  /\ thread' = [i \in Items |-> IF thread[i] = "todo" THEN "cancelled" ELSE thread[i]]
  /\ UNCHANGED <<inputs, span, descriptor>>

(* All threads have ended. *)
Downloaded == Working = {} /\ Where(thread, "todo") = {}

InitInputs == inputs = [n \in Names |-> None] /\ NoThreads

Download ==
  \/ \E i \in Items :
       TakeInput(i) \/ OpenRanges(i) \/ Stream(i) \/ CloseRanges(i) \/ PublishInput(i) \/ RejectInput(i)
  \/ \E k \in 1..Ranges : TakeRange(k) \/ EndRange(k)
  \/ CancelRanges \/ CancelInputs
-----------------------------------------------------------------------------
(* Files are what was published, and threads where threads can be. *)
InputsTypeOK ==
  /\ inputs \in [Names -> Items \cup {None, "junk"}]
  /\ thread \in [Items -> Threads] /\ span \in [1..Ranges -> Spans]
  /\ descriptor \in {"open", "closed"}

(* No thread writes a range when the descriptor has been closed, and may   *)
(* be that of another file: not after a range failed, not when the fetch   *)
(* is given up.                                                            *)
NoStrayWrites == Where(span, "running") # {} => descriptor = "open"
=============================================================================
