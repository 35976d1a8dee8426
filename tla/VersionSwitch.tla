---------------------------- MODULE VersionSwitch ----------------------------
(***************************************************************************)
(* What an installation promises, without links, probes or processes: a    *)
(* set of kept versions, one of them active and one to fall back to.  A    *)
(* version is activated or remembered only while it is kept, and discarded *)
(* only while it is neither.                                               *)
(***************************************************************************)
CONSTANTS Versions, None

VARIABLES kept, active, fallback

state == <<kept, active, fallback>>

Init == kept = {} /\ active = None /\ fallback = None

Add(v) ==
  /\ kept' = kept \cup {v}
  /\ UNCHANGED <<active, fallback>>

Discard(v) ==
  /\ v \notin {active, fallback}
  /\ kept' = kept \ {v}
  /\ UNCHANGED <<active, fallback>>

Activate(v) ==
  /\ v \in kept
  /\ active' = v
  /\ UNCHANGED <<kept, fallback>>

Withdraw ==
  /\ active' = None
  /\ UNCHANGED <<kept, fallback>>

Remember(v) ==
  /\ v \in kept
  /\ fallback' = v
  /\ UNCHANGED <<kept, active>>

Forget ==
  /\ fallback' = None
  /\ UNCHANGED <<kept, active>>

Next ==
  \/ \E v \in Versions :
       Add(v) \/ Discard(v) \/ Activate(v) \/ Remember(v)
  \/ Withdraw \/ Forget

Spec == Init /\ [][Next]_state

=============================================================================
