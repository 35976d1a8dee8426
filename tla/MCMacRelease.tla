----------------------------- MODULE MCMacRelease -----------------------------
(***************************************************************************)
(* MacRelease with interchangeable payloads, inputs and suites: nothing    *)
(* but equality is asked of them, and the run checks invariants only.      *)
(***************************************************************************)
EXTENDS MacRelease, TLC

Interchangeable == Permutations(Payloads) \cup Permutations(Inputs)
                     \cup Permutations(Suites)

(* The bound: two payloads of one identity or one payload of two           *)
(* identities, in everything the files and the history name.               *)
Named == passed \cup ({candidate, accepted} \ {None})
           \cup {[payload |-> p.payload, identity |-> p.identity] :
                   p \in {manifest, packaged} \ {None}}

OneVaries ==
  \/ \E p \in Payloads : \A c \in Named : c.payload = p
  \/ \E i \in Identities : \A c \in Named : c.identity = i
=============================================================================
