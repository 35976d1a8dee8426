----------------------------- MODULE MCMacSource -----------------------------
(***************************************************************************)
(* Small instances of MacSource.  The series are the three kinds of edit   *)
(* the operator makes: <<a>> grows to <<a, b>> and <<a, b, c>>, and <<d>>  *)
(* is a series whose first patch was changed.                              *)
(***************************************************************************)
EXTENDS MacSource

CONSTANTS a, b, c, d

MCSeries == {<<a>>, <<a, b>>, <<a, b, c>>, <<d>>}
=============================================================================
