---------------------------- MODULE MCCdpConnection ----------------------------
(***************************************************************************)
(* The scripts of the browser tests.  The TCP test of test-functional.py   *)
(* creates a blank target and navigates several times, here twice; the     *)
(* pipe test, test-fast.py and helium_test_fast.py create a target with    *)
(* the page and navigate to it once more.                                  *)
(***************************************************************************)
EXTENDS CdpConnection

Visit     == <<"navigate", "frame", "dom", "evaluate">>
VisitOnce == <<"enable">> \o Visit
VisitTwo  == VisitOnce \o Visit
=============================================================================
