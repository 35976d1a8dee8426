---------------------------- MODULE MCLibraryClosure ----------------------------
(***************************************************************************)
(* A browser and a helper beside it, and four libraries and one of glibc:  *)
(* gbm of the graphics stack, nss, avcodec of FFmpeg and the C++ runtime   *)
(* stdcxx.  gbm, nss and avcodec may need each other in cycles; the helper *)
(* has the file name of gbm; and gbm and nss may have one SONAME.          *)
(***************************************************************************)
EXTENDS LibraryClosure

CONSTANTS gbm, nss, avcodec, stdcxx, libc, helper

MCLibraries  == {gbm, nss, avcodec, stdcxx, libc}
MCGlibc      == {libc}
MCGnuRuntime == {stdcxx}
MCGraphics   == {gbm, stdcxx}
MCFfmpeg     == {avcodec}
MCOwn        == {Browser, helper}
MCFileName   == [x \in MCOwn |-> IF x = helper THEN gbm ELSE x]

MCNeedsNothing == [x \in MCLibraries \cup MCOwn |-> {}]

MCGraphs ==
  {[MCNeedsNothing EXCEPT ![gbm] = G, ![nss] = N, ![avcodec] = A, ![Browser] = B, ![helper] = H] :
     G \in {{}, {nss, stdcxx}},
     N \in SUBSET {gbm, avcodec, stdcxx, libc},
     A \in SUBSET {nss, stdcxx},
     B \in SUBSET {gbm, avcodec, stdcxx, libc},
     H \in SUBSET {stdcxx}}

MCOwnSonames == [x \in MCLibraries \cup MCOwn |-> IF x \in MCOwn THEN NoSoname ELSE x]
MCSonames    == {MCOwnSonames, [MCOwnSonames EXCEPT ![gbm] = nss]}
MCUnfits     == {{}, {helper}}

MCImages == {MCLibraries, {nss, stdcxx}}
MCSeeds  == {{gbm}, {nss}}
=============================================================================
