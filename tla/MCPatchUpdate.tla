---------------------------- MODULE MCPatchUpdate ----------------------------
(***************************************************************************)
(* A small instance of PatchUpdate: three patches and five files.  The     *)
(* first and the third patch share a file, the third also creates one, and *)
(* the first two are independent.                                          *)
(***************************************************************************)
EXTENDS PatchUpdate

CONSTANTS a, b, c, f, g, h, i, n

MCPatches == {a, b, c}
MCFiles   == {f, g, h, i, n}
MCLists   == {<<>>, <<a>>, <<a, b>>, <<a, b, c>>, <<b>>, <<b, c>>}
MCEdits   == (a :> {f, g}) @@ (b :> {h}) @@ (c :> {g, i})
MCAdds    == (a :> {}) @@ (b :> {}) @@ (c :> {n})
=============================================================================
