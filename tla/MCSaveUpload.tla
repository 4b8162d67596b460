---------------------------- MODULE MCSaveUpload ----------------------------
(***************************************************************************)
(* Small instances of SaveUpload: which saves are in the learned tree and  *)
(* under which root.                                                       *)
(***************************************************************************)
EXTENDS SaveUpload, TLC

CONSTANTS s1, s2

\* Two saves of one learned_tree binding whose suffixes have different roots.
MCRootOf == s1 :> "USA/Card A" @@ s2 :> "EUR/Card A"
=============================================================================
