----------------------------- MODULE MCPkgCache -----------------------------
(* Small instances of PkgCache for TLC. *)
EXTENDS PkgCache

CONSTANTS main, vfs,    \* threads
          a, b, bad     \* packages

\* a has two entries, the others one.
SmallFiles == [p \in Packages |-> IF p = a THEN 2 ELSE 1]
OneFile == [p \in Packages |-> 1]
=============================================================================
