------------------------------ MODULE MCPkgDir -------------------------------
(* A small package directory for TLC. *)
EXTENDS PkgDir

CONSTANTS r, s, e, f,      \* directories
          p, u, w, h         \* files

OneRoot == <<r>>

\* A package and a hidden file in path.pkg, then a chain of three directories: one
\* with a package, one with a file without extension, and one that is too deep.
SmallTree == [x \in Inner |-> CASE x \in {p, h, s} -> r
                                [] x \in {u, e} -> s
                                [] x \in {w, f} -> e]
=============================================================================
