-------------------------------- MODULE MCDict -------------------------------
(* Small instances of Dict for TLC. *)
EXTENDS Dict

CONSTANTS a, b, c,    \* keys
          dflt        \* a default

\* The keys share their first slot in every table, and their second in one of
\* sixteen.
CollidingHash == [k \in Keys |-> CASE k = a -> 1 [] k = b -> 17 [] k = c -> 33]
=============================================================================
