-------------------------- MODULE MCDependencySort --------------------------
(* Instances of DependencySort for TLC. *)
EXTENDS DependencySort

CONSTANTS a, b, n, x

\* x is not in the run; n is a namespace or a definition.
MCImplicits == {{}, {<<a, n>>}, {<<a, n>>, <<b, n>>}}
=============================================================================
