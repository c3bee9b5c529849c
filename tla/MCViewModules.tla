---------------------------- MODULE MCViewModules ----------------------------
(* Objects of a pool are interchangeable: which of them is used next is of no *)
(* consequence, and neither are the names of sockets and plugins.             *)
EXTENDS ViewModules, TLC

Symmetry == Permutations(Modules) \cup Permutations(Nodes) \cup Permutations(Replicas)
            \cup Permutations(Sockets) \cup Permutations(Plugins)
=============================================================================
