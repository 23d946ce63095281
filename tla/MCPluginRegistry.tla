-------------------------- MODULE MCPluginRegistry --------------------------
(* Two objects share the name "a"; b needs an "a" and clashes with a1's     *)
(* second key after filling a first one of its own.                         *)
EXTENDS PluginRegistry
CONSTANTS a1, a2, b, na, nb, k1, k2, k3, k4, c1, c2, c3

CallerSymmetry == Permutations(Callers)

MCNameOf == (a1 :> na) @@ (a2 :> na) @@ (b :> nb)
MCDependsOn == (a1 :> {}) @@ (a2 :> {}) @@ (b :> {na})
MCKeysOf == (a1 :> <<k1, k2>>) @@ (a2 :> <<k3>>) @@ (b :> <<k4, k2>>)
MCBatches == {{a1, b}, {a2, b}}
=============================================================================
