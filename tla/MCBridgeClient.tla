--------------------------- MODULE MCBridgeClient ---------------------------
(***************************************************************************)
(* Instances of BridgeClient for TLC.  No property here is a liveness      *)
(* property, so the sets of model values may be permuted.  The refinement  *)
(* mapping chooses a client from a set that has one element at most.       *)
(***************************************************************************)
EXTENDS BridgeClientInv, BridgeClientRefines, TLC

Symmetry ==
  Permutations(Conns) \cup Permutations(Stmts)
    \cup Permutations(Handles) \cup Permutations(Tokens)

=============================================================================
