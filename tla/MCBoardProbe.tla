---------------------------- MODULE MCBoardProbe ----------------------------
(* BoardProbe over every device tree of N devices with at most one FATAL     *)
(* device.                                                                   *)
EXTENDS BoardProbe

MCTrees ==
    [deps  : {f \in [Device -> SUBSET Device] : \A d \in Device : \A e \in f[d] : e < d},
     kind  : [Device -> Kinds],
     fatal : {S \in SUBSET Device : Cardinality(S) <= 1}]
=============================================================================
