------------------------------ MODULE MCMiniOta ------------------------------
(* A state sector of two records; a new image of another length than the   *)
(* factory image, and one damaged in transit.                              *)
EXTENDS MiniOta

(* Once the state word is damaged the properties promise nothing more. *)
Unharmed == harm = {}

MCFactory == [id |-> "factory", len |-> 2, sound |-> TRUE]
MCImage == {MCFactory,
            [id |-> "new", len |-> 1, sound |-> TRUE],
            [id |-> "damaged", len |-> 2, sound |-> FALSE]}

MCBuilds == {[dual |-> TRUE, check |-> FALSE],
             [dual |-> FALSE, check |-> TRUE]}
=============================================================================
