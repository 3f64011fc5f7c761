---------------------------- MODULE Disturbances ----------------------------
(***************************************************************************)
(* What disturbs the bridge from outside: failures of the network, resets, *)
(* requests.  Their number is bounded, so that the parts that meet them    *)
(* can be checked together.                                                *)
(***************************************************************************)
EXTENDS Naturals

CONSTANT MaxTrouble
ASSUME TroubleAssumption == MaxTrouble \in Nat

VARIABLE spent

Trouble == spent < MaxTrouble /\ spent' = spent + 1
=============================================================================
