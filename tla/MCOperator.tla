------------------------------ MODULE MCOperator ------------------------------
(***************************************************************************)
(* A small instance of OperatorResources for TLC.  Of the console's objects *)
(* that are created and never looked at again, one stands for five.         *)
(***************************************************************************)
EXTENDS OperatorResources

CONSTANTS pod, route

PodAndRoute == <<pod, route>>
=============================================================================
