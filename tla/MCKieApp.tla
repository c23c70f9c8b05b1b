------------------------------ MODULE MCKieApp ------------------------------
(***************************************************************************)
(* Small instances of KieAppReconcile for TLC.                              *)
(***************************************************************************)
EXTENDS KieAppProperties, TLC

CONSTANTS keystore, console, build

KeystoreAndConsole == <<keystore, console>>
ConsoleAndBuild == <<console, build>>
ConsoleOnly == <<console>>

\* Intents and passwords are only compared for equality, and no run of safety
\* properties names one of them.
Interchangeable == Permutations(Intents) \cup Permutations(Passwords)
=============================================================================
