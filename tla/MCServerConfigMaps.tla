-------------------------- MODULE MCServerConfigMaps --------------------------
(***************************************************************************)
(* Two KieApps in one namespace, with a server each.                        *)
(***************************************************************************)
EXTENDS ServerConfigMaps, TLC

CONSTANTS a1, a2, s1, s2

OneEach == (s1 :> a1) @@ (s2 :> a2)
=============================================================================
