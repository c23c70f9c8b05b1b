--------------------------- MODULE MCHostsAndImages ---------------------------
(***************************************************************************)
(* A small instance of HostsAndImages for TLC.                              *)
(***************************************************************************)
EXTENDS HostsAndImages

NoAuth == [sso |-> "none", ldap |-> "none", roleMapper |-> FALSE]

\* None, single sign-on, and what configureAuth rejects.
SomeAuths ==
    {NoAuth,
     [NoAuth EXCEPT !.sso = "complete"],
     [NoAuth EXCEPT !.roleMapper = TRUE]}
=============================================================================
