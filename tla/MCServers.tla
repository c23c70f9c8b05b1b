------------------------------ MODULE MCServers ------------------------------
(***************************************************************************)
(* Small instances of ServersConfig for TLC.                                *)
(***************************************************************************)
EXTENDS ServersConfig

Blank(n) == [BlankSet EXCEPT !.deployments = n]
Chosen(suffix, n) ==
    [Blank(n) EXCEPT !.name = [stem |-> "kieserver", suffix |-> suffix]]

\* The settings of a KieApp that only asks for JMS.
PlainJms ==
    [enabled |-> TRUE, executor |-> "unset", signal |-> FALSE, audit |-> FALSE,
     queue |-> [role \in Role |-> NoQueue], credentials |-> NoCredentials,
     amqQueues |-> <<>>]

\* Unnamed sets, names that clash with generated ones or with each other's
\* deployments, sets scaled to zero, builds, and JMS.
NamingSets ==
    {BlankSet, Blank(0), Blank(2),
     Chosen(<<2>>, 1), Chosen(<<1>>, 2),
     Chosen(<<1, 2>>, NoNumber),
     [Blank(2) EXCEPT !.build = TRUE],
     [BlankSet EXCEPT !.database = "incomplete"],
     [BlankSet EXCEPT !.jms = PlainJms]}
=============================================================================
