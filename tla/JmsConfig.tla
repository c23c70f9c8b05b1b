------------------------------ MODULE JmsConfig ------------------------------
(***************************************************************************)
(* JMS settings of a set of KIE servers, and the defaults getJmsConfig      *)
(* gives them (defaults/defaults.go).  A default queue is named for its     *)
(* role; user name and password are one credential.                         *)
(***************************************************************************)
EXTENDS SequencesExt

CONSTANTS
    NoJms,          \* no JMS settings at all
    CustomQueues,   \* queue names a user can choose
    Credentials,    \* what GeneratePassword can return
    NoCredentials   \* user name and password left empty

\* The queues in the order queuesList takes them.
Roles == <<"EXECUTOR", "REQUEST", "RESPONSE", "SIGNAL", "AUDIT">>
Role == {Roles[i] : i \in DOMAIN Roles}
NoQueue == ""

ASSUME CredentialsAssumption == NoCredentials \notin Credentials

QueueName == Role \cup CustomQueues \cup {NoQueue}

Jms ==
    [enabled : BOOLEAN, executor : {"unset", "on", "off"},
     signal : BOOLEAN, audit : BOOLEAN,
     queue : [Role -> QueueName],
     credentials : Credentials \cup {NoCredentials},
     amqQueues : Seq(QueueName)]

Integrated(jms) == jms # NoJms /\ jms.enabled

UsedRoles(jms) ==
    {"REQUEST", "RESPONSE"}
        \cup (IF jms.executor # "off" THEN {"EXECUTOR"} ELSE {})
        \cup (IF jms.signal THEN {"SIGNAL"} ELSE {})
        \cup (IF jms.audit THEN {"AUDIT"} ELSE {})

QueueFor(jms, role) ==
    IF jms.queue[role] = NoQueue THEN role ELSE jms.queue[role]

\* getDefaultQueue for each role: the name of a queue in use, empty otherwise.
QueuesList(jms) ==
    [i \in DOMAIN Roles |->
        IF Roles[i] \in UsedRoles(jms) THEN QueueFor(jms, Roles[i]) ELSE NoQueue]

\* "clean empty values": the loop removes an empty name and leaves by `break`.
CleanedQueues(jms) ==
    LET list == QueuesList(jms)
        empty == {i \in DOMAIN list : list[i] = NoQueue}
    IN  IF empty = {} THEN list ELSE RemoveAt(list, Min(empty))

\* Deviation: credentials are generated although there are some.
CompleteJmsAnew(jms, generated) ==
    IF Integrated(jms) THEN [jms EXCEPT !.credentials = generated] ELSE jms

\* getJmsConfig completes the settings in place: mergo.Merge fills only what is
\* empty.
CompleteJms(jms, generated) ==
    IF ~Integrated(jms) THEN jms
    ELSE [jms EXCEPT
            !.executor = IF @ = "unset" THEN "on" ELSE @,
            !.queue = [role \in Role |-> QueueFor(jms, role)],
            !.credentials = IF @ = NoCredentials THEN generated ELSE @,
            !.amqQueues = IF @ = <<>> THEN CleanedQueues(jms) ELSE @]
=============================================================================
