--------------------------- MODULE KieAppProperties ---------------------------
(***************************************************************************)
(* What must be true of the operator of module KieAppReconcile.             *)
(***************************************************************************)
EXTENDS KieAppReconcile

(***************************************************************************)
(* The stored KieApp, seen through the specification DesiredState.          *)
(***************************************************************************)
StoredSpec == IF Api(cr) = Absent THEN Absent ELSE Api(cr).spec
StoredCondition ==
    IF Api(cr) = Absent THEN "none" ELSE LastType(Api(cr).conditions)

Desired == INSTANCE DesiredState WITH
    spec <- StoredSpec, told <- StoredCondition

\* Reconcile writes back the whole KieApp it read some time ago, defaults filled
\* in.  However stale that copy, no write undoes a user's edit, replaces a
\* password that is already stored, or stores a password together with Deployed.
UserOwnsSpec == Desired!Spec

-----------------------------------------------------------------------------
\* UpdateObj sends the version that was read from the cache.  A write that the
\* API server accepts therefore replaces the very version the cache holds: the
\* operator never overwrites something it has not been told of yet.
NoBlindWrite ==
    /\ pc = "save" /\ IsCurrentKieApp => Delivered(cr)
    /\ \A u \in updates : IsCurrent(u) => Delivered(obj[u.name])

-----------------------------------------------------------------------------
(***************************************************************************)
(* The KieApp's request has been carried out.                               *)
(***************************************************************************)
InPlace(o) ==
    /\ Api(obj[o]) # Absent
    /\ o \notin Secrets => Api(obj[o]).content = Wanted(o, Api(cr).spec)

StatusInPlace ==
    Api(cr).deployments = {<<d, Api(obj[d]).ready>> : d \in DCs}

CarriedOut ==
    /\ Api(cr).spec.password # NoPassword
    /\ LastType(Api(cr).conditions) = "Deployed"
    /\ \A o \in Objects : InPlace(o)
    /\ StatusInPlace

\* Something will run Reconcile again, or is running it.
Awake ==
    \/ dirty \/ retry \/ pc # "idle"
    \/ ~Delivered(cr)
    \/ \E o \in Objects : ~Delivered(obj[o])

\* Reconcile ends a pass without requeue, ignores errors of setFailedStatus and
\* drops createObj's RequeueAfter.  All the same, as long as the request is not
\* carried out, there is always something left that starts another pass.
NoLostWakeup ==
    Api(cr) # Absent /\ ~CarriedOut => Awake

Rejected == Api(cr) # Absent /\ Api(cr).spec.intent \in BadIntents

\* Stale caches make passes generate passwords twice, create what exists and
\* report failures that are none.  Once users and failures stop, all of it heals:
\* a valid request is carried out and stays so, an invalid one stays Failed, and
\* nothing outlives a deleted KieApp.
Converged ==
    IF Api(cr) = Absent
    THEN \A o \in Objects : Api(obj[o]) = Absent
    ELSE IF Rejected
         THEN LastType(Api(cr).conditions) = "Failed"
         ELSE CarriedOut

EventuallyConverged == <>[]Converged

\* And then the operator stops writing: passes that find nothing to do leave
\* every resource alone, so they do not wake each other for ever.  An invalid
\* request is the exception: every pass appends another Failed condition, and the
\* event of that very write starts the next pass.
EventuallyQuiet ==
    <>[]~Rejected => <>[][UNCHANGED <<cr, obj>>]_<<cr, obj>>

-----------------------------------------------------------------------------
(***************************************************************************)
(* Statements of the repository that the code does not keep.                *)
(***************************************************************************)

\* "The password to use for keystore generation" (the CRD, of keyStorePassword):
\* when everything has settled, each keystore opens with the stored password.
SettledKeystoreOpens ==
    Api(cr) # Absent /\ ~Awake =>
        \A s \in Secrets : Api(obj[s]).content = Wanted(s, Api(cr).spec)
=============================================================================
