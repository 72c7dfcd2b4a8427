------------------------- MODULE InstallationTeardown -------------------------
(***************************************************************************)
(* What the APIServer controller promises about the Installation's        *)
(* teardown (maintainFinalizer, src/unnamed/part_002:539-543: "These      *)
(* objects require graceful termination before the CNI plugin is torn     *)
(* down").  The Installation is held by the APIServer finalizer whenever  *)
(* the API server is deployed; the hold is taken before or with the       *)
(* deployment and released only once the deployment is gone; a deletion   *)
(* of a held Installation waits for the release.                          *)
(***************************************************************************)

VARIABLES
    installed,  \* the Installation exists
    held,       \* it carries the APIServer finalizer
    deleting,   \* it has a deletion timestamp
    served      \* the calico-apiserver deployment exists

vars == <<installed, held, deleting, served>>

TypeOK == {installed, held, deleting, served} \subseteq BOOLEAN

Init ==
    /\ installed = TRUE
    /\ held = FALSE
    /\ deleting = FALSE
    /\ served = FALSE

(* A pass that reaches its apply loop: the finalizer is added (refused    *)
(* for an Installation already being deleted without it) and the          *)
(* deployment may be created in the same pass.                             *)
Hold ==
    /\ installed
    /\ ~(deleting /\ ~held)
    /\ held' = TRUE
    /\ served' \in {served, TRUE}
    /\ UNCHANGED <<installed, deleting>>

(* The deployment is removed (its owner, the APIServer CR, is gone).       *)
Undeploy ==
    /\ served
    /\ served' = FALSE
    /\ UNCHANGED <<installed, held, deleting>>

(* The not-found pass releases the finalizer once the deployment is gone;  *)
(* a pending deletion then completes.                                      *)
Release ==
    /\ held
    /\ ~served
    /\ held' = FALSE
    /\ installed' = ~deleting
    /\ deleting' = FALSE
    /\ UNCHANGED served

(* A delete request: a held Installation only gets a deletion timestamp.  *)
Delete ==
    /\ installed
    /\ ~deleting
    /\ IF held THEN /\ deleting' = TRUE
                    /\ UNCHANGED installed
               ELSE /\ installed' = FALSE
                    /\ UNCHANGED deleting
    /\ UNCHANGED <<held, served>>

Create ==
    /\ ~installed
    /\ installed' = TRUE
    /\ UNCHANGED <<held, deleting, served>>

Next == Hold \/ Undeploy \/ Release \/ Delete \/ Create

Spec == Init /\ [][Next]_vars

(* The promise in one state: a deployed API server implies a held          *)
(* Installation, and a deletion is pending only behind the finalizer.      *)
Protected == (served => installed /\ held) /\ (deleting => installed /\ held)
=============================================================================
