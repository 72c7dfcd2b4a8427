--------------------- MODULE InstallationTeardown_proofs ---------------------
(***************************************************************************)
(* The abstract teardown protocol keeps its promise: Protected holds in    *)
(* every state.  Protected is inductive together with the type invariant:  *)
(* a deletion completes only when the hold is released, and the hold is    *)
(* released only once the deployment is gone.                              *)
(***************************************************************************)
EXTENDS InstallationTeardown, TLAPS

IInv == TypeOK /\ Protected

LEMMA InitProtected == Init => IInv
BY DEF Init, IInv, TypeOK, Protected

LEMMA NextProtected == IInv /\ [Next]_vars => IInv'
<1> SUFFICES ASSUME IInv, [Next]_vars PROVE IInv'
  OBVIOUS
<1> USE DEF IInv, TypeOK, Protected
<1>1. CASE Hold
  BY <1>1 DEF Hold
<1>2. CASE Undeploy
  BY <1>2 DEF Undeploy
<1>3. CASE Release
  BY <1>3 DEF Release
<1>4. CASE Delete
  <2>1. CASE held
    BY <1>4, <2>1 DEF Delete
  <2>2. CASE ~held
    <3>1. ~served /\ ~deleting
      BY <2>2
    <3> QED
      BY <1>4, <2>2, <3>1 DEF Delete
  <2> QED
    BY <2>1, <2>2
<1>5. CASE Create
  BY <1>5 DEF Create
<1>6. CASE UNCHANGED vars
  BY <1>6 DEF vars
<1> QED
  BY <1>1, <1>2, <1>3, <1>4, <1>5, <1>6 DEF Next

(* Every behaviour of the protocol keeps a deployed API server and a       *)
(* pending deletion behind the finalizer.                                  *)
THEOREM ProtectedInvariant == Spec => []Protected
<1>1. IInv => Protected
  BY DEF IInv
<1> QED
  BY InitProtected, NextProtected, <1>1, PTL DEF Spec
=============================================================================
