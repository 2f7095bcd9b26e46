-------------------------- MODULE MCTenantLifecycle --------------------------
(***************************************************************************)
(* An instance of TenantLifecycle for TLC: two sales beside one change of  *)
(* settings.                                                               *)
(***************************************************************************)
EXTENDS TenantLifecycle, TLC

Interchangeable == Permutations(SaleCalls) \cup Permutations(Currencies)
=============================================================================
