-------------------------- MODULE MCTenantLifecycle --------------------------
(***************************************************************************)
(* Small instances of TenantLifecycle: one or two tenants, one of which    *)
(* may be the one the data of an old installation is for, and two          *)
(* provisioning jobs at a time.                                            *)
(***************************************************************************)
EXTENDS TenantLifecycle, TLC

CONSTANTS j1, j2, t1, t2

Interchangeable == Permutations(Jobs) \cup Permutations(Tenants)

=============================================================================
