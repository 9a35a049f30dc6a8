------------------------------ MODULE TenantIds ------------------------------
(***************************************************************************)
(* The tenants of the platform: the control plane, the Run registry and    *)
(* the data plane know a tenant by the same identifier.                    *)
(***************************************************************************)
CONSTANTS
    Tenants,
    NoTenant    \* no tenant

=============================================================================
