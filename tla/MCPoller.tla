------------------------------ MODULE MCPoller ------------------------------
(***************************************************************************)
(* Poller instantiated for TLC. Tenants, block ids and the markers are     *)
(* model values; each cfg picks how many of them a run uses.               *)
(***************************************************************************)
EXTENDS Poller

CONSTANTS t1, t2, b1, b2

\* Two tenants, listed by Reader.Tenants in this order.
TwoTenantOrder == <<t1, t2>>
TwoTenants == {t1, t2}

\* One tenant.
OneTenantOrder == <<t1>>
OneTenant == {t1}

TwoBlocks == {b1, b2}
OneBlock == {b1}
OnlyB2 == {b2}
OnlyB1 == {b1}

\* A negative TolerateConsecutiveErrors (the cfg syntax has no negative literals).
NoAttempts == -1

=============================================================================
