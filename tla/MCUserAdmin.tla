---------------------------- MODULE MCUserAdmin ----------------------------
EXTENDS UserAdmin, TLC

CONSTANTS admin, peer

MCAccounts == {admin, peer}
=============================================================================
