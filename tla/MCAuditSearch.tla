--------------------------- MODULE MCAuditSearch ---------------------------
EXTENDS AuditSearch, TLC

CONSTANTS alice, bob

MCFilters == {"", alice, bob}
=============================================================================
