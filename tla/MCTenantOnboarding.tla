------------------------- MODULE MCTenantOnboarding -------------------------
EXTENDS TenantOnboarding, TLC

Symmetry == Permutations(Handlers) \cup Permutations(Emails)
=============================================================================
