----------------------------- MODULE MCAuthority -----------------------------
EXTENDS AuthorityTransfer

MCMachines == <<"m1", "m2">>
=============================================================================
