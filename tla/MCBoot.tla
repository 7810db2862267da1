------------------------------- MODULE MCBoot -------------------------------
EXTENDS Boot
=============================================================================
