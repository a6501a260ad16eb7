----------------------------- MODULE MCHostLink -----------------------------
EXTENDS HostLink
=============================================================================
