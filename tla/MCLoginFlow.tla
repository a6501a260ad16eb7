----------------------------- MODULE MCLoginFlow -----------------------------
EXTENDS LoginFlow, TLC
=============================================================================
