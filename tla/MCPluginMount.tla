---------------------------- MODULE MCPluginMount ----------------------------
EXTENDS PluginMount

CONSTANTS p, c

MCOrder == <<p, c>>
MCParent == [a \in {p, c} |-> IF a = c THEN p ELSE None]
=============================================================================
