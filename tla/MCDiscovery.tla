------------------------------ MODULE MCDiscovery ------------------------------
EXTENDS Discovery

CONSTANTS example, a1, a2, c0, c1, c2

MCClusterIP == [a \in Address |-> CASE a = example -> c0 [] a = a1 -> c1 [] OTHER -> c2]
=============================================================================
