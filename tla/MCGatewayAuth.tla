---------------------------- MODULE MCGatewayAuth ----------------------------
\* GatewayAuth with two probes, two logins and a logout.
EXTENDS GatewayAuth, TLC

\* Probes are interchangeable, and so are logins.
Symmetry == Permutations(Probes) \cup Permutations(Logins)
=============================================================================
