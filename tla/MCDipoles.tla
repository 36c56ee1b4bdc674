----------------------------- MODULE MCDipoles -----------------------------
\* Directions for up to three dipoles; one configuration is enough for them.
EXTENDS Dipoles

MCConfigurations == {[k \in 0 .. 1 |-> 5 * k]}
=============================================================================
