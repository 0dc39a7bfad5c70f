----------------------------- MODULE MCSegments -----------------------------
EXTENDS WolfenSegments

=============================================================================
