--------------------------- MODULE MCWorldJourney ---------------------------
EXTENDS WorldJourney

CONSTANTS a, b, c, d, i1
=============================================================================
