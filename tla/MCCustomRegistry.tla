--------------------------- MODULE MCCustomRegistry ---------------------------
EXTENDS CustomRegistry

CONSTANTS a, b, c

MCCallers == {a, b, c}
===============================================================================
