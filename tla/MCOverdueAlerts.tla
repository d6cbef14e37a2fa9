--------------------------- MODULE MCOverdueAlerts ---------------------------
EXTENDS OverdueAlerts

CONSTANTS d1, p1
=============================================================================
