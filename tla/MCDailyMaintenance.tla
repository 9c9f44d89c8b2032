------------------------- MODULE MCDailyMaintenance -------------------------
EXTENDS DailyMaintenance
=============================================================================
