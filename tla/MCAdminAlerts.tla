--------------------------- MODULE MCAdminAlerts ---------------------------
EXTENDS AdminAlerts
=============================================================================
