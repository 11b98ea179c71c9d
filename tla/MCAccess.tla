------------------------------ MODULE MCAccess ------------------------------
EXTENDS Access
=============================================================================
