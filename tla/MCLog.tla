-------------------------------- MODULE MCLog -------------------------------
EXTENDS IncidentLog

=============================================================================
