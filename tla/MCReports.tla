------------------------------ MODULE MCReports -----------------------------
EXTENDS NodeReports

=============================================================================
