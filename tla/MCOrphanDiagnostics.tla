-------------------------- MODULE MCOrphanDiagnostics --------------------------
EXTENDS OrphanDiagnostics
=============================================================================
