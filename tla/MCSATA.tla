------------------------------- MODULE MCSATA -------------------------------
EXTENDS SATA
=============================================================================
