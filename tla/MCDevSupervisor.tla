-------------------------- MODULE MCDevSupervisor --------------------------
\* DevSupervisor for TLC.
EXTENDS DevSupervisor, TLC
=============================================================================
