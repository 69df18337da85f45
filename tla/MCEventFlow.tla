---------------------------- MODULE MCEventFlow -----------------------------
EXTENDS EventFlowProps
=============================================================================
