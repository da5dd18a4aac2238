----------------------------- MODULE MCProcedures -----------------------------
EXTENDS Procedures
MCMethods == DOMAIN Calls
=============================================================================
