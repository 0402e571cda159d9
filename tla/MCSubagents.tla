---------------------------- MODULE MCSubagents ----------------------------
EXTENDS Subagents
=============================================================================
