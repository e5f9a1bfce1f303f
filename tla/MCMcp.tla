---- MODULE MCMcp ----
EXTENDS Mcp
====
