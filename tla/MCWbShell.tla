---- MODULE MCWbShell ----
EXTENDS WbShell

====
