---- MODULE MCThreadSync ----
EXTENDS ThreadSync
====
