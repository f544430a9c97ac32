---- MODULE MCThreadSched ----
EXTENDS ThreadSched
====
