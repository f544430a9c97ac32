---- MODULE MCLinkedQueues ----
EXTENDS LinkedQueues
====
