---- MODULE MCCvRing ----
EXTENDS CvRing

CONSTANTS c1, c2, c3

MCSignal == <<c1, c2, c3>>
====
