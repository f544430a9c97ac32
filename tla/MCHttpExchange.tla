---- MODULE MCHttpExchange ----
EXTENDS HttpExchange

MCOriginal == <<1>>
MCRegenerated == <<2, 3>>
====
