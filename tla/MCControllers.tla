---- MODULE MCControllers ----
EXTENDS ControllerConvergence
CONSTANTS f1, f2
MCOrder == <<f1, f2>>
====
