---- MODULE MCProjectProvisioning ----
EXTENDS ProjectProvisioning
====
