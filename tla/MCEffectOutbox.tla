--------------------------- MODULE MCEffectOutbox ----------------------------
\* Bounds for the outbox: see the configurations.
EXTENDS EffectOutbox, TLC

MCWorkers == {"effect-gateway"}
MCBackoff == <<1, 1>>
MCSymmetry == Permutations(Tasks)
=============================================================================
