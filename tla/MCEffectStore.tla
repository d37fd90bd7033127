---------------------------- MODULE MCEffectStore ----------------------------
\* One effect, two workers and any caller.
EXTENDS EffectStore

MCWorkers == {"w1", "w2"}
=============================================================================
