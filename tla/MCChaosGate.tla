----------------------------- MODULE MCChaosGate -----------------------------
EXTENDS ChaosGate
=============================================================================
