----------------------------- MODULE MCEventBus -----------------------------
EXTENDS EventBus
CONSTANTS a, b, r1, r2, p1, p2
=============================================================================
