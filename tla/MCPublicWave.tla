----------------------------- MODULE MCPublicWave -----------------------------
\* Two representatives, who may answer each other.
EXTENDS PublicWave

CONSTANTS a, b
=============================================================================
