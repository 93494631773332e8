------------------------- MODULE MCSessionLifecycle -------------------------
EXTENDS SessionLifecycle, TLC

\* Sessions and names are interchangeable; objects are not (NewObject chooses).
MCSymmetry == Permutations(Ids) \cup Permutations(Slugs)
=============================================================================
