----------------------------- MODULE MCFileStore -----------------------------
\* Two representatives of different venues, each with a file; the name of one of
\* the files has a "+".
EXTENDS FileStore

CONSTANTS a, b, u, v, plan, plus

MCVenueOf == [r \in Rep |-> IF r = a THEN u ELSE v]
MCInUse == {<<a, plan>>, <<b, plus>>}

MCSymmetry == Permutations(Content) \cup Permutations(About)
=============================================================================
