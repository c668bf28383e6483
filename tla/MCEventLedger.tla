---------------------------- MODULE MCEventLedger ----------------------------
(* Small instances of EventLedger.                                         *)
EXTENDS EventLedger, TLC

CONSTANTS a, b, paper, vote

\* A paper submitted to the DM or the chair, and a vote.
PaperAndVote == (paper :> {"instruction", "resolution"}) @@ (vote :> {"vote"})

\* With the seat in the chair and without it.
WithAndWithout == {{b}, {a, b}}

OneVoter == {{a}, {b}}
=============================================================================
