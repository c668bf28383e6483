---------------------------- MODULE MCMeetingRun ----------------------------
(* Small instances of MeetingRun.                                          *)
EXTENDS MeetingRun, TLC

CONSTANTS v1, v2, a1, a2

\* Nothing tells two venues, or two agents, apart.
MCSymmetry == Permutations(Venue) \cup Permutations(Agent)
=============================================================================
