--------------------------- MODULE MCVenueCommands ---------------------------
(* Small instances of VenueCommands.                                       *)
EXTENDS VenueCommands

CONSTANTS c1, c2, c3, e1

\* Two calls that submit the same Event object, and one more command.
TwoClaimants == {c1, c2}
ClaimedEvent == [c \in {c1, c2} |-> e1]
=============================================================================
