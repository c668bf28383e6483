-------------------------- MODULE MCChairDecisions --------------------------
\* A venue of four seats, a motion and a resolution that three of them see.
EXTENDS ChairDecisions

CONSTANTS a, b, c, d, motion, resolution, core, free, ended, i1, i2, i3

MCSeat == {a, b, c, d}
MCScope == [p \in {motion, resolution} |->
              IF p = motion THEN MCSeat ELSE {a, b, c}]
MCTarget == [m \in {motion} |-> free]
MCPhase == {core, free, ended}
MCOpening == <<i1, i2>>

Box(for, against, abstained, mode) ==
  [for |-> for, against |-> against, abstained |-> abstained, mode |-> mode]

\* A tie, a majority that abstentions would undo, two thirds, none for or
\* against, and a ballot of somebody who may not see the resolution.
MCPoll == {Box({a}, {b}, {}, "simple_majority"),
           Box({a}, {}, {b, c}, "simple_majority"),
           Box({a, b}, {c}, {}, "two_thirds"),
           Box({}, {}, {a}, "unanimous"),
           Box({d}, {}, {}, "unanimous")}
=============================================================================
