------------------------- MODULE MCRobotCredentials -------------------------
EXTENDS RobotCredentials

\* Failures of every kind, and a Secret deleted twice, but nobody removes the robot.
MCFaults == [harbor |-> 2, api |-> 1, crash |-> 1, delete |-> 2, touch |-> 1, loss |-> 0]

\* Every kind of interference but crashes, which refresh the cache.
MCAll == [harbor |-> 1, api |-> 1, crash |-> 0, delete |-> 1, touch |-> 1, loss |-> 1]

\* Nobody interferes.
MCCalm == [d \in Disruptions |-> 0]
=============================================================================
