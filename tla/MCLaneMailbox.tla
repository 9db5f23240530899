---------------------------- MODULE MCLaneMailbox ----------------------------
\* Instances of LaneMailbox with more messages than a boundary takes.
EXTENDS LaneMailbox
===============================================================================
