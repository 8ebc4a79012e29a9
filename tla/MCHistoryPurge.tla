--------------------------- MODULE MCHistoryPurge ---------------------------
\* The policy that removes tasks by their age.
EXTENDS HistoryPurge

OlderPolicy == {[name |-> "older", value |-> 1]}
=============================================================================
