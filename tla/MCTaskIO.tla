------------------------------ MODULE MCTaskIO ------------------------------
\* A log record, a piece of command output and the record of the end.
EXTENDS TaskIO

ShortScript == <<"log", "output">>
=============================================================================
