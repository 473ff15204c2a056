----------------------- MODULE MCStreamPlayScheduler -----------------------
\* A stream of an exclusive session, whose permit is 7, and two local files.
EXTENDS StreamPlayScheduler, TLC

CONSTANTS private, file1, file2

MCStreams == {private}
MCFiles == {file1, file2}
MCPermitOf == [s \in Sources |-> IF s = private THEN 7 ELSE Normal]

\* A file that was taken is played and deleted once no session is exclusive.  The
\* module tells the two files apart nowhere, so that what holds of one holds of
\* the other.
FileIsReleased == Released(file1)
=============================================================================
