----------------------------- MODULE MCChildStdio -----------------------------
EXTENDS ChildStdio

MCChild == 1..2
MCNumbers == {0, 3}

\* standard input and error and one more file; standard output is closed, so
\* that pipes are made in slots, and 0 is passed for other slots too
MCStart == [fd \in Fd |-> IF fd \in {0, 2, 3} THEN File(fd) ELSE Closed]
=============================================================================
