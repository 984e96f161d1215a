---------------------------- MODULE MCLinkTasks ----------------------------
EXTENDS LinkTasks

CONSTANTS u1, u2, n1, n2

Link(u, n) == [url |-> u, name |-> n]

\* A link given twice beside another, and two links of one file name.
MCLists == {<<Link(u1, n1), Link(u1, n1), Link(u2, n2)>>,
            <<Link(u1, n1), Link(u2, n1), Link(u2, n1)>>}
=============================================================================
