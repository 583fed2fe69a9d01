------------------------- MODULE MC_DownloadManager -------------------------
EXTENDS DownloadManager, TLC

CONSTANTS u1, u2, p1, p2

FourWords == {u1, u2, p1, p2}
\* Two tasks whose url and filepath are one word each.
TwoLines == {[url |-> <<u1>>, filepath |-> <<p1>>],
             [url |-> <<u2>>, filepath |-> <<p2>>]}
\* A task with an empty filepath, and one whose filepath holds a space.
OddLines == {[url |-> <<u1>>, filepath |-> <<>>],
             [url |-> <<u2>>, filepath |-> <<p1, p2>>]}

=============================================================================
