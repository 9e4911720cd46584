---------------------------- MODULE MCFilterStore ----------------------------
\* Two saves and a connection, or three saves and none.
EXTENDS FilterStore

MCBounds == {[managers |-> Managers, edits |-> 2], [managers |-> {}, edits |-> 3]}
=============================================================================
