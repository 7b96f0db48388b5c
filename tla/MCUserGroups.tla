---------------------------- MODULE MCUserGroups ----------------------------
(* The commands on users and groups, and the files of the groups, which    *)
(* share no state here: a behaviour looks at one of them.                  *)
EXTENDS UserGroups, GroupFile

CONSTANTS t1, t2, u1, u2, nogroup, a, b, c

VARIABLE focus

MCTemplate == <<a, c>>
MCGroups   == <<a, b, c>>
MCStanding == {nogroup, a, c}

\* The second id is the last of its sub-table.
MCIds   == 0..2
MCItems == 1..3

MCInit == focus \in {"commands", "files"} /\ Init /\ GroupFileInit

MCNext ==
    /\ UNCHANGED focus
    /\ \/ focus = "commands" /\ Next /\ UNCHANGED groupfilevars
       \/ focus = "files" /\ GroupFileNext /\ UNCHANGED vars

MCSpec ==
    /\ MCInit /\ [][MCNext]_<<vars, groupfilevars, focus>>
    /\ \A t \in Threads : WF_vars(focus = "commands" /\ Step(t))
=============================================================================
