------------------------------ MODULE MCScreens ------------------------------
(* Two pages, filters or records of each query and two commands: a command of   *)
(* one form and one of another, or one after the other, with a fetch of each    *)
(* view under way.                                                          *)
EXTENDS Screens, TLC

CONSTANTS v1, v2

MCViews == {v1, v2}
\* Nothing is ever due of a query that no command of its screen affects.
Touched == \E c \in Commands : screen.commands[c].writes \cap Reads[query] # {}
MCInit == Init /\ Touched
MCSpec == MCInit /\ [][Next]_vars
ViewsAlike == Permutations(MCViews)
=============================================================================
