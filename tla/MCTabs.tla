-------------------------------- MODULE MCTabs --------------------------------
(* Two tabs of one browser.  One account with two workspaces, which it has from   *)
(* the beginning or still has to get, and the demo workspace with two roles.    *)
EXTENDS Tabs, TLC

MCMembers     == 1 .. 4
MCDemoMembers == {3, 4}
MCUserOf      == <<"u", "u", "demo staff", "demo owner">>
MCJoinsAs     == <<"OWNER", "STAFF", "STAFF", "OWNER">>
MCOrgOf       == <<"A", "B", "demo", "demo">>

Newcomer ==
  [registered |-> {}, role |-> <<Nil, Nil, Nil, Nil>>, cookie |-> Nil, member |-> Nil,
   left |-> [sessions |-> 2, changes |-> 1]]
Veteran ==
  [registered |-> {"u"}, role |-> <<"MANAGER", "STAFF", Nil, Nil>>, cookie |-> 1, member |-> 1,
   left |-> [sessions |-> 1, changes |-> 1]]
Visitor ==
  [registered |-> {"u"}, role |-> <<Nil, Nil, "STAFF", "OWNER">>, cookie |-> 1, member |-> 3,
   left |-> [sessions |-> 1, changes |-> 1]]
MCBeginnings == {Newcomer, Veteran, Visitor}

Symmetry == Permutations(Tabs) \cup Permutations(Requests)
=============================================================================
