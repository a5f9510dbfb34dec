---------------------------- MODULE MCAgentLoop ----------------------------
(* Small instances of AgentLoop: every intent, every kind of type check and *)
(* every way to approve a plan, but not every combination of them.          *)
EXTENDS AgentLoop

Asks(intent, checker) ==
  [intent |-> intent, checker |-> checker, complex |-> FALSE, approved |-> FALSE]
Plans(approved) ==
  [intent |-> "long_task", checker |-> "tsc", complex |-> TRUE, approved |-> approved]

Asked    == {Asks("readonly", "tsc"), Asks("narrow_edit", "lsp"), Asks("narrow_edit", "none"),
             Asks("long_task", "tsc")}
Planned  == {Plans(FALSE), Plans(TRUE)}
AllKinds == Asked \cup Planned
=============================================================================
