----------------------------- MODULE MCPlanning -----------------------------
(* Three runtimes, of which one may be named by the policy only; every order. *)
EXTENDS Planning

Orders == {p \in UNION {[1..n -> Identities] : n \in 1..3} : IsInjective(p)}

AllConfigs ==
  {[registered |-> set, connects |-> set \cap {"hermes"}, priority |-> order,
    degraded |-> degraded, required |-> required, children |-> 2] :
     set \in {{"hermes", "codex"}, {"codex", "local"}}, order \in Orders,
     degraded \in BOOLEAN, required \in BOOLEAN}

MCConfigs == {c \in AllConfigs : Head(c.priority) \in c.registered}

Prose(type, parallel, sequential, paths) ==
  [type |-> type, parallel |-> parallel, sequential |-> sequential, long |-> FALSE,
   paths |-> paths, subtasks |-> <<>>]

MCTasks ==
  {Prose("general", 0, FALSE, FALSE), Prose("general", 1, TRUE, TRUE),
   Prose("parallel_research", 0, FALSE, FALSE), Prose("code_fix", 1, FALSE, FALSE)} \cup
  {[Prose("code_review", 0, FALSE, FALSE) EXCEPT !.long = TRUE]} \cup
  {[Prose("general", 0, FALSE, FALSE) EXCEPT !.subtasks = subtasks] :
     subtasks \in {<<{}, {}>>, <<{}, {1}>>, <<{}, {}, {}>>}}

MCOffers ==
  {{}, {"filesystem_read", "web"},
   {"filesystem_read", "filesystem_write", "shell", "tests", "native_delegation", "native_kanban"}}
=============================================================================
