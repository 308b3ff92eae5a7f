--------------------------- MODULE MCChatCompletion ---------------------------
(* Values of the constants of ChatCompletion for TLC. *)
EXTENDS ChatCompletion

Ask(custom, stream, tools) ==
  [custom |-> custom, stream |-> stream, tools |-> tools, models |-> FALSE]

ListModels == [Ask(FALSE, FALSE, FALSE) EXCEPT !.models = TRUE]
Custom == {Ask(TRUE, s, FALSE) : s \in BOOLEAN}
Platform == {Ask(FALSE, s, t) : s \in BOOLEAN, t \in BOOLEAN}

MCAsks == <<Platform, Custom, {ListModels}>>
MCLimits ==
  <<[ticks |-> 1, most |-> 1], [ticks |-> 2, most |-> NoLimit], [ticks |-> 3, most |-> 2]>>
MCPlans == {<<"native", "acp", "acp", "cli">>, <<"http">>}
=============================================================================
