-------------------------- MODULE MCProviderCatalog --------------------------
(* Values of the constants of ProviderCatalog for TLC. *)
EXTENDS ProviderCatalog, TLC

CONSTANTS j1, j2, j3

MCJobs == {j1, j2, j3}
Symmetry == Permutations(MCJobs)

\* Two models of a provider that the code knows, one of them not supported, and another
\* provider that exposes only its default.
MCKnown == [p \in {"codex", "other"} |-> IF p = "codex" THEN {"mini", "max"} ELSE {}]
MCUnsupported == {<<"codex", "max">>}
MCSnapshots == {<<"codex", "mini">>}
MCChosen == {<<"alias">>, <<"codex", "max">>}
MCGrants == {{}, {<<"codex", "mini">>, Hermes}}

\* Nothing; nothing but an old price that its provider left behind; and rows of both
\* providers: codex with a model that was not supported, one that an administrator has
\* renamed and disabled, and an old price.
Fresh ==
  [provider |-> [p \in {"codex", "other"} |-> None],
   model |-> [p \in {"codex", "other"} |-> [m \in {"mini", "max"} |-> None]],
   price |-> [p \in {"codex", "other"} |-> [m \in {"mini", "max"} |-> "none"]]]
Orphaned == [Fresh EXCEPT !.price["codex"]["mini"] = "orphan"]
Old ==
  [provider |-> [p \in {"codex", "other"} |-> ProviderRow("max", TRUE)],
   model |-> [p \in {"codex", "other"} |->
     [m \in {"mini", "max"} |->
        IF p = "codex" THEN IF m = "mini" THEN ModelRow(<<"codex", "mini">>, FALSE, FALSE)
                                          ELSE ModelRow(<<"alias">>, TRUE, TRUE)
        ELSE IF m = "max" THEN ModelRow(<<"other", "max">>, TRUE, FALSE) ELSE None]],
   price |-> [p \in {"codex", "other"} |->
     [m \in {"mini", "max"} |-> IF <<p, m>> \in MCSnapshots THEN "old" ELSE "none"]]]
MCOlder == {Fresh, Orphaned, Old}
=============================================================================
