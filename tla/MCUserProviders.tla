--------------------------- MODULE MCUserProviders ---------------------------
(* Values of the constants of UserProviders for TLC. *)
EXTENDS UserProviders, TLC

CONSTANTS j1, j2, j3, j4

MCCalls == {j1, j2, j3, j4}
Symmetry == Permutations(MCCalls)

\* One address has a preset; the preset and the provider name the same models.
MCUrls == {"deepseek", "other"}
MCPreset == [u \in MCUrls |-> IF u = "deepseek" THEN <<"chat", "claude">> ELSE << >>]
MCAnthropics == <<"claude">>
MCNames == {"chat", "claude", "default"}
MCClaudes == {"claude"}
MCListings == {<< >>, <<"claude">>, <<"claude", "chat">>}
MCTogether == {{"protocol"}, {"url"}, {"key"}}
=============================================================================
