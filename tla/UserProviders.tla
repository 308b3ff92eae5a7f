---------------------------- MODULE UserProviders ----------------------------
(***************************************************************************)
(* A provider that a user registers: one slug of one account, its row in   *)
(* user_providers, and the requests of the portal that add, change, delete *)
(* and probe it, overlapping as they come.                                 *)
(*                                                                         *)
(* A request reads the row in one step and writes it in another, its       *)
(* commit, which sets the columns it gave a value other than the one it    *)
(* read.  A probe calls the provider in between.  Name and description are *)
(* left out, and of the time of a probe only that there was one.           *)
(***************************************************************************)
EXTENDS Integers, SequencesExt

CONSTANTS
  Calls,      \* the requests, each once
  Urls,       \* addresses that the guardrails accept
  Keys,       \* the provider's keys
  Names,      \* names of models
  Claudes,    \* those that begin with "claude"
  Preset,     \* the recommended models of an address, or none
  Anthropics, \* those of the first preset of the protocol anthropic
  Listings,   \* what a provider's list of models may contain
  Together    \* the columns that one change may give values to

\* The lists of models, those in the code and those that providers answer with.
ASSUME ListsAssumption ==
  /\ "default" \in Names
  /\ Preset \in [Urls -> Seq(Names)]
  /\ Anthropics \in Seq(Names)
  /\ Listings \subseteq Seq(Names)

Protocols == {"openai", "anthropic"}
Target == [protocol : Protocols, url : Urls, key : Keys]
Probe == [at : BOOLEAN, ok : {"none", "yes", "no"}, model : Names \cup {"none"},
          detail : {"none", "failed", "unlisted"}, detected : Seq(Names)]
Unprobed == [at |-> FALSE, ok |-> "none", model |-> "none", detail |-> "none", detected |-> << >>]
Columns == DOMAIN Unprobed

VARIABLES
  status,    \* of the row: none until it is added
  target,    \* its columns protocol, base_url and secret_ref
  probe,     \* its columns last_probe_* and last_detected_models_json
  stage,     \* how far each request is
  call,      \* what it does
  seen,      \* the row as it has read it
  crossed,   \* history: the requests since whose reading another one has written
  torn,      \* history: whether the last one to write the probe was among them
  of         \* history: the target whose probe gave each column of probe its value

userVars == <<status, target, probe, stage, call, seen, crossed, torn, of>>

Row == [status |-> status, target |-> target, probe |-> probe]

\* Where there is no row, and what a request keeps that needs it no more.
Nowhere == CHOOSE t \in Target : TRUE
Unseen == [status |-> "none", target |-> Nowhere, probe |-> Unprobed]

-----------------------------------------------------------------------------
(* What a provider is known to serve. *)

\* The elements of a list that are in a set, in their order.  Not SelectSeq, which the
\* proofs could not expand.
Only(s, T) ==
  LET upTo[i \in 0 .. Len(s)] ==
        IF i = 0 THEN << >>
        ELSE IF s[i] \in T THEN Append(upTo[i - 1], s[i]) ELSE upTo[i - 1]
  IN upTo[Len(s)]

RecommendedUpstreamModels(t) ==
  IF Preset[t.url] # << >> THEN Preset[t.url]
  ELSE IF t.protocol = "anthropic" THEN Anthropics ELSE <<"default">>

\* With its models, tried in turn until one answers.
RunProviderProbe(t, listing, answers) ==
  LET detected == IF t.protocol = "anthropic" THEN Only(listing, Claudes) ELSE listing
      candidates == IF detected = << >> THEN RecommendedUpstreamModels(t) ELSE detected
      good == Only(candidates, answers)
      ok == good # << >>
  IN [ at |-> TRUE, ok |-> IF ok THEN "yes" ELSE "no",
       model |-> IF ok THEN Head(good) ELSE "none",
       detail |-> IF ok THEN "none" ELSE IF candidates = << >> THEN "unlisted" ELSE "failed",
       detected |-> detected ]

\* Mutant: the preferred model is added to the list at its end, not at its head.
PreferredLast(models, m) == Append(Only(models, ToSet(models) \ {m}), m)

PreferredFirst(models, m) == <<m>> \o Only(models, ToSet(models) \ {m})

ResolvedCustomProviderModels(t, p) ==
  LET models == IF p.detected = << >> THEN RecommendedUpstreamModels(t) ELSE p.detected
  IN IF p.model \in ToSet(models) THEN PreferredFirst(models, p.model) ELSE models

\* The part of the list of models that this row contributes.
ListUserCustomModels ==
  IF status = "active" THEN ResolvedCustomProviderModels(target, probe) ELSE << >>

-----------------------------------------------------------------------------
(* Requests.  A payload gives each column of the target a value or none.   *)

Absent == "none"
Payload == [protocol : Protocols \cup {Absent}, url : Urls \cup {Absent}, key : Keys \cup {Absent}]

Does(what) == [does |-> what]
Adds == {[does |-> "add", target |-> t] : t \in Target}
Supplied(p) == {c \in DOMAIN p : p[c] # Absent}
Patches == {[does |-> "patch", payload |-> p] : p \in {q \in Payload : Supplied(q) \in Together}}
NoOp == Does("nothing")

UserInit ==
  /\ status \in {"none", "active"}
  /\ target \in Target
  /\ status = "none" => target = Nowhere
  /\ probe = Unprobed
  /\ stage = [j \in Calls |-> "idle"]
  /\ call = [j \in Calls |-> NoOp]
  /\ seen = [j \in Calls |-> Unseen]
  /\ crossed = {} /\ torn = FALSE
  /\ of = [c \in Columns |-> target]

\* A request reads the row, if it is there in one of the statuses it looks for, or only
\* if it is not.
Reads(j, o, found) ==
  /\ stage[j] = "idle"
  /\ IF found
     THEN /\ call' = [call EXCEPT ![j] = o]
          /\ seen' = [seen EXCEPT ![j] = Row]
          /\ stage' = [stage EXCEPT ![j] = "loaded"]
     ELSE /\ stage' = [stage EXCEPT ![j] = "done"]
          /\ UNCHANGED <<call, seen>>
  /\ UNCHANGED <<status, target, probe, crossed, torn, of>>

ReadToAdd(j) == \E o \in Adds : Reads(j, o, status # "active")
ReadToPatch(j) == \E o \in Patches : Reads(j, o, status = "active")
ReadToDelete(j) == Reads(j, Does("delete"), status # "none")
ReadToProbe(j) == Reads(j, Does("probe"), status = "active")

-----------------------------------------------------------------------------
(* Commits. *)

Doing(j, what) == stage[j] = "loaded" /\ call[j].does = what

\* A column keeps its value unless the request gave it another than it has read.
Set(now, read, to) == [c \in DOMAIN now |-> IF to[c] = read[c] THEN now[c] ELSE to[c]]

Ends(j) ==
  /\ stage' = [stage EXCEPT ![j] = "done"]
  /\ call' = [call EXCEPT ![j] = NoOp]
  /\ seen' = [seen EXCEPT ![j] = Unseen]

\* The target or the probe is written: whoever has read the row before has not seen it.
Crosses(j) ==
  /\ crossed' = (crossed \cup {k \in Calls : stage[k] = "loaded"}) \ {j}
  /\ torn' = (j \in crossed)

NoCrossing(j) == crossed' = crossed \ {j} /\ UNCHANGED torn

\* The row is inserted.  Another row of this slug, deleted or quicker, fails the request.
Add(j) ==
  /\ Doing(j, "add")
  /\ IF status = "none"
     THEN /\ status' = "active"
          /\ target' = call[j].target
          /\ probe' = Unprobed
          /\ of' = [c \in Columns |-> call[j].target]
     ELSE UNCHANGED <<status, target, probe, of>>
  /\ Ends(j)
  /\ NoCrossing(j)

\* Mutant: a new key does not invalidate the probe.
InvalidatesExceptKey(read, p) ==
  \/ p.protocol \notin {Absent, read.protocol}
  \/ p.url \notin {Absent, read.url}

\* Whether the change makes what was probed void.  A key does, even the one it was.
ProbeInvalidated(read, p) ==
  \/ p.protocol \notin {Absent, read.protocol}
  \/ p.url \notin {Absent, read.url}
  \/ p.key # Absent

Patch(j) ==
  /\ Doing(j, "patch")
  /\ LET p == call[j].payload
         read == seen[j].target
         void == ProbeInvalidated(read, p)
         wanted == [c \in DOMAIN p |-> IF p[c] = Absent THEN read[c] ELSE p[c]]
         written == Set(target, read, wanted)
     IN /\ target' = IF p.key = Absent THEN written ELSE [written EXCEPT !.key = p.key]
        /\ IF void THEN probe' = Set(probe, seen[j].probe, Unprobed) /\ Crosses(j)
                   ELSE UNCHANGED probe /\ NoCrossing(j)
  /\ Ends(j)
  /\ UNCHANGED <<status, of>>

Delete(j) ==
  /\ Doing(j, "delete")
  /\ status' = IF seen[j].status = "deleted" THEN status ELSE "deleted"
  /\ Ends(j)
  /\ NoCrossing(j)
  /\ UNCHANGED <<target, probe, of>>

\* The provider has been asked, at the address and with the key that were read, and the
\* answers are written.
ApplyProbeResult(j, result) ==
  /\ probe' = [Set(probe, seen[j].probe, result) EXCEPT !.at = TRUE]
  /\ of' = [c \in Columns |-> IF probe'[c] = result[c] THEN seen[j].target ELSE of[c]]
  /\ Crosses(j)
  /\ Ends(j)
  /\ UNCHANGED <<status, target>>

ProbeExistingUserProvider(j) ==
  /\ Doing(j, "probe")
  /\ \E listing \in Listings, answers \in SUBSET Names :
       ApplyProbeResult(j, RunProviderProbe(seen[j].target, listing, answers))

UserNext ==
  \E j \in Calls :
    \/ ReadToAdd(j) \/ ReadToPatch(j) \/ ReadToDelete(j) \/ ReadToProbe(j)
    \/ Add(j) \/ Patch(j) \/ Delete(j) \/ ProbeExistingUserProvider(j)

UserSpec == UserInit /\ [][UserNext]_userVars

-----------------------------------------------------------------------------
(* Properties. *)

ProvidersTypeOK ==
  /\ status \in {"none", "active", "deleted"}
  /\ target \in Target /\ probe \in Probe
  /\ stage \in [Calls -> {"idle", "loaded", "done"}]
  /\ call \in [Calls -> Adds \cup Patches \cup {Does(w) : w \in {"delete", "probe", "nothing"}}]
  /\ seen \in [Calls -> [status : {"none", "active", "deleted"}, target : Target, probe : Probe]]
  /\ crossed \subseteq Calls /\ torn \in BOOLEAN
  /\ of \in [Columns -> Target]

\* What the row says of its last probe was answered by the address, in the protocol and
\* to the key that the row shows beside it: unless the request that wrote it last had
\* been overtaken by another between its reading and its commit.
ProbeIsOfTarget == \A c \in Columns : (probe[c] # Unprobed[c] /\ ~torn) => of[c] = target

\* Then the list of models, too, is led by the model that answered the probe, which is
\* the only one known to work.
LedByProbed ==
  (status = "active" /\ probe.ok = "yes" /\ ~torn) => Head(ListUserCustomModels) = probe.model
=============================================================================
