--------------------------- MODULE ProviderCatalog ---------------------------
(***************************************************************************)
(* The providers of the platform, the models each exposes and their        *)
(* prices: what an administrator sets by hand, what discovery and the      *)
(* pricing snapshots keep in step with the code's tables, and the list of  *)
(* models that accounts see and ask for.                                   *)
(*                                                                         *)
(* An administrator's request is a sequence of parts.  A part reads rows   *)
(* in one step and commits in another, where it writes the columns it gave *)
(* a value other than the one it read; a row that is gone by then, or in   *)
(* the way, fails the request.  A model id is <<provider, model>>, or <<a>>*)
(* for an id without a colon.                                              *)
(*                                                                         *)
(* A row of a model that was deleted and made again is another row, unless *)
(* the database gives it the same id again: SQLite may, if that was the    *)
(* largest.  That another model's row gets it is left out.                 *)
(***************************************************************************)
EXTENDS Sequences, FiniteSets

CONSTANTS
  Jobs,         \* requests, each once
  Providers,    \* names
  Models,       \* native models
  Known,        \* the models that the code knows of a provider, for some of them
  Unsupported,  \* pairs of a provider and a model that discovery disables
  Snapshots,    \* pairs of a provider and a model whose official price is known
  Chosen,       \* ids that an administrator may expose a model under
  Grants,       \* the allowed models that an administrator may put for the account
  Older         \* what an older version may have left of the first three variables

Hermes == <<"hermes", "agent">>   \* requires an administrator's grant
Gone == [at |-> "gone"]           \* a deleted provider, whose name is not used again
None == [at |-> "none"]           \* no row
Lost == [at |-> "lost"]           \* read, but another row is there now
ProviderRow(default, on) == [at |-> "row", default |-> default, on |-> on]
ModelRow(id, enabled, overridden) ==
  [at |-> "row", id |-> id, enabled |-> enabled, overridden |-> overridden]

Pairs == Providers \X Models
Ids == Chosen \cup Pairs
ProviderRows == [at : {"row"}, default : Models, on : BOOLEAN]
ModelRows == [at : {"row"}, id : Ids, enabled : BOOLEAN, overridden : BOOLEAN]
Prices == {"none", "old", "orphan", "official", "manual"}

\* The models with a known price are among those that the code knows.
ASSUME TablesAssumption ==
  /\ Known \in [Providers -> SUBSET Models]
  /\ \A pm \in Snapshots : pm[1] \in Providers => pm[2] \in Known[pm[1]]

\* An older version had other tables of models and prices, but not other code: a provider
\* that is not there has no models, and the models of those that the code does not know, as
\* far as nobody has touched them, are as a synchronisation makes them.  Prices do outlive
\* their provider, as a refresh may insert them after its deletion: an old price is called
\* an orphan when its provider is not there, and no startup brings it up to date.
ASSUME OlderAssumption ==
  \A d \in Older :
    /\ d.provider \in [Providers -> {None} \cup ProviderRows]
    /\ d.model \in [Providers -> [Models -> {None} \cup ModelRows]]
    /\ d.price \in [Providers -> [Models -> Prices]]
    /\ \A p \in Providers, m \in Models :
         /\ d.provider[p] = None => d.model[p][m] = None /\ d.price[p][m] # "old"
         /\ d.provider[p] # None => d.price[p][m] # "orphan"
         /\ Known[p] = {} /\ d.model[p][m] # None /\ ~d.model[p][m].overridden =>
              d.model[p][m] = ModelRow(<<p, m>>, <<p, m>> \notin Unsupported, FALSE)

VARIABLES
  provider,                 \* the row of each name: default is its exposed_model, on
                            \* whether http_enabled or cli_enabled
  model, price,             \* the row of each name and native model, the kind of its price
  mode, granted,            \* of an account: its access mode and its grants
  serving,                  \* whether the startup is over
  todo, op, copy,           \* the parts a request has left, what it does, what it has read
  reused                    \* history: whether a row has got the id of one that was deleted
                            \* while a request that had read it was under way

catalogVars == <<provider, model, price, mode, granted, serving, todo, op, copy, reused>>
rows == <<provider, model, price, mode, granted>>

-----------------------------------------------------------------------------
(* The list of models, and where a request for one of them goes. *)

Enabled(p) == {m \in Models : model[p][m] # None /\ model[p][m].enabled}
On(p) == provider[p].at = "row" /\ provider[p].on

\* A provider is listed by the rows of its enabled models, or without any by its default.
ListPublicModels ==
  UNION {IF Enabled(p) # {} THEN {model[p][m].id : m \in Enabled(p)}
                                ELSE {<<p, provider[p].default>>} : p \in {q \in Providers : On(q)}}

ListPlatformModels == ListPublicModels \cup {Hermes}

\* May the account use the model, as the list of models and as a completion decide it.
FilterPlatformModels(ids, admin) ==
  LET restricted == ids \cap {Hermes}
  IN {i \in ids \ restricted : mode # "allowlist" \/ i \in granted}
     \cup {i \in restricted : admin /\ i \in granted}

CanAccessPlatformModel(i, admin) ==
  IF i = Hermes THEN admin /\ i \in granted ELSE mode # "allowlist" \/ i \in granted

\* Mutant: a row counts also when its provider is off.
MappedAnywhere(i) == {pm \in Pairs : pm[2] \in Enabled(pm[1]) /\ model[pm[1]][pm[2]].id = i}

Mapped(i) ==
  {pm \in Pairs : On(pm[1]) /\ pm[2] \in Enabled(pm[1]) /\ model[pm[1]][pm[2]].id = i}

\* The provider and native model for an id: those of the first enabled row that exposes
\* it, any of them here, or else those that the id spells, enabled or not.
Resolve(i) ==
  IF Mapped(i) # {} THEN Mapped(i)
  ELSE IF Len(i) = 2 /\ i[1] \in Providers /\ provider[i[1]].at = "row" THEN {i} ELSE {}

-----------------------------------------------------------------------------
(* Synchronising. *)

\* Mutant: every column is written, as it was read when the request leaves it.
WrittenWhole(now, read, to) == to

\* A column keeps its value unless the request gave it another than it has read.
Written(now, read, to) == IF to = read THEN now ELSE to

WrittenRow(now, read, to) ==
  [c \in DOMAIN to |-> IF now = None THEN to[c] ELSE Written(now[c], read[c], to[c])]

Discovered(p, record) == IF Known[p] # {} THEN Known[p] ELSE {record.default}

\* What a row read is to become.
Synced(p, m, read) ==
  IF read = None THEN ModelRow(<<p, m>>, <<p, m>> \notin Unsupported, FALSE)
  ELSE [read EXCEPT
          !.enabled = <<p, m>> \notin Unsupported /\ (@ \/ ~read.overridden),
          !.id = IF read.overridden THEN @ ELSE <<p, m>>]

SyncProviderModels(p, record, read, now) ==
  [m \in Models |-> IF m \in Discovered(p, record)
                    THEN WrittenRow(now[m], read[m], Synced(p, m, read[m])) ELSE now[m]]

SyncProviderPricing(p, read, now) ==
  [m \in Models |-> IF <<p, m>> \in Snapshots /\ read[m] # "manual"
                    THEN Written(now[m], read[m], "official") ELSE now[m]]

\* A row was read that is gone, or one is there where none was read.
Conflict(ms, read, now, none) == \E m \in ms : (read[m] = none) # (now[m] = none)

-----------------------------------------------------------------------------
(* What requests do: parts that synchronise, or one that edits. *)

Request(does, p, m, gives) == [does |-> does, p |-> p, m |-> m, gives |-> gives]
Every == "every"
Nothing == << >>   \* no column

CreateProvider ==
  {Request("createProvider", p, Every, ProviderRow(d, TRUE)) :
     p \in Providers, d \in Models}
UpdateProvider ==
  {Request("updateProvider", p, Every, g) : p \in Providers,
     g \in [on : BOOLEAN] \cup [default : Models]}
DeleteProvider == {Request("deleteProvider", p, Every, Nothing) : p \in Providers}
RediscoverProviderModels == {Request("rediscover", p, Every, Nothing) : p \in Providers}
RefreshProviderPricing == {Request("refresh", p, Every, Nothing) : p \in Providers}
PatchProviderModel ==
  {Request("patchModel", pm[1], pm[2], g) : pm \in Pairs,
     g \in [enabled : BOOLEAN] \cup [id : Chosen]}
CreateProviderModel ==
  {Request("createModel", pm[1], pm[2], ModelRow(i, TRUE, TRUE)) : pm \in Pairs, i \in Chosen}
DeleteProviderModel == {Request("deleteModel", pm[1], pm[2], Nothing) : pm \in Pairs}
PatchProviderModelPricing == {Request("patchPrice", pm[1], pm[2], Nothing) : pm \in Pairs}
UpdateAccountModelAccess ==
  {Request("putAccess", Every, Every, [mode |-> a, grants |-> g]) :
     a \in {"all", "allowlist"}, g \in Grants}

OfProvider ==
  UNION {UpdateProvider, DeleteProvider, RediscoverProviderModels, RefreshProviderPricing,
         PatchProviderModel, CreateProviderModel, DeleteProviderModel}
AdminRequests == UNION {CreateProvider, OfProvider, PatchProviderModelPricing, UpdateAccountModelAccess}
NoRequest == Request("none", Every, Every, Nothing)

Parts(r) ==
  CASE r.does = "createProvider" -> <<"models", "prices">>
    [] r.does = "rediscover" -> <<"prices", "models">>
    [] r.does = "refresh" -> <<"prices">>
    [] OTHER -> <<"edit">>
Unread == [record |-> None, models |-> << >>, prices |-> << >>, mode |-> Every]
Blind == {"updateProvider", "createModel"}   \* edits that read no more rows

CatalogInit ==
  /\ \E d \in Older : provider = d.provider /\ model = d.model /\ price = d.price
  /\ mode = "all" /\ granted = {}
  /\ serving = FALSE
  /\ todo = [j \in Jobs |-> << >>]
  /\ op = [j \in Jobs |-> NoRequest]
  /\ copy = [j \in Jobs |-> Unread]
  /\ reused = FALSE

\* Before any request: the providers that the code knows models of.
Startup ==
  /\ ~serving /\ serving' = TRUE
  /\ LET known == {p \in Providers : Known[p] # {} /\ provider[p] # None}
     IN /\ model' = [p \in Providers |->
                       IF p \in known THEN SyncProviderModels(p, provider[p], model[p], model[p])
                                      ELSE model[p]]
        /\ price' = [p \in Providers |->
                       IF p \in known THEN SyncProviderPricing(p, price[p], price[p]) ELSE price[p]]
  /\ UNCHANGED <<provider, mode, granted, todo, op, copy, reused>>

-----------------------------------------------------------------------------
(* Requests begin, and read. *)

Begins(j, r, read) ==
  /\ serving /\ op[j].does = "none"
  /\ op' = [op EXCEPT ![j] = r]
  /\ todo' = [todo EXCEPT ![j] = Parts(r)]
  /\ copy' = [copy EXCEPT ![j] = read]
  /\ UNCHANGED <<serving, reused>>

Record(row) == [Unread EXCEPT !.record = row]

\* The provider is added, unless its name is taken, and committed before its models are.
AddProvider(j) ==
  \E r \in CreateProvider :
    /\ provider[r.p] = None
    /\ provider' = [provider EXCEPT ![r.p] = r.gives]
    /\ Begins(j, r, Record(r.gives))
    /\ UNCHANGED <<model, price, mode, granted>>

\* The other requests on a provider first look for it.
FindProvider(j) ==
  \E r \in OfProvider :
    /\ provider[r.p].at = "row"
    /\ Begins(j, r, Record(provider[r.p]))
    /\ UNCHANGED rows

BeginPrice(j) == \E r \in PatchProviderModelPricing : Begins(j, r, Unread) /\ UNCHANGED rows

\* The account is read first.
BeginAccess(j) ==
  \E r \in UpdateAccountModelAccess :
    /\ Begins(j, r, [Unread EXCEPT !.mode = mode])
    /\ UNCHANGED rows

Left(j) == todo[j] # << >>
Reading(j) == Left(j) /\ DOMAIN copy[j].models = {} /\ op[j].does \notin Blind

\* The rows of models and prices that the next part works on.
Read(j) ==
  /\ Reading(j) /\ op[j].does # "putAccess"
  /\ copy' = [copy EXCEPT ![j].models = model[op[j].p], ![j].prices = price[op[j].p]]
  /\ UNCHANGED <<rows, serving, todo, op, reused>>

-----------------------------------------------------------------------------
(* Commits.  A part that fails fails the request, whose earlier parts stay. *)

Now(j, part) == Left(j) /\ Head(todo[j]) = part /\ ~Reading(j)

Over(j, ok) == ~ok \/ Len(todo[j]) = 1
Continues(j, ok) == IF Over(j, ok) THEN Unread ELSE Record(copy[j].record)

Advances(j, ok) ==
  /\ todo' = [todo EXCEPT ![j] = IF Over(j, ok) THEN << >> ELSE Tail(@)]
  /\ op' = [op EXCEPT ![j] = IF Over(j, ok) THEN Request("done", Every, Every, Nothing) ELSE @]
  /\ UNCHANGED serving

Goes(j, ok) ==
  /\ Advances(j, ok)
  /\ copy' = [copy EXCEPT ![j] = Continues(j, ok)]
  /\ UNCHANGED reused

\* The others that have read a row of one of these models.
Readers(j, p, ms) ==
  {k \in Jobs \ {j} : op[k].p = p /\ \E m \in ms \cap DOMAIN copy[k].models : copy[k].models[m].at = "row"}

Replace(read, ms) == [m \in DOMAIN read |-> IF m \in ms /\ read[m] # None THEN Lost ELSE read[m]]

\* The same, where rows of these models have been made.
GoesMaking(j, ok, p, ms) ==
  /\ Advances(j, ok)
  /\ \E again \in BOOLEAN :
       /\ reused' = (reused \/ (again /\ Readers(j, p, ms) # {}))
       /\ copy' = [k \in Jobs |->
            IF k = j THEN Continues(j, ok)
            ELSE IF k \in Readers(j, p, ms) /\ ~again
                 THEN [copy[k] EXCEPT !.models = Replace(@, ms)] ELSE copy[k]]

SyncModels(j) ==
  /\ Now(j, "models")
  /\ LET p == op[j].p
         record == copy[j].record
         read == copy[j].models
         ms == Discovered(p, record)
         ok == /\ provider[p] # Gone /\ ~Conflict(ms, read, model[p], None)
               /\ \A m \in ms : read[m] # Lost
     IN /\ model' = IF ok THEN [model EXCEPT ![p] = SyncProviderModels(p, record, read, @)]
                          ELSE model
        /\ GoesMaking(j, ok, p, IF ok THEN {m \in ms : read[m] = None} ELSE {})
  /\ UNCHANGED <<provider, price, mode, granted>>

SyncPrices(j) ==
  /\ Now(j, "prices")
  /\ LET p == op[j].p
         synced == {m \in Models : <<p, m>> \in Snapshots /\ copy[j].prices[m] # "manual"}
         ok == ~Conflict(synced, copy[j].prices, price[p], "none")
     IN /\ price' = IF ok THEN [price EXCEPT ![p] = SyncProviderPricing(p, copy[j].prices, @)]
                          ELSE price
        /\ Goes(j, ok)
  /\ UNCHANGED <<provider, model, mode, granted>>

Edits(j, does) == Now(j, "edit") /\ op[j].does = does

\* The columns of a row that the request gives values.
Given(row, gives) == 
  [c \in DOMAIN row |-> IF c \in DOMAIN gives THEN gives[c] ELSE row[c]]

CommitProvider(j) ==
  /\ Edits(j, "updateProvider")
  /\ LET p == op[j].p
         read == copy[j].record
     IN provider' = IF provider[p] = Gone THEN provider
                    ELSE [provider EXCEPT ![p] = WrittenRow(@, read, Given(read, op[j].gives))]
  /\ Goes(j, TRUE)
  /\ UNCHANGED <<model, price, mode, granted>>

\* The rows that were read go with the provider; a model added since keeps it.
CommitDeletion(j) ==
  /\ Edits(j, "deleteProvider")
  /\ LET p == op[j].p
         ok == provider[p] # Gone /\ \A m \in Models : copy[j].models[m].at # "row" => model[p][m] = None
     IN IF ok
        THEN /\ provider' = [provider EXCEPT ![p] = Gone]
             /\ model' = [model EXCEPT ![p] = [m \in Models |-> None]]
             /\ price' = [price EXCEPT ![p] =
                  [m \in Models |-> IF copy[j].prices[m] = "none" THEN @[m] ELSE "none"]]
        ELSE UNCHANGED <<provider, model, price>>
  /\ Goes(j, TRUE)
  /\ UNCHANGED <<mode, granted>>

\* A model that is renamed, enabled or disabled by hand is overridden from then on.
CommitModel(j) ==
  /\ Edits(j, "patchModel")
  /\ LET p == op[j].p
         m == op[j].m
         read == copy[j].models[m]
     IN model' = IF read.at # "row" \/ model[p][m] = None THEN model
                 ELSE [model EXCEPT ![p][m] =
                         WrittenRow(@, read, [Given(read, op[j].gives) EXCEPT !.overridden = TRUE])]
  /\ Goes(j, TRUE)
  /\ UNCHANGED <<provider, price, mode, granted>>

CommitNewModel(j) ==
  /\ Edits(j, "createModel")
  /\ LET p == op[j].p
         m == op[j].m
         ok == provider[p] # Gone /\ model[p][m] = None
     IN /\ model' = IF ok THEN [model EXCEPT ![p][m] = op[j].gives] ELSE model
        /\ GoesMaking(j, TRUE, p, IF ok THEN {m} ELSE {})
  /\ UNCHANGED <<provider, price, mode, granted>>

\* Its price stays.
CommitModelDeletion(j) ==
  /\ Edits(j, "deleteModel")
  /\ LET m == op[j].m
     IN model' = IF copy[j].models[m].at # "row" THEN model ELSE [model EXCEPT ![op[j].p][m] = None]
  /\ Goes(j, TRUE)
  /\ UNCHANGED <<provider, price, mode, granted>>

CommitPrice(j) ==
  /\ Edits(j, "patchPrice")
  /\ LET p == op[j].p
         m == op[j].m
     IN price' = IF Conflict({m}, copy[j].prices, price[p], "none") THEN price
                 ELSE [price EXCEPT ![p][m] = "manual"]
  /\ Goes(j, TRUE)
  /\ UNCHANGED <<provider, model, mode, granted>>

\* The models that are allowed must be on the platform's list.
Replaced(g) == IF g.mode = "allowlist" THEN g.grants ELSE g.grants \cap {Hermes}

CheckAccess(j) ==
  /\ Reading(j) /\ op[j].does = "putAccess"
  /\ IF Replaced(op[j].gives) \subseteq ListPlatformModels
     THEN /\ copy' = [copy EXCEPT ![j].models = <<None>>]
          /\ UNCHANGED <<serving, todo, op, reused>>
     ELSE Goes(j, FALSE)
  /\ UNCHANGED rows

\* The grants are replaced, the mode is set if it was another.
CommitAccess(j) ==
  /\ Edits(j, "putAccess")
  /\ LET g == op[j].gives
     IN /\ mode' = Written(mode, copy[j].mode, g.mode)
        /\ granted' = Replaced(g)
  /\ Goes(j, TRUE)
  /\ UNCHANGED <<provider, model, price>>

CatalogNext ==
  \/ Startup
  \/ \E j \in Jobs :
       \/ AddProvider(j) \/ FindProvider(j) \/ BeginPrice(j) \/ BeginAccess(j) \/ Read(j)
       \/ SyncModels(j) \/ SyncPrices(j) \/ CheckAccess(j)
       \/ CommitProvider(j) \/ CommitDeletion(j) \/ CommitModel(j) \/ CommitNewModel(j)
       \/ CommitModelDeletion(j) \/ CommitPrice(j) \/ CommitAccess(j)

CatalogSpec == CatalogInit /\ [][CatalogNext]_catalogVars

-----------------------------------------------------------------------------
(* Properties. *)

\* What a synchronisation may make of what was set by hand: nothing, or a disabled model.
Kept(p, m) ==
  /\ model[p][m] # None /\ model[p][m].overridden =>
       model'[p][m] \in {model[p][m], [model[p][m] EXCEPT !.enabled = <<p, m>> \notin Unsupported /\ @]}
  /\ price[p][m] = "manual" => price'[p][m] = "manual"

\* The request has read an old price that was without its provider at the startup.
OrphanRead(j, p, m) == op[j].p = p /\ copy[j].prices[m] = "orphan"

\* No synchronisation undoes what an administrator has set by hand, not even one that
\* had read the rows before: except that it disables a model that is not supported, that it
\* took one row for another with its id, or that it had read an orphan, which it brings up
\* to date also when the price has been set by hand in the meantime.
OverridesStay ==
  [][~reused => \A p \in Providers, m \in Models :
       /\ Startup \/ (\E j \in Jobs : SyncModels(j)) => Kept(p, m)
       /\ \A j \in Jobs : SyncPrices(j) /\ ~OrphanRead(j, p, m) => Kept(p, m)]_catalogVars

\* What an account is shown, it may use, and a completion for it goes to a provider that
\* is on, and to a model that is enabled or is the default of a provider with none.
ListedIsServed ==
  \A admin \in BOOLEAN : \A i \in FilterPlatformModels(ListPlatformModels, admin) :
    /\ CanAccessPlatformModel(i, admin)
    /\ i # Hermes =>
         /\ Resolve(i) # {}
         /\ \A pm \in Resolve(i) :
              On(pm[1]) /\ (pm[2] \in Enabled(pm[1]) \/ Enabled(pm[1]) = {})
=============================================================================
