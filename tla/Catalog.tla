------------------------------- MODULE Catalog -------------------------------
(***************************************************************************)
(* What gambi's configuration says of servers and tools (AppConfig of     *)
(* src/src/config.rs), how the admin API and the CLI change it, and what  *)
(* clients are shown and allowed by it: the paged lists, namespaced       *)
(* names and routes of src/src/server/mcp.rs, the policy that a script    *)
(* meets in src/src/execution.rs and the admin page's view of it.         *)
(*                                                                        *)
(* A name is a sequence of tokens, one of which may be Colon.  Its other  *)
(* characters, and blanks around it, are left out.                        *)
(***************************************************************************)
EXTENDS Naturals, Sequences, FiniteSets, Functions

CONSTANTS Names,      \* names offered for servers
          Offers,     \* Offers[s]: the tools, and prompts, of upstream server s
          Upstream,   \* Upstream[t]: the kind of description t has upstream
          SafeNames,  \* tools whose name begins like that of a read
          Colon,
          Order,      \* all namespaced names, sorted
          Exposures,  \* exposure modes offered
          PageSize,   \* AGGREGATED_PAGE_SIZE
          Imports,    \* configurations offered for import
          MaxChanges  \* bound on the number of changes

Tools == UNION {Offers[s] : s \in Names}

\* What policies tell apart in a description.
Descriptions == {"gets", "other"}
NoDescription == "none"

ExposureModes == {"passthrough", "compact", "names-only", "server-only"}
Modes == {"all", "none"}                                            \* default: all
Policies == {"heuristic", "all-safe", "all-escalated", "custom"} \* default: heuristic
Levels == {"safe", "escalated"}

\* The maps from some of K to V, and the documents that deserialise to a configuration.
Maps(K, V) == UNION {[D -> V] : D \in SUBSET K}

ServerConfig == [exposure : ExposureModes, enabled : BOOLEAN]

Configs ==
  [servers      : Maps(Names, ServerConfig),
   modes        : Maps(Names, Modes),
   active       : Maps(Names, Maps(Tools, BOOLEAN)),
   policies     : Maps(Names, Policies),
   levels       : Maps(Names, Maps(Tools, Levels)),
   texts        : Maps(Names, Maps(Tools, Descriptions)),
   instructions : Maps(Names, {"override"})]

ASSUME CatalogConstants ==
  /\ \A s \in Names : s \in Seq(Range(s))
  /\ \A t \in Tools : t \in Seq(Range(t))
  /\ DOMAIN Offers = Names
  /\ Upstream \in [Tools -> Descriptions \cup {NoDescription}]
  /\ SafeNames \subseteq Tools
  /\ Order \in Seq(Range(Order))
  /\ \A i, j \in 1 .. Len(Order) : Order[i] = Order[j] => i = j
  /\ \A s \in Names : \A t \in Offers[s] : s \o <<Colon>> \o t \in Range(Order)
  /\ Exposures \subseteq ExposureModes
  /\ PageSize \in Nat \ {0} /\ MaxChanges \in Nat
  /\ Imports \subseteq Configs

VARIABLES
  cfg,     \* the configuration in the store
  list,    \* a client listing prompts: its cursor, what it got, the list that its
           \* first page was of, and whether the later ones were of that list too
  changes

catalogVars == <<cfg, list, changes>>

-----------------------------------------------------------------------------
\* Maps.

Put(f, k, v) == [x \in DOMAIN f \cup {k} |-> IF x = k THEN v ELSE f[x]]
Without(f, k) == [x \in DOMAIN f \ {k} |-> f[x]]
Get(f, k, default) == IF k \in DOMAIN f THEN f[k] ELSE default
EmptyMap == [x \in {} |-> x]

\* A setting that is the default is not kept.
Store(f, k, v, default) == IF v = default THEN Without(f, k) ELSE Put(f, k, v)

\* Maps of maps, which are kept without empty ones.
Get2(f, s, t, default) == Get(Get(f, s, EmptyMap), t, default)
Put2(f, s, t, v) == Put(f, s, Put(Get(f, s, EmptyMap), t, v))
Store2(f, s, g) == IF DOMAIN g = {} THEN Without(f, s) ELSE Put(f, s, g)
Without2(f, s, t) ==
  IF s \in DOMAIN f THEN Store2(f, s, Without(f[s], t)) ELSE f

-----------------------------------------------------------------------------
\* The configuration.

NoConfig == [servers |-> EmptyMap, modes |-> EmptyMap, active |-> EmptyMap,
             policies |-> EmptyMap, levels |-> EmptyMap, texts |-> EmptyMap,
             instructions |-> EmptyMap]

Known(c, s) == s \in DOMAIN c.servers

ValidName(s) == s # <<>> /\ Colon \notin Range(s)

\* validate, on every load and before an import.
Valid(c) ==
  /\ \A s \in DOMAIN c.servers : ValidName(s)
  /\ \A f \in DOMAIN c : DOMAIN c[f] \subseteq DOMAIN c.servers
  /\ \A s \in DOMAIN c.modes : c.modes[s] # "all"
  /\ \A s \in DOMAIN c.policies : c.policies[s] # "heuristic"

ModeFor(c, s) == Get(c.modes, s, "all")
DefaultEnabled(c, s) == ModeFor(c, s) = "all"
IsToolEnabled(c, s, t) == Get2(c.active, s, t, DefaultEnabled(c, s))

\* Mutant: the overrides that differ from the default go.
MutPruneActive(c, s) ==
  IF s \notin DOMAIN c.active THEN c
  ELSE LET kept == {t \in DOMAIN c.active[s] : c.active[s][t] = DefaultEnabled(c, s)}
       IN  [c EXCEPT !.active = Store2(@, s, [t \in kept |-> c.active[s][t]])]

\* Overrides that say what the default says go.
PruneActive(c, s) ==
  IF s \notin DOMAIN c.active THEN c
  ELSE LET kept == {t \in DOMAIN c.active[s] : c.active[s][t] # DefaultEnabled(c, s)}
       IN  [c EXCEPT !.active = Store2(@, s, [t \in kept |-> c.active[s][t]])]

WithMode(c, s, mode) ==
  PruneActive([c EXCEPT !.modes = Store(@, s, mode, "all")], s)

WithPolicy(c, s, policy) ==
  [c EXCEPT !.policies = Store(@, s, policy, "heuristic")]

\* Mutant: a server's policy mode outlives it.
MutWithoutServer(c, s) ==
  [servers |-> Without(c.servers, s), modes |-> Without(c.modes, s),
   active |-> Without(c.active, s), policies |-> c.policies,
   levels |-> Without(c.levels, s), texts |-> Without(c.texts, s),
   instructions |-> Without(c.instructions, s)]

\* remove_server.
WithoutServer(c, s) ==
  IF Known(c, s) THEN [f \in DOMAIN c |-> Without(c[f], s)] ELSE c

-----------------------------------------------------------------------------
\* Changes.  A change that is refused is not saved.

NoList == [cursor |-> 0, got |-> <<>>, items |-> <<>>, stable |-> FALSE]

Update(c) ==
  /\ changes < MaxChanges
  /\ changes' = changes + 1
  /\ cfg' = c
  /\ UNCHANGED list

CatalogInit == cfg = NoConfig /\ list = NoList /\ changes = 0

AddServer(s, exposure, policy, mode, enabled) ==
  /\ ValidName(s) /\ ~ Known(cfg, s)
  /\ LET added == [cfg EXCEPT !.servers =
                     Put(@, s, [exposure |-> exposure, enabled |-> enabled])]
     IN  Update(WithMode(WithPolicy(added, s, policy), s, mode))

RemoveServer(s) == Update(WithoutServer(cfg, s))

SetExposure(s, exposure) ==
  Known(cfg, s) /\ Update([cfg EXCEPT !.servers[s].exposure = exposure])

SetEnabled(s, enabled) ==
  Known(cfg, s) /\ Update([cfg EXCEPT !.servers[s].enabled = enabled])

SetMode(s, mode) == Known(cfg, s) /\ Update(WithMode(cfg, s, mode))

SetPolicy(s, policy) == Known(cfg, s) /\ Update(WithPolicy(cfg, s, policy))

\* An override of the activation that says what the default says is removed.
SetActive(s, t, enabled) ==
  /\ Known(cfg, s)
  /\ Update([cfg EXCEPT !.active = IF enabled = DefaultEnabled(cfg, s)
                                 THEN Without2(@, s, t) ELSE Put2(@, s, t, enabled)])

SetLevel(s, t, level) ==
  Known(cfg, s) /\ Update([cfg EXCEPT !.levels = Put2(@, s, t, level)])

RemoveLevel(s, t) == Update([cfg EXCEPT !.levels = Without2(@, s, t)])

SetText(s, t, text) ==
  Known(cfg, s) /\ Update([cfg EXCEPT !.texts = Put2(@, s, t, text)])

RemoveText(s, t) == Update([cfg EXCEPT !.texts = Without2(@, s, t)])

SetInstruction(s) ==
  Known(cfg, s) /\ Update([cfg EXCEPT !.instructions = Put(@, s, "override")])

RemoveInstruction(s) == Update([cfg EXCEPT !.instructions = Without(@, s)])

Import(c) == Valid(c) /\ Update(c)

-----------------------------------------------------------------------------
\* Names and lists.

Namespaced(s, t) == s \o <<Colon>> \o t

\* Mutant: the last colon separates.
MutSplit(n) ==
  LET at == CHOOSE i \in 1 .. Len(n) :
              n[i] = Colon /\ \A j \in i + 1 .. Len(n) : n[j] # Colon
  IN  <<SubSeq(n, 1, at - 1), SubSeq(n, at + 1, Len(n))>>

\* The first colon separates.
Split(n) ==
  LET at == CHOOSE i \in 1 .. Len(n) :
              n[i] = Colon /\ \A j \in 1 .. i - 1 : n[j] # Colon
  IN  <<SubSeq(n, 1, at - 1), SubSeq(n, at + 1, Len(n))>>

EnabledServers(c) == {s \in DOMAIN c.servers : c.servers[s].enabled}

\* The prompts, or resources, of all enabled servers whose discovery has not failed:
\* sorted, without duplicates.
Listed(c, failed) ==
  LET names == UNION {{Namespaced(s, t) : t \in Offers[s]} : s \in EnabledServers(c) \ failed}
      at == {i \in 1 .. Len(Order) : Order[i] \in names}
      Nth(k) == CHOOSE i \in at : Cardinality(at \cap (1 .. i)) = k
  IN  [k \in 1 .. Cardinality(at) |-> Order[Nth(k)]]

\* Mutant: one item is not worth a page.
MutNextCursor(items, start) ==
  IF start + PageSize + 1 < Len(items) THEN start + PageSize ELSE 0

\* The cursor of the next page, or 0 when there is none.
NextCursor(items, start) ==
  IF start + PageSize < Len(items) THEN start + PageSize ELSE 0

Page(items, start) ==
  LET end == IF start + PageSize < Len(items) THEN start + PageSize ELSE Len(items)
  IN  SubSeq(items, start + 1, end)

\* The client asks for a page: the first, or the one after the last it got.
ListPage(failed) ==
  LET items == Listed(cfg, failed) start == list.cursor
  IN  /\ start <= Len(items)
      /\ list' = [cursor |-> NextCursor(items, start),
                  got |-> (IF start = 0 THEN <<>> ELSE list.got) \o Page(items, start),
                  items |-> IF start = 0 THEN items ELSE list.items,
                  stable |-> start = 0 \/ (list.stable /\ items = list.items)]
      /\ UNCHANGED <<cfg, changes>>

\* The list has become shorter than that: an error, so the client begins again.
ListOutOfRange(failed) ==
  /\ list.cursor > Len(Listed(cfg, failed))
  /\ list' = NoList
  /\ UNCHANGED <<cfg, changes>>

\* get_prompt: the upstream server and the name that a listed name is routed to.
Route(c, n) ==
  LET parts == Split(n)
  IN  IF parts[1] \in EnabledServers(c) THEN parts ELSE <<>>

-----------------------------------------------------------------------------
\* Policies.

\* evaluate_tool_policy.
PolicyLevel(c, s, t, description) ==
  CASE Get(c.policies, s, "heuristic") = "all-safe" -> "safe"
    [] Get(c.policies, s, "heuristic") = "all-escalated" -> "escalated"
    [] OTHER -> Get2(c.levels, s, t, IF t \in SafeNames \/ description = "gets"
                                     THEN "safe" ELSE "escalated")

\* What gambi_help, and the admin page, say of a tool.
EffectiveDescription(c, s, t) == Get2(c.texts, s, t, Upstream[t])
ShownLevel(c, s, t) == PolicyLevel(c, s, t, EffectiveDescription(c, s, t))

EnabledTools(c, s) == {t \in Offers[s] : IsToolEnabled(c, s, t)}

\* The tools that gambi_help lists of a server, by its exposure: not at all, by name,
\* or with the description (which compact cuts).
Summary(c, s) ==
  LET exposure == c.servers[s].exposure
  IN  IF exposure = "server-only" THEN {}
      ELSE {[tool |-> Namespaced(s, t), level |-> ShownLevel(c, s, t),
             text |-> IF exposure = "names-only" THEN NoDescription
                      ELSE EffectiveDescription(c, s, t)] : t \in EnabledTools(c, s)}

\* The tool that gambi_help describes, of the servers asked for, if the name is of
\* one only: a namespaced name, or a tool's own name.
HelpTool(c, servers, n) ==
  LET parts == Split(n)
      of == {<<s, n>> : s \in {r \in servers : n \in EnabledTools(c, r)}}
  IN  IF Colon \in Range(n)
      THEN IF parts[1] \in servers /\ parts[2] \in EnabledTools(c, parts[1])
           THEN parts ELSE <<>>
      ELSE IF Cardinality(of) = 1 THEN CHOOSE p \in of : TRUE ELSE <<>>

\* Mutant: the index prefers the upstream server's own descriptions.
MutIndexedDescription(c, s, t, failed) ==
  IF s \notin failed /\ IsToolEnabled(c, s, t)
  THEN IF Upstream[t] # NoDescription THEN Upstream[t]
       ELSE Get2(c.texts, s, t, NoDescription)
  ELSE Get2(c.texts, s, t, NoDescription)

\* What a script's index of descriptions says, where the discovery of the servers in
\* failed has failed: tools that are not there are looked up in the configuration.
IndexedDescription(c, s, t, failed) ==
  IF s \notin failed /\ IsToolEnabled(c, s, t)
  THEN EffectiveDescription(c, s, t)
  ELSE Get2(c.texts, s, t, NoDescription)

\* A script that is not escalated may call the tool.
MayCall(c, s, t, failed) ==
  /\ s \in EnabledServers(c)
  /\ IsToolEnabled(c, s, t)
  /\ PolicyLevel(c, s, t, IndexedDescription(c, s, t, failed)) = "safe"

-----------------------------------------------------------------------------
ChangeServer(s) ==
  \/ \E e \in Exposures, p \in Policies, m \in Modes, b \in BOOLEAN : AddServer(s, e, p, m, b)
  \/ \E e \in Exposures : SetExposure(s, e)
  \/ \E b \in BOOLEAN : SetEnabled(s, b)
  \/ \E m \in Modes : SetMode(s, m)
  \/ \E p \in Policies : SetPolicy(s, p)
  \/ RemoveServer(s) \/ SetInstruction(s) \/ RemoveInstruction(s)

ChangeTool(s, t) ==
  \/ \E b \in BOOLEAN : SetActive(s, t, b)
  \/ \E l \in Levels : SetLevel(s, t, l)
  \/ \E d \in Descriptions : SetText(s, t, d)
  \/ RemoveLevel(s, t) \/ RemoveText(s, t)

CatalogNext ==
  \/ \E s \in Names : ChangeServer(s)
  \/ \E s \in Names : \E t \in Offers[s] : ChangeTool(s, t)
  \/ \E c \in Imports : Import(c)
  \/ \E failed \in SUBSET Names : ListPage(failed) \/ ListOutOfRange(failed)

CatalogSpec == CatalogInit /\ [][CatalogNext]_catalogVars

-----------------------------------------------------------------------------
\* Properties.

\* Every change leaves a configuration that passes the validation of the next load:
\* settings and overrides are only of servers that there are, so a server that is
\* added again does not find those of its predecessor.
ConfigLoads == Valid(cfg)

\* A change of the mode of a server's tools does not change the tools that were set
\* one by one, nor the tools of other servers.
OverridesSurviveMode ==
  [][\A s \in Names, mode \in Modes : SetMode(s, mode) =>
       \A r \in DOMAIN cfg.servers : \A t \in Offers[r] :
         r # s \/ (r \in DOMAIN cfg.active /\ t \in DOMAIN cfg.active[r])
           => IsToolEnabled(cfg', r, t) = IsToolEnabled(cfg, r, t)]_catalogVars

\* The pages of a list that does not change on the way are the list: nothing twice,
\* nothing left out.
PagesAreTheList ==
  list.stable => list.got = IF list.cursor = 0 THEN list.items
                            ELSE SubSeq(list.items, 1, list.cursor)

\* Whatever is listed is routed to the server that it is of, by the name it has there;
\* gambi_help describes the tool that a listed name is of, for whichever servers it is
\* asked, and a tool's own name never stands for another tool.
RoutesBack ==
  \A s \in EnabledServers(cfg) : \A t \in Offers[s] :
    /\ Route(cfg, Namespaced(s, t)) = <<s, t>>
    /\ \A servers \in {EnabledServers(cfg), {s}} :
         /\ t \in EnabledTools(cfg, s)
              => HelpTool(cfg, servers, Namespaced(s, t)) = <<s, t>>
         /\ HelpTool(cfg, servers, t) # <<>>
              => t \in {HelpTool(cfg, servers, t)[2], Namespaced(HelpTool(cfg, servers, t)[1],
                                                               HelpTool(cfg, servers, t)[2])}

\* A script that is not escalated may call what gambi_help and the admin page call
\* enabled and safe, and, when the discovery of descriptions fails, nothing more.
EnforcedAsShown ==
  \A s \in EnabledServers(cfg) : \A t \in Offers[s] :
    LET shown == IsToolEnabled(cfg, s, t) /\ ShownLevel(cfg, s, t) = "safe"
    IN  /\ MayCall(cfg, s, t, {}) = shown
        /\ MayCall(cfg, s, t, {s}) => shown
        /\ \A row \in Summary(cfg, s) :
             row.tool = Namespaced(s, t) => (row.level = "safe") = shown
=============================================================================
