----------------------------- MODULE ToolVersions -----------------------------
(***************************************************************************)
(* The versions of cooper's tools: what config.json wants, what was built,  *)
(* and the language servers that follow from a language.                    *)
(* cooper/internal/config: lsp.go, versions.go, resolve.go, toolwarnings.go,*)
(* with collectUpdatePlan of main.go and the About tab that compare them.   *)
(* A version is the sequence of its numbers; None is the empty string, and  *)
(* what a lookup that fails gives.  A registry is what has been published   *)
(* of every package so far, each version with the runtimes it needs.        *)
(***************************************************************************)
EXTENDS Integers, Sequences, FiniteSets, SequencesExt

CONSTANTS
  Langs,       \* languages that can be turned on, of "go", "node", "python"
  AITools,     \* AI tools that can be
  Registry,    \* of each package its versions as published: [ver, needs]
  HostVersions \* of each tool its versions on the host, one after another

VARIABLES released, hostAt \* how far the registry and the host have got
worldVars == <<released, hostAt>>

None == << >>
Version == Seq(Nat)
Tools == Langs \cup AITools
DefaultBaseNodeVersion == <<22, 12, 0>>

-----------------------------------------------------------------------------
(* Comparing versions and what packages need. *)

(* parseComparableVersion *)
Parsed(v) == [i \in 1..3 |-> IF i \in DOMAIN v THEN v[i] ELSE 0]
(* Mutant: a larger first number does not settle it. *)
BeforeAnywhere(v, w) == \E i \in 1..3 : Parsed(v)[i] < Parsed(w)[i]
Before(v, w) == \E i \in 1..3 : Parsed(v)[i] < Parsed(w)[i] /\ \A j \in 1..(i - 1) : Parsed(v)[j] = Parsed(w)[j]
AtLeast(v, w) == v # None /\ ~Before(v, w)

Upper(t) == IF t.op = "^" THEN <<Parsed(t.base)[1] + 1>> ELSE <<Parsed(t.base)[1], Parsed(t.base)[2] + 1>>
Holds(v, t) ==
  CASE t.op = "x" -> \A i \in DOMAIN t.base : Parsed(v)[i] = t.base[i]
    [] t.op = "=" -> Parsed(v) = Parsed(t.base)
    [] t.op \in {">", "<="} -> Before(t.base, v) <=> t.op = ">"
    [] OTHER -> /\ Before(v, t.base) <=> t.op = "<"
                /\ t.op # "<" => v # None
                /\ t.op \in {"^", "~"} => Before(v, Upper(t))
TokenSays(v, t) == IF t.op # "x" /\ t.base = None THEN "error" ELSE IF Holds(v, t) THEN "yes" ELSE "no"
(* The first token that does not hold decides. *)
ClauseSays(v, c) ==
  LET first == SelectInSeq(c, LAMBDA t : TokenSays(v, t) # "yes")
  IN  IF first = 0 THEN "yes" ELSE TokenSays(v, c[first])
Satisfies(v, needs) ==
  LET says == {ClauseSays(v, needs[i]) : i \in DOMAIN needs}
  IN  IF needs = << >> \/ "yes" \in says THEN "yes" ELSE IF "error" \in says THEN "error" ELSE "no"

-----------------------------------------------------------------------------
(* Registries. *)

Latest(pkg) == Registry[pkg][released[pkg]].ver
Published(pkg) == {Registry[pkg][i].ver : i \in 1..released[pkg]}
Needs(pkg, v) == LET at == CHOOSE i \in DOMAIN Registry[pkg] : Registry[pkg][i].ver = v IN Registry[pkg][at].needs
Compatible(pkg, v, runtime) == IF v \in Published(pkg) THEN Satisfies(runtime, Needs(pkg, v)) ELSE "error"

(* The first of a table's rows <<runtime at least, version>> that applies. *)
FromTable(runtime, table) ==
  LET row == SelectInSeq(table, LAMBDA r : AtLeast(runtime, r[1]))
  IN  IF row = 0 THEN None ELSE table[row][2]
GoplsTable == << <<<<1,20>>, <<0,15,3>>>>, <<<<1,18>>, <<0,14,2>>>>, <<<<1,17>>, <<0,11,0>>>>,
                 <<<<1,15>>, <<0,9,5>>>>, <<<<1,12>>, <<0,7,5>>>> >>
TypeScriptLanguageServerTable == << <<<<18>>, <<4,4,1>>>>, <<<<14,17>>, <<3,3,2>>>> >>
PythonLSPTable == << <<<<3,8>>, <<1,12,2>>>>, <<<<3,7>>, <<1,7,4>>>>, <<<<3,6>>, <<1,3,3>>>> >>
TableOf(pkg) ==
  CASE pkg = "gopls" -> GoplsTable [] pkg = "typescript-language-server" -> TypeScriptLanguageServerTable
    [] pkg = "python-lsp-server" -> PythonLSPTable [] OTHER -> << >>

(* Mutant: the latest is taken whatever it needs. *)
LatestWhatever(pkg, fallback, runtime) == Latest(pkg)
LatestOrFallback(pkg, fallback, runtime) ==
  LET fits == Compatible(pkg, Latest(pkg), runtime)
  IN  CASE fits = "yes" -> Latest(pkg)
        [] fits = "no" /\ Compatible(pkg, fallback, runtime) = "yes" -> fallback
        [] OTHER -> None
(* What is taken when the runtime is too old for the latest. *)
FallbackOf(pkg) ==
  CASE pkg = "typescript" -> <<5,8,3>> [] pkg = "pyright" -> <<1,1,408>> [] OTHER -> None

(* Which tools come with a language, and the runtime each of them follows. *)
ImplicitOf(lang) ==
  CASE lang = "go"   -> {"gopls"}
    [] lang = "node" -> {"typescript-language-server", "typescript"}
    [] OTHER         -> {"pyright", "python-lsp-server"}
ParentOf(name) == CHOOSE l \in {"go", "node", "python"} : name \in ImplicitOf(l)
Runtime(name) == IF name = "pyright" THEN "base node" ELSE ParentOf(name)
LatestFrom(name) ==
  CASE name = "gopls" -> <<1,21>> [] name = "typescript-language-server" -> <<20>> [] name = "typescript" -> <<14,17>>
    [] name = "pyright" -> <<14>> [] OTHER -> <<3,9>>
UsesLatest(name, runtime) == AtLeast(runtime, LatestFrom(name))

(* What is published: the numbers of a range are at most three, and each is    *)
(* below 999; only a wildcard may have none.  Every tool and every language     *)
(* server is a package of its own, and a tool has a version on the host or none. *)
RangeOps == {"^", "~", "x", "=", ">", ">=", "<", "<="}
RangeTokens == {t \in [op : RangeOps, base : Seq(0..998)] : Len(t.base) <= 3 /\ (t.op = "x" \/ t.base # None)}
Releases == [ver : Version \ {None}, needs : Seq(Seq(RangeTokens))]
ASSUME ToolsAssumption ==
  /\ Langs \subseteq {"go", "node", "python"} /\ AITools \cap {"go", "node", "python"} = {}
  /\ Tools \cup UNION {ImplicitOf(l) : l \in Langs} \subseteq DOMAIN Registry
  /\ \A pkg \in DOMAIN Registry : Registry[pkg] \in Seq(Releases) \ {<< >>}
  /\ \A t \in Tools : HostVersions[t] \in [1..2 -> Version]

(* What the resolver of an implicit tool finds for a runtime; typescript alone *)
(* has no least runtime of its own.                                          *)
Resolved(name, runtime, up) ==
  IF name # "typescript" /\ ~UsesLatest(name, runtime) THEN FromTable(runtime, TableOf(name))
  ELSE CASE ~up -> None
         [] up /\ name \in {"gopls", "typescript-language-server"} -> Latest(name)
         [] OTHER -> LatestOrFallback(name, FallbackOf(name), runtime)

-----------------------------------------------------------------------------
(* What a configuration wants.  Its tools are [enabled, mode, pinned, host,   *)
(* container]; implicit and baseNode are, like container, what was built.     *)

OffTool == [enabled |-> FALSE, mode |-> "off", pinned |-> None, host |-> None, container |-> None]
Included(tool) == tool.enabled /\ tool.mode # "off"
(* concreteDesiredVersion *)
Desired(tool) ==
  CASE tool.mode = "mirror" -> tool.host
    [] tool.mode \in {"pin", "latest"} -> tool.pinned
    [] OTHER -> IF tool.pinned # None THEN tool.pinned ELSE tool.host
(* A language counts as on when it is enabled, unless its mode is off and no *)
(* version of it is known.                                                   *)
Counts(cfg, l) == /\ l \in Langs /\ cfg.tools[l].enabled
                  /\ cfg.tools[l].mode = "off" => Desired(cfg.tools[l]) # None
EffectiveBaseNodeVersion(cfg) == IF Counts(cfg, "node") THEN Desired(cfg.tools["node"]) ELSE DefaultBaseNodeVersion
RuntimeVersion(cfg, name) ==
  IF Runtime(name) = "base node" THEN EffectiveBaseNodeVersion(cfg) ELSE Desired(cfg.tools[ParentOf(name)])
Implicit(cfg) == UNION {ImplicitOf(l) : l \in {k \in Langs : Counts(cfg, k)}}

BuiltBaseNodeVersion(cfg) ==
  IF cfg.baseNode # None THEN cfg.baseNode
  ELSE IF "node" \in Langs /\ cfg.tools["node"].enabled THEN cfg.tools["node"].container ELSE None
(* Mutant: a version built for any runtime will do. *)
AnyRuntime(cfg, name) == TRUE
(* canUseBuiltImplicitFallback *)
RuntimeAsBuilt(cfg, name) ==
  IF Runtime(name) = "base node"
  THEN EffectiveBaseNodeVersion(cfg) = BuiltBaseNodeVersion(cfg)
  ELSE LET tool == cfg.tools[ParentOf(name)] IN Desired(tool) # None /\ Desired(tool) = tool.container
(* resolveImplicitVersionWithFallback *)
WithFallback(cfg, name, up, stale) ==
  LET runtime == RuntimeVersion(cfg, name)
      strict == Resolved(name, runtime, up)
  IN  IF strict = None /\ stale /\ UsesLatest(name, runtime) /\ RuntimeAsBuilt(cfg, name) /\ name \in DOMAIN cfg.implicit
      THEN cfg.implicit[name] ELSE strict
ResolveImplicit(cfg, names, up, stale) == [name \in names |-> WithFallback(cfg, name, up, stale)]
Complete(implicit) == \A name \in DOMAIN implicit : implicit[name] # None

(* refreshDesiredToolVersion: the tool with the version it now wants, and     *)
(* whether one was found.                                                    *)
HostVersion(t) == HostVersions[t][hostAt]
Refreshed(t, tool, up) ==
  CASE Included(tool) /\ tool.mode = "latest" /\ up -> [tool EXCEPT !.pinned = Latest(t)]
    [] Included(tool) /\ tool.mode = "mirror" /\ HostVersion(t) # None -> [tool EXCEPT !.host = HostVersion(t)]
    [] OTHER -> tool
Refreshable(t, tool, up, stale) ==
  Included(tool) =>
    CASE tool.mode = "latest" -> up \/ (stale /\ tool.pinned # None)
      [] tool.mode = "mirror" -> HostVersion(t) # None \/ (stale /\ tool.host # None)
      [] OTHER -> tool.pinned # None /\ up /\ tool.pinned \in Published(t)
CanRefresh(cfg, up, stale) == \A t \in Tools : Refreshable(t, cfg.tools[t], up, stale)
Refresh(cfg, up) == [cfg EXCEPT !.tools = [t \in Tools |-> Refreshed(t, cfg.tools[t], up)]]

-----------------------------------------------------------------------------
(* What differs from what was built.  Implicit tools and their versions are   *)
(* compared with one another as well as with the expected set.                *)

(* CompareImplicitTools *)
ImplicitDrift(built, target) ==
  {name \in DOMAIN built \cup DOMAIN target :
     ~(name \in DOMAIN built /\ name \in DOMAIN target /\ built[name] = target[name])}
BaseNodeDrift(cfg) == BuiltBaseNodeVersion(cfg) # EffectiveBaseNodeVersion(cfg)

(* Mutant: language servers that changed on their own do not count. *)
UpdatePlanTools(cfg, implicit) ==
  [base  |-> (\E l \in Langs : Included(cfg.tools[l]) /\ cfg.tools[l].container # Desired(cfg.tools[l])) \/ BaseNodeDrift(cfg),
   tools |-> {t \in AITools : Included(cfg.tools[t]) /\ cfg.tools[t].container # Desired(cfg.tools[t])}]
(* collectUpdatePlan, of a configuration that was just refreshed. *)
UpdatePlan(cfg, implicit) ==
  [base  |-> \/ \E l \in Langs : Included(cfg.tools[l]) /\ cfg.tools[l].container # Desired(cfg.tools[l])
             \/ BaseNodeDrift(cfg)
             \/ ImplicitDrift(cfg.implicit, implicit) # {},
   tools |-> {t \in AITools : Included(cfg.tools[t]) /\ cfg.tools[t].container # Desired(cfg.tools[t])}]

(* CompareVersions *)
CompareVersions(container, expected) ==
  IF container = None \/ expected = None THEN "unknown" ELSE IF container = expected THEN "match" ELSE "mismatch"
(* Mutant: what was never built counts as a match. *)
ImplicitWarned(built, target) == {name \in DOMAIN built \cap DOMAIN target : built[name] # target[name]}
ImplicitWarnings(built, target) == ImplicitDrift(built, target)

(* PrepareToolVersionSnapshot: its copy of the configuration, and what cooper *)
(* up warns of.  tried in vain are the tools whose lookup failed or timed out;*)
(* up tells whether the registries of the implicit tools answer.                 *)
Snapshot(cfg, failed) ==
  [cfg EXCEPT !.tools = [t \in Tools |->
     IF t \in failed THEN cfg.tools[t] ELSE Refreshed(t, cfg.tools[t], TRUE)]]
Unchecked(cfg, failed) ==
  {t \in Tools : /\ Included(cfg.tools[t])
                 /\ \/ t \in failed /\ cfg.tools[t].mode \in {"latest", "mirror"}
                    \/ cfg.tools[t].mode = "mirror" /\ HostVersion(t) = None}
(* Mutant: a tool whose check failed is skipped. *)
ToolWarningsVerified(cfg, failed) ==
  {t \in Tools \ failed : Included(cfg.tools[t]) /\ CompareVersions(cfg.tools[t].container, Desired(cfg.tools[t])) = "mismatch"}
ToolWarnings(cfg, failed) ==
  {t \in Tools : /\ Included(cfg.tools[t])
                 /\ \/ t \in failed
                    \/ CompareVersions(cfg.tools[t].container, Desired(cfg.tools[t])) = "mismatch"}
BaseNodeWarning(cfg, failed) ==
  ~("node" \in Langs /\ Included(cfg.tools["node"]) /\ "node" \in failed) /\ BaseNodeDrift(cfg)
(* implicitVerificationBlocker *)
Blocked(cfg, l, failed) == l \in failed \/ (l = "python" /\ "node" \in failed /\ Included(cfg.tools["node"]))
ParentWarnings(cfg, l, failed, up) ==
  LET built == [name \in DOMAIN cfg.implicit \cap ImplicitOf(l) |-> cfg.implicit[name]]
      target == ResolveImplicit(cfg, ImplicitOf(l), up, FALSE)
  IN  CASE ~Included(cfg.tools[l]) -> ImplicitWarnings(built, None)
        [] Included(cfg.tools[l]) /\ (Blocked(cfg, l, failed) \/ ~Complete(target)) -> {l}
        [] OTHER -> ImplicitWarnings(built, target)
StartupWarnings(cfg, tried, up) ==
  LET copy == Snapshot(cfg, tried)
      failed == Unchecked(cfg, tried)
  IN  ToolWarnings(copy, failed)
      \cup (IF BaseNodeWarning(copy, failed) THEN {"base node runtime"} ELSE {})
      \cup UNION {ParentWarnings(copy, l, failed, up) : l \in Langs}
(* expectedVersion and renderVersionStatus of the About tab, on the copy *)
AboutMismatch(copy, t) ==
  Included(copy.tools[t]) /\ CompareVersions(copy.tools[t].container, Desired(copy.tools[t])) = "mismatch"
=============================================================================
