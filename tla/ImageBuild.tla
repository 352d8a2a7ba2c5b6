------------------------------ MODULE ImageBuild ------------------------------
(***************************************************************************)
(* The images of cooper and what config.json tells of them: saving in the   *)
(* wizard (SaveWithProgress of app/configure.go), cooper build (Run of      *)
(* buildflow/build.go) and cooper update (runUpdate of main.go), which save *)
(* config.json after every image that affects it, and the templates they    *)
(* build from (templates.go).  An image is built before config.json tells   *)
(* of it, and a save that fails may leave a config.json that cannot be read *)
(* (SaveConfig writes in place).  A base image is what it contains; an AI   *)
(* tool's image has its version and the base it was built on.               *)
(***************************************************************************)
EXTENDS ToolVersions

CONSTANTS
  Customs,   \* directories of the user's own images under ~/.cooper/cli
  Settings,  \* of each tool what the wizard sets: [enabled, mode, pinned]
  MaxSaves, MaxJobs, MaxWorld \* saves, builds and updates, releases made

VARIABLES
  config,    \* config.json as it was last saved
  readable,  \* there is one that can be read
  templates, \* what the Dockerfiles under ~/.cooper say: [base, version]
  base,      \* the base image
  child,     \* the images built on it: [version, base]
  job,       \* the build or update that runs
  said,      \* what the last one reported
  untold,    \* history: the images built since config.json last told of them
  used       \* history: [saves, jobs, world]

imageVars == <<worldVars, config, readable, templates, base, child, job, said, untold, used>>

(* The wizard's settings, and images of the user's own with names of their own. *)
Setting == [enabled : BOOLEAN, mode : {"off", "mirror", "latest", "pin"}, pinned : Version]
ASSUME ImageAssumption ==
  (\A t \in Tools : Settings[t] \subseteq Setting) /\ Customs \cap AITools = {} /\ "base" \notin AITools

NoJob == [kind |-> "none"]
Idle == job = NoJob
NoImage == [version |-> None, base |-> None]
Children == AITools \cup Customs

-----------------------------------------------------------------------------
(* What the templates render. *)

(* getToolVersion; an AI tool without one is installed as it is that day.     *)
Rendered(cfg, t) == IF Desired(cfg.tools[t]) = None THEN Latest(t) ELSE Desired(cfg.tools[t])
(* buildBaseDockerfileData: Python is the one of the distribution, Codex needs *)
(* bubblewrap and OpenCode inotify.                                          *)
RenderBase(cfg, implicit) ==
  [langs |-> [l \in {k \in Langs \ {"node"} : cfg.tools[k].enabled} |-> IF l = "python" THEN <<3, 11>> ELSE Desired(cfg.tools[l])],
   node |-> EffectiveBaseNodeVersion(cfg),
   implicit |-> implicit,
   needed |-> {t \in AITools \cap {"codex", "opencode"} : cfg.tools[t].enabled}]
(* WriteAllTemplates: Dockerfiles of disabled tools stay as they are. *)
WriteTemplates(cfg, implicit) ==
  [base |-> RenderBase(cfg, implicit),
   version |-> [t \in AITools |-> IF cfg.tools[t].enabled THEN Rendered(cfg, t) ELSE templates.version[t]]]

-----------------------------------------------------------------------------
(* The built state in config.json. *)

RefreshContainerVersion(tool) ==
  IF ~tool.enabled \/ tool.mode = "off" THEN tool
  ELSE [tool EXCEPT !.container =
          CASE tool.mode = "mirror" -> tool.host
            [] tool.mode = "pin" -> tool.pinned
            [] OTHER -> IF tool.pinned # None THEN tool.pinned ELSE IF tool.host # None THEN tool.host ELSE tool.container]
(* Mutant: the tools' own images are marked as built with the base. *)
BaseBuiltAll(cfg, implicit) ==
  [cfg EXCEPT !.tools = [t \in Tools |-> RefreshContainerVersion(cfg.tools[t])],
              !.baseNode = EffectiveBaseNodeVersion(cfg), !.implicit = implicit]
BaseBuilt(cfg, implicit) ==
  [cfg EXCEPT !.tools = [t \in Tools |-> IF t \in Langs THEN RefreshContainerVersion(cfg.tools[t]) ELSE cfg.tools[t]],
              !.baseNode = EffectiveBaseNodeVersion(cfg), !.implicit = implicit]
ToolBuilt(cfg, t) ==
  IF t \in AITools THEN [cfg EXCEPT !.tools[t] = RefreshContainerVersion(cfg.tools[t])] ELSE cfg

-----------------------------------------------------------------------------
(* The wizard reads the tools and their versions on the host, and keeps a     *)
(* version that was found earlier in its own field only.                     *)

(* newProgrammingModel, newAICLIModel, toToolConfigs *)
FromWizard(t, tool) ==
  [tool EXCEPT !.host = IF HostVersion(t) # None THEN HostVersion(t) ELSE tool.host,
               !.pinned = IF tool.mode = "pin" THEN tool.pinned ELSE None]
Choose(cfg, t, setting) ==
  LET tool == [cfg.tools[t] EXCEPT !.enabled = setting.enabled, !.mode = setting.mode,
                                   !.pinned = IF setting.mode = "pin" THEN setting.pinned ELSE @]
  IN  [cfg EXCEPT !.tools = [u \in Tools |-> FromWizard(u, IF u = t THEN tool ELSE cfg.tools[u])]]

(* Without a config.json it can read, the wizard turns the tools on that the  *)
(* host has (NewConfigureApp).                                                *)
Found(t) == IF HostVersion(t) = None THEN OffTool
            ELSE [OffTool EXCEPT !.enabled = TRUE, !.mode = "mirror", !.host = HostVersion(t)]
Fresh == [tools |-> [t \in Tools |-> Found(t)], implicit |-> None, baseNode |-> None]
Loaded == IF readable THEN config ELSE Fresh

(* SaveWithProgress: config.json is written before the templates. *)
Save(t, setting, up, written) ==
  LET chosen == Choose(Loaded, t, setting)
      cfg == Refresh(chosen, up)
      implicit == ResolveImplicit(cfg, Implicit(cfg), up, TRUE)
  IN  /\ Idle /\ used.saves < MaxSaves
      /\ setting.mode = "off" => Loaded.tools[t].mode = "off"
      /\ CanRefresh(chosen, up, TRUE) /\ Complete(implicit)
      /\ config' = cfg /\ readable' = TRUE
      /\ templates' = IF written THEN WriteTemplates(cfg, implicit) ELSE templates
      /\ said' = "" /\ used' = [used EXCEPT !.saves = @ + 1]
      /\ UNCHANGED <<worldVars, base, child, job, untold>>

-----------------------------------------------------------------------------
(* Build and update.  Each works on the configuration it loaded. *)

Enabled(cfg) == {t \in AITools : cfg.tools[t].enabled}
Begin(kind) ==
  LET cfg == Refresh(config, TRUE)
      implicit == ResolveImplicit(cfg, Implicit(cfg), TRUE, FALSE)
      plan == IF kind = "build" THEN [base |-> TRUE, tools |-> {}] ELSE UpdatePlan(cfg, implicit)
  IN  /\ Idle /\ readable /\ used.jobs < MaxJobs
      /\ CanRefresh(config, TRUE, FALSE) /\ Complete(implicit)
      /\ used' = [used EXCEPT !.jobs = @ + 1]
      /\ IF plan.base \/ plan.tools # {}
         THEN /\ templates' = WriteTemplates(cfg, implicit)
              /\ job' = [kind |-> kind, cfg |-> cfg, implicit |-> implicit, base |-> plan.base, built |-> {},
                         left |-> IF plan.base THEN Enabled(cfg) \cup Customs ELSE plan.tools]
              /\ said' = ""
         ELSE templates' = templates /\ job' = job /\ said' = "match"
      /\ UNCHANGED <<worldVars, config, readable, base, child, untold>>

(* Any step can fail, and cooper can end at any; what was built and saved      *)
(* before stays.                                                             *)
Fail ==
  /\ ~Idle
  /\ job' = NoJob /\ said' = "failed"
  /\ UNCHANGED <<worldVars, config, readable, templates, base, child, untold, used>>
(* The save of the wizard, or of a job, is cut short: os.WriteFile has emptied *)
(* the file by then.                                                         *)
CutShort ==
  /\ IF Idle THEN used.saves < MaxSaves /\ used' = [used EXCEPT !.saves = @ + 1]
             ELSE job.built # {} /\ used' = used
  /\ readable' = FALSE /\ job' = NoJob /\ said' = "failed"
  /\ UNCHANGED <<worldVars, config, templates, base, child, untold>>

(* docker build of the base, then config.json tells of it. *)
BuildBase ==
  /\ ~Idle /\ job.base
  /\ "go" \in DOMAIN templates.base.langs => templates.base.langs["go"] # None
  /\ base' = templates.base
  /\ job' = [job EXCEPT !.base = FALSE, !.built = @ \cup {"base"}]
  /\ untold' = untold \cup {"base"}
  /\ UNCHANGED <<worldVars, config, readable, templates, child, said, used>>
SaveBase ==
  /\ ~Idle /\ "base" \in job.built
  /\ config' = BaseBuilt(job.cfg, job.implicit)
  /\ job' = [job EXCEPT !.built = @ \ {"base"}, !.cfg = config']
  /\ untold' = untold \ {"base"}
  /\ UNCHANGED <<worldVars, readable, templates, base, child, said, used>>

(* The tools' images in any order, the user's own ones after them. *)
BuildChild(t) ==
  /\ ~Idle /\ ~job.base /\ job.built = {} /\ t \in job.left
  /\ t \in Customs => job.left \subseteq Customs
  /\ child' = [child EXCEPT ![t] = [version |-> IF t \in AITools THEN templates.version[t] ELSE None, base |-> base]]
  /\ job' = [job EXCEPT !.left = @ \ {t}, !.built = {t} \cap AITools]
  /\ untold' = untold \cup ({t} \cap AITools)
  /\ UNCHANGED <<worldVars, config, readable, templates, base, said, used>>
SaveChild(t) ==
  /\ ~Idle /\ t \in job.built \ {"base"}
  /\ config' = ToolBuilt(job.cfg, t)
  /\ job' = [job EXCEPT !.built = @ \ {t}, !.cfg = config']
  /\ untold' = untold \ {t}
  /\ UNCHANGED <<worldVars, readable, templates, base, child, said, used>>

Finish ==
  /\ ~Idle /\ ~job.base /\ job.built = {} /\ job.left = {}
  /\ job' = NoJob /\ said' = IF job.kind = "build" THEN "built" ELSE "complete"
  /\ UNCHANGED <<worldVars, config, readable, templates, base, child, untold, used>>

-----------------------------------------------------------------------------
(* A package is published, the host is upgraded. *)
Publish(pkg) ==
  /\ used.world < MaxWorld /\ released[pkg] < Len(Registry[pkg]) /\ Idle
  /\ released' = [released EXCEPT ![pkg] = @ + 1]
  /\ used' = [used EXCEPT !.world = @ + 1] /\ said' = ""
  /\ UNCHANGED <<hostAt, config, readable, templates, base, child, job, untold>>
UpgradeHost ==
  /\ used.world < MaxWorld /\ hostAt < 2 /\ Idle
  /\ hostAt' = hostAt + 1
  /\ used' = [used EXCEPT !.world = @ + 1] /\ said' = ""
  /\ UNCHANGED <<released, config, readable, templates, base, child, job, untold>>

ImageInit ==
  /\ released = [pkg \in DOMAIN Registry |-> 1] /\ hostAt = 1
  /\ config = Fresh /\ readable = FALSE
  /\ templates = [base |-> None, version |-> [t \in AITools |-> None]]
  /\ base = None /\ child = [t \in Children |-> NoImage]
  /\ job = NoJob /\ said = "" /\ untold = {}
  /\ used = [saves |-> 0, jobs |-> 0, world |-> 0]

ImageNext ==
  \/ \E t \in Tools : \E s \in Settings[t], up, written \in BOOLEAN : Save(t, s, up, written)
  \/ \E kind \in {"build", "update"} : Begin(kind)
  \/ Fail \/ CutShort \/ BuildBase \/ SaveBase \/ Finish
  \/ \E t \in Children : BuildChild(t) \/ SaveChild(t)
  \/ \E pkg \in DOMAIN Registry : Publish(pkg)
  \/ UpgradeHost
ImageSpec == ImageInit /\ [][ImageNext]_imageVars

-----------------------------------------------------------------------------
ToolStates == [enabled : BOOLEAN, mode : {"off", "mirror", "latest", "pin"}, pinned : Version, host : Version, container : Version]
ImageTypeOK ==
  /\ \A t \in Tools : config.tools[t] \in ToolStates
  /\ \A name \in DOMAIN config.implicit : config.implicit[name] \in Version \ {None}
  /\ said \in {"", "match", "complete", "built", "failed"}
  /\ ~Idle => job.kind \in {"build", "update"} /\ job.left \subseteq Children /\ job.built \subseteq {"base"} \cup AITools

(* What config.json calls built is in the images, whatever step of a build or  *)
(* an update failed: the base's Node and language servers, its Go, and each    *)
(* AI tool (buildflow/build.go, main.go runUpdate).  Left out are the images   *)
(* that were built since config.json last told of them: docker has replaced    *)
(* the image before the save that tells of it, which may never come, and the   *)
(* record is then the older image's until the next build of that image.        *)
ConfigTellsBuilt ==
  /\ config.baseNode # None /\ "base" \notin untold =>
       /\ config.baseNode = base.node /\ config.implicit = base.implicit
       /\ "go" \in DOMAIN base.langs => config.tools["go"].container \in {None, base.langs["go"]}
  /\ \A t \in AITools \ untold : config.tools[t].container # None => config.tools[t].container = child[t].version

(* When cooper update reports that all versions match, or that it is          *)
(* complete, or cooper build that it is, every included tool is installed in  *)
(* the version that was wanted, and the base has the runtimes and the         *)
(* language servers that belong to it (collectUpdatePlan, runUpdate, Run of   *)
(* buildflow/build.go).  Of an image that config.json was never told of an    *)
(* update can be wrong, when what is wanted is what the record still says; a  *)
(* build leaves no such image.  Nothing is said of Python: the base has the   *)
(* distribution's, whatever version was wanted.                               *)
UpdateDelivers ==
  said \in {"match", "complete", "built"} =>
    LET cfg == Refresh(config, TRUE) IN
      /\ \A t \in AITools \ untold : Included(cfg.tools[t]) => child[t].version = Desired(cfg.tools[t])
      /\ "base" \notin untold =>
           /\ "go" \in Langs /\ Included(cfg.tools["go"]) => base.langs["go"] = Desired(cfg.tools["go"])
           /\ base.node = EffectiveBaseNodeVersion(cfg)
           /\ base.implicit = ResolveImplicit(cfg, Implicit(cfg), TRUE, FALSE)
      /\ said = "built" => untold \cap ({"base"} \cup Enabled(cfg)) = {}

(* Language servers that the Dockerfiles install run on the runtime installed *)
(* next to them, also when they come from the last build because no registry  *)
(* answers (resolveImplicitVersionWithFallback).                             *)
TemplatesFit ==
  templates.base # None =>
    /\ "typescript" \in DOMAIN templates.base.implicit =>
         Satisfies(templates.base.node, Needs("typescript", templates.base.implicit["typescript"])) = "yes"
    /\ "pyright" \in DOMAIN templates.base.implicit =>
         Satisfies(templates.base.node, Needs("pyright", templates.base.implicit["pyright"])) = "yes"

(* Startup and cooper update agree on what is out of date: with every check   *)
(* answered, cooper up warns exactly when a tool or a language differs from   *)
(* what was built of it, or the base's Node or a language server does, and    *)
(* then an update would rebuild something (toolwarnings.go,                    *)
(* collectUpdatePlan).  Of a tool that was never built startup says nothing.   *)
(* Left out is a language that is enabled in mode off with a version known:    *)
(* its servers get built, while startup takes it for off.                     *)
WarningsAgree ==
  LET cfg == Refresh(config, TRUE)
      implicit == ResolveImplicit(cfg, Implicit(cfg), TRUE, FALSE)
      plan == UpdatePlan(cfg, implicit)
      outdated == {t \in Tools : Included(cfg.tools[t]) /\ cfg.tools[t].container \notin {None, Desired(cfg.tools[t])}}
      warned == StartupWarnings(config, {}, TRUE)
  IN  /\ readable /\ CanRefresh(config, TRUE, FALSE) /\ Complete(implicit)
      /\ \A l \in Langs : Counts(cfg, l) => Included(cfg.tools[l])
      => /\ warned # {} <=> outdated # {} \/ BaseNodeDrift(cfg) \/ ImplicitDrift(cfg.implicit, implicit) # {}
         /\ warned # {} => plan.base \/ plan.tools # {}

(* A check that fails is never taken for a match: whatever lookups fail or    *)
(* time out at start, an outdated tool is warned of, or named as unverified;  *)
(* and what the About tab marks as a mismatch, the warnings name             *)
(* (PrepareToolVersionSnapshot, about/model.go).                             *)
NothingPassesUnchecked ==
  readable => \A tried \in SUBSET Tools :
    LET warned == StartupWarnings(config, tried, TRUE)
        copy == Snapshot(config, tried)
    IN  \A t \in Tools :
          LET now == Refreshed(t, config.tools[t], TRUE) IN
            /\ (Included(now) /\ now.container # None /\ Desired(now) # None /\ now.container # Desired(now)) => t \in warned
            /\ AboutMismatch(copy, t) => t \in warned

(* A range admits the versions between its bounds: of every package that gets *)
(* published, the runtimes that versionSatisfies accepts are those in one of  *)
(* its clauses' intervals, with versions as numbers.                         *)
Number(v) == (Parsed(v)[1] * 1000 + Parsed(v)[2]) * 1000 + Parsed(v)[3]
Interval(t) ==
  LET n == Number(t.base)
  IN  CASE t.op = "^" -> n..(Number(<<t.base[1] + 1>>) - 1)
        [] t.op = "~" -> n..(Number(<<Parsed(t.base)[1], Parsed(t.base)[2] + 1>>) - 1)
        [] t.op = "x" -> n..(n + <<999999999, 999999, 999, 0>>[Len(t.base) + 1])
        [] t.op = ">=" -> n..999999999
        [] t.op = ">" -> (n + 1)..999999999
        [] t.op = "<=" -> 0..n
        [] t.op = "<" -> 0..(n - 1)
        [] t.op = "=" -> n..n
Around(needs) ==
  LET bases == UNION {{t.base : t \in ToSet(needs[i])} : i \in DOMAIN needs}
      parts == {0} \cup UNION {ToSet(b) : b \in bases}
  IN  {<<a, b, c>> : a \in parts \cup {p + 1 : p \in parts}, b \in parts, c \in {0, 1}}
RangesAreIntervals ==
  used.saves = 0 => \A pkg \in {k \in DOMAIN Registry : released[k] > 1} :
    LET needs == Needs(pkg, Latest(pkg)) IN
      \A v \in Around(needs) :
        (Satisfies(v, needs) = "yes") <=>
          (needs = << >> \/ \E i \in DOMAIN needs : \A j \in DOMAIN needs[i] : Number(v) \in Interval(needs[i][j]))

(* config.json tells what the images hold that it was told of, after builds   *)
(* and updates that fail at any step; one that succeeds delivers what was     *)
(* wanted; and what cooper up warns of is what an update would change.        *)
ImagesSound ==
  ImageTypeOK /\ ConfigTellsBuilt /\ UpdateDelivers /\ TemplatesFit /\ WarningsAgree /\ NothingPassesUnchecked /\ RangesAreIntervals
=============================================================================
