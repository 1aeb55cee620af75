------------------------------- MODULE BuildPlan -------------------------------
(***************************************************************************)
(* From settings to requests: the build configuration of the RUN and the   *)
(* DEPLOY path (remote.rs, deploy.rs, env.rs), the image layers they       *)
(* render (control_plane.rs, SDK image/render.rs), the sequence of         *)
(* requests of provision, and the same sequence through the recording      *)
(* control plane of a dry run (dump.rs).                                   *)
(*                                                                         *)
(* Abstracted: an id is the record of what it identifies; a Dockerfile     *)
(* line is the record of what it does; an environment variable is "unset", *)
(* "on" (1, true, yes, on), "off" (0, false, no, off) or "other"; range    *)
(* checks of one entrypoint are the bit valid.                             *)
(***************************************************************************)
EXTENDS Naturals, Sequences, SequencesExt, FiniteSets

CONSTANT None

Or(a, b) == IF a # None THEN a ELSE b
When(cond, s) == IF cond THEN s ELSE <<>>

-------------------------------------------------------------------------------
(* Settings                                                                *)

EnvBool(v) == v = "on"
DefaultOn(v) == v # "off"
DefaultPackage == "example-add"
DefaultBase == [rust |-> TRUE]

(* RemoteConfig::default. The root is the directory the environment names, *)
(* else the nearest workspace above, else the nearest crate, else here.    *)
RemoteDefault(env) ==
  [root |-> Or(env.dir, Or(env.workspace, Or(env.crate, "cwd"))),
   package |-> Or(env.package, DefaultPackage),
   base |-> Or(env.base, DefaultBase),
   install |-> EnvBool(env.install),
   cache |-> ~EnvBool(env.noCache),
   steps |-> <<>>, timeout |-> 1800, scoping |-> TRUE]

(* App::connect: the package that the macros captured, unless the          *)
(* environment names one.                                                  *)
WithDetectedPackage(config, env, detected) ==
  IF env.package = None /\ detected # None
  THEN [config EXCEPT !.package = detected] ELSE config
RunConfig(env, detected) == WithDetectedPackage(RemoteDefault(env), env, detected)

(* DeployConfig::default, which App::deploy uses.                          *)
DeployDefault(env) ==
  [RemoteDefault(env) EXCEPT !.timeout = 300] @@
  [bestEffort |-> EnvBool(env.bestEffort), prebuild |-> DefaultOn(env.prebuild)]

(* An image declaration is [base, install, apt, pip, run]; its steps come  *)
(* before those of the configuration.                                      *)
StepsOf(image) ==
  SelectSeq(<<<<"apt", image.apt>>, <<"pip", image.pip>>, <<"run", image.run>>>>,
            LAMBDA st : st[2] # <<>>)
ApplyFunctionImage(config, image) ==
  IF image = None THEN config
  ELSE [config EXCEPT !.steps = StepsOf(image) \o @,
                      !.base = Or(image.base, @),
                      !.install = IF image.install = None THEN @ ELSE image.install]

(* One image for the whole deploy: the first declared.                     *)
WithFunctionImage(config, eps) ==
  LET declaring == {i \in DOMAIN eps : eps[i].image # None}
  IN IF declaring = {} THEN config
     ELSE ApplyFunctionImage(config, eps[CHOOSE i \in declaring : \A j \in declaring : i <= j].image)

(* FastAPI for an endpoint, unless a pip step names it.                    *)
AppendEndpointPip(config, eps) ==
  LET wanted == \E i \in DOMAIN eps : eps[i].method # None
      given == \E i \in DOMAIN config.steps :
                 config.steps[i][1] = "pip" /\ Contains(config.steps[i][2], "fastapi")
  IN IF wanted /\ ~given
     THEN [config EXCEPT !.steps = Append(@, <<"pip", <<"fastapi">>>>)] ELSE config

-------------------------------------------------------------------------------
(* Images                                                                  *)

Line(do, arg) == [do |-> do, arg |-> arg]
Steps(steps) ==
  FlattenSeq([i \in DOMAIN steps |->
    IF steps[i][1] = "run" THEN [j \in DOMAIN steps[i][2] |-> Line("run", steps[i][2][j])]
    ELSE <<Line(steps[i][1], steps[i][2])>>])

(* dockerfile_commands: the parts of a spec, in the order they render.     *)
(* Mutant: the builder steps come first.                                   *)
StepsFirst(spec) ==
  <<Line("from", spec.base)>> \o Steps(spec.steps)
  \o When(spec.python, <<Line("copy", "python")>>)
  \o When(spec.rust, <<Line("rustup", None), Line("env", "PATH")>>)
  \o When(spec.wrapper # None, <<Line("bake", spec.wrapper)>>) \o spec.extra
Dockerfile(spec) ==
  <<Line("from", spec.base)>>
  \o When(spec.python, <<Line("copy", "python")>>)
  \o When(spec.rust, <<Line("rustup", None), Line("env", "PATH")>>)
  \o Steps(spec.steps)
  \o When(spec.wrapper # None, <<Line("bake", spec.wrapper)>>) \o spec.extra

(* resolved_context_mount_id: the given mount, else the standalone python. *)
ContextMount(spec) == Or(spec.context, IF spec.python THEN "python" ELSE None)
Image(spec) == [commands |-> Dockerfile(spec), context |-> ContextMount(spec)]

BaseSpec(in) == [base |-> in.base, python |-> TRUE, rust |-> in.install, steps |-> in.steps,
                 wrapper |-> None, context |-> None, extra |-> <<>>]
RunSpec(in, env) ==
  [BaseSpec(in) EXCEPT
     !.wrapper = "run",
     !.extra = When(in.cache, <<Line("apt", <<"zstd">>)>>)
               \o <<Line("env", [package |-> in.package, cache |-> in.cache]),
                    Line("env", "RUST_BACKTRACE")>>
               \o When(in.cache /\ ~DefaultOn(env.cacheTarget), <<Line("env", "CACHE_TARGET=0")>>)
               \o <<Line("entrypoint", None)>>]
LayerSpec(on, context, extra) ==
  [base |-> on, python |-> FALSE, rust |-> FALSE, steps |-> <<>>, wrapper |-> None,
   context |-> context, extra |-> extra \o <<Line("entrypoint", None)>>]
Build(package) == <<Line("copy", "source"), Line("cargo", package)>>
DepSpec(in, on) == LayerSpec(on, "stub", Build(in.package))

(* deploy_gates and the top layer.                                         *)
Adapters(eps) ==
  [endpoints |-> {eps[i].name : i \in {j \in DOMAIN eps : eps[j].method # None /\ eps[j].port = None}},
   servers |-> {<<eps[i].name, eps[i].port>> : i \in {j \in DOMAIN eps : eps[j].port # None}}]
TopSpec(in, on) ==
  LET primes == \E i \in DOMAIN in.eps : in.eps[i].snapshot
  IN [LayerSpec(on, "source",
        Build(in.package) \o <<Line("cp", "modal_runner"), Line("env", "RUST_BACKTRACE")>>
        \o When(primes, <<Line("env", "SNAPSHOT_PRIME")>>)
        \o When(primes /\ in.bestEffort, <<Line("env", "SNAPSHOT_BEST_EFFORT")>>))
      EXCEPT !.wrapper = Adapters(in.eps)]

-------------------------------------------------------------------------------
(* Requests                                                                *)

Req(do, arg) == <<[do |-> do, arg |-> arg]>>
Failure == Req("fails", None)

(* The two planes: "live" sends, "recording" notes down. The app of the    *)
(* RUN path exists since connect.                                          *)
EnsureApp(plane, boundary) ==
  CASE boundary = "DEPLOY" -> Req("AppGetOrCreate", None)
    [] boundary = "RUN" /\ plane = "recording" -> Req("AppCreate", None)
    [] OTHER -> <<>>
EnsureSource(plane, in, disk) ==
  IF plane = "live" /\ in.scoping /\ disk.closure = "error" THEN Failure ELSE Req("Mount", "source")
(* The stub of the dependency layer, which needs the closure.              *)
EnsurePrebuild(plane, in, disk) ==
  CASE ~in.scoping \/ (plane = "live" /\ disk.stub = "none") -> <<>>
    [] in.scoping /\ plane = "live" /\ disk.stub = "error" -> Failure
    [] OTHER -> Req("Mount", "stub")
EnsureImage(spec) == Req("Image", Image(spec))

Secrets(ep) == FlattenSeq([i \in DOMAIN ep.secrets |-> Req("Secret", <<ep.secrets[i], ep.keys>>)])
               \o When(ep.env # <<>>, Req("InlineSecret", ep.name))
(* A user volume at the cache's mount point is refused on the RUN path.    *)
Volumes(ep, cache) ==
  FlattenSeq([i \in DOMAIN ep.volumes |->
    IF cache /\ ep.volumes[i][1] = "/cache" THEN Failure ELSE Req("Volume", ep.volumes[i][2])])

(* build_function_spec.                                                    *)
Webhook(boundary, ep) ==
  CASE boundary # "DEPLOY" \/ (ep.port = None /\ ep.method = None) -> None
    [] boundary = "DEPLOY" /\ ep.port # None -> <<"server", ep.port>>
    [] OTHER -> <<"endpoint", ep.method>>
FunctionSpec(boundary, in, ep) ==
  [tag |-> ep.name, webhook |-> Webhook(boundary, ep),
   callable |-> IF Webhook(boundary, ep) = None THEN "handler" ELSE <<Webhook(boundary, ep)[1], ep.name>>,
   mounts |-> IF boundary = "RUN" THEN {"client", "source"} ELSE {"client"},
   timeout |-> ep.timeout, gpu |-> ep.gpu,
   snapshot |-> ep.snapshot /\ boundary = "DEPLOY",
   volumes |-> {<<"/cache", "cargo">> : v \in IF boundary = "RUN" /\ in.cache THEN {1} ELSE {}}
               \cup ToSet(ep.volumes),
   secrets |-> Len(Secrets(ep))]

(* The creation of one function.                                           *)
Create(boundary, in, ep) ==
  Req("Precreate", ep.name)
  \o When(boundary = "DEPLOY", Secrets(ep) \o Volumes(ep, FALSE))
  \o (IF ep.valid THEN Req("Create", FunctionSpec(boundary, in, ep)) ELSE Failure)
  \o When(boundary = "RUN", Req("Publish", "ephemeral"))

UpToFailure(reqs) ==
  LET bad == {i \in DOMAIN reqs : reqs[i].do = "fails"}
  IN IF bad = {} THEN reqs ELSE SubSeq(reqs, 1, CHOOSE i \in bad : \A j \in bad : i <= j)

(* provision: resources (RUN), mounts, app (DEPLOY), image layers, one     *)
(* create per entrypoint, publish.                                         *)
Provision(plane, boundary, in, env, disk) ==
  LET run == boundary = "RUN"
      first == in.eps[1]
      dep == IF ~run /\ in.prebuild THEN EnsurePrebuild(plane, in, disk) ELSE <<>>
      base == Image(BaseSpec(in))
      depImage == Image(DepSpec(in, base))
      layers == IF run THEN EnsureImage(RunSpec(in, env))
                ELSE EnsureImage(BaseSpec(in)) \o dep
                     \o When(dep # <<>>, EnsureImage(DepSpec(in, base)))
                     \o EnsureImage(TopSpec(in, IF dep # <<>> THEN depImage ELSE base))
  IN UpToFailure(
       When(run, EnsureApp(plane, boundary) \o When(in.cache, Req("Volume", "cargo"))
                 \o Secrets(first) \o Volumes(first, in.cache))
       \o Req("Mount", "client") \o EnsureSource(plane, in, disk) \o Req("Mount", "python")
       \o When(~run, EnsureApp(plane, boundary))
       \o layers
       \o FlattenSeq([i \in DOMAIN in.eps |-> Create(boundary, in, in.eps[i])])
       \o When(~run, Req("Publish", "deployed")))

(* ProvisionInputs: a configuration, and what it is applied to.            *)
Inputs(config, cache, eps) ==
  [f \in DOMAIN config \cup {"cache", "eps"} |->
     CASE f = "cache" -> cache [] f = "eps" -> eps [] OTHER -> config[f]]

(* resolve_function and dry_run: options beat the configuration.           *)
RunInputs(config, ep) ==
  Inputs(ApplyFunctionImage(config, ep.image),
         IF ep.cache = None THEN config.cache ELSE ep.cache,
         <<[ep EXCEPT !.timeout = Or(@, config.timeout)]>>)

(* deploy_function: the endpoints' FastAPI joins the steps; a project      *)
(* without decorators is one function with the path's timeout.             *)
DeployInputs(config, eps, manual) ==
  LET image == WithFunctionImage(config, eps)
      plan == IF eps = <<>> THEN <<[manual EXCEPT !.timeout = config.timeout]>>
              ELSE [i \in DOMAIN eps |-> [eps[i] EXCEPT !.timeout = Or(@, config.timeout)]]
  IN Inputs(AppendEndpointPip(image, plan), FALSE, plan)
(* dump_deploy_manifest.                                                   *)
(* Mutant: the image declarations are not folded in.                       *)
DumpUnfolded(config, eps, manual) ==
  LET plan == IF eps = <<>> THEN <<manual>> ELSE eps
  IN Inputs(config, FALSE, [i \in DOMAIN plan |-> [plan[i] EXCEPT !.timeout = Or(@, config.timeout)]])
DumpInputs(config, eps, manual) ==
  LET plan == IF eps = <<>> THEN <<manual>> ELSE eps
  IN Inputs(WithFunctionImage(config, plan), FALSE,
            [i \in DOMAIN plan |-> [plan[i] EXCEPT !.timeout = Or(@, config.timeout)]])

-------------------------------------------------------------------------------
(* Properties. A case is [env, detected, eps, manual, disk]; manual is     *)
(* what a project without decorators deploys.                              *)

IsSeq(s) == Len(s) \in Nat /\ s = [i \in 1 .. Len(s) |-> s[i]]
IsOptions(ep) == /\ {"image", "method", "timeout", "secrets", "volumes"} \subseteq DOMAIN ep
                 /\ IsSeq(ep.secrets) /\ IsSeq(ep.volumes)
CaseType(c) == IsSeq(c.eps) /\ IsOptions(c.manual) /\ \A i \in DOMAIN c.eps : IsOptions(c.eps[i])

Live(c, boundary) ==
  IF boundary = "RUN"
  THEN Provision("live", boundary, RunInputs(RunConfig(c.env, c.detected), c.eps[1]), c.env, c.disk)
  ELSE Provision("live", boundary, DeployInputs(DeployDefault(c.env), c.eps, c.manual), c.env, c.disk)
Recorded(c, boundary) ==
  IF boundary = "RUN"
  THEN Provision("recording", boundary, RunInputs(RunConfig(c.env, c.detected), c.eps[1]), c.env, c.disk)
  ELSE Provision("recording", boundary, DumpInputs(DeployDefault(c.env), c.eps, c.manual), c.env, c.disk)
Fails(reqs) == reqs # <<>> /\ Last(reqs).do = "fails"
Agree(c, boundary) ==
  LET live == Live(c, boundary)
      dump == Recorded(c, boundary)
  IN IF Fails(live) \/ Fails(dump) THEN Fails(live) /\ Fails(dump)
     ELSE dump = IF boundary = "RUN" THEN Req("AppCreate", None) \o live ELSE live

(* A dry run notes down what a first call or a deploy would send, request  *)
(* by request, and fails when they would, where the closure of the package *)
(* can be computed; except for the app, which a call finds from connect,   *)
(* the FastAPI step of an endpoint, and the timeout and the image of a     *)
(* project without decorators (dump.rs:1-21, 580-590; deploy.rs:384-419).  *)
DumpMatchesLive(c) ==
  (/\ c.disk = [closure |-> "ok", stub |-> "ok"]
   /\ \A i \in DOMAIN c.eps : c.eps[i].method = None
   /\ c.manual.timeout = None /\ c.manual.image = None /\ c.manual.method = None) =>
    \A boundary \in {"RUN", "DEPLOY"} :
      (boundary = "RUN" => c.eps # <<>>) => Agree(c, boundary)

(* What a line of an image needs, and what it leaves behind.               *)
Needs(line) ==
  CASE line.do \in {"pip", "bake"} -> {"python"}
    [] line.do = "cargo" -> {"rust", "source"}
    [] line.do = "cp" -> {"built"}
    [] OTHER -> {}
Gives(line) ==
  CASE line.do = "copy" -> {line.arg}
    [] line.do = "rustup" -> {"rust"}
    [] line.do = "cargo" -> {"built"}
    [] line.do = "cp" -> {"runner"}
    [] line.do = "bake" -> {"wrapper"}
    [] line.do = "apt" -> ToSet(line.arg)
    [] OTHER -> {}

(* The lines of the layers in build order, each with its layer's context.  *)
Lines(reqs) ==
  LET images == SelectSeq(reqs, LAMBDA r : r.do = "Image")
  IN FlattenSeq([i \in DOMAIN images |->
       [j \in DOMAIN images[i].arg.commands |->
          [line |-> images[i].arg.commands[j], context |-> images[i].arg.context]]])

(* Every line finds what it needs: pip and the baked wrapper the python    *)
(* that was copied in, cargo a toolchain and the source, each COPY its own *)
(* mount. A RUN image never compiles and has zstd if it caches; a DEPLOY   *)
(* image ends with a runner of the real source, not of the dependency      *)
(* layer's stub (control_plane.rs:284-335, 364-433).                       *)
ImagesBuild(c) ==
  \A boundary \in {"RUN", "DEPLOY"} :
    LET config == IF boundary = "RUN"
                  THEN RunInputs(RunConfig(c.env, c.detected), c.eps[1])
                  ELSE DeployInputs(DeployDefault(c.env), c.eps, c.manual)
        ls == Lines(Live(c, boundary))
        copies == {i \in DOMAIN ls : ls[i].line = Line("copy", "source")}
        all == UNION {Gives(ls[i].line) : i \in DOMAIN ls}
    IN (boundary = "RUN" => c.eps # <<>>) /\ ~Fails(Live(c, boundary))
         /\ (config.base.rust \/ config.install) =>
       /\ \A i \in DOMAIN ls :
            Needs(ls[i].line) \subseteq {"rust"} \cup UNION {Gives(ls[j].line) : j \in 1 .. i - 1}
       /\ \A i \in DOMAIN ls : ls[i].line = Line("copy", "python") => ls[i].context = "python"
       /\ \A i \in copies : ls[i].context \in {"source", "stub"}
       /\ boundary = "RUN" => "built" \notin all /\ (config.cache => "zstd" \in all)
       /\ boundary = "DEPLOY" =>
            /\ {"runner", "wrapper"} \subseteq all
            /\ \E i \in copies : ls[i].context = "source" /\ \A j \in copies : j <= i
===============================================================================
