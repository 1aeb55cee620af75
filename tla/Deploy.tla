--------------------------------- MODULE Deploy ---------------------------------
(***************************************************************************)
(* The DEPLOY path: `App::deploy_with` (modal-rust/src/app.rs),            *)
(* deploy.rs deploy_function, the DEPLOY_BOUNDARY branch of                *)
(* control_plane.rs provision, and `App::call`, on one stable app name.    *)
(*                                                                         *)
(* A deployer is one `deploy` in some process.  The process was compiled   *)
(* from the source on disk, so its decorators are those of the version     *)
(* that was there; the upload reads the disk again.  It builds the base,   *)
(* the dependency and the top image layer, creates one Modal function per  *)
(* entrypoint and publishes the union at the end.  A caller is one         *)
(* `call(app, entrypoint)`.                                                *)
(*                                                                         *)
(* Modal is external: its images are named by their content, FunctionCreate*)
(* makes a definition that nobody reaches before AppPublish, and           *)
(* AppPublish REPLACES the app's functions.                                *)
(*                                                                         *)
(* Abstracted: app, mount and volume ids (get-or-create, no state of this  *)
(* program), resources, timeouts, URLs and the call's payload.             *)
(***************************************************************************)
EXTENDS Naturals, Sequences

CONSTANTS Deployers, Callers, Names, Tags, Attrs,
          Tag,          \* sanitize_object_tag
          WebAttr,      \* web_endpoint_attr
          ServerAttr,   \* web_server_attr
          Program,      \* version -> its entrypoints, in BTreeMap order
          Broken,       \* versions whose cargo build fails
          Prebuild,     \* DeployConfig.dep_prebuild
          Secrets,      \* the named secrets that exist
          Stub,         \* the synthesised dependency-only source tree
          None

Versions == DOMAIN Program
NamesIn == [v \in Versions |-> {Program[v][i].name : i \in DOMAIN Program[v]}]

(* DeployEntrypoint: a name and what its decorator says.                   *)
Entrypoints == [name : Names,
                kind : {"plain", "endpoint", "server"},
                env : Nat \cup {None},      \* env = {..}, as a value
                secrets : SUBSET STRING,    \* secrets = [..]
                options : [parses : BOOLEAN,  \* gpu, schedule, retries
                                              \* and method strings
                           min : Nat \cup {None},
                           max : Nat \cup {None},
                           window : Nat \cup {None},
                           inputs : Nat \cup {None},
                           target : Nat \cup {None}],
                snapshot : BOOLEAN,
                pip : SUBSET {"fastapi", "numpy"},  \* image = Image(..)
                image : BOOLEAN]

ASSUME ProgramType == /\ Program \in Seq(Seq(Entrypoints)) /\ Program # <<>>
                      /\ \A v \in Versions : Program[v] # <<>>
                      /\ \A v \in Versions : \A i, j \in DOMAIN Program[v] :
                           Program[v][i].name = Program[v][j].name => i = j
ASSUME NameMaps == /\ Tag \in [Names -> Tags]
                   /\ WebAttr \in [Names -> Attrs]
                   /\ ServerAttr \in [Names -> Attrs]
                   /\ "handler" \notin Attrs   \* they start with `web_`
ASSUME BrokenType == Broken \subseteq Versions
ASSUME MarkType == /\ Stub \notin Versions
                   /\ None \notin Versions \cup Names \cup {Stub}

VARIABLES
  disk,       \* the version of the source on disk
  pc,         \* where each deployer is
  plan,       \* the version its process was compiled from
  edited,     \* history: the source changed between its compile and upload
  source,     \* the version in its source mount
  layer,      \* the image it has built so far
  next,       \* index of the entrypoint it is at
  published,  \* its Published.function_ids: tag -> definition
  envOf,      \* Modal: inline secret (named by app and tag) -> value
  layout,     \* Modal: the app's functions, tag -> definition
  callPc, asked, got,   \* each caller: its state, name, and definition
  ran         \* what served the call: <<entrypoint, version>>, or None

deployer == <<plan, edited, source, layer, next, published>>
caller == <<callPc, asked, got, ran>>
vars == <<disk, pc, deployer, envOf, layout, caller>>

-------------------------------------------------------------------------------
NoFunctions == [g \in Tags |-> None]
NoLayer == [runner |-> None, fastapi |-> FALSE, prime |-> FALSE,
            adapters |-> [a \in Attrs |-> None]]
Deploying == {"source", "base", "dep", "top", "precreate", "secrets", "create",
              "publish", "resolve"}

Init == /\ disk = 1
        /\ pc = [d \in Deployers |-> "idle"]
        /\ plan = [d \in Deployers |-> None]
        /\ edited = [d \in Deployers |-> FALSE]
        /\ source = [d \in Deployers |-> None]
        /\ layer = [d \in Deployers |-> NoLayer]
        /\ next = [d \in Deployers |-> 1]
        /\ published = [d \in Deployers |-> NoFunctions]
        /\ envOf = NoFunctions
        /\ layout = NoFunctions
        /\ callPc = [c \in Callers |-> "idle"]
        /\ asked = [c \in Callers |-> None]
        /\ got = [c \in Callers |-> None]
        /\ ran = [c \in Callers |-> None]

Goto(d, from, to) == /\ pc[d] = from
                     /\ pc' = [pc EXCEPT ![d] = to]

Ep(d) == Program[plan[d]][next[d]]
FirstTag(d) == Tag[Program[plan[d]][1].name]

-------------------------------------------------------------------------------
(* The user edits the source.                                              *)
Edit == /\ disk < Len(Program)
        /\ disk' = disk + 1
        /\ edited' = [d \in Deployers |-> edited[d] \/ pc[d] = "source"]
        /\ UNCHANGED <<pc, plan, source, layer, next, published,
                       envOf, layout, caller>>

(* cargo builds the deploying process and its inventory; deploy_entrypoints *)
(* is the plan.                                                            *)
Start(d) == /\ Goto(d, "idle", "source")
            /\ plan' = [plan EXCEPT ![d] = disk]
            /\ UNCHANGED <<disk, edited, source, layer, next, published, envOf,
                           layout, caller>>

(* The client, source and python mounts, and the app.                      *)
EnsureMounts(d) == /\ Goto(d, "source", "base")
                   /\ source' = [source EXCEPT ![d] = disk]
                   /\ UNCHANGED <<disk, plan, edited, layer, next, published, envOf,
                                  layout, caller>>

-------------------------------------------------------------------------------
(* with_function_image: the first entrypoint that declares an image gives  *)
(* the shared image its steps.                                             *)
UserPip(v) == LET declaring == SelectSeq(Program[v], LAMBDA e : e.image)
              IN IF declaring = <<>> THEN {} ELSE Head(declaring).pip

(* append_endpoint_pip_step, after the fold: FastAPI for any endpoint      *)
(* unless the user's own steps install it.                                 *)
AnyEndpoint(v) == \E i \in DOMAIN Program[v] : Program[v][i].kind = "endpoint"
Fastapi(v) == AnyEndpoint(v) \/ "fastapi" \in UserPip(v)

(* The implementation_name that build_function_spec chooses.               *)
Callable(e) == CASE e.kind = "server"   -> ServerAttr[e.name]
                 [] e.kind = "endpoint" -> WebAttr[e.name]
                 [] e.kind = "plain"    -> "handler"

(* deploy_gates and baked_deploy_wrapper_src: one line `attr = adapter`    *)
(* per endpoint and then one per web server; Python keeps the last.        *)
Lines(v, attr) == {i \in DOMAIN Program[v] : /\ Program[v][i].kind # "plain"
                                             /\ Callable(Program[v][i]) = attr}
LineNumber(v, i) ==
  IF Program[v][i].kind = "server" THEN Len(Program[v]) + i ELSE i
LastOf(v, lines) ==
  CHOOSE i \in lines : \A j \in lines : LineNumber(v, j) <= LineNumber(v, i)
Kept(v, lines) ==
  IF lines = {} THEN None ELSE [kind |-> Program[v][LastOf(v, lines)].kind,
                                name |-> Program[v][LastOf(v, lines)].name]

(* Mutant: the lines of the web servers are left out.                      *)
AdaptersOfEndpoints(v) ==
  [a \in Attrs |->
     Kept(v, {i \in Lines(v, a) : Program[v][i].kind = "endpoint"})]
Adapters(v) == [a \in Attrs |-> Kept(v, Lines(v, a))]

(* deploy_gates: the prime is baked when any entrypoint has a snapshot.    *)
AnySnapshot(v) == \E i \in DOMAIN Program[v] : Program[v][i].snapshot

BuildBase(d) ==
  /\ Goto(d, "base", IF Prebuild THEN "dep" ELSE "top")
  /\ layer' = [layer EXCEPT ![d] = [NoLayer EXCEPT !.fastapi = Fastapi(plan[d])]]
  /\ UNCHANGED <<disk, plan, edited, source, next, published, envOf,
                 layout, caller>>

(* build_deploy_dep_layer_spec: a runner of the stub in target/, or no     *)
(* stub could be made and the layer is left out.                           *)
BuildDep(d) == /\ Goto(d, "dep", "top")
               /\ \/ layer' = [layer EXCEPT ![d].runner = Stub]
                  \/ UNCHANGED layer
               /\ UNCHANGED <<disk, plan, edited, source, next, published, envOf,
                              layout, caller>>

(* Mutant: cargo takes the runner of the stub for up to date.              *)
CopyIfMissing(old, v) == IF old = None THEN v ELSE old
(* COPY . / over the stub, and cargo build compiles what changed.          *)
Copied(old, v) == v

(* build_deploy_top_layer_spec; the build may fail.                        *)
BuildTop(d) ==
  /\ IF source[d] \in Broken
       THEN Goto(d, "top", "failed") /\ UNCHANGED layer
       ELSE /\ Goto(d, "top", "precreate")
            /\ layer' = [layer EXCEPT
                 ![d].runner = Copied(@, source[d]),
                 ![d].adapters = Adapters(plan[d]),
                 ![d].prime = AnySnapshot(plan[d])]
  /\ UNCHANGED <<disk, plan, edited, source, next, published, envOf,
                 layout, caller>>

-------------------------------------------------------------------------------
(* FunctionPrecreate under the object tag.                                 *)
Precreate(d) == /\ Goto(d, "precreate", "secrets")
                /\ UNCHANGED <<disk, deployer, envOf, layout, caller>>

(* Secret.from_dict is CREATE_IF_MISSING under a name made of app and tag. *)
CreateIfMissing(g, value) ==
  IF value # None /\ envOf[g] = None
    THEN envOf' = [envOf EXCEPT ![g] = value]
    ELSE UNCHANGED envOf

(* resolve_entrypoint_secrets, then the user volumes.                      *)
EnsureSecrets(d) ==
  /\ pc[d] = "secrets"
  /\ IF Ep(d).secrets \subseteq Secrets
       THEN /\ Goto(d, "secrets", "create")
            /\ CreateIfMissing(Tag[Ep(d).name], Ep(d).env)
       ELSE /\ Goto(d, "secrets", "failed")
            /\ UNCHANGED envOf
  /\ UNCHANGED <<disk, deployer, layout, caller>>

(* The checks of with_gpu, with_schedule, with_retry_policy, with_webhook, *)
(* with_concurrency and with_autoscaler.                                   *)
OptionsOk(o) ==
  /\ o.parses
  /\ o.inputs # 0 /\ o.target # 0
  /\ o.target # None => o.inputs # None /\ o.target <= o.inputs
  /\ o.min # None /\ o.max # None => o.min <= o.max
  /\ o.window # 0

Definition(d) == [by |-> d, name |-> Ep(d).name, version |-> plan[d],
                  image |-> layer[d], callable |-> Callable(Ep(d)),
                  inline |-> Ep(d).env # None]

(* Mutants of the record: only the latest function is remembered; the tag  *)
(* of the first entrypoint is taken for all.                               *)
RecordOnly(d) == published' = [published EXCEPT ![d] =
                   [NoFunctions EXCEPT ![Tag[Ep(d).name]] = Definition(d)]]
RecordFirst(d) == published' = [published EXCEPT
                    ![d][FirstTag(d)] = Definition(d)]
(* Published::record.                                                      *)
Record(d) == published' = [published EXCEPT
               ![d][Tag[Ep(d).name]] = Definition(d)]

(* build_function_spec and FunctionCreate, then the next entrypoint.       *)
Create(d) ==
  /\ pc[d] = "create"
  /\ IF OptionsOk(Ep(d).options)
       THEN /\ Goto(d, "create", IF next[d] = Len(Program[plan[d]])
                                   THEN "publish" ELSE "precreate")
            /\ Record(d)
            /\ next' = [next EXCEPT ![d] = @ + 1]
       ELSE /\ Goto(d, "create", "failed")
            /\ UNCHANGED <<published, next>>
  /\ UNCHANGED <<disk, plan, edited, source, layer, envOf, layout,
                 caller>>

-------------------------------------------------------------------------------
(* Mutant: the publish adds to the functions that are live.                *)
PublishUnion(d) == layout' = [g \in Tags |-> IF published[d][g] = None
                                THEN layout[g] ELSE published[d][g]]
(* AppPublish REPLACES the app's function set.                             *)
AppPublish(d) == layout' = published[d]

Publish(d) == /\ Goto(d, "publish", "resolve")
              /\ AppPublish(d)
              /\ UNCHANGED <<disk, deployer, envOf, caller>>

(* The answer is lost: retry_rpc will publish once more.                   *)
PublishLost(d) == /\ pc[d] = "publish"
                  /\ AppPublish(d)
                  /\ UNCHANGED <<disk, pc, deployer, envOf, caller>>

(* Mutant: from_name is polled until it gives the new function.            *)
ResolveOwn(d) == /\ pc[d] = "resolve"
                 /\ layout[FirstTag(d)] # None /\ layout[FirstTag(d)].by = d
                 /\ Goto(d, "resolve", "done")
                 /\ UNCHANGED <<disk, deployer, envOf, layout, caller>>
(* function_from_name(app, first_tag) proves that from_name works.         *)
Resolve(d) ==
  /\ pc[d] = "resolve"
  /\ Goto(d, "resolve", IF layout[FirstTag(d)] = None THEN "failed" ELSE "done")
  /\ UNCHANGED <<disk, deployer, envOf, layout, caller>>

(* An RPC fails for good, or the process is killed: what it knew is gone,  *)
(* what Modal was told stays.                                              *)
Fail(d) == /\ pc[d] \in Deploying
           /\ pc' = [pc EXCEPT ![d] = "failed"]
           /\ source' = [source EXCEPT ![d] = None]
           /\ layer' = [layer EXCEPT ![d] = NoLayer]
           /\ next' = [next EXCEPT ![d] = 1]
           /\ published' = [published EXCEPT ![d] = NoFunctions]
           /\ UNCHANGED <<disk, plan, edited, envOf, layout, caller>>

-------------------------------------------------------------------------------
(* call_function: resolve the entrypoint's own tag ...                     *)
Lookup(c, n) ==
  LET found == layout[Tag[n]]
  IN /\ callPc[c] = "idle"
     /\ callPc' = [callPc EXCEPT ![c] =
                     IF found = None THEN "not_found" ELSE "invoke"]
     /\ asked' = [asked EXCEPT ![c] = n]
     /\ got' = [got EXCEPT ![c] = found]
     /\ UNCHANGED <<disk, pc, deployer, envOf, layout, ran>>

(* What a function of the app runs for a call: the shared dispatch takes   *)
(* the entrypoint from the call, an adapter has its own; the baked runner  *)
(* knows the entrypoints of the source it was compiled from.               *)
Target(def, n) ==
  IF def.callable = "handler" THEN n
  ELSE IF def.image.adapters[def.callable] = None THEN None
  ELSE def.image.adapters[def.callable].name
Runs(def, n) ==
  LET runner == def.image.runner
  IN IF runner \in Versions /\ Target(def, n) \in NamesIn[runner]
       THEN <<Target(def, n), runner>> ELSE None

(* ... and invoke that function with (entrypoint, input).  One that a      *)
(* deploy has replaced meanwhile still runs or is gone.                    *)
Invoke(c) ==
  /\ callPc[c] = "invoke"
  /\ \/ /\ callPc' = [callPc EXCEPT ![c] = "done"]
        /\ ran' = [ran EXCEPT ![c] = Runs(got[c], asked[c])]
     \/ /\ layout[Tag[asked[c]]] # got[c]
        /\ callPc' = [callPc EXCEPT ![c] = "gone"]
        /\ UNCHANGED ran
  /\ UNCHANGED <<disk, pc, deployer, envOf, layout, asked, got>>

Step(d) == \/ EnsureMounts(d) \/ BuildBase(d) \/ BuildDep(d) \/ BuildTop(d)
           \/ Precreate(d) \/ EnsureSecrets(d) \/ Create(d)
           \/ Publish(d) \/ Resolve(d)

Next == \/ Edit
        \/ \E d \in Deployers : Start(d) \/ Step(d) \/ PublishLost(d) \/ Fail(d)
        \/ \E c \in Callers : Invoke(c) \/ \E n \in Names : Lookup(c, n)

Spec == Init /\ [][Next]_vars

(* The runtime polls a deploy or a call that can move.                     *)
Fairness == /\ \A d \in Deployers : WF_vars(Step(d))
            /\ \A c \in Callers : WF_vars(Invoke(c))
FairSpec == Spec /\ Fairness

-------------------------------------------------------------------------------
Handlers == [kind : {"endpoint", "server"}, name : Names]
Images(runners) == [runner : runners, fastapi : BOOLEAN, prime : BOOLEAN,
                    adapters : [Attrs -> Handlers \cup {None}]]
Definitions ==
  [by : Deployers, name : Names, version : Versions, inline : BOOLEAN,
   callable : Attrs \cup {"handler"}, image : Images(Versions)]
Functions == [Tags -> Definitions \cup {None}]
ASSUME NoValue == None \notin Handlers /\ None \notin Definitions

(* Types of every variable; no function is ever made of an image whose     *)
(* runner is the stub's.                                                   *)
TypeOK ==
  /\ disk \in Versions
  /\ pc \in [Deployers -> {"idle", "done", "failed"} \cup Deploying]
  /\ plan \in [Deployers -> Versions \cup {None}]
  /\ edited \in [Deployers -> BOOLEAN]
  /\ source \in [Deployers -> Versions \cup {None}]
  /\ layer \in [Deployers -> Images(Versions \cup {Stub, None})]
  /\ next \in [Deployers -> Nat \ {0}]
  /\ published \in [Deployers -> Functions]
  /\ envOf \in [Tags -> Nat \cup {None}]
  /\ layout \in Functions
  /\ callPc \in [Callers -> {"idle", "invoke", "done", "not_found", "gone"}]
  /\ asked \in [Callers -> Names \cup {None}]
  /\ got \in [Callers -> Definitions \cup {None}]
  /\ ran \in [Callers -> {None} \cup (Names \X Versions)]

(* The app is always one whole deploy: every function of it, and nothing   *)
(* of a deploy that failed on the way or that it replaced (deploy.rs:      *)
(* 371-374, "A single persistent AppPublish carries the UNION").           *)
WholeDeploys ==
  layout = NoFunctions \/
  \E d \in Deployers : plan[d] # None /\ \A g \in Tags :
    IF g \in {Tag[n] : n \in NamesIn[plan[d]]}
      THEN layout[g] # None /\ layout[g].by = d
      ELSE layout[g] = None

(* Every live function can do what its decorator asks for, with the image  *)
(* it shares with the others: its runner is the version that was uploaded  *)
(* and knows it, its adapter is its own and of its kind, FastAPI is there  *)
(* for an endpoint and the prime for a snapshot (control_plane.rs:487-503, *)
(* deploy.rs:83-89, 315-331).  Unless the source was edited between the    *)
(* compilation of the deploying process and its upload.                    *)
EntryOf(def) == CHOOSE e \in {Program[def.version][i] :
                                 i \in DOMAIN Program[def.version]} :
                  e.name = def.name
Servable ==
  \A g \in Tags : layout[g] # None /\ ~edited[layout[g].by] =>
    LET def == layout[g]
        e == EntryOf(def)
    IN /\ Runs(def, def.name) = <<def.name, def.version>>
       /\ e.kind # "plain" => def.image.adapters[def.callable].kind = e.kind
       /\ e.kind = "endpoint" => def.image.fastapi
       /\ e.snapshot => def.image.prime

(* A call that returns ran its own entrypoint in a function made for that  *)
(* entrypoint, of the version the app's name stood for when the call       *)
(* resolved it, whatever was deployed since (deploy.rs:491-493).           *)
CallRunsItsOwn ==
  \A c \in Callers : callPc[c] = "done" =>
    /\ got[c].name = asked[c]
    /\ ~edited[got[c].by] => ran[c] = <<asked[c], got[c].version>>

(* The environment of a live function is the one its decorator declares:   *)
(* `env = {..}` is "injected as env vars" (README.md:401) and a re-deploy  *)
(* replaces what was there (deploy.rs:44).                                 *)
EnvFollowsDeploy ==
  \A g \in Tags : layout[g] # None /\ layout[g].inline =>
    envOf[g] = EntryOf(layout[g]).env

(* Every deploy that starts returns, with a result or an error, also when  *)
(* others publish in between.                                              *)
DeployEnds ==
  \A d \in Deployers : pc[d] \in Deploying ~> pc[d] \in {"done", "failed"}

(* Deploys by many RPCs, any of which may fail, implement the service that *)
(* replaces one whole version by another and resolves calls in it.         *)
Current ==
  IF layout = NoFunctions THEN None
  ELSE (CHOOSE def \in {layout[g] : g \in Tags} : def # None).version
AnswerOf(c) ==
  IF asked[c] = None THEN None
  ELSE [name |-> asked[c],
        version |-> IF got[c] = None THEN None ELSE got[c].version]
Service == INSTANCE DeployService
             WITH current <- Current,
                  answer <- [c \in Callers |-> AnswerOf(c)]
ServiceSpec == Service!Spec
================================================================================
