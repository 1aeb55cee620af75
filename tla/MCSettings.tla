------------------------------- MODULE MCSettings -------------------------------
(* The settings, inputs and processes that MCCallPath goes through.        *)
EXTENDS Integers, Sequences, FiniteSets, TLC

CONSTANTS None, Null, Unset, Blank, Absent, Invalid

-------------------------------------------------------------------------------
(* ClientSetup: the variables and the profile file of a machine.           *)
NoVariables == [v \in {"MODAL_SERVER_URL", "MODAL_TOKEN_ID", "MODAL_TOKEN_SECRET", "MODAL_ENVIRONMENT",
                       "MODAL_CONFIG_PATH", "MODAL_PROFILE", "MODAL_IS_REMOTE"} |-> Unset]
Environments ==
  {[NoVariables EXCEPT !["MODAL_TOKEN_ID"] = id, !["MODAL_TOKEN_SECRET"] = s,
                       !["MODAL_PROFILE"] = p, !["MODAL_CONFIG_PATH"] = path,
                       !["MODAL_IS_REMOTE"] = remote, !["MODAL_SERVER_URL"] = url] :
     id \in {Unset, Blank, "id-env"}, s \in {Unset, "secret-env"}, p \in {Unset, Blank, "work"},
     path \in {Unset, "path"}, remote \in {Unset, "1"}, url \in {Unset, "worker"}}
Profile(name, active, id, secret) ==
  [name |-> name, active |-> active, id |-> id, secret |-> secret, server |-> Unset, environment |-> Unset]
ProfileFiles == {Absent, Invalid, <<>>,
                 <<[Profile("home", FALSE, "id-1", "secret-1") EXCEPT !.server = "worker"],
                   Profile("work", TRUE, "id-2", "secret-2")>>,
                 <<Profile("home", FALSE, "id-1", Blank)>>}
Manifest(workspace, panic) == [workspace |-> workspace, panic |-> panic]
Chains == {<<Manifest(FALSE, p), Manifest(w, q)>> : w \in BOOLEAN, p, q \in {None, "abort", "unwind"}}
          \cup {<<Manifest(w, p)>> : w \in BOOLEAN, p \in {None, "abort", "unwind"}}
Machines == [env : Environments, files : {[home |-> f, configured |-> g] : f \in ProfileFiles, g \in {Absent} \cup
                                            {<<Profile("ci", FALSE, "id-3", "secret-3")>>}},
             chain : {<<Manifest(TRUE, None)>>}]
  \cup [env : {NoVariables}, files : {[home |-> <<>>, configured |-> Absent]}, chain : Chains]
KindOfUrl == [u \in {"worker", "https://api.modal.com"} |-> IF u = "worker" THEN "unix" ELSE "https"]
Tokens == {<<>>} \cup ({"id-1", "id-2", "id-3", "id-env"} \X {"secret-1", "secret-2", "secret-3", "secret-env"})

-------------------------------------------------------------------------------
(* BuildPlan: what a deploy or a first call is configured with.            *)
Variables == [dir |-> None, workspace |-> "w", crate |-> None, package |-> None, base |-> None,
              install |-> "unset", noCache |-> "unset", cacheTarget |-> "unset",
              prebuild |-> "unset", bestEffort |-> "unset"]
BuildEnvs ==
  {[Variables EXCEPT !.noCache = n, !.prebuild = p, !.package = q] :
     n \in {"unset", "on"}, p \in {"unset", "off"}, q \in {None, "p"}}
  \cup {[Variables EXCEPT !.base = [rust |-> FALSE], !.install = i] : i \in {"unset", "on"}}
  \cup {[Variables EXCEPT !.cacheTarget = "off", !.prebuild = "other", !.bestEffort = "on"]}
FastApiImage == [base |-> None, install |-> None, apt |-> <<>>, pip |-> <<"fastapi">>, run |-> <<"r">>]
RustImage == [base |-> [rust |-> TRUE], install |-> None, apt |-> <<"git">>, pip |-> <<>>, run |-> <<>>]
Function == [name |-> "f", image |-> None, method |-> None, port |-> None, timeout |-> None,
             gpu |-> None, snapshot |-> FALSE, env |-> <<>>, secrets |-> <<>>, keys |-> {},
             volumes |-> <<>>, valid |-> TRUE, cache |-> None]
Functions ==
  {Function,
   [Function EXCEPT !.image = FastApiImage, !.volumes = <<<<"/cache", "v">>>>, !.cache = FALSE],
   [Function EXCEPT !.volumes = <<<<"/cache", "v">>>>, !.snapshot = TRUE, !.secrets = <<"s">>, !.env = <<"k">>],
   [Function EXCEPT !.valid = FALSE, !.image = RustImage],
   [Function EXCEPT !.port = 80, !.timeout = 9],
   [Function EXCEPT !.method = "GET", !.image = FastApiImage],
   [Function EXCEPT !.method = "GET"]}
Sources == {[closure |-> "ok", stub |-> "ok"], [closure |-> "none", stub |-> "none"],
            [closure |-> "error", stub |-> "error"]}
Plans ==
  [env : BuildEnvs, detected : {None, "mine"},
   eps : {<<>>} \cup {<<f>> : f \in Functions} \cup {<<f, [g EXCEPT !.name = "g"]>> : f, g \in Functions},
   manual : {Function}, disk : Sources]
  \cup [env : BuildEnvs, detected : {None}, eps : {<<>>},
        manual : {[Function EXCEPT !.timeout = 60]}, disk : Sources]

-------------------------------------------------------------------------------
(* SourceUpload: a workspace of up to four crates, one below another, one  *)
(* outside.                                                                *)
AtA == <<"a">>
AtB == <<"b">>
AtC == <<"b", "c">>
AtF == <<"facade">>
Outside == <<"..", "o">>
Src(dir) == dir \o <<"src", "lib.rs">>
Dep(name, dir, kind) ==
  [name |-> name, key |-> name, dir |-> dir, kind |-> kind, cfg |-> FALSE, abs |-> FALSE]
Target(kind, name, path) == [kind |-> kind, name |-> name, path |-> path]
Crate(name, dir, deps) ==
  [name |-> name, members |-> None, default |-> None, exclude |-> {}, deps |-> deps,
   targets |-> {Target("lib", name, Src(dir))}]
Facade(dir) == Dep("modal-rust", dir, "normal")
AppDeps == {{Facade(f)} \cup d : f \in {None, AtF},
              d \in {{}, {Dep("c", AtC, "normal"), Dep("modal-cfg", Outside, "dev")}}
                   \cup {{Dep("b", AtB, k)} : k \in {"normal", "build", "dev"}}}
           \cup {{[Facade(None) EXCEPT !.cfg = TRUE]}}
BDeps == {{}, {Dep("o", Outside, "normal")}, {Dep("c", AtC, "normal"), Dep("x", None, "normal")},
          {Dep("c", AtC, "dev")}}
RootCrates ==
  {[Crate(None, <<>>, {}) EXCEPT !.members = {AtA, AtB, AtC, AtF}, !.default = d,
      !.exclude = {<<"old">>}, !.targets = {}] : d \in {None, {AtA, AtB}}}
  \cup {[Crate("r", <<>>, {Facade(None), Dep("a", AtA, "normal")} \cup d) EXCEPT !.members = {AtA, AtB, AtC, AtF}] :
          d \in {{}, {Dep("c", AtC, "dev")}}}
AppTargets == {{Target("lib", "a_lib", Src(AtA)), Target("test", "t", AtA \o <<"tests", "t.rs">>)},
               {Target("bin", "modal_runner", AtA \o <<"own.rs">>), Target("custom-build", "build", AtA \o <<"build.rs">>)}}
WorkspaceFiles ==
  [p \in {<<"Cargo.lock">>, Src(<<>>), Src(AtA), Src(AtB), Src(AtC), Src(AtF), AtA \o <<"own.rs">>,
           AtA \o <<"build.rs">>, AtA \o <<"tests", "t.rs">>, AtA \o <<"target", "x">>} |-> <<"real">>]
Pattern(name, keep) == [names |-> {name}, dirOnly |-> FALSE, keep |-> keep]
Workspace(root, appDeps, appTargets, bDeps, git, modal) ==
  [metadata |-> TRUE, files |-> WorkspaceFiles, gitignore |-> git, modalignore |-> modal,
   manifests |-> (<<>> :> root) @@ (AtA :> [Crate("a", AtA, appDeps) EXCEPT !.targets = appTargets])
                 @@ (AtB :> Crate("b", AtB, bDeps)) @@ (AtC :> Crate("c", AtC, {}))
                 @@ (AtF :> Crate("modal-rust", AtF, {})) @@ (Outside :> Crate("o", Outside, {}))]
Workspaces ==
  {Workspace(r, d, t, b, <<>>, <<>>) : r \in RootCrates, d \in AppDeps, t \in AppTargets, b \in BDeps}
  \cup {Workspace(r, d, t, {Dep("c", AtC, "normal")}, <<Pattern(n, FALSE)>>, m) :
          r \in RootCrates, d \in AppDeps, t \in AppTargets,
          n \in {"src", "build.rs"}, m \in {<<>>, <<Pattern("src", TRUE)>>}}
Uploads == [w : Workspaces, package : {"a", "r"}]
           \cup [w : {[w EXCEPT !.metadata = FALSE] : w \in Workspaces}, package : {"a"}]

-------------------------------------------------------------------------------
(* Decorators: one or two arguments above a handler, one above a class and *)
(* one above its method; then every shape of what they stand above.        *)
Str(parts) == [lit |-> "str", parts |-> parts]
Num(n) == [lit |-> "int", n |-> n]
Float(n) == [lit |-> "float", n |-> n]
Bool(b) == [lit |-> "bool", b |-> b]
List(items) == [lit |-> "list", items |-> items]
Arg(key, l) == [name |-> key, value |-> l]
CallOf(func, args) == [lit |-> "call", func |-> func, args |-> args]
Written ==
  {Arg("gpu", Str(p)) : p \in {<<"t4">>, <<"H100", 4>>, <<"H100", None>>}}
  \cup {Arg("timeout", Num(n)) : n \in {9, 2000009, 8000000}} \cup {Arg("cache", Bool(FALSE))}
  \cup {Arg("cpu", l) : l \in {Num(1), Num(5000), Float(12345), Float(-1)}}
  \cup {Arg("memory", Num(n)) : n \in {5, 2000000}}
  \cup {Arg("retries", l) :
          l \in {Num(3), CallOf("Retries", <<Arg("max_retries", Num(5))>>), CallOf("Cron", <<>>),
                 CallOf("Retries", <<Arg("initial_delay", Float(5000)), Arg("max_retries", Num(2)),
                                     Arg("backoff_coefficient", Num(2)), Arg("max_delay", Num(30))>>),
                 CallOf("Retries", <<Arg("max_delay", Num(30))>>)}}
  \cup {Arg("schedule", l) :
          l \in {CallOf("Cron", <<Arg(None, Str(<<"daily">>))>>), CallOf("Cron", <<Arg(None, Str(<<"at", "9">>))>>),
                 CallOf("Cron", <<Arg(None, Str(<<"daily">>)), Arg(None, Str(<<"CET">>))>>),
                 CallOf("Period", <<Arg("days", Num(1)), Arg("seconds", Float(15000)), Arg("days", Num(2))>>),
                 CallOf("Period", <<Arg("hours", Num(1000000))>>), CallOf("Period", <<Arg("hours", Float(15000))>>)}}
  \cup {Arg(k, Num(n)) : k \in {"min_containers", "max_containers", "scaledown_window",
                                "max_concurrent_inputs", "target_concurrent_inputs"}, n \in {0, 2}}
  \cup {Arg("secrets", List(<<Str(<<x>>)>>)) : x \in {"s", "t"}} \cup {Arg("secrets", List(<<>>))}
  \cup {Arg("env", [lit |-> "map", pairs |-> e]) : e \in {<<<<"K", "V">>>>, <<<<"K", "V">>, <<"K", "W">>>>}}
  \cup {Arg("volumes", List(<<Str(v)>>)) : v \in {<<"/data", "v">>, <<"/data">>, <<"", "v">>}}
  \cup {Arg("image", CallOf("Image", i)) : i \in {<<Arg("base", Str(<<"cuda">>)), Arg("pip", List(<<>>))>>,
          <<Arg("apt", List(<<Str(<<"git">>)>>)), Arg("install_rust", Bool(TRUE))>>, <<Arg("tag", Str(<<"x">>))>>}}
  \cup {Arg("enable_memory_snapshot", Bool(b)) : b \in BOOLEAN}
WebArgs == {Arg("method", Str(<<m>>)) : m \in {"GET", "HEAD"}} \cup {Arg("requires_proxy_auth", Bool(TRUE))}
           \cup {Arg("port", Num(n)) : n \in {80, 1000}} \cup {Arg("startup_timeout", Num(7)), Arg("name", Str(<<"handler">>))}
ArgLists == {<<>>} \cup {<<x>> : x \in Written \cup WebArgs}
Param(pat, type) == [pat |-> pat, type |-> type]
Handler == [kind |-> "function", ident |-> "f", async |-> FALSE, self |-> FALSE, generic |-> FALSE,
            params |-> <<Param("ident", "struct")>>, args |-> <<>>]
Handlers ==
  {[Handler EXCEPT !.args = <<x, y>>] : x, y \in Written}
  \cup {[Handler EXCEPT !.kind = k, !.args = s \o t \o u] :
          k \in {"function", "endpoint", "web_server"}, s, t \in {<<>>} \cup {<<x>> : x \in WebArgs},
          u \in {<<>>, <<Arg("gpu", Str(<<"t4">>))>>}}
  \cup [kind : {"function", "web_server"}, ident : {"f"}, async : BOOLEAN, self : BOOLEAN, generic : BOOLEAN,
        params : {<<>>} \cup {<<p>> : p \in [pat : {"ident", "tuple"}, type : {"struct", "ref", "other"}]}
                \cup {<<Param("ident", "struct"), p>> : p \in {Param("ident", "other"), Param("tuple", "other")}},
        args : {<<>>, <<Arg("port", Num(80))>>}]
Fn(ident, attrs, self, returns) == [ident |-> ident, attrs |-> attrs, async |-> FALSE, generic |-> FALSE,
                                    self |-> self, params |-> <<>>, returns |-> returns]
Attr(name, args) == [attr |-> name, args |-> args]
Load == Fn("load", <<Attr("enter", <<>>)>>, "none", "Result<Self>")
Embed(args) == Fn("embed", <<Attr("inline", <<>>), Attr("method", args)>>, "&self", "Result")
Class == [kind |-> "cls", ident |-> "C", named |-> TRUE, trait |-> FALSE, generic |-> FALSE,
          args |-> <<>>, fns |-> <<Load, Embed(<<>>)>>]
Dim == Fn("dim", <<Attr("method", <<Arg("cache", Bool(TRUE))>>)>>, "&self", "Result")
Fns == {Load, Dim, Embed(<<>>), [Load EXCEPT !.self = "&self"], [Load EXCEPT !.returns = "()"],
        [Dim EXCEPT !.self = "&mut self"], [Dim EXCEPT !.async = TRUE], [Dim EXCEPT !.generic = TRUE],
        [Dim EXCEPT !.params = <<Param("ident", "ref")>>], Fn("drop", <<Attr("exit", <<>>)>>, "&self", "()"),
        Fn("both", <<Attr("enter", <<>>), Attr("method", <<>>)>>, "&self", "Self"),
        Fn("web", <<Attr("endpoint", <<>>)>>, "&self", "()"), Fn("help", <<>>, "&mut self", "()")}
Classes ==
  {[Class EXCEPT !.args = x, !.fns = <<Load, Embed(y), Dim>>] : x, y \in ArgLists}
  \cup {[Class EXCEPT !.fns = <<x, y, z>>] : x, y, z \in Fns} \cup {[Class EXCEPT !.fns = <<Load>>]}
  \cup {[Class EXCEPT !.named = FALSE], [Class EXCEPT !.trait = TRUE], [Class EXCEPT !.generic = TRUE]}
Items == Handlers \cup Classes
UpperCase(s) == IF s = "t4" THEN "T4" ELSE s

-------------------------------------------------------------------------------
(* CallResults: handles and calls.                                         *)
Call == [encodes |-> TRUE, shape |-> "good", act |-> "returns", details |-> None, fits |-> TRUE]
Calls == {Call, [Call EXCEPT !.encodes = FALSE], [Call EXCEPT !.shape = "bad"],
          [Call EXCEPT !.act = "unencodable"], [Call EXCEPT !.act = "panics"], [Call EXCEPT !.fits = FALSE]}
         \cup {[Call EXCEPT !.act = "errs", !.details = d] : d \in {None, Null, "details"}}
ResultCases ==
  [h : [client : BOOLEAN, connected : BOOLEAN, linked : BOOLEAN],
   c : [op : {"remote", "spawn"}, own : Calls, inputs : {<<>>}]
       \cup [op : {"map", "starmap", "for_each", "spawn_map"}, own : {Call},
             inputs : {<<>>} \cup {<<x>> : x \in Calls} \cup {<<x, y>> : x, y \in Calls}]]

-------------------------------------------------------------------------------
(* RunnerDispatch: the processes.                                          *)
Registered(name, check, class, prime, cfg) ==
  [name |-> name, check |-> check, class |-> class, prime |-> prime, cfg |-> cfg]
Web(name, cfg) == [name |-> name, cfg |-> cfg]
App == [fns |-> <<Registered("f", TRUE, None, FALSE, 1), Registered("C.m", TRUE, "C", TRUE, 2),
                  Registered("C.n", FALSE, "C", TRUE, 3)>>,
        webs |-> <<Web("w", 4)>>]
TwiceF == [fns |-> <<Registered("f", TRUE, None, FALSE, 1), Registered("f", TRUE, None, FALSE, 2)>>,
           webs |-> <<>>]
SharedName == [fns |-> <<Registered("f", FALSE, None, FALSE, 1)>>, webs |-> <<Web("f", 4), Web("w", 5)>>]
OneShots == {<<"--entrypoint", e, "--input-json", i>> :
               e \in {"f", "C.m", "C.n", "none", "--input-json"}, i \in {"good", "badshape", "notjson"}}
Oddities == {<<>>, <<"--entrypoint", "f", "--entrypoint", "f", "--input-stdin">>,
             <<"--entrypoint", "f", "--input-stdin">>, <<"--entrypoint", "f", "--input-file", "a">>,
             <<"--entrypoint", "f", "--input-file", "gone">>}
Webs == {<<"--web-server", "--port", "80">>, <<"--web-server", "--port", "x">>,
         <<"--web-server", "--port", "80", "--entrypoint", "w">>}
Frames == {[kind |-> k, entry |-> "f", input |-> "good"] :
             k \in {"blank", "malformed", "restore", "prime", "unreadable"}}
          \cup {[kind |-> "request", entry |-> e, input |-> i] : e \in {"f", "C.m"}, i \in {"good", "badshape"}}
AllLaunches ==
  [inv : {App, TwiceF, SharedName}, stdin : {<<>>},
   argv : {<<"--describe">>} \cup Webs \cup Oddities \cup OneShots \cup {<<"--check-input">> \o o : o \in OneShots}]
  \cup [inv : {App}, argv : {<<"--serve">>}, stdin : {<<f, g>> : f, g \in Frames}]
StdinFiles == [p \in {"a", "-"} |-> "good"]
===============================================================================
