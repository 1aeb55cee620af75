------------------------------- MODULE Decorators -------------------------------
(***************************************************************************)
(* From what a user writes above a handler to what Modal is asked for: the *)
(* grammar of the decorators (macros args.rs, specs.rs), the expansion of  *)
(* #[function], #[endpoint], #[web_server] (emit.rs) and #[cls] (cls.rs),  *)
(* the registration that carries the configuration through the binary      *)
(* (registration.rs), and the function that the facade defines from it     *)
(* (control_plane.rs) with the parsers of the SDK (function/parse.rs,      *)
(* function/spec.rs), as far as the request that defines it                *)
(* (function/rpc.rs).                                                      *)
(*                                                                         *)
(* A literal is a record: [lit |-> "int", n], [lit |-> "float", n] in      *)
(* ten-thousandths, [lit |-> "bool", b], [lit |-> "list", items],          *)
(* [lit |-> "map", pairs], [lit |-> "call", func, args] whose arguments    *)
(* have a name (None: positional) and a value, or [lit |-> "str", parts]:  *)
(* the pieces between its delimiter ('=' of a volume, ':' of a gpu, whose  *)
(* count is a number or None, or of a cron string). The strings that the   *)
(* macro renders and the SDK parses are the sequences of their components. *)
(*                                                                         *)
(* U16, I32, U32 and U64 bound the integers of those widths; Upper is      *)
(* to_uppercase.                                                           *)
(***************************************************************************)
EXTENDS Integers, Sequences, SequencesExt, FiniteSets

CONSTANTS None, U16, I32, U32, U64, Upper(_)

Has(s, P(_)) == \E i \in DOMAIN s : P(s[i])
All(s, P(_)) == \A i \in DOMAIN s : P(s[i])
Given(args, key) == SelectSeq(args, LAMBDA a : a.name = key)

-------------------------------------------------------------------------------
(* Values                                                                  *)

IsStr(l) == l.lit = "str"
IsInt(l, width) == l.lit = "int" /\ l.n \in 0 .. width - 1
IsNumber(l) == IsInt(l, U64) \/ (l.lit = "float" /\ l.n >= 0)
IsStrs(l) == l.lit = "list" /\ All(l.items, IsStr)
IsCall(l, func) == l.lit = "call" /\ l.func = func

(* A number of cores, or of seconds, in thousandths.                       *)
Milli(l) ==
  LET m == IF l.lit = "int" THEN l.n * 1000 ELSE l.n \div 10
  IN IF m < U32 THEN m ELSE U32 - 1

(* {"K" = "V", ..}: no key twice.                                          *)
IsEnv(l) == /\ l.lit = "map"
            /\ \A i, j \in DOMAIN l.pairs : l.pairs[i][1] = l.pairs[j][1] => i = j

(* ["/mount=name", ..]: both there, neither blank.                         *)
IsVolumes(l) == /\ IsStrs(l)
                /\ All(l.items, LAMBDA s : Len(s.parts) = 2 /\ "" \notin ToSet(s.parts))

(* Retries(max_retries = N, ..): the count first, then the others as       *)
(* written, in milliseconds.                                               *)
RetryKey == [max_retries |-> "max", backoff_coefficient |-> "backoff",
             initial_delay |-> "initial_ms", max_delay |-> "max_ms"]
IsRetries(l) ==
  /\ IsCall(l, "Retries") /\ Given(l.args, "max_retries") # <<>>
  /\ All(l.args, LAMBDA a : /\ a.name \in DOMAIN RetryKey
                            /\ IF a.name = "max_retries" THEN IsInt(a.value, U32) ELSE IsNumber(a.value))
RetriesSpec(l) ==
  LET others == SelectSeq(l.args, LAMBDA a : a.name # "max_retries")
      Backoff(v) == IF v.lit = "int" THEN v.n * 10000 ELSE v.n
  IN <<<<"max", Last(Given(l.args, "max_retries")).value.n>>>>
       \o [i \in DOMAIN others |->
             <<RetryKey[others[i].name],
               IF others[i].name = "backoff_coefficient" THEN Backoff(others[i].value)
               ELSE Milli(others[i].value)>>]

(* Cron("expr"[, "tz"]) or Period(days = 1, ..), whose digits are not read *)
(* here.                                                                   *)
PeriodKeys == {"years", "months", "weeks", "days", "hours", "minutes", "seconds"}
IsPeriod(l) ==
  /\ IsCall(l, "Period") /\ l.args # <<>>
  /\ All(l.args, LAMBDA a : /\ a.name \in PeriodKeys
                            /\ a.value.lit \in {"int"} \cup (IF a.name = "seconds" THEN {"float"} ELSE {}))
IsSchedule(l) ==
  \/ IsPeriod(l)
  \/ /\ IsCall(l, "Cron") /\ Len(l.args) \in {1, 2}
     /\ All(l.args, LAMBDA a : a.name = None /\ IsStr(a.value) /\ Len(a.value.parts) = 1)
PeriodSpec(l) ==
  [i \in DOMAIN l.args |->
     <<l.args[i].name, IF l.args[i].name = "seconds" /\ l.args[i].value.lit = "int"
                       THEN l.args[i].value.n * 10000 ELSE l.args[i].value.n>>]
ScheduleSpec(l) ==
  IF l.func = "Period" THEN [tag |-> "period", parts |-> PeriodSpec(l)]
  ELSE [tag |-> "cron",
        parts |-> <<IF Len(l.args) = 2 THEN l.args[2].value.parts[1] ELSE "UTC",
                    l.args[1].value.parts[1]>>]

(* Image(base = "..", install_rust = b, apt = [..], pip = [..], run = [..]): *)
(* the last of each; an empty list is not rendered.                        *)
IsImage(l) ==
  /\ IsCall(l, "Image")
  /\ All(l.args, LAMBDA a : \/ a.name = "base" /\ IsStr(a.value)
                            \/ a.name = "install_rust" /\ a.value.lit = "bool"
                            \/ a.name \in {"apt", "pip", "run"} /\ IsStrs(a.value))
Strings(l) == [i \in DOMAIN l.items |-> l.items[i].parts[1]]
ImageSpec(l) ==
  LET Value(k) == LET v == Last(Given(l.args, k)).value
                  IN CASE k = "base" -> v.parts[1] [] k = "install_rust" -> v.b [] OTHER -> Strings(v)
      Rendered(k) == k \in {"base", "install_rust"} \/ Value(k) # <<>>
      Named == {l.args[i].name : i \in DOMAIN l.args}
  IN [k \in {k \in Named : Rendered(k)} |-> Value(k)]

-------------------------------------------------------------------------------
(* The grammar                                                             *)

Counts == {"memory", "min_containers", "max_containers", "buffer_containers", "scaledown_window",
           "max_concurrent_inputs", "target_concurrent_inputs"}
Lists == {"secrets", "required_keys", "env", "volumes"}
Shared == {"gpu", "timeout", "cache", "cpu", "retries", "schedule", "image"} \cup Counts \cup Lists
Own == [function |-> {"name"}, endpoint |-> {"name", "method", "requires_proxy_auth"},
        web_server |-> {"name", "port", "startup_timeout"}, cls |-> {"enable_memory_snapshot"}]
Required == [function |-> {}, endpoint |-> {"method"}, web_server |-> {"port"}, cls |-> {}]
Methods == {"GET", "POST", "PUT", "DELETE", "PATCH"}

(* What each key takes.                                                    *)
Reads(key, l) ==
  CASE key \in {"name", "gpu"} -> IsStr(l)
    [] key = "method" -> IsStr(l) /\ l.parts[1] \in Methods
    [] key \in {"cache", "requires_proxy_auth", "enable_memory_snapshot"} -> l.lit = "bool"
    [] key \in Counts \cup {"startup_timeout"} -> IsInt(l, U32)
    [] key = "timeout" -> IsInt(l, U64)
    [] key = "port" -> IsInt(l, U16)
    [] key = "cpu" -> IsNumber(l)
    [] key = "retries" -> IsInt(l, U32) \/ IsRetries(l)
    [] key = "schedule" -> IsSchedule(l)
    [] key \in {"secrets", "required_keys"} -> IsStrs(l)
    [] key = "env" -> IsEnv(l)
    [] key = "volumes" -> IsVolumes(l)
    [] key = "image" -> IsImage(l)

(* A key that is set twice has the last value; a list grows.               *)
Value(key, l) ==
  CASE key = "gpu" -> l.parts
    [] key \in {"name", "method"} -> l.parts[1]
    [] l.lit = "bool" -> l.b
    [] key = "cpu" -> Milli(l)
    [] key = "schedule" -> ScheduleSpec(l)
    [] key = "image" -> ImageSpec(l)
    [] key = "env" -> l.pairs
    [] key = "volumes" -> [i \in DOMAIN l.items |-> l.items[i].parts]
    [] key \in {"secrets", "required_keys"} -> Strings(l)
    [] OTHER -> l.n
Set(cfg, a) ==
  CASE a.name = "retries" /\ a.value.lit = "call" -> [cfg EXCEPT !.retries_spec = RetriesSpec(a.value)]
    [] a.name \in Lists /\ cfg[a.name] # None -> [cfg EXCEPT ![a.name] = @ \o Value(a.name, a.value)]
    [] OTHER -> [cfg EXCEPT ![a.name] = Value(a.name, a.value)]

(* parse_decorator_config; None is a compile_error.                        *)
Unwritten == [k \in Shared \cup {"retries_spec"} \cup UNION {Own[kind] : kind \in DOMAIN Own} |->
                IF k = "requires_proxy_auth" THEN FALSE ELSE None]
Parse(args, kind) ==
  IF /\ All(args, LAMBDA a : a.name \in Shared \cup Own[kind] /\ Reads(a.name, a.value))
     /\ \A k \in Required[kind] : Has(args, LAMBDA a : a.name = k)
  THEN FoldLeft(Set, Unwritten, args)
  ELSE None

(* The FunctionConfig that is registered: timeout in 32 bits, lists and    *)
(* bits that are not set are empty and FALSE.                              *)
FunctionConfig(cfg) ==
  [k \in DOMAIN Unwritten \ {"name"} |->
     CASE k = "timeout" /\ cfg[k] # None -> cfg[k] % U32
       [] k \in Lists /\ cfg[k] = None -> <<>>
       [] k = "enable_memory_snapshot" /\ cfg[k] = None -> FALSE
       [] OTHER -> cfg[k]]

-------------------------------------------------------------------------------
(* The expansions: the registrations of an item, {} for a compile_error.   *)
(* Parameters are [pat, type]: a plain identifier (mut or not) or another  *)
(* pattern; "struct" (a bare path that names no scalar), "ref" or "other". *)

ModeA(h) == Len(h.params) = 1 /\ h.params[1].type = "struct"
Owned(p) == p.pat = "ident" /\ p.type # "ref"
Registration(name, kind, cfg, prime) ==
  [name |-> name, launcher |-> kind = "web_server", prime |-> prime, config |-> FunctionConfig(cfg)]

(* #[function], #[endpoint] and #[web_server] over a fn.                   *)
ShapeOk(h) ==
  /\ ~h.self
  /\ IF h.kind = "web_server" THEN Len(h.params) = 1
     ELSE ~h.async /\ (ModeA(h) \/ (~h.generic /\ All(h.params, Owned)))
ExpandHandler(h) ==
  LET cfg == Parse(h.args, h.kind) IN
  IF cfg = None \/ ~ShapeOk(h) THEN {}
  ELSE {Registration(IF cfg.name = None THEN <<h.ident>> ELSE <<cfg.name>>, h.kind, cfg, None)}

(* The markers of a fn of an impl block: "enter", "exit", "method" with    *)
(* its arguments; #[endpoint] and #[method = ..] are refused.              *)
Markers(f) == SelectSeq(f.attrs, LAMBDA a : a.attr \in {"enter", "exit", "method"})
MarkersOk(f) == /\ Len(Markers(f)) < 2
                /\ ~Has(f.attrs, LAMBDA a : a.attr \in {"endpoint", "method ="})
Marked(c, marker) == SelectSeq(c.fns, LAMBDA f : Has(Markers(f), LAMBDA a : a.attr = marker))

(* #[enter] makes the class out of nothing.                                *)
EnterOk(f) == f.self = "none" /\ f.params = <<>> /\ ~f.generic /\ f.returns \in {"Self", "Result<Self>"}

(* #[method] reads the class; its configuration is laid over the class's.  *)
MethodOk(f) == /\ ~f.async /\ ~f.generic /\ f.self = "&self" /\ All(f.params, Owned)
               /\ Parse(Markers(f)[1].args, "cls") # None
(* Mutant: the class is laid over the method.                              *)
ClassWins(class, over) ==
  [k \in DOMAIN class |-> IF class[k] = None THEN over[k] ELSE class[k]]
MergeOver(class, over) ==
  [k \in DOMAIN class |-> IF k = "requires_proxy_auth" THEN over[k] \/ class[k]
                          ELSE IF over[k] # None THEN over[k] ELSE class[k]]

(* #[cls]: one #[enter], some #[method]s, of an inherent impl of a struct. *)
ClassOk(c) ==
  /\ Parse(c.args, "cls") # None /\ c.named /\ ~c.trait /\ ~c.generic
  /\ All(c.fns, MarkersOk) /\ Marked(c, "exit") = <<>>
  /\ Len(Marked(c, "enter")) = 1 /\ All(Marked(c, "enter"), EnterOk)
  /\ Marked(c, "method") # <<>> /\ All(Marked(c, "method"), MethodOk)

(* Each method is an entrypoint, "<Class>.<method>"; the ones with a       *)
(* memory snapshot are primed, through the one singleton of the class.     *)
EmitCls(c) ==
  LET Config(f) == MergeOver(Parse(c.args, "cls"), Parse(Markers(f)[1].args, "cls"))
      Prime(f) == IF Config(f).enable_memory_snapshot = TRUE THEN c.ident ELSE None
  IN {Registration(<<c.ident, f.ident>>, "cls", Config(f), Prime(f)) : f \in ToSet(Marked(c, "method"))}
ExpandCls(c) == IF ClassOk(c) THEN EmitCls(c) ELSE {}

Expand(item) == IF item.kind = "cls" THEN ExpandCls(item) ELSE ExpandHandler(item)

-------------------------------------------------------------------------------
(* The function that Modal is asked for                                    *)

(* "TYPE[:count]"; the count must be a number.                             *)
GpuOk(parts) == Len(parts) = 1 \/ (parts[2] # None /\ parts[2] < U32)
GpuConfig(parts) == [gpu_type |-> Upper(parts[1]), count |-> IF Len(parts) = 1 THEN 1 ELSE parts[2]]

(* "retries:max=N[,..]": what is missing is Modal's default.               *)
Policy(n, backoff, initial, max) ==
  [retries |-> n, backoff_coefficient |-> backoff, initial_delay_ms |-> initial, max_delay_ms |-> max]
Piece(parts, key, default) ==
  LET found == SelectSeq(parts, LAMBDA p : p[1] = key) IN IF found = <<>> THEN default ELSE Last(found)[2]
ParseRetriesSpec(parts) ==
  Policy(Piece(parts, "max", None), Piece(parts, "backoff", 10000),
         Piece(parts, "initial_ms", 1000), Piece(parts, "max_ms", 60000))
FixedRetries(n) == Policy(n, 10000, 1000, 60000)

(* "cron:tz:expr" or "period:key=value,..": whole numbers in 32 bits.      *)
ScheduleOk(spec) ==
  spec.tag = "period" => All(spec.parts, LAMBDA p : p[1] = "seconds" \/ p[2] < I32)
ParseSchedule(spec) ==
  IF spec.tag = "cron" THEN [timezone |-> spec.parts[1], cron_string |-> spec.parts[2]]
  ELSE [k \in PeriodKeys |-> Piece(spec.parts, k, 0)]

(* What the builder refuses of the autoscaler and of concurrency.          *)
AutoscalerOk(o) ==
  /\ o.min_containers # None /\ o.max_containers # None => o.min_containers <= o.max_containers
  /\ o.scaledown_window # 0
ConcurrencyOk(o) ==
  /\ o.max_concurrent_inputs # 0 /\ o.target_concurrent_inputs # 0
  /\ o.target_concurrent_inputs # None =>
       o.max_concurrent_inputs # None /\ o.target_concurrent_inputs <= o.max_concurrent_inputs

(* A URL, of a deploy alone: a port is a proxy, a method a function.       *)
Webhook(o, deployed) ==
  LET Of(method, port, startup) ==
        [method |-> method, requires_proxy_auth |-> o.requires_proxy_auth,
         web_server_port |-> port, web_server_startup_timeout |-> startup]
  IN CASE deployed /\ o.port # None -> Of("", o.port, o.startup_timeout)
       [] deployed /\ o.port = None /\ o.method # None -> Of(o.method, None, None)
       [] OTHER -> None

WebhookOk(w) == w.web_server_port # None \/ w.method \in Methods

(* The attribute of the wrapper module that serves an entrypoint: its own  *)
(* adapter behind a URL, else the one dispatcher.                          *)
Callable(name, w) == CASE w = None -> <<"handler">>
                       [] w # None /\ w.web_server_port # None -> <<"web_server_">> \o name
                       [] OTHER -> <<"web_">> \o name

(* build_function_spec; None when the builder refuses it.                  *)
Refused(o, deployed) ==
  \/ o.gpu # None /\ ~GpuOk(o.gpu)
  \/ o.schedule # None /\ ~ScheduleOk(o.schedule)
  \/ ~AutoscalerOk(o) \/ ~ConcurrencyOk(o)
  \/ Webhook(o, deployed) # None /\ ~WebhookOk(Webhook(o, deployed))
Definition(name, o, deployed) ==
  [object_tag |-> name,
   function_name |-> Callable(name, Webhook(o, deployed)),
   gpu |-> IF o.gpu = None THEN None ELSE GpuConfig(o.gpu),
   milli_cpu |-> IF o.cpu = None THEN 0 ELSE o.cpu,
   memory_mb |-> IF o.memory = None THEN 0 ELSE o.memory,
   timeout_secs |-> o.timeout,
   autoscaler |-> [k \in {"min_containers", "max_containers", "buffer_containers", "scaledown_window"} |-> o[k]],
   concurrency |-> [k \in {"max_concurrent_inputs", "target_concurrent_inputs"} |-> o[k]],
   schedule |-> IF o.schedule = None THEN None ELSE ParseSchedule(o.schedule),
   retry_policy |-> IF o.retries_spec # None THEN ParseRetriesSpec(o.retries_spec)
                    ELSE IF o.retries # None THEN FixedRetries(o.retries) ELSE None,
   checkpointing |-> o.enable_memory_snapshot /\ deployed,
   webhook |-> Webhook(o, deployed)]
BuildFunctionSpec(name, o, deployed) ==
  IF Refused(o, deployed) THEN None ELSE Definition(name, o, deployed)

(* build_function_create_request. A number, a list or a name that is not   *)
(* set is 0, empty or None on the wire; a message may be absent. The knobs *)
(* of the autoscaler travel twice, in their message and in the fields that *)
(* were before it.                                                         *)
OrZero(v) == IF v = None THEN 0 ELSE v
WebhookConfig(w) ==
  CASE w = None -> None
    [] w # None /\ w.web_server_port # None ->
         [type |-> "web_server", method |-> "", requires_proxy_auth |-> w.requires_proxy_auth,
          port |-> w.web_server_port, startup_timeout |-> OrZero(w.web_server_startup_timeout)]
    [] OTHER -> [type |-> "function", method |-> w.method, requires_proxy_auth |-> w.requires_proxy_auth,
                 port |-> 0, startup_timeout |-> 0]
AutoscalerSettings(knobs) == IF \A k \in DOMAIN knobs : knobs[k] = None THEN None ELSE knobs
CreateRequest(spec) ==
  [function_name |-> spec.object_tag,
   implementation_name |-> IF spec.object_tag = spec.function_name THEN None ELSE spec.function_name,
   resources |-> [gpu_config |-> spec.gpu, milli_cpu |-> spec.milli_cpu, memory_mb |-> spec.memory_mb],
   timeout_secs |-> spec.timeout_secs,
   autoscaler_settings |-> AutoscalerSettings(spec.autoscaler),
   mirrors |-> [k \in DOMAIN spec.autoscaler |-> OrZero(spec.autoscaler[k])],
   concurrency |-> [k \in DOMAIN spec.concurrency |-> OrZero(spec.concurrency[k])],
   schedule |-> spec.schedule,
   retry_policy |-> spec.retry_policy,
   checkpointing_enabled |-> spec.checkpointing,
   is_checkpointing_function |-> spec.checkpointing,
   webhook_config |-> WebhookConfig(spec.webhook),
   input_formats |-> IF spec.webhook = None THEN {"pickle", "cbor"} ELSE {"asgi"},
   output_formats |-> IF spec.webhook = None THEN {"pickle", "cbor"} ELSE {"asgi", "generator_done"}]

-------------------------------------------------------------------------------
(* What the user wrote: the decorator of the entrypoint, and where that    *)
(* does not name the key, the decorator of its class.                      *)

Overrides(item, r) ==
  IF item.kind # "cls" THEN item.args
  ELSE Markers(CHOOSE f \in ToSet(Marked(item, "method")) : f.ident = r.name[2])[1].args
Inherited(item) == IF item.kind = "cls" THEN item.args ELSE <<>>
Written(item, r, key) ==
  LET own == Given(Overrides(item, r), key) IN IF own # <<>> THEN own ELSE Given(Inherited(item), key)
Asked(item, r, key) == LET w == Written(item, r, key) IN IF w = <<>> THEN None ELSE Last(w).value
Number(l) == IF l = None THEN None ELSE l.n
Is(l) == l # None /\ l.b
TenThousandths(l) == IF l.lit = "int" THEN l.n * 10000 ELSE l.n
Thousandths(l) == CHOOSE m \in {TenThousandths(l) \div 10, U32 - 1} : m < U32 /\ m * 10 <= TenThousandths(l)
Part(l, name, F(_), default) ==
  LET found == Given(l.args, name) IN IF found = <<>> THEN default ELSE F(Last(found).value)

PolicyAsked(l) ==
  CASE l = None -> None
    [] l # None /\ l.lit = "int" -> FixedRetries(l.n)
    [] OTHER -> Policy(Part(l, "max_retries", Number, None), Part(l, "backoff_coefficient", TenThousandths, 10000),
                       Part(l, "initial_delay", Thousandths, 1000), Part(l, "max_delay", Thousandths, 60000))
ScheduleAsked(l) ==
  CASE l = None -> None
    [] l # None /\ l.func = "Cron" ->
         [timezone |-> IF Len(l.args) = 1 THEN "UTC" ELSE l.args[2].value.parts[1],
          cron_string |-> l.args[1].value.parts[1]]
    [] OTHER -> [k \in PeriodKeys |-> Part(l, k, LAMBDA x : IF k = "seconds" THEN TenThousandths(x) ELSE x.n, 0)]
WebhookAsked(item, Of(_), deployed) ==
  IF ~deployed \/ item.kind \in {"function", "cls"} THEN None
  ELSE [type |-> IF item.kind = "endpoint" THEN "function" ELSE "web_server",
        method |-> IF item.kind = "endpoint" THEN Of("method").parts[1] ELSE "",
        requires_proxy_auth |-> Is(Of("requires_proxy_auth")),
        port |-> OrZero(Number(Of("port"))), startup_timeout |-> OrZero(Number(Of("startup_timeout")))]
Together(item, r, key, Of(_)) ==
  FlattenSeq([i \in DOMAIN Written(item, r, key) |-> Of(Written(item, r, key)[i].value)])
ImageAsked(l, image) ==
  IF l = None THEN image = None
  ELSE /\ \A k \in {"apt", "pip", "run"} :
            Part(l, k, Strings, <<>>) = IF k \in DOMAIN image THEN image[k] ELSE <<>>
       /\ Part(l, "base", LAMBDA v : v.parts[1], None) = IF "base" \in DOMAIN image THEN image.base ELSE None
       /\ Part(l, "install_rust", LAMBDA v : v.b, None) =
            IF "install_rust" \in DOMAIN image THEN image.install_rust ELSE None

(* Retries(..) on one decorator and a number on the other are both kept,   *)
(* and the struct form wins wherever it was written.                       *)
OneRetriesForm(item, r) ==
  \A a, b \in ToSet(Given(Overrides(item, r) \o Inherited(item), "retries")) : a.value.lit = b.value.lit

(* How Modal reads a request (external): what it runs in the container,    *)
(* and a knob, from the message or from the field that was before it.      *)
Runs(req) == IF req.implementation_name = None THEN req.function_name ELSE req.implementation_name
Knob(req, k) == IF req.autoscaler_settings = None THEN None ELSE req.autoscaler_settings[k]
AdapterAsked(item, name, deployed) ==
  CASE deployed /\ item.kind = "endpoint" -> <<"web_">> \o name
    [] deployed /\ item.kind = "web_server" -> <<"web_server_">> \o name
    [] OTHER -> <<"handler">>

(* Whatever decorator compiles, the function that Modal is asked for is    *)
(* the one that was written, on every path from the macro to the request:  *)
(* key by key the value of the method, else of its class, else Modal's     *)
(* default; a URL and a snapshot for a deploy alone, and a snapshot only   *)
(* where the runner has a hook to load the class. Nothing that compiled is *)
(* refused on the way but for a limit that two keys or the width of a      *)
(* number set.                                                             *)
DecoratorsReach(item) ==
  \A r \in Expand(item), deployed \in BOOLEAN :
    LET spec == BuildFunctionSpec(r.name, r.config, deployed)
        req == CreateRequest(spec)
        Of(key) == Asked(item, r, key)
    IN IF spec = None
       THEN \/ ~AutoscalerOk(r.config) \/ ~ConcurrencyOk(r.config)
            \/ Of("gpu") # None /\ Len(Of("gpu").parts) = 2
            \/ Of("schedule") # None /\ Has(Of("schedule").args, LAMBDA a : a.value.lit = "int" /\ a.value.n >= I32)
       ELSE /\ req.function_name = r.name
            /\ Runs(req) = AdapterAsked(item, r.name, deployed)
            /\ req.resources.gpu_config = IF Of("gpu") = None THEN None ELSE GpuConfig(Of("gpu").parts)
            /\ req.resources.milli_cpu = IF Of("cpu") = None THEN 0 ELSE Thousandths(Of("cpu"))
            /\ req.resources.memory_mb = IF Of("memory") = None THEN 0 ELSE Of("memory").n
            /\ req.timeout_secs = Number(Of("timeout")) \/ Of("timeout").n >= U32
            /\ \A k \in DOMAIN req.mirrors :
                 Knob(req, k) = Number(Of(k)) /\ req.mirrors[k] = OrZero(Number(Of(k)))
            /\ \A k \in DOMAIN req.concurrency : req.concurrency[k] = OrZero(Number(Of(k)))
            /\ req.schedule = ScheduleAsked(Of("schedule"))
            /\ OneRetriesForm(item, r) => req.retry_policy = PolicyAsked(Of("retries"))
            /\ req.checkpointing_enabled = (deployed /\ Is(Of("enable_memory_snapshot")))
            /\ req.is_checkpointing_function = req.checkpointing_enabled
            /\ req.webhook_config = WebhookAsked(item, Of, deployed)
            /\ ("pickle" \in req.input_formats \cup req.output_formats) = (req.webhook_config = None)
            /\ req.checkpointing_enabled => r.prime = item.ident
            /\ r.launcher = (item.kind = "web_server")
            /\ r.config.secrets = Together(item, r, "secrets", Strings)
            /\ r.config.volumes = Together(item, r, "volumes", LAMBDA v : [i \in DOMAIN v.items |-> v.items[i].parts])
            /\ r.config.env = Together(item, r, "env", LAMBDA v : v.pairs)
            /\ ImageAsked(Of("image"), r.config.image)
===============================================================================
