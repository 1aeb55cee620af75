----------------------------- MODULE RunnerDispatch -----------------------------
(***************************************************************************)
(* The runner inside the container (modal-rust-runtime/src/lib.rs and the  *)
(* facade's registration.rs): the registry collected from the inventory,   *)
(* the modes of its command line, one call under catch_unwind, the serve   *)
(* loop with its prime frames, and the load-once instance of a #[cls]      *)
(* (modal-rust-macros/src/cls.rs emits its accessor).                      *)
(*                                                                         *)
(* Abstracted: an input is "notjson", "badshape" (JSON the entrypoint's In *)
(* refuses) or "good"; what user code does is one of Acts; a line of       *)
(* output keeps its kind, the frame it answers and, for a panic, the frame *)
(* whose panic the hook captured. Writing to stdout succeeds.              *)
(***************************************************************************)
EXTENDS Naturals, Sequences, SequencesExt, FiniteSets

CONSTANTS
  None,
  Launches,     \* processes: [inv, argv, stdin], where an inventory is
                \*   [fns : Seq([name, check, class, prime, cfg]), webs : Seq([name, cfg])]
                \* and stdin the frames that serve reads, each [kind, entry, input]
  Files,        \* what --input-file may name: path -> input; "-" is standard input
  Ports         \* tokens that parse as a u16

(* The registry and the frames are sequences, and a prime is of a class    *)
(* (cls.rs emits it beside the accessor).                                  *)
IsSeq(s) == s \in Seq({s[k] : k \in DOMAIN s})
LaunchesType ==
  \A l \in Launches :
    /\ IsSeq(l.stdin) /\ IsSeq(l.inv.fns) /\ IsSeq(l.inv.webs)
    /\ \A k \in DOMAIN l.inv.fns : l.inv.fns[k].prime => l.inv.fns[k].class # None

VARIABLES
  inv, argv, stdin,
  pc,       \* "start", "serve", "web" (a launcher is serving) or "exit"
  read,     \* frames of stdin taken so far
  out,      \* lines written
  entered,  \* classes whose OnceLock is set
  slot,     \* PANIC_SLOT of the runner's thread: a frame, or None
  code      \* exit code
vars == <<inv, argv, stdin, pc, read, out, entered, slot, code>>

(* What a handler's body does. A panic it catches itself also runs the     *)
(* hook; resume_unwind unwinds without running it.                         *)
Acts == {"returns", "errs", "unencodable", "panics", "catches", "resumes", "catches_resumes"}
Hooks(act) == act \in {"panics", "catches", "catches_resumes"}
Unwinds(act) == act \in {"panics", "resumes", "catches_resumes"}
Enters == {"loads", "errs", "panics"}

-------------------------------------------------------------------------------
(* The registry                                                            *)

Names(s) == {s[i].name : i \in DOMAIN s}
Unique(s) == \A i, j \in DOMAIN s : s[i].name = s[j].name => i = j

(* A name twice among the functions, or twice among the web servers, is a  *)
(* panic at startup; the two registries do not look at each other.         *)
Duplicated(i) == ~Unique(i.fns) \/ ~Unique(i.webs)

EntryOf(i, name) == i.fns[CHOOSE k \in DOMAIN i.fns : i.fns[k].name = name]
Primed(i) == {k \in DOMAIN i.fns : i.fns[k].prime}
Classes(i) == {i.fns[k].class : k \in DOMAIN i.fns}
Configs(i) == [k \in 1 .. Len(i.fns) + Len(i.webs) |->
                 LET r == IF k <= Len(i.fns) THEN i.fns[k] ELSE i.webs[k - Len(i.fns)]
                 IN [name |-> r.name, cfg |-> r.cfg]]

(* Every handler and every web server, with the first config of its name.  *)
Describe(i) ==
  LET configs == Configs(i)
      first(n) == configs[CHOOSE k \in DOMAIN configs :
                            configs[k].name = n /\ \A j \in 1 .. k - 1 : configs[j].name # n]
  IN {[name |-> n, cfg |-> first(n).cfg] : n \in Names(i.fns) \cup Names(i.webs)}

-------------------------------------------------------------------------------
(* The command line                                                        *)

ArgError == [ok |-> FALSE]
Flags == {"--entrypoint", "--input-json", "--input-file", "--input-stdin"}

(* One token: the value a flag waits for, whatever it looks like, or a     *)
(* flag not yet given; any other token is an error.                        *)
TakeToken(st, tok) ==
  CASE ~st.ok -> st
    [] st.want = "--entrypoint" -> [st EXCEPT !.ok = st.entry = None, !.entry = tok, !.want = None]
    [] st.want \in {"--input-json", "--input-file"} ->
         [st EXCEPT !.ok = st.source = None, !.source = <<st.want, tok>>, !.want = None]
    [] st.want = None /\ tok \in {"--entrypoint", "--input-json", "--input-file"} ->
         [st EXCEPT !.want = tok]
    [] st.want = None /\ tok = "--input-stdin" ->
         [st EXCEPT !.ok = st.source = None, !.source = <<tok>>]
    [] OTHER -> [st EXCEPT !.ok = FALSE]

ParseArgs(args) ==
  LET st == FoldLeft(TakeToken, [ok |-> TRUE, entry |-> None, source |-> None, want |-> None], args)
  IN IF st.ok /\ st.want = None /\ st.entry # None /\ st.source # None
     THEN [ok |-> TRUE, entry |-> st.entry, source |-> st.source]
     ELSE ArgError

Unreadable == "unreadable"
ReadInput(source) == CASE source[1] = "--input-json" -> source[2]
                       [] source[1] = "--input-file" ->
                            IF source[2] \in DOMAIN Files THEN Files[source[2]] ELSE Unreadable
                       [] OTHER -> Files["-"]

(* --web-server: a port (the last one given), and the launcher named, or   *)
(* the only one.                                                           *)
TakeWebToken(st, tok) ==
  CASE ~st.ok -> st
    [] st.want = "--port" -> [st EXCEPT !.ok = tok \in Ports, !.port = tok, !.want = None]
    [] st.want = "--entrypoint" -> [st EXCEPT !.entry = tok, !.want = None]
    [] st.want = None /\ tok \in {"--port", "--entrypoint"} -> [st EXCEPT !.want = tok]
    [] OTHER -> [st EXCEPT !.ok = FALSE]
Launchers(i, args) ==
  LET st == FoldLeft(TakeWebToken, [ok |-> TRUE, port |-> None, entry |-> None, want |-> None], args)
  IN IF ~st.ok \/ st.want # None \/ st.port = None THEN {}
     ELSE IF st.entry # None THEN Names(i.webs) \cap {st.entry}
     ELSE IF Cardinality(Names(i.webs)) = 1 THEN Names(i.webs) ELSE {}

-------------------------------------------------------------------------------
(* One call                                                                *)

Line(kind, frame, from) == [kind |-> kind, frame |-> frame, from |-> from]

(* The body under catch_unwind: f is the frame served, act and enter what  *)
(* user code does, s the slot before the call. A panic reply takes what    *)
(* the slot holds.                                                         *)
Unwound(f, hooked, s, loaded) ==
  [line |-> Line("panic", f, IF hooked THEN f ELSE s), slot |-> None, entered |-> loaded]
CallBody(i, e, f, act, enter, s, loaded) ==
  LET class == EntryOf(i, e).class
      fresh == class # None /\ class \notin loaded
      holding == IF fresh THEN loaded \cup {class} ELSE loaded
      after == IF Hooks(act) THEN f ELSE s
      kind == CASE act = "errs" -> "function_error"
                [] act = "unencodable" -> "encode_error"
                [] OTHER -> "ok"
  IN CASE fresh /\ enter = "errs" -> [line |-> Line("function_error", f, None), slot |-> s, entered |-> loaded]
       [] fresh /\ enter = "panics" -> Unwound(f, TRUE, s, loaded)
       [] OTHER -> IF Unwinds(act) THEN Unwound(f, Hooks(act), s, holding)
                   ELSE [line |-> Line(kind, f, None), slot |-> after, entered |-> holding]

(* Mutant: the slot keeps what the last call left.                         *)
RunStale(i, e, input, f, act, enter, s, loaded) ==
  IF input = "badshape"
  THEN [line |-> Line("decode_error", f, None), slot |-> s, entered |-> loaded]
  ELSE CallBody(i, e, f, act, enter, s, loaded)
(* run_handler of a typed! wrapper: clear the slot, decode, call, encode.  *)
RunHandler(i, e, input, f, act, enter, s, loaded) ==
  IF input = "badshape"
  THEN [line |-> Line("decode_error", f, None), slot |-> None, entered |-> loaded]
  ELSE CallBody(i, e, f, act, enter, None, loaded)

(* The order both paths answer in: JSON, entrypoint, decode, call, encode. *)
Serve(i, e, input, f, act, enter, s, loaded) ==
  CASE input = "notjson" -> [line |-> Line("decode_error", f, None), slot |-> s, entered |-> loaded]
    [] input # "notjson" /\ e \notin Names(i.fns) ->
         [line |-> Line("unknown_entrypoint", f, None), slot |-> s, entered |-> loaded]
    [] OTHER -> RunHandler(i, e, input, f, act, enter, s, loaded)

(* Mutant: the entrypoint is looked up first.                              *)
CheckNameFirst(i, e, input) ==
  CASE e \notin Names(i.fns) -> "unknown_entrypoint"
    [] e \in Names(i.fns) /\ input = "notjson" -> "decode_error"
    [] OTHER -> IF ~EntryOf(i, e).check THEN "unchecked"
                ELSE IF input = "badshape" THEN "decode_error" ELSE "ok"
(* run_check_input_inner: the same order, up to the decode; an entrypoint  *)
(* with no checker is let through, unchecked.                              *)
CheckInput(i, e, input) ==
  CASE input = "notjson" -> "decode_error"
    [] input # "notjson" /\ e \notin Names(i.fns) -> "unknown_entrypoint"
    [] OTHER -> IF ~EntryOf(i, e).check THEN "unchecked"
                ELSE IF input = "badshape" THEN "decode_error" ELSE "ok"

(* Every prime of the registry, in order, each under its own catch_unwind; *)
(* nothing clears the slot. enters[k] is what the k-th handler's class     *)
(* would do; a class that an earlier one loaded is not entered again.      *)
PrimeAll(i, enters, f, s, loaded) ==
  LET Loaded(k) == \/ i.fns[k].class \in loaded
                   \/ \E j \in Primed(i) : /\ j <= k /\ enters[j] = "loads"
                                           /\ i.fns[j].class = i.fns[k].class
      ok == {k \in Primed(i) : Loaded(k)}
      panicked == {k \in Primed(i) \ ok : enters[k] = "panics"}
  IN [ok |-> Cardinality(ok), failed |-> Cardinality(Primed(i) \ ok),
      entered |-> loaded \cup {i.fns[k].class : k \in ok},
      slot |-> IF panicked = {} THEN s ELSE f]

-------------------------------------------------------------------------------
(* The process                                                             *)

Init == /\ \E l \in Launches : inv = l.inv /\ argv = l.argv /\ stdin = l.stdin
        /\ pc = "start" /\ read = 0 /\ out = <<>>
        /\ entered = {} /\ slot = None /\ code = None

Given == <<inv, argv, stdin>>
Exit(c) == pc' = "exit" /\ code' = c

Mode == IF argv # <<>> /\ argv[1] \in {"--describe", "--serve", "--check-input", "--web-server"}
        THEN argv[1] ELSE "run"

StartPanics == /\ pc = "start" /\ Duplicated(inv)
               /\ Exit(101)
               /\ UNCHANGED <<Given, read, out, entered, slot>>

Start == pc = "start" /\ ~Duplicated(inv)

StartDescribe == /\ Start /\ Mode = "--describe"
                 /\ out' = <<[kind |-> "manifest", entries |-> Describe(inv)]>>
                 /\ Exit(0)
                 /\ UNCHANGED <<Given, read, entered, slot>>

StartServe == /\ Start /\ Mode = "--serve"
              /\ pc' = "serve"
              /\ UNCHANGED <<Given, read, out, entered, slot, code>>

(* Nothing but the exit code and stderr tells of bad arguments.            *)
StartCheck ==
  /\ Start /\ Mode = "--check-input"
  /\ LET args == ParseArgs(Tail(argv))
     IN IF ~args.ok \/ ReadInput(args.source) = Unreadable THEN Exit(1) /\ UNCHANGED out
        ELSE LET kind == CheckInput(inv, args.entry, ReadInput(args.source))
             IN out' = <<Line(kind, 0, None)>> /\ Exit(IF kind \in {"ok", "unchecked"} THEN 0 ELSE 1)
  /\ UNCHANGED <<Given, read, entered, slot>>

StartRun ==
  /\ Start /\ Mode = "run"
  /\ LET args == ParseArgs(argv)
     IN IF ~args.ok \/ ReadInput(args.source) = Unreadable
        THEN Exit(1) /\ UNCHANGED <<out, entered, slot>>
        ELSE \E act \in Acts, enter \in Enters :
               LET r == Serve(inv, args.entry, ReadInput(args.source), 0, act, enter, slot, entered)
               IN /\ out' = <<r.line>> /\ entered' = r.entered /\ slot' = r.slot
                  /\ Exit(IF r.line.kind = "ok" THEN 0 ELSE 1)
  /\ UNCHANGED <<Given, read>>

StartWeb == /\ Start /\ Mode = "--web-server"
            /\ IF Launchers(inv, Tail(argv)) = {} THEN Exit(1)
               ELSE pc' = "web" /\ UNCHANGED code
            /\ UNCHANGED <<Given, read, out, entered, slot>>
(* The launcher returns, fails, or takes the process down with a panic.    *)
WebEnds == /\ pc = "web"
           /\ \E c \in {0, 1, 101} : Exit(c)
           /\ UNCHANGED <<Given, read, out, entered, slot>>

Frame == stdin[read + 1]
TakeFrame == pc = "serve" /\ read < Len(stdin) /\ read' = read + 1
Answer(line) == out' = Append(out, line)

(* A line that is not UTF-8 ends the loop, and the process.                *)
ReadFails == /\ TakeFrame /\ Frame.kind = "unreadable"
             /\ Exit(1)
             /\ UNCHANGED <<Given, out, entered, slot>>
ReadBlank == /\ TakeFrame /\ Frame.kind = "blank"
             /\ UNCHANGED <<Given, pc, out, entered, slot, code>>
(* A kind this runner does not know, or no request object at all.          *)
Malformed == /\ TakeFrame /\ Frame.kind \in {"restore", "malformed"}
             /\ Answer(Line("decode_error", read', None))
             /\ UNCHANGED <<Given, pc, entered, slot, code>>
Prime == /\ TakeFrame /\ Frame.kind = "prime"
         /\ \E enters \in [Primed(inv) -> Enters] :
              LET p == PrimeAll(inv, enters, read', slot, entered)
              IN /\ Answer([kind |-> "ack", frame |-> read', from |-> None, primed |-> p.ok, failed |-> p.failed])
                 /\ entered' = p.entered /\ slot' = p.slot
         /\ UNCHANGED <<Given, pc, code>>
(* No kind, "request", or a kind that is not a string.                     *)
Request == /\ TakeFrame /\ Frame.kind = "request"
           /\ \E act \in Acts, enter \in Enters :
                LET r == Serve(inv, Frame.entry, Frame.input, read', act, enter, slot, entered)
                IN Answer(r.line) /\ entered' = r.entered /\ slot' = r.slot
           /\ UNCHANGED <<Given, pc, code>>
EndOfInput == /\ pc = "serve" /\ read = Len(stdin)
              /\ Exit(0)
              /\ UNCHANGED <<Given, read, out, entered, slot>>

Next == \/ StartPanics \/ StartDescribe \/ StartServe \/ StartCheck \/ StartRun \/ StartWeb
        \/ WebEnds \/ ReadFails \/ ReadBlank \/ Malformed \/ Prime \/ Request \/ EndOfInput

-------------------------------------------------------------------------------
Replies == {"ok", "function_error", "encode_error", "panic", "decode_error",
            "unknown_entrypoint", "unchecked"}
Lines == [kind : Replies, frame : 0 .. Len(stdin), from : {None} \cup 0 .. Len(stdin)]
         \cup [kind : {"ack"}, frame : 1 .. Len(stdin), from : {None}, primed : Nat, failed : Nat]
         \cup [kind : {"manifest"}, entries : {Describe(inv)}]
TypeOK == /\ \E l \in Launches : inv = l.inv /\ argv = l.argv /\ stdin = l.stdin
          /\ pc \in {"start", "serve", "web", "exit"}
          /\ read \in 0 .. Len(stdin)
          /\ out \in Seq(Lines)
          /\ entered \subseteq Classes(inv) \ {None}
          /\ slot \in {None} \cup 0 .. Len(stdin)
          /\ code \in {None, 0, 1, 101}

(* The loop answers each frame that is not blank with exactly one line, in *)
(* the order of the frames, whatever the calls before it did: the wrapper  *)
(* pairs answers with requests by counting (wrapper.py's readline). A      *)
(* panic reply never carries the message of another frame's panic.         *)
Answered == {k \in 1 .. read : stdin[k].kind \notin {"blank", "unreadable"}}
AnswersInOrder ==
  Mode = "--serve" =>
    /\ {out[k].frame : k \in DOMAIN out} = Answered
    /\ \A j, k \in DOMAIN out : j < k => out[j].frame < out[k].frame
    /\ \A k \in DOMAIN out : out[k].from \in {None, out[k].frame}

(* An ack with no failure means that every class to be snapshotted is      *)
(* loaded, and a call that succeeds found its class loaded.                *)
PrimedIsLoaded ==
  \A k \in DOMAIN out :
    /\ out[k].kind = "ack" =>
         /\ out[k].primed + out[k].failed = Cardinality(Primed(inv))
         /\ out[k].failed = 0 => {inv.fns[j].class : j \in Primed(inv)} \subseteq entered
    /\ (out[k].kind = "ok" /\ Mode = "--serve") =>
         EntryOf(inv, stdin[out[k].frame].entry).class \in entered \cup {None}

(* What --check-input says of an input is what a run would: it refuses     *)
(* only what every run refuses, with the same kind, and an input it passes *)
(* after checking fails no run by its name or its shape.                   *)
CheckPredictsRun ==
  (Mode = "--check-input" /\ out # <<>>) =>
    LET args == ParseArgs(Tail(argv))
        runs == {Serve(inv, args.entry, ReadInput(args.source), 0, a, n, None, {}).line.kind :
                   a \in Acts, n \in Enters}
    IN CASE out[1].kind = "unchecked" -> TRUE
         [] out[1].kind = "ok" -> runs \cap {"decode_error", "unknown_entrypoint"} = {}
         [] OTHER -> runs = {out[1].kind}

(* The manifest names every entrypoint once with the config it was         *)
(* declared with, as long as no function shares the name of a web server.  *)
DescribesAll ==
  (Mode = "--describe" /\ out # <<>> /\ Names(inv.fns) \cap Names(inv.webs) = {})
  => out[1].entries = ToSet(Configs(inv))

(* The command lines that the wrappers and the CLI build, whatever the     *)
(* name of the entrypoint and the input look like (wrapper.py:378,         *)
(* programmatic.rs:675).                                                   *)
TokensType(names, values) == None \notin Flags \cup names \cup (Flags \X values)
BuiltCommandsParse(names, values) ==
  \A n \in names, v \in values, flag \in {"--input-json", "--input-file"} :
    ParseArgs(<<"--entrypoint", n, flag, v>>) = [ok |-> TRUE, entry |-> n, source |-> <<flag, v>>]
===============================================================================
