----------------------------- MODULE Answers_proofs -----------------------------
(***************************************************************************)
(* Proofs about what is answered (the parts "run", "results" and "client"  *)
(* of CallPath): by the runner, whose serve loop takes a frame only when   *)
(* the frame before it is answered; over the wire, where a failure is      *)
(* sealed in an envelope and told again; and to a client, whose            *)
(* configuration is one profile below what the environment sets.           *)
(***************************************************************************)
EXTENDS CallPath, FiniteSetTheorems, WellFoundedInduction, TLAPS

-------------------------------------------------------------------------------
(* A nonempty set of indices of a sequence has a least one.                *)
LEMMA LeastOf ==
  ASSUME NEW S, S \subseteq Nat, S # {}
  PROVE  \E m \in S : \A n \in S : m <= n
<1> DEFINE Before == OpToRel(<, Nat)
<1>1. IsWellFoundedOn(Before, Nat)
  BY NatLessThanWellFounded
<1>2. PICK m \in S : \A n \in S : <<n, m>> \notin Before
  <2> HIDE DEF Before
  <2> QED
    BY <1>1, WFMin
<1>3. ASSUME NEW n \in S PROVE m <= n
  <2>1. ~(n < m) /\ n \in Nat /\ m \in Nat
    BY <1>2 DEF OpToRel
  <2> QED
    BY <2>1
<1> QED
  BY <1>3

-------------------------------------------------------------------------------
(* The runner: what one call answers, loads and leaves in the slot.        *)
LEMMA EntryAmong ==
  ASSUME NEW i, NEW e \in R!Names(i.fns)
  PROVE  \E k \in DOMAIN i.fns : R!EntryOf(i, e) = i.fns[k]
BY DEF R!Names, R!EntryOf

LEMMA CalledBody ==
  ASSUME NEW i, NEW e \in R!Names(i.fns), NEW f, NEW act \in R!Acts, NEW enter \in R!Enters,
         NEW s, NEW loaded
  PROVE  LET r == R!CallBody(i, e, f, act, enter, s, loaded)
         IN /\ r.line \in [kind : {"ok", "function_error", "encode_error", "panic"},
                           frame : {f}, from : {None, f, s}]
            /\ r.slot \in {None, s, f}
            /\ loaded \subseteq r.entered
            /\ r.entered \subseteq loaded \cup (R!Classes(i) \ {None})
            /\ r.line.kind = "ok" => R!EntryOf(i, e).class \in r.entered \cup {None}
<1> DEFINE class == R!EntryOf(i, e).class
           fresh == class # None /\ class \notin loaded
           holding == IF fresh THEN loaded \cup {class} ELSE loaded
           after == IF R!Hooks(act) THEN f ELSE s
           says == CASE act = "errs" -> "function_error"
                     [] act = "unencodable" -> "encode_error"
                     [] OTHER -> "ok"
           r == R!CallBody(i, e, f, act, enter, s, loaded)
<1>1. class \in R!Classes(i)
  BY EntryAmong DEF R!Classes
<1>2. /\ loaded \subseteq holding /\ holding \subseteq loaded \cup (R!Classes(i) \ {None})
      /\ class \in holding \cup {None}
  BY <1>1
<1>3. says \in {"ok", "function_error", "encode_error"}
  OBVIOUS
<1>4. \/ r = [line |-> R!Line("function_error", f, None), slot |-> s, entered |-> loaded]
      \/ r = R!Unwound(f, TRUE, s, loaded)
      \/ r = R!Unwound(f, R!Hooks(act), s, holding)
      \/ r = [line |-> R!Line(says, f, None), slot |-> after, entered |-> holding]
  BY DEF R!CallBody
<1>5. after \in {s, f}
  OBVIOUS
<1> HIDE DEF class, fresh, holding, after, says, r
<1>6. CASE r = [line |-> R!Line("function_error", f, None), slot |-> s, entered |-> loaded]
  BY <1>6 DEF R!Line, r
<1>7. CASE r = R!Unwound(f, TRUE, s, loaded)
  BY <1>7 DEF R!Line, R!Unwound, r
<1>8. CASE r = R!Unwound(f, R!Hooks(act), s, holding)
  BY <1>2, <1>8 DEF R!Line, R!Unwound, r
<1>9. CASE r = [line |-> R!Line(says, f, None), slot |-> after, entered |-> holding]
  BY <1>2, <1>3, <1>5, <1>9 DEF R!Line, r, class
<1> QED
  BY <1>4, <1>6, <1>7, <1>8, <1>9 DEF r

(* What a served request's result holds: one reply to its own frame, whose *)
(* panic line never carries a message that was in the slot before.         *)
ServedAs(r, i, e, f, s, loaded) ==
  /\ r.line \in [kind : R!Replies, frame : {f}, from : {None, f}]
  /\ r.slot \in {None, s, f}
  /\ loaded \subseteq r.entered
  /\ r.entered \subseteq loaded \cup (R!Classes(i) \ {None})
  /\ r.line.kind = "ok" => R!EntryOf(i, e).class \in r.entered \cup {None}

LEMMA CallServed ==
  ASSUME NEW i, NEW e, NEW input, NEW f, NEW act \in R!Acts, NEW enter \in R!Enters,
         NEW s, NEW loaded, NEW r, r = R!Serve(i, e, input, f, act, enter, s, loaded)
  PROVE  ServedAs(r, i, e, f, s, loaded)
<1> USE DEF ServedAs
<1> DEFINE called == R!CallBody(i, e, f, act, enter, None, loaded)
           Refused(says, t) == r = [line |-> R!Line(says, f, None), slot |-> t, entered |-> loaded]
<1>1. \/ Refused("decode_error", s) \/ Refused("decode_error", None)
      \/ Refused("unknown_entrypoint", s)
      \/ e \in R!Names(i.fns) /\ r = called
  BY DEF R!Serve, R!RunHandler
<1>2. CASE e \in R!Names(i.fns) /\ r = called
  <2>1. /\ called.line \in [kind : {"ok", "function_error", "encode_error", "panic"},
                            frame : {f}, from : {None, f, None}]
        /\ called.slot \in {None, None, f}
        /\ loaded \subseteq called.entered
        /\ called.entered \subseteq loaded \cup (R!Classes(i) \ {None})
        /\ called.line.kind = "ok" => R!EntryOf(i, e).class \in called.entered \cup {None}
    BY <1>2, CalledBody
  <2> HIDE DEF called
  <2> QED
    BY <1>2, <2>1 DEF R!Replies
<1> HIDE DEF called
<1>3. ASSUME NEW says \in {"decode_error", "unknown_entrypoint"}, NEW t \in {None, s}, Refused(says, t)
      PROVE  /\ r.line \in [kind : R!Replies, frame : {f}, from : {None, f}]
             /\ r.slot \in {None, s, f}
             /\ loaded \subseteq r.entered
             /\ r.entered \subseteq loaded \cup (R!Classes(i) \ {None})
             /\ r.line.kind # "ok"
  BY <1>3 DEF R!Line, R!Replies
<1> QED
  BY <1>1, <1>2, <1>3

(* What --check-input says of an input, a run of it would.                 *)
LEMMA CheckedAsRun ==
  ASSUME NEW i, NEW e, NEW input
  PROVE  LET says == R!CheckInput(i, e, input)
             kinds == {R!Serve(i, e, input, 0, a, n, None, {}).line.kind : a \in R!Acts, n \in R!Enters}
         IN /\ says \in R!Replies
            /\ CASE says = "unchecked" -> TRUE
                 [] says = "ok" -> kinds \cap {"decode_error", "unknown_entrypoint"} = {}
                 [] OTHER -> kinds = {says}
<1> DEFINE says == R!CheckInput(i, e, input)
           run(a, n) == R!Serve(i, e, input, 0, a, n, None, {}).line.kind
           kinds == {run(a, n) : a \in R!Acts, n \in R!Enters}
<1>1. says \in {"ok", "unchecked", "decode_error", "unknown_entrypoint"}
  BY DEF R!CheckInput
<1>2. R!Acts # {} /\ R!Enters # {}
  BY DEF R!Acts, R!Enters
<1>3. ASSUME NEW a \in R!Acts, NEW n \in R!Enters
      PROVE  /\ says = "ok" => run(a, n) \notin {"decode_error", "unknown_entrypoint"}
             /\ says \in {"decode_error", "unknown_entrypoint"} => run(a, n) = says
  <2>1. CASE input = "notjson"
    BY <2>1 DEF R!CheckInput, R!Serve, R!Line
  <2>2. CASE input # "notjson" /\ e \notin R!Names(i.fns)
    BY <2>2 DEF R!CheckInput, R!Serve, R!Line
  <2>3. CASE input = "badshape" /\ e \in R!Names(i.fns)
    BY <2>3 DEF R!CheckInput, R!Serve, R!RunHandler, R!Line
  <2>4. CASE input \notin {"notjson", "badshape"} /\ e \in R!Names(i.fns)
    <3>1. R!CallBody(i, e, 0, a, n, None, {}).line
            \in [kind : {"ok", "function_error", "encode_error", "panic"},
                 frame : {0}, from : {None, 0, None}]
      BY <2>4, CalledBody
    <3>2. R!Serve(i, e, input, 0, a, n, None, {}) = R!CallBody(i, e, 0, a, n, None, {})
      BY <2>4 DEF R!Serve, R!RunHandler
    <3>3. says \in {"ok", "unchecked"}
      BY <2>4 DEF R!CheckInput
    <3> QED
      BY <3>1, <3>2, <3>3
  <2> QED
    BY <2>1, <2>2, <2>3, <2>4
<1>4. says = "ok" => kinds \cap {"decode_error", "unknown_entrypoint"} = {}
  BY <1>3
<1>5. says \in {"decode_error", "unknown_entrypoint"} => kinds = {says}
  BY <1>2, <1>3
<1>6. says \in R!Replies
  BY <1>1 DEF R!Replies
<1> HIDE DEF says, kinds
<1> QED
  BY <1>1, <1>4, <1>5, <1>6 DEF says, kinds

(* A sequence's indices.                                                   *)
LEMMA SeqDomain == \A s : R!IsSeq(s) => Len(s) \in Nat /\ DOMAIN s = 1 .. Len(s)
<1> SUFFICES ASSUME NEW s, R!IsSeq(s) PROVE Len(s) \in Nat /\ DOMAIN s = 1 .. Len(s)
  OBVIOUS
<1>1. PICK S : s \in Seq(S)
  BY DEF R!IsSeq
<1> QED
  BY <1>1

(* In a registry without duplicates, no name being shared, --describe      *)
(* names every function and web server with its own config.                *)
LEMMA DescribedAll ==
  ASSUME NEW i, R!IsSeq(i.fns), R!IsSeq(i.webs), ~R!Duplicated(i),
         R!Names(i.fns) \cap R!Names(i.webs) = {}
  PROVE  R!Describe(i) = R!ToSet(R!Configs(i))
<1>a. PICK n \in Nat : n = Len(i.fns) /\ DOMAIN i.fns = 1 .. n
  BY SeqDomain
<1>b. PICK m \in Nat : m = Len(i.webs) /\ DOMAIN i.webs = 1 .. m
  BY SeqDomain
<1>1. DOMAIN i.fns = 1 .. n /\ DOMAIN i.webs = 1 .. m
  BY <1>a, <1>b
<1> DEFINE entry(k) == IF k <= n THEN i.fns[k] ELSE i.webs[k - n]
<1>2. PICK configs : /\ configs = R!Configs(i)
                     /\ DOMAIN configs = 1 .. n + m
                     /\ \A k \in 1 .. n + m :
                          configs[k] = [name |-> entry(k).name, cfg |-> entry(k).cfg]
  <2>1. R!Configs(i) = [k \in 1 .. n + m |-> [name |-> entry(k).name, cfg |-> entry(k).cfg]]
    BY <1>a, <1>b DEF R!Configs
  <2> HIDE DEF entry
  <2> QED
    BY <2>1
<1>3. \A k \in 1 .. n + m : configs[k].name = entry(k).name
  BY <1>2
<1>4. \A k \in 1 .. n + m : IF k <= n THEN k \in DOMAIN i.fns ELSE k - n \in DOMAIN i.webs
  BY <1>1
<1>5. ASSUME NEW j \in 1 .. n + m, NEW k \in 1 .. n + m, configs[j].name = configs[k].name
      PROVE  j = k
  <2>1. entry(j).name = entry(k).name
    BY <1>3, <1>5
  <2>2. CASE j <= n /\ k <= n
    BY <1>4, <2>1, <2>2 DEF R!Duplicated, R!Unique
  <2>3. CASE ~(j <= n) /\ ~(k <= n)
    <3>1. j - n = k - n
      BY <1>4, <2>1, <2>3 DEF R!Duplicated, R!Unique
    <3> QED
      BY <1>1, <3>1
  <2>4. CASE j <= n /\ ~(k <= n)
    BY <1>4, <2>1, <2>4 DEF R!Names
  <2>5. CASE ~(j <= n) /\ k <= n
    BY <1>4, <2>1, <2>5 DEF R!Names
  <2> QED
    BY <2>2, <2>3, <2>4, <2>5
<1>6. \A x : x \in R!Names(i.fns) \cup R!Names(i.webs)
               <=> \E k \in 1 .. n + m : configs[k].name = x
  <2>1. ASSUME NEW x \in R!Names(i.fns) PROVE \E k \in 1 .. n + m : configs[k].name = x
    <3>1. PICK k \in DOMAIN i.fns : i.fns[k].name = x
      BY <2>1 DEF R!Names
    <3>2. k \in 1 .. n + m /\ k <= n
      BY <1>1
    <3> QED
      BY <1>3, <3>1, <3>2
  <2>2. ASSUME NEW x \in R!Names(i.webs) PROVE \E k \in 1 .. n + m : configs[k].name = x
    <3>1. PICK k \in DOMAIN i.webs : i.webs[k].name = x
      BY <2>2 DEF R!Names
    <3>2. n + k \in 1 .. n + m /\ ~(n + k <= n) /\ (n + k) - n = k
      BY <1>1
    <3> QED
      BY <1>3, <3>1, <3>2
  <2>3. ASSUME NEW k \in 1 .. n + m
        PROVE  configs[k].name \in R!Names(i.fns) \cup R!Names(i.webs)
    BY <1>3, <1>4 DEF R!Names
  <2> QED
    BY <2>1, <2>2, <2>3
<1> DEFINE first(x) == CHOOSE k \in DOMAIN configs :
                         configs[k].name = x /\ \A j \in 1 .. k - 1 : configs[j].name # x
<1>7. ASSUME NEW k \in 1 .. n + m PROVE first(configs[k].name) = k
  <2>1. \A j \in 1 .. k - 1 : configs[j].name # configs[k].name
    <3> SUFFICES ASSUME NEW j \in 1 .. k - 1 PROVE configs[j].name # configs[k].name
      OBVIOUS
    <3>1. j \in 1 .. n + m /\ j # k
      BY <1>1
    <3> QED
      BY <1>5, <3>1
  <2> QED
    BY <1>2, <1>5, <2>1
<1>8. R!Describe(i) = {[name |-> x, cfg |-> configs[first(x)].cfg] :
                         x \in R!Names(i.fns) \cup R!Names(i.webs)}
  BY <1>2 DEF R!Describe
<1>9. R!ToSet(configs) = {configs[k] : k \in 1 .. n + m}
  BY <1>2 DEF R!ToSet
<1>10. \A k \in 1 .. n + m : configs[k] = [name |-> configs[k].name, cfg |-> configs[k].cfg]
  BY <1>2
<1> HIDE DEF first
<1>11. ASSUME NEW d \in R!Describe(i) PROVE d \in R!ToSet(configs)
  <2>1. PICK x \in R!Names(i.fns) \cup R!Names(i.webs) :
          d = [name |-> x, cfg |-> configs[first(x)].cfg]
    BY <1>8, <1>11
  <2>2. PICK k \in 1 .. n + m : configs[k].name = x
    BY <1>6, <2>1
  <2>3. d = configs[k]
    BY <1>7, <1>10, <2>1, <2>2
  <2> QED
    BY <1>9, <2>3
<1>12. ASSUME NEW k \in 1 .. n + m PROVE configs[k] \in R!Describe(i)
  <2>1. configs[k].name \in R!Names(i.fns) \cup R!Names(i.webs)
    BY <1>6
  <2>2. configs[k] = [name |-> configs[k].name, cfg |-> configs[first(configs[k].name)].cfg]
    BY <1>7, <1>10
  <2> QED
    BY <1>8, <2>1, <2>2
<1> QED
  BY <1>2, <1>9, <1>11, <1>12

(* A prime frame loads what it says is loaded.                             *)
LEMMA PrimedAll ==
  ASSUME NEW i, R!IsSeq(i.fns), \A k \in R!Primed(i) : i.fns[k].class # None,
         NEW enters, NEW f, NEW s, NEW loaded
  PROVE  LET p == R!PrimeAll(i, enters, f, s, loaded)
         IN /\ p.ok \in Nat /\ p.failed \in Nat
            /\ p.ok + p.failed = R!Cardinality(R!Primed(i))
            /\ p.failed = 0 => {i.fns[k].class : k \in R!Primed(i)} \subseteq p.entered
            /\ loaded \subseteq p.entered
            /\ p.entered \subseteq loaded \cup (R!Classes(i) \ {None})
            /\ p.slot \in {s, f}
<1> DEFINE Loaded(k) == \/ i.fns[k].class \in loaded
                        \/ \E j \in R!Primed(i) : /\ j <= k /\ enters[j] = "loads"
                                                  /\ i.fns[j].class = i.fns[k].class
           ok == {k \in R!Primed(i) : Loaded(k)}
           panicked == {k \in R!Primed(i) \ ok : enters[k] = "panics"}
           p == R!PrimeAll(i, enters, f, s, loaded)
<1>1. p = [ok |-> R!Cardinality(ok), failed |-> R!Cardinality(R!Primed(i) \ ok),
           entered |-> loaded \cup {i.fns[k].class : k \in ok},
           slot |-> IF panicked = {} THEN s ELSE f]
  BY DEF R!PrimeAll
<1>2. ok \subseteq R!Primed(i)
  OBVIOUS
<1> HIDE DEF ok, panicked, p
<1>3. R!Primed(i) \subseteq 1 .. Len(i.fns) /\ Len(i.fns) \in Nat
  BY DEF R!Primed, R!IsSeq
<1>4. IsFiniteSet(R!Primed(i))
  <2>1. IsFiniteSet(1 .. Len(i.fns))
    BY <1>3, FS_Interval
  <2> QED
    BY <1>3, <2>1, FS_Subset
<1>5. /\ IsFiniteSet(ok) /\ IsFiniteSet(R!Primed(i) \ ok)
      /\ Cardinality(ok) \in Nat /\ Cardinality(R!Primed(i) \ ok) \in Nat
  BY <1>2, <1>4, FS_Subset, FS_CardinalityType
<1>6. Cardinality(ok) + Cardinality(R!Primed(i) \ ok) = Cardinality(R!Primed(i))
  <2>1. ok \cup (R!Primed(i) \ ok) = R!Primed(i) /\ ok \cap (R!Primed(i) \ ok) = {}
    BY <1>2
  <2>2. Cardinality(ok \cup (R!Primed(i) \ ok))
          = Cardinality(ok) + Cardinality(R!Primed(i) \ ok) - Cardinality(ok \cap (R!Primed(i) \ ok))
    BY <1>5, FS_Union
  <2> QED
    <3>1. Cardinality(ok \cap (R!Primed(i) \ ok)) = 0
      BY <2>1, FS_EmptySet
    <3>2. Cardinality(R!Primed(i)) = Cardinality(ok) + Cardinality(R!Primed(i) \ ok) - 0
      BY <2>1, <2>2, <3>1
    <3> QED
      BY <1>5, <3>2
<1>7. \A S : R!Cardinality(S) = Cardinality(S)
  BY DEF R!Cardinality, Cardinality
<1>8. Cardinality(R!Primed(i) \ ok) = 0 => ok = R!Primed(i)
  BY <1>2, <1>5, FS_EmptySet
<1>9. {i.fns[k].class : k \in ok} \subseteq R!Classes(i) \ {None}
  BY <1>2 DEF R!Primed, R!Classes
<1>10. /\ p.ok = Cardinality(ok) /\ p.failed = Cardinality(R!Primed(i) \ ok)
       /\ p.entered = loaded \cup {i.fns[k].class : k \in ok}
       /\ p.slot \in {s, f}
  BY <1>1, <1>7
<1> QED
  BY <1>5, <1>6, <1>7, <1>8, <1>9, <1>10 DEF p

RunnerInv == /\ R!TypeOK /\ R!AnswersInOrder /\ R!PrimedIsLoaded
             /\ R!CheckPredictsRun /\ R!DescribesAll
             /\ pc = "start" => out = <<>> /\ read = 0
             /\ pc = "serve" => R!Mode = "--serve"

(* What a process was given keeps its shape.                               *)
LEMMA Shapes ==
  R!TypeOK => /\ R!IsSeq(stdin) /\ R!IsSeq(inv.fns) /\ R!IsSeq(inv.webs)
              /\ \A k \in R!Primed(inv) : inv.fns[k].class # None
              /\ Len(stdin) \in Nat /\ DOMAIN stdin = 1 .. Len(stdin)
<1> SUFFICES ASSUME R!TypeOK
             PROVE  /\ R!IsSeq(stdin) /\ R!IsSeq(inv.fns) /\ R!IsSeq(inv.webs)
                    /\ \A k \in R!Primed(inv) : inv.fns[k].class # None
                    /\ Len(stdin) \in Nat /\ DOMAIN stdin = 1 .. Len(stdin)
  OBVIOUS
<1>1. PICK l \in Launches : inv = l.inv /\ argv = l.argv /\ stdin = l.stdin
  BY DEF R!TypeOK
<1>2. /\ R!IsSeq(stdin) /\ R!IsSeq(inv.fns) /\ R!IsSeq(inv.webs)
      /\ \A k \in DOMAIN inv.fns : inv.fns[k].prime => inv.fns[k].class # None
  BY <1>1, RunConstants DEF R!LaunchesType
<1>3. Len(stdin) \in Nat /\ DOMAIN stdin = 1 .. Len(stdin)
  BY <1>2 DEF R!IsSeq
<1> QED
  BY <1>2, <1>3 DEF R!Primed

LEMMA RunnerStarts == R!Init => RunnerInv
<1> SUFFICES ASSUME R!Init PROVE RunnerInv
  OBVIOUS
<1>1. PICK l \in Launches : inv = l.inv /\ argv = l.argv /\ stdin = l.stdin
  BY DEF R!Init
<1>2. /\ pc = "start" /\ read = 0 /\ out = <<>> /\ entered = {} /\ slot = None /\ code = None
  BY DEF R!Init
<1>3. Len(stdin) \in Nat
  BY <1>1, RunConstants DEF R!LaunchesType, R!IsSeq
<1>4. R!TypeOK
  BY <1>1, <1>2, <1>3 DEF R!TypeOK
<1>5. R!AnswersInOrder
  BY <1>2 DEF R!AnswersInOrder, R!Answered
<1>6. R!PrimedIsLoaded /\ R!CheckPredictsRun /\ R!DescribesAll
  BY <1>2 DEF R!PrimedIsLoaded, R!CheckPredictsRun, R!DescribesAll
<1> QED
  BY <1>2, <1>4, <1>5, <1>6 DEF RunnerInv

(* CheckPredictsRun, of the command line and the line that was written.    *)
RunsOf(i, a) ==
  LET args == R!ParseArgs(Tail(a))
      input == R!ReadInput(args.source)
  IN {R!Serve(i, args.entry, input, 0, act, enter, None, {}).line.kind :
        act \in R!Acts, enter \in R!Enters}
Predicts(i, a, line) ==
  CASE line.kind = "unchecked" -> TRUE
    [] line.kind = "ok" -> RunsOf(i, a) \cap {"decode_error", "unknown_entrypoint"} = {}
    [] OTHER -> RunsOf(i, a) = {line.kind}

LEMMA AsPredicted ==
  R!CheckPredictsRun <=>
    (R!Mode = "--check-input" /\ out # <<>> => Predicts(inv, argv, out[1]))
BY DEF R!CheckPredictsRun, Predicts, RunsOf

(* A step that writes nothing.                                             *)
LEMMA SilentStep ==
  ASSUME RunnerInv, UNCHANGED <<inv, argv, stdin, out, entered, slot>>,
         pc' \in {"serve", "web", "exit"}, pc' = "serve" => R!Mode = "--serve",
         code' \in {None, 0, 1, 101},
         \/ read' = read
         \/ /\ read' = read + 1 /\ read < Len(stdin)
            /\ stdin[read'].kind \in {"blank", "unreadable"}
  PROVE  RunnerInv'
<1>1. R!TypeOK /\ R!Mode' = R!Mode
  BY DEF RunnerInv, R!Mode
<1>2. Len(stdin) \in Nat /\ read \in 0 .. Len(stdin)
  BY <1>1, Shapes DEF R!TypeOK
<1>3. read' \in 0 .. Len(stdin)
  BY <1>2
<1>4. R!TypeOK'
  <2>1. R!Lines' = R!Lines
    BY DEF R!Lines
  <2> QED
    BY <1>1, <1>3, <2>1 DEF R!TypeOK
<1>5. R!Answered' = R!Answered
  <2>1. CASE read' = read
    BY <2>1 DEF R!Answered
  <2>2. CASE read' = read + 1 /\ stdin[read'].kind \in {"blank", "unreadable"}
    <3>1. \A k : k \in 1 .. read' <=> k \in 1 .. read \/ k = read'
      BY <1>2, <2>2
    <3> QED
      BY <2>2, <3>1 DEF R!Answered
  <2> QED
    BY <2>1, <2>2
<1>6. R!AnswersInOrder'
  BY <1>1, <1>5 DEF RunnerInv, R!AnswersInOrder
<1>7. R!PrimedIsLoaded'
  BY <1>1 DEF RunnerInv, R!PrimedIsLoaded
<1>8. R!CheckPredictsRun'
  <2>1. R!Mode = "--check-input" /\ out # <<>> => Predicts(inv, argv, out[1])
    BY <1>1, AsPredicted DEF RunnerInv
  <2>2. R!Mode' = "--check-input" /\ out' # <<>> => Predicts(inv', argv', out'[1])
    BY <1>1, <2>1
  <2>3. (R!CheckPredictsRun <=>
           (R!Mode = "--check-input" /\ out # <<>> => Predicts(inv, argv, out[1])))'
    BY DEF R!CheckPredictsRun, Predicts, RunsOf
  <2> QED
    BY <2>2, <2>3
<1>9. R!DescribesAll'
  BY <1>1 DEF RunnerInv, R!DescribesAll
<1> QED
  BY <1>1, <1>4, <1>6, <1>7, <1>8, <1>9 DEF RunnerInv

(* A step of the loop that answers the frame it takes.                     *)
LEMMA AnsweringStep ==
  ASSUME RunnerInv, R!TakeFrame, R!Frame.kind \notin {"blank", "unreadable"},
         UNCHANGED <<inv, argv, stdin, pc, code>>,
         NEW line \in R!Lines, R!Answer(line), line.kind # "manifest",
         line.frame = read', line.from \in {None, read'},
         entered \subseteq entered', entered' \subseteq entered \cup (R!Classes(inv) \ {None}),
         slot' \in {None, slot, read'},
         line.kind = "ack" =>
           /\ line.primed + line.failed = R!Cardinality(R!Primed(inv))
           /\ line.failed = 0 => {inv.fns[k].class : k \in R!Primed(inv)} \subseteq entered',
         line.kind = "ok" =>
           R!EntryOf(inv, stdin[read'].entry).class \in entered' \cup {None}
  PROVE  RunnerInv'
<1>1. R!TypeOK /\ R!Mode' = R!Mode /\ R!Mode = "--serve"
  BY DEF RunnerInv, R!Mode, R!TakeFrame
<1>2. /\ Len(stdin) \in Nat /\ read \in Nat /\ read < Len(stdin) /\ read' = read + 1
      /\ pc = "serve" /\ out' = Append(out, line) /\ R!Frame = stdin[read']
  BY <1>1, Shapes DEF R!TypeOK, R!TakeFrame, R!Answer, R!Frame
<1>3. read' \in 1 .. Len(stdin) /\ read' \in 0 .. Len(stdin)
  BY <1>2
<1>4. R!Lines' = R!Lines /\ out \in Seq(R!Lines)
  BY <1>1 DEF R!Lines, R!TypeOK
<1>5. /\ out' \in Seq(R!Lines) /\ Len(out) \in Nat
      /\ DOMAIN out = 1 .. Len(out) /\ DOMAIN out' = 1 .. Len(out) + 1
      /\ out'[Len(out) + 1] = line
      /\ \A k \in DOMAIN out : out'[k] = out[k]
  BY <1>2, <1>4
<1>6. \A k : k \in DOMAIN out' <=> k \in DOMAIN out \/ k = Len(out) + 1
  BY <1>5
<1>7. R!TypeOK'
  <2>1. \E l \in Launches : inv' = l.inv /\ argv' = l.argv /\ stdin' = l.stdin
    BY <1>1 DEF R!TypeOK
  <2>2. entered' \subseteq R!Classes(inv) \ {None} /\ slot' \in {None} \cup 0 .. Len(stdin)
    BY <1>1, <1>3 DEF R!TypeOK
  <2>3. pc' \in {"start", "serve", "web", "exit"} /\ code' \in {None, 0, 1, 101}
    BY <1>1 DEF R!TypeOK
  <2>4. Len(stdin') = Len(stdin) /\ R!Classes(inv') = R!Classes(inv)
    OBVIOUS
  <2> QED
    BY <1>3, <1>4, <1>5, <2>1, <2>2, <2>3, <2>4 DEF R!TypeOK
<1>8. R!Answered' = R!Answered \cup {read'}
  <2>1. \A k : k \in 1 .. read' <=> k \in 1 .. read \/ k = read'
    BY <1>2
  <2> QED
    BY <1>2, <2>1 DEF R!Answered
<1>9. R!AnswersInOrder'
  <2>1. /\ {out[k].frame : k \in DOMAIN out} = R!Answered
        /\ \A j, k \in DOMAIN out : j < k => out[j].frame < out[k].frame
        /\ \A k \in DOMAIN out : out[k].from \in {None, out[k].frame}
    BY <1>1 DEF RunnerInv, R!AnswersInOrder
  <2>2. \A k \in DOMAIN out : out[k].frame \in 1 .. read
    BY <2>1 DEF R!Answered
  <2>3. {out'[k].frame : k \in DOMAIN out'} = R!Answered'
    BY <1>5, <1>6, <1>8, <2>1
  <2>4. ASSUME NEW j \in DOMAIN out', NEW k \in DOMAIN out', j < k
        PROVE  out'[j].frame < out'[k].frame
    <3>1. j \in DOMAIN out
      BY <1>5, <2>4
    <3>2. CASE k \in DOMAIN out
      BY <1>5, <2>1, <2>4, <3>1, <3>2
    <3>3. CASE k = Len(out) + 1
      <4>1. out'[j].frame \in 1 .. read /\ out'[k].frame = read + 1
        BY <1>2, <1>5, <2>2, <3>1, <3>3
      <4> QED
        BY <1>2, <4>1
    <3> QED
      BY <1>6, <3>2, <3>3
  <2>5. \A k \in DOMAIN out' : out'[k].from \in {None, out'[k].frame}
    BY <1>5, <1>6, <2>1
  <2> QED
    BY <2>3, <2>4, <2>5 DEF R!AnswersInOrder
<1>10. R!PrimedIsLoaded'
  <2> SUFFICES ASSUME NEW k \in DOMAIN out'
               PROVE  /\ out'[k].kind = "ack" =>
                           /\ out'[k].primed + out'[k].failed = R!Cardinality(R!Primed(inv))
                           /\ out'[k].failed = 0 =>
                                {inv.fns[j].class : j \in R!Primed(inv)} \subseteq entered'
                      /\ out'[k].kind = "ok" =>
                           R!EntryOf(inv, stdin[out'[k].frame].entry).class \in entered' \cup {None}
    BY DEF R!PrimedIsLoaded
  <2>1. CASE k = Len(out) + 1
    BY <1>5, <2>1
  <2>2. CASE k \in DOMAIN out
    <3>1. out'[k] = out[k]
      BY <1>5, <2>2
    <3>2. /\ out[k].kind = "ack" =>
               /\ out[k].primed + out[k].failed = R!Cardinality(R!Primed(inv))
               /\ out[k].failed = 0 =>
                    {inv.fns[j].class : j \in R!Primed(inv)} \subseteq entered
          /\ out[k].kind = "ok" =>
               R!EntryOf(inv, stdin[out[k].frame].entry).class \in entered \cup {None}
      BY <1>1, <2>2 DEF RunnerInv, R!PrimedIsLoaded
    <3> QED
      BY <3>1, <3>2
  <2> QED
    BY <1>6, <2>1, <2>2
<1>11. R!CheckPredictsRun' /\ R!DescribesAll'
  BY <1>1 DEF R!CheckPredictsRun, R!DescribesAll
<1> QED
  BY <1>1, <1>2, <1>7, <1>9, <1>10, <1>11 DEF RunnerInv

(* A step of a process that writes one line and ends.                      *)
LEMMA OneShotStep ==
  ASSUME RunnerInv, pc = "start", R!Mode # "--serve",
         UNCHANGED <<inv, argv, stdin, read>>,
         pc' = "exit", code' \in {0, 1},
         NEW line \in R!Lines, out' = <<line>>, line.kind # "ack",
         entered' \subseteq entered \cup (R!Classes(inv) \ {None}),
         slot' \in {None, slot, 0},
         R!Mode = "--check-input" => Predicts(inv, argv, line),
         R!Mode = "--describe" /\ R!Names(inv.fns) \cap R!Names(inv.webs) = {}
           => line.entries = R!ToSet(R!Configs(inv))
  PROVE  RunnerInv'
<1>1. R!TypeOK /\ R!Mode' = R!Mode
  BY DEF RunnerInv, R!Mode
<1>2. Len(stdin) \in Nat
  BY <1>1, Shapes
<1>3. out' \in Seq(R!Lines) /\ out'[1] = line /\ DOMAIN out' = {1}
  OBVIOUS
<1>4. R!TypeOK'
  <2>1. R!Lines' = R!Lines
    BY DEF R!Lines
  <2>2. entered' \subseteq R!Classes(inv) \ {None} /\ slot' \in {None} \cup 0 .. Len(stdin)
    BY <1>1, <1>2 DEF R!TypeOK
  <2> QED
    BY <1>1, <1>3, <2>1, <2>2 DEF R!TypeOK
<1>5. R!AnswersInOrder'
  BY <1>1 DEF R!AnswersInOrder
<1>6. R!PrimedIsLoaded'
  BY <1>1, <1>3 DEF R!PrimedIsLoaded
<1>7. R!CheckPredictsRun'
  <2>1. (R!CheckPredictsRun <=>
           (R!Mode = "--check-input" /\ out # <<>> => Predicts(inv, argv, out[1])))'
    BY DEF R!CheckPredictsRun, Predicts, RunsOf
  <2> QED
    BY <1>1, <1>3, <2>1
<1>8. R!DescribesAll'
  BY <1>1, <1>3 DEF R!DescribesAll
<1> QED
  BY <1>1, <1>4, <1>5, <1>6, <1>7, <1>8 DEF RunnerInv

LEMMA RunnerStep == RunnerInv /\ [R!Next]_R!vars => RunnerInv'
<1> SUFFICES ASSUME RunnerInv, [R!Next]_R!vars PROVE RunnerInv'
  OBVIOUS
<1>0. /\ R!TypeOK /\ Len(stdin) \in Nat /\ read \in 0 .. Len(stdin)
      /\ R!IsSeq(inv.fns) /\ R!IsSeq(inv.webs)
      /\ \A k \in R!Primed(inv) : inv.fns[k].class # None
  BY Shapes DEF RunnerInv, R!TypeOK
<1>1. CASE UNCHANGED R!vars
  <2>1. UNCHANGED <<inv, argv, stdin, pc, read, out, entered, slot, code>>
    BY <1>1 DEF R!vars
  <2>2. CASE pc = "start"
    <3>1. R!TypeOK' /\ R!AnswersInOrder' /\ R!PrimedIsLoaded' /\ R!DescribesAll'
      <4>1. R!TypeOK'
        BY <2>1 DEF RunnerInv, R!TypeOK, R!Lines
      <4>2. R!AnswersInOrder'
        BY <2>1 DEF RunnerInv, R!AnswersInOrder, R!Answered, R!Mode
      <4>3. R!PrimedIsLoaded' /\ R!DescribesAll'
        BY <2>1 DEF RunnerInv, R!Mode, R!PrimedIsLoaded, R!DescribesAll
      <4> QED
        BY <4>1, <4>2, <4>3
    <3>2. out' = <<>>
      BY <2>1, <2>2 DEF RunnerInv
    <3>3. R!CheckPredictsRun'
      BY <3>2 DEF R!CheckPredictsRun
    <3> QED
      BY <2>1, <2>2, <3>1, <3>2, <3>3 DEF RunnerInv
  <2>3. CASE pc # "start"
    BY <1>0, <2>1, <2>3, SilentStep DEF RunnerInv, R!TypeOK
  <2> QED
    BY <2>2, <2>3
<1>2. CASE R!StartPanics
  BY <1>2, SilentStep DEF R!StartPanics, R!Given, R!Exit
<1>3. CASE R!StartServe
  BY <1>0, <1>3, SilentStep DEF R!StartServe, R!Start, R!Given, R!TypeOK
<1>4. CASE R!StartWeb
  BY <1>0, <1>4, SilentStep DEF R!StartWeb, R!Start, R!Given, R!Exit, R!TypeOK
<1>5. CASE R!WebEnds
  <2>1. /\ UNCHANGED <<inv, argv, stdin, out, entered, slot, read>>
        /\ pc' = "exit" /\ code' \in {0, 1, 101}
    BY <1>5 DEF R!WebEnds, R!Given, R!Exit
  <2> QED
    BY <2>1, SilentStep
<1>6. CASE R!EndOfInput
  BY <1>6, SilentStep DEF R!EndOfInput, R!Given, R!Exit
<1>7. CASE R!ReadFails
  BY <1>7, SilentStep DEF R!ReadFails, R!TakeFrame, R!Frame, R!Given, R!Exit
<1>8. CASE R!ReadBlank
  BY <1>0, <1>8, SilentStep
     DEF R!ReadBlank, R!TakeFrame, R!Frame, R!Given, RunnerInv, R!TypeOK
<1>9. CASE R!StartDescribe
  <2> DEFINE line == [kind |-> "manifest", entries |-> R!Describe(inv)]
  <2>1. /\ pc = "start" /\ ~R!Duplicated(inv) /\ R!Mode = "--describe"
        /\ out' = <<line>> /\ pc' = "exit" /\ code' = 0
        /\ UNCHANGED <<inv, argv, stdin, read, entered, slot>>
    BY <1>9 DEF R!StartDescribe, R!Start, R!Given, R!Exit
  <2>2. PICK l : l = line
    OBVIOUS
  <2>3. l \in R!Lines /\ l.kind # "ack"
    BY <2>2 DEF R!Lines
  <2>4. R!Names(inv.fns) \cap R!Names(inv.webs) = {} => l.entries = R!ToSet(R!Configs(inv))
    <3>1. PICK i : i = inv
      OBVIOUS
    <3> QED
      BY <1>0, <2>1, <2>2, <3>1, DescribedAll
  <2> QED
    BY <2>1, <2>2, <2>3, <2>4, OneShotStep
<1>10. CASE R!StartCheck
  <2> DEFINE args == R!ParseArgs(Tail(argv))
             says == R!CheckInput(inv, args.entry, R!ReadInput(args.source))
  <2>1. /\ pc = "start" /\ R!Mode = "--check-input" /\ pc' = "exit" /\ code' \in {0, 1}
        /\ UNCHANGED <<inv, argv, stdin, read, entered, slot>>
        /\ out' \in {out, <<R!Line(says, 0, None)>>}
    BY <1>10 DEF R!StartCheck, R!Start, R!Given, R!Exit
  <2>2. CASE out' = out
    BY <2>1, <2>2, SilentStep
  <2>3. CASE out' = <<R!Line(says, 0, None)>>
    <3>1. PICK i, e, input : i = inv /\ e = args.entry /\ input = R!ReadInput(args.source)
      OBVIOUS
    <3>2. PICK k : k = R!CheckInput(i, e, input)
      OBVIOUS
    <3>3. PICK line : line = R!Line(k, 0, None)
      OBVIOUS
    <3>4. k = says
      BY <3>1, <3>2
    <3>5. k \in R!Replies
      BY <3>2, CheckedAsRun
    <3>6. line \in R!Lines /\ line.kind = k /\ line.kind # "ack"
      BY <1>0, <3>3, <3>5 DEF R!Line, R!Lines, R!Replies
    <3>7. Predicts(inv, argv, line)
      <4> DEFINE kinds == {R!Serve(i, e, input, 0, act, enter, None, {}).line.kind :
                            act \in R!Acts, enter \in R!Enters}
      <4>1. /\ k = "ok" => kinds \cap {"decode_error", "unknown_entrypoint"} = {}
            /\ k \notin {"ok", "unchecked"} => kinds = {k}
        BY <3>2, CheckedAsRun
      <4>2. kinds = RunsOf(inv, argv)
        BY <3>1 DEF RunsOf
      <4> HIDE DEF kinds
      <4> QED
        BY <3>6, <4>1, <4>2 DEF Predicts
    <3>8. out' = <<line>>
      BY <2>3, <3>3, <3>4
    <3> QED
      BY <2>1, <3>6, <3>7, <3>8, OneShotStep
  <2> QED
    BY <2>1, <2>2, <2>3
<1>11. CASE R!StartRun
  <2> DEFINE args == R!ParseArgs(argv)
  <2>1. /\ pc = "start" /\ R!Mode = "run" /\ pc' = "exit" /\ code' \in {0, 1}
        /\ UNCHANGED <<inv, argv, stdin, read>>
    BY <1>11 DEF R!StartRun, R!Start, R!Given, R!Exit
  <2>2. \/ UNCHANGED <<out, entered, slot>>
        \/ \E act \in R!Acts, enter \in R!Enters :
             LET r == R!Serve(inv, args.entry, R!ReadInput(args.source), 0, act, enter, slot, entered)
             IN out' = <<r.line>> /\ entered' = r.entered /\ slot' = r.slot
    BY <1>11 DEF R!StartRun
  <2>3. CASE UNCHANGED <<out, entered, slot>>
    BY <2>1, <2>3, SilentStep
  <2>4. ASSUME NEW act \in R!Acts, NEW enter \in R!Enters,
               LET r == R!Serve(inv, args.entry, R!ReadInput(args.source), 0, act, enter, slot, entered)
               IN out' = <<r.line>> /\ entered' = r.entered /\ slot' = r.slot
        PROVE  RunnerInv'
    <3>1. PICK i, e, input, s, loaded :
            /\ i = inv /\ e = args.entry /\ input = R!ReadInput(args.source)
            /\ s = slot /\ loaded = entered
      OBVIOUS
    <3>2. PICK r : r = R!Serve(i, e, input, 0, act, enter, s, loaded)
      OBVIOUS
    <3>3. out' = <<r.line>> /\ entered' = r.entered /\ slot' = r.slot
      BY <2>4, <3>1, <3>2
    <3>4. /\ r.line \in [kind : R!Replies, frame : {0}, from : {None, 0}]
          /\ r.slot \in {None, s, 0}
          /\ r.entered \subseteq loaded \cup (R!Classes(i) \ {None})
      <4>1. ServedAs(r, i, e, 0, s, loaded)
        BY <3>2, CallServed
      <4> QED
        BY <4>1 DEF ServedAs
    <3>5. PICK line : line = r.line
      OBVIOUS
    <3>6. line \in R!Lines /\ line.kind # "ack"
      BY <1>0, <3>4, <3>5 DEF R!Lines, R!Replies
    <3> QED
      BY <2>1, <3>1, <3>3, <3>4, <3>5, <3>6, OneShotStep
  <2> QED
    BY <2>2, <2>3, <2>4
<1>12. CASE R!Malformed
  <2>1. PICK frame, line : frame = read' /\ line = R!Line("decode_error", frame, None)
    OBVIOUS
  <2>2. /\ R!TakeFrame /\ R!Frame.kind \notin {"blank", "unreadable"} /\ R!Answer(line)
        /\ UNCHANGED <<inv, argv, stdin, pc, code, entered, slot>>
    BY <1>12, <2>1 DEF R!Malformed, R!Given
  <2>3. frame \in 0 .. Len(stdin)
    BY <1>0, <2>1, <2>2 DEF R!TakeFrame
  <2>4. line \in R!Lines /\ line.kind = "decode_error" /\ line.frame = read' /\ line.from = None
    BY <2>1, <2>3 DEF R!Line, R!Lines, R!Replies
  <2> QED
    BY <2>2, <2>4, AnsweringStep
<1>13. CASE R!Request
  <2>1. PICK act \in R!Acts, enter \in R!Enters :
          LET r == R!Serve(inv, R!Frame.entry, R!Frame.input, read', act, enter, slot, entered)
          IN R!Answer(r.line) /\ entered' = r.entered /\ slot' = r.slot
    BY <1>13 DEF R!Request
  <2>2. PICK i, e, input, f, s, loaded :
          /\ i = inv /\ e = R!Frame.entry /\ input = R!Frame.input
          /\ f = read' /\ s = slot /\ loaded = entered
    OBVIOUS
  <2>3. PICK r : r = R!Serve(i, e, input, f, act, enter, s, loaded)
    OBVIOUS
  <2>4. /\ r.line \in [kind : R!Replies, frame : {f}, from : {None, f}]
        /\ r.slot \in {None, s, f}
        /\ loaded \subseteq r.entered
        /\ r.entered \subseteq loaded \cup (R!Classes(i) \ {None})
        /\ r.line.kind = "ok" => R!EntryOf(i, e).class \in r.entered \cup {None}
    <3>1. ServedAs(r, i, e, f, s, loaded)
      BY <2>3, CallServed
    <3> QED
      BY <3>1 DEF ServedAs
  <2>5. PICK line : line = r.line
    OBVIOUS
  <2>6. /\ R!TakeFrame /\ R!Frame.kind \notin {"blank", "unreadable"}
        /\ UNCHANGED <<inv, argv, stdin, pc, code>>
        /\ R!Answer(line) /\ entered' = r.entered /\ slot' = r.slot
    BY <1>13, <2>1, <2>2, <2>3, <2>5 DEF R!Request, R!Given
  <2>7. f \in 0 .. Len(stdin) /\ R!Frame = stdin[f]
    BY <1>0, <2>2, <2>6 DEF R!TakeFrame, R!Frame
  <2>8. /\ line \in R!Lines /\ line.kind \in R!Replies
        /\ line.frame = f /\ line.from \in {None, f}
    BY <2>4, <2>5, <2>7 DEF R!Lines
  <2>9. line.kind \notin {"manifest", "ack"}
    BY <2>8 DEF R!Replies
  <2>10. line.kind = "ok" => R!EntryOf(inv, stdin[read'].entry).class \in entered' \cup {None}
    BY <2>2, <2>4, <2>5, <2>6, <2>7
  <2> QED
    BY <2>2, <2>4, <2>6, <2>8, <2>9, <2>10, AnsweringStep
<1>14. CASE R!Prime
  <2>1. PICK enters \in [R!Primed(inv) -> R!Enters] :
          LET p == R!PrimeAll(inv, enters, read', slot, entered)
          IN /\ R!Answer([kind |-> "ack", frame |-> read', from |-> None,
                          primed |-> p.ok, failed |-> p.failed])
             /\ entered' = p.entered /\ slot' = p.slot
    BY <1>14 DEF R!Prime
  <2>2. PICK i, f, s, loaded : i = inv /\ f = read' /\ s = slot /\ loaded = entered
    OBVIOUS
  <2>3. PICK p : p = R!PrimeAll(i, enters, f, s, loaded)
    OBVIOUS
  <2>4. /\ p.ok \in Nat /\ p.failed \in Nat
        /\ p.ok + p.failed = R!Cardinality(R!Primed(i))
        /\ p.failed = 0 => {i.fns[k].class : k \in R!Primed(i)} \subseteq p.entered
        /\ loaded \subseteq p.entered
        /\ p.entered \subseteq loaded \cup (R!Classes(i) \ {None})
        /\ p.slot \in {s, f}
    BY <1>0, <2>2, <2>3, PrimedAll
  <2>5. PICK line : line = [kind |-> "ack", frame |-> f, from |-> None,
                            primed |-> p.ok, failed |-> p.failed]
    OBVIOUS
  <2>6. /\ R!TakeFrame /\ R!Frame.kind \notin {"blank", "unreadable"}
        /\ UNCHANGED <<inv, argv, stdin, pc, code>>
        /\ R!Answer(line) /\ entered' = p.entered /\ slot' = p.slot
    BY <1>14, <2>1, <2>2, <2>3, <2>5 DEF R!Prime, R!Given
  <2>7. f \in 1 .. Len(stdin)
    BY <1>0, <2>2, <2>6 DEF R!TakeFrame
  <2>8. /\ line \in R!Lines /\ line.kind = "ack" /\ line.frame = f /\ line.from = None
        /\ line.primed = p.ok /\ line.failed = p.failed
    BY <2>4, <2>5, <2>7 DEF R!Lines
  <2> QED
    BY <2>2, <2>4, <2>6, <2>8, AnsweringStep
<1> QED
  BY <1>1, <1>2, <1>3, <1>4, <1>5, <1>6, <1>7, <1>8, <1>9, <1>10, <1>11, <1>12, <1>13, <1>14
     DEF R!Next

-------------------------------------------------------------------------------
(* The command line. The fold over the tokens runs through the states that *)
(* TakeToken makes one after the other (TokensAfter): the function that    *)
(* defines it exists for every number of tokens, each from the one before  *)
(* it (TokensTaken).                                                       *)
LEMMA LastOf ==
  ASSUME NEW n \in Nat, NEW s \in SUBSET (1 .. n), n \in s
  PROVE  R!Max(s) = n
<1>1. \A y \in s : n >= y
  OBVIOUS
<1>2. \A x \in s : (\A y \in s : x >= y) => x = n
  OBVIOUS
<1> QED
  BY <1>1, <1>2 DEF R!Max

NoToken == [ok |-> TRUE, entry |-> None, source |-> None, want |-> None]
TokensUpTo(iter, args, n) ==
  iter = [s \in SUBSET (1 .. n) |->
            IF s = {} THEN NoToken ELSE R!TakeToken(iter[s \ {R!Max(s)}], args[R!Max(s)])]

LEMMA TokensFold ==
  ASSUME NEW args, NEW n \in Nat, DOMAIN args = 1 .. n
  PROVE  R!FoldLeft(R!TakeToken, NoToken, args)
           = (CHOOSE iter : TokensUpTo(iter, args, n))[1 .. n]
BY DEF R!FoldLeft, R!MapThenFoldSet, TokensUpTo

LEMMA TokensTaken ==
  ASSUME NEW args, NEW n \in Nat
  PROVE  \E iter : TokensUpTo(iter, args, n)
<1> DEFINE Taken(k) == \E iter : TokensUpTo(iter, args, k)
           bad == {k \in Nat : ~Taken(k)}
<1>1. Taken(0)
  <2>1. TokensUpTo([s \in SUBSET (1 .. 0) |-> NoToken], args, 0)
    <3>1. \A s \in SUBSET (1 .. 0) : s = {}
      OBVIOUS
    <3> QED
      BY <3>1 DEF TokensUpTo
  <2> QED
    BY <2>1
<1>2. ASSUME NEW k \in Nat, Taken(k) PROVE Taken(k + 1)
  <2>1. PICK iter : TokensUpTo(iter, args, k)
    BY <1>2
  <2> DEFINE next == [s \in SUBSET (1 .. k + 1) |->
                        IF s \subseteq 1 .. k THEN iter[s]
                        ELSE R!TakeToken(iter[s \ {k + 1}], args[k + 1])]
             taken(s) == IF s = {} THEN NoToken
                         ELSE R!TakeToken(next[s \ {R!Max(s)}], args[R!Max(s)])
  <2>2. ASSUME NEW s \in SUBSET (1 .. k + 1) PROVE next[s] = taken(s)
    <3>1. CASE s \subseteq 1 .. k
      <4>1. next[s] = IF s = {} THEN NoToken
                      ELSE R!TakeToken(iter[s \ {R!Max(s)}], args[R!Max(s)])
        BY <2>1, <3>1 DEF TokensUpTo
      <4>2. next[s \ {R!Max(s)}] = iter[s \ {R!Max(s)}]
        BY <3>1
      <4> QED
        BY <4>1, <4>2
    <3>2. CASE ~(s \subseteq 1 .. k)
      <4>1. k + 1 \in s
        BY <3>2
      <4>2. R!Max(s) = k + 1 /\ s # {}
        BY <4>1, LastOf
      <4>3. s \ {k + 1} \subseteq 1 .. k /\ s \ {k + 1} \in SUBSET (1 .. k + 1)
        OBVIOUS
      <4>4. next[s \ {k + 1}] = iter[s \ {k + 1}]
        BY <4>3
      <4> QED
        BY <3>2, <4>2, <4>4
    <3> QED
      BY <3>1, <3>2
  <2>3. next = [s \in SUBSET (1 .. k + 1) |-> taken(s)]
    <3> HIDE DEF taken
    <3> QED
      BY <2>2
  <2>4. TokensUpTo(next, args, k + 1)
    <3> HIDE DEF next
    <3> QED
      BY <2>3 DEF TokensUpTo
  <2> QED
    BY <2>4
<1>3. bad = {}
  <2> HIDE DEF Taken
  <2> SUFFICES ASSUME bad # {} PROVE FALSE
    OBVIOUS
  <2>1. PICK m \in bad : \A k \in bad : m <= k
    BY LeastOf
  <2>2. m \in Nat \ {0} /\ ~Taken(m)
    BY <1>1
  <2>3. m - 1 \in Nat /\ m - 1 \notin bad /\ m = (m - 1) + 1
    BY <2>1, <2>2
  <2> QED
    BY <1>2, <2>2, <2>3
<1> QED
  BY <1>3

TokenByToken(iter, args, n) ==
  /\ R!FoldLeft(R!TakeToken, NoToken, args) = iter[1 .. n]
  /\ iter[{}] = NoToken
  /\ \A k \in 1 .. n : iter[1 .. k] = R!TakeToken(iter[1 .. k - 1], args[k])

LEMMA TokensAfter ==
  ASSUME NEW args, NEW n \in Nat, DOMAIN args = 1 .. n
  PROVE  \E iter : TokenByToken(iter, args, n)
<1> DEFINE iter == CHOOSE iter : TokensUpTo(iter, args, n)
<1>1. TokensUpTo(iter, args, n)
  BY TokensTaken
<1> HIDE DEF iter
<1>2. iter[{}] = NoToken
  BY <1>1 DEF TokensUpTo
<1>3. ASSUME NEW k \in 1 .. n
      PROVE  iter[1 .. k] = R!TakeToken(iter[1 .. k - 1], args[k])
  <2>1. 1 .. k \in SUBSET (1 .. n) /\ 1 .. k # {} /\ (1 .. k) \ {k} = 1 .. k - 1
    OBVIOUS
  <2>2. R!Max(1 .. k) = k
    BY LastOf
  <2> QED
    BY <1>1, <2>1, <2>2 DEF TokensUpTo
<1>4. R!FoldLeft(R!TakeToken, NoToken, args) = iter[1 .. n]
  BY TokensFold DEF iter
<1> QED
  BY <1>2, <1>3, <1>4 DEF TokenByToken

IsToken(st, entry, source, want) ==
  /\ DOMAIN st = {"ok", "entry", "source", "want"}
  /\ st.ok = TRUE /\ st.entry = entry /\ st.source = source /\ st.want = want

(* A flag, and what the two kinds of flags wait for.                       *)
LEMMA TokenTaken ==
  ASSUME NEW st, NEW entry, NEW source, NEW want, IsToken(st, entry, source, want),
         NEW tok, None \notin R!Flags
  PROVE  /\ want = None /\ tok \in R!Flags \ {"--input-stdin"} =>
              IsToken(R!TakeToken(st, tok), entry, source, tok)
         /\ want = "--entrypoint" /\ entry = None =>
              IsToken(R!TakeToken(st, tok), tok, source, None)
         /\ want \in {"--input-json", "--input-file"} /\ source = None =>
              IsToken(R!TakeToken(st, tok), entry, <<want, tok>>, None)
<1>1. ASSUME want = None, tok \in R!Flags \ {"--input-stdin"}
      PROVE  IsToken(R!TakeToken(st, tok), entry, source, tok)
  <2>1. R!TakeToken(st, tok) = [st EXCEPT !.want = tok]
    BY <1>1 DEF R!TakeToken, R!Flags, IsToken
  <2> QED
    BY <2>1 DEF IsToken
<1>2. ASSUME want = "--entrypoint", entry = None
      PROVE  IsToken(R!TakeToken(st, tok), tok, source, None)
  <2>1. R!TakeToken(st, tok)
          = [st EXCEPT !.ok = st.entry = None, !.entry = tok, !.want = None]
    BY <1>2 DEF R!TakeToken, R!Flags, IsToken
  <2>2. (st.entry = None) = TRUE
    BY <1>2 DEF IsToken
  <2> QED
    BY <2>1, <2>2 DEF IsToken
<1>3. ASSUME want \in {"--input-json", "--input-file"}, source = None
      PROVE  IsToken(R!TakeToken(st, tok), entry, <<want, tok>>, None)
  <2>1. R!TakeToken(st, tok)
          = [st EXCEPT !.ok = st.source = None, !.source = <<want, tok>>, !.want = None]
    BY <1>3 DEF R!TakeToken, R!Flags, IsToken
  <2>2. (st.source = None) = TRUE
    BY <1>3 DEF IsToken
  <2> QED
    BY <2>1, <2>2 DEF IsToken
<1> QED
  BY <1>1, <1>2, <1>3

LEMMA CommandsParse ==
  ASSUME NEW names, NEW values, R!TokensType(names, values)
  PROVE  R!BuiltCommandsParse(names, values)
<1> SUFFICES ASSUME NEW n \in names, NEW v \in values,
                    NEW flag \in {"--input-json", "--input-file"}
             PROVE  R!ParseArgs(<<"--entrypoint", n, flag, v>>)
                      = [ok |-> TRUE, entry |-> n, source |-> <<flag, v>>]
  BY DEF R!BuiltCommandsParse
<1>1. None \notin R!Flags /\ None # n /\ None # <<flag, v>>
  BY DEF R!TokensType, R!Flags
<1> DEFINE args == <<"--entrypoint", n, flag, v>>
<1>2. DOMAIN args = 1 .. 4
  OBVIOUS
<1>3. args[1] = "--entrypoint" /\ args[2] = n /\ args[3] = flag /\ args[4] = v
  OBVIOUS
<1>4. R!ParseArgs(args) =
        LET st == R!FoldLeft(R!TakeToken, NoToken, args)
        IN IF st.ok /\ st.want = None /\ st.entry # None /\ st.source # None
           THEN [ok |-> TRUE, entry |-> st.entry, source |-> st.source]
           ELSE R!ArgError
  BY DEF R!ParseArgs, NoToken
<1> HIDE DEF args
<1>5. PICK iter : TokenByToken(iter, args, 4)
  BY <1>2, TokensAfter
<1>6. PICK s1, s2, s3, s4 :
        /\ s1 = R!TakeToken(NoToken, "--entrypoint") /\ s2 = R!TakeToken(s1, n)
        /\ s3 = R!TakeToken(s2, flag) /\ s4 = R!TakeToken(s3, v)
        /\ R!FoldLeft(R!TakeToken, NoToken, args) = s4
  <2>1. 1 .. 1 - 1 = {} /\ 2 - 1 = 1 /\ 3 - 1 = 2 /\ 4 - 1 = 3
    OBVIOUS
  <2>2. 1 \in 1 .. 4 /\ 2 \in 1 .. 4 /\ 3 \in 1 .. 4 /\ 4 \in 1 .. 4
    OBVIOUS
  <2>3. /\ iter[1 .. 1] = R!TakeToken(NoToken, "--entrypoint")
        /\ iter[1 .. 2] = R!TakeToken(iter[1 .. 1], n)
        /\ iter[1 .. 3] = R!TakeToken(iter[1 .. 2], flag)
        /\ iter[1 .. 4] = R!TakeToken(iter[1 .. 3], v)
    BY <1>3, <1>5, <2>1, <2>2 DEF TokenByToken
  <2> QED
    BY <1>5, <2>3 DEF TokenByToken
<1> HIDE DEF NoToken
<1>7. IsToken(NoToken, None, None, None)
  BY DEF IsToken, NoToken
<1>8. IsToken(s1, None, None, "--entrypoint")
  BY <1>1, <1>6, <1>7, TokenTaken DEF R!Flags
<1>9. IsToken(s2, n, None, None)
  BY <1>1, <1>6, <1>8, TokenTaken
<1>10. IsToken(s3, n, None, flag)
  BY <1>1, <1>6, <1>9, TokenTaken DEF R!Flags
<1>11. IsToken(s4, n, <<flag, v>>, None)
  BY <1>1, <1>6, <1>10, TokenTaken
<1>12. R!ParseArgs(args) = [ok |-> TRUE, entry |-> n, source |-> <<flag, v>>]
  BY <1>1, <1>4, <1>6, <1>11 DEF IsToken
<1> QED
  BY <1>12 DEF args

-------------------------------------------------------------------------------
(* The records of a result and of an envelope, field by field.             *)
LEMMA OkFields == \A v : Back!Ok(v).ok = TRUE /\ Back!Ok(v).value = v
BY DEF Back!Ok

LEMMA ErrFields ==
  \A v, o : Back!Err(v, o).ok = FALSE /\ Back!Err(v, o).variant = v /\ Back!Err(v, o).of = o
BY DEF Back!Err

LEMMA RunnerErrorFields ==
  \A v, o : Back!RunnerError(v, o).kind = v /\ Back!RunnerError(v, o).details = o
BY DEF Back!RunnerError

LEMMA SealedFields ==
  \A v, o : /\ Back!Sealed(v, o).ok = FALSE /\ Back!Sealed(v, o).kind = v
            /\ Back!Sealed(v, o).details = IF o = None THEN Null ELSE o
BY DEF Back!Sealed

LEMMA HandlerAnswers ==
  ASSUME NEW x
  PROVE  \/ Back!Handler(x) = Back!Ok(x)
         \/ \E says, tells :
              /\ says \in {"decode_error", "encode_error", "function_error"}
              /\ says # "function_error" => tells = None
              /\ Back!Handler(x) = Back!Err("Runner", Back!RunnerError(says, tells))
         \/ Back!Handler(x) = Back!Err("unwinds", None)
BY DEF Back!Handler

(* The results of a call, alone and over the wire.                         *)
Wire(x, discards) == Back!ParseEnvelope(Back!Envelope(x, TRUE), discards)
(* What a failure tells after the wire, where null stands for none.        *)
Told(says, tells) ==
  Back!Err("Runner", Back!RunnerError(says, IF tells = Null THEN None ELSE tells))

LEMMA SealedComesBack ==
  ASSUME NEW says \in {"decode_error", "encode_error", "function_error", "panic"}, NEW tells,
         says # "function_error" => tells = None, NEW discards
  PROVE  Back!ParseEnvelope(Back!Sealed(says, tells), discards) = Told(says, tells)
<1>1. Back!Reconstruct(Back!Sealed(says, tells))
        = Back!RunnerError(says, IF tells = Null THEN None ELSE tells)
  <2> DEFINE env == Back!Sealed(says, tells)
  <2>1. env.kind = says /\ env.details = IF tells = None THEN Null ELSE tells
    BY OkFields, ErrFields, RunnerErrorFields, SealedFields
  <2> HIDE DEF env
  <2>2. env.kind \in Back!ErrorKinds
    BY <2>1 DEF Back!ErrorKinds
  <2>3. Back!Reconstruct(env) = IF env.kind = "function_error" /\ env.details # Null
                                THEN Back!RunnerError(env.kind, env.details)
                                ELSE Back!RunnerError(env.kind, None)
    BY <2>2 DEF Back!Reconstruct
  <2>4. Back!Reconstruct(env) = Back!RunnerError(says, IF tells = Null THEN None ELSE tells)
    BY <2>1, <2>3
  <2> QED
    BY <2>4 DEF env
<1>2. Back!Sealed(says, tells).ok = FALSE
  BY OkFields, ErrFields, RunnerErrorFields, SealedFields
<1> QED
  BY <1>1, <1>2 DEF Back!ParseEnvelope, Told

LEMMA PlainOf ==
  ASSUME NEW says, NEW tells
  PROVE  /\ Back!Plain(Back!Err("Runner", Back!RunnerError(says, tells))) = Told(says, tells)
         /\ Back!Plain(Back!Err("unwinds", None)) = Told("panic", None)
         /\ Back!Plain(Back!Err("Decode", None)) = Back!Err("Decode", None)
         /\ Back!Plain(Back!Ok(tells)) = Back!Ok(tells)
BY OkFields, ErrFields, RunnerErrorFields, SealedFields DEF Back!Plain, Told

(* An answer that is not Ok comes back as what it plainly is, whether the  *)
(* caller discards values or not.                                          *)
LEMMA FailureTravels ==
  ASSUME NEW x, ~Back!Handler(x).ok, NEW discards
  PROVE  /\ Wire(x, discards) = Back!Plain(Back!Handler(x))
         /\ Wire(x, discards).ok = FALSE
<1>1. Back!Handler(x) # Back!Ok(x)
  BY OkFields, ErrFields, RunnerErrorFields, SealedFields
<1>2. CASE Back!Handler(x) = Back!Err("unwinds", None)
  <2>1. Back!Envelope(x, TRUE) = Back!Sealed("panic", None)
    BY <1>2, OkFields, ErrFields, RunnerErrorFields, SealedFields DEF Back!Envelope
  <2> QED
    <3>1. Wire(x, discards) = Back!ParseEnvelope(Back!Sealed("panic", None), discards)
      BY <2>1 DEF Wire
    <3>2. Wire(x, discards) = Told("panic", None)
      BY <3>1, SealedComesBack
    <3> QED
      BY <1>2, <3>2, PlainOf, ErrFields DEF Told
<1>3. CASE \E says, tells :
             /\ says \in {"decode_error", "encode_error", "function_error"}
             /\ says # "function_error" => tells = None
             /\ Back!Handler(x) = Back!Err("Runner", Back!RunnerError(says, tells))
  <2>1. PICK says, tells :
          /\ says \in {"decode_error", "encode_error", "function_error"}
          /\ says # "function_error" => tells = None
          /\ Back!Handler(x) = Back!Err("Runner", Back!RunnerError(says, tells))
    BY <1>3
  <2>2. Back!Envelope(x, TRUE) = Back!Sealed(says, tells)
    BY <2>1, ErrFields, RunnerErrorFields DEF Back!Envelope
  <2>3. Wire(x, discards) = Back!ParseEnvelope(Back!Sealed(says, tells), discards)
    BY <2>2 DEF Wire
  <2>4. Wire(x, discards) = Told(says, tells)
    BY <2>1, <2>3, SealedComesBack
  <2> QED
    BY <2>1, <2>4, PlainOf, ErrFields DEF Told
<1> QED
  BY <1>1, <1>2, <1>3, HandlerAnswers

(* A value comes back as it is decoded.                                    *)
LEMMA ValueTravels ==
  ASSUME NEW x, Back!Handler(x).ok, NEW discards
  PROVE  Wire(x, discards) = Back!Decode(x, discards)
<1> DEFINE env == [ok |-> TRUE, kind |-> None, value |-> x, details |-> Null]
<1>1. Back!Envelope(x, TRUE) = env
  <2> HIDE DEF env
  <2> QED
    BY DEF Back!Envelope, env
<1>2. env.ok = TRUE /\ env.value = x
  OBVIOUS
<1> HIDE DEF env
<1> QED
  BY <1>1, <1>2 DEF Wire, Back!ParseEnvelope

LEMMA DecodeAnswers ==
  ASSUME NEW x, NEW discards
  PROVE  /\ Back!Decode(x, discards) \in {Back!Ok(x), Back!Err("Decode", None)}
         /\ Back!Plain(Back!Decode(x, discards)) = Back!Decode(x, discards)
         /\ Back!Decode(x, discards).ok \in BOOLEAN
<1>1. Back!Decode(x, discards) \in {Back!Ok(x), Back!Err("Decode", None)}
  BY DEF Back!Decode
<1>2. Back!Plain(Back!Ok(x)) = Back!Ok(x)
  BY PlainOf
<1>3. Back!Plain(Back!Err("Decode", None)) = Back!Err("Decode", None)
  BY PlainOf
<1>4. Back!Ok(x).ok \in BOOLEAN
  BY OkFields
<1>5. Back!Err("Decode", None).ok \in BOOLEAN
  BY ErrFields
<1>6. CASE Back!Decode(x, discards) = Back!Ok(x)
  BY <1>2, <1>4, <1>6
<1>7. CASE Back!Decode(x, discards) = Back!Err("Decode", None)
  BY <1>3, <1>5, <1>7
<1> QED
  BY <1>1, <1>6, <1>7

(* A call that its own process could make tells the same over the wire.    *)
LEMMA CallTravels ==
  ASSUME NEW h, h.linked, NEW x, x.encodes
  PROVE  /\ Wire(x, FALSE) = Back!Plain(Back!Local(h, x))
         /\ Wire(x, FALSE).ok \in BOOLEAN
<1>1. Back!Local(h, x) = IF Back!Handler(x).ok THEN Back!Decode(x, FALSE) ELSE Back!Handler(x)
  BY DEF Back!Local
<1>2. CASE ~Back!Handler(x).ok
  BY <1>1, <1>2, FailureTravels
<1>3. CASE Back!Handler(x).ok
  BY <1>1, <1>3, ValueTravels, DecodeAnswers
<1> QED
  BY <1>2, <1>3

(* Without its values, what it tells is what a caller that accepts any     *)
(* value would be told.                                                    *)
LEMMA CallTravelsUnread ==
  ASSUME NEW h, h.linked, NEW x, Back!IsCall(x), x.encodes
  PROVE  LET told == Back!Plain(Back!Local(h, [x EXCEPT !.fits = TRUE]))
         IN /\ Wire(x, TRUE).ok \in BOOLEAN
            /\ told.ok = Wire(x, TRUE).ok
            /\ ~Wire(x, TRUE).ok => told = Wire(x, TRUE)
<1>0. PICK y : y = [x EXCEPT !.fits = TRUE]
  OBVIOUS
<1>1. /\ y.encodes = x.encodes /\ y.shape = x.shape /\ y.act = x.act
      /\ y.details = x.details /\ y.fits = TRUE
  BY <1>0 DEF Back!IsCall
<1>2. Back!Local(h, y) = IF Back!Handler(y).ok THEN Back!Decode(y, FALSE) ELSE Back!Handler(y)
  BY <1>1 DEF Back!Local
<1>3. CASE ~Back!Handler(x).ok
  <2>1. Back!Handler(y) = Back!Handler(x)
    BY <1>1, <1>3, OkFields, ErrFields, RunnerErrorFields, SealedFields DEF Back!Handler
  <2>2. Back!Plain(Back!Local(h, y)) = Wire(x, TRUE) /\ Wire(x, TRUE).ok = FALSE
    BY <1>2, <1>3, <2>1, FailureTravels
  <2> QED
    BY <1>0, <2>2
<1>4. CASE Back!Handler(x).ok
  <2>1. Wire(x, TRUE) = Back!Ok(x)
    BY <1>4, ValueTravels DEF Back!Decode
  <2>2. Back!Handler(x) = Back!Ok(x)
    BY <1>4, HandlerAnswers, OkFields, ErrFields, RunnerErrorFields, SealedFields
  <2>3. Back!Handler(y).ok
    BY <1>1, <1>4, OkFields, ErrFields, RunnerErrorFields, SealedFields DEF Back!Handler
  <2>4. Back!Local(h, y) = Back!Ok(y)
    BY <1>1, <1>2, <2>3 DEF Back!Decode
  <2>5. Back!Plain(Back!Local(h, y)) = Back!Ok(y)
    BY <2>4, PlainOf
  <2> QED
    BY <1>0, <2>1, <2>5, OkFields, ErrFields, RunnerErrorFields, SealedFields
<1> QED
  BY <1>3, <1>4

-------------------------------------------------------------------------------
(* The first error of what one has told is that of the other, when they    *)
(* fail at the same places and alike.                                      *)
LEMMA SameFirstError ==
  ASSUME NEW n \in Nat, NEW r, NEW t, DOMAIN r = 1 .. n, DOMAIN t = 1 .. n,
         \A i \in 1 .. n : /\ r[i].ok \in BOOLEAN /\ t[i].ok = r[i].ok
                           /\ ~r[i].ok => t[i] = r[i],
         \E i \in 1 .. n : ~r[i].ok
  PROVE  Back!FirstError(t) = Back!FirstError(r) /\ ~Back!FirstError(r).ok
<1> DEFINE bad == {i \in 1 .. n : ~r[i].ok}
           first == CHOOSE i \in bad : \A j \in bad : i <= j
<1>1. /\ {i \in DOMAIN r : ~r[i].ok} = bad
      /\ {i \in DOMAIN t : ~t[i].ok} = bad
  <2>1. \A i \in 1 .. n : (~t[i].ok) = (~r[i].ok)
    OBVIOUS
  <2> QED
    BY <2>1
<1>2. Back!FirstError(r) = r[first] /\ Back!FirstError(t) = t[first]
  BY <1>1 DEF Back!FirstError
<1>3. bad \subseteq Nat /\ bad # {}
  OBVIOUS
<1>4. \E i \in bad : \A j \in bad : i <= j
  <2> HIDE DEF bad
  <2> QED
    BY <1>3, LeastOf
<1>5. first \in bad
  <2> HIDE DEF bad
  <2> QED
    BY <1>4
<1> HIDE DEF first
<1>6. ~r[first].ok /\ first \in 1 .. n
  BY <1>5
<1>7. t[first] = r[first]
  BY <1>6
<1> QED
  BY <1>2, <1>6, <1>7

(* Delivered, a remote call tells what a local one would.                  *)
LEMMA ResultsMirror ==
  ASSUME NEW h, NEW c, Back!CaseType(c)
  PROVE  Back!RemoteMirrorsLocal(h, c)
<1> SUFFICES ASSUME h.client, h.connected, h.linked PROVE Back!RemoteMirrorsLocal(h, c)
  BY DEF Back!RemoteMirrorsLocal
<1>1. PICK inputs : inputs = Back!Inputs(c)
  OBVIOUS
<1>2. inputs = c.inputs \/ inputs = <<c.own>>
  BY <1>1 DEF Back!Inputs
<1>3. PICK n \in Nat : DOMAIN inputs = 1 .. n /\ (n = 0 => inputs = <<>>)
  <2>1. CASE inputs = c.inputs
    <3>1. PICK S : c.inputs \in Seq(S)
      BY DEF Back!CaseType
    <3> QED
      BY <2>1, <3>1
  <2>2. CASE inputs = <<c.own>>
    <3>1. DOMAIN inputs = 1 .. 1
      BY <2>2
    <3> QED
      BY <3>1
  <2> QED
    BY <1>2, <2>1, <2>2
<1>4. \A i \in 1 .. n : Back!IsCall(inputs[i])
  <2>1. CASE inputs = c.inputs
    BY <1>3, <2>1 DEF Back!CaseType
  <2>2. CASE inputs = <<c.own>>
    <3>1. \A i \in DOMAIN inputs : inputs[i] = c.own
      BY <2>2
    <3> QED
      BY <1>3, <3>1 DEF Back!CaseType
  <2> QED
    BY <1>2, <2>1, <2>2
<1>5. c.op \notin {"map", "starmap", "for_each", "spawn_map"} => inputs # <<>>
  BY <1>1 DEF Back!Inputs
<1> DEFINE alone == [i \in DOMAIN inputs |-> Back!Plain(Back!Local(h, inputs[i]))]
           lazy == [i \in DOMAIN inputs |->
                      Back!Plain(Back!Local(h, [inputs[i] EXCEPT !.fits = TRUE]))]
           results == [i \in DOMAIN inputs |-> Wire(inputs[i], c.op = "for_each")]
           remote == Back!Remote(h, c, TRUE, TRUE)
<1>6. CASE \E i \in DOMAIN inputs : ~inputs[i].encodes
  <2>1. ~Back!Sendable(h, inputs)
    BY <1>6 DEF Back!Sendable
  <2>2. Back!Refusal(h, inputs) = Back!Err("Encode", None)
    BY <1>6 DEF Back!Refusal
  <2>3. remote = Back!Err("Encode", None)
    BY <1>1, <2>1, <2>2 DEF Back!Remote
  <2> HIDE DEF remote
  <2> QED
    BY <1>1, <1>6, <2>3 DEF Back!RemoteMirrorsLocal, remote
<1>7. CASE \A i \in DOMAIN inputs : inputs[i].encodes
  <2>1. Back!Sendable(h, inputs)
    BY <1>7 DEF Back!Sendable
  <2>2. remote = IF c.op = "spawn_map" /\ inputs = <<>> THEN Back!Err("Sdk", None)
                 ELSE CASE c.op \in {"map", "starmap"} -> Back!Collected(results)
                        [] c.op = "for_each" ->
                             IF Back!Collected(results).ok THEN Back!Ok(None) ELSE Back!Collected(results)
                        [] OTHER -> results[1]
    BY <1>1, <2>1 DEF Back!Remote, Wire
  <2>3. /\ DOMAIN alone = 1 .. n /\ DOMAIN lazy = 1 .. n /\ DOMAIN results = 1 .. n
        /\ c.op # "for_each" => results = alone
        /\ c.op # "for_each" => \A i \in 1 .. n : results[i].ok \in BOOLEAN
        /\ c.op = "for_each" =>
             \A i \in 1 .. n : /\ results[i].ok \in BOOLEAN
                               /\ lazy[i].ok = results[i].ok
                               /\ ~results[i].ok => lazy[i] = results[i]
    <3>1. DOMAIN alone = 1 .. n /\ DOMAIN lazy = 1 .. n /\ DOMAIN results = 1 .. n
      BY <1>3
    <3>2. ASSUME c.op # "for_each", NEW i \in 1 .. n
          PROVE  results[i] = alone[i] /\ results[i].ok \in BOOLEAN
      <4>1. results[i] = Wire(inputs[i], FALSE) /\ alone[i] = Back!Plain(Back!Local(h, inputs[i]))
        BY <1>3, <3>2
      <4> HIDE DEF results, alone
      <4>2. inputs[i].encodes
        BY <1>3, <1>7
      <4> QED
        BY <4>1, <4>2, CallTravels
    <3>3. ASSUME c.op = "for_each", NEW i \in 1 .. n
          PROVE  /\ results[i].ok \in BOOLEAN
                 /\ lazy[i].ok = results[i].ok
                 /\ ~results[i].ok => lazy[i] = results[i]
      <4>1. /\ results[i] = Wire(inputs[i], TRUE)
            /\ lazy[i] = Back!Plain(Back!Local(h, [inputs[i] EXCEPT !.fits = TRUE]))
        BY <1>3, <3>3
      <4> HIDE DEF results, lazy
      <4>2. inputs[i].encodes /\ Back!IsCall(inputs[i])
        BY <1>3, <1>4, <1>7
      <4> QED
        BY <4>1, <4>2, CallTravelsUnread
    <3>4. c.op # "for_each" => results = alone
      BY <3>1, <3>2
    <3> HIDE DEF alone, lazy, results
    <3> QED
      BY <3>1, <3>2, <3>3, <3>4
  <2> DEFINE Same ==
        /\ c.op \in {"map", "starmap"} => remote = Back!Collected(alone)
        /\ c.op = "for_each" => /\ remote.ok <=> Back!Collected(lazy).ok
                                /\ ~remote.ok => remote = Back!FirstError(lazy)
        /\ c.op = "spawn_map" /\ inputs = <<>> => ~remote.ok
        /\ c.op \notin {"map", "starmap", "for_each"} /\ ~(c.op = "spawn_map" /\ inputs = <<>>)
             => remote = alone[1]
  <2>4. SUFFICES Same
    BY <1>1, <1>7 DEF Back!RemoteMirrorsLocal
  <2> HIDE DEF alone, lazy, results, remote
  <2>5. CASE c.op \in {"map", "starmap"}
    BY <2>2, <2>3, <2>5
  <2>6. CASE c.op = "for_each" /\ \A i \in 1 .. n : results[i].ok
    <3>1. Back!Collected(results).ok /\ Back!Collected(lazy).ok
      BY <2>3, <2>6, OkFields DEF Back!Collected
    <3>2. remote = Back!Ok(None)
      BY <2>2, <2>6, <3>1
    <3> QED
      BY <2>6, <3>1, <3>2, OkFields
  <2>7. CASE c.op = "for_each" /\ \E i \in 1 .. n : ~results[i].ok
    <3>1. Back!FirstError(lazy) = Back!FirstError(results) /\ ~Back!FirstError(results).ok
      BY <2>3, <2>7, SameFirstError
    <3>2. Back!Collected(results) = Back!FirstError(results) /\ Back!Collected(lazy) = Back!FirstError(lazy)
      BY <2>3, <2>7 DEF Back!Collected
    <3>3. remote = Back!FirstError(results)
      BY <2>2, <2>7, <3>1, <3>2
    <3> QED
      BY <2>7, <3>1, <3>2, <3>3
  <2>8. CASE c.op = "spawn_map" /\ inputs = <<>>
    BY <2>2, <2>8, ErrFields
  <2>9. CASE /\ c.op \notin {"map", "starmap", "for_each"}
             /\ ~(c.op = "spawn_map" /\ inputs = <<>>)
    BY <2>2, <2>3, <2>9
  <2> QED
    BY <2>5, <2>6, <2>7, <2>8, <2>9
<1> QED
  BY <1>6, <1>7

-------------------------------------------------------------------------------
(* A client is who it was told to be.                                      *)
LEMMA TrimmedIs == \A v : Client!Trimmed(v) # None => Client!Trimmed(v) = v /\ v \notin {Unset, Blank}
BY DEF Client!Trimmed

(* The profile that is used is one of the file: the one asked for if one   *)
(* is, else an active one if any is.                                       *)
LEMMA SelectedProfile ==
  ASSUME NEW profiles, Client!IsSeq(profiles), profiles # <<>>, NEW requested,
         Client!SelectProfile(profiles, requested) # None
  PROVE  \E i \in DOMAIN profiles :
           /\ Client!SelectProfile(profiles, requested) = profiles[i]
           /\ IF requested # None THEN profiles[i].name = requested
              ELSE profiles[i].active \/ \A j \in DOMAIN profiles : ~profiles[j].active
<1>1. PICK n \in Nat : DOMAIN profiles = 1 .. n /\ n # 0
  <2>1. PICK S : profiles \in Seq(S)
    BY DEF Client!IsSeq
  <2> QED
    BY <2>1
<1> DEFINE named == {i \in DOMAIN profiles : profiles[i].name = requested}
           active == {i \in DOMAIN profiles : profiles[i].active}
           first(s) == CHOOSE i \in s : \A j \in s : i <= j
<1>2. ASSUME NEW s, s \subseteq DOMAIN profiles, s # {} PROVE first(s) \in s
  <2>1. \E i \in s : \A j \in s : i <= j
    BY <1>1, <1>2, LeastOf
  <2> QED
    BY <2>1
<1> HIDE DEF first
<1>3. Client!SelectProfile(profiles, requested)
        = CASE requested # None /\ named = {} -> None
            [] requested # None /\ named # {} -> profiles[first(named)]
            [] requested = None /\ active # {} -> profiles[first(active)]
            [] OTHER -> profiles[1]
  BY DEF Client!SelectProfile, first
<1>4. CASE requested # None
  <2>1. named # {} /\ Client!SelectProfile(profiles, requested) = profiles[first(named)]
    <3> HIDE DEF named, active
    <3> QED
      BY <1>3, <1>4
  <2>2. first(named) \in named
    BY <1>2, <2>1
  <2> QED
    BY <1>4, <2>1, <2>2
<1>5. CASE requested = None /\ active # {}
  <2>1. Client!SelectProfile(profiles, requested) = profiles[first(active)]
    <3> HIDE DEF named, active
    <3> QED
      BY <1>3, <1>5
  <2>2. first(active) \in active
    BY <1>2, <1>5
  <2> QED
    BY <1>5, <2>1, <2>2
<1>6. CASE requested = None /\ active = {}
  <2>1. Client!SelectProfile(profiles, requested) = profiles[1]
    <3> HIDE DEF named, active
    <3> QED
      BY <1>3, <1>6
  <2> QED
    BY <1>1, <1>6, <2>1
<1> QED
  BY <1>4, <1>5, <1>6

(* The configuration outside of a container: a profile, and on top of it   *)
(* what the environment sets.                                              *)
LEMMA ConfiguredClient ==
  ASSUME NEW env, NEW machine, Client!ReadConfig(env, machine).ok,
         Client!EnvString(env, "MODAL_IS_REMOTE") # "1"
  PROVE  LET path == IF Client!EnvString(env, "MODAL_CONFIG_PATH") # None THEN "configured" ELSE "home"
             p == Client!ProfileOf(env, machine[path])
             cfg == Client!ReadConfig(env, machine)
         IN /\ p # None /\ cfg.container = FALSE /\ cfg.id # None /\ cfg.secret # None
            /\ cfg.id = Client!OrElse(Client!EnvString(env, "MODAL_TOKEN_ID"), Client!Trimmed(p.id))
            /\ cfg.secret = Client!OrElse(Client!EnvString(env, "MODAL_TOKEN_SECRET"), Client!Trimmed(p.secret))
            /\ cfg.server = Client!OrElse(Client!EnvString(env, "MODAL_SERVER_URL"),
                                          Client!OrElse(Client!Trimmed(p.server), Client!DefaultServer))
<1> DEFINE path == IF Client!EnvString(env, "MODAL_CONFIG_PATH") # None THEN "configured" ELSE "home"
           p == Client!ProfileOf(env, machine[path])
           base == [ok |-> TRUE, container |-> FALSE,
                    server |-> Client!OrElse(Client!Trimmed(p.server), Client!DefaultServer),
                    id |-> Client!Trimmed(p.id), secret |-> Client!Trimmed(p.secret),
                    environment |-> Client!Trimmed(p.environment)]
           cfg == Client!EnvOverrides(base, env)
<1>1. /\ cfg.container = FALSE
      /\ cfg.id = Client!OrElse(Client!EnvString(env, "MODAL_TOKEN_ID"), Client!Trimmed(p.id))
      /\ cfg.secret = Client!OrElse(Client!EnvString(env, "MODAL_TOKEN_SECRET"), Client!Trimmed(p.secret))
      /\ cfg.server = Client!OrElse(Client!EnvString(env, "MODAL_SERVER_URL"),
                                    Client!OrElse(Client!Trimmed(p.server), Client!DefaultServer))
  <2> HIDE DEF p
  <2> QED
    BY DEF Client!EnvOverrides
<1>2. Client!Failed.ok = FALSE
  BY DEF Client!Failed
<1>3. Client!ReadConfig(env, machine)
        = IF p = None THEN Client!Failed
          ELSE IF cfg.id = None \/ cfg.secret = None THEN Client!Failed ELSE cfg
  <2>1. Client!ReadConfig(env, machine)
          = CASE Client!EnvString(env, "MODAL_IS_REMOTE") = "1" -> Client!ContainerConfig(env)
              [] Client!EnvString(env, "MODAL_IS_REMOTE") # "1" /\ p = None -> Client!Failed
              [] OTHER -> IF cfg.id = None \/ cfg.secret = None THEN Client!Failed ELSE cfg
    BY DEF Client!ReadConfig
  <2> HIDE DEF p, cfg
  <2> QED
    BY <2>1
<1> HIDE DEF p, cfg
<1>4. p # None /\ Client!ReadConfig(env, machine) = cfg /\ cfg.id # None /\ cfg.secret # None
  BY <1>2, <1>3
<1> QED
  BY <1>1, <1>4 DEF p

LEMMA ContainerClient ==
  ASSUME NEW env, NEW machine, Client!ReadConfig(env, machine).ok,
         Client!EnvString(env, "MODAL_IS_REMOTE") = "1"
  PROVE  Client!ReadConfig(env, machine).container = TRUE
<1>1. Client!ReadConfig(env, machine) = Client!ContainerConfig(env)
  BY DEF Client!ReadConfig
<1> QED
  BY <1>1 DEF Client!ContainerConfig, Client!Failed

(* A profile is chosen from the file, or the environment says it all.      *)
ChosenProfile(env, file, i) ==
  IF Client!EnvString(env, "MODAL_PROFILE") # None
    THEN file[i].name = Client!EnvString(env, "MODAL_PROFILE")
    ELSE file[i].active \/ \A j \in DOMAIN file : ~file[j].active

LEMMA ProfileFrom ==
  ASSUME NEW env, NEW file, file \in {Absent, Invalid} \/ Client!IsSeq(file),
         Client!ProfileOf(env, file) # None
  PROVE  \/ Client!EnvSuffices(env)
         \/ /\ file # Absent
            /\ \E i \in DOMAIN file : /\ Client!ProfileOf(env, file) = file[i]
                                      /\ ChosenProfile(env, file, i)
<1>1. SUFFICES ASSUME ~Client!EnvSuffices(env)
               PROVE  /\ file # Absent
                      /\ \E i \in DOMAIN file : /\ Client!ProfileOf(env, file) = file[i]
                                                /\ ChosenProfile(env, file, i)
  OBVIOUS
<1>2. /\ file # Absent /\ file # Invalid /\ file # <<>>
      /\ Client!ProfileOf(env, file)
           = Client!SelectProfile(file, Client!EnvString(env, "MODAL_PROFILE"))
  BY <1>1 DEF Client!ProfileOf
<1> QED
  BY <1>2, SelectedProfile DEF ChosenProfile

LEMMA ClientIsItself ==
  ASSUME NEW env, NEW machine, NEW chain, NEW kinds, NEW accepted,
         Client!MachineType(machine, chain)
  PROVE  Client!ConnectsAsItself(env, machine, kinds, accepted)
<1> DEFINE cfg == Client!ReadConfig(env, machine)
           sets(var) == Client!EnvString(env, var) # None
           file == machine[IF sets("MODAL_CONFIG_PATH") THEN "configured" ELSE "home"]
           connects == Client!Connect(env, machine, kinds, accepted)
           ofProfile(i) ==
             /\ connects.headers.tokens
                  = <<Client!OrElse(Client!EnvString(env, "MODAL_TOKEN_ID"), file[i].id),
                      Client!OrElse(Client!EnvString(env, "MODAL_TOKEN_SECRET"), file[i].secret)>>
             /\ connects.cfg.server
                  = Client!OrElse(Client!EnvString(env, "MODAL_SERVER_URL"),
                      Client!OrElse(Client!Trimmed(file[i].server), Client!DefaultServer))
<1> SUFFICES ASSUME connects.result = "connected"
             PROVE  IF connects.cfg.container
                    THEN connects.headers = [type |-> "container", tokens |-> <<>>]
                    ELSE /\ connects.headers.type = "client"
                         /\ Client!EnvSuffices(env) =>
                              connects.headers.tokens
                                = <<Client!EnvString(env, "MODAL_TOKEN_ID"),
                                    Client!EnvString(env, "MODAL_TOKEN_SECRET")>>
                         /\ ~Client!EnvSuffices(env) =>
                              \E i \in DOMAIN file : ChosenProfile(env, file, i) /\ ofProfile(i)
                         /\ sets("MODAL_CONFIG_PATH") \/ Client!CredentialsCheck(env, machine)
  <2> HIDE DEF connects
  <2> QED
    BY DEF Client!ConnectsAsItself, connects, ChosenProfile
<1>1. cfg.ok /\ connects.cfg = cfg /\ connects.headers = Client!Headers(cfg, env)
  <2>1. connects = IF ~cfg.ok THEN [result |-> "config"]
                   ELSE IF Client!Headers(cfg, env).tokens \notin accepted
                   THEN [result |-> "unauthenticated"]
                   ELSE [result |-> "connected", dial |-> Client!Dial(kinds[cfg.server]),
                         headers |-> Client!Headers(cfg, env), cfg |-> cfg]
    BY DEF Client!Connect
  <2> HIDE DEF connects, cfg
  <2> QED
    BY <2>1
<1>2. CASE Client!EnvString(env, "MODAL_IS_REMOTE") = "1"
  <2>1. cfg.container = TRUE
    BY <1>1, <1>2, ContainerClient
  <2> HIDE DEF connects, cfg
  <2> QED
    BY <1>1, <2>1 DEF Client!Headers
<1>3. CASE Client!EnvString(env, "MODAL_IS_REMOTE") # "1"
  <2> DEFINE p == Client!ProfileOf(env, file)
  <2>1. /\ p # None /\ cfg.container = FALSE /\ cfg.id # None /\ cfg.secret # None
        /\ cfg.id = Client!OrElse(Client!EnvString(env, "MODAL_TOKEN_ID"), Client!Trimmed(p.id))
        /\ cfg.secret = Client!OrElse(Client!EnvString(env, "MODAL_TOKEN_SECRET"), Client!Trimmed(p.secret))
        /\ cfg.server = Client!OrElse(Client!EnvString(env, "MODAL_SERVER_URL"),
                                      Client!OrElse(Client!Trimmed(p.server), Client!DefaultServer))
    BY <1>1, <1>3, ConfiguredClient
  <2>2. file \in {Absent, Invalid} \/ Client!IsSeq(file)
    BY DEF Client!MachineType
  <2>3. \/ Client!EnvSuffices(env)
        \/ /\ file # Absent
           /\ \E i \in DOMAIN file : p = file[i] /\ ChosenProfile(env, file, i)
    BY <2>1, <2>2, ProfileFrom
  <2> HIDE DEF connects, cfg, p
  <2>4. connects.headers.type = "client" /\ connects.headers.tokens = <<cfg.id, cfg.secret>>
    BY <1>1, <2>1 DEF Client!Headers
  <2>5. Client!EnvSuffices(env) =>
          connects.headers.tokens = <<Client!EnvString(env, "MODAL_TOKEN_ID"),
                                      Client!EnvString(env, "MODAL_TOKEN_SECRET")>>
    BY <2>1, <2>4 DEF Client!EnvSuffices, Client!OrElse
  <2>6. ASSUME ~Client!EnvSuffices(env)
        PROVE  \E i \in DOMAIN file : ChosenProfile(env, file, i) /\ ofProfile(i)
    <3>1. /\ cfg.id = Client!OrElse(Client!EnvString(env, "MODAL_TOKEN_ID"), p.id)
          /\ cfg.secret = Client!OrElse(Client!EnvString(env, "MODAL_TOKEN_SECRET"), p.secret)
      BY <2>1, TrimmedIs DEF Client!OrElse
    <3>2. PICK i \in DOMAIN file : p = file[i] /\ ChosenProfile(env, file, i)
      BY <2>3, <2>6
    <3>3. ofProfile(i)
      BY <1>1, <2>1, <2>4, <3>1, <3>2
    <3> QED
      BY <3>2, <3>3
  <2>7. sets("MODAL_CONFIG_PATH") \/ Client!CredentialsCheck(env, machine)
    <3>1. CASE Client!EnvSuffices(env)
      BY <3>1, TrimmedIs DEF Client!EnvSuffices, Client!EnvString, Client!CredentialsCheck
    <3>2. CASE file # Absent
      BY <3>2 DEF Client!CredentialsCheck
    <3> QED
      BY <2>3, <3>1, <3>2
  <2> HIDE DEF file
  <2> QED
    BY <1>1, <2>1, <2>4, <2>5, <2>6, <2>7
<1> QED
  BY <1>2, <1>3

(* A release profile that aborts does not pass.                            *)
LEMMA AbortIsCaught ==
  ASSUME NEW env, NEW machine, NEW tools, NEW chain, Client!MachineType(machine, chain)
  PROVE  Client!DoctorCatchesAbort(env, machine, tools, chain)
<1> DEFINE roots == {i \in DOMAIN chain : chain[i].workspace}
           least(s) == CHOOSE i \in s : \A j \in s : i <= j
           root == IF roots = {} THEN 1 ELSE least(roots)
           last == IF roots = {} THEN Len(chain) ELSE least(roots)
           panics == {i \in 1 .. last : chain[i].panic # None}
<1>1. SUFFICES ASSUME Client!CargoPanic(chain) = "abort"
               PROVE  Client!Doctor(env, machine, TRUE, tools, chain) # 0
  BY DEF Client!DoctorCatchesAbort
<1>2. PICK n \in Nat : DOMAIN chain = 1 .. n /\ n # 0 /\ Len(chain) = n
  <2>1. PICK S : chain \in Seq(S)
    BY DEF Client!MachineType, Client!IsSeq
  <2> QED
    BY <2>1 DEF Client!MachineType
<1>3. ASSUME NEW s, s \subseteq Nat, s # {}
      PROVE  least(s) \in s /\ \A j \in s : least(s) <= j
  <2>1. \E i \in s : \A j \in s : i <= j
    BY <1>3, LeastOf
  <2> QED
    BY <2>1
<1>4. chain[root].panic = "abort" /\ chain[root].panic # None
  <2>1. Client!CargoPanic(chain) = Client!OrElse(chain[root].panic, "unwind")
    BY DEF Client!CargoPanic
  <2> HIDE DEF root
  <2> QED
    BY <1>1, <2>1 DEF Client!OrElse
<1>5. Client!ResolvedPanic(chain)
        = CASE panics = {} -> None
            [] roots # {} /\ last \in panics -> chain[last].panic
            [] OTHER -> chain[least(panics)].panic
  BY DEF Client!ResolvedPanic
<1> HIDE DEF least
<1>6. Client!ResolvedPanic(chain) = "abort"
  <2>1. CASE roots # {}
    <3>1. root = last /\ last \in 1 .. n
      BY <1>2, <1>3, <2>1
    <3>2. last \in panics
      BY <1>4, <3>1
    <3> HIDE DEF panics, last, roots
    <3> QED
      BY <1>4, <1>5, <2>1, <3>1, <3>2
  <2>2. CASE roots = {}
    <3>1. root = 1 /\ last = n
      BY <1>2, <2>2
    <3>2. 1 \in panics /\ panics \subseteq Nat
      BY <1>2, <1>4, <3>1
    <3>3. least(panics) = 1
      <4>1. panics \subseteq 1 .. n
        BY <3>1
      <4> HIDE DEF panics
      <4>2. least(panics) \in panics /\ \A j \in panics : least(panics) <= j
        BY <1>3, <3>2
      <4>3. PICK m : m = least(panics)
        OBVIOUS
      <4>4. m \in 1 .. n /\ m <= 1
        BY <3>2, <4>1, <4>2, <4>3
      <4> QED
        BY <4>3, <4>4
    <3> HIDE DEF panics, last, roots
    <3> QED
      BY <1>4, <1>5, <2>2, <3>1, <3>2, <3>3
  <2> QED
    BY <2>1, <2>2
<1> QED
  BY <1>6 DEF Client!Doctor
===============================================================================
