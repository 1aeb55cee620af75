------------------------------ MODULE Deploy_proofs ------------------------------
(***************************************************************************)
(* For any number of deployers and callers, any program with any number of *)
(* versions, and any names: types are invariant, and the app is always one *)
(* whole deploy.  When no two of its entrypoints share an adapter          *)
(* attribute every live function can serve, and when no two names share a  *)
(* tag every call runs its own entrypoint and the deploys implement the    *)
(* service that replaces one whole version by another.                     *)
(***************************************************************************)
EXTENDS Deploy, WellFoundedInduction, TLAPS

-------------------------------------------------------------------------------
(* Facts about the program, its generated lines and its images.            *)

(* A nonempty set of naturals with a bound has a greatest element.         *)
LEMMA GreatestOf ==
  ASSUME NEW S, S \subseteq Nat, S # {}, NEW b \in Nat, \A n \in S : n <= b
  PROVE  \E m \in S : \A n \in S : n <= m
<1> DEFINE R == OpToRel(<, Nat)
           T == {b - n : n \in S}
<1>1. IsWellFoundedOn(R, Nat)
  BY NatLessThanWellFounded
<1>2. T \subseteq Nat /\ T # {}
  <2>1. \A n \in S : b - n \in Nat
    OBVIOUS
  <2>2. QED
    BY <2>1
<1>3. PICK x \in T : \A y \in T : <<y, x>> \notin R
  <2> HIDE DEF R, T
  <2> QED
    BY <1>1, <1>2, WFMin
<1>4. ASSUME NEW y \in T PROVE ~(y < x)
  <2>1. <<y, x>> \notin R /\ x \in Nat /\ y \in Nat
    BY <1>2, <1>3
  <2>2. QED
    BY <2>1 DEF OpToRel
<1>5. PICK m \in S : x = b - m
  BY <1>3
<1>6. ASSUME NEW n \in S PROVE n <= m
  <2>1. ~(b - n < b - m)
    BY <1>4, <1>5
  <2>2. QED
    BY <2>1
<1>7. QED
  BY <1>6

(* The entrypoints of a version, by index.                                 *)
LEMMA EntryType ==
  ASSUME NEW v \in Versions
  PROVE  /\ Program[v] \in Seq(Entrypoints) /\ Len(Program[v]) \in Nat \ {0}
         /\ DOMAIN Program[v] = 1 .. Len(Program[v])
         /\ \A i \in DOMAIN Program[v] : Program[v][i] \in Entrypoints
<1>1. Program[v] \in Seq(Entrypoints) /\ Program[v] # <<>>
  BY ProgramType DEF Versions
<1>2. QED
  BY <1>1

(* What a version's entrypoint is called by, in the wrapper.               *)
LEMMA CallableType ==
  ASSUME NEW e \in Entrypoints
  PROVE  /\ Callable(e) \in Attrs \cup {"handler"}
         /\ e.kind = "plain" <=> Callable(e) = "handler"
BY NameMaps DEF Callable, Entrypoints

(* Python keeps one line for every attribute that has any.                 *)
LEMMA LastIsALine ==
  ASSUME NEW v \in Versions, NEW lines, lines \subseteq DOMAIN Program[v], lines # {}
  PROVE  LastOf(v, lines) \in lines
<1> DEFINE N == Len(Program[v])
           S == {LineNumber(v, i) : i \in lines}
<1>1. N \in Nat /\ \A i \in lines : i \in 1 .. N
  BY EntryType
<1>2. \A i \in lines : LineNumber(v, i) \in Nat /\ LineNumber(v, i) <= N + N
  BY <1>1 DEF LineNumber
<1>3. S \subseteq Nat /\ S # {} /\ N + N \in Nat /\ \A n \in S : n <= N + N
  BY <1>1, <1>2
<1>4. PICK m \in S : \A n \in S : n <= m
  <2> HIDE DEF S
  <2> QED
    BY <1>3, GreatestOf
<1>5. \E i \in lines : \A j \in lines : LineNumber(v, j) <= LineNumber(v, i)
  BY <1>4
<1>6. QED
  BY <1>5 DEF LastOf

LEMMA AdaptersType ==
  ASSUME NEW v \in Versions
  PROVE  Adapters(v) \in [Attrs -> Handlers \cup {None}]
<1> SUFFICES ASSUME NEW a \in Attrs PROVE Kept(v, Lines(v, a)) \in Handlers \cup {None}
  BY DEF Adapters
<1>1. CASE Lines(v, a) = {}
  BY <1>1 DEF Kept
<1>2. CASE Lines(v, a) # {}
  <2>1. LastOf(v, Lines(v, a)) \in Lines(v, a)
    BY <1>2, LastIsALine DEF Lines
  <2>2. /\ Program[v][LastOf(v, Lines(v, a))] \in Entrypoints
        /\ Program[v][LastOf(v, Lines(v, a))].kind # "plain"
    BY <2>1, EntryType DEF Lines
  <2>3. QED
    BY <1>2, <2>2 DEF Kept, Handlers, Entrypoints
<1>3. QED
  BY <1>1, <1>2

-------------------------------------------------------------------------------
(* Where a deploy is.  It knows its plan once it has started, its source   *)
(* once the mounts are there; from the top layer on its runner is one that *)
(* cargo built; it is at an entrypoint of its plan, or has passed the last.*)
Placed ==
  \A d \in Deployers :
    /\ pc[d] = "idle" => plan[d] = None /\ next[d] = 1
    /\ pc[d] # "idle" => plan[d] \in Versions
    /\ pc[d] \in {"source", "base", "dep", "top"} => next[d] = 1
    /\ pc[d] \in {"precreate", "secrets", "create"} =>
         /\ next[d] <= Len(Program[plan[d]])
         /\ layer[d].runner \in Versions
    /\ pc[d] \in {"publish", "resolve"} => next[d] = Len(Program[plan[d]]) + 1
    /\ pc[d] \in Deploying \ {"source"} => source[d] \in Versions

(* A caller that has resolved its name has a definition.                   *)
Resolved ==
  \A c \in Callers :
    /\ callPc[c] = "idle" => asked[c] = None /\ got[c] = None
    /\ callPc[c] \in {"invoke", "done"} => asked[c] \in Names /\ got[c] \in Definitions

(* The entrypoint a deploy is at.                                          *)
LEMMA EpType ==
  ASSUME NEW d \in Deployers, plan[d] \in Versions,
         next[d] \in Nat \ {0}, next[d] <= Len(Program[plan[d]])
  PROVE  next[d] \in DOMAIN Program[plan[d]] /\ Ep(d) \in Entrypoints
BY EntryType DEF Ep

LEMMA DefinitionType ==
  ASSUME TypeOK, NEW d \in Deployers, plan[d] \in Versions,
         Ep(d) \in Entrypoints, layer[d].runner \in Versions
  PROVE  Definition(d) \in Definitions /\ Tag[Ep(d).name] \in Tags
<1>1. layer[d] \in Images(Versions)
  BY DEF TypeOK, Images
<1>2. Callable(Ep(d)) \in Attrs \cup {"handler"}
  BY CallableType
<1>3. Ep(d).name \in Names
  BY DEF Entrypoints
<1>4. QED
  BY <1>1, <1>2, <1>3, NameMaps DEF Definition, Definitions

LEMMA RunsType ==
  ASSUME NEW def \in Definitions, NEW n \in Names
  PROVE  Runs(def, n) \in {None} \cup (Names \X Versions)
<1>1. \A v \in Versions : NamesIn[v] \subseteq Names
  BY EntryType DEF NamesIn, Entrypoints
<1>2. QED
  BY <1>1 DEF Runs

(* A layer on top of an image.                                             *)
LEMMA RunnerLayer ==
  \A V : \A im \in Images(V), r \in V : [im EXCEPT !.runner = r] \in Images(V)
BY DEF Images

Topped(im, r, a, p) == [im EXCEPT !.runner = r, !.adapters = a, !.prime = p]

LEMMA TopLayer ==
  \A V : \A im \in Images(V), r \in V, a \in [Attrs -> Handlers \cup {None}], p \in BOOLEAN :
    Topped(im, r, a, p) \in Images(V) /\ Topped(im, r, a, p).runner = r
BY DEF Images, Topped

(* A step of a deploy, or of the developer.                                *)
LEMMA DeployerType ==
  TypeOK /\ Placed /\ (Edit \/ \E d \in Deployers : Start(d) \/ Step(d) \/ PublishLost(d) \/ Fail(d))
    => (TypeOK /\ Placed)'
<1> SUFFICES ASSUME TypeOK, Placed PROVE
       (Edit \/ \E d \in Deployers : Start(d) \/ Step(d) \/ PublishLost(d) \/ Fail(d))
         => (TypeOK /\ Placed)'
  OBVIOUS
<1>a. /\ NoFunctions \in Functions
      /\ NoLayer \in Images(Versions \cup {Stub, None})
      /\ None \notin Versions
  BY MarkType DEF NoFunctions, Functions, NoLayer, Images
<1> USE <1>a DEF TypeOK, Placed, Goto, Deploying, deployer, caller
<1>1. ASSUME Edit PROVE (TypeOK /\ Placed)'
  <2>1. disk' \in Versions
    BY <1>1, ProgramType DEF Edit, Versions
  <2>2. QED
    BY <1>1, <2>1 DEF Edit
<1>2. ASSUME NEW d \in Deployers, Start(d) PROVE (TypeOK /\ Placed)'
  BY <1>2 DEF Start
<1>3. ASSUME NEW d \in Deployers, EnsureMounts(d) PROVE (TypeOK /\ Placed)'
  BY <1>3 DEF EnsureMounts
<1>4. ASSUME NEW d \in Deployers, BuildBase(d) PROVE (TypeOK /\ Placed)'
  <2>1. [NoLayer EXCEPT !.fastapi = Fastapi(plan[d])] \in Images(Versions \cup {Stub, None})
    BY DEF Images, Fastapi, NoLayer
  <2>2. QED
    BY <1>4, <2>1 DEF BuildBase
<1>5. ASSUME NEW d \in Deployers, BuildDep(d) PROVE (TypeOK /\ Placed)'
  <2>1. [layer[d] EXCEPT !.runner = Stub] \in Images(Versions \cup {Stub, None})
    <3>1. layer[d] \in Images(Versions \cup {Stub, None}) /\ Stub \in Versions \cup {Stub, None}
      OBVIOUS
    <3>2. QED
      BY <3>1, RunnerLayer
  <2>2. layer' \in [Deployers -> Images(Versions \cup {Stub, None})]
    BY <1>5, <2>1 DEF BuildDep
  <2>3. QED
    BY <1>5, <2>2 DEF BuildDep
<1>6. ASSUME NEW d \in Deployers, BuildTop(d) PROVE (TypeOK /\ Placed)'
  <2>1. plan[d] \in Versions /\ source[d] \in Versions /\ next[d] = 1 /\ pc[d] = "top"
    BY <1>6 DEF BuildTop
  <2>2. CASE source[d] \in Broken
    <3>1. /\ pc' = [pc EXCEPT ![d] = "failed"]
          /\ UNCHANGED <<disk, plan, edited, source, layer, next, published, envOf, layout, caller>>
      BY <1>6, <2>2 DEF BuildTop
    <3>2. Placed'
      <4>1. \A e \in Deployers : pc'[e] = IF e = d THEN "failed" ELSE pc[e]
        BY <3>1
      <4>2. QED
        BY <2>1, <3>1, <4>1
    <3>3. pc' \in [Deployers -> {"idle", "done", "failed"} \cup Deploying]
      BY <3>1
    <3>4. TypeOK'
      BY <3>1, <3>3
    <3>5. QED
      BY <3>2, <3>4
  <2>3. CASE source[d] \notin Broken
    <3> DEFINE top == Topped(layer[d], source[d], Adapters(plan[d]), AnySnapshot(plan[d]))
    <3>1. top \in Images(Versions \cup {Stub, None}) /\ top.runner \in Versions
      <4>1. /\ layer[d] \in Images(Versions \cup {Stub, None})
            /\ source[d] \in Versions \cup {Stub, None}
        BY <2>1
      <4>2. /\ Adapters(plan[d]) \in [Attrs -> Handlers \cup {None}]
            /\ AnySnapshot(plan[d]) \in BOOLEAN
        BY <2>1, AdaptersType DEF AnySnapshot
      <4>3. PICK V, im, r, a, p : /\ V = Versions \cup {Stub, None}
                                  /\ im = layer[d] /\ r = source[d]
                                  /\ a = Adapters(plan[d]) /\ p = AnySnapshot(plan[d])
        OBVIOUS
      <4> HIDE DEF TypeOK, Placed
      <4>4. im \in Images(V) /\ r \in V /\ a \in [Attrs -> Handlers \cup {None}] /\ p \in BOOLEAN
        BY <4>1, <4>2, <4>3
      <4>5. Topped(im, r, a, p) \in Images(V) /\ Topped(im, r, a, p).runner = r
        BY <4>4, TopLayer
      <4>6. QED
        BY <2>1, <4>3, <4>5
    <3>2. /\ layer' = [layer EXCEPT ![d] = top] /\ pc' = [pc EXCEPT ![d] = "precreate"]
          /\ UNCHANGED <<disk, plan, edited, source, next, published, envOf, layout, caller>>
      BY <1>6, <2>3 DEF BuildTop, Topped, Copied
    <3>3. 1 <= Len(Program[plan[d]])
      BY <2>1, EntryType
    <3> HIDE DEF top
    <3>4. layer'[d] = top /\ \A e \in Deployers : e # d => layer'[e] = layer[e]
      BY <3>2
    <3>5. \A e \in Deployers : pc'[e] = IF e = d THEN "precreate" ELSE pc[e]
      BY <3>2
    <3>6. Placed'
      BY <2>1, <3>1, <3>2, <3>3, <3>4, <3>5
    <3>7. layer' \in [Deployers -> Images(Versions \cup {Stub, None})]
      BY <3>1, <3>2
    <3>8. pc' \in [Deployers -> {"idle", "done", "failed"} \cup Deploying]
      BY <3>2
    <3>9. TypeOK'
      BY <3>2, <3>7, <3>8
    <3>10. QED
      BY <3>6, <3>9
  <2>4. QED
    BY <2>2, <2>3
<1>7. ASSUME NEW d \in Deployers, Precreate(d) PROVE (TypeOK /\ Placed)'
  BY <1>7 DEF Precreate
<1>8. ASSUME NEW d \in Deployers, EnsureSecrets(d) PROVE (TypeOK /\ Placed)'
  <2>1. Ep(d) \in Entrypoints
    BY <1>8, EpType DEF EnsureSecrets
  <2>2. envOf' \in [Tags -> Nat \cup {None}]
    BY <1>8, <2>1 DEF EnsureSecrets, CreateIfMissing, Entrypoints
  <2>3. PICK to \in {"create", "failed"} : pc' = [pc EXCEPT ![d] = to]
    BY <1>8 DEF EnsureSecrets
  <2>4. /\ pc[d] = "secrets"
        /\ UNCHANGED <<disk, plan, edited, source, layer, next, published, layout, caller>>
    BY <1>8 DEF EnsureSecrets
  <2>5. pc'[d] = to /\ \A e \in Deployers : e # d => pc'[e] = pc[e]
    BY <2>3
  <2>6. Placed'
    BY <2>4, <2>5
  <2>7. pc' \in [Deployers -> {"idle", "done", "failed"} \cup Deploying]
    BY <2>3
  <2>8. TypeOK'
    BY <2>2, <2>4, <2>7
  <2>9. QED
    BY <2>6, <2>8
<1>9. ASSUME NEW d \in Deployers, Create(d) PROVE (TypeOK /\ Placed)'
  <2>1. /\ Ep(d) \in Entrypoints /\ plan[d] \in Versions
        /\ layer[d].runner \in Versions /\ pc[d] = "create"
        /\ Len(Program[plan[d]]) \in Nat
    BY <1>9, EpType, EntryType DEF Create
  <2>2. CASE OptionsOk(Ep(d).options)
    <3>1. Definition(d) \in Definitions
      BY <2>1, DefinitionType
    <3>2. published' \in [Deployers -> Functions]
      <4>1. Tag[Ep(d).name] \in Tags
        BY <2>1, NameMaps DEF Entrypoints
      <4>2. [published[d] EXCEPT ![Tag[Ep(d).name]] = Definition(d)] \in Functions
        BY <3>1, <4>1 DEF Functions
      <4>3. QED
        BY <1>9, <2>2, <4>2 DEF Create, Record
    <3>3. next' = [next EXCEPT ![d] = @ + 1] /\ next[d] <= Len(Program[plan[d]])
      BY <1>9, <2>2 DEF Create
    <3>4. \/ next[d] = Len(Program[plan[d]]) /\ pc' = [pc EXCEPT ![d] = "publish"]
          \/ next[d] < Len(Program[plan[d]]) /\ pc' = [pc EXCEPT ![d] = "precreate"]
      BY <1>9, <2>1, <2>2, <3>3 DEF Create
    <3>5. UNCHANGED <<disk, plan, edited, source, layer, envOf, layout, caller>>
      BY <1>9 DEF Create
    <3>6. next' \in [Deployers -> Nat \ {0}]
      BY <3>3
    <3>7. pc' \in [Deployers -> {"idle", "done", "failed"} \cup Deploying]
      BY <3>4
    <3>8. Placed'
      <4>1. CASE next[d] = Len(Program[plan[d]]) /\ pc' = [pc EXCEPT ![d] = "publish"]
        BY <2>1, <3>3, <3>5, <4>1
      <4>2. CASE next[d] < Len(Program[plan[d]]) /\ pc' = [pc EXCEPT ![d] = "precreate"]
        BY <2>1, <3>3, <3>5, <4>2
      <4>3. QED
        BY <3>4, <4>1, <4>2
    <3>9. TypeOK'
      BY <3>2, <3>5, <3>6, <3>7
    <3>10. QED
      BY <3>8, <3>9
  <2>3. CASE ~OptionsOk(Ep(d).options)
    <3>1. /\ pc' = [pc EXCEPT ![d] = "failed"]
          /\ UNCHANGED <<disk, plan, edited, source, layer, next, published, envOf, layout, caller>>
      BY <1>9, <2>3 DEF Create
    <3>2. Placed'
      <4>1. \A e \in Deployers : pc'[e] = IF e = d THEN "failed" ELSE pc[e]
        BY <3>1
      <4>2. QED
        BY <2>1, <3>1, <4>1
    <3>3. pc' \in [Deployers -> {"idle", "done", "failed"} \cup Deploying]
      BY <3>1
    <3>4. TypeOK'
      BY <3>1, <3>3
    <3>5. QED
      BY <3>2, <3>4
  <2>4. QED
    BY <2>2, <2>3
<1>10. ASSUME NEW d \in Deployers, Publish(d) PROVE (TypeOK /\ Placed)'
  BY <1>10 DEF Publish, AppPublish
<1>11. ASSUME NEW d \in Deployers, PublishLost(d) PROVE (TypeOK /\ Placed)'
  BY <1>11 DEF PublishLost, AppPublish
<1>12. ASSUME NEW d \in Deployers, Resolve(d) PROVE (TypeOK /\ Placed)'
  BY <1>12 DEF Resolve
<1>13. ASSUME NEW d \in Deployers, Fail(d) PROVE (TypeOK /\ Placed)'
  <2>1. source' \in [Deployers -> Versions \cup {None}]
    BY <1>13 DEF Fail
  <2>2. layer' \in [Deployers -> Images(Versions \cup {Stub, None})]
    BY <1>13 DEF Fail
  <2>3. published' \in [Deployers -> Functions]
    BY <1>13 DEF Fail
  <2>4. pc' \in [Deployers -> {"idle", "done", "failed"} \cup Deploying]
    BY <1>13 DEF Fail
  <2>5. Placed'
    BY <1>13 DEF Fail
  <2>6. next' \in [Deployers -> Nat \ {0}]
    BY <1>13 DEF Fail
  <2>7. TypeOK'
    BY <1>13, <2>1, <2>2, <2>3, <2>4, <2>6 DEF Fail
  <2>8. QED
    BY <2>5, <2>7
<1>14. QED
  BY <1>1, <1>2, <1>3, <1>4, <1>5, <1>6, <1>7, <1>8, <1>9, <1>10, <1>11, <1>12, <1>13 DEF Step

(* A step of a call.                                                       *)
LEMMA CallerType ==
  TypeOK /\ Placed /\ Resolved
    /\ (\E c \in Callers : Invoke(c) \/ \E n \in Names : Lookup(c, n))
    => (TypeOK /\ Placed /\ Resolved)'
<1> SUFFICES ASSUME TypeOK, Placed, Resolved PROVE
       (\E c \in Callers : Invoke(c) \/ \E n \in Names : Lookup(c, n))
         => (TypeOK /\ Placed /\ Resolved)'
  OBVIOUS
<1> USE DEF TypeOK, Placed, Resolved, deployer
<1>1. ASSUME NEW c \in Callers, Invoke(c) PROVE (TypeOK /\ Placed /\ Resolved)'
  <2>1. Runs(got[c], asked[c]) \in {None} \cup (Names \X Versions)
    BY <1>1, RunsType DEF Invoke
  <2>2. ran' \in [Callers -> {None} \cup (Names \X Versions)]
    BY <1>1, <2>1 DEF Invoke
  <2>3. QED
    BY <1>1, <2>2 DEF Invoke
<1>2. ASSUME NEW c \in Callers, NEW n \in Names, Lookup(c, n)
      PROVE  (TypeOK /\ Placed /\ Resolved)'
  <2>1. layout[Tag[n]] \in Definitions \cup {None}
    BY NameMaps DEF Functions
  <2>2. QED
    BY <1>2, <2>1 DEF Lookup
<1>3. QED
  BY <1>1, <1>2

LEMMA InitType == Init => TypeOK /\ Placed /\ Resolved
<1> SUFFICES ASSUME Init PROVE TypeOK /\ Placed /\ Resolved
  OBVIOUS
<1>1. NoFunctions \in Functions /\ NoLayer \in Images(Versions \cup {Stub, None})
  BY DEF NoFunctions, Functions, NoLayer, Images
<1>2. 1 \in Versions
  BY ProgramType DEF Versions
<1>3. TypeOK
  BY <1>1, <1>2 DEF Init, TypeOK, NoFunctions
<1>4. QED
  BY <1>3 DEF Init, Placed, Resolved, Deploying

LEMMA StepType ==
  TypeOK /\ Placed /\ Resolved /\ [Next]_vars => (TypeOK /\ Placed /\ Resolved)'
<1> SUFFICES ASSUME TypeOK, Placed, Resolved, [Next]_vars PROVE (TypeOK /\ Placed /\ Resolved)'
  OBVIOUS
<1>1. CASE UNCHANGED vars
  BY <1>1 DEF vars, deployer, caller, TypeOK, Placed, Resolved
<1>2. CASE \E c \in Callers : Invoke(c) \/ \E n \in Names : Lookup(c, n)
  BY <1>2, CallerType
<1>3. CASE Edit \/ \E d \in Deployers : Start(d) \/ Step(d) \/ PublishLost(d) \/ Fail(d)
  <2>1. UNCHANGED caller
    BY <1>3 DEF Edit, Start, Step, PublishLost, Fail, EnsureMounts, BuildBase, BuildDep,
                BuildTop, Precreate, EnsureSecrets, Create, Publish, Resolve
  <2>2. Resolved'
    BY <2>1 DEF caller, Resolved
  <2>3. QED
    BY <1>3, <2>2, DeployerType
<1>4. QED
  BY <1>1, <1>2, <1>3 DEF Next

(* Every variable keeps its type: a function is never made of an image     *)
(* whose runner is that of the stub (`Definitions`).                       *)
THEOREM TypeCorrect == Spec => []TypeOK
BY InitType, StepType, PTL DEF Spec

-------------------------------------------------------------------------------
(* What a deploy makes of its plan: one definition of an entrypoint, of    *)
(* the shared image of the plan; the runner is that of the plan unless the *)
(* source was edited before the upload.                                    *)
FromPlan(d, g, def) ==
  /\ plan[d] \in Versions
  /\ def \in Definitions
  /\ def.by = d /\ def.version = plan[d] /\ Tag[def.name] = g
  /\ \E i \in DOMAIN Program[plan[d]] :
        /\ def.name = Program[plan[d]][i].name
        /\ def.callable = Callable(Program[plan[d]][i])
  /\ def.image.fastapi = Fastapi(plan[d])
  /\ def.image.adapters = Adapters(plan[d])
  /\ def.image.prime = AnySnapshot(plan[d])
  /\ edited[d] \/ def.image.runner = plan[d]

(* What its source and its image are of, at each stage.                    *)
Layered ==
  \A d \in Deployers :
    /\ pc[d] = "source" /\ ~edited[d] => plan[d] = disk
    /\ pc[d] \in Deploying \ {"source"} /\ ~edited[d] => source[d] = plan[d]
    /\ pc[d] \in {"dep", "top", "precreate", "secrets", "create"} =>
         layer[d].fastapi = Fastapi(plan[d])
    /\ pc[d] \in {"precreate", "secrets", "create"} =>
         /\ layer[d].runner = source[d]
         /\ layer[d].adapters = Adapters(plan[d])
         /\ layer[d].prime = AnySnapshot(plan[d])

(* What it has recorded: the entrypoints before the one it is at.          *)
Passed(d) == {Tag[Program[plan[d]][i].name] : i \in 1 .. next[d] - 1}
RecordedBy(d) ==
  \A g \in Tags :
    /\ published[d][g] # None => FromPlan(d, g, published[d][g])
    /\ pc[d] \in Deploying => (published[d][g] # None <=> g \in Passed(d))
    /\ pc[d] = "idle" => published[d][g] = None
Recorded == \A d \in Deployers : RecordedBy(d)

(* What is live: nothing, or all that one deploy has made.                 *)
TagsOf(v) == {Tag[n] : n \in NamesIn[v]}
Whole(d) == \A g \in Tags : IF g \in TagsOf(plan[d]) THEN FromPlan(d, g, layout[g])
                            ELSE layout[g] = None
Live == layout = NoFunctions \/ \E d \in Deployers : plan[d] \in Versions /\ Whole(d)

(* What a caller has resolved and what served it.                          *)
Held ==
  \A c \in Callers :
    /\ got[c] # None => \E d \in Deployers : FromPlan(d, Tag[asked[c]], got[c])
    /\ callPc[c] = "done" => ran[c] = Runs(got[c], asked[c])

(* A plan is kept, and an edited one stays so.                             *)
LEMMA PlanKept ==
  ASSUME TypeOK, Placed, [Next]_vars, NEW d \in Deployers, plan[d] \in Versions
  PROVE  plan'[d] = plan[d] /\ (edited[d] => edited'[d])
<1>a. pc[d] # "idle"
  BY MarkType DEF Placed
<1> USE <1>a DEF TypeOK, Goto
<1>1. CASE Edit
  BY <1>1 DEF Edit
<1>2. ASSUME NEW e \in Deployers, Start(e)
      PROVE  plan'[d] = plan[d] /\ (edited[d] => edited'[d])
  BY <1>2 DEF Start
<1>3. ASSUME NEW e \in Deployers, Step(e) \/ PublishLost(e) \/ Fail(e)
      PROVE  UNCHANGED <<plan, edited>>
  BY <1>3 DEF Step, PublishLost, Fail, EnsureMounts, BuildBase, BuildDep, BuildTop, Precreate,
              EnsureSecrets, Create, Publish, Resolve, deployer
<1>4. ASSUME NEW c \in Callers, Invoke(c) \/ \E n \in Names : Lookup(c, n)
      PROVE  UNCHANGED <<plan, edited>>
  BY <1>4 DEF Invoke, Lookup, deployer
<1>5. CASE UNCHANGED vars
  BY <1>5 DEF vars, deployer
<1>6. QED
  BY <1>1, <1>2, <1>3, <1>4, <1>5 DEF Next

LEMMA FromPlanKept ==
  ASSUME TypeOK, Placed, [Next]_vars, NEW d \in Deployers, NEW g, NEW def, FromPlan(d, g, def)
  PROVE  FromPlan(d, g, def)'
<1>1. plan'[d] = plan[d] /\ (edited[d] => edited'[d])
  BY PlanKept DEF FromPlan
<1>2. QED
  BY <1>1 DEF FromPlan

(* Every stage of a deploy leaves what its source and image are of.        *)
LEMMA LayeredStep == TypeOK /\ Placed /\ Layered /\ [Next]_vars => Layered'
<1> SUFFICES ASSUME TypeOK, Placed, Layered, [Next]_vars PROVE Layered'
  OBVIOUS
<1>a. None \notin Versions
  BY MarkType
<1> USE <1>a DEF TypeOK, Placed, Layered, Goto, Deploying, deployer, caller
<1>1. CASE Edit
  BY <1>1 DEF Edit
<1>2. ASSUME NEW d \in Deployers, Start(d) PROVE Layered'
  BY <1>2 DEF Start
<1>3. ASSUME NEW d \in Deployers, EnsureMounts(d) PROVE Layered'
  BY <1>3 DEF EnsureMounts
<1>4. ASSUME NEW d \in Deployers, BuildBase(d) PROVE Layered'
  <2>1. layer' = [layer EXCEPT ![d] = [NoLayer EXCEPT !.fastapi = Fastapi(plan[d])]]
    BY <1>4 DEF BuildBase
  <2>2. layer'[d].fastapi = Fastapi(plan[d])
    BY <2>1 DEF NoLayer
  <2>3. \A e \in Deployers : e # d => layer'[e] = layer[e]
    BY <2>1
  <2>4. \E to \in {"dep", "top"} : pc' = [pc EXCEPT ![d] = to]
    BY <1>4 DEF BuildBase
  <2>5. QED
    BY <1>4, <2>2, <2>3, <2>4 DEF BuildBase
<1>5. ASSUME NEW d \in Deployers, BuildDep(d) PROVE Layered'
  <2>1. layer'[d].fastapi = layer[d].fastapi /\ \A e \in Deployers : e # d => layer'[e] = layer[e]
    BY <1>5 DEF BuildDep, Images
  <2>2. QED
    BY <1>5, <2>1 DEF BuildDep
<1>6. ASSUME NEW d \in Deployers, BuildTop(d) PROVE Layered'
  <2>1. CASE source[d] \in Broken
    BY <1>6, <2>1 DEF BuildTop
  <2>2. CASE source[d] \notin Broken
    <3>1. /\ layer'[d].fastapi = layer[d].fastapi
          /\ layer'[d].runner = source[d]
          /\ layer'[d].adapters = Adapters(plan[d])
          /\ layer'[d].prime = AnySnapshot(plan[d])
          /\ \A e \in Deployers : e # d => layer'[e] = layer[e]
      BY <1>6, <2>2 DEF BuildTop, Copied, Images
    <3>2. QED
      BY <1>6, <2>2, <3>1 DEF BuildTop
  <2>3. QED
    BY <2>1, <2>2
<1>7. ASSUME NEW d \in Deployers, Precreate(d) \/ EnsureSecrets(d) \/ Create(d) PROVE Layered'
  <2>1. /\ \E to \in {"secrets", "create", "precreate", "publish", "failed"} :
             pc' = [pc EXCEPT ![d] = to]
        /\ pc[d] \in {"precreate", "secrets", "create"}
        /\ UNCHANGED <<disk, plan, edited, source, layer>>
    BY <1>7 DEF Precreate, EnsureSecrets, Create
  <2>2. QED
    BY <2>1
<1>8. ASSUME NEW d \in Deployers, Publish(d) \/ PublishLost(d) \/ Resolve(d) PROVE Layered'
  BY <1>8 DEF Publish, PublishLost, Resolve
<1>9. ASSUME NEW d \in Deployers, Fail(d) PROVE Layered'
  BY <1>9 DEF Fail
<1>10. ASSUME NEW c \in Callers, Invoke(c) \/ \E n \in Names : Lookup(c, n) PROVE Layered'
  BY <1>10 DEF Invoke, Lookup
<1>11. CASE UNCHANGED vars
  BY <1>11 DEF vars
<1>12. QED
  BY <1>1, <1>2, <1>3, <1>4, <1>5, <1>6, <1>7, <1>8, <1>9, <1>10, <1>11 DEF Next, Step

(* A create records the definition of the entrypoint that the deploy is at.*)
LEMMA CreateRecords ==
  ASSUME TypeOK, Placed, Layered, NEW d \in Deployers, Create(d), OptionsOk(Ep(d).options)
  PROVE  LET g == Tag[Ep(d).name] IN
         /\ g \in Tags /\ FromPlan(d, g, Definition(d)) /\ Definition(d) # None
         /\ published' = [published EXCEPT ![d] = [@ EXCEPT ![g] = Definition(d)]]
         /\ next' = [next EXCEPT ![d] = @ + 1]
         /\ next[d] \in DOMAIN Program[plan[d]] /\ Ep(d) = Program[plan[d]][next[d]]
<1>1. /\ pc[d] = "create" /\ plan[d] \in Versions /\ layer[d].runner \in Versions
      /\ next[d] \in Nat \ {0} /\ next[d] <= Len(Program[plan[d]])
  BY DEF Create, Placed, Goto, TypeOK
<1>2. Ep(d) \in Entrypoints /\ next[d] \in DOMAIN Program[plan[d]]
  BY <1>1, EpType
<1>3. Definition(d) \in Definitions /\ Tag[Ep(d).name] \in Tags
  BY <1>1, <1>2, DefinitionType
<1>4. /\ layer[d].fastapi = Fastapi(plan[d]) /\ layer[d].adapters = Adapters(plan[d])
      /\ layer[d].prime = AnySnapshot(plan[d])
      /\ edited[d] \/ layer[d].runner = plan[d]
  BY <1>1 DEF Layered, Deploying
<1>5. FromPlan(d, Tag[Ep(d).name], Definition(d))
  BY <1>1, <1>2, <1>3, <1>4 DEF FromPlan, Definition, Ep
<1>6. QED
  BY <1>2, <1>3, <1>5, NoValue DEF Create, Record, Ep

LEMMA RecordedQuietly ==
  ASSUME TypeOK, Placed, [Next]_vars, NEW d \in Deployers, RecordedBy(d),
         published'[d] = published[d], next'[d] = next[d], plan'[d] = plan[d],
         pc'[d] \in Deploying => pc[d] \in Deploying,
         pc'[d] = "idle" => pc[d] = "idle"
  PROVE  RecordedBy(d)'
<1>1. Passed(d)' = Passed(d)
  BY DEF Passed
<1>2. ASSUME NEW g \in Tags, published'[d][g] # None
      PROVE  FromPlan(d, g, published[d][g])'
  <2>1. PICK def : def = published'[d][g]
    OBVIOUS
  <2>2. FromPlan(d, g, def)
    BY <1>2, <2>1 DEF RecordedBy
  <2>3. FromPlan(d, g, def)'
    BY <2>2, FromPlanKept
  <2>4. QED
    BY <2>1, <2>3 DEF FromPlan
<1>3. QED
  BY <1>1, <1>2 DEF RecordedBy

LEMMA RecordedStep == TypeOK /\ Placed /\ Layered /\ Recorded /\ [Next]_vars => Recorded'
<1> SUFFICES ASSUME TypeOK, Placed, Layered, Recorded, [Next]_vars,
                    NEW d \in Deployers
             PROVE  RecordedBy(d)'
  BY DEF Recorded
<1>a. RecordedBy(d)
  BY DEF Recorded
<1> USE <1>a DEF TypeOK, Goto, deployer, caller
<1>1. CASE Edit
  BY <1>1, RecordedQuietly DEF Edit
<1>2. ASSUME NEW e \in Deployers, Start(e) PROVE RecordedBy(d)'
  <2>1. CASE e = d
    <3>1. pc[d] = "idle" /\ next[d] = 1
      BY <1>2, <2>1 DEF Start, Placed
    <3>2. next'[d] = 1 /\ pc'[d] = "source" /\ published' = published
      BY <1>2, <2>1, <3>1 DEF Start
    <3>3. Passed(d)' = {}
      BY <3>2 DEF Passed
    <3>4. \A g \in Tags : published'[d][g] = None
      BY <3>1, <3>2 DEF RecordedBy
    <3>5. QED
      BY <3>2, <3>3, <3>4 DEF RecordedBy
  <2>2. CASE e # d
    BY <1>2, <2>2, RecordedQuietly DEF Start
  <2>3. QED
    BY <2>1, <2>2
<1>3. ASSUME NEW e \in Deployers, Create(e) PROVE RecordedBy(d)'
  <2>1. CASE e # d
    BY <1>3, <2>1, RecordedQuietly DEF Create, Record
  <2>2. CASE e = d /\ ~OptionsOk(Ep(d).options)
    BY <1>3, <2>2, RecordedQuietly DEF Create, Deploying
  <2>3. CASE e = d /\ OptionsOk(Ep(d).options)
    <3> DEFINE at == Tag[Ep(d).name]
    <3>1. /\ at \in Tags /\ FromPlan(d, at, Definition(d)) /\ Definition(d) # None
          /\ published' = [published EXCEPT ![d] = [@ EXCEPT ![at] = Definition(d)]]
          /\ next' = [next EXCEPT ![d] = @ + 1] /\ next[d] \in Nat \ {0}
          /\ Ep(d) = Program[plan[d]][next[d]]
      BY <1>3, <2>3, CreateRecords
    <3>2. pc[d] = "create" /\ pc'[d] \in {"publish", "precreate"} /\ plan' = plan
      BY <1>3, <2>3 DEF Create
    <3>3. Passed(d)' = Passed(d) \cup {at}
      <4>a. next'[d] = next[d] + 1 /\ next[d] \in Nat \ {0}
        BY <3>1 DEF TypeOK
      <4>1. 1 .. next'[d] - 1 = (1 .. next[d] - 1) \cup {next[d]}
        BY <4>a
      <4> DEFINE tag(i) == Tag[Program[plan[d]][i].name]
      <4>2. Passed(d) = {tag(i) : i \in 1 .. next[d] - 1} /\ at = tag(next[d])
        BY <3>1 DEF Passed
      <4>3. Passed(d)' = {tag(i) : i \in 1 .. next'[d] - 1}
        BY <3>2 DEF Passed
      <4> HIDE DEF tag, at
      <4>4. QED
        BY <4>1, <4>2, <4>3
    <3>4. \A g \in Tags : published'[d][g] = IF g = at THEN Definition(d) ELSE published[d][g]
      BY <3>1 DEF Functions
    <3>5. ASSUME NEW g \in Tags, published'[d][g] # None
          PROVE  FromPlan(d, g, published[d][g])'
      <4>1. PICK def : def = published'[d][g]
        OBVIOUS
      <4>2. FromPlan(d, g, def)
        BY <3>1, <3>4, <3>5, <4>1 DEF RecordedBy
      <4>3. FromPlan(d, g, def)'
        BY <4>2, FromPlanKept
      <4>4. QED
        BY <4>1, <4>3 DEF FromPlan
    <3>6. ASSUME NEW g \in Tags PROVE published'[d][g] # None <=> g \in Passed(d)'
      BY <3>1, <3>2, <3>3, <3>4 DEF RecordedBy, Deploying
    <3>7. QED
      BY <3>2, <3>5, <3>6 DEF RecordedBy
  <2>4. QED
    BY <2>1, <2>2, <2>3
<1>4. ASSUME NEW e \in Deployers, Fail(e) PROVE RecordedBy(d)'
  <2>1. CASE e = d
    <3>1. pc'[d] = "failed" /\ published'[d] = NoFunctions
      BY <1>4, <2>1 DEF Fail
    <3>2. QED
      BY <3>1 DEF RecordedBy, NoFunctions, Deploying
  <2>2. CASE e # d
    BY <1>4, <2>2, RecordedQuietly DEF Fail
  <2>3. QED
    BY <2>1, <2>2
<1>5. ASSUME NEW e \in Deployers,
             \/ EnsureMounts(e) \/ BuildBase(e) \/ BuildDep(e) \/ BuildTop(e) \/ Precreate(e)
             \/ EnsureSecrets(e) \/ Publish(e) \/ PublishLost(e) \/ Resolve(e)
      PROVE  RecordedBy(d)'
  <2>1. /\ UNCHANGED <<plan, next, published>>
        /\ pc[e] \in Deploying
        /\ UNCHANGED pc \/ \E to \in Deploying \cup {"done", "failed"} : pc' = [pc EXCEPT ![e] = to]
    BY <1>5 DEF EnsureMounts, BuildBase, BuildDep, BuildTop, Precreate, EnsureSecrets, Publish,
                PublishLost, Resolve, Deploying
  <2>2. /\ pc'[d] \in Deploying => pc[d] \in Deploying
        /\ pc'[d] = "idle" => pc[d] = "idle"
    BY <2>1 DEF Deploying
  <2>3. QED
    BY <2>1, <2>2, RecordedQuietly
<1>6. ASSUME NEW c \in Callers, Invoke(c) \/ \E n \in Names : Lookup(c, n) PROVE RecordedBy(d)'
  BY <1>6, RecordedQuietly DEF Invoke, Lookup
<1>7. CASE UNCHANGED vars
  BY <1>7, RecordedQuietly DEF vars
<1>8. QED
  BY <1>1, <1>2, <1>3, <1>4, <1>5, <1>6, <1>7 DEF Next, Step

(* A publish makes one whole plan live; nothing else touches what is live. *)
LEMMA PublishesWhole ==
  ASSUME TypeOK, Placed, Recorded, NEW d \in Deployers, Publish(d) \/ PublishLost(d)
  PROVE  plan'[d] \in Versions /\ Whole(d)' /\ UNCHANGED <<asked, got>>
<1>1. /\ pc[d] = "publish" /\ layout' = published[d]
      /\ UNCHANGED <<plan, edited, asked, got>>
  BY DEF Publish, PublishLost, AppPublish, Goto, deployer, caller
<1>2. plan[d] \in Versions /\ next[d] = Len(Program[plan[d]]) + 1
  BY <1>1 DEF Placed
<1>3. Passed(d) = TagsOf(plan[d])
  <2>1. 1 .. next[d] - 1 = DOMAIN Program[plan[d]]
    BY <1>2, EntryType
  <2>2. QED
    BY <1>2, <2>1 DEF Passed, TagsOf, NamesIn
<1>4. ASSUME NEW g \in Tags
      PROVE  IF g \in TagsOf(plan[d]) THEN FromPlan(d, g, published[d][g])
             ELSE published[d][g] = None
  BY <1>1, <1>3 DEF Recorded, RecordedBy, Deploying
<1>5. Whole(d)'
  BY <1>1, <1>4 DEF Whole, FromPlan
<1>6. QED
  BY <1>1, <1>2, <1>5

LEMMA LiveStep == TypeOK /\ Placed /\ Recorded /\ Live /\ [Next]_vars => Live'
<1> SUFFICES ASSUME TypeOK, Placed, Recorded, Live, [Next]_vars PROVE Live'
  OBVIOUS
<1>1. ASSUME NEW d \in Deployers, Publish(d) \/ PublishLost(d) PROVE Live'
  BY <1>1, PublishesWhole DEF Live
<1>2. ASSUME UNCHANGED layout PROVE Live'
  <2>1. CASE layout = NoFunctions
    BY <1>2, <2>1 DEF Live, NoFunctions
  <2>2. ASSUME NEW d \in Deployers, plan[d] \in Versions, Whole(d) PROVE Live'
    <3>1. plan'[d] = plan[d]
      BY <2>2, PlanKept
    <3>2. \A g \in Tags : FromPlan(d, g, layout[g]) => FromPlan(d, g, layout[g])'
      <4> TAKE g \in Tags
      <4> HAVE FromPlan(d, g, layout[g])
      <4>1. PICK def : def = layout[g]
        OBVIOUS
      <4>2. FromPlan(d, g, def)'
        BY <4>1, FromPlanKept
      <4>3. QED
        BY <1>2, <4>1, <4>2 DEF FromPlan
    <3>3. Whole(d)'
      BY <1>2, <2>2, <3>1, <3>2 DEF Whole
    <3>4. QED
      BY <2>2, <3>1, <3>3 DEF Live
  <2>3. QED
    BY <2>1, <2>2 DEF Live
<1>3. QED
  BY <1>1, <1>2 DEF Next, vars, Edit, Start, Step, Fail, EnsureMounts, BuildBase, BuildDep,
                    BuildTop, Precreate, EnsureSecrets, Create, Resolve, Invoke, Lookup

(* A caller resolves what is live, and keeps it.                           *)
LEMMA HeldStep ==
  TypeOK /\ Placed /\ Resolved /\ Live /\ Held /\ [Next]_vars => Held'
<1> SUFFICES ASSUME TypeOK, Placed, Resolved, Live, Held, [Next]_vars PROVE Held'
  OBVIOUS
<1>a. ASSUME NEW c \in Callers, UNCHANGED <<got[c], asked[c]>>, got[c] # None
      PROVE  (\E d \in Deployers : FromPlan(d, Tag[asked[c]], got[c]))'
  <2>1. PICK d \in Deployers : FromPlan(d, Tag[asked[c]], got[c])
    BY <1>a DEF Held
  <2>2. PICK g, def : g = Tag[asked[c]] /\ def = got[c] /\ FromPlan(d, g, def)
    BY <2>1
  <2>3. FromPlan(d, g, def)'
    BY <2>2, FromPlanKept
  <2>4. QED
    BY <1>a, <2>2, <2>3 DEF FromPlan
<1>1. ASSUME NEW c \in Callers, Invoke(c) PROVE Held'
  <2>1. UNCHANGED <<got, asked>>
    BY <1>1 DEF Invoke
  <2>2. \A e \in Callers : callPc'[e] = "done" => ran'[e] = Runs(got[e], asked[e])
    BY <1>1 DEF Invoke, Held, TypeOK
  <2>3. \A e \in Callers : Runs(got[e], asked[e])' = Runs(got[e], asked[e])
    BY <2>1 DEF Runs, Target
  <2>4. QED
    BY <1>a, <2>1, <2>2, <2>3 DEF Held
<1>2. ASSUME NEW c \in Callers, NEW n \in Names, Lookup(c, n) PROVE Held'
  <2>1. /\ got' = [got EXCEPT ![c] = layout[Tag[n]]] /\ asked' = [asked EXCEPT ![c] = n]
        /\ callPc'[c] # "done" /\ \A e \in Callers : e # c => callPc'[e] = callPc[e]
        /\ UNCHANGED <<plan, edited, ran>> /\ Tag[n] \in Tags
    BY <1>2, NameMaps DEF Lookup, TypeOK, deployer
  <2>2. ASSUME layout[Tag[n]] # None
        PROVE  (\E d \in Deployers : FromPlan(d, Tag[asked[c]], got[c]))'
    <3>1. PICK d \in Deployers : FromPlan(d, Tag[n], layout[Tag[n]])
      BY <2>1, <2>2 DEF Live, Whole, NoFunctions
    <3>2. got'[c] = layout[Tag[n]] /\ asked'[c] = n
      BY <2>1 DEF TypeOK
    <3>3. PICK g, def : g = Tag[n] /\ def = layout[Tag[n]]
      OBVIOUS
    <3>4. FromPlan(d, g, def)'
      BY <3>1, <3>3, FromPlanKept
    <3>5. got'[c] = def /\ Tag[asked'[c]] = g
      BY <3>2, <3>3
    <3>6. FromPlan(d, Tag[asked[c]], got[c])'
      BY <3>4, <3>5 DEF FromPlan
    <3>7. QED
      BY <3>6
  <2>3. ASSUME NEW e \in Callers, got'[e] # None
        PROVE  (\E d \in Deployers : FromPlan(d, Tag[asked[e]], got[e]))'
    <3>1. CASE e = c
      BY <2>1, <2>2, <2>3, <3>1 DEF TypeOK
    <3>2. CASE e # c
      <4>1. UNCHANGED <<got[e], asked[e]>>
        BY <2>1, <3>2 DEF TypeOK
      <4>2. QED
        BY <1>a, <2>3, <4>1
    <3>3. QED
      BY <3>1, <3>2
  <2>4. ASSUME NEW e \in Callers, callPc'[e] = "done"
        PROVE  (ran[e] = Runs(got[e], asked[e]))'
    <3>1. e # c /\ callPc[e] = "done" /\ UNCHANGED <<got[e], asked[e], ran[e]>>
      BY <2>1, <2>4 DEF TypeOK
    <3>2. ran[e] = Runs(got[e], asked[e])
      BY <3>1 DEF Held
    <3>3. QED
      BY <3>1, <3>2 DEF Runs, Target
  <2>5. QED
    BY <2>3, <2>4 DEF Held
<1>3. ASSUME UNCHANGED caller PROVE Held'
  <2>1. UNCHANGED <<callPc, asked, got, ran>>
    BY <1>3 DEF caller
  <2>2. \A e \in Callers : Runs(got[e], asked[e])' = Runs(got[e], asked[e])
    BY <2>1 DEF Runs, Target
  <2>3. QED
    BY <1>a, <2>1, <2>2 DEF Held
<1>4. QED
  BY <1>1, <1>2, <1>3 DEF Next, vars, Edit, Start, Step, PublishLost, Fail, EnsureMounts,
        BuildBase, BuildDep, BuildTop, Precreate, EnsureSecrets, Create, Publish, Resolve

(* The invariant of all deploys and callers together.                      *)
DeployInv == /\ TypeOK /\ Placed /\ Resolved
             /\ Layered /\ Recorded /\ Live /\ Held

LEMMA DeployAlways == Spec => []DeployInv
<1>1. Init => TypeOK /\ Placed /\ Resolved /\ Layered /\ Recorded /\ Live /\ Held
  <2> SUFFICES ASSUME Init PROVE TypeOK /\ Placed /\ Resolved /\ Layered /\ Recorded /\ Live /\ Held
    OBVIOUS
  <2>1. TypeOK /\ Placed /\ Resolved
    BY InitType
  <2>2. Layered /\ Recorded
    BY DEF Init, Layered, Recorded, RecordedBy, NoFunctions, Deploying
  <2>3. Live /\ Held
    BY DEF Init, Live, Held
  <2>4. QED
    BY <2>1, <2>2, <2>3
<1>2. DeployInv /\ [Next]_vars => DeployInv'
  BY StepType, LayeredStep, RecordedStep, LiveStep, HeldStep DEF DeployInv
<1>3. QED
  BY <1>1, <1>2, PTL DEF Spec, DeployInv

(* What is live is all that one deploy made of its plan, and nothing else  *)
(* (deploy.rs:371-374): whatever deploys fail, are lost or run at the same *)
(* time.                                                                   *)
THEOREM OneWholeDeploy == Spec => []WholeDeploys
<1>1. DeployInv => WholeDeploys
  <2> SUFFICES ASSUME DeployInv, layout # NoFunctions PROVE WholeDeploys
    BY DEF WholeDeploys
  <2>1. PICK d \in Deployers : plan[d] \in Versions /\ Whole(d)
    BY DEF DeployInv, Live
  <2>2. \A g \in Tags : FromPlan(d, g, layout[g]) => layout[g] # None /\ layout[g].by = d
    BY NoValue DEF FromPlan
  <2>3. plan[d] # None
    BY <2>1, MarkType
  <2>4. QED
    BY <2>1, <2>2, <2>3 DEF WholeDeploys, Whole, TagsOf
<1>2. QED
  BY <1>1, DeployAlways, PTL

-------------------------------------------------------------------------------
(* No two entrypoints of a version share the attribute of their adapters   *)
(* (remote.rs:67-105 maps every other character to `_`).                   *)
DistinctLines ==
  \A v \in Versions : \A i, j \in DOMAIN Program[v] :
    /\ Program[v][i].kind # "plain" /\ Program[v][j].kind # "plain"
    /\ Callable(Program[v][i]) = Callable(Program[v][j])
    => i = j

(* Then the adapter of an entrypoint is its own ...                        *)
LEMMA AdapterIsOwn ==
  ASSUME DistinctLines, NEW v \in Versions, NEW i \in DOMAIN Program[v],
         Program[v][i].kind # "plain"
  PROVE  Adapters(v)[Callable(Program[v][i])] =
           [kind |-> Program[v][i].kind, name |-> Program[v][i].name]
<1> DEFINE a == Callable(Program[v][i])
<1>1. Program[v][i] \in Entrypoints
  BY EntryType
<1>2. a \in Attrs
  BY <1>1, CallableType
<1>3. Lines(v, a) = {i}
  BY DEF Lines, DistinctLines
<1>4. LastOf(v, {i}) = i
  BY LastIsALine
<1>5. Kept(v, Lines(v, a)) = [kind |-> Program[v][i].kind, name |-> Program[v][i].name]
  BY <1>3, <1>4 DEF Kept
<1>6. QED
  BY <1>2, <1>5 DEF Adapters

(* ... and a definition made of an unedited plan does what it is for.      *)
LEMMA MadeToServe ==
  ASSUME DistinctLines, NEW d \in Deployers, NEW g, NEW def,
         FromPlan(d, g, def), ~edited[d]
  PROVE  LET e == EntryOf(def)
         IN /\ Runs(def, def.name) = <<def.name, def.version>>
            /\ e.kind # "plain" => def.image.adapters[def.callable].kind = e.kind
            /\ e.kind = "endpoint" => def.image.fastapi
            /\ e.snapshot => def.image.prime
<1> DEFINE v == plan[d]
<1>1. PICK i \in DOMAIN Program[v] : /\ def.name = Program[v][i].name
                                     /\ def.callable = Callable(Program[v][i])
  BY DEF FromPlan
<1>2. v \in Versions /\ def.version = v /\ def.image.runner = v /\ def.image.adapters = Adapters(v)
  BY DEF FromPlan
<1>3. Program[v][i] \in Entrypoints
  BY <1>2, EntryType
<1>4. EntryOf(def) = Program[v][i]
  BY <1>1, <1>2, ProgramType DEF EntryOf
<1>5. Program[v][i].kind # "plain" =>
        def.image.adapters[def.callable] = [kind |-> Program[v][i].kind, name |-> def.name]
  BY <1>1, <1>2, AdapterIsOwn
<1>6. Target(def, def.name) = def.name
  <2>1. CASE Program[v][i].kind = "plain"
    BY <1>1, <1>3, <2>1, CallableType DEF Target
  <2>2. CASE Program[v][i].kind # "plain"
    <3>1. def.callable # "handler"
      BY <1>1, <1>3, <2>2, CallableType
    <3>2. [kind |-> Program[v][i].kind, name |-> def.name] # None
      BY <1>1, <1>3, <2>2, NoValue DEF Handlers, Entrypoints
    <3>3. QED
      BY <1>5, <2>2, <3>1, <3>2 DEF Target
  <2>3. QED
    BY <2>1, <2>2
<1>7. def.name \in NamesIn[v]
  BY <1>1, <1>2 DEF NamesIn
<1>8. Runs(def, def.name) = <<def.name, def.version>>
  BY <1>2, <1>6, <1>7 DEF Runs
<1>9. Program[v][i].kind = "endpoint" => def.image.fastapi
  BY <1>2 DEF FromPlan, Fastapi, AnyEndpoint
<1>10. Program[v][i].snapshot => def.image.prime
  BY <1>2 DEF FromPlan, AnySnapshot
<1>11. QED
  BY <1>4, <1>5, <1>8, <1>9, <1>10

(* Every live function can do what its decorator asks for with the image   *)
(* that it shares with the others (control_plane.rs:487-503).              *)
THEOREM LiveIsServable == ASSUME DistinctLines PROVE Spec => []Servable
<1>1. DeployInv => Servable
  <2> SUFFICES ASSUME DeployInv, NEW g \in Tags, layout[g] # None, ~edited[layout[g].by]
               PROVE  LET def == layout[g]
                          e == EntryOf(def)
                      IN /\ Runs(def, def.name) = <<def.name, def.version>>
                         /\ e.kind # "plain" => def.image.adapters[def.callable].kind = e.kind
                         /\ e.kind = "endpoint" => def.image.fastapi
                         /\ e.snapshot => def.image.prime
    BY DEF Servable
  <2>0. PICK def : def = layout[g]
    OBVIOUS
  <2>1. PICK d \in Deployers : FromPlan(d, g, def)
    BY <2>0 DEF DeployInv, Live, Whole, NoFunctions
  <2>2. ~edited[d]
    BY <2>0, <2>1 DEF FromPlan
  <2>3. QED
    BY <2>0, <2>1, <2>2, MadeToServe
<1>2. QED
  BY <1>1, DeployAlways, PTL

(* No two names share an object tag: sanitize_object_tag is not injective  *)
(* (remote.rs), so this is a hypothesis about the names.                   *)
InjectiveTag == \A m, n \in Names : Tag[m] = Tag[n] => m = n

(* A call that returns has run its own entrypoint, in the version that the *)
(* app's name stood for when it was resolved (deploy.rs:491-493).          *)
THEOREM CallsRunTheirOwn ==
  ASSUME InjectiveTag, DistinctLines PROVE Spec => []CallRunsItsOwn
<1>1. DeployInv => CallRunsItsOwn
  <2> SUFFICES ASSUME DeployInv, NEW c \in Callers, callPc[c] = "done"
               PROVE  /\ got[c].name = asked[c]
                      /\ ~edited[got[c].by] => ran[c] = <<asked[c], got[c].version>>
    BY DEF CallRunsItsOwn
  <2>1. got[c] \in Definitions /\ asked[c] \in Names /\ ran[c] = Runs(got[c], asked[c])
    BY DEF DeployInv, Resolved, Held
  <2>2. PICK d \in Deployers : FromPlan(d, Tag[asked[c]], got[c])
    BY <2>1, NoValue DEF DeployInv, Held
  <2>3. PICK def : def = got[c]
    OBVIOUS
  <2>4. FromPlan(d, Tag[asked[c]], def)
    BY <2>2, <2>3
  <2>5. def.name = asked[c] /\ def.by = d
    BY <2>1, <2>3, <2>4 DEF FromPlan, InjectiveTag, Definitions
  <2>6. ~edited[d] => Runs(def, def.name) = <<def.name, def.version>>
    BY <2>4, MadeToServe
  <2>7. QED
    BY <2>1, <2>3, <2>5, <2>6
<1>2. QED
  BY <1>1, DeployAlways, PTL

-------------------------------------------------------------------------------
(* The refinement of DeployService: what the app's name stands for is the  *)
(* plan of the deploy that is live.                                        *)
LEMMA CurrentIsPlan ==
  DeployInv => \A d \in Deployers : plan[d] \in Versions /\ Whole(d) => Current = plan[d]
<1> SUFFICES ASSUME DeployInv, NEW d \in Deployers, plan[d] \in Versions, Whole(d)
             PROVE  Current = plan[d]
  OBVIOUS
<1>1. PICK t \in Tags : t \in TagsOf(plan[d])
  <2>1. 1 \in DOMAIN Program[plan[d]] /\ Program[plan[d]][1] \in Entrypoints
    BY EntryType
  <2>2. Program[plan[d]][1].name \in NamesIn[plan[d]] /\ Program[plan[d]][1].name \in Names
    BY <2>1 DEF NamesIn, Entrypoints
  <2>3. QED
    BY <2>2, NameMaps DEF TagsOf
<1>2. \A g \in Tags : layout[g] # None => layout[g].version = plan[d]
  BY DEF Whole, FromPlan
<1>3. layout[t] # None
  BY <1>1, NoValue DEF Whole, FromPlan
<1>4. layout # NoFunctions
  BY <1>3 DEF NoFunctions
<1>5. (CHOOSE def \in {layout[g] : g \in Tags} : def # None).version = plan[d]
  BY <1>2, <1>3
<1>6. QED
  BY <1>4, <1>5 DEF Current

LEMMA ServiceStep ==
  ASSUME InjectiveTag
  PROVE  DeployInv /\ DeployInv' /\ [Next]_vars
           => [Service!Next]_<<Current, [c \in Callers |-> AnswerOf(c)]>>
<1>a. (DeployInv => \A d \in Deployers : plan[d] \in Versions /\ Whole(d) => Current = plan[d])'
  BY CurrentIsPlan, PTL
<1> DEFINE answer == [c \in Callers |-> AnswerOf(c)]
<1> SUFFICES ASSUME DeployInv, DeployInv', [Next]_vars
             PROVE  [Service!Next]_<<Current, answer>>
  OBVIOUS
<1>1. ASSUME NEW d \in Deployers, Publish(d) \/ PublishLost(d) PROVE Service!Next
  <2>1. plan'[d] \in Versions /\ Whole(d)' /\ UNCHANGED <<asked, got>>
    BY <1>1, PublishesWhole DEF DeployInv
  <2>2. Current' = plan'[d]
    BY <1>a, <2>1
  <2>3. UNCHANGED answer
    BY <2>1 DEF AnswerOf
  <2>4. Service!Replace(plan'[d])
    BY <2>2, <2>3 DEF Service!Replace
  <2>5. QED
    BY <2>1, <2>4 DEF Service!Next
<1>2. ASSUME NEW c \in Callers, NEW n \in Names, Lookup(c, n) PROVE Service!Next
  <2>1. /\ layout' = layout /\ callPc[c] = "idle"
        /\ asked' = [asked EXCEPT ![c] = n] /\ got' = [got EXCEPT ![c] = layout[Tag[n]]]
    BY <1>2 DEF Lookup
  <2>2. UNCHANGED Current
    BY <2>1 DEF Current
  <2>3. answer[c] = None
    BY <2>1 DEF DeployInv, Resolved, AnswerOf
  <2>4. n # None /\ Tag[n] \in Tags
    BY MarkType, NameMaps
  <2>5. (IF layout[Tag[n]] = None THEN None ELSE layout[Tag[n]].version)
          = (IF Current # None /\ n \in NamesIn[Current] THEN Current ELSE None)
    <3>1. CASE layout = NoFunctions
      BY <2>4, <3>1 DEF NoFunctions, Current
    <3>2. ASSUME NEW d \in Deployers, plan[d] \in Versions, Whole(d)
          PROVE  (IF layout[Tag[n]] = None THEN None ELSE layout[Tag[n]].version)
                   = (IF Current # None /\ n \in NamesIn[Current] THEN Current ELSE None)
      <4>1. Current = plan[d] /\ plan[d] # None
        BY <3>2, CurrentIsPlan, MarkType
      <4>2. NamesIn[plan[d]] \subseteq Names
        BY <3>2, EntryType DEF NamesIn, Entrypoints
      <4>3. n \in NamesIn[plan[d]] <=> Tag[n] \in TagsOf(plan[d])
        BY <4>2 DEF TagsOf, InjectiveTag
      <4>4. CASE n \in NamesIn[plan[d]]
        <5>1. FromPlan(d, Tag[n], layout[Tag[n]])
          BY <2>4, <3>2, <4>3, <4>4 DEF Whole
        <5>2. layout[Tag[n]] # None /\ layout[Tag[n]].version = plan[d]
          BY <5>1, NoValue DEF FromPlan
        <5>3. QED
          BY <4>1, <4>4, <5>2
      <4>5. CASE n \notin NamesIn[plan[d]]
        <5>1. layout[Tag[n]] = None
          BY <2>4, <3>2, <4>3, <4>5 DEF Whole
        <5>2. QED
          BY <4>1, <4>5, <5>1
      <4>6. QED
        BY <4>4, <4>5
    <3>3. QED
      BY <3>1, <3>2 DEF DeployInv, Live
  <2>6. answer' = [answer EXCEPT ![c] =
                     [name |-> n,
                      version |-> IF layout[Tag[n]] = None THEN None
                                  ELSE layout[Tag[n]].version]]
    BY <2>1, <2>4 DEF AnswerOf, DeployInv, TypeOK
  <2>7. Service!Lookup(c, n)
    BY <2>2, <2>3, <2>5, <2>6 DEF Service!Lookup
  <2>8. QED
    BY <2>7 DEF Service!Next
<1>3. ASSUME UNCHANGED <<layout, asked, got>> PROVE UNCHANGED <<Current, answer>>
  BY <1>3 DEF Current, AnswerOf
<1>4. QED
  BY <1>1, <1>2, <1>3
  DEF Next, vars, caller, Edit, Start, Step, Fail, EnsureMounts, BuildBase, BuildDep,
      BuildTop, Precreate, EnsureSecrets, Create, Resolve, Invoke

(* Deploys by many RPCs, any of which may fail, implement the service that *)
(* replaces one whole version by another (deploy.rs:44-46), and resolves   *)
(* every call in the version that is live.                                 *)
THEOREM ImplementsService == ASSUME InjectiveTag PROVE Spec => ServiceSpec
<1>1. Init => Service!Init
  BY DEF Init, Service!Init, Current, AnswerOf, NoFunctions
<1>2. DeployInv /\ DeployInv' /\ [Next]_vars
        => [Service!Next]_<<Current, [c \in Callers |-> AnswerOf(c)]>>
  BY ServiceStep
<1>3. QED
  BY <1>1, <1>2, DeployAlways, PTL DEF Spec, ServiceSpec, Service!Spec
===============================================================================
