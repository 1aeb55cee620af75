------------------------------ MODULE MCCallPath ------------------------------
(* CallPath with small sets, the settings under which a client connects,   *)
(* requests are planned, or results come back, what holds of the plans,    *)
(* the sources and the decorators, and what the parts must eventually do   *)
(* under the fairness of each.                                             *)
EXTENDS CallPath, TLC

CONSTANTS a, b, c1, c2, k1

(* What needs no states: settings, plans, sources, decorators.             *)
X == INSTANCE MCSettings
U == INSTANCE SourceUpload
W == INSTANCE Decorators WITH
       U16 <- 1000, I32 <- 1000000, U32 <- 2000000, U64 <- 8000000, Upper <- X!UpperCase

-------------------------------------------------------------------------------
(* Two commands on two packages of a workspace with two versions each; the *)
(* two machines describe the first version of one of them differently.     *)
OnLaptop(p, v) == CASE p = a -> "f" :> "cpu"
                    [] p = b /\ v = 1 -> ("f" :> "T4") @@ ("g" :> "T4")
                    [] OTHER -> "g" :> "T4"
OnModal(p, v) == IF p = a /\ v = 1 THEN "f" :> "T4" ELSE OnLaptop(p, v)
ShapeOf(p, v) == v
Clean == [uplift |-> None, pin |-> [p \in Pkgs |-> None],
          cache |-> [k \in Pkgs \X {1, 2} |-> None]]
Built == [Clean EXCEPT !.uplift = <<a, 2>>, !.pin[a] = <<a, 2>>,
                       !.cache[<<a, 2>>] = OnLaptop(a, 2)]
Command(p, flags, inline) ==
  [pkg |-> p, entry |-> "f", input |-> 1, flags |-> flags, inline |-> inline]
Plain == Command(a, {}, None)
MCCommands ==
  {(c1 :> Plain) @@ (c2 :> d) : d \in {Command(b, {}, "A100"), Command(a, {"verify"}, None),
                                       Command(a, {"remote"}, None)}}
  \cup {(c1 :> Command(a, {"manifest", "verify"}, None)) @@ (c2 :> Command(b, {"no_local_build"}, None))}
MCTargets == {Clean, Built}

(* Two containers of one source.                                           *)
MCSource == (c1 :> k1) @@ (c2 :> k1)

(* A source of four files with three contents, one of them large, on two   *)
(* tasks; an empty one, and one with a path twice.                         *)
File(path, data) == [path |-> path, content |-> data]
MCFileLists == {<<>>, <<File("x", 1), File("x", 2)>>,
                <<File("w", 1), File("x", 2), File("y", 1), File("z", 3)>>}

MCLaunches == X!AllLaunches
MCFiles == X!StdinFiles
MCKindOf == X!KindOfUrl
MCAccepted == X!Tokens
MCSettingsOf == ("client" :> X!Machines) @@ ("plan" :> X!Plans) @@ ("upload" :> X!Uploads)
                @@ ("decorate" :> X!Items) @@ ("results" :> X!ResultCases)

-------------------------------------------------------------------------------
(* The fairness of each part; the k-th step of one part and of another are *)
(* never of one behaviour, so they share a condition.                      *)
ContainerOf == <<c1, c2>>
Steps(k) == \/ k = 1 /\ OnInvoke(I!ClientStep)
            \/ k = 1 /\ OnJoin(J!ClientStep)
            \/ k \in DOMAIN ContainerOf /\ OnCache(C!Step(ContainerOf[k]))
            \/ k \in {1, 2, 3} /\ OnMount(M!TaskStep(k))
            \/ k = 4 /\ OnMount(M!Collect \/ M!CreateMount)
Elapses == OnInvoke(I!Elapse) \/ OnJoin(J!Elapse)
Fairness == (\A k \in 1 .. 4 : WF_vars(Steps(k))) /\ WF_vars(Elapses)
FairSpec == Spec /\ Fairness

-------------------------------------------------------------------------------
(* Every image builds (BuildPlan).                                         *)
ImagesBuild == part = "plan" => B!ImagesBuild(setting)

(* The closure that is uploaded, and the shadow of it, build wherever the  *)
(* package does (SourceUpload).                                            *)
UploadBuilds == part = "upload" => /\ U!UploadBuilds(setting.w, setting.package)
                                   /\ U!ShadowBuilds(setting.w, setting.package)

(* The dependency layer has the manifests of the source (SourceUpload).    *)
StubSharesManifests == part = "upload" => U!StubSharesManifests(setting.w, setting.package)

(* What a decorator says is what Modal is asked for (Decorators).          *)
DecoratorsReach == part = "decorate" => W!DecoratorsReach(setting)

(* Whatever is lost, every invocation, upload and wait returns, and no     *)
(* container waits for the cache for good.                                 *)
InFlight(k) ==
  CASE part = "invoke" -> k = 1 /\ I!InFlight
    [] part = "mount" -> k = 1 /\ M!InFlight
    [] part = "join" -> k = 1 /\ J!InFlight
    [] part = "cache" -> C!InFlight(ContainerOf[k])
    [] OTHER -> FALSE
CallsReturn == \A k \in {1, 2} : InFlight(k) ~> ~InFlight(k)
===============================================================================
