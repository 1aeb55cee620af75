----------------------------- MODULE SourceUpload -----------------------------
(***************************************************************************)
(* Which files of a workspace reach Modal: the dependency closure of a     *)
(* package, the manifests that are rewritten for it and the stub of the    *)
(* dependency layer (scope.rs), the generated runner and the shadow tree   *)
(* of a local build (runner_gen.rs), and the walk under the ignore files   *)
(* (SDK local_dir.rs).                                                     *)
(*                                                                         *)
(* Abstracted: a path is the sequence of its components below the          *)
(* workspace root ("..": outside it); a manifest is the record of what     *)
(* cargo reads in it, any other file a tuple that says what it is; an      *)
(* ignore pattern is the names it matches. A tree is the manifests by      *)
(* directory and the files by path. cargo metadata lists the manifests'    *)
(* own contents, or fails.                                                 *)
(***************************************************************************)
EXTENDS Naturals, Sequences, SequencesExt, FiniteSets, FiniteSetsExt, TLC

CONSTANT None

Toml(dir) == Append(dir, "Cargo.toml")
Lock == <<"Cargo.lock">>
RunnerName == "modal_runner"
RunnerPath(dir) == dir \o <<"src", "bin", "modal_runner.rs">>
Below(dir, path) == IsPrefix(dir, path) /\ path[1] # ".."
Pick(f, S) == [x \in S \cap DOMAIN f |-> f[x]]
Tree(manifests, files) == [manifests |-> manifests, files |-> files]
Over(top, under) ==
  Tree(top.manifests @@ under.manifests, top.files @@ under.files)

-------------------------------------------------------------------------------
(* What cargo metadata says of a workspace                                 *)

RootManifest(w) == w.manifests[<<>>]
Members(w) == (IF RootManifest(w).members = None THEN {} ELSE RootManifest(w).members)
              \cup {d \in {<<>>} : RootManifest(w).name # None}
Named(w, package) == {d \in Members(w) : w.manifests[d].name = package}
Paths(manifest, kinds) ==
  {dep.dir : dep \in {x \in manifest.deps : x.kind \in kinds /\ x.dir # None}}

(* closure_from_metadata: the members that the package reaches by normal   *)
(* path dependencies, and the dependencies that leave the workspace.       *)
(* Mutant: the dependencies of the package alone.                          *)
DirectClosure(w, dir) == {dir} \cup (Paths(w.manifests[dir], {"normal"}) \cap Members(w))
Closure(w, dir) ==
  LET reached[n \in 0 .. Cardinality(Members(w))] ==
        IF n = 0 THEN {dir}
        ELSE reached[n - 1] \cup
             (Members(w) \cap UNION {Paths(w.manifests[d], {"normal"}) : d \in reached[n - 1]})
  IN reached[Cardinality(Members(w))]
Escaped(w, dirs) == UNION {Paths(w.manifests[d], {"normal"}) : d \in dirs} \ Members(w)

(* What scoping knows: None when it falls back to the whole root.          *)
Found(w, package) == w.metadata /\ Named(w, package) # {}
Scope(w, package) ==
  IF ~Found(w, package) THEN None
  ELSE Closure(w, CHOOSE d \in Named(w, package) : TRUE)

-------------------------------------------------------------------------------
(* The generated runner                                                    *)

FacadeDeps(manifest) ==
  {dep \in manifest.deps : dep.name = "modal-rust" /\ dep.kind = "normal" /\ ~dep.cfg}
LibTargets(manifest) == {t \in manifest.targets : t.kind = "lib"}
HasOwnRunner(manifest) ==
  \E t \in manifest.targets : t.kind = "bin" /\ t.name = RunnerName

(* resolve_runner_target.                                                  *)
RunnerTarget(w, package) ==
  LET dir == CHOOSE d \in Named(w, package) : TRUE
      m == w.manifests[dir]
  IN IF ~Found(w, package) THEN None
     ELSE [dir |-> dir, own |-> HasOwnRunner(m),
           lib |-> IF LibTargets(m) = {} THEN m.name ELSE (CHOOSE t \in LibTargets(m) : TRUE).name,
           facade |-> IF FacadeDeps(m) = {} THEN None ELSE (CHOOSE f \in FacadeDeps(m) : TRUE).key]
IsGeneratable(t) == t # None /\ ~t.own /\ t.facade # None

RenderRunner(t) == RunnerPath(t.dir) :> <<"runner", t.facade, t.lib>>
InjectedRunner(w, package) ==
  LET t == RunnerTarget(w, package) IN IF IsGeneratable(t) THEN RenderRunner(t) ELSE <<>>

-------------------------------------------------------------------------------
(* The rewritten manifests                                                 *)

(* rewrite_workspace_members: only the closure's crates.                   *)
RewriteMembers(root, dirs) ==
  IF root.members = None THEN root
  ELSE [root EXCEPT !.members = dirs \ {<<>>},
                    !.default = IF @ = None THEN None ELSE dirs \ {<<>>},
                    !.exclude = {}]
(* strip_dev_dependencies.                                                 *)
StripDev(manifest) == [manifest EXCEPT !.deps = {dep \in @ : dep.kind # "dev"}]

(* build_closure_upload: what is uploaded in place of, or beside, what a   *)
(* walk finds. The root keeps its dev-dependencies.                        *)
Inline(w, package, dirs) ==
  Tree((<<>> :> RewriteMembers(RootManifest(w), dirs))
         @@ [d \in {d \in dirs \ {<<>>} : StripDev(w.manifests[d]) # w.manifests[d]} |->
               StripDev(w.manifests[d])],
       InjectedRunner(w, package))
LockFile(w) == Tree(<<>>, Pick(w.files, {Lock}))

-------------------------------------------------------------------------------
(* The walk                                                                *)

DefaultIgnores == <<[names |-> {"target", ".git", "tests"}, dirOnly |-> TRUE, keep |-> FALSE],
                    [names |-> {"x.rlib"}, dirOnly |-> FALSE, keep |-> FALSE]>>

(* is_ignored: the last pattern that matches a path, or the nearest parent *)
(* that one matches, decides; .modalignore is read after .gitignore and    *)
(* the defaults.                                                           *)
Patterns(w) == DefaultIgnores \o w.gitignore \o w.modalignore
Hits(w, path, isDir) ==
  {i \in DOMAIN Patterns(w) :
     Last(path) \in Patterns(w)[i].names /\ (Patterns(w)[i].dirOnly => isDir)}
Ignored(w, path, isDir) ==
  LET hits(k) == Hits(w, SubSeq(path, 1, k), k < Len(path) \/ isDir)
      nearest == {k \in 1 .. Len(path) : hits(k) # {}}
  IN nearest # {} /\ ~Patterns(w)[Max(hits(Max(nearest)))].keep

(* An ignored directory is not entered, the crate's own included.          *)
Walks(w, dir, path) ==
  /\ Below(dir, path)
  /\ \A k \in Len(dir) .. Len(path) : ~Ignored(w, SubSeq(path, 1, k), k < Len(path))
Walk(w, dirs) ==
  Tree(Pick(w.manifests, {d \in DOMAIN w.manifests : \E dir \in dirs : Walks(w, dir, Toml(d))}),
       Pick(w.files, {p \in DOMAIN w.files : \E dir \in dirs : Walks(w, dir, p)}))

(* collect_files_for_dirs and append_inline_files: the first of overlapping*)
(* walks, the lock file unasked, and the inline files over all of it.      *)
Collect(inline, w, dirs) == Over(inline, Over(Walk(w, dirs), LockFile(w)))

(* collect_files.                                                          *)
WholeRoot(inline, w) == Over(inline, Walk(w, {<<>>}))

-------------------------------------------------------------------------------
(* The trees; None is a refusal                                            *)

(* ensure_source_mount: the closure, or the whole root with the runner.    *)
UploadTree(w, package, scoping) ==
  LET dirs == Scope(w, package)
  IN CASE ~scoping \/ dirs = None -> WholeRoot(Tree(<<>>, InjectedRunner(w, package)), w)
       [] scoping /\ dirs # None /\ Escaped(w, dirs) # {} -> None
       [] OTHER -> Collect(Inline(w, package, dirs), w, dirs)

(* workspace_closure_stub: the same manifests, an empty source for every   *)
(* target of the closure, no walk.                                         *)
StubBody(kind) == IF kind \in {"bin", "custom-build"} THEN <<"stub", "main">> ELSE <<"stub">>
StubSources(w, package, dirs) ==
  LET targets == UNION {w.manifests[d].targets : d \in dirs}
      bare == {d \in dirs : w.manifests[d].targets = {}}
  IN [p \in {t.path : t \in targets} |-> StubBody((CHOOSE t \in targets : t.path = p).kind)]
     @@ [p \in {d \o <<"src", "lib.rs">> : d \in bare} |-> <<"stub">>]
Stub(w, package) ==
  LET dirs == Scope(w, package)
  IN IF dirs = None \/ Escaped(w, dirs) # {} THEN None
     ELSE Over(Inline(w, package, dirs), Over(Tree(<<>>, StubSources(w, package, dirs)), LockFile(w)))

(* materialize_shadow: a copy of the closure beside the user's own tree,   *)
(* whatever its ignore files say, with the path dependencies that leave    *)
(* the closure made absolute.                                              *)
Copies(dir, path) ==
  Below(dir, path) /\ \A k \in Len(dir) + 1 .. Len(path) - 1 : path[k] \notin {"target", ".git"}
Absolute(manifest, dirs) ==
  [manifest EXCEPT !.deps = {[dep EXCEPT !.abs = @ \/ (dep.dir # None /\ dep.dir \notin dirs)] : dep \in @}]
Shadow(w, package) ==
  LET t == RunnerTarget(w, package)
      dirs == Scope(w, package)
      copied == Tree(Pick(w.manifests, {d \in DOMAIN w.manifests : \E dir \in dirs : Copies(dir, Toml(d))}),
                     Pick(w.files, {p \in DOMAIN w.files : \E dir \in dirs : Copies(dir, p)}))
      written == Over(Tree(<<>>, RenderRunner(t)),
                      Over(Inline(w, package, dirs), Over(LockFile(w), copied)))
  IN Tree([d \in DOMAIN written.manifests |->
             IF d \in dirs THEN Absolute(written.manifests[d], dirs) ELSE written.manifests[d]],
          written.files)

-------------------------------------------------------------------------------
(* What cargo needs of a tree. That tree is all it sees, but for absolute  *)
(* paths, which lead to the user's own. A generated runner needs the macro *)
(* of its facade, which a stub does not have.                              *)

TreeMembers(tree) ==
  LET root == tree.manifests[<<>>]
  IN (IF root.members = None THEN {} ELSE root.members) \cup {d \in {<<>>} : root.name # None}
Needed(tree, dir) ==
  LET all == DOMAIN tree.manifests
      reached[n \in 0 .. Cardinality(all)] ==
        IF n = 0 THEN {dir}
        ELSE reached[n - 1] \cup (all \cap UNION {Paths(tree.manifests[d], {"normal", "build"}) : d \in reached[n - 1]})
  IN reached[Cardinality(all)]

(* cargo build --bin modal_runner -p package.                              *)
Builds(tree, package) ==
  /\ <<>> \in DOMAIN tree.manifests
  /\ LET root == tree.manifests[<<>>]
     IN /\ TreeMembers(tree) \subseteq DOMAIN tree.manifests
        /\ root.members # None /\ root.default # None => root.default \subseteq root.members
  /\ \A d \in TreeMembers(tree) :
       /\ \A dep \in tree.manifests[d].deps :
            dep.dir # None => dep.abs \/ dep.dir \in DOMAIN tree.manifests
       /\ \E t \in tree.manifests[d].targets : t.path \in DOMAIN tree.files
  /\ \E dir \in TreeMembers(tree) :
       /\ tree.manifests[dir].name = package
       /\ \/ RunnerPath(dir) \in DOMAIN tree.files
          \/ \E t \in tree.manifests[dir].targets :
               t.kind = "bin" /\ t.name = RunnerName /\ t.path \in DOMAIN tree.files
       /\ \A d \in Needed(tree, dir) : \A t \in tree.manifests[d].targets :
            t.kind \in {"lib", "custom-build"} => t.path \in DOMAIN tree.files
       /\ RunnerPath(dir) \in DOMAIN tree.files /\ tree.files[RunnerPath(dir)][1] = "runner" =>
            \A dep \in FacadeDeps(tree.manifests[dir]) : dep.dir \in DOMAIN tree.manifests =>
              \A t \in LibTargets(tree.manifests[dep.dir]) : tree.files[t.path][1] # "stub"

-------------------------------------------------------------------------------
(* Properties. A case is a workspace w and the package to run.             *)

OnDisk(w, package) == Over(Tree(<<>>, InjectedRunner(w, package)), Tree(w.manifests, w.files))

(* The workspaces whose closure stands alone: the root is no package, or   *)
(* one of the closure; no crate has a build-dependency outside it, nor the *)
(* root a dev-dependency; the user's ignore files hide nothing of it.      *)
RootFits(w, dirs) == RootManifest(w).name = None \/ <<>> \in dirs
Carried(w, package) ==
  LET dirs == Scope(w, package)
      paths == {Toml(d) : d \in dirs}
               \cup {t.path : t \in {t \in UNION {w.manifests[d].targets : d \in dirs} : t.kind # "test"}}
  IN /\ RootFits(w, dirs)
     /\ \A d \in dirs : Paths(w.manifests[d], {"build"}) \subseteq dirs
     /\ Paths(RootManifest(w), {"dev"}) \subseteq dirs
     /\ \A p \in paths : \E d \in dirs : Walks(w, d, p)

(* A package that builds here and is not refused builds on Modal: its      *)
(* closure is there, with manifests that agree with it. Over the stub of   *)
(* its dependency layer, it leaves no stub in what is compiled; and that   *)
(* layer builds if it holds every manifest and the facade is not a stub    *)
(* (scope.rs:100-176, 226-328, 340-497; local_dir.rs:482-588).             *)
UploadBuilds(w, package) ==
  LET up == UploadTree(w, package, TRUE)
      stub == Stub(w, package)
      dirs == Scope(w, package)
      image == Over(up, stub)
  IN Builds(OnDisk(w, package), package) /\ dirs # None /\ up # None /\ Carried(w, package) =>
       /\ Builds(up, package)
       /\ \A p \in DOMAIN image.files :
            image.files[p][1] = "stub" => \A d \in dirs : \A t \in w.manifests[d].targets :
                                            t.path = p => t.kind = "test"
       /\ /\ dirs \subseteq DOMAIN stub.manifests
          /\ \A d \in dirs : d \notin Named(w, "modal-rust")
          => Builds(stub, package)

(* The dependency layer is built from the manifests of the source          *)
(* (scope.rs:351-352).                                                     *)
StubSharesManifests(w, package) ==
  LET up == UploadTree(w, package, TRUE)
      stub == Stub(w, package)
  IN stub # None => \A d \in Scope(w, package) \cap DOMAIN up.manifests :
                      d \in DOMAIN stub.manifests /\ stub.manifests[d] = up.manifests[d]

(* The shadow that --describe builds compiles whenever the package does,   *)
(* whatever is ignored or lies outside the workspace, and holds the files  *)
(* that are uploaded, runner included (runner_gen.rs:300-394).             *)
ShadowBuilds(w, package) ==
  LET shadow == Shadow(w, package)
      up == UploadTree(w, package, TRUE)
  IN IsGeneratable(RunnerTarget(w, package)) /\ RootFits(w, Scope(w, package))
       /\ Builds(OnDisk(w, package), package) =>
       /\ Builds(shadow, package)
       /\ up # None => \A p \in DOMAIN up.files :
                         p \in DOMAIN shadow.files /\ shadow.files[p] = up.files[p]
===============================================================================
