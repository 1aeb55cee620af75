------------------------------ MODULE ClientSetup ------------------------------
(***************************************************************************)
(* How a client comes to speak to Modal (modal-rust-sdk/src/config.rs,     *)
(* client.rs, channel.rs, auth.rs), and what the CLI's doctor says of it   *)
(* beforehand (modal-rust-cli/src/doctor.rs): configuration from the       *)
(* environment and a profile file, a channel, headers, ClientHello.        *)
(*                                                                         *)
(* Everything here is a function of the environment and of the files: an   *)
(* environment maps variables to Unset, Blank (empty or white space) or a  *)
(* value; a profile file is Absent, Invalid or a sequence of profiles      *)
(* in the order of the TOML table, which is sorted by name.                *)
(***************************************************************************)
EXTENDS Naturals, Sequences, SequencesExt

CONSTANTS Unset, Blank, Absent, Invalid, None

(* What a machine has: its two profile files, and a chain of manifests     *)
(* that starts at the project's own.                                       *)
IsSeq(s) == s \in Seq({s[i] : i \in DOMAIN s})
MachineType(files, chain) ==
  /\ \A path \in {"home", "configured"} : files[path] \in {Absent, Invalid} \/ IsSeq(files[path])
  /\ IsSeq(chain) /\ chain # <<>>

-------------------------------------------------------------------------------
(* config.rs                                                               *)

(* An empty or blank value is no value.                                    *)
Trimmed(v) == IF v \in {Unset, Blank} THEN None ELSE v
EnvString(env, var) == Trimmed(env[var])
OrElse(v, default) == IF v = None THEN default ELSE v

Failed == [ok |-> FALSE]

(* The profile that is used: the one asked for, which must be there; the   *)
(* first active one; the first.                                            *)
SelectProfile(profiles, requested) ==
  LET named == {i \in DOMAIN profiles : profiles[i].name = requested}
      active == {i \in DOMAIN profiles : profiles[i].active}
      first(s) == CHOOSE i \in s : \A j \in s : i <= j
  IN CASE requested # None /\ named = {} -> None
       [] requested # None /\ named # {} -> profiles[first(named)]
       [] requested = None /\ active # {} -> profiles[first(active)]
       [] OTHER -> profiles[1]

(* Mutant: the variables are for want of a file only.                      *)
FileWins(cfg, env) ==
  [cfg EXCEPT !.id = OrElse(@, EnvString(env, "MODAL_TOKEN_ID")),
              !.secret = OrElse(@, EnvString(env, "MODAL_TOKEN_SECRET"))]
(* apply_env_overrides: each variable by itself.                           *)
EnvOverrides(cfg, env) ==
  [cfg EXCEPT !.server = OrElse(EnvString(env, "MODAL_SERVER_URL"), @),
              !.id = OrElse(EnvString(env, "MODAL_TOKEN_ID"), @),
              !.secret = OrElse(EnvString(env, "MODAL_TOKEN_SECRET"), @),
              !.environment = OrElse(EnvString(env, "MODAL_ENVIRONMENT"), @)]

DefaultServer == "https://api.modal.com"

(* In a container the worker's variables are all there is.                 *)
ContainerConfig(env) ==
  IF EnvString(env, "MODAL_SERVER_URL") = None THEN Failed
  ELSE [ok |-> TRUE, container |-> TRUE, server |-> EnvString(env, "MODAL_SERVER_URL"),
        id |-> None, secret |-> None, environment |-> EnvString(env, "MODAL_ENVIRONMENT")]

(* A missing file is acceptable only with both tokens in the environment.  *)
EnvSuffices(env) == /\ EnvString(env, "MODAL_TOKEN_ID") # None
                    /\ EnvString(env, "MODAL_TOKEN_SECRET") # None

NoProfile == [name |-> "env", active |-> FALSE, id |-> None, secret |-> None,
              server |-> None, environment |-> None]

(* The profile to start from, or None when there is none to be had.        *)
ProfileOf(env, file) ==
  CASE file = Absent -> IF EnvSuffices(env) THEN NoProfile ELSE None
    [] file = Invalid \/ file = <<>> -> None
    [] OTHER -> SelectProfile(file, EnvString(env, "MODAL_PROFILE"))

(* read_modal_config with resolve_config_path: files maps the two paths.   *)
ReadConfig(env, files) ==
  LET path == IF EnvString(env, "MODAL_CONFIG_PATH") # None THEN "configured" ELSE "home"
      p == ProfileOf(env, files[path])
      cfg == EnvOverrides([ok |-> TRUE, container |-> FALSE,
                           server |-> OrElse(Trimmed(p.server), DefaultServer),
                           id |-> Trimmed(p.id), secret |-> Trimmed(p.secret),
                           environment |-> Trimmed(p.environment)], env)
  IN CASE EnvString(env, "MODAL_IS_REMOTE") = "1" -> ContainerConfig(env)
       [] EnvString(env, "MODAL_IS_REMOTE") # "1" /\ p = None -> Failed
       [] OTHER -> IF cfg.id = None \/ cfg.secret = None THEN Failed ELSE cfg

-------------------------------------------------------------------------------
(* channel.rs, auth.rs, client.rs                                          *)

(* The way to dial a server url, known by its kind.                        *)
Dial(kind) == CASE kind = "unix" -> "socket"
                [] kind = "http" -> "plain"
                [] OTHER -> "tls"      \* https, or no scheme at all

(* The interceptor: what every call says of the caller.                    *)
Headers(cfg, env) ==
  [type |-> IF cfg.container THEN "container" ELSE "client",
   tokens |-> IF cfg.container THEN <<>> ELSE <<cfg.id, cfg.secret>>]

(* from_config: dial, and greet; the server accepts known pairs, and who   *)
(* comes from a container.                                                 *)
Connect(env, files, kindOf, accepted) ==
  LET cfg == ReadConfig(env, files)
      headers == Headers(cfg, env)
  IN IF ~cfg.ok THEN [result |-> "config"]
     ELSE IF headers.tokens \notin accepted THEN [result |-> "unauthenticated"]
     ELSE [result |-> "connected", dial |-> Dial(kindOf[cfg.server]),
           headers |-> headers, cfg |-> cfg]

-------------------------------------------------------------------------------
(* doctor.rs                                                               *)

(* A variable that is set counts, blank or not; any file at home counts.   *)
CredentialsCheck(env, files) ==
  \/ files["home"] # Absent
  \/ env["MODAL_TOKEN_ID"] # Unset /\ env["MODAL_TOKEN_SECRET"] # Unset

(* [profile.release] panic of a chain of manifests, from the project up to *)
(* the first workspace root: the root's wins, else the innermost.          *)
ResolvedPanic(chain) ==
  LET roots == {i \in DOMAIN chain : chain[i].workspace}
      last == IF roots = {} THEN Len(chain)
              ELSE CHOOSE i \in roots : \A j \in roots : i <= j
      set == {i \in 1 .. last : chain[i].panic # None}
  IN CASE set = {} -> None
       [] roots # {} /\ last \in set -> chain[last].panic
       [] OTHER -> chain[CHOOSE i \in set : \A j \in set : i <= j].panic

(* doctor's exit code.                                                     *)
Doctor(env, files, rust, tools, chain) ==
  LET passes == /\ CredentialsCheck(env, files)
                /\ rust => {"cargo", "rustc"} \subseteq tools
                /\ rust => ResolvedPanic(chain) # "abort"
  IN IF passes THEN 0 ELSE 1

-------------------------------------------------------------------------------
(* Cargo takes profiles from the workspace root alone (external).          *)
CargoPanic(chain) ==
  LET roots == {i \in DOMAIN chain : chain[i].workspace}
      root == IF roots = {} THEN 1 ELSE CHOOSE i \in roots : \A j \in roots : i <= j
  IN OrElse(chain[root].panic, "unwind")

-------------------------------------------------------------------------------
(* What a client says of itself has one source, and where that is two it   *)
(* is the two that were asked for.  In a container it sends no tokens,     *)
(* whatever is set or lies about.  Outside, with both token variables set  *)
(* it sends these.  Otherwise there is one profile of the file, the one    *)
(* MODAL_PROFILE names, else an active one if any is, and the id, the      *)
(* secret and the server are those of that profile but for the ones whose  *)
(* variable is set: one of two, so that its token may be half a variable   *)
(* and half the profile, but never of two profiles (config.rs:86-120,      *)
(* 240-248, auth.rs:40-72).  And doctor passes the credentials of whoever  *)
(* connects with the default file or none.                                 *)
ConnectsAsItself(env, files, kindOf, accepted) ==
  LET got == Connect(env, files, kindOf, accepted)
      set(var) == EnvString(env, var) # None
      file == files[IF set("MODAL_CONFIG_PATH") THEN "configured" ELSE "home"]
      chosen(p) == IF set("MODAL_PROFILE") THEN p.name = EnvString(env, "MODAL_PROFILE")
                   ELSE p.active \/ \A i \in DOMAIN file : ~file[i].active
  IN got.result = "connected" =>
       IF got.cfg.container THEN got.headers = [type |-> "container", tokens |-> <<>>]
       ELSE /\ got.headers.type = "client"
            /\ EnvSuffices(env) =>
                 got.headers.tokens = <<EnvString(env, "MODAL_TOKEN_ID"),
                                        EnvString(env, "MODAL_TOKEN_SECRET")>>
            /\ ~EnvSuffices(env) => \E i \in DOMAIN file :
                 /\ chosen(file[i])
                 /\ got.headers.tokens = <<OrElse(EnvString(env, "MODAL_TOKEN_ID"), file[i].id),
                                           OrElse(EnvString(env, "MODAL_TOKEN_SECRET"), file[i].secret)>>
                 /\ got.cfg.server = OrElse(EnvString(env, "MODAL_SERVER_URL"),
                                            OrElse(Trimmed(file[i].server), DefaultServer))
            /\ set("MODAL_CONFIG_PATH") \/ CredentialsCheck(env, files)

(* A release profile that aborts, which would take the panic envelope away *)
(* from every caller, does not pass doctor --rust (doctor.rs:139-147).     *)
DoctorCatchesAbort(env, files, tools, chain) ==
  CargoPanic(chain) = "abort" => Doctor(env, files, TRUE, tools, chain) # 0
===============================================================================
