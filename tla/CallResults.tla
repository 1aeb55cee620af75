------------------------------ MODULE CallResults ------------------------------
(***************************************************************************)
(* What a caller of a Function handle gets (modal-rust/src/function.rs):   *)
(* local() through the registry, the remote operations through the JSON    *)
(* envelope that the runner prints (modal-rust-runtime RunnerError) and    *)
(* remote.rs parses back.                                                  *)
(*                                                                         *)
(* Abstracted: a call is [encodes, shape, act, details, fits]: its input   *)
(* serialises or not and suits In or not, the body returns, errs (with an  *)
(* error that is opaque, or serialises to a value or to null), returns     *)
(* what cannot be encoded, or panics; fits says whether Out accepts what   *)
(* it returns. A handle is [client, connected, linked].                    *)
(***************************************************************************)
EXTENDS Naturals, Sequences, SequencesExt, FiniteSets

CONSTANTS None, Null   \* no details at all, and the JSON null

(* A case: its operation, and calls of the shape above.                    *)
IsCall(x) == /\ x = [encodes |-> x.encodes, shape |-> x.shape, act |-> x.act,
                     details |-> x.details, fits |-> x.fits]
             /\ {x.encodes, x.fits} \subseteq BOOLEAN
CaseType(c) == /\ c.inputs \in Seq({c.inputs[i] : i \in DOMAIN c.inputs})
               /\ IsCall(c.own) /\ \A i \in DOMAIN c.inputs : IsCall(c.inputs[i])

(* A result: what local() and the rest return.                             *)
Ok(value) == [ok |-> TRUE, value |-> value]
Err(variant, of) == [ok |-> FALSE, variant |-> variant, of |-> of]
RunnerError(kind, details) == [kind |-> kind, details |-> details]

(* One call of the typed! wrapper: decode, the body, encode.               *)
Handler(call) ==
  CASE call.shape = "bad" -> Err("Runner", RunnerError("decode_error", None))
    [] call.shape # "bad" /\ call.act = "errs" ->
         Err("Runner", RunnerError("function_error", call.details))
    [] call.shape # "bad" /\ call.act = "unencodable" ->
         Err("Runner", RunnerError("encode_error", None))
    [] call.shape # "bad" /\ call.act = "panics" -> Err("unwinds", None)
    [] OTHER -> Ok(call)

Decode(call, discards) == IF call.fits \/ discards THEN Ok(call) ELSE Err("Decode", None)

(* Function::local.                                                        *)
Local(h, call) ==
  CASE ~h.linked -> Err("UnknownEntrypoint", None)
    [] h.linked /\ ~call.encodes -> Err("Encode", None)
    [] OTHER -> IF Handler(call).ok THEN Decode(call, FALSE) ELSE Handler(call)

-------------------------------------------------------------------------------
(* RunnerError::to_envelope and the runner's success envelope: an absent   *)
(* field is null. deployed: the container's registry has the name.         *)
Sealed(kind, details) == [ok |-> FALSE, kind |-> kind, value |-> Null,
                          details |-> IF details = None THEN Null ELSE details]
Envelope(call, deployed) ==
  LET e == Handler(call)
  IN CASE ~deployed -> Sealed("unknown_entrypoint", None)
       [] deployed /\ e.ok -> [ok |-> TRUE, kind |-> None, value |-> call, details |-> Null]
       [] OTHER -> IF e.variant = "unwinds" THEN Sealed("panic", None)
                   ELSE Sealed(e.of.kind, e.of.details)

ErrorKinds == {"decode_error", "unknown_entrypoint", "function_error", "encode_error", "panic"}
(* Mutant: only the kind comes back.                                       *)
ReconstructPlain(env) == RunnerError(env.kind, None)
(* reconstruct_runner_error: the kind it was; details of a function error  *)
(* only, null standing for none.                                           *)
Reconstruct(env) ==
  CASE env.kind \notin ErrorKinds -> RunnerError("decode_error", None)
    [] env.kind = "function_error" /\ env.details # Null -> RunnerError(env.kind, env.details)
    [] OTHER -> RunnerError(env.kind, None)

(* parse_envelope.                                                         *)
ParseEnvelope(env, discards) ==
  IF env.ok THEN Decode(env.value, discards) ELSE Err("Runner", Reconstruct(env))

-------------------------------------------------------------------------------
FirstError(results) == LET bad == {i \in DOMAIN results : ~results[i].ok}
                       IN results[CHOOSE i \in bad : \A j \in bad : i <= j]
(* collect::<Result<Vec<_>>>().                                            *)
Collected(results) ==
  IF \A i \in DOMAIN results : results[i].ok
  THEN Ok([i \in DOMAIN results |-> results[i].value])
  ELSE FirstError(results)

(* The inputs that travel: the typed builder of a macro keeps its own      *)
(* input for the calls that take one, and the fan-outs take others.        *)
Inputs(c) == IF c.op \in {"map", "starmap", "for_each", "spawn_map"} THEN c.inputs ELSE <<c.own>>

(* What goes wrong before anything is sent: no client feature, an input    *)
(* that does not serialise, no connection.                                 *)
Sendable(h, inputs) == h.client /\ h.connected /\ \A i \in DOMAIN inputs : inputs[i].encodes
Refusal(h, inputs) ==
  CASE ~h.client -> Err("NotImplemented", None)
    [] h.client /\ \E i \in DOMAIN inputs : ~inputs[i].encodes -> Err("Encode", None)
    [] OTHER -> Err("NotConnected", None)

(* remote, map, starmap, for_each, and spawn or spawn_map followed by the  *)
(* get of output 0. delivered: the SDK's calls succeed.                    *)
Remote(h, c, deployed, delivered) ==
  LET inputs == Inputs(c)
      results == [i \in DOMAIN inputs |->
                    ParseEnvelope(Envelope(inputs[i], deployed), c.op = "for_each")]
  IN CASE ~Sendable(h, inputs) -> Refusal(h, inputs)
       [] Sendable(h, inputs) /\ (~delivered \/ (c.op = "spawn_map" /\ inputs = <<>>)) -> Err("Sdk", None)
       [] OTHER -> CASE c.op \in {"map", "starmap"} -> Collected(results)
                     [] c.op = "for_each" ->
                          IF Collected(results).ok THEN Ok(None) ELSE Collected(results)
                     [] OTHER -> results[1]

-------------------------------------------------------------------------------
(* What a body's outcome is to the caller, without what the two sides may  *)
(* name differently: an unknown name is a variant of its own locally, and  *)
(* details that are the JSON null are none after the wire.                 *)
Plain(r) ==
  CASE r.ok -> r
    [] ~r.ok /\ r.variant = "UnknownEntrypoint" -> Err("Runner", RunnerError("unknown_entrypoint", None))
    [] ~r.ok /\ r.variant = "Runner" /\ r.of.details = Null ->
         Err("Runner", RunnerError(r.of.kind, None))
    [] ~r.ok /\ r.variant = "unwinds" -> Err("Runner", RunnerError("panic", None))
    [] OTHER -> r

(* Once delivered, a remote call of a connected handle tells its caller    *)
(* what a local one would, error by error and with the error's details     *)
(* (function.rs:53-70); a fan-out tells what the calls would one by one,   *)
(* in the order of its inputs, unless one of them cannot be sent; and      *)
(* for_each tells the same without looking at what the bodies return       *)
(* (function.rs:130-146, 209-226).                                         *)
RemoteMirrorsLocal(h, c) ==
  (h.client /\ h.connected /\ h.linked) =>
    LET inputs == Inputs(c)
        alone == [i \in DOMAIN inputs |-> Plain(Local(h, inputs[i]))]
        lazy == [i \in DOMAIN inputs |->
                   Plain(Local(h, [inputs[i] EXCEPT !.fits = TRUE]))]
        got == Remote(h, c, TRUE, TRUE)
    IN IF \E i \in DOMAIN inputs : ~inputs[i].encodes THEN got = Err("Encode", None)
       ELSE CASE c.op \in {"map", "starmap"} -> got = Collected(alone)
              [] c.op = "for_each" -> /\ got.ok <=> Collected(lazy).ok
                                      /\ ~got.ok => got = FirstError(lazy)
              [] c.op = "spawn_map" /\ inputs = <<>> -> ~got.ok
              [] OTHER -> got = alone[1]
===============================================================================
