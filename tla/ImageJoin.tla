------------------------------- MODULE ImageJoin -------------------------------
(***************************************************************************)
(* Waiting for an image build (modal-rust-sdk/src/ops/image/build.rs):     *)
(* ImageGetOrCreate, which may answer with the result, then windows of     *)
(* ImageJoinStreaming, each resumed after the last entry seen, across      *)
(* clean window ends and transient resets, until a result or the deadline. *)
(*                                                                         *)
(* The server's side is external: a build writes a stream of log entries   *)
(* and ends it with its result; a window sends the entries after the one   *)
(* it is asked to resume from, in order, and may end or break at any point.*)
(* An entry id may be empty (build.rs:155), and then is not resumed from.  *)
(*                                                                         *)
(* Abstracted: the text of logs; MaxEntries bounds the log of a build,     *)
(* MaxAttempts the tries of the first RPC.                                 *)
(***************************************************************************)
EXTENDS Naturals, Sequences, SequencesExt

CONSTANTS MaxEntries, MaxAttempts

BoundsType == MaxEntries \in Nat /\ MaxAttempts \in Nat \ {0}

VARIABLES
  pc,        \* "create", "poll", "window" or an end
  attempt,   \* try of ImageGetOrCreate
  expired,   \* BUILD_DEADLINE has elapsed
  cursor,    \* last_entry_id, as a position; 0 is empty
  at,        \* entries of the stream this window has delivered
  shown,     \* history: the positions printed, in order
  entries,   \* server: the stream: does entry k have an id
  result     \* server: "pending", "success" or "failure"

client == <<pc, attempt, expired, cursor, at, shown>>
server == <<entries, result>>
vars == <<client, server>>

Ended == {"built", "failed", "deadline", "error"}

Init == /\ pc = "create"
        /\ attempt = 1
        /\ expired = FALSE
        /\ cursor = 0
        /\ at = 0
        /\ shown = <<>>
        /\ entries = <<>>
        /\ result \in {"pending", "success", "failure"}

(* Branch on an inline result; a failure is the build's, and final.        *)
AfterResult == CASE result = "success" -> "built"
                 [] result = "failure" -> "failed"
                 [] OTHER -> "poll"

(* ImageGetOrCreate, deduplicated by content: sent again when it is lost.  *)
ImageGetOrCreate ==
  /\ pc = "create"
  /\ \/ pc' = AfterResult /\ UNCHANGED attempt
     \/ attempt < MaxAttempts /\ attempt' = attempt + 1 /\ UNCHANGED pc
     \/ pc' = "error" /\ UNCHANGED attempt
  /\ UNCHANGED <<expired, cursor, at, shown, server>>

(* The next window, resumed after last_entry_id.                           *)
OpenWindow == /\ pc = "poll" /\ ~expired
              /\ pc' = "window"
              /\ at' = cursor
              /\ UNCHANGED <<attempt, expired, cursor, shown, server>>

Deadline == /\ pc = "poll" /\ expired
            /\ pc' = "deadline"
            /\ UNCHANGED <<attempt, expired, cursor, at, shown, server>>

(* An entry with no id leaves the cursor where it was.                     *)
Advance(k) == IF entries[k] THEN k ELSE cursor

(* One item of the window: its logs are printed and its id remembered.     *)
Item == /\ pc = "window" /\ at < Len(entries)
        /\ at' = at + 1
        /\ shown' = Append(shown, at + 1)
        /\ cursor' = Advance(at + 1)
        /\ UNCHANGED <<pc, attempt, expired, server>>

(* The last item of a finished build carries the result.                   *)
Terminal == /\ pc = "window" /\ at = Len(entries) /\ result # "pending"
            /\ pc' = AfterResult
            /\ UNCHANGED <<attempt, expired, cursor, at, shown, server>>

(* The window ends, is reset (poll again), or fails for good, as a request *)
(* that is not authorised does.                                            *)
WindowEnds == /\ pc = "window"
              /\ pc' \in {"poll", "error"}
              /\ UNCHANGED <<attempt, expired, cursor, at, shown, server>>

Elapse == /\ pc \in {"poll", "window"} /\ ~expired
          /\ expired' = TRUE
          /\ UNCHANGED <<pc, attempt, cursor, at, shown, server>>

(* The build, on the server.                                               *)
Log == /\ result = "pending" /\ Len(entries) < MaxEntries
       /\ \E id \in BOOLEAN : entries' = Append(entries, id)
       /\ UNCHANGED <<client, result>>
Finish == /\ result = "pending"
          /\ result' \in {"success", "failure"}
          /\ UNCHANGED <<client, entries>>

(* MaxShown bounds what resumed windows may print again.                   *)
MaxShown == MaxEntries + 3
ClientStep == \/ ImageGetOrCreate \/ OpenWindow \/ Deadline
              \/ Item /\ Len(shown) < MaxShown
              \/ Terminal \/ WindowEnds
Next == ClientStep \/ Elapse \/ Log \/ Finish
Spec == Init /\ [][Next]_vars
(* A window ends (timeout 55 s, keepalive) and time passes; no build has   *)
(* to finish.                                                              *)
FairSpec == Spec /\ WF_vars(ClientStep) /\ WF_vars(Elapse)

-------------------------------------------------------------------------------
(* Types of every variable.                                                *)
TypeOK == /\ pc \in {"create", "poll", "window"} \cup Ended
          /\ attempt \in 1 .. MaxAttempts
          /\ expired \in BOOLEAN
          /\ cursor \in 0 .. Len(entries)
          /\ at \in 0 .. Len(entries)
          /\ shown \in Seq(1 .. MaxEntries)
          /\ entries \in Seq(BOOLEAN) /\ Len(entries) <= MaxEntries
          /\ result \in {"pending", "success", "failure"}

(* A build is reported built or failed exactly as the server ended it: a   *)
(* reset is never taken for a failure of the build, and no failure is      *)
(* hidden by a reconnect (build.rs:84-92).                                 *)
ReportedAsEnded == /\ pc = "built" => result = "success"
                   /\ pc = "failed" => result = "failure"

(* No part of a build's log is lost across windows: what was printed has   *)
(* no gap, and an entry with an id is printed once (build.rs:84-92, 155).  *)
LogsWhole ==
  /\ Range(shown) = 1 .. IF shown = <<>> THEN 0 ELSE Max(Range(shown))
  /\ \A i, j \in DOMAIN shown :
       i < j /\ shown[i] = shown[j] => ~entries[shown[i]]

(* The wait has not ended; the build may never finish.                     *)
InFlight == pc \notin Ended
===============================================================================
