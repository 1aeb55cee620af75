-------------------------------- MODULE RunApp --------------------------------
(***************************************************************************)
(* The RUN path of the facade: concurrent `.remote()`, `.spawn()`,         *)
(* `.map()` and `FunctionCall::get` futures over one RemoteHandle          *)
(* (modal-rust/src/app.rs), the provisioning sequence each first call runs *)
(* (remote.rs ensure_function, control_plane.rs provision) and the Modal   *)
(* control plane it talks to.                                              *)
(*                                                                         *)
(* A task is one future.  It fetches the OnceCell of its entrypoint from   *)
(* `function_ids`; a task that finds the cell empty becomes its            *)
(* initialiser, locks `client` and then `published`, and runs              *)
(* precreate, create, publish.  The invocation itself takes `client`       *)
(* again.  Every RPC may fail, with or without having taken effect, and    *)
(* every future may be dropped at an await.                                *)
(*                                                                         *)
(* Abstracted: the volumes, secrets, mounts and the image are one step     *)
(* that may fail (they are get-or-create and leave no state of this        *)
(* program); definition ids ride with function ids; a call's payload.      *)
(***************************************************************************)
CONSTANTS Tasks, Entrypoints, Tags, FnIds,
          Tag,     \* sanitize_object_tag, as a function on Entrypoints
          NoTask, NoId, NoEp, NoTag

ASSUME TagType == Tag \in [Entrypoints -> Tags]
ASSUME NoValues == /\ NoTask \notin Tasks
                   /\ NoId \notin FnIds
                   /\ NoEp \notin Entrypoints
                   /\ NoTag \notin Tags

VARIABLES
  pc,            \* where each future is
  ep,            \* the entrypoint each future was called for
  fid,           \* the function id the future works with
  function_ids,  \* the memo: entrypoint -> initialised OnceCell value
  cell,          \* entrypoint -> the task holding the OnceCell's permit
  client,        \* holder of Mutex<ModalClient>
  pubLock,       \* holder of Mutex<Published>
  published,     \* Published.function_ids: tag -> id
  precreated,    \* control plane: id -> the tag it was precreated under
  defn,          \* control plane: id -> entrypoint whose spec it carries
  layout,        \* control plane: the function set of the last AppPublish
  ranAs          \* history: the config a call's inputs ran with

memo == <<function_ids, cell, published>>
server == <<precreated, defn, layout>>
vars == <<pc, ep, fid, function_ids, cell, client, pubLock, published,
          precreated, defn, layout, ranAs>>

-------------------------------------------------------------------------------
Provisioning == {"resources", "precreate", "create", "publish"}
Initialising == {"lock_client", "lock_published"} \cup Provisioning
Invoking     == {"invoke", "poll"}
Waiting      == {"resolve", "lock_invoke", "lock_poll"}
Returned     == {"done", "failed", "not_found"}
Pcs == {"idle"} \cup Initialising \cup Invoking \cup Waiting \cup Returned

Init == /\ pc = [t \in Tasks |-> "idle"]
        /\ ep = [t \in Tasks |-> NoEp]
        /\ fid = [t \in Tasks |-> NoId]
        /\ function_ids = [e \in Entrypoints |-> NoId]
        /\ cell = [e \in Entrypoints |-> NoTask]
        /\ client = NoTask
        /\ pubLock = NoTask
        /\ published = [g \in Tags |-> NoId]
        /\ precreated = [f \in FnIds |-> NoTag]
        /\ defn = [f \in FnIds |-> NoEp]
        /\ layout = [g \in Tags |-> NoId]
        /\ ranAs = [t \in Tasks |-> NoEp]

Goto(t, from, to) == /\ pc[t] = from
                     /\ pc' = [pc EXCEPT ![t] = to]

(* Dropping a future, or leaving a scope, releases what it still holds.    *)
Released(t, lock) == IF lock = t THEN NoTask ELSE lock
(* Mutant: the permit of a failed initialisation is not given back.        *)
KeepPermit(t) == /\ client' = Released(t, client)
                 /\ pubLock' = Released(t, pubLock)
                 /\ UNCHANGED cell
ReleaseAll(t) == /\ client' = Released(t, client)
                 /\ pubLock' = Released(t, pubLock)
                 /\ cell' = [e \in Entrypoints |-> Released(t, cell[e])]

-------------------------------------------------------------------------------
(* remote_invoke / remote_spawn / remote_map: fetch the key's cell.  The   *)
(* function_ids lock is not held across an await, so this is one step.     *)
Call(t, e) == /\ Goto(t, "idle", "resolve")
              /\ ep' = [ep EXCEPT ![t] = e]
              /\ UNCHANGED <<fid, memo, client, pubLock, server, ranAs>>

(* remote_get: no resolution, the call id says everything.                 *)
Get(t) == /\ Goto(t, "idle", "lock_poll")
          /\ UNCHANGED <<ep, fid, memo, client, pubLock, server, ranAs>>

(* get_or_try_init on an initialised cell.                                 *)
Resolved(t) == /\ Goto(t, "resolve", "lock_invoke")
               /\ function_ids[ep[t]] # NoId
               /\ fid' = [fid EXCEPT ![t] = function_ids[ep[t]]]
               /\ UNCHANGED <<ep, memo, client, pubLock, server, ranAs>>

(* Mutant: the waiter does not look at the value again.                    *)
StartInitAgain(t) == /\ Goto(t, "resolve", "lock_client")
                     /\ cell[ep[t]] = NoTask
                     /\ cell' = [cell EXCEPT ![ep[t]] = t]
                     /\ UNCHANGED <<ep, fid, function_ids, published, client,
                                    pubLock, server, ranAs>>

(* get_or_try_init on an empty cell: take the permit and start the init    *)
(* closure.  A task that waited for the permit looks at the value again.   *)
StartInit(t) == /\ Goto(t, "resolve", "lock_client")
                /\ function_ids[ep[t]] = NoId
                /\ cell[ep[t]] = NoTask
                /\ cell' = [cell EXCEPT ![ep[t]] = t]
                /\ UNCHANGED <<ep, fid, function_ids, published, client,
                               pubLock, server, ranAs>>

(* Mutant: the init closure clones the client instead of locking it.       *)
CloneClient(t) == /\ Goto(t, "lock_client", "lock_published")
                  /\ client' = t
                  /\ UNCHANGED <<ep, fid, memo, pubLock, server, ranAs>>
LockClient(t) == /\ Goto(t, "lock_client", "lock_published")
                 /\ client = NoTask
                 /\ client' = t
                 /\ UNCHANGED <<ep, fid, memo, pubLock, server, ranAs>>

LockPublished(t) == /\ Goto(t, "lock_published", "resources")
                    /\ pubLock = NoTask
                    /\ pubLock' = t
                    /\ UNCHANGED <<ep, fid, memo, client, server, ranAs>>

(* provision: cache volume, secrets, user volumes, mounts, image.          *)
EnsureResources(t) == /\ Goto(t, "resources", "precreate")
                      /\ UNCHANGED <<ep, fid, memo, client, pubLock, server,
                                     ranAs>>

(* FunctionPrecreate: the server answers with a usable id for the tag, an  *)
(* id it gave out for this tag before or a new one.                        *)
ServerPrecreate(g, f) == /\ precreated[f] \in {NoTag, g}
                         /\ precreated' = [precreated EXCEPT ![f] = g]
                         /\ UNCHANGED <<defn, layout>>

Precreate(t) == /\ Goto(t, "precreate", "create")
                /\ \E f \in FnIds : /\ ServerPrecreate(Tag[ep[t]], f)
                                    /\ fid' = [fid EXCEPT ![t] = f]
                /\ UNCHANGED <<ep, memo, client, pubLock, ranAs>>

(* FunctionCreate with existing_function_id: the id now carries e's spec.  *)
ServerCreate(f, e) == /\ defn' = [defn EXCEPT ![f] = e]
                      /\ UNCHANGED <<precreated, layout>>

(* Mutants: a Published that starts empty for each call; the tag recorded  *)
(* as its own id.                                                          *)
RecordFresh(g, f) == published' = [h \in Tags |-> IF h = g THEN f ELSE NoId]
RecordTag(g, f) == published' = [published EXCEPT ![g] = g]

(* Published::record.                                                      *)
Record(g, f) == published' = [published EXCEPT ![g] = f]

Create(t) == /\ Goto(t, "create", "publish")
             /\ ServerCreate(fid[t], ep[t])
             /\ Record(Tag[ep[t]], fid[t])
             /\ UNCHANGED <<ep, fid, function_ids, cell, client, pubLock, ranAs>>

(* AppPublish REPLACES the app's function set.                             *)
ServerPublish(ids) == /\ layout' = ids
                      /\ UNCHANGED <<precreated, defn>>

(* Mutant: an ephemeral app is taken to need no publish.                   *)
SkipPublish(t) == /\ Goto(t, "publish", "lock_invoke")
                  /\ function_ids' = [function_ids EXCEPT ![ep[t]] = fid[t]]
                  /\ ReleaseAll(t)
                  /\ UNCHANGED <<ep, fid, published, server, ranAs>>

(* The publish answers; ensure_function looks the id up under the tag, the *)
(* cell is set, the permit and both locks are released.                    *)
Publish(t) == /\ Goto(t, "publish", "lock_invoke")
              /\ ServerPublish(published)
              /\ function_ids' = [function_ids EXCEPT
                                    ![ep[t]] = published[Tag[ep[t]]]]
              /\ fid' = [fid EXCEPT ![t] = published[Tag[ep[t]]]]
              /\ ReleaseAll(t)
              /\ UNCHANGED <<ep, published, ranAs>>

-------------------------------------------------------------------------------
(* Invocation: the client lock is held for the whole enqueue and poll.     *)
LockInvoke(t) == /\ client = NoTask
                 /\ \/ Goto(t, "lock_invoke", "invoke")
                    \/ Goto(t, "lock_poll", "poll")
                 /\ client' = t
                 /\ UNCHANGED <<ep, fid, memo, pubLock, server, ranAs>>

Live == {layout[g] : g \in Tags} \ {NoId}

(* FunctionMap reaches the function, or it is not in the published set.    *)
Invoke(t) ==
  LET found == fid[t] \in Live
  IN /\ Goto(t, "invoke", IF found THEN "done" ELSE "not_found")
     /\ ranAs' = [ranAs EXCEPT ![t] = IF found THEN defn[fid[t]] ELSE @]
     /\ ReleaseAll(t)
     /\ UNCHANGED <<ep, fid, function_ids, published, server>>

(* get_by_call_cbor returns: an output, or the deadline.                   *)
PollReturns(t) == /\ Goto(t, "poll", "done")
                  /\ ReleaseAll(t)
                  /\ UNCHANGED <<ep, fid, function_ids, published, server, ranAs>>

-------------------------------------------------------------------------------
(* An RPC fails without effect, or the future is dropped at an await: what *)
(* it held is released, an uninitialised cell stays empty.                 *)
Fail(t) == /\ pc[t] \notin {"idle"} \cup Returned
           /\ pc' = [pc EXCEPT ![t] = "failed"]
           /\ ReleaseAll(t)
           /\ UNCHANGED <<ep, fid, function_ids, published, server, ranAs>>

(* An RPC fails (or its future is dropped) after the server applied it.    *)
FailApplied(t) ==
  /\ \/ pc[t] = "precreate" /\ \E f \in FnIds : ServerPrecreate(Tag[ep[t]], f)
     \/ pc[t] = "create" /\ ServerCreate(fid[t], ep[t])
     \/ pc[t] = "publish" /\ ServerPublish(published)
  /\ pc' = [pc EXCEPT ![t] = "failed"]
  /\ ReleaseAll(t)
  /\ UNCHANGED <<ep, fid, function_ids, published, ranAs>>

(* An invocation fails on the client (deadline, transport, dropped) after  *)
(* its input ran.                                                          *)
FailAfterRun(t) == /\ Goto(t, "invoke", "failed")
                   /\ fid[t] \in Live
                   /\ ranAs' = [ranAs EXCEPT ![t] = defn[fid[t]]]
                   /\ ReleaseAll(t)
                   /\ UNCHANGED <<ep, fid, function_ids, published, server>>

Step(t) == \/ Resolved(t) \/ StartInit(t) \/ LockClient(t) \/ LockPublished(t)
           \/ EnsureResources(t) \/ Precreate(t) \/ Create(t) \/ Publish(t)
           \/ LockInvoke(t) \/ Invoke(t) \/ PollReturns(t)

Next == \E t \in Tasks : \/ \E e \in Entrypoints : Call(t, e)
                         \/ Get(t)
                         \/ Step(t)
                         \/ Fail(t)
                         \/ FailApplied(t)
                         \/ FailAfterRun(t)

Spec == Init /\ [][Next]_vars

(* The executor keeps polling a future that can move; failures and drops   *)
(* are not forced, nor does a user have to call.                           *)
Fairness == \A t \in Tasks : WF_vars(Step(t))
FairSpec == Spec /\ Fairness

-------------------------------------------------------------------------------
(* Types of every variable.                                                *)
TypeOK == /\ pc \in [Tasks -> Pcs]
          /\ ep \in [Tasks -> Entrypoints \cup {NoEp}]
          /\ fid \in [Tasks -> FnIds \cup {NoId}]
          /\ function_ids \in [Entrypoints -> FnIds \cup {NoId}]
          /\ cell \in [Entrypoints -> Tasks \cup {NoTask}]
          /\ client \in Tasks \cup {NoTask}
          /\ pubLock \in Tasks \cup {NoTask}
          /\ published \in [Tags -> FnIds \cup {NoId}]
          /\ precreated \in [FnIds -> Tags \cup {NoTag}]
          /\ defn \in [FnIds -> Entrypoints \cup {NoEp}]
          /\ layout \in [Tags -> FnIds \cup {NoId}]
          /\ ranAs \in [Tasks -> Entrypoints \cup {NoEp}]

(* A memoised function id stays good: it is in the app's published set and *)
(* carries its own entrypoint's spec, however creates, failed publishes    *)
(* and dropped futures of other entrypoints interleave (app.rs:89-94).     *)
MemoisedInvokable ==
  \A e \in Entrypoints : function_ids[e] # NoId =>
    /\ layout[Tag[e]] = function_ids[e]
    /\ defn[function_ids[e]] = e

(* No caller is told "function not found" for a function its own process   *)
(* provisioned, and no input runs under another entrypoint's config        *)
(* (remote.rs:558-562).                                                    *)
InvokedAsDeclared ==
  \A t \in Tasks : /\ pc[t] # "not_found"
                   /\ ranAs[t] \in {NoEp, ep[t]}

(* Once an entrypoint's cell is set, no later call creates a function for  *)
(* it again: the ids carrying its spec on the server stay the same         *)
(* (app.rs:88-89, "concurrent first calls to the same key single-flight    *)
(* create").                                                               *)
Carrying(e) == {f \in FnIds : defn[f] = e}
KeepsMemo == \A e \in Entrypoints : function_ids[e] # NoId =>
               /\ Carrying(e)' = Carrying(e)
               /\ function_ids'[e] = function_ids[e]
CreatedOnce == [][KeepsMemo]_vars

(* Distinct entrypoints are distinct, coexisting Modal functions           *)
(* (remote.rs:558-563).                                                    *)
EntrypointsCoexist ==
  \A e1, e2 \in Entrypoints :
    e1 # e2 /\ NoId \notin {function_ids[e1], function_ids[e2]} =>
      /\ function_ids[e1] # function_ids[e2]
      /\ {function_ids[e1], function_ids[e2]} \subseteq Live

(* Every call returns: the memo cell, the client lock and the publish lock *)
(* never leave a future waiting for good, whatever fails or is dropped     *)
(* while it holds them.                                                    *)
EveryCallReturns ==
  \A t \in Tasks : pc[t] # "idle" ~> pc[t] \in Returned

(* The locked, memoised, failure-prone path implements the service: an     *)
(* entrypoint becomes invokable once, for good, and calls run only through *)
(* an invokable entrypoint.                                                *)
Invokable == {e \in Entrypoints : /\ function_ids[e] # NoId
                                  /\ function_ids[e] \in Live
                                  /\ defn[function_ids[e]] = e}
Service == INSTANCE RunService WITH invokable <- Invokable
ServiceSpec == Service!Spec

-------------------------------------------------------------------------------
(* The inductive invariant behind the two safety invariants.               *)
HoldsClient == {"lock_published"} \cup Provisioning \cup Invoking

(* Who holds which lock can be read off the program counters.              *)
LockInv ==
  /\ \A t \in Tasks : client = t <=> pc[t] \in HoldsClient
  /\ \A t \in Tasks : pubLock = t <=> pc[t] \in Provisioning
  /\ \A t \in Tasks, e \in Entrypoints :
        cell[e] = t <=> pc[t] \in Initialising /\ ep[t] = e

(* A future that works for an entrypoint has one.                          *)
EpKnown == \A t \in Tasks :
  pc[t] \in {"resolve", "lock_invoke", "invoke"} \cup Initialising =>
    ep[t] \in Entrypoints

(* What each future knows of its entrypoint and its function id.           *)
TaskInv ==
  \A t \in Tasks :
    /\ pc[t] \notin Returned => ranAs[t] = NoEp
    /\ pc[t] \in Initialising => function_ids[ep[t]] = NoId
    /\ pc[t] \in {"create", "publish"} =>
         fid[t] \in FnIds /\ precreated[fid[t]] = Tag[ep[t]]
    /\ pc[t] = "publish" =>
         published[Tag[ep[t]]] = fid[t] /\ defn[fid[t]] = ep[t]
    /\ pc[t] \in {"lock_invoke", "invoke"} =>
         function_ids[ep[t]] # NoId /\ fid[t] = function_ids[ep[t]]

(* The client's publish union, the memo and the server agree: an id        *)
(* carries only specs of the tag it was precreated under and is published  *)
(* only under that tag, and a memoised id is in the union that the NEXT    *)
(* AppPublish of any entrypoint will send.                                 *)
UnionInv ==
  /\ \A f \in FnIds : defn[f] # NoEp => precreated[f] = Tag[defn[f]]
  /\ \A g \in Tags : published[g] # NoId => precreated[published[g]] = g
  /\ \A e \in Entrypoints :
       function_ids[e] # NoId => published[Tag[e]] = function_ids[e]

(* All of it together: the memo never promises what the server has dropped *)
(* (app.rs:83-94).                                                         *)
IInv == /\ TypeOK /\ EpKnown /\ LockInv /\ TaskInv /\ UnionInv
        /\ MemoisedInvokable /\ InvokedAsDeclared

(* sanitize_object_tag keeps the program's entrypoints apart.              *)
InjectiveTag == \A a, b \in Entrypoints : Tag[a] = Tag[b] => a = b
===============================================================================
