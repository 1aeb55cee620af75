---------------------------- MODULE RunApp_proofs -----------------------------
(***************************************************************************)
(* For any number of concurrent calls, entrypoints and function ids: the   *)
(* memo of the RUN path never names a function that is no longer           *)
(* invokable, provided the object tags are distinct.                       *)
(***************************************************************************)
EXTENDS RunApp, TLAPS

(* Every variable keeps its type, and a future that works has an           *)
(* entrypoint.                                                             *)
LEMMA TypeStep == TypeOK /\ EpKnown /\ [Next]_vars => (TypeOK /\ EpKnown)'
<1> SUFFICES ASSUME TypeOK, EpKnown, [Next]_vars PROVE (TypeOK /\ EpKnown)'
  OBVIOUS
<1> USE TagType, NoValues DEF TypeOK, EpKnown, Goto, memo, server, Released,
        ReleaseAll, Pcs, Initialising, Provisioning, Invoking, Waiting, Returned, Live
<1>1. ASSUME NEW t \in Tasks, NEW e \in Entrypoints, Call(t, e) PROVE (TypeOK /\ EpKnown)'
  BY <1>1 DEF Call
<1>2. ASSUME NEW t \in Tasks, Get(t) PROVE (TypeOK /\ EpKnown)'
  BY <1>2 DEF Get
<1>3. ASSUME NEW t \in Tasks, Resolved(t) PROVE (TypeOK /\ EpKnown)'
  BY <1>3 DEF Resolved
<1>4. ASSUME NEW t \in Tasks, StartInit(t) PROVE (TypeOK /\ EpKnown)'
  BY <1>4 DEF StartInit
<1>5. ASSUME NEW t \in Tasks, LockClient(t) PROVE (TypeOK /\ EpKnown)'
  BY <1>5 DEF LockClient
<1>6. ASSUME NEW t \in Tasks, LockPublished(t) PROVE (TypeOK /\ EpKnown)'
  BY <1>6 DEF LockPublished
<1>7. ASSUME NEW t \in Tasks, EnsureResources(t) PROVE (TypeOK /\ EpKnown)'
  BY <1>7 DEF EnsureResources
<1>8. ASSUME NEW t \in Tasks, Precreate(t) PROVE (TypeOK /\ EpKnown)'
  BY <1>8 DEF Precreate, ServerPrecreate
<1>9. ASSUME NEW t \in Tasks, Create(t) PROVE (TypeOK /\ EpKnown)'
  BY <1>9 DEF Create, ServerCreate, Record
<1>10. ASSUME NEW t \in Tasks, Publish(t) PROVE (TypeOK /\ EpKnown)'
  BY <1>10 DEF Publish, ServerPublish
<1>11. ASSUME NEW t \in Tasks, LockInvoke(t) PROVE (TypeOK /\ EpKnown)'
  BY <1>11 DEF LockInvoke
<1>12. ASSUME NEW t \in Tasks, Invoke(t) PROVE (TypeOK /\ EpKnown)'
  BY <1>12 DEF Invoke
<1>13. ASSUME NEW t \in Tasks, PollReturns(t) PROVE (TypeOK /\ EpKnown)'
  BY <1>13 DEF PollReturns
<1>14. ASSUME NEW t \in Tasks, Fail(t) PROVE (TypeOK /\ EpKnown)'
  BY <1>14 DEF Fail
<1>15. ASSUME NEW t \in Tasks, FailApplied(t) PROVE (TypeOK /\ EpKnown)'
  BY <1>15 DEF FailApplied, ServerPrecreate, ServerCreate, ServerPublish
<1>16. ASSUME NEW t \in Tasks, FailAfterRun(t) PROVE (TypeOK /\ EpKnown)'
  BY <1>16 DEF FailAfterRun
<1>17. CASE UNCHANGED vars
  BY <1>17 DEF vars
<1>18. QED
  BY <1>1, <1>2, <1>3, <1>4, <1>5, <1>6, <1>7, <1>8, <1>9, <1>10, <1>11, <1>12, <1>13, <1>14, <1>15, <1>16, <1>17 DEF Next, Step

(* Types are invariant.                                                    *)
THEOREM TypeCorrect == Spec => []TypeOK
<1>1. Init => TypeOK /\ EpKnown
  BY NoValues DEF Init, TypeOK, EpKnown, Pcs, Initialising, Provisioning
<1>2. QED
  BY <1>1, TypeStep, PTL DEF Spec

(* Lock holders can be read off the program counters: the permit of a cell *)
(* and the two mutexes each have at most one holder.                       *)
LEMMA LockStep ==
  TypeOK /\ EpKnown /\ LockInv /\ [Next]_vars => LockInv'
<1> SUFFICES ASSUME TypeOK, EpKnown, LockInv, [Next]_vars PROVE LockInv'
  OBVIOUS
<1> USE NoValues DEF TypeOK, EpKnown, LockInv, Goto, memo, server, Released,
        ReleaseAll, HoldsClient, Initialising, Provisioning, Invoking, Returned
<1>1. ASSUME NEW t \in Tasks, NEW e \in Entrypoints, Call(t, e) PROVE LockInv'
  BY <1>1 DEF Call
<1>2. ASSUME NEW t \in Tasks, Get(t) PROVE LockInv'
  BY <1>2 DEF Get
<1>3. ASSUME NEW t \in Tasks, Resolved(t) PROVE LockInv'
  BY <1>3 DEF Resolved
<1>4. ASSUME NEW t \in Tasks, StartInit(t) PROVE LockInv'
  BY <1>4 DEF StartInit
<1>5. ASSUME NEW t \in Tasks, LockClient(t) PROVE LockInv'
  BY <1>5 DEF LockClient
<1>6. ASSUME NEW t \in Tasks, LockPublished(t) PROVE LockInv'
  BY <1>6 DEF LockPublished
<1>7. ASSUME NEW t \in Tasks, EnsureResources(t) PROVE LockInv'
  BY <1>7 DEF EnsureResources
<1>8. ASSUME NEW t \in Tasks, Precreate(t) PROVE LockInv'
  BY <1>8 DEF Precreate, ServerPrecreate
<1>9. ASSUME NEW t \in Tasks, Create(t) PROVE LockInv'
  BY <1>9 DEF Create, ServerCreate, Record
<1>10. ASSUME NEW t \in Tasks, Publish(t) PROVE LockInv'
  BY <1>10 DEF Publish, ServerPublish
<1>11. ASSUME NEW t \in Tasks, LockInvoke(t) PROVE LockInv'
  BY <1>11 DEF LockInvoke
<1>12. ASSUME NEW t \in Tasks, Invoke(t) PROVE LockInv'
  BY <1>12 DEF Invoke
<1>13. ASSUME NEW t \in Tasks, PollReturns(t) PROVE LockInv'
  BY <1>13 DEF PollReturns
<1>14. ASSUME NEW t \in Tasks, Fail(t) PROVE LockInv'
  BY <1>14 DEF Fail
<1>15. ASSUME NEW t \in Tasks, FailApplied(t) PROVE LockInv'
  BY <1>15 DEF FailApplied, ServerPrecreate, ServerCreate, ServerPublish
<1>16. ASSUME NEW t \in Tasks, FailAfterRun(t) PROVE LockInv'
  BY <1>16 DEF FailAfterRun
<1>17. CASE UNCHANGED vars
  BY <1>17 DEF vars
<1>18. QED
  BY <1>1, <1>2, <1>3, <1>4, <1>5, <1>6, <1>7, <1>8, <1>9, <1>10, <1>11, <1>12, <1>13, <1>14, <1>15, <1>16, <1>17 DEF Next, Step

(* What futures, the memo and the server know of each other.               *)
Agreement == TaskInv /\ UnionInv /\ MemoisedInvokable /\ InvokedAsDeclared

LEMMA AgreementStep ==
  ASSUME InjectiveTag
  PROVE  IInv /\ [Next]_vars => Agreement'
<1> SUFFICES ASSUME IInv, [Next]_vars PROVE Agreement'
  OBVIOUS
<1> USE InjectiveTag, NoValues, TagType
    DEF IInv, Agreement, TypeOK, EpKnown, LockInv, TaskInv, UnionInv,
        MemoisedInvokable, InvokedAsDeclared, InjectiveTag, Goto, memo, server,
        Released, ReleaseAll, HoldsClient, Initialising, Provisioning, Invoking,
        Returned
<1>1. ASSUME NEW t \in Tasks, NEW e \in Entrypoints, Call(t, e) PROVE Agreement'
  BY <1>1 DEF Call
<1>2. ASSUME NEW t \in Tasks, Get(t) PROVE Agreement'
  BY <1>2 DEF Get
<1>3. ASSUME NEW t \in Tasks, Resolved(t) PROVE Agreement'
  BY <1>3 DEF Resolved
<1>4. ASSUME NEW t \in Tasks, StartInit(t) PROVE Agreement'
  BY <1>4 DEF StartInit
<1>5. ASSUME NEW t \in Tasks, LockClient(t) PROVE Agreement'
  BY <1>5 DEF LockClient
<1>6. ASSUME NEW t \in Tasks, LockPublished(t) PROVE Agreement'
  BY <1>6 DEF LockPublished
<1>7. ASSUME NEW t \in Tasks, EnsureResources(t) PROVE Agreement'
  BY <1>7 DEF EnsureResources
<1>8. ASSUME NEW t \in Tasks, Precreate(t) PROVE Agreement'
  BY <1>8 DEF Precreate, ServerPrecreate
<1>9. ASSUME NEW t \in Tasks, Create(t) PROVE Agreement'
  <2>1. \A e \in Entrypoints : function_ids[e] # NoId => Tag[e] # Tag[ep[t]]
    \* The initialiser's own cell is empty, and tags are distinct.
    BY <1>9 DEF Create
  <2>2. \A e \in Entrypoints : function_ids[e] # NoId => function_ids[e] # fid[t]
    \* Ids of distinct tags are distinct: they were precreated under them.
    BY <2>1, <1>9 DEF Create
  <2>3. MemoisedInvokable'
    BY <2>2, <1>9 DEF Create, ServerCreate
  <2>4. UnionInv'
    BY <2>1, <1>9 DEF Create, ServerCreate, Record
  <2>5. TaskInv'
    BY <1>9 DEF Create, ServerCreate, Record
  <2>6. InvokedAsDeclared'
    BY <1>9 DEF Create
  <2>7. QED
    BY <2>3, <2>4, <2>5, <2>6
<1>10. ASSUME NEW t \in Tasks, Publish(t) PROVE Agreement'
  <2>1. layout' = published /\ defn' = defn /\ published' = published
    BY <1>10 DEF Publish, ServerPublish
  <2>2. \A e \in Entrypoints : e # ep[t] => function_ids'[e] = function_ids[e]
    BY <1>10 DEF Publish
  <2>3. MemoisedInvokable'
    \* The old memo is in the union that was sent; the new id is too.
    BY <2>1, <2>2, <1>10 DEF Publish
  <2>4. TaskInv' /\ UnionInv' /\ InvokedAsDeclared'
    BY <1>10 DEF Publish, ServerPublish
  <2>5. QED
    BY <2>3, <2>4
<1>11. ASSUME NEW t \in Tasks, LockInvoke(t) PROVE Agreement'
  BY <1>11 DEF LockInvoke
<1>12. ASSUME NEW t \in Tasks, Invoke(t) PROVE Agreement'
  \* The function is found: the id comes from the memo, which is in the layout.
  <2>1. fid[t] = layout[Tag[ep[t]]] /\ fid[t] # NoId /\ defn[fid[t]] = ep[t]
    BY <1>12 DEF Invoke
  <2>2. fid[t] \in Live
    BY <2>1, <1>12 DEF Invoke, Live
  <2>3. QED
    BY <2>1, <2>2, <1>12 DEF Invoke
<1>13. ASSUME NEW t \in Tasks, PollReturns(t) PROVE Agreement'
  BY <1>13 DEF PollReturns
<1>14. ASSUME NEW t \in Tasks, Fail(t) PROVE Agreement'
  BY <1>14 DEF Fail
<1>15. ASSUME NEW t \in Tasks, FailApplied(t) PROVE Agreement'
  BY <1>15 DEF FailApplied, ServerPrecreate, ServerCreate, ServerPublish
<1>16. ASSUME NEW t \in Tasks, FailAfterRun(t) PROVE Agreement'
  BY <1>16 DEF FailAfterRun
<1>17. CASE UNCHANGED vars
  BY <1>17 DEF vars
<1>18. QED
  BY <1>1, <1>2, <1>3, <1>4, <1>5, <1>6, <1>7, <1>8, <1>9, <1>10, <1>11, <1>12, <1>13, <1>14, <1>15, <1>16, <1>17 DEF Next, Step

LEMMA InitIInv == Init => IInv
BY NoValues, TagType
   DEF Init, IInv, TypeOK, EpKnown, LockInv, TaskInv, UnionInv,
       MemoisedInvokable, InvokedAsDeclared, Pcs, HoldsClient, Initialising,
       Provisioning, Invoking

(* The inductive invariant holds in every reachable state.                 *)
THEOREM Inductive == ASSUME InjectiveTag PROVE Spec => []IInv
<1>1. IInv /\ [Next]_vars => IInv'
  BY TypeStep, LockStep, AgreementStep DEF IInv, Agreement
<1>2. QED
  BY <1>1, InitIInv, PTL DEF Spec

(* A memoised id is published and carries its own entrypoint's spec.       *)
THEOREM MemoStaysInvokable ==
  ASSUME InjectiveTag PROVE Spec => []MemoisedInvokable
BY Inductive, PTL DEF IInv

(* No call is refused as "not found" or runs under a foreign config.       *)
THEOREM CallsRunAsDeclared ==
  ASSUME InjectiveTag PROVE Spec => []InvokedAsDeclared
BY Inductive, PTL DEF IInv

-------------------------------------------------------------------------------
(* Single-flight create: a set cell is never replaced and the server never *)
(* gets another create for its entrypoint.                                 *)
LEMMA MemoStep == ASSUME InjectiveTag PROVE IInv /\ Next => KeepsMemo
<1> SUFFICES ASSUME IInv, Next PROVE KeepsMemo
  OBVIOUS
<1> USE DEF KeepsMemo, Carrying
<1>1. ASSUME NEW t \in Tasks, Create(t) \/ FailApplied(t) PROVE KeepsMemo
  <2>1. function_ids' = function_ids
    BY <1>1 DEF Create, FailApplied
  <2>2. CASE defn' = defn
    BY <2>1, <2>2
  <2>3. CASE pc[t] = "create" /\ defn' = [defn EXCEPT ![fid[t]] = ep[t]]
    <3>1. /\ ep[t] \in Entrypoints /\ fid[t] \in FnIds
          /\ function_ids[ep[t]] = NoId
          /\ precreated[fid[t]] = Tag[ep[t]]
      BY <2>3 DEF IInv, EpKnown, TaskInv, Initialising, Provisioning
    <3>2. defn[fid[t]] \in {NoEp, ep[t]}
      BY <3>1, InjectiveTag DEF InjectiveTag, IInv, UnionInv, TypeOK
    <3>3. \A e \in Entrypoints : function_ids[e] # NoId => e # ep[t]
      BY <3>1
    <3>4. QED
      BY <2>1, <2>3, <3>1, <3>2, <3>3, NoValues DEF IInv, TypeOK
  <2>4. QED
    BY <1>1, <2>2, <2>3 DEF Create, FailApplied, ServerCreate, ServerPrecreate,
       ServerPublish, Goto
<1>2. ASSUME NEW t \in Tasks, Publish(t) PROVE KeepsMemo
  <2>1. function_ids[ep[t]] = NoId
    BY <1>2 DEF Publish, Goto, IInv, TaskInv, Initialising, Provisioning
  <2>2. QED
    BY <1>2, <2>1 DEF Publish, ServerPublish, IInv, TypeOK
<1>3. ASSUME function_ids' = function_ids, defn' = defn PROVE KeepsMemo
  BY <1>3
<1>4. QED
  BY <1>1, <1>2, <1>3
     DEF Next, Step, Call, Get, Resolved, StartInit, LockClient, LockPublished,
         EnsureResources, Precreate, ServerPrecreate, LockInvoke, Invoke,
         PollReturns, Fail, FailAfterRun, memo, server

THEOREM CreateIsSingleFlight == ASSUME InjectiveTag PROVE Spec => CreatedOnce
<1>1. IInv /\ [Next]_vars => [KeepsMemo]_vars
  BY MemoStep
<1>2. QED
  BY <1>1, Inductive, PTL DEF Spec, CreatedOnce

-------------------------------------------------------------------------------
(* Refinement: under the invariant the invokable entrypoints are exactly   *)
(* those with a set cell; Publish is Provide, running an input is Run, and *)
(* every other step is a stutter of the service.                           *)
LEMMA ServiceStep ==
  ASSUME InjectiveTag
  PROVE  IInv /\ IInv' /\ [Next]_vars => [Service!Next]_(Service!vars)
<1> SUFFICES ASSUME IInv, IInv', [Next]_vars
             PROVE  [Service!Next]_(Service!vars)
  OBVIOUS
<1> DEFINE Set == {e \in Entrypoints : function_ids[e] # NoId}
<1>1. Invokable = Set /\ Invokable' = Set'
  BY TagType DEF IInv, MemoisedInvokable, Invokable, Live, TypeOK
<1>2. ASSUME function_ids' = function_ids, ranAs' = ranAs
      PROVE  UNCHANGED Service!vars
  BY <1>1, <1>2 DEF Service!vars
<1>3. ASSUME NEW t \in Tasks, Publish(t) PROVE Service!Next
  <2>1. /\ ep[t] \in Entrypoints /\ function_ids[ep[t]] = NoId
        /\ published[Tag[ep[t]]] \in FnIds
    BY <1>3 DEF Publish, Goto, IInv, EpKnown, TaskInv, Initialising, Provisioning
  <2>2. Set' = Set \cup {ep[t]} /\ ep[t] \notin Set
    BY <1>3, <2>1, NoValues DEF Publish, IInv, TypeOK
  <2>3. Service!Provide(ep[t])
    BY <1>1, <1>3, <2>2 DEF Publish, Service!Provide
  <2>4. QED
    BY <2>1, <2>3 DEF Service!Next
<1>4. ASSUME NEW t \in Tasks, Invoke(t) \/ FailAfterRun(t) PROVE Service!Next
  <2>1. /\ ep[t] \in Entrypoints /\ fid[t] = function_ids[ep[t]]
        /\ function_ids[ep[t]] # NoId /\ ranAs[t] = NoEp
    BY <1>4 DEF Invoke, FailAfterRun, Goto, IInv, EpKnown, TaskInv, Returned
  <2>2. defn[fid[t]] = ep[t] /\ ep[t] \in Set /\ fid[t] \in Live
    BY <2>1, TagType DEF IInv, MemoisedInvokable, Live
  <2>3. function_ids' = function_ids /\ ranAs' = [ranAs EXCEPT ![t] = ep[t]]
    BY <1>4, <2>2 DEF Invoke, FailAfterRun
  <2>4. Service!Run(t, ep[t])
    BY <1>1, <2>1, <2>2, <2>3 DEF Service!Run
  <2>5. QED
    BY <2>1, <2>4 DEF Service!Next
<1>5. QED
  BY <1>2, <1>3, <1>4
     DEF Next, Step, vars, Call, Get, Resolved, StartInit, LockClient,
         LockPublished, EnsureResources, Precreate, Create, LockInvoke,
         PollReturns, Fail, FailApplied, memo

THEOREM ImplementsService == ASSUME InjectiveTag PROVE Spec => ServiceSpec
<1>1. Init => Service!Init
  BY NoValues DEF Init, Service!Init, Invokable
<1>2. QED
  BY <1>1, ServiceStep, Inductive, PTL DEF Spec, ServiceSpec, Service!Spec
===============================================================================
