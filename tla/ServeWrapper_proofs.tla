-------------------------- MODULE ServeWrapper_proofs --------------------------
(***************************************************************************)
(* For any number of calls, and any setups of containers: types are        *)
(* invariant; in a container of one thread whose user code leaves stdout   *)
(* alone, calls get their own envelopes, one serve child is up at a time,  *)
(* a request runs again only when the child that had it has died, and the  *)
(* whole implements ContainerService.                                      *)
(***************************************************************************)
EXTENDS ServeWrapper, FiniteSetTheorems, TLAPS

(* A caller that reads has a child to read from, and one that executes the *)
(* file has written it, or a later one has.                                *)
Bound == /\ \A c \in Callers : pc[c] = "read" => proc[c] # None
         /\ \A i \in Inputs : pc[i] = "exec" => infile # None

(* One caller is in the handler at a time, and none before the import has  *)
(* returned.                                                               *)
Single == /\ \A c, d \in Callers : pc[c] \in Active /\ pc[d] \in Active => c = d
          /\ \A i \in Inputs : pc[i] # "queued" => pc[Boot] = "returned"

(* The child that a caller is about to use, or uses, is the one of the     *)
(* global; it was spawned by a caller that came to its Popen.              *)
Bindings ==
  /\ \A c \in Callers : child[c] # "none" => pc[c] \notin {"queued", "check", "popen"}
  /\ \A c \in Callers : child[c] = "none" => stdin[c] = <<>> /\ stdout[c] = <<>>
  /\ SERVE # None => child[SERVE] # "none"
  /\ \A c \in Callers : pc[c] = "popen" => ~Usable(SERVE)
  /\ \A c \in Callers : pc[c] = "bind" => SERVE # None
  /\ \A c \in Callers : pc[c] \in {"write", "read"} => SERVE # None /\ proc[c] = SERVE

(* A child that is up is the one of the global, or refused the prime.      *)
UpIsServe == \A c \in Callers : Up(c) => SERVE = c \/ c \in Refused

(* A pipe holds one frame or one answer, of the caller that reads there.   *)
Pipes ==
  \A p \in Callers :
    /\ Up(p) /\ stdin[p] # <<>> =>
         /\ stdout[p] = <<>>
         /\ \E c \in Callers : pc[c] = "read" /\ proc[c] = p /\ stdin[p] = <<c>>
    /\ stdout[p] # <<>> =>
         /\ stdin[p] = <<>>
         /\ \E c \in Callers : /\ pc[c] = "read" /\ proc[c] = p
                               /\ \E line \in Answer(c) : stdout[p] = <<line>>

(* How often the request of a call has run, where the call is.             *)
Gone(i) == proc[i] \in Callers /\ child[proc[i]] = "dead"
Runs ==
  \A i \in Inputs :
    /\ pc[i] \in {"queued", "check", "popen", "bind", "write", "describe"} => ran[i] = 0
    /\ pc[i] = "read" => /\ ran[i] <= 1
                         /\ Up(proc[i]) /\ stdin[proc[i]] # <<>> => ran[i] = 0
    /\ pc[i] \in {"file", "exec"} => ran[i] <= 1 /\ (ran[i] = 1 => Gone(i))
    /\ ran[i] <= 2 /\ (ran[i] = 2 => Gone(i))

(* What a call gets is its own.                                            *)
Own == \A i \in Inputs : /\ pc[i] = "exec" => infile = i
                         /\ pc[i] = "returned" => result[i] = <<i, i>>

Core == Single /\ Bindings /\ UpIsServe /\ Pipes /\ Runs /\ Own
AloneInv == Alone => Core

-------------------------------------------------------------------------------
(* What a request writes is a line.                                        *)
LEMMA AnswerLines == \A c \in Callers : Answer(c) \subseteq Lines
BY DEF Answer, Lines

(* An execution of a request is counted.                                   *)
LEMMA RanCounts ==
  ASSUME ran \in [Callers -> Nat], NEW c \in Callers, Ran(c)
  PROVE  ran' \in [Callers -> Nat]
BY DEF Ran

(* A broken child ends the import or sends the call to a one-shot exec.    *)
LEMMA BrokenStep ==
  ASSUME NEW c \in Callers, Broken(c)
  PROVE  /\ \E to \in {"returned", "raised", "file"} : pc' = [pc EXCEPT ![c] = to]
         /\ SERVE' \in {None, SERVE}
<1>1. CASE c = Boot
  BY <1>1 DEF Broken, PrimeFails
<1>2. CASE c # Boot
  BY <1>2 DEF Broken, FallBack
<1>3. QED
  BY <1>1, <1>2

(* So does a line that is no ack, at the import.                           *)
LEMMA AcceptStep ==
  ASSUME NEW c \in Callers, NEW line, Accept(c, line)
  PROVE  /\ \E to \in {"returned", "raised", "file"} : pc' = [pc EXCEPT ![c] = to]
         /\ SERVE' \in {None, SERVE}
         /\ result' = [result EXCEPT ![c] = line]
<1>1. CASE c = Boot /\ line # <<Boot, Boot>>
  BY <1>1 DEF Accept, PrimeFails
<1>2. CASE ~(c = Boot /\ line # <<Boot, Boot>>)
  BY <1>2 DEF Accept
<1>3. QED
  BY <1>1, <1>2

(* A caller moves to where it neither reads nor executes.                  *)
LEMMA MovesOn ==
  ASSUME pc \in [Callers -> {"queued"} \cup Active \cup Ended], Bound, Boot \notin Inputs,
         NEW c \in Callers, NEW to \in {"returned", "raised", "file"},
         pc' = [pc EXCEPT ![c] = to], UNCHANGED <<proc, infile>>
  PROVE  pc' \in [Callers -> {"queued"} \cup Active \cup Ended] /\ Bound'
<1>1. to \in {"queued"} \cup Active \cup Ended
  BY DEF Active, Ended
<1>2. pc' \in [Callers -> {"queued"} \cup Active \cup Ended]
  BY <1>1
<1>3. \A d \in Callers : pc'[d] \in {"read", "exec"} => pc[d] = pc'[d]
  OBVIOUS
<1>4. Inputs \subseteq Callers
  BY DEF Callers
<1>5. QED
  BY <1>2, <1>3, <1>4 DEF Bound

(* Types, of every container.                                              *)
LEMMA TypeStep == TypeOK /\ Bound /\ [Next]_vars => (TypeOK /\ Bound)'
<1> SUFFICES ASSUME TypeOK, Bound, [Next]_vars PROVE (TypeOK /\ Bound)'
  OBVIOUS
<1>a. setup' = setup /\ setup.prints \subseteq {Blank, Noise}
  BY SetupsType DEF Next, vars, TypeOK
<1>b. /\ {Blank, Noise, Nack} \subseteq Lines
      /\ \A c, d \in Callers : <<c, d>> \in Lines
  BY DEF Lines
<1>c. Boot \in Callers /\ Inputs \subseteq Callers /\ Boot \notin Inputs /\ None \notin Callers
  BY InputsType, Marks DEF Callers
<1> DEFINE Places == {"queued"} \cup Active \cup Ended
<1>d. ASSUME NEW c \in Callers, NEW to \in {"returned", "raised", "file"},
             pc' = [pc EXCEPT ![c] = to], UNCHANGED <<proc, infile>>
      PROVE  pc' \in [Callers -> Places] /\ Bound'
  BY <1>c, <1>d, MovesOn DEF TypeOK
<1>e. ASSUME NEW c \in Callers, Broken(c), UNCHANGED <<proc, infile>>
      PROVE  pc' \in [Callers -> Places] /\ Bound' /\ SERVE' \in Callers \cup {None}
  <2>1. PICK to \in {"returned", "raised", "file"} : pc' = [pc EXCEPT ![c] = to]
    BY <1>e, BrokenStep
  <2>2. SERVE' \in {None, SERVE}
    BY <1>e, BrokenStep
  <2>3. SERVE' \in Callers \cup {None}
    BY <2>2 DEF TypeOK
  <2> HIDE DEF Places
  <2>4. QED
    BY <1>d, <1>e, <2>1, <2>3
<1>f. ASSUME NEW c \in Callers, Broken(c),
             UNCHANGED <<proc, child, stdin, stdout, infile, ran, result>>
      PROVE  (TypeOK /\ Bound)'
  BY <1>a, <1>e, <1>f DEF TypeOK
<1>10. ASSUME NEW c \in Callers, WriteFails(c) PROVE (TypeOK /\ Bound)'
  BY <1>f, <1>10 DEF WriteFails, children, pipes
<1>12. ASSUME NEW c \in Callers, ReadEof(c) PROVE (TypeOK /\ Bound)'
  BY <1>f, <1>12 DEF ReadEof, children, pipes
<1>11. ASSUME NEW c \in Callers, Read(c) PROVE (TypeOK /\ Bound)'
  <2>1. PICK p : p = proc[c] /\ pc[c] = "read" /\ stdout[p] # <<>>
    BY <1>11 DEF Read
  <2>2. p \in Callers /\ stdout \in [Callers -> Seq(Lines)]
    BY <2>1 DEF Bound, TypeOK
  <2>3. PICK line : line = Head(stdout[p])
    OBVIOUS
  <2>4. line \in Lines /\ Tail(stdout[p]) \in Seq(Lines)
    BY <2>1, <2>2, <2>3
  <2>5. /\ stdout' = [stdout EXCEPT ![p] = Tail(@)]
        /\ Accept(c, line) \/ (Broken(c) /\ UNCHANGED result)
        /\ UNCHANGED <<proc, child, stdin, infile, ran>>
    BY <1>11, <2>1, <2>3 DEF Read
  <2>6. stdout' \in [Callers -> Seq(Lines)]
    BY <2>2, <2>4, <2>5
  <2>7. /\ pc' \in [Callers -> Places] /\ Bound' /\ SERVE' \in Callers \cup {None}
        /\ result' \in [Callers -> Lines \cup {None}]
    <3>1. CASE Accept(c, line)
      <4>1. PICK to \in {"returned", "raised", "file"} : pc' = [pc EXCEPT ![c] = to]
        BY <3>1, AcceptStep
      <4>2. SERVE' \in {None, SERVE} /\ result' = [result EXCEPT ![c] = line]
        BY <3>1, AcceptStep
      <4>3. pc' \in [Callers -> Places] /\ Bound'
        BY <1>d, <2>5, <4>1
      <4>4. SERVE' \in Callers \cup {None}
        BY <4>2 DEF TypeOK
      <4>5. result' \in [Callers -> Lines \cup {None}]
        BY <2>4, <4>2 DEF TypeOK
      <4>6. QED
        BY <4>3, <4>4, <4>5
    <3>2. CASE Broken(c) /\ UNCHANGED result
      <4>1. result' \in [Callers -> Lines \cup {None}]
        BY <3>2 DEF TypeOK
      <4>2. QED
        BY <1>e, <2>5, <3>2, <4>1
    <3>3. QED
      BY <2>5, <3>1, <3>2
  <2> HIDE DEF Places
  <2>8. /\ proc' \in [Callers -> Callers \cup {None}]
        /\ child' \in [Callers -> {"none", "up", "dead"}]
        /\ stdin' \in [Callers -> Seq(Callers)]
        /\ infile' \in Inputs \cup {None}
        /\ ran' \in [Callers -> Nat]
        /\ setup' \in Setups
    BY <1>a, <2>5 DEF TypeOK
  <2>9. TypeOK'
    BY <2>6, <2>7, <2>8 DEF TypeOK, Places
  <2>10. QED
    BY <2>7, <2>9
<1>13. ASSUME NEW c \in Callers, Serve(c) PROVE (TypeOK /\ Bound)'
  <2>1. PICK frame : frame = Head(stdin[c])
    OBVIOUS
  <2>2. stdin \in [Callers -> Seq(Callers)] /\ stdin[c] # <<>>
    BY <1>13 DEF Serve, TypeOK
  <2>3. frame \in Callers /\ Tail(stdin[c]) \in Seq(Callers)
    BY <2>1, <2>2
  <2>4. PICK line \in Answer(frame), printed \in {<<>>} \cup {<<l>> : l \in setup.prints} :
          stdout' = [stdout EXCEPT ![c] = @ \o printed \o <<line>>]
    BY <1>13, <2>1 DEF Serve
  <2>5. line \in Lines
    BY <2>3, <2>4, AnswerLines
  <2>6. printed \in Seq(Lines)
    <3>1. CASE printed = <<>>
      BY <3>1
    <3>2. ASSUME NEW l \in setup.prints, printed = <<l>> PROVE printed \in Seq(Lines)
      <4>1. l \in Lines
        BY <1>a, <1>b
      <4>2. QED
        BY <3>2, <4>1
    <3>3. QED
      BY <2>4, <3>1, <3>2
  <2>7. stdout \in [Callers -> Seq(Lines)]
    BY DEF TypeOK
  <2>8. stdout[c] \o printed \o <<line>> \in Seq(Lines)
    <3> HIDE DEF Lines
    <3>1. QED
      BY <2>5, <2>6, <2>7
  <2>9. stdout' \in [Callers -> Seq(Lines)]
    BY <2>4, <2>7, <2>8
  <2>10. stdin' \in [Callers -> Seq(Callers)]
    BY <1>13, <2>2, <2>3 DEF Serve
  <2>11. ran' \in [Callers -> Nat]
    <3>1. ran \in [Callers -> Nat] /\ Ran(frame)
      BY <1>13, <2>1 DEF Serve, TypeOK
    <3>2. QED
      BY <2>3, <3>1, RanCounts
  <2>12. UNCHANGED <<pc, proc, SERVE, child, infile, result>>
    BY <1>13 DEF Serve
  <2>13. Bound'
    BY <2>12 DEF Bound
  <2>14. TypeOK'
    BY <1>a, <2>9, <2>10, <2>11, <2>12 DEF TypeOK
  <2>15. QED
    BY <2>13, <2>14
<1>14. ASSUME NEW c \in Callers, Dies(c) PROVE (TypeOK /\ Bound)'
  <2>0. ran \in [Callers -> Nat] /\ stdin[c] \in Seq(Callers)
    BY DEF TypeOK
  <2>1. ran' \in [Callers -> Nat]
    <3>1. CASE UNCHANGED ran
      BY <2>0, <3>1
    <3>2. ASSUME stdin[c] # <<>>, Ran(Head(stdin[c])) PROVE ran' \in [Callers -> Nat]
      <4>1. PICK d \in Callers : d = Head(stdin[c])
        BY <2>0, <3>2
      <4>2. Ran(d)
        BY <3>2, <4>1
      <4>3. QED
        BY <2>0, <4>2, RanCounts
    <3>3. QED
      BY <3>1, <3>2, <1>14 DEF Dies
  <2>2. child' \in [Callers -> {"none", "up", "dead"}]
    BY <1>14 DEF Dies, TypeOK
  <2>3. UNCHANGED <<pc, proc, SERVE, stdin, stdout, infile, result>>
    BY <1>14 DEF Dies, pipes
  <2>4. Bound'
    BY <2>3 DEF Bound
  <2>5. TypeOK'
    BY <1>a, <2>1, <2>2, <2>3 DEF TypeOK
  <2>6. QED
    BY <2>4, <2>5
<1> USE <1>a, <1>b, <1>c
    DEF TypeOK, Bound, Goto, children, pipes, Active, Ended, Usable, Up
<1>1. ASSUME NEW i \in Inputs, Start(i) PROVE (TypeOK /\ Bound)'
  BY <1>1 DEF Start
<1>2. ASSUME NEW i \in Inputs, WriteFile(i) PROVE (TypeOK /\ Bound)'
  BY <1>2 DEF WriteFile
<1>3. ASSUME NEW i \in Inputs, OneShot(i) PROVE (TypeOK /\ Bound)'
  BY <1>3 DEF OneShot, Ran
<1>4. ASSUME NEW i \in Inputs, OneShotDies(i) PROVE (TypeOK /\ Bound)'
  BY <1>4 DEF OneShotDies, Ran
<1>5. ASSUME NEW i \in Inputs, Describe(i) PROVE (TypeOK /\ Bound)'
  <2>1. <<i, i>> \in Lines
    OBVIOUS
  <2>2. CASE Goto(i, "describe", "returned") /\ result' = [result EXCEPT ![i] = <<i, i>>]
    <3>1. result' \in [Callers -> Lines \cup {None}]
      BY <2>1, <2>2
    <3>2. pc' \in [Callers -> {"queued"} \cup Active \cup Ended]
      BY <2>2
    <3>3. Bound'
      BY <2>2, <1>5 DEF Describe
    <3> QED
    BY <3>1, <3>2, <3>3, <1>5 DEF Describe
  <2>3. CASE Goto(i, "describe", "raised") /\ UNCHANGED result
    BY <2>3, <1>5 DEF Describe
  <2>4. QED
    BY <2>2, <2>3, <1>5 DEF Describe
<1>6. ASSUME NEW c \in Callers, Check(c) PROVE (TypeOK /\ Bound)'
  BY <1>6 DEF Check
<1>7. ASSUME NEW c \in Callers, Popen(c) PROVE (TypeOK /\ Bound)'
  BY <1>7 DEF Popen
<1>8. ASSUME NEW c \in Callers, Bind(c) PROVE (TypeOK /\ Bound)'
  BY <1>8 DEF Bind
<1>9. ASSUME NEW c \in Callers, Write(c) PROVE (TypeOK /\ Bound)'
  BY <1>9 DEF Write
<1>15. CASE UNCHANGED vars
  BY <1>15 DEF vars
<1>16. QED
  BY <1>1, <1>2, <1>3, <1>4, <1>5, <1>6, <1>7, <1>8, <1>9, <1>10, <1>11, <1>12, <1>13, <1>14, <1>15 DEF Next, Handle, Exec

(* Every variable keeps its type.                                          *)
THEOREM TypeCorrect == Spec => []TypeOK
<1>1. Init => TypeOK /\ Bound
  BY InputsType, SetupsType DEF Init, TypeOK, Bound, Callers, Active, Ended, Lines
<1>2. QED
  BY <1>1, TypeStep, PTL DEF Spec

-------------------------------------------------------------------------------
(* One thread and no user prints, from here on.  A frame in the pipe of a  *)
(* child that is up belongs to the caller that reads from that child.      *)
LEMMA FrameOfReader ==
  ASSUME TypeOK, Pipes, NEW p \in Callers, Up(p), stdin[p] # <<>>
  PROVE  /\ Head(stdin[p]) \in Callers
         /\ pc[Head(stdin[p])] = "read" /\ proc[Head(stdin[p])] = p
         /\ stdin[p] = <<Head(stdin[p])>> /\ Tail(stdin[p]) = <<>>
         /\ stdout[p] = <<>>
<1>1. PICK c \in Callers : pc[c] = "read" /\ proc[c] = p /\ stdin[p] = <<c>>
  BY DEF Pipes
<1>2. Head(stdin[p]) = c /\ Tail(stdin[p]) = <<>>
  BY <1>1
<1>3. QED
  BY <1>1, <1>2 DEF Pipes

(* The line that a caller finds in its child's pipe is an answer to it.    *)
LEMMA LineOfReader ==
  ASSUME TypeOK, Bound, Single, Pipes, NEW c \in Callers, Read(c)
  PROVE  /\ proc[c] \in Callers
         /\ Head(stdout[proc[c]]) \in Answer(c)
         /\ Head(stdout[proc[c]]) # Blank
         /\ Tail(stdout[proc[c]]) = <<>>
         /\ stdin[proc[c]] = <<>>
<1>1. pc[c] = "read" /\ proc[c] \in Callers /\ stdout[proc[c]] # <<>>
  BY DEF Read, Bound, TypeOK
<1>2. PICK d \in Callers : /\ pc[d] = "read" /\ proc[d] = proc[c]
                           /\ \E line \in Answer(d) : stdout[proc[c]] = <<line>>
  BY <1>1 DEF Pipes
<1>3. d = c
  BY <1>1, <1>2 DEF Single, Active
<1>4. PICK line \in Answer(c) : stdout[proc[c]] = <<line>>
  BY <1>2, <1>3
<1>5. Head(stdout[proc[c]]) = line /\ Tail(stdout[proc[c]]) = <<>>
  BY <1>4
<1>6. line # Blank
  BY Marks DEF Answer, Callers
<1>7. QED
  BY <1>1, <1>4, <1>5, <1>6 DEF Pipes

(* While the module is being imported, the only child is its own.          *)
LEMMA BootUsesItsOwn ==
  ASSUME TypeOK, Bound, Single, Bindings, pc[Boot] \in {"write", "read"}
  PROVE  SERVE = Boot /\ proc[Boot] = Boot
<1>1. SERVE \in Callers /\ child[SERVE] # "none" /\ proc[Boot] = SERVE
  BY DEF Bindings, TypeOK, Callers
<1>2. pc[SERVE] # "queued"
  BY <1>1 DEF Bindings
<1>3. SERVE \notin Inputs
  BY <1>2 DEF Single
<1>4. QED
  BY <1>1, <1>3 DEF Callers

(* A call starts when nobody is in the handler.                            *)
LEMMA StartsAlone ==
  ASSUME TypeOK, Alone, NEW i \in Inputs, Start(i)
  PROVE  \A c \in Callers : pc[c] \notin Active
<1> DEFINE S == {j \in Inputs : pc[j] \in Active}
<1>1. IsFiniteSet(S)
  BY InputsType, FS_Subset
<1>2. Cardinality(S) \in Nat /\ Cardinality(S) < 1
  BY <1>1, FS_CardinalityType DEF Start, Alone
<1>3. S = {}
  BY <1>1, <1>2, FS_EmptySet
<1>4. QED
  BY <1>3 DEF Start, Callers, Active

(* Only the caller that is in the handler moves.                           *)
LEMMA SingleStep == TypeOK /\ Alone /\ Single /\ Next => Single'
<1> SUFFICES ASSUME TypeOK, Alone, Single, Next PROVE Single'
  OBVIOUS
<1>a. Boot \in Callers /\ Inputs \subseteq Callers /\ Boot \notin Inputs
  BY InputsType DEF Callers
<1> USE <1>a DEF TypeOK, Single, Goto, Active
<1>1. ASSUME NEW c \in Callers, pc[c] \in Active,
             NEW to \in Active \cup Ended, pc' = [pc EXCEPT ![c] = to]
      PROVE  Single'
  <2>1. pc'[c] = to /\ \A d \in Callers : d # c => pc'[d] = pc[d]
    BY <1>1
  <2>2. to # "queued" /\ "queued" \notin Active /\ "returned" \notin Active
    BY <1>1 DEF Ended
  <2>3. \A d \in Callers : pc'[d] \in Active => pc[d] \in Active
    BY <1>1, <2>1
  <2>5. \A d, e \in Callers : pc[d] \in Active /\ pc[e] \in Active => d = e
    OBVIOUS
  <2>6. \A i \in Inputs : pc[i] # "queued" => pc[Boot] = "returned"
    OBVIOUS
  <2> HIDE DEF Active, TypeOK
  <2>7. \A d, e \in Callers : pc'[d] \in Active /\ pc'[e] \in Active => d = e
    BY <2>3, <2>5
  <2>8. ASSUME NEW i \in Inputs, pc'[i] # "queued" PROVE pc'[Boot] = "returned"
    <3>1. CASE c = Boot
      BY <1>1, <2>1, <2>2, <2>6, <2>8, <3>1
    <3>2. CASE c # Boot
      BY <1>1, <2>1, <2>2, <2>6, <2>8, <3>2
    <3>3. QED
      BY <3>1, <3>2
  <2>9. QED
    BY <2>7, <2>8
<1>2. ASSUME NEW i \in Inputs, Start(i) PROVE Single'
  BY <1>2, StartsAlone DEF Start
<1>3. ASSUME NEW i \in Inputs, WriteFile(i) \/ OneShot(i) \/ OneShotDies(i) \/ Describe(i)
      PROVE  Single'
  BY <1>1, <1>3 DEF WriteFile, OneShot, OneShotDies, Describe, Ended
<1>4. ASSUME NEW c \in Callers, Check(c) \/ Popen(c) \/ Bind(c) \/ Write(c)
      PROVE  Single'
  BY <1>1, <1>4 DEF Check, Popen, Bind, Write
<1>5. ASSUME NEW c \in Callers, WriteFails(c) \/ Read(c) \/ ReadEof(c)
      PROVE  Single'
  <2>1. /\ pc[c] \in Active
        /\ \E to \in Active \cup Ended : pc' = [pc EXCEPT ![c] = to]
    BY <1>5 DEF WriteFails, Read, ReadEof, Accept, Broken, PrimeFails, FallBack, Ended
  <2>2. QED
    BY <1>1, <2>1
<1>6. ASSUME NEW c \in Callers, Serve(c) \/ Dies(c) PROVE Single'
  BY <1>6 DEF Serve, Dies
<1>7. QED
  BY <1>2, <1>3, <1>4, <1>5, <1>6 DEF Next, Handle, Exec

(* A caller spawns once, and is bound to the child of the global.          *)
LEMMA BindingsStep == TypeOK /\ Bound /\ Alone /\ Core /\ Next => Bindings'
<1> SUFFICES ASSUME TypeOK, Bound, Alone, Core, Next PROVE Bindings'
  OBVIOUS
<1>a. Boot \in Callers /\ Inputs \subseteq Callers /\ Boot \notin Inputs /\ None \notin Callers
  BY InputsType, Marks DEF Callers
<1> USE <1>a DEF TypeOK, Core, Single, Bindings, Goto, Active, Usable, Up, children, pipes
<1>1. ASSUME NEW i \in Inputs, Start(i) PROVE Bindings'
  BY <1>1 DEF Start
<1>2. ASSUME NEW i \in Inputs, WriteFile(i) \/ OneShot(i) \/ OneShotDies(i) \/ Describe(i)
      PROVE  Bindings'
  <2>1. /\ pc[i] \in {"file", "exec", "describe"}
        /\ \E to \in {"exec", "returned", "raised"} : pc' = [pc EXCEPT ![i] = to]
        /\ UNCHANGED <<proc, SERVE, child, stdin, stdout>>
    BY <1>2 DEF WriteFile, OneShot, OneShotDies, Describe
  <2>2. /\ pc'[i] \in {"exec", "returned", "raised"}
        /\ \A d \in Callers : d # i => pc'[d] = pc[d]
    BY <2>1
  <2>3. QED
    BY <2>1, <2>2
<1>3. ASSUME NEW c \in Callers, Check(c) PROVE Bindings'
  BY <1>3 DEF Check
<1>4. ASSUME NEW c \in Callers, Popen(c) PROVE Bindings'
  BY <1>4 DEF Popen
<1>5. ASSUME NEW c \in Callers, Bind(c) PROVE Bindings'
  BY <1>5 DEF Bind
<1>6. ASSUME NEW c \in Callers, Write(c) PROVE Bindings'
  BY <1>6 DEF Write
<1>b. ASSUME NEW c \in Callers, pc[c] \in {"write", "read"},
             NEW to \in {"file", "returned", "raised"}, pc' = [pc EXCEPT ![c] = to],
             SERVE' \in {SERVE, None}, UNCHANGED <<proc, child, stdin>>,
             \A d \in Callers : child[d] = "none" => stdout'[d] = <<>>
      PROVE  Bindings'
  <2>1. \A d \in Callers \ {c} : pc[d] \notin Active /\ pc'[d] = pc[d]
    BY <1>b
  <2>2. pc'[c] = to /\ to \notin {"queued", "check", "popen", "bind", "write", "read"}
    BY <1>b
  <2>3. \A d \in Callers : pc'[d] \notin {"popen", "bind", "write", "read"}
    BY <2>1, <2>2
  <2>4. QED
    BY <1>b, <2>1, <2>2, <2>3
<1>7. ASSUME NEW c \in Callers, WriteFails(c) \/ ReadEof(c) PROVE Bindings'
  <2>1. pc[c] \in {"write", "read"} /\ Broken(c) /\ UNCHANGED <<proc, children>>
    BY <1>7 DEF WriteFails, ReadEof
  <2>2. \E to \in {"file", "returned", "raised"} : pc' = [pc EXCEPT ![c] = to]
    BY <2>1 DEF Broken, PrimeFails, FallBack
  <2>3. SERVE' \in {SERVE, None}
    BY <2>1 DEF Broken, PrimeFails, FallBack
  <2>4. QED
    BY <1>b, <2>1, <2>2, <2>3
<1>8. ASSUME NEW c \in Callers, Read(c) PROVE Bindings'
  <2>1. /\ pc[c] = "read" /\ proc[c] \in Callers /\ stdout[proc[c]] # <<>>
        /\ stdout' = [stdout EXCEPT ![proc[c]] = Tail(@)]
        /\ UNCHANGED <<proc, child, stdin>>
    BY <1>8 DEF Read, Bound
  <2>2. \E to \in {"file", "returned", "raised"} : pc' = [pc EXCEPT ![c] = to]
    BY <1>8 DEF Read, Accept, Broken, PrimeFails, FallBack
  <2>3. SERVE' \in {SERVE, None}
    BY <1>8 DEF Read, Accept, Broken, PrimeFails, FallBack
  <2>4. \A d \in Callers : child[d] = "none" => stdout'[d] = <<>>
    BY <2>1
  <2>5. QED
    BY <1>b, <2>1, <2>2, <2>3, <2>4
<1>9. ASSUME NEW c \in Callers, Serve(c) PROVE Bindings'
  BY <1>9 DEF Serve
<1>10. ASSUME NEW c \in Callers, Dies(c) PROVE Bindings'
  BY <1>10 DEF Dies
<1>11. QED
  BY <1>1, <1>2, <1>3, <1>4, <1>5, <1>6, <1>7, <1>8, <1>9, <1>10 DEF Next, Handle, Exec

(* A child is replaced in the global only when it is down, or refused.     *)
LEMMA UpIsServeStep == TypeOK /\ Bound /\ Alone /\ Core /\ Next => UpIsServe'
<1> SUFFICES ASSUME TypeOK, Bound, Alone, Core, Next PROVE UpIsServe'
  OBVIOUS
<1>a. Boot \in Callers /\ Inputs \subseteq Callers /\ Boot \notin Inputs /\ None \notin Callers
  BY InputsType, Marks DEF Callers
<1> USE <1>a DEF TypeOK, Core, UpIsServe, Goto, Usable, Up, children, pipes, Refused
<1>1. ASSUME NEW i \in Inputs, Start(i) \/ WriteFile(i) PROVE UpIsServe'
  BY <1>1 DEF Start, WriteFile
<1>2. ASSUME NEW i \in Inputs, OneShot(i) \/ OneShotDies(i) \/ Describe(i)
      PROVE  UpIsServe'
  <2>1. UNCHANGED <<SERVE, child>> /\ result'[Boot] = result[Boot]
    BY <1>2 DEF OneShot, OneShotDies, Describe
  <2>2. QED
    BY <2>1
<1>3. ASSUME NEW c \in Callers, Check(c) \/ Bind(c) \/ Write(c) \/ Serve(c)
      PROVE  UpIsServe'
  BY <1>3 DEF Check, Bind, Write, Serve
<1>4. ASSUME NEW c \in Callers, Popen(c) PROVE UpIsServe'
  BY <1>4 DEF Popen, Bindings
<1>5. ASSUME NEW c \in Callers, WriteFails(c) \/ ReadEof(c) PROVE UpIsServe'
  <2>1. ~Usable(SERVE)
    BY <1>5 DEF WriteFails, ReadEof, Bindings
  <2>2. UNCHANGED <<child, result>>
    BY <1>5 DEF WriteFails, ReadEof
  <2>3. QED
    BY <2>1, <2>2
<1>6. ASSUME NEW c \in Callers, Read(c) PROVE UpIsServe'
  <2> DEFINE line == Head(stdout[proc[c]])
  <2>1. UNCHANGED child /\ pc[c] = "read"
    BY <1>6 DEF Read
  <2>2. line \in Answer(c) /\ Accept(c, line)
    BY <1>6, LineOfReader DEF Read
  <2>3. CASE c # Boot
    BY <2>1, <2>2, <2>3 DEF Accept
  <2>4. CASE c = Boot
    <3>1. SERVE = Boot
      BY <2>1, <2>4, BootUsesItsOwn
    <3>2. CASE line = <<Boot, Boot>>
      BY <2>1, <2>2, <2>4, <3>1, <3>2 DEF Accept
    <3>3. CASE line = Nack
      <4>1. result'[Boot] = Nack
        BY <2>2, <2>4, <3>3 DEF Accept
      <4>2. QED
        BY <2>1, <3>1, <4>1
    <3>4. QED
      BY <2>2, <2>4, <3>2, <3>3 DEF Answer
  <2>5. QED
    BY <2>3, <2>4
<1>7. ASSUME NEW c \in Callers, Dies(c) PROVE UpIsServe'
  BY <1>7 DEF Dies
<1>8. QED
  BY <1>1, <1>2, <1>3, <1>4, <1>5, <1>6, <1>7 DEF Next, Handle, Exec

(* The pipes are empty but between a write and the read of its answer.     *)
LEMMA PipesStep == TypeOK /\ Bound /\ Alone /\ Core /\ Next => Pipes'
<1> SUFFICES ASSUME TypeOK, Bound, Alone, Core, Next PROVE Pipes'
  OBVIOUS
<1>a. Boot \in Callers /\ Inputs \subseteq Callers /\ Boot \notin Inputs /\ None \notin Callers
  BY InputsType, Marks DEF Callers
<1> DEFINE Drained == \A p \in Callers : (Up(p) => stdin[p] = <<>>) /\ stdout[p] = <<>>
<1> USE <1>a DEF TypeOK, Core, Goto, Up, children, pipes
<1>b. ASSUME \A d \in Callers : pc[d] # "read" PROVE Drained
  BY <1>b DEF Pipes
<1>c. ASSUME Drained' PROVE Pipes'
  BY <1>c DEF Pipes
<1>d. ASSUME NEW c \in Callers, pc[c] \in Active \ {"read"} PROVE Drained
  BY <1>b, <1>d DEF Single, Active
<1>1. ASSUME NEW i \in Inputs, Start(i) PROVE Pipes'
  <2>1. Drained
    BY <1>b, <1>1, StartsAlone DEF Active
  <2>2. QED
    BY <1>c, <1>1, <2>1 DEF Start
<1>2. ASSUME NEW i \in Inputs, WriteFile(i) \/ OneShot(i) \/ OneShotDies(i) \/ Describe(i)
      PROVE  Pipes'
  <2>1. Drained
    BY <1>d, <1>2 DEF WriteFile, OneShot, OneShotDies, Describe, Active
  <2>2. QED
    BY <1>c, <1>2, <2>1 DEF WriteFile, OneShot, OneShotDies, Describe
<1>3. ASSUME NEW c \in Callers, Check(c) \/ Bind(c) \/ WriteFails(c) PROVE Pipes'
  <2>1. Drained
    BY <1>d, <1>3 DEF Check, Bind, WriteFails, Active
  <2>2. QED
    BY <1>c, <1>3, <2>1 DEF Check, Bind, WriteFails
<1>4. ASSUME NEW c \in Callers, Popen(c) PROVE Pipes'
  <2>1. Drained /\ stdin[c] = <<>>
    BY <1>d, <1>4 DEF Popen, Active, Bindings
  <2>2. QED
    BY <1>c, <1>4, <2>1 DEF Popen
<1>5. ASSUME NEW c \in Callers, Write(c) PROVE Pipes'
  <2>1. /\ Drained
        /\ proc[c] \in Callers /\ Up(proc[c])
    BY <1>d, <1>5 DEF Write, Active, Usable
  <2>2. /\ stdin' = [stdin EXCEPT ![proc[c]] = <<c>>]
        /\ pc'[c] = "read" /\ UNCHANGED <<proc, child, stdout>>
    <3>1. stdin[proc[c]] = <<>>
      BY <2>1
    <3>2. Append(<<>>, c) = <<c>>
      OBVIOUS
    <3>3. QED
      BY <1>5, <2>1, <3>1, <3>2 DEF Write
  <2>3. QED
    BY <2>1, <2>2 DEF Pipes
<1>6. ASSUME NEW c \in Callers, Read(c) PROVE Pipes'
  <2>1. /\ proc[c] \in Callers /\ stdin[proc[c]] = <<>>
        /\ stdout' = [stdout EXCEPT ![proc[c]] = <<>>]
        /\ UNCHANGED <<child, stdin>>
    BY <1>6, LineOfReader DEF Read
  <2>2. \A p \in Callers \ {proc[c]} : (Up(p) => stdin[p] = <<>>) /\ stdout[p] = <<>>
    <3>1. \A d \in Callers : pc[d] = "read" => d = c
      BY <1>6 DEF Single, Active, Read
    <3>2. ASSUME NEW p \in Callers \ {proc[c]}, stdout[p] # <<>> PROVE FALSE
      BY <3>1, <3>2 DEF Pipes
    <3>3. ASSUME NEW p \in Callers \ {proc[c]}, Up(p), stdin[p] # <<>> PROVE FALSE
      BY <3>1, <3>3 DEF Pipes
    <3>4. QED
      BY <3>2, <3>3
  <2>3. Drained'
    BY <2>1, <2>2
  <2>4. QED
    BY <1>c, <2>3
<1>7. ASSUME NEW c \in Callers, ReadEof(c) PROVE Pipes'
  <2>1. \A p \in Callers : pc[c] = "read" /\ (p = proc[c] => ~Up(p) /\ stdout[p] = <<>>)
    BY <1>7 DEF ReadEof
  <2>2. Drained
    BY <2>1 DEF Pipes, Single, Active
  <2>3. QED
    BY <1>c, <1>7, <2>2 DEF ReadEof
<1>8. ASSUME NEW c \in Callers, Serve(c) PROVE Pipes'
  <2> DEFINE frame == Head(stdin[c])
  <2>1. /\ frame \in Callers /\ pc[frame] = "read" /\ proc[frame] = c
        /\ Tail(stdin[c]) = <<>> /\ stdout[c] = <<>>
    BY <1>8, FrameOfReader DEF Serve
  <2>2. PICK line \in Answer(frame) : stdout' = [stdout EXCEPT ![c] = <<line>>]
    <3>1. PICK line \in Answer(frame), printed \in {<<>>} \cup {<<l>> : l \in setup.prints} :
            stdout' = [stdout EXCEPT ![c] = @ \o printed \o <<line>>]
      BY <1>8 DEF Serve
    <3>2. printed = <<>>
      BY DEF Alone
    <3>3. stdout[c] \o printed \o <<line>> = <<line>>
      BY <2>1, <3>2
    <3>4. QED
      BY <3>1, <3>3
  <2>3. stdin' = [stdin EXCEPT ![c] = <<>>] /\ UNCHANGED <<pc, proc, child>>
    BY <1>8, <2>1 DEF Serve
  <2>4. \A p \in Callers \ {c} : (Up(p) => stdin[p] = <<>>) /\ stdout[p] = <<>>
    <3>1. \A d \in Callers : pc[d] = "read" => proc[d] = c
      BY <2>1 DEF Single, Active
    <3>2. ASSUME NEW p \in Callers \ {c}, stdout[p] # <<>> PROVE FALSE
      <4>1. PICK d \in Callers : pc[d] = "read" /\ proc[d] = p
        BY <3>2 DEF Pipes
      <4>2. QED
        BY <3>1, <4>1
    <3>3. ASSUME NEW p \in Callers \ {c}, Up(p), stdin[p] # <<>> PROVE FALSE
      <4>1. PICK d \in Callers : pc[d] = "read" /\ proc[d] = p
        BY <3>3 DEF Pipes
      <4>2. QED
        BY <3>1, <4>1
    <3>4. QED
      BY <3>2, <3>3
  <2> SUFFICES ASSUME NEW p \in Callers PROVE Pipes!(p)'
    BY DEF Pipes
  <2>5. CASE p # c
    <3>1. stdin'[p] = stdin[p] /\ stdout'[p] = <<>> /\ (Up(p)' => Up(p))
      BY <2>2, <2>3, <2>4, <2>5
    <3>2. QED
      BY <2>4, <2>5, <3>1
  <2>6. CASE p = c
    <3>1. stdin'[p] = <<>> /\ stdout'[p] = <<line>> /\ pc' = pc /\ proc' = proc
      BY <2>2, <2>3, <2>6
    <3>2. PICK d \in Callers : d = frame
      BY <2>1
    <3>3. line \in Answer(d) /\ pc'[d] = "read" /\ proc'[d] = p
      BY <2>1, <2>6, <3>1, <3>2
    <3>4. QED
      BY <3>1, <3>3
  <2>7. QED
    BY <2>5, <2>6
<1>9. ASSUME NEW c \in Callers, Dies(c) PROVE Pipes'
  <2>1. /\ UNCHANGED <<pc, proc, stdin, stdout>>
        /\ \A p \in Callers : Up(p)' => Up(p)
    BY <1>9 DEF Dies
  <2>2. QED
    BY <2>1 DEF Pipes
<1>10. QED
  BY <1>1, <1>2, <1>3, <1>4, <1>5, <1>6, <1>7, <1>8, <1>9 DEF Next, Handle, Exec

(* A request is executed by the child it was written to, and again only    *)
(* after that child has died.                                              *)
LEMMA RunsStep == TypeOK /\ Bound /\ Alone /\ Core /\ Next => Runs'
<1> SUFFICES ASSUME TypeOK, Bound, Alone, Core, Next PROVE Runs'
  OBVIOUS
<1>a. Boot \in Callers /\ Inputs \subseteq Callers /\ Boot \notin Inputs /\ None \notin Callers
  BY InputsType, Marks DEF Callers
<1> USE <1>a DEF TypeOK, Core, Runs, Gone, Goto, Up, children, pipes
<1>1. ASSUME NEW i \in Inputs, Start(i) PROVE Runs'
  BY <1>1 DEF Start
<1>2. ASSUME NEW i \in Inputs, WriteFile(i) \/ Describe(i) PROVE Runs'
  <2>1. UNCHANGED <<proc, child, stdin, ran>>
    BY <1>2 DEF WriteFile, Describe
  <2>2. \/ pc[i] = "file" /\ pc' = [pc EXCEPT ![i] = "exec"]
        \/ pc[i] = "describe" /\ \E to \in Ended : pc' = [pc EXCEPT ![i] = to]
    BY <1>2 DEF WriteFile, Describe, Ended
  <2>3. QED
    BY <2>1, <2>2 DEF Ended
<1>3. ASSUME NEW i \in Inputs, OneShot(i) \/ OneShotDies(i) PROVE Runs'
  <2>1. pc[i] = "exec" /\ UNCHANGED <<proc, child, stdin>>
    BY <1>3 DEF OneShot, OneShotDies
  <2>2. \E to \in Ended : pc' = [pc EXCEPT ![i] = to]
    BY <1>3 DEF OneShot, OneShotDies, Ended
  <2>3. UNCHANGED ran \/ ran' = [ran EXCEPT ![i] = @ + 1]
    BY <1>3 DEF OneShot, OneShotDies, Ran
  <2>4. \A j \in Inputs \ {i} : pc'[j] = pc[j] /\ ran'[j] = ran[j]
    BY <2>2, <2>3
  <2>5. pc'[i] \in Ended /\ ran'[i] \in {ran[i], ran[i] + 1}
    BY <2>2, <2>3
  <2>6. ran[i] \in Nat /\ ran[i] <= 1 /\ (ran[i] = 1 => Gone(i))
    BY <2>1
  <2>7. ran'[i] <= 2 /\ (ran'[i] = 2 => Gone(i))
    BY <2>5, <2>6
  <2>8. Runs!(i)'
    BY <2>1, <2>5, <2>7 DEF Ended
  <2>9. ASSUME NEW j \in Inputs \ {i} PROVE Runs!(j)'
    <3>1. Runs!(j)
      OBVIOUS
    <3>2. QED
      BY <2>1, <2>4, <3>1
  <2>10. QED
    BY <2>8, <2>9
<1>4. ASSUME NEW c \in Callers, Check(c) PROVE Runs'
  BY <1>4 DEF Check
<1>5. ASSUME NEW c \in Callers, Popen(c) PROVE Runs'
  <2>1. child[c] = "none" /\ pc[c] = "popen"
    BY <1>5 DEF Popen, Bindings
  <2>2. \A i \in Inputs : pc[i] # "read"
    BY <2>1 DEF Single, Active
  <2>3. QED
    BY <1>5, <2>1, <2>2 DEF Popen
<1>6. ASSUME NEW c \in Callers, Bind(c) PROVE Runs'
  <2>1. /\ pc[c] = "bind" /\ pc' = [pc EXCEPT ![c] = "write"]
        /\ \A d \in Callers : d # c => proc'[d] = proc[d]
        /\ UNCHANGED <<child, stdin, ran>>
    BY <1>6 DEF Bind
  <2>2. c \in Inputs => ran[c] = 0
    BY <2>1
  <2>3. ASSUME NEW i \in Inputs, i # c PROVE Runs!(i)'
    <3>1. /\ pc'[i] = pc[i] /\ proc'[i] = proc[i] /\ ran'[i] = ran[i]
          /\ child' = child /\ stdin' = stdin
      BY <2>1, <2>3
    <3>2. QED
      BY <3>1
  <2>4. c \in Inputs => Runs!(c)'
    BY <2>1, <2>2
  <2>5. QED
    BY <2>3, <2>4
<1>7. ASSUME NEW c \in Callers, Write(c) PROVE Runs'
  <2>1. \A i \in Inputs : pc[i] # "read"
    BY <1>7 DEF Write, Single, Active
  <2>2. QED
    BY <1>7, <2>1 DEF Write
<1>8. ASSUME NEW c \in Callers, WriteFails(c) \/ ReadEof(c) PROVE Runs'
  <2>1. UNCHANGED <<proc, child, stdin, ran>>
    BY <1>8 DEF WriteFails, ReadEof
  <2>2. \E to \in {"file"} \cup Ended :
           pc' = [pc EXCEPT ![c] = to] /\ (c # Boot => to = "file")
    BY <1>8 DEF WriteFails, ReadEof, Broken, PrimeFails, FallBack, Ended
  <2>3. pc[c] = "write" \/ (pc[c] = "read" /\ proc[c] \in Callers /\ child[proc[c]] = "dead")
    BY <1>8 DEF WriteFails, ReadEof, Bindings, Bound
  <2>4. QED
    BY <2>1, <2>2, <2>3 DEF Ended
<1>9. ASSUME NEW c \in Callers, Read(c) PROVE Runs'
  <2>1. pc[c] = "read" /\ UNCHANGED <<proc, child, stdin, ran>>
    BY <1>9 DEF Read
  <2>2. \E to \in Ended : pc' = [pc EXCEPT ![c] = to]
    BY <1>9, LineOfReader DEF Read, Accept, PrimeFails, Ended
  <2>3. QED
    BY <2>1, <2>2 DEF Ended
<1>10. ASSUME NEW c \in Callers, Serve(c) PROVE Runs'
  <2> DEFINE frame == Head(stdin[c])
  <2>1. /\ frame \in Callers /\ pc[frame] = "read" /\ proc[frame] = c
        /\ Tail(stdin[c]) = <<>> /\ Up(c) /\ stdin[c] # <<>>
    BY <1>10, FrameOfReader DEF Serve
  <2>2. /\ stdin' = [stdin EXCEPT ![c] = <<>>] /\ UNCHANGED <<pc, proc, child>>
        /\ ran' = [ran EXCEPT ![frame] = @ + 1]
    BY <1>10, <2>1 DEF Serve, Ran
  <2>3. \A i \in Inputs : pc[i] = "read" => i = frame
    BY <2>1 DEF Single, Active
  <2>4. frame \in Inputs => ran[frame] = 0
    BY <2>1
  <2>5. frame \in Inputs => ran'[frame] = 1
    BY <2>1, <2>2, <2>4
  <2>6. \A i \in Inputs : i # frame => ran'[i] = ran[i] /\ pc[i] # "read"
    BY <2>2, <2>3
  <2>7. ~(Up(c) /\ stdin[c] # <<>>)'
    BY <2>2
  <2>8. UNCHANGED <<pc, proc, child>>
    BY <2>2
  <2>9. ASSUME NEW i \in Inputs, i = frame PROVE Runs!(i)'
    <3>1. pc'[i] = "read" /\ proc'[i] = c /\ ran'[i] = 1
      BY <2>1, <2>5, <2>8, <2>9
    <3>2. QED
      BY <3>1, <2>7
  <2>10. ASSUME NEW i \in Inputs, i # frame PROVE Runs!(i)'
    BY <2>6, <2>8, <2>10
  <2>11. QED
    BY <2>9, <2>10
<1>11. ASSUME NEW c \in Callers, Dies(c) PROVE Runs'
  <2>1. /\ Up(c) /\ child' = [child EXCEPT ![c] = "dead"]
        /\ UNCHANGED <<pc, proc, stdin>>
    BY <1>11 DEF Dies
  <2>0. \A p : p \in Callers => (Up(p)' => Up(p)) /\ (child[p] = "dead" => child'[p] = "dead")
    BY <2>1
  <2>2. CASE UNCHANGED ran
    <3>1. ASSUME NEW i \in Inputs PROVE Runs!(i)'
      <4>1. Gone(i) => Gone(i)'
        BY <2>0, <2>1
      <4>2. pc[i] = "read" => proc[i] \in Callers
        BY DEF Bound
      <4>3. pc[i] = "read" /\ Up(proc[i])' => Up(proc[i])
        BY <2>0, <2>1, <4>2
      <4> HIDE DEF Gone, Up
      <4>4. QED
        BY <2>1, <2>2, <4>1, <4>3
    <3>2. QED
      BY <3>1
  <2>3. ASSUME stdin[c] # <<>>, Ran(Head(stdin[c])) PROVE Runs'
    <3> DEFINE frame == Head(stdin[c])
    <3>1. frame \in Callers /\ pc[frame] = "read" /\ proc[frame] = c
      BY <2>1, <2>3, FrameOfReader
    <3>2. frame \in Inputs => ran[frame] = 0
      BY <2>1, <2>3, <3>1
    <3>3. /\ frame \in Inputs => ran'[frame] = 1
          /\ \A i \in Inputs : i # frame => ran'[i] = ran[i]
      <4>1. PICK f \in Callers : f = frame
        BY <3>1
      <4>2. ran' = [ran EXCEPT ![f] = @ + 1] /\ (f \in Inputs => ran[f] = 0)
        BY <2>3, <3>2, <4>1 DEF Ran
      <4> HIDE DEF frame, Runs
      <4>3. QED
        BY <4>1, <4>2
    <3>4. ~Up(c)' /\ child'[c] = "dead" /\ UNCHANGED <<pc, proc>>
      BY <2>1
    <3>5. ASSUME NEW i \in Inputs, i = frame PROVE Runs!(i)'
      <4>1. pc'[i] = "read" /\ proc'[i] = c /\ ran'[i] = 1
        BY <3>1, <3>3, <3>4, <3>5
      <4>2. ~Up(proc[i])' /\ Gone(i)'
        BY <3>4, <4>1
      <4> HIDE DEF Gone, Up, frame
      <4>3. QED
        BY <4>1, <4>2
    <3>6. ASSUME NEW i \in Inputs, i # frame PROVE Runs!(i)'
      <4>1. pc[i] # "read"
        BY <3>1, <3>6 DEF Single, Active
      <4>2. ran'[i] = ran[i] /\ pc'[i] = pc[i] /\ proc'[i] = proc[i]
        BY <3>3, <3>4, <3>6
      <4>3. Gone(i) => Gone(i)'
        BY <2>1, <3>4
      <4> HIDE DEF Gone
      <4>4. QED
        BY <4>1, <4>2, <4>3
    <3>7. QED
      BY <3>5, <3>6
  <2>4. QED
    BY <2>2, <2>3, <1>11 DEF Dies
<1>12. QED
  BY <1>1, <1>2, <1>3, <1>4, <1>5, <1>6, <1>7, <1>8, <1>9, <1>10, <1>11 DEF Next, Handle, Exec

(* What the file holds is what the next process reads, and what a call     *)
(* takes from a pipe was written for it.                                   *)
LEMMA OwnStep == TypeOK /\ Bound /\ Alone /\ Core /\ Next => Own'
<1> SUFFICES ASSUME TypeOK, Bound, Alone, Core, Next PROVE Own'
  OBVIOUS
<1>a. Boot \in Callers /\ Inputs \subseteq Callers /\ Boot \notin Inputs /\ None \notin Callers
  BY InputsType, Marks DEF Callers
<1> USE <1>a DEF TypeOK, Core, Own, Goto, children, pipes
<1>1. ASSUME NEW i \in Inputs, Start(i) PROVE Own'
  BY <1>1 DEF Start
<1>2. ASSUME NEW i \in Inputs, WriteFile(i) PROVE Own'
  BY <1>2 DEF WriteFile, Single, Active
<1>3. ASSUME NEW i \in Inputs, OneShot(i) PROVE Own'
  <2>1. pc[i] = "exec" /\ infile = i /\ pc' = [pc EXCEPT ![i] = "returned"]
    BY <1>3 DEF OneShot
  <2>2. result' = [result EXCEPT ![i] = <<i, i>>]
    BY <1>3, <2>1 DEF OneShot, Alone
  <2>3. QED
    BY <1>3, <2>1, <2>2 DEF OneShot
<1>4. ASSUME NEW i \in Inputs, OneShotDies(i) \/ Describe(i) PROVE Own'
  <2>1. UNCHANGED infile
    BY <1>4 DEF OneShotDies, Describe
  <2>2. \/ /\ pc' = [pc EXCEPT ![i] = "returned"]
           /\ result' = [result EXCEPT ![i] = <<i, i>>]
        \/ pc' = [pc EXCEPT ![i] = "raised"] /\ UNCHANGED result
    BY <1>4 DEF OneShotDies, Describe
  <2>3. CASE pc' = [pc EXCEPT ![i] = "raised"] /\ UNCHANGED result
    <3>1. \A j \in Inputs : pc'[j] \in {"exec", "returned"} => pc[j] = pc'[j]
      BY <2>3
    <3>2. QED
      BY <2>1, <2>3, <3>1
  <2>4. CASE /\ pc' = [pc EXCEPT ![i] = "returned"]
             /\ result' = [result EXCEPT ![i] = <<i, i>>]
    <3>1. pc'[i] = "returned" /\ result'[i] = <<i, i>>
      BY <2>4
    <3>2. \A j \in Inputs : j # i => pc'[j] = pc[j] /\ result'[j] = result[j]
      BY <2>4
    <3>3. QED
      BY <2>1, <3>1, <3>2
  <2>5. QED
    BY <2>2, <2>3, <2>4
<1>5. ASSUME NEW c \in Callers, Check(c) \/ Popen(c) \/ Bind(c) \/ Write(c)
      PROVE  Own'
  BY <1>5 DEF Check, Popen, Bind, Write
<1>6. ASSUME NEW c \in Callers, WriteFails(c) \/ ReadEof(c) PROVE Own'
  <2>1. /\ UNCHANGED <<infile, result>>
        /\ \E to \in {"file"} \cup Ended :
             pc' = [pc EXCEPT ![c] = to] /\ (c # Boot => to = "file")
    BY <1>6 DEF WriteFails, ReadEof, Broken, PrimeFails, FallBack, Ended
  <2>2. QED
    BY <2>1 DEF Ended
<1>7. ASSUME NEW c \in Callers, Read(c) PROVE Own'
  <2> DEFINE line == Head(stdout[proc[c]])
  <2>1. /\ UNCHANGED infile /\ line \in Answer(c)
        /\ result' = [result EXCEPT ![c] = line]
        /\ \E to \in Ended : pc' = [pc EXCEPT ![c] = to]
    BY <1>7, LineOfReader DEF Read, Accept, PrimeFails, Ended
  <2>2. c # Boot => line = <<c, c>>
    BY <2>1 DEF Answer
  <2>3. QED
    BY <2>1, <2>2 DEF Ended
<1>8. ASSUME NEW c \in Callers, Serve(c) \/ Dies(c) PROVE Own'
  BY <1>8 DEF Serve, Dies
<1>9. QED
  BY <1>1, <1>2, <1>3, <1>4, <1>5, <1>6, <1>7, <1>8 DEF Next, Handle, Exec

(* Together: the invariant of the container of one thread.                 *)
LEMMA AloneStep == TypeOK /\ Bound /\ AloneInv /\ [Next]_vars => AloneInv'
<1> SUFFICES ASSUME TypeOK, Bound, AloneInv, [Next]_vars, Alone' PROVE Core'
  BY DEF AloneInv
<1>1. setup' = setup
  BY DEF Next, vars
<1>2. Alone /\ Core
  BY <1>1 DEF Alone, AloneInv
<1>3. CASE Next
  <2>1. Single' /\ Bindings' /\ UpIsServe'
    BY <1>2, <1>3, SingleStep, BindingsStep, UpIsServeStep DEF Core
  <2>2. Pipes' /\ Runs' /\ Own'
    BY <1>2, <1>3, PipesStep, RunsStep, OwnStep
  <2>3. QED
    BY <2>1, <2>2 DEF Core
<1>4. CASE UNCHANGED vars
  <2>1. Single' /\ Bindings' /\ UpIsServe'
    BY <1>2, <1>4
    DEF vars, children, pipes, Core, Single, Bindings, UpIsServe, Refused, Usable, Up
  <2>2. Pipes' /\ Runs' /\ Own'
    BY <1>2, <1>4 DEF vars, children, pipes, Core, Pipes, Runs, Gone, Own, Up
  <2>3. QED
    BY <2>1, <2>2 DEF Core
<1>5. QED
  BY <1>3, <1>4

LEMMA AloneAlways == Spec => [](TypeOK /\ Bound /\ AloneInv)
<1>1. Init => TypeOK /\ Bound
  BY InputsType, SetupsType DEF Init, TypeOK, Bound, Callers, Active, Ended, Lines
<1>2. Init => AloneInv
  <2> SUFFICES ASSUME Init PROVE Core
    BY DEF AloneInv
  <2> USE InputsType DEF Init, Callers
  <2>1. Single /\ Bindings
    BY DEF Single, Bindings, Active, Usable, Up
  <2>2. UpIsServe /\ Pipes
    BY DEF UpIsServe, Pipes, Up
  <2>3. Runs /\ Own
    BY DEF Runs, Own
  <2>4. QED
    BY <2>1, <2>2, <2>3 DEF Core
<1>3. QED
  BY <1>1, <1>2, TypeStep, AloneStep, PTL DEF Spec

(* The per-call contract of wrapper.py:27-29, in a container of one        *)
(* thread: what a call returns is the envelope of that call, whichever of  *)
(* the children it and the calls before it used had died.                  *)
THEOREM OwnEnvelopes == Spec => []OwnEnvelopeAlone
<1>1. AloneInv => OwnEnvelopeAlone
  BY DEF AloneInv, Core, Own, OwnEnvelopeAlone, OwnEnvelope
<1>2. QED
  BY <1>1, AloneAlways, PTL

(* One persistent child per warm container (wrapper.py:24): a child is     *)
(* spawned only after the one before it is gone, or refused the prime.     *)
THEOREM OneChild == Spec => []OneLiveChild
<1>1. TypeOK /\ AloneInv => OneLiveChild
  <2> SUFFICES ASSUME TypeOK, AloneInv, Alone PROVE Cardinality(Alive \ Refused) <= 1
    BY DEF OneLiveChild
  <2>1. Alive \ Refused \subseteq {SERVE}
    BY DEF AloneInv, Core, UpIsServe, Alive
  <2>2. IsFiniteSet({SERVE}) /\ Cardinality({SERVE}) = 1
    BY FS_Singleton
  <2>3. QED
    BY <2>1, <2>2, FS_Subset
<1>2. QED
  BY <1>1, AloneAlways, PTL

(* A request is executed a second time only when the serve child that had  *)
(* it has died (wrapper.py:347), and never a third time.                   *)
THEOREM RerunsAfterDeath == Spec => []RerunOnlyAfterDeath
<1>1. AloneInv => RerunOnlyAfterDeath
  BY DEF AloneInv, Core, Runs, Gone, RerunOnlyAfterDeath
<1>2. QED
  BY <1>1, AloneAlways, PTL

-------------------------------------------------------------------------------
(* The promise of the container. What is in the pipe of a caller was       *)
(* written by an execution of its request, and a describe stays off the    *)
(* serve child.                                                            *)
Spoken == \A i \in Inputs : pc[i] = "read" /\ stdout[proc[i]] # <<>> => ran[i] > 0
Sentinel == /\ \A i \in Describes : pc[i] \in {"queued", "describe"} \cup Ended
            /\ \A i \in Inputs : pc[i] = "describe" => i \in Describes
Said == Alone => Spoken /\ Sentinel

(* What has run has run.                                                   *)
LEMMA RanStays ==
  ASSUME TypeOK, NEW c \in Callers, UNCHANGED ran \/ Ran(c)
  PROVE  \A j \in Callers : ran[j] > 0 => ran'[j] > 0
<1>1. \A j \in Callers : ran[j] \in Nat
  BY DEF TypeOK
<1>2. CASE Ran(c)
  <2>1. \A j \in Callers : ran'[j] = IF j = c THEN ran[j] + 1 ELSE ran[j]
    BY <1>2 DEF Ran, TypeOK
  <2>2. QED
    BY <1>1, <2>1
<1>3. QED
  BY <1>2

LEMMA SpokenStep == TypeOK /\ Bound /\ Alone /\ Core /\ Spoken /\ Next => Spoken'
<1> SUFFICES ASSUME TypeOK, Bound, Alone, Core, Spoken, Next PROVE Spoken'
  OBVIOUS
<1>a. Inputs \subseteq Callers
  BY DEF Callers
<1> USE <1>a DEF Spoken, Goto, children, pipes
(* Who does not read yet has nothing to show for it.                       *)
<1>b. ASSUME \A i \in Inputs : pc'[i] = "read" => pc[i] = "read" /\ proc'[i] = proc[i],
             \A i \in Inputs : pc'[i] = "read" =>
               /\ stdout'[proc[i]] # <<>> => stdout[proc[i]] # <<>>
               /\ ran[i] > 0 => ran'[i] > 0
      PROVE  Spoken'
  <2> SUFFICES ASSUME NEW i \in Inputs, pc'[i] = "read", stdout'[proc'[i]] # <<>>
               PROVE  ran'[i] > 0
    OBVIOUS
  <2>1. pc[i] = "read" /\ stdout[proc[i]] # <<>>
    BY <1>b
  <2>2. ran[i] > 0
    BY <2>1
  <2>3. QED
    BY <1>b, <2>2
<1>1. ASSUME NEW i \in Inputs, Start(i) \/ WriteFile(i) \/ Describe(i) PROVE Spoken'
  <2>1. /\ \E to \in {"describe", "check", "file", "exec", "returned", "raised"} :
             pc' = [pc EXCEPT ![i] = to]
        /\ UNCHANGED <<proc, stdout, ran>>
    BY <1>1 DEF Start, WriteFile, Describe
  <2>2. QED
    BY <2>1 DEF TypeOK
<1>2. ASSUME NEW i \in Inputs, Exec(i) PROVE Spoken'
  <2>1. /\ \E to \in {"returned", "raised"} : pc' = [pc EXCEPT ![i] = to]
        /\ UNCHANGED <<proc, stdout>>
    BY <1>2 DEF Exec, OneShot, OneShotDies
  <2>2. UNCHANGED ran \/ Ran(i)
    BY <1>2 DEF Exec, OneShot, OneShotDies
  <2>3. \A j \in Inputs : ran[j] > 0 => ran'[j] > 0
    BY <2>2, RanStays
  <2>4. \A j \in Inputs : pc'[j] = "read" => pc[j] = "read"
    BY <2>1 DEF TypeOK
  <2>5. QED
    BY <2>1, <2>3, <2>4, <1>b
<1>3. ASSUME NEW c \in Callers, Check(c) \/ Popen(c) PROVE Spoken'
  <2>1. /\ \E to \in {"bind", "popen"} : pc' = [pc EXCEPT ![c] = to]
        /\ UNCHANGED <<proc, stdout, ran>>
    BY <1>3 DEF Check, Popen
  <2>2. QED
    BY <2>1 DEF TypeOK
<1>4. ASSUME NEW c \in Callers, Bind(c) PROVE Spoken'
  <2>1. /\ pc[c] = "bind" /\ pc' = [pc EXCEPT ![c] = "write"]
        /\ proc' = [proc EXCEPT ![c] = SERVE] /\ UNCHANGED <<stdout, ran>>
    BY <1>4 DEF Bind
  <2>2. QED
    BY <2>1 DEF TypeOK
<1>5. ASSUME NEW c \in Callers, Write(c) PROVE Spoken'
  <2>1. /\ pc[c] = "write" /\ pc' = [pc EXCEPT ![c] = "read"]
        /\ proc[c] \in Callers /\ UNCHANGED <<proc, stdout, ran>>
    BY <1>5 DEF Write, Usable, TypeOK
  <2>2. \A d \in Callers : pc[d] # "read"
    BY <2>1 DEF Core, Single, Active
  <2>3. stdout[proc[c]] = <<>>
    BY <2>1, <2>2 DEF Core, Pipes
  <2>4. QED
    BY <2>1, <2>2, <2>3 DEF TypeOK
<1>6. ASSUME NEW c \in Callers, WriteFails(c) \/ ReadEof(c) PROVE Spoken'
  <2>1. Broken(c) /\ UNCHANGED <<proc, stdout, ran>>
    BY <1>6 DEF WriteFails, ReadEof
  <2>2. \E to \in {"returned", "raised", "file"} : pc' = [pc EXCEPT ![c] = to]
    BY <2>1, BrokenStep
  <2>3. QED
    BY <2>1, <2>2 DEF TypeOK
<1>7. ASSUME NEW c \in Callers, Read(c) PROVE Spoken'
  <2>1. /\ proc[c] \in Callers /\ stdout' = [stdout EXCEPT ![proc[c]] = Tail(@)]
        /\ UNCHANGED <<proc, ran>> /\ Tail(stdout[proc[c]]) = <<>>
    BY <1>7, LineOfReader DEF Read, Core
  <2>2. Accept(c, Head(stdout[proc[c]])) \/ Broken(c)
    BY <1>7 DEF Read
  <2>3. \E to \in {"returned", "raised", "file"} : pc' = [pc EXCEPT ![c] = to]
    BY <2>2, BrokenStep, AcceptStep
  <2>4. \A p \in Callers : stdout'[p] # <<>> => stdout[p] # <<>>
    BY <2>1 DEF TypeOK
  <2>5. \A i \in Inputs : pc[i] = "read" => proc[i] \in Callers
    BY DEF Bound, TypeOK
  <2>6. QED
    BY <2>1, <2>3, <2>4, <2>5 DEF TypeOK
<1>8. ASSUME NEW p \in Callers, Serve(p) PROVE Spoken'
  <2>1. PICK f \in Callers : f = Head(stdin[p]) /\ pc[f] = "read"
    BY <1>8, FrameOfReader DEF Serve, Core
  <2>2. ran' = [ran EXCEPT ![f] = @ + 1] /\ UNCHANGED <<pc, proc>>
    BY <1>8, <2>1 DEF Serve, Ran
  <2>3. \A i \in Inputs : pc[i] = "read" => i = f
    BY <2>1 DEF Core, Single, Active
  <2>4. ran'[f] > 0
    BY <2>2 DEF TypeOK
  <2>5. QED
    BY <2>2, <2>3, <2>4
<1>9. ASSUME NEW p \in Callers, Dies(p) PROVE Spoken'
  <2>1. UNCHANGED <<pc, proc, stdout>>
    BY <1>9 DEF Dies
  <2>2. \A i \in Inputs : ran[i] > 0 => ran'[i] > 0
    <3>1. CASE UNCHANGED ran
      BY <3>1
    <3>2. ASSUME stdin[p] # <<>>, Ran(Head(stdin[p]))
          PROVE  \A i \in Inputs : ran[i] > 0 => ran'[i] > 0
      <4>1. PICK f \in Callers : f = Head(stdin[p])
        BY <1>9, <3>2, FrameOfReader DEF Dies, Core
      <4>2. QED
        BY <3>2, <4>1, RanStays
    <3>3. QED
      BY <1>9, <3>1, <3>2 DEF Dies
  <2>3. QED
    BY <2>1, <2>2, <1>b
<1>10. QED
  BY <1>1, <1>2, <1>3, <1>4, <1>5, <1>6, <1>7, <1>8, <1>9 DEF Next, Handle

Stays(i) == /\ i \in Describes => pc[i] \in {"queued", "describe"} \cup Ended
            /\ pc[i] = "describe" => i \in Describes
LEMMA SentinelStep == TypeOK /\ Alone /\ Sentinel /\ Next => Sentinel'
<1> SUFFICES ASSUME TypeOK, Alone, Sentinel, Next, NEW i \in Inputs PROVE Stays(i)'
  BY InputsType DEF Sentinel, Stays
<1>a. i \in Callers /\ i # Boot
  BY InputsType DEF Callers
<1>b. Stays(i)
  BY DEF Sentinel, Stays
<1> USE <1>a, <1>b DEF Goto, Ended, Stays
<1>1. ASSUME NEW j \in Inputs, Start(j) \/ WriteFile(j) \/ Describe(j)
      PROVE  Stays(i)'
  BY <1>1 DEF Start, WriteFile, Describe, TypeOK, Callers
<1>2. ASSUME NEW j \in Inputs, Exec(j) PROVE Stays(i)'
  BY <1>2 DEF Exec, OneShot, OneShotDies, TypeOK, Callers
<1>3. ASSUME NEW c \in Callers, Check(c) \/ Popen(c) \/ Bind(c) \/ Write(c)
      PROVE  Stays(i)'
  BY <1>3 DEF Check, Popen, Bind, Write, TypeOK
<1>4. ASSUME NEW c \in Callers, WriteFails(c) \/ Read(c) \/ ReadEof(c)
      PROVE  Stays(i)'
  <2>1. pc[c] \in {"write", "read"}
    BY <1>4 DEF WriteFails, Read, ReadEof
  <2>2. Broken(c) \/ \E line : Accept(c, line)
    BY <1>4 DEF WriteFails, Read, ReadEof
  <2>3. \E to \in {"returned", "raised", "file"} : pc' = [pc EXCEPT ![c] = to]
    BY <2>2, BrokenStep, AcceptStep
  <2>4. QED
    BY <2>1, <2>3 DEF TypeOK
<1>5. ASSUME NEW c \in Callers, Serve(c) \/ Dies(c)
      PROVE  Stays(i)'
  BY <1>5 DEF Serve, Dies
<1>6. QED
  BY <1>1, <1>2, <1>3, <1>4, <1>5 DEF Next, Handle

LEMMA SaidAlways == Spec => [](TypeOK /\ Bound /\ AloneInv /\ Said)
<1>1. Init => Said
  BY InputsType DEF Init, Said, Spoken, Sentinel, Callers
<1>2. TypeOK /\ Bound /\ AloneInv /\ Said /\ [Next]_vars => Said'
  <2> SUFFICES ASSUME TypeOK, Bound, AloneInv, Said, [Next]_vars, Alone'
               PROVE  Spoken' /\ Sentinel'
    BY DEF Said
  <2>1. setup' = setup
    BY DEF Next, vars
  <2>2. Alone /\ Core /\ Spoken /\ Sentinel
    BY <2>1 DEF Alone, AloneInv, Said
  <2>3. CASE Next
    BY <2>2, <2>3, SpokenStep, SentinelStep
  <2>4. CASE UNCHANGED vars
    BY <2>2, <2>4 DEF vars, children, pipes, Spoken, Sentinel
  <2>5. QED
    BY <2>3, <2>4
<1>3. QED
  BY <1>1, <1>2, AloneAlways, PTL DEF Spec

-------------------------------------------------------------------------------
(* The steps of the handler are those of the promise, one input at a time. *)
stages == [i \in Inputs |-> Stage(i)]
runs == [i \in Inputs |-> ran[i]]
replies == [i \in Inputs |-> result[i]]

(* Where an input is, and how it moves.                                    *)
LEMMA Stages ==
  ASSUME NEW i
  PROVE  /\ pc[i] = "queued" => Stage(i) = "queued"
         /\ pc[i] \in Active => Stage(i) = "inside"
         /\ pc[i] = "returned" => Stage(i) = "answered"
         /\ pc[i] = "raised" => Stage(i) = "raised"
BY DEF Stage, Active

(* Nothing of it shows.                                                    *)
LEMMA Unseen ==
  ASSUME \A i \in Inputs : Stage(i)' = Stage(i),
         \A i \in Inputs : ran'[i] = ran[i],
         \A i \in Inputs : result'[i] = result[i]
  PROVE  UNCHANGED <<stages, runs, replies>>
BY DEF stages, runs, replies

(* Only the stage of one input changes, and its reply.                     *)
LEMMA OneMoves ==
  ASSUME NEW i \in Inputs, \A j \in Inputs : j # i => Stage(j)' = Stage(j)
  PROVE  stages' = [stages EXCEPT ![i] = Stage(i)']
BY DEF stages
LEMMA OneRuns ==
  ASSUME NEW i \in Inputs, TypeOK, Ran(i)
  PROVE  runs' = [runs EXCEPT ![i] = @ + 1]
BY DEF runs, Ran, TypeOK, Callers
LEMMA OneReply ==
  ASSUME NEW i \in Inputs, TypeOK, result' = [result EXCEPT ![i] = <<i, i>>]
  PROVE  replies' = [replies EXCEPT ![i] = <<i, i>>]
BY DEF replies, TypeOK, Callers

(* The steps of the promise, in these words.                               *)
LEMMA Promised ==
  ASSUME NEW i \in Inputs
  PROVE  /\ /\ stages[i] = "queued" /\ \A j \in Inputs : stages[j] # "inside"
            /\ stages' = [stages EXCEPT ![i] = "inside"]
            /\ UNCHANGED <<runs, replies>>
            => Service!Begin(i)
         /\ /\ stages[i] = "inside" /\ i \notin Describes /\ runs[i] < 2
            /\ runs' = [runs EXCEPT ![i] = @ + 1]
            /\ UNCHANGED <<stages, replies>>
            => Service!Execute(i)
         /\ /\ stages[i] = "inside" /\ stages' = [stages EXCEPT ![i] = "answered"]
            /\ i \in Describes \/ runs[i] > 0
            /\ UNCHANGED runs /\ replies' = [replies EXCEPT ![i] = <<i, i>>]
            => Service!Answer(i)
         /\ /\ stages[i] = "inside" /\ stages' = [stages EXCEPT ![i] = "answered"]
            /\ i \notin Describes /\ runs[i] < 2
            /\ runs' = [runs EXCEPT ![i] = @ + 1] /\ runs'[i] > 0
            /\ replies' = [replies EXCEPT ![i] = <<i, i>>]
            => Service!Answer(i)
         /\ /\ stages[i] = "inside" /\ stages' = [stages EXCEPT ![i] = "raised"]
            /\ \/ UNCHANGED runs
               \/ /\ i \notin Describes /\ runs[i] < 2
                  /\ runs' = [runs EXCEPT ![i] = @ + 1]
            /\ UNCHANGED replies
            => Service!Raise(i)
BY DEF stages, runs, replies, Service!Begin, Service!Execute, Service!Answer, Service!Raise,
       Service!Again

LEMMA ServiceStep ==
  ASSUME TypeOK, Bound, AloneInv, Said, [Next]_vars
  PROVE  [Service!Next]_<<Alone, stages, runs, replies>>
<1>a. Alone' = Alone
  BY DEF Next, vars, Alone
<1>b. CASE ~Alone
  BY <1>a, <1>b DEF Service!Next
<1>c. CASE UNCHANGED vars
  BY <1>a, <1>c DEF vars, stages, runs, replies, Stage
<1> SUFFICES ASSUME Alone, Next PROVE [Service!Next]_<<Alone, stages, runs, replies>>
  BY <1>b, <1>c
<1>d. Inputs \subseteq Callers /\ Boot \notin Inputs /\ Describes \subseteq Inputs
  BY InputsType DEF Callers
<1>e. Core /\ Spoken /\ Sentinel
  BY DEF AloneInv, Said
<1>f. TypeOK'
  BY TypeStep
<1>g. \A i \in Inputs : stages[i] = Stage(i) /\ runs[i] = ran[i] /\ runs[i] \in Nat
  BY <1>d DEF stages, runs, TypeOK
<1>h. ASSUME UNCHANGED <<stages, runs, replies>>
      PROVE  [Service!Next]_<<Alone, stages, runs, replies>>
  BY <1>a, <1>h
<1>i. ASSUME NEW i \in Inputs,
             Service!Begin(i) \/ Service!Execute(i) \/ Service!Answer(i) \/ Service!Raise(i)
      PROVE  [Service!Next]_<<Alone, stages, runs, replies>>
  BY <1>a, <1>i DEF Service!Next
(* A caller that moves inside the handler.                                 *)
<1>j. ASSUME NEW c \in Callers, NEW to \in Active,
             c \in Inputs => pc[c] \in Active, pc' = [pc EXCEPT ![c] = to]
      PROVE  UNCHANGED stages
  <2>1. \A i \in Inputs : pc'[i] = pc[i] \/ (pc[i] \in Active /\ pc'[i] \in Active)
    BY <1>j, <1>d DEF TypeOK
  <2>2. \A i \in Inputs : Stage(i)' = Stage(i)
    BY <2>1 DEF Stage, Active
  <2>3. QED
    BY <2>2 DEF stages
(* One that leaves it, or enters it.                                       *)
<1>k. ASSUME NEW i \in Inputs, NEW to, pc' = [pc EXCEPT ![i] = to]
      PROVE  /\ to \in Active => stages' = [stages EXCEPT ![i] = "inside"]
             /\ to = "returned" => stages' = [stages EXCEPT ![i] = "answered"]
             /\ to = "raised" => stages' = [stages EXCEPT ![i] = "raised"]
  <2>1. pc'[i] = to /\ \A j \in Inputs : j # i => pc'[j] = pc[j]
    BY <1>k, <1>d DEF TypeOK
  <2>2. \A j \in Inputs : j # i => Stage(j)' = Stage(j)
    BY <2>1 DEF Stage
  <2>3. stages' = [stages EXCEPT ![i] = Stage(i)']
    BY <2>2, OneMoves
  <2>4. /\ to \in Active => Stage(i)' = "inside"
        /\ to = "returned" => Stage(i)' = "answered"
        /\ to = "raised" => Stage(i)' = "raised"
    BY <2>1 DEF Stage, Active
  <2>5. QED
    BY <2>3, <2>4
<1>l. \A i \in Inputs : pc[i] \in Active => stages[i] = "inside"
  BY <1>g, Stages
(* The import is nobody's input.                                           *)
<1>m. ASSUME pc' = pc \/ (\E to : pc' = [pc EXCEPT ![Boot] = to])
      PROVE  UNCHANGED stages
  <2>1. \A i \in Inputs : pc'[i] = pc[i]
    BY <1>m, <1>d DEF TypeOK
  <2>2. \A i \in Inputs : Stage(i)' = Stage(i)
    BY <2>1 DEF Stage
  <2>3. QED
    BY <2>2 DEF stages
(* A runner takes the frame of a call.                                     *)
<1>n. ASSUME NEW p \in Callers, Up(p), stdin[p] # <<>>, Ran(Head(stdin[p])),
             UNCHANGED <<pc, result>>
      PROVE  [Service!Next]_<<Alone, stages, runs, replies>>
  <2>1. PICK f \in Callers : f = Head(stdin[p]) /\ pc[f] = "read" /\ proc[f] = p
    BY <1>n, <1>e, FrameOfReader DEF Core
  <2>2. UNCHANGED <<stages, replies>>
    BY <1>n, <1>m DEF replies
  <2>3. CASE f = Boot
    <3>1. \A i \in Inputs : ran'[i] = ran[i]
      BY <1>n, <1>d, <2>1, <2>3 DEF Ran, TypeOK
    <3>2. UNCHANGED runs
      BY <3>1 DEF runs
    <3>3. QED
      BY <2>2, <3>2, <1>h
  <2>4. CASE f # Boot
    <3>1. f \in Inputs
      BY <2>1, <2>4 DEF Callers
    <3>2. ran[f] = 0
      BY <1>n, <1>e, <2>1, <3>1 DEF Core, Runs, TypeOK
    <3>3. f \notin Describes
      BY <1>e, <2>1 DEF Sentinel, Ended
    <3>4. runs' = [runs EXCEPT ![f] = @ + 1]
      BY <1>n, <2>1, <3>1, OneRuns
    <3>5. stages[f] = "inside" /\ runs[f] < 2
      BY <1>g, <1>l, <2>1, <3>1, <3>2 DEF Active
    <3>6. Service!Execute(f)
      BY <2>2, <3>1, <3>3, <3>4, <3>5, Promised
    <3>7. QED
      BY <3>1, <3>6, <1>i
  <2>5. QED
    BY <2>3, <2>4
<1>1. ASSUME NEW i \in Inputs, Start(i)
      PROVE  [Service!Next]_<<Alone, stages, runs, replies>>
  <2>1. stages[i] = "queued"
    BY <1>1, <1>g, Stages DEF Start, Goto
  <2>2. \A j \in Inputs : stages[j] # "inside"
    <3>1. \A j \in Inputs : pc[j] \notin Active
      BY <1>1, <1>d, StartsAlone
    <3>2. QED
      BY <3>1, <1>g DEF Stage
  <2>3. PICK to \in Active : pc' = [pc EXCEPT ![i] = to]
    BY <1>1 DEF Start, Goto, Active
  <2>4. stages' = [stages EXCEPT ![i] = "inside"]
    BY <1>1, <2>3, <1>k
  <2>5. UNCHANGED <<runs, replies>>
    BY <1>1 DEF Start, runs, replies
  <2>6. Service!Begin(i)
    BY <1>1, <2>1, <2>2, <2>4, <2>5, Promised
  <2>7. QED
    BY <1>1, <2>6, <1>i
<1>2. ASSUME NEW i \in Inputs, OneShot(i)
      PROVE  [Service!Next]_<<Alone, stages, runs, replies>>
  <2>1. pc[i] = "exec" /\ infile = i /\ pc' = [pc EXCEPT ![i] = "returned"] /\ Ran(i)
    BY <1>2, <1>e DEF OneShot, Goto, Core, Own
  <2>2. result' = [result EXCEPT ![i] = <<i, i>>]
    BY <1>2, <2>1 DEF OneShot, Alone
  <2>3. runs' = [runs EXCEPT ![i] = @ + 1] /\ replies' = [replies EXCEPT ![i] = <<i, i>>]
    BY <1>2, <2>1, <2>2, OneRuns, OneReply
  <2>4. stages[i] = "inside" /\ stages' = [stages EXCEPT ![i] = "answered"]
    BY <1>2, <2>1, <1>k, <1>l DEF Active
  <2>5. i \notin Describes
    BY <1>e, <2>1 DEF Sentinel, Ended
  <2>6. ran[i] <= 1
    BY <1>2, <1>e, <2>1 DEF Core, Runs
  <2>7. runs[i] < 2 /\ runs'[i] > 0
    <3>1. runs[i] \in Nat /\ runs[i] = ran[i] /\ runs'[i] = runs[i] + 1
      BY <1>2, <1>g, <2>3 DEF runs
    <3>2. QED
      BY <3>1, <2>6
  <2>8. Service!Answer(i)
    BY <1>2, <2>3, <2>4, <2>5, <2>7, Promised
  <2>9. QED
    BY <1>2, <2>8, <1>i
<1>3. ASSUME NEW i \in Inputs, OneShotDies(i)
      PROVE  [Service!Next]_<<Alone, stages, runs, replies>>
  <2>1. /\ pc[i] = "exec" /\ pc' = [pc EXCEPT ![i] = "raised"]
        /\ Ran(i) \/ UNCHANGED ran
        /\ UNCHANGED result
    BY <1>3 DEF OneShotDies, Goto
  <2>2. stages[i] = "inside" /\ stages' = [stages EXCEPT ![i] = "raised"]
    BY <1>3, <2>1, <1>k, <1>l DEF Active
  <2>3. i \notin Describes
    BY <1>e, <2>1 DEF Sentinel, Ended
  <2>4. runs[i] < 2
    <3>1. ran[i] <= 1
      BY <1>3, <1>e, <2>1 DEF Core, Runs
    <3>2. QED
      BY <1>3, <3>1, <1>g
  <2>5. runs' = [runs EXCEPT ![i] = @ + 1] \/ UNCHANGED runs
    <3>1. CASE Ran(i)
      BY <1>3, <3>1, OneRuns
    <3>2. CASE UNCHANGED ran
      BY <3>2 DEF runs
    <3>3. QED
      BY <2>1, <3>1, <3>2
  <2>6. UNCHANGED replies
    BY <2>1 DEF replies
  <2>7. Service!Raise(i)
    BY <1>3, <2>2, <2>3, <2>4, <2>5, <2>6, Promised
  <2>8. QED
    BY <1>3, <2>7, <1>i
<1>4. ASSUME NEW i \in Inputs, Describe(i)
      PROVE  [Service!Next]_<<Alone, stages, runs, replies>>
  <2>1. pc[i] = "describe" /\ UNCHANGED runs
    BY <1>4 DEF Describe, Goto, runs
  <2>2. stages[i] = "inside"
    BY <1>4, <2>1, <1>l DEF Active
  <2>3. i \in Describes
    BY <1>4, <2>1, <1>e DEF Sentinel
  <2>4. ASSUME pc' = [pc EXCEPT ![i] = "returned"], result' = [result EXCEPT ![i] = <<i, i>>]
        PROVE  Service!Answer(i)
    <3>1. /\ stages' = [stages EXCEPT ![i] = "answered"]
          /\ replies' = [replies EXCEPT ![i] = <<i, i>>]
      BY <1>4, <2>4, <1>k, OneReply
    <3>2. QED
      BY <1>4, <2>1, <2>2, <2>3, <3>1, Promised
  <2>5. ASSUME pc' = [pc EXCEPT ![i] = "raised"], UNCHANGED result
        PROVE  Service!Raise(i)
    <3>1. stages' = [stages EXCEPT ![i] = "raised"] /\ UNCHANGED replies
      BY <1>4, <2>5, <1>k DEF replies
    <3>2. QED
      BY <1>4, <2>1, <2>2, <3>1, Promised
  <2>6. QED
    BY <1>4, <2>4, <2>5, <1>i DEF Describe, Goto
<1>5. ASSUME NEW i \in Inputs, WriteFile(i)
      PROVE  [Service!Next]_<<Alone, stages, runs, replies>>
  <2>1. pc[i] \in Active /\ pc' = [pc EXCEPT ![i] = "exec"] /\ "exec" \in Active
    BY <1>5 DEF WriteFile, Goto, Active
  <2>2. UNCHANGED stages
    BY <1>5, <1>d, <2>1, <1>j
  <2>3. UNCHANGED <<runs, replies>>
    BY <1>5 DEF WriteFile, runs, replies
  <2>4. QED
    BY <2>2, <2>3, <1>h
<1>6. ASSUME NEW c \in Callers, Check(c) \/ Popen(c) \/ Bind(c) \/ Write(c)
      PROVE  [Service!Next]_<<Alone, stages, runs, replies>>
  <2>1. /\ pc[c] \in Active
        /\ \E to \in Active : pc' = [pc EXCEPT ![c] = to]
        /\ UNCHANGED <<ran, result>>
    BY <1>6 DEF Check, Popen, Bind, Write, Goto, Active
  <2>2. UNCHANGED stages
    BY <1>6, <2>1, <1>j
  <2>3. UNCHANGED <<runs, replies>>
    BY <2>1 DEF runs, replies
  <2>4. QED
    BY <2>2, <2>3, <1>h
<1>7. ASSUME NEW c \in Callers, WriteFails(c) \/ ReadEof(c)
      PROVE  [Service!Next]_<<Alone, stages, runs, replies>>
  <2>1. pc[c] \in Active /\ Broken(c) /\ UNCHANGED <<ran, result>>
    BY <1>7 DEF WriteFails, ReadEof, Active
  <2>2. CASE c = Boot
    <3>1. \E to : pc' = [pc EXCEPT ![Boot] = to]
      BY <2>1, <2>2 DEF Broken, PrimeFails
    <3>2. UNCHANGED stages
      BY <3>1, <1>m
    <3>3. QED
      BY <2>1, <3>2, <1>h DEF runs, replies
  <2>3. CASE c # Boot
    <3>1. pc' = [pc EXCEPT ![c] = "file"] /\ "file" \in Active
      BY <2>1, <2>3 DEF Broken, FallBack, Active
    <3>2. UNCHANGED stages
      BY <1>7, <2>1, <3>1, <1>j
    <3>3. QED
      BY <2>1, <3>2, <1>h DEF runs, replies
  <2>4. QED
    BY <2>2, <2>3
<1>8. ASSUME NEW c \in Callers, Read(c)
      PROVE  [Service!Next]_<<Alone, stages, runs, replies>>
  <2> DEFINE line == Head(stdout[proc[c]])
  <2>1. /\ line \in Answer(c) /\ line # Blank
        /\ pc[c] = "read" /\ stdout[proc[c]] # <<>> /\ UNCHANGED ran
    BY <1>8, <1>e, LineOfReader DEF Core, Read
  <2>2. Accept(c, line) /\ UNCHANGED runs
    BY <1>8, <2>1 DEF Read, runs
  <2> HIDE DEF line
  <2>3. CASE c = Boot
    <3>1. \E to : pc' = [pc EXCEPT ![Boot] = to]
      BY <1>8, <2>2, <2>3, AcceptStep
    <3>2. result' = [result EXCEPT ![Boot] = line]
      BY <2>2, <2>3 DEF Accept
    <3>3. \A i \in Inputs : result'[i] = result[i]
      BY <3>2, <1>d DEF TypeOK
    <3>4. UNCHANGED replies
      BY <3>3 DEF replies
    <3>5. UNCHANGED stages
      BY <3>1, <1>m
    <3>6. QED
      BY <2>2, <3>4, <3>5, <1>h
  <2>4. CASE c # Boot
    <3>1. c \in Inputs /\ line = <<c, c>>
      BY <1>8, <2>1, <2>4 DEF Callers, Answer
    <3>2. pc' = [pc EXCEPT ![c] = "returned"] /\ result' = [result EXCEPT ![c] = <<c, c>>]
      BY <2>2, <2>4, <3>1 DEF Accept
    <3>3. stages[c] = "inside" /\ stages' = [stages EXCEPT ![c] = "answered"]
      BY <2>1, <3>1, <3>2, <1>k, <1>l DEF Active
    <3>4. runs[c] > 0
      BY <2>1, <3>1, <1>e, <1>g DEF Spoken
    <3>5. replies' = [replies EXCEPT ![c] = <<c, c>>]
      BY <3>1, <3>2, OneReply
    <3>6. Service!Answer(c)
      BY <2>2, <3>1, <3>3, <3>4, <3>5, Promised
    <3>7. QED
      BY <3>1, <3>6, <1>i
  <2>5. QED
    BY <2>3, <2>4
<1>9. ASSUME NEW p \in Callers, Serve(p)
      PROVE  [Service!Next]_<<Alone, stages, runs, replies>>
  <2>1. Up(p) /\ stdin[p] # <<>> /\ Ran(Head(stdin[p])) /\ UNCHANGED <<pc, result>>
    BY <1>9 DEF Serve
  <2>2. QED
    BY <1>9, <2>1, <1>n
<1>10. ASSUME NEW p \in Callers, Dies(p)
       PROVE  [Service!Next]_<<Alone, stages, runs, replies>>
  <2>1. CASE UNCHANGED ran
    <3>1. UNCHANGED stages
      BY <1>10, <1>m DEF Dies
    <3>2. UNCHANGED <<runs, replies>>
      BY <1>10, <2>1 DEF Dies, runs, replies
    <3>3. QED
      BY <3>1, <3>2, <1>h
  <2>2. ASSUME stdin[p] # <<>>, Ran(Head(stdin[p]))
        PROVE  [Service!Next]_<<Alone, stages, runs, replies>>
    <3>1. Up(p) /\ UNCHANGED <<pc, result>>
      BY <1>10 DEF Dies
    <3>2. QED
      BY <1>10, <2>2, <3>1, <1>n
  <2>3. QED
    BY <1>10, <2>1, <2>2 DEF Dies
<1>11. QED
  BY <1>1, <1>2, <1>3, <1>4, <1>5, <1>6, <1>7, <1>8, <1>9, <1>10 DEF Next, Handle, Exec

(* A container of one thread and silent user code implements the promise   *)
(* of ContainerService: one input at a time, executed while its handler    *)
(* waits for it and at most twice, answered by an execution of its own or  *)
(* raising, whichever children die and when (wrapper.py:343-369).          *)
THEOREM ImplementsContainer == Spec => ServiceSpec
<1>1. Init => Service!Init
  <2> SUFFICES ASSUME Init PROVE Service!Init
    OBVIOUS
  <2>1. \A i \in Inputs : Stage(i) = "queued" /\ ran[i] = 0 /\ result[i] = None
    <3>1. \A i \in Inputs : pc[i] = "queued" /\ ran[i] = 0 /\ result[i] = None
      BY DEF Init, Callers
    <3>2. QED
      BY <3>1, Stages
  <2>2. Alone \in BOOLEAN
    BY DEF Alone
  <2>3. QED
    BY <2>1, <2>2 DEF Service!Init
<1>2. TypeOK /\ Bound /\ AloneInv /\ Said /\ [Next]_vars
        => [Service!Next]_<<Alone, [i \in Inputs |-> Stage(i)],
                            [i \in Inputs |-> ran[i]], [i \in Inputs |-> result[i]]>>
  BY ServiceStep DEF stages, runs, replies
<1>3. QED
  BY <1>1, <1>2, SaidAlways, PTL DEF Spec, ServiceSpec, Service!Spec

-------------------------------------------------------------------------------
(* No caller waits in vain, in any container, of any number of threads.    *)
(* Callers take lines from a pipe without regard to whose they are, so     *)
(* what is invariant is a count: while a child is up, at most as many      *)
(* callers read from it as there are frames and lines in its pipes.        *)
Readers(p) == {c \in Callers : pc[c] = "read" /\ proc[c] = p}
Waiting(p) == Len(stdin[p]) + Len(stdout[p])
FedBy(p) == Up(p) => Cardinality(Readers(p)) <= Waiting(p)

(* A child that was not spawned is nobody's, and its caller spawns once.   *)
Unspawned ==
  /\ \A c \in Callers : pc[c] \in {"queued", "check", "popen"} => child[c] = "none"
  /\ \A c \in Callers : child[c] = "none" => SERVE # c /\ \A d \in Callers : proc[d] # c
Fed == Unspawned /\ \A p \in Callers : FedBy(p)

NoneWaitsInVain ==
  \A c \in Callers : pc[c] = "read" =>
    \/ stdout[proc[c]] # <<>>
    \/ Up(proc[c]) /\ stdin[proc[c]] # <<>>
    \/ child[proc[c]] = "dead"

(* The lengths of what is in a pipe, taken out of it and put into it.      *)
LEMMA Lengths == \A S : \A s \in Seq(S) : Len(s) \in Nat /\ (s # <<>> <=> Len(s) > 0)
OBVIOUS
LEMMA TailLength == \A S : \A s \in Seq(S) : s # <<>> => Len(Tail(s)) = Len(s) - 1
OBVIOUS
LEMMA AppendLength == \A S, x : \A s \in Seq(S) : Len(Append(s, x)) = Len(s) + 1
OBVIOUS
LEMMA LinesLength ==
  ASSUME NEW S, NEW T, NEW s \in Seq(S), NEW t \in Seq(T), NEW x
  PROVE  Len(s \o t \o <<x>>) = Len(s) + Len(t) + 1
<1> DEFINE U == S \cup T \cup {x}
<1>1. s \in Seq(U) /\ t \in Seq(U) /\ <<x>> \in Seq(U) /\ Len(<<x>>) = 1
  OBVIOUS
<1> HIDE DEF U
<1>2. s \o t \in Seq(U) /\ Len(s \o t) = Len(s) + Len(t)
  BY <1>1
<1>3. QED
  BY <1>1, <1>2

LEMMA ReadersFinite ==
  \A p : IsFiniteSet(Readers(p)) /\ Cardinality(Readers(p)) \in Nat
<1>1. IsFiniteSet(Callers)
  BY InputsType, FS_AddElement DEF Callers
<1>2. \A p : IsFiniteSet(Readers(p))
  BY <1>1, FS_Subset DEF Readers
<1>3. QED
  BY <1>2, FS_CardinalityType

LEMMA UnspawnedStep == TypeOK /\ Unspawned /\ [Next]_vars => Unspawned'
<1> SUFFICES ASSUME TypeOK, Unspawned, [Next]_vars PROVE Unspawned'
  OBVIOUS
<1>a. Inputs \subseteq Callers /\ None \notin Callers
  BY Marks DEF Callers
<1> USE <1>a DEF TypeOK, Unspawned, Goto, children, pipes
<1>1. ASSUME NEW i \in Inputs, Start(i) \/ WriteFile(i) \/ Exec(i) \/ Describe(i)
      PROVE  Unspawned'
  <2>1. UNCHANGED <<proc, SERVE, child>>
    BY <1>1 DEF Start, WriteFile, Exec, OneShot, OneShotDies, Describe
  <2>2. \/ pc[i] = "queued" /\ \E to : pc' = [pc EXCEPT ![i] = to]
        \/ \E to \in {"exec", "returned", "raised"} : pc' = [pc EXCEPT ![i] = to]
    BY <1>1 DEF Start, WriteFile, Exec, OneShot, OneShotDies, Describe
  <2>3. QED
    BY <2>1, <2>2
<1>2. ASSUME NEW c \in Callers, Check(c) PROVE Unspawned'
  <2>1. UNCHANGED <<proc, SERVE, child>> /\ pc[c] = "check"
    BY <1>2 DEF Check
  <2>2. \E to : pc' = [pc EXCEPT ![c] = to]
    BY <1>2 DEF Check
  <2>3. QED
    BY <2>1, <2>2
<1>3. ASSUME NEW c \in Callers, Popen(c) PROVE Unspawned'
  BY <1>3 DEF Popen
<1>4. ASSUME NEW c \in Callers, Bind(c) PROVE Unspawned'
  BY <1>4 DEF Bind
<1>5. ASSUME NEW c \in Callers, Write(c) PROVE Unspawned'
  BY <1>5 DEF Write
<1>6. ASSUME NEW c \in Callers, WriteFails(c) \/ Read(c) \/ ReadEof(c) PROVE Unspawned'
  <2>1. UNCHANGED <<proc, child>> /\ (Broken(c) \/ \E line : Accept(c, line))
    BY <1>6 DEF WriteFails, Read, ReadEof
  <2>2. \E to \in {"returned", "raised", "file"} : pc' = [pc EXCEPT ![c] = to]
    BY <2>1, BrokenStep, AcceptStep
  <2>3. SERVE' \in {None, SERVE}
    BY <2>1, BrokenStep, AcceptStep
  <2>4. QED
    BY <2>1, <2>2, <2>3
<1>7. ASSUME NEW c \in Callers, Serve(c) \/ Dies(c) PROVE Unspawned'
  <2>1. UNCHANGED <<pc, proc, SERVE>>
    BY <1>7 DEF Serve, Dies
  <2>2. child' = child \/ (child' = [child EXCEPT ![c] = "dead"] /\ Up(c))
    BY <1>7 DEF Serve, Dies
  <2>3. QED
    BY <2>1, <2>2 DEF Up
<1>8. CASE UNCHANGED vars
  BY <1>8 DEF vars
<1>9. QED
  BY <1>1, <1>2, <1>3, <1>4, <1>5, <1>6, <1>7, <1>8 DEF Next, Handle

(* A child whose readers are as before, or fewer, and whose pipes hold as  *)
(* much or more.                                                           *)
LEMMA FedStays ==
  ASSUME NEW p \in Callers, FedBy(p), Up(p)' => Up(p), Readers(p)' \subseteq Readers(p),
         NEW w \in Nat, NEW w2 \in Nat, w = Waiting(p), w2 = Waiting(p)', w2 >= w
  PROVE  FedBy(p)'
<1>1. Cardinality(Readers(p)') <= Cardinality(Readers(p)) /\ Cardinality(Readers(p)) \in Nat
  BY ReadersFinite, FS_Subset
<1>2. Cardinality(Readers(p)') \in Nat
  <2>1. IsFiniteSet(Readers(p)')
    BY ReadersFinite, FS_Subset
  <2>2. QED
    BY <2>1, FS_CardinalityType
<1>3. QED
  BY <1>1, <1>2 DEF FedBy

LEMMA FedStep == TypeOK /\ TypeOK' /\ Fed /\ Next => \A p \in Callers : FedBy(p)'
<1> SUFFICES ASSUME TypeOK, TypeOK', Fed, Next, NEW p \in Callers PROVE FedBy(p)'
  OBVIOUS
<1>a. Inputs \subseteq Callers /\ None \notin Callers
  BY Marks DEF Callers
<1>b. Unspawned /\ FedBy(p)
  BY DEF Fed
<1>c. /\ stdin[p] \in Seq(Callers) /\ stdout[p] \in Seq(Lines)
      /\ stdin'[p] \in Seq(Callers) /\ stdout'[p] \in Seq(Lines)
  BY DEF TypeOK
<1>d. PICK m \in Nat, n \in Nat, m2 \in Nat, n2 \in Nat :
        /\ m = Len(stdin[p]) /\ n = Len(stdout[p])
        /\ m2 = Len(stdin'[p]) /\ n2 = Len(stdout'[p])
  BY <1>c, Lengths
<1>w. PICK w \in Nat, w2 \in Nat :
        /\ w = m + n /\ w2 = m2 + n2 /\ w = Waiting(p) /\ w2 = Waiting(p)'
  <2>1. m + n \in Nat /\ m2 + n2 \in Nat
    OBVIOUS
  <2>2. Waiting(p) = m + n
    BY <1>d DEF Waiting
  <2>3. Waiting(p)' = Len(stdin'[p]) + Len(stdout'[p])
    BY DEF Waiting
  <2>4. QED
    BY <1>d, <2>1, <2>2, <2>3
<1>q. /\ FedBy(p) <=> (Up(p) => Cardinality(Readers(p)) <= w)
      /\ FedBy(p)' <=> (Up(p)' => Cardinality(Readers(p)') <= w2)
  BY <1>w DEF FedBy
<1>e. ASSUME NEW c \in Callers, NEW to, to # "read", pc' = [pc EXCEPT ![c] = to],
             UNCHANGED proc
      PROVE  Readers(p)' \subseteq Readers(p)
  BY <1>e DEF Readers, TypeOK
<1>f. ASSUME UNCHANGED <<stdin, stdout>> PROVE w2 >= w
  <2>1. m2 = m /\ n2 = n
    BY <1>d, <1>f
  <2>2. QED
    BY <1>w, <2>1
<1>g. ASSUME UNCHANGED child PROVE Up(p)' => Up(p)
  BY <1>g DEF Up
<1>h. ASSUME NEW c \in Callers, NEW to, to # "read", pc' = [pc EXCEPT ![c] = to],
             UNCHANGED <<proc, child, stdin, stdout>>
      PROVE  FedBy(p)'
  BY <1>b, <1>w, <1>e, <1>f, <1>g, <1>h, FedStays
<1>1. ASSUME NEW i \in Inputs, Start(i) \/ WriteFile(i) \/ Exec(i) \/ Describe(i)
      PROVE  FedBy(p)'
  <2>1. UNCHANGED <<proc, child, stdin, stdout>>
    BY <1>1 DEF Start, WriteFile, Exec, OneShot, OneShotDies, Describe, children, pipes
  <2>2. \E to : to # "read" /\ pc' = [pc EXCEPT ![i] = to]
    BY <1>1 DEF Start, WriteFile, Exec, OneShot, OneShotDies, Describe, Goto
  <2>3. QED
    BY <1>1, <1>a, <1>h, <2>1, <2>2
<1>2. ASSUME NEW c \in Callers, Check(c) PROVE FedBy(p)'
  BY <1>2, <1>h DEF Check, Goto, children, pipes
<1>3. ASSUME NEW c \in Callers, Popen(c) PROVE FedBy(p)'
  <2>1. /\ pc[c] = "popen" /\ pc' = [pc EXCEPT ![c] = "bind"]
        /\ child' = [child EXCEPT ![c] = "up"] /\ UNCHANGED <<proc, stdin, stdout>>
    BY <1>3 DEF Popen, Goto, pipes
  <2>2. CASE p = c
    <3>1. \A d \in Callers : proc[d] # c
      BY <1>b, <2>1 DEF Unspawned
    <3>2. Readers(p)' = {}
      BY <2>1, <2>2, <3>1 DEF Readers
    <3>3. Cardinality(Readers(p)') = 0
      BY <3>2, FS_EmptySet
    <3>4. QED
      BY <1>q, <3>3
  <2>3. CASE p # c
    <3>1. Up(p)' => Up(p)
      BY <2>1, <2>3 DEF Up, TypeOK
    <3>2. Readers(p)' \subseteq Readers(p) /\ w2 >= w
      BY <1>e, <1>f, <2>1
    <3>3. QED
      BY <1>b, <1>w, <3>1, <3>2, FedStays
  <2>4. QED
    BY <2>2, <2>3
<1>4. ASSUME NEW c \in Callers, Bind(c) PROVE FedBy(p)'
  <2>1. /\ pc[c] = "bind" /\ pc' = [pc EXCEPT ![c] = "write"]
        /\ proc' = [proc EXCEPT ![c] = SERVE] /\ UNCHANGED <<child, stdin, stdout>>
    BY <1>4 DEF Bind, Goto, children, pipes
  <2>2. Readers(p)' \subseteq Readers(p)
    BY <2>1 DEF Readers, TypeOK
  <2>3. QED
    BY <1>b, <1>w, <1>f, <1>g, <2>1, <2>2, FedStays
<1>5. ASSUME NEW c \in Callers, Write(c) PROVE FedBy(p)'
  <2>1. /\ pc[c] = "write" /\ pc' = [pc EXCEPT ![c] = "read"] /\ proc[c] \in Callers
        /\ stdin' = [stdin EXCEPT ![proc[c]] = Append(@, c)]
        /\ UNCHANGED <<proc, child, stdout>>
    BY <1>5 DEF Write, Goto, Usable, TypeOK
  <2>2. CASE p = proc[c]
    <3>1. w2 = w + 1
      <4>1. stdin'[p] = Append(stdin[p], c)
        BY <2>1, <2>2 DEF TypeOK
      <4>2. m2 = m + 1 /\ n2 = n
        BY <1>c, <1>d, <2>1, <4>1, AppendLength
      <4>3. QED
        BY <1>w, <4>2
    <3>2. Readers(p)' = Readers(p) \cup {c}
      BY <2>1, <2>2 DEF Readers, TypeOK
    <3>3. Cardinality(Readers(p)') \in {Cardinality(Readers(p)), Cardinality(Readers(p)) + 1}
      BY <3>2, ReadersFinite, FS_AddElement
    <3>4. Cardinality(Readers(p)) \in Nat
      BY ReadersFinite
    <3>5. Up(p)' => Up(p)
      BY <1>g, <2>1
    <3>6. QED
      BY <1>b, <1>q, <3>1, <3>3, <3>4, <3>5
  <2>3. CASE p # proc[c]
    <3>1. stdin'[p] = stdin[p]
      BY <2>1, <2>3 DEF TypeOK
    <3>2. w2 >= w
      <4>1. m2 = m /\ n2 = n
        BY <1>d, <2>1, <3>1
      <4>2. QED
        BY <1>w, <4>1
    <3>3. Readers(p)' \subseteq Readers(p)
      BY <2>1, <2>3 DEF Readers, TypeOK
    <3>4. QED
      BY <1>b, <1>w, <1>g, <2>1, <3>2, <3>3, FedStays
  <2>4. QED
    BY <2>2, <2>3
<1>6. ASSUME NEW c \in Callers, WriteFails(c) \/ ReadEof(c) PROVE FedBy(p)'
  <2>1. Broken(c) /\ UNCHANGED <<proc, child, stdin, stdout>>
    BY <1>6 DEF WriteFails, ReadEof, children, pipes
  <2>2. \E to \in {"returned", "raised", "file"} : pc' = [pc EXCEPT ![c] = to]
    BY <2>1, BrokenStep
  <2>3. QED
    BY <1>h, <2>1, <2>2
<1>7. ASSUME NEW c \in Callers, Read(c) PROVE FedBy(p)'
  <2>1. /\ pc[c] = "read" /\ stdout[proc[c]] # <<>>
        /\ stdout' = [stdout EXCEPT ![proc[c]] = Tail(@)]
        /\ UNCHANGED <<proc, child, stdin>>
    BY <1>7 DEF Read
  <2>2. Broken(c) \/ \E line : Accept(c, line)
    BY <1>7 DEF Read
  <2>3. PICK to \in {"returned", "raised", "file"} : pc' = [pc EXCEPT ![c] = to]
    BY <2>2, BrokenStep, AcceptStep
  <2>4. Up(p)' => Up(p)
    BY <1>g, <2>1
  <2>5. CASE p = proc[c]
    <3>1. stdout'[p] = Tail(stdout[p]) /\ stdout[p] # <<>>
      BY <2>1, <2>5 DEF TypeOK
    <3>2. n2 = n - 1 /\ m2 = m
      BY <1>c, <1>d, <2>1, <3>1, TailLength
    <3>3. w2 = w - 1
      BY <1>w, <3>2
    <3>4. Readers(p)' = Readers(p) \ {c} /\ c \in Readers(p)
      BY <2>1, <2>3, <2>5 DEF Readers, TypeOK
    <3>5. Cardinality(Readers(p)') = Cardinality(Readers(p)) - 1
      BY <3>4, ReadersFinite, FS_RemoveElement
    <3>6. Cardinality(Readers(p)) \in Nat
      BY ReadersFinite
    <3>7. QED
      BY <1>b, <1>q, <2>4, <3>3, <3>5, <3>6
  <2>6. CASE p # proc[c]
    <3>1. stdout'[p] = stdout[p]
      BY <2>1, <2>6 DEF TypeOK
    <3>2. w2 >= w
      <4>1. m2 = m /\ n2 = n
        BY <1>d, <2>1, <3>1
      <4>2. QED
        BY <1>w, <4>1
    <3>3. Readers(p)' \subseteq Readers(p)
      BY <1>e, <2>1, <2>3
    <3>4. QED
      BY <1>b, <1>w, <2>4, <3>2, <3>3, FedStays
  <2>7. QED
    BY <2>5, <2>6
<1>8. ASSUME NEW q \in Callers, Serve(q) PROVE FedBy(p)'
  <2>1. /\ stdin[q] # <<>> /\ stdin' = [stdin EXCEPT ![q] = Tail(@)]
        /\ UNCHANGED <<pc, proc, child>>
    BY <1>8 DEF Serve
  <2>a. PICK frame : frame = Head(stdin[q])
    OBVIOUS
  <2>2. PICK line \in Answer(frame), printed \in {<<>>} \cup {<<l>> : l \in setup.prints} :
          stdout' = [stdout EXCEPT ![q] = @ \o printed \o <<line>>]
    BY <1>8, <2>a DEF Serve
  <2>3. Readers(p)' = Readers(p) /\ (Up(p)' => Up(p))
    BY <2>1 DEF Readers, Up
  <2>4. w2 >= w
    <3>1. CASE p = q
      <4>1. stdin'[p] = Tail(stdin[p]) /\ stdout'[p] = stdout[p] \o printed \o <<line>>
        BY <2>1, <2>2, <3>1 DEF TypeOK
      <4>2. m2 = m - 1
        BY <1>c, <1>d, <2>1, <3>1, <4>1, TailLength
      <4>3. printed \in Seq(setup.prints)
        <5>1. CASE printed = <<>>
          BY <5>1
        <5>2. ASSUME NEW l \in setup.prints, printed = <<l>> PROVE printed \in Seq(setup.prints)
          <6>1. \A S : \A x \in S : <<x>> \in Seq(S)
            OBVIOUS
          <6>2. QED
            BY <5>2, <6>1
        <5>3. QED
          BY <5>1, <5>2
      <4>4. PICK more \in Nat : n2 = n + more + 1
        <5>1. Len(stdout[p] \o printed \o <<line>>) = Len(stdout[p]) + Len(printed) + 1
          BY <1>c, <4>3, LinesLength
        <5>2. Len(printed) \in Nat
          BY <4>3, Lengths
        <5>3. n2 = n + Len(printed) + 1
          BY <1>d, <4>1, <5>1
        <5>4. QED
          BY <5>2, <5>3
      <4>5. QED
        BY <1>w, <4>2, <4>4
    <3>2. CASE p # q
      <4>1. stdin'[p] = stdin[p] /\ stdout'[p] = stdout[p]
        BY <2>1, <2>2, <3>2 DEF TypeOK
      <4>2. m2 = m /\ n2 = n
        BY <1>d, <4>1
      <4>3. QED
        BY <1>w, <4>2
    <3>3. QED
      BY <3>1, <3>2
  <2>5. QED
    BY <1>b, <1>w, <2>3, <2>4, FedStays
<1>9. ASSUME NEW q \in Callers, Dies(q) PROVE FedBy(p)'
  <2>1. child' = [child EXCEPT ![q] = "dead"] /\ UNCHANGED <<pc, proc, stdin, stdout>>
    BY <1>9 DEF Dies, pipes
  <2>2. Readers(p)' = Readers(p) /\ (Up(p)' => Up(p))
    BY <2>1 DEF Readers, Up, TypeOK
  <2>3. w2 >= w
    BY <1>f, <2>1
  <2>4. QED
    BY <1>b, <1>w, <2>2, <2>3, FedStays
<1>10. QED
  BY <1>1, <1>2, <1>3, <1>4, <1>5, <1>6, <1>7, <1>8, <1>9 DEF Next, Handle

(* The safety half of EveryInputAnswered (wrapper.py:362, EOF), for every  *)
(* container: a caller that reads has a line before it, or its child is up *)
(* and has a frame to answer, or its child has died. Whichever caller      *)
(* takes a line, none is left to wait for one that nobody will write.      *)
THEOREM ReadersGetAnswers == Spec => []NoneWaitsInVain
<1>1. Init => Fed
  <2> SUFFICES ASSUME Init PROVE Fed
    OBVIOUS
  <2>1. Unspawned
    BY Marks DEF Init, Unspawned, Callers
  <2>2. \A p \in Callers : ~Up(p)
    BY DEF Init, Up
  <2>3. QED
    BY <2>1, <2>2 DEF Fed, FedBy
<1>2. TypeOK /\ Bound /\ Fed /\ [Next]_vars => Fed'
  <2> SUFFICES ASSUME TypeOK, Bound, Fed, [Next]_vars PROVE Fed'
    OBVIOUS
  <2>1. Unspawned'
    BY UnspawnedStep DEF Fed
  <2>2. CASE Next
    <3>1. TypeOK'
      BY TypeStep
    <3>2. \A p \in Callers : FedBy(p)'
      BY <2>2, <3>1, FedStep
    <3>3. QED
      BY <2>1, <3>2 DEF Fed
  <2>3. CASE UNCHANGED vars
    BY <2>1, <2>3 DEF vars, children, pipes, Fed, FedBy, Readers, Waiting, Up
  <2>4. QED
    BY <2>2, <2>3
<1>3. TypeOK /\ Bound /\ Fed => NoneWaitsInVain
  <2> SUFFICES ASSUME TypeOK, Bound, Fed, NEW c \in Callers, pc[c] = "read",
                      stdout[proc[c]] = <<>>, child[proc[c]] # "dead"
               PROVE  Up(proc[c]) /\ stdin[proc[c]] # <<>>
    BY DEF NoneWaitsInVain
  <2>1. PICK p \in Callers : p = proc[c]
    BY DEF Bound, TypeOK
  <2>2. Up(p)
    BY <2>1 DEF Fed, Unspawned, Up, TypeOK
  <2>3. Cardinality(Readers(p)) # 0
    <3>1. c \in Readers(p)
      BY <2>1 DEF Readers
    <3>2. QED
      BY <3>1, ReadersFinite, FS_EmptySet
  <2>4. Waiting(p) # 0
    <3>1. Cardinality(Readers(p)) <= Waiting(p) /\ Cardinality(Readers(p)) \in Nat
      BY <2>2, ReadersFinite DEF Fed, FedBy
    <3>2. QED
      BY <2>3, <3>1
  <2>5. stdin[p] # <<>>
    <3>1. Waiting(p) = Len(stdin[p]) + 0
      BY <2>1 DEF Waiting
    <3>2. QED
      BY <2>4, <3>1
  <2>6. QED
    BY <2>1, <2>2, <2>5
<1>4. QED
  BY <1>1, <1>2, <1>3, SaidAlways, PTL DEF Spec
===============================================================================
