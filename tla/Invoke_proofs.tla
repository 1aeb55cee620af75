------------------------------ MODULE Invoke_proofs ------------------------------
(***************************************************************************)
(* Proofs about one invocation (the part "invoke" of CallPath): what is    *)
(* polled was enqueued, what was collected ran, and every execution of an  *)
(* input is paid for by an attempt of the map or of the put.               *)
(***************************************************************************)
EXTENDS CallPath, FiniteSetTheorems, WellFoundedInduction, TLAPS

-------------------------------------------------------------------------------
(* A map opens at most one call per attempt; a call that is waited for is  *)
(* open and has its inputs.                                                *)
Opens == pc = "map" => opened < attempt
Called == pc \in {"put", "poll", "spawned"} \cup I!Polled => call \in I!Calls
Enqueued == pc \in {"poll", "spawned"} \cup I!Polled => I!Want \subseteq I!Seen(call)

(* Only what ran has an output, and only what has an output is collected.  *)
Outputs == \A c \in I!Calls : \A p \in DOMAIN outputs[c] : ran[outputs[c][p].idx] > 0
Gathered == \A i \in I!Ordinals : got[i] # None => got[i] = i /\ ran[i] > 0
Complete == pc = "ok" => \A i \in I!Awaited : got[i] # None

(* The copies of an input that are waiting to run, and how many copies,    *)
(* waiting or run, the attempts made so far can have left.                 *)
Waiting(i) == {w \in I!Calls \X Nat : w[2] \in 1 .. queued[w[1]][i]}
Paid == CASE pc = "map" -> attempt - 1
          [] pc = "put" -> (MaxAttempts - 1) + (attempt - 1)
          [] OTHER -> 2 * MaxAttempts - 1
Bounded == \A i \in I!Ordinals : /\ IsFiniteSet(Waiting(i))
                                 /\ Cardinality(Waiting(i)) + ran[i] <= Paid

InvokeInv == /\ I!TypeOK /\ Opens /\ Called /\ Enqueued
             /\ Outputs /\ Gathered /\ Complete /\ Bounded

(* A nonempty set of naturals with a bound has a greatest element.         *)
LEMMA GreatestOf ==
  ASSUME NEW S, S \subseteq Nat, S # {}, NEW b \in Nat, \A n \in S : n <= b
  PROVE  \E m \in S : \A n \in S : n <= m
<1> DEFINE Less == OpToRel(<, Nat)
           Gaps == {b - n : n \in S}
<1>1. IsWellFoundedOn(Less, Nat)
  BY NatLessThanWellFounded
<1>2. Gaps \subseteq Nat /\ Gaps # {}
  <2>1. \A n \in S : b - n \in Nat
    OBVIOUS
  <2>2. QED
    BY <2>1
<1>3. PICK x \in Gaps : \A y \in Gaps : <<y, x>> \notin Less
  <2> HIDE DEF Less, Gaps
  <2> QED
    BY <1>1, <1>2, WFMin
<1>4. ASSUME NEW y \in Gaps PROVE ~(y < x)
  <2>1. <<y, x>> \notin Less /\ x \in Nat /\ y \in Nat
    BY <1>2, <1>3
  <2>2. QED
    BY <2>1 DEF OpToRel
<1>5. PICK m \in S : x = b - m
  BY <1>3
<1>6. ASSUME NEW n \in S PROVE n <= m
  <2>1. ~(b - n < b - m)
    BY <1>4, <1>5
  <2>2. QED
    BY <2>1
<1>7. QED
  BY <1>6

(* What Max picks.                                                         *)
LEMMA MaxOf ==
  ASSUME NEW S, S \subseteq Nat, S # {}, NEW b \in Nat, \A n \in S : n <= b
  PROVE  I!Max(S) \in S /\ \A n \in S : n <= I!Max(S)
<1>1. PICK m \in S : \A n \in S : n <= m
  BY GreatestOf
<1>2. \A n \in S : m >= n
  BY <1>1
<1>3. I!Max(S) \in S /\ \A n \in S : I!Max(S) >= n
  BY <1>2 DEF I!Max
<1>4. \A n \in S : n \in Nat
  OBVIOUS
<1> QED
  BY <1>3, <1>4

(* A lost attempt is tried again or gives up.                              *)
LEMMA Retried ==
  ASSUME I!TypeOK, pc \in I!Rpcs, I!Lost
  PROVE  /\ attempt' \in 1 .. MaxAttempts
         /\ \/ pc' = pc /\ attempt' = attempt + 1
            \/ pc = "poll" /\ pc' = "failed"
            \/ pc \in {"map", "put"} /\ pc' = "not_enqueued"
         /\ UNCHANGED <<kind, late, call, cursor, got>>
  BY InvokeConstants DEF I!Lost, I!Retry, I!GiveUp, I!TypeOK, I!Rpcs, I!MaxAttemptsType

(* Enqueueing adds at most one copy of each of the given inputs to one     *)
(* call, which then has them all.                                          *)
LEMMA Enqueues ==
  ASSUME I!TypeOK, NEW c \in I!Calls, NEW ordinals \in SUBSET I!Ordinals,
         I!Enqueue(c, ordinals), UNCHANGED outputs
  PROVE  /\ queued' \in [I!Calls -> [I!Ordinals -> Nat]]
         /\ \A d \in I!Calls : I!Seen(d) \subseteq I!Seen(d)'
         /\ ordinals \subseteq I!Seen(c)'
         /\ \A i \in I!Ordinals :
              \/ Waiting(i)' = Waiting(i)
              \/ Waiting(i)' = Waiting(i) \cup {<<c, queued[c][i] + 1>>}
<1>1. PICK added \in {ordinals, ordinals \ I!Seen(c)} :
        queued' = [queued EXCEPT ![c] =
                     [i \in I!Ordinals |-> @[i] + IF i \in added THEN 1 ELSE 0]]
  BY DEF I!Enqueue
<1>2. queued \in [I!Calls -> [I!Ordinals -> Nat]]
  BY DEF I!TypeOK
<1>3. \A i \in I!Ordinals :
        queued'[c][i] = queued[c][i] + (IF i \in added THEN 1 ELSE 0)
  BY <1>1, <1>2
<1>4. \A d \in I!Calls \ {c} : queued'[d] = queued[d]
  BY <1>1, <1>2
<1>5. queued' \in [I!Calls -> [I!Ordinals -> Nat]]
  BY <1>1, <1>2
<1>6. ASSUME NEW d \in I!Calls, NEW i \in I!Ordinals
      PROVE  queued[d][i] \in Nat /\ queued'[d][i] \in Nat /\ queued[d][i] <= queued'[d][i]
  BY <1>2, <1>3, <1>4, <1>5
<1>7. \A d \in I!Calls : I!Seen(d) \subseteq I!Seen(d)'
  BY <1>6 DEF I!Seen
<1>8. ordinals \subseteq I!Seen(c)'
  <2> SUFFICES ASSUME NEW i \in ordinals PROVE i \in I!Seen(c)'
    OBVIOUS
  <2>1. CASE i \in I!Seen(c)
    BY <1>7, <2>1
  <2>2. CASE i \notin I!Seen(c)
    <3>1. i \in added /\ i \in I!Ordinals
      BY <1>1, <2>2
    <3>2. queued'[c][i] > 0
      BY <1>3, <1>6, <3>1
    <3> QED
      BY <3>1, <3>2 DEF I!Seen
  <2> QED
    BY <2>1, <2>2
<1>9. ASSUME NEW i \in I!Ordinals
      PROVE  \/ Waiting(i)' = Waiting(i)
             \/ Waiting(i)' = Waiting(i) \cup {<<c, queued[c][i] + 1>>}
  <2>1. CASE i \in added
    <3>1. ASSUME NEW w \in I!Calls \X Nat
          PROVE  w[2] \in 1 .. queued'[w[1]][i] <=>
                   w[2] \in 1 .. queued[w[1]][i] \/ w = <<c, queued[c][i] + 1>>
      <4>1. w[1] \in I!Calls /\ w[2] \in Nat /\ w = <<w[1], w[2]>>
        OBVIOUS
      <4>2. CASE w[1] = c
        <5>1. queued'[c][i] = queued[c][i] + 1 /\ queued[c][i] \in Nat
          BY <1>3, <1>6, <2>1
        <5> QED
          BY <4>1, <4>2, <5>1
      <4>3. CASE w[1] # c
        BY <1>4, <4>1, <4>3
      <4> QED
        BY <4>2, <4>3
    <3>2. <<c, queued[c][i] + 1>> \in I!Calls \X Nat
      BY <1>6
    <3> QED
      BY <3>1, <3>2 DEF Waiting
  <2>2. CASE i \notin added
    <3>1. \A d \in I!Calls : queued'[d][i] = queued[d][i]
      BY <1>3, <1>4, <1>6, <2>2
    <3> QED
      BY <3>1 DEF Waiting
  <2> QED
    BY <2>1, <2>2
<1> QED
  BY <1>5, <1>7, <1>8, <1>9

(* A set that grew by at most one element.                                 *)
LEMMA Grown ==
  ASSUME NEW S, IsFiniteSet(S), NEW e, NEW T, T = S \/ T = S \cup {e}
  PROVE  /\ IsFiniteSet(T)
         /\ Cardinality(S) \in Nat /\ Cardinality(T) \in Nat
         /\ Cardinality(T) <= Cardinality(S) + 1
<1>1. Cardinality(S) \in Nat
  BY FS_CardinalityType
<1>2. CASE T = S
  BY <1>1, <1>2
<1>3. CASE T = S \cup {e}
  <2>1. /\ IsFiniteSet(S \cup {e})
        /\ \/ Cardinality(S \cup {e}) = Cardinality(S)
           \/ Cardinality(S \cup {e}) = Cardinality(S) + 1
    BY FS_AddElement
  <2> QED
    BY <1>1, <1>3, <2>1
<1> QED
  BY <1>2, <1>3

LEMMA InvokeStarts == I!Init => InvokeInv
<1> SUFFICES ASSUME I!Init PROVE InvokeInv
  OBVIOUS
<1>1. I!TypeOK
  <2>1. outputs \in [I!Calls -> Seq([idx : I!Ordinals, ok : BOOLEAN])]
    BY DEF I!Init
  <2>2. /\ kind \in Kinds /\ pc \in I!Rpcs \cup I!Ended /\ attempt \in 1 .. MaxAttempts
        /\ late \in BOOLEAN /\ call \in I!Calls \cup {None} /\ cursor \in Nat
        /\ opened \in 0 .. MaxAttempts /\ expiring \subseteq I!Calls
    <3>1. MaxAttempts \in Nat \ {0}
      BY InvokeConstants DEF I!MaxAttemptsType
    <3>2. /\ kind \in Kinds /\ pc = "map" /\ attempt = 1 /\ late = FALSE
          /\ call = None /\ cursor = 0 /\ opened = 0 /\ expiring = {}
      BY DEF I!Init
    <3>3. late \in BOOLEAN
      BY <3>2
    <3> HIDE DEF I!Calls
    <3> QED
      BY <3>1, <3>2, <3>3 DEF I!Rpcs
  <2>3. /\ got \in [I!Ordinals -> I!Ordinals \cup {None}]
        /\ queued \in [I!Calls -> [I!Ordinals -> Nat]]
        /\ expired \in [I!Calls -> Nat]
        /\ ran \in [I!Ordinals -> Nat]
    BY DEF I!Init
  <2> QED
    BY <2>1, <2>2, <2>3 DEF I!TypeOK
<1>2. Opens /\ Called /\ Enqueued /\ Complete
  BY DEF I!Init, Opens, Called, Enqueued, Complete, I!Polled
<1>3. Outputs /\ Gathered
  BY DEF I!Init, Outputs, Gathered
<1>4. Bounded
  <2> SUFFICES ASSUME NEW i \in I!Ordinals
               PROVE  IsFiniteSet(Waiting(i)) /\ Cardinality(Waiting(i)) + ran[i] <= Paid
    BY DEF Bounded
  <2>1. Waiting(i) = {}
    BY DEF I!Init, Waiting
  <2>2. ran[i] = 0 /\ Paid = 0
    BY DEF I!Init, Paid
  <2> QED
    BY <2>1, <2>2, FS_EmptySet
<1> QED
  BY <1>1, <1>2, <1>3, <1>4 DEF InvokeInv

(* An attempt is lost, with or without effect on the server: the inputs it *)
(* enqueued are paid for by it.                                            *)
LEMMA LostStep ==
  ASSUME InvokeInv, pc \in I!Rpcs, I!Lost,
         opened' \in Nat, opened' <= opened + 1, pc # "map" => opened' = opened,
         queued' \in [I!Calls -> [I!Ordinals -> Nat]],
         \A c \in I!Calls : I!Seen(c) \subseteq I!Seen(c)',
         \A i \in I!Ordinals : \/ Waiting(i)' = Waiting(i)
                               \/ /\ pc # "poll"
                                  /\ \E e : Waiting(i)' = Waiting(i) \cup {e},
         UNCHANGED <<outputs, ran, expired>>, expiring' \subseteq I!Calls
  PROVE  InvokeInv'
<1> USE InvokeConstants
<1>0. I!TypeOK /\ Opens /\ Called /\ Enqueued /\ Outputs /\ Gathered /\ Complete /\ Bounded
  BY DEF InvokeInv
<1>1. /\ attempt' \in 1 .. MaxAttempts
      /\ \/ pc' = pc /\ attempt' = attempt + 1
         \/ pc = "poll" /\ pc' = "failed"
         \/ pc \in {"map", "put"} /\ pc' = "not_enqueued"
      /\ UNCHANGED <<kind, late, call, cursor, got>>
  BY <1>0, Retried
<1>2. attempt \in 1 .. MaxAttempts /\ opened \in 0 .. MaxAttempts /\ MaxAttempts \in Nat \ {0}
  BY <1>0 DEF I!TypeOK, I!MaxAttemptsType
<1>3. opened' \in 0 .. MaxAttempts
  BY <1>0, <1>2 DEF Opens
<1>4. I!TypeOK'
  BY <1>0, <1>1, <1>3 DEF I!TypeOK, I!Rpcs, I!Ended, I!Polled
<1>5. Opens'
  BY <1>0, <1>1, <1>2 DEF Opens
<1>6. Called' /\ Complete'
  BY <1>0, <1>1 DEF Called, Complete, I!Polled, I!Rpcs, I!Awaited
<1>7. Enqueued'
  <2> SUFFICES ASSUME pc' \in {"poll", "spawned"} \cup I!Polled
               PROVE  I!Want' \subseteq I!Seen(call)'
    BY DEF Enqueued, I!Polled
  <2>1. pc = "poll"
    BY <1>1 DEF I!Rpcs, I!Polled
  <2>2. call \in I!Calls /\ call' = call /\ I!Want' = I!Want
    BY <1>0, <1>1, <2>1 DEF Called, I!Want, I!IsMap
  <2>3. I!Want \subseteq I!Seen(call)
    BY <1>0, <2>1 DEF Enqueued
  <2>4. I!Seen(call)' = I!Seen(call)'
    OBVIOUS
  <2>5. PICK c \in I!Calls : c = call /\ c = call'
    BY <2>2
  <2>6. I!Seen(c) \subseteq I!Seen(c)'
    OBVIOUS
  <2>7. I!Seen(c) = I!Seen(call) /\ I!Seen(c)' = I!Seen(call)'
    BY <2>5 DEF I!Seen
  <2> QED
    BY <2>2, <2>3, <2>6, <2>7
<1>8. Outputs' /\ Gathered'
  BY <1>0, <1>1 DEF Outputs, Gathered
<1>9. Bounded'
  <2> SUFFICES ASSUME NEW i \in I!Ordinals
               PROVE  /\ IsFiniteSet(Waiting(i)')
                      /\ Cardinality(Waiting(i)') + ran[i] <= Paid'
    BY DEF Bounded
  <2>1. /\ IsFiniteSet(Waiting(i)) /\ Cardinality(Waiting(i)) + ran[i] <= Paid
        /\ ran[i] \in Nat
    BY <1>0 DEF Bounded, I!TypeOK
  <2>2. CASE Waiting(i)' = Waiting(i)
    <3>1. Cardinality(Waiting(i)) \in Nat
      BY <2>1, FS_CardinalityType
    <3>2. Paid <= Paid'
      BY <1>1, <1>2 DEF Paid, I!Rpcs
    <3>3. Paid \in Int /\ Paid' \in Int
      BY <1>1, <1>2 DEF Paid
    <3> QED
      BY <2>1, <2>2, <3>1, <3>2, <3>3
  <2>3. ASSUME pc # "poll", NEW e, Waiting(i)' = Waiting(i) \cup {e}
        PROVE  /\ IsFiniteSet(Waiting(i)')
               /\ Cardinality(Waiting(i)') + ran[i] <= Paid'
    <3>1. /\ IsFiniteSet(Waiting(i)')
          /\ Cardinality(Waiting(i)) \in Nat /\ Cardinality(Waiting(i)') \in Nat
          /\ Cardinality(Waiting(i)') <= Cardinality(Waiting(i)) + 1
      BY <2>1, <2>3, Grown
    <3>2. Paid + 1 <= Paid' /\ Paid \in Int /\ Paid' \in Int
      BY <1>1, <1>2, <2>3 DEF Paid, I!Rpcs
    <3> QED
      BY <2>1, <3>1, <3>2
  <2> QED
    BY <2>2, <2>3
<1> QED
  BY <1>4, <1>5, <1>6, <1>7, <1>8, <1>9 DEF InvokeInv

(* The answer to a map or a put: the client goes on to poll a call that    *)
(* has its inputs, to put them, or it stops.                               *)
LEMMA AnsweredStep ==
  ASSUME InvokeInv, pc \in {"map", "put"}, attempt' = 1,
         UNCHANGED <<kind, late, cursor, got, outputs, ran, expiring, expired>>,
         call' \in I!Calls, pc' \in {"put", "poll", "spawned", "not_enqueued"},
         pc' = "put" => pc = "map" /\ queued' = queued,
         pc' \in {"poll", "spawned"} => I!Want \subseteq I!Seen(call)',
         opened' \in 0 .. MaxAttempts,
         queued' \in [I!Calls -> [I!Ordinals -> Nat]],
         \A i \in I!Ordinals : \/ Waiting(i)' = Waiting(i)
                               \/ \E e : Waiting(i)' = Waiting(i) \cup {e}
  PROVE  InvokeInv'
<1> USE InvokeConstants
<1>0. I!TypeOK /\ Opens /\ Called /\ Enqueued /\ Outputs /\ Gathered /\ Complete /\ Bounded
  BY DEF InvokeInv
<1>1. attempt \in 1 .. MaxAttempts /\ MaxAttempts \in Nat \ {0}
  BY <1>0 DEF I!TypeOK, I!MaxAttemptsType
<1>2. I!TypeOK'
  <2>1. /\ kind' \in Kinds /\ late' \in BOOLEAN /\ cursor' \in Nat
        /\ got' \in [I!Ordinals -> I!Ordinals \cup {None}]
        /\ outputs' \in [I!Calls -> Seq([idx : I!Ordinals, ok : BOOLEAN])]
        /\ expiring' \subseteq I!Calls
        /\ expired' \in [I!Calls -> Nat]
        /\ ran' \in [I!Ordinals -> Nat]
    BY <1>0 DEF I!TypeOK
  <2>2. attempt' \in 1 .. MaxAttempts /\ pc' \in I!Rpcs \cup I!Ended
    BY <1>1 DEF I!Rpcs, I!Ended
  <2> QED
    BY <2>1, <2>2 DEF I!TypeOK
<1>3. Opens' /\ Called' /\ Complete'
  BY DEF Opens, Called, Complete, I!Polled
<1>4. Enqueued'
  BY DEF Enqueued, I!Polled, I!Want, I!IsMap
<1>5. Outputs' /\ Gathered'
  BY <1>0 DEF Outputs, Gathered
<1>6. Bounded'
  <2> SUFFICES ASSUME NEW i \in I!Ordinals
               PROVE  /\ IsFiniteSet(Waiting(i)')
                      /\ Cardinality(Waiting(i)') + ran[i] <= Paid'
    BY DEF Bounded
  <2>1. /\ IsFiniteSet(Waiting(i)) /\ Cardinality(Waiting(i)) + ran[i] <= Paid
        /\ ran[i] \in Nat
    BY <1>0 DEF Bounded, I!TypeOK
  <2>2. CASE pc' = "put"
    <3>1. Waiting(i)' = Waiting(i)
      BY <2>2 DEF Waiting
    <3>2. Cardinality(Waiting(i)) \in Nat
      BY <2>1, FS_CardinalityType
    <3>3. Paid <= Paid' /\ Paid \in Int /\ Paid' \in Int
      BY <1>1, <2>2 DEF Paid
    <3> QED
      BY <2>1, <3>1, <3>2, <3>3
  <2>3. CASE pc' # "put"
    <3>1. PICK e : Waiting(i)' = Waiting(i) \/ Waiting(i)' = Waiting(i) \cup {e}
      OBVIOUS
    <3>2. /\ IsFiniteSet(Waiting(i)')
          /\ Cardinality(Waiting(i)) \in Nat /\ Cardinality(Waiting(i)') \in Nat
          /\ Cardinality(Waiting(i)') <= Cardinality(Waiting(i)) + 1
      BY <2>1, <3>1, Grown
    <3>3. Paid + 1 <= Paid' /\ Paid \in Int /\ Paid' \in Int
      BY <1>1, <2>3 DEF Paid
    <3> QED
      BY <2>1, <3>2, <3>3
  <2> QED
    BY <2>2, <2>3
<1> QED
  BY <1>2, <1>3, <1>4, <1>5, <1>6 DEF InvokeInv

(* FunctionMap: each attempt opens a call of its own.                      *)
LEMMA MapStep == InvokeInv /\ I!FunctionMap => InvokeInv'
<1> SUFFICES ASSUME InvokeInv, I!FunctionMap PROVE InvokeInv'
  OBVIOUS
<1> USE InvokeConstants
<1>0. I!TypeOK /\ Opens
  BY DEF InvokeInv
<1>1. /\ pc = "map" /\ opened' = opened + 1
      /\ UNCHANGED <<outputs, ran, expiring, expired>>
  BY DEF I!FunctionMap, I!expiry
<1>2. opened + 1 \in I!Calls /\ opened' \in 0 .. MaxAttempts /\ opened \in Nat
  <2>1. attempt \in 1 .. MaxAttempts /\ opened \in 0 .. MaxAttempts /\ opened < attempt
    BY <1>0, <1>1 DEF I!TypeOK, Opens
  <2> QED
    BY <1>1, <2>1 DEF I!Calls, I!MaxAttemptsType
<1>3. PICK c \in I!Calls : c = opened + 1 /\ c = opened'
  BY <1>1, <1>2
<1>4. I!Want \in SUBSET I!Ordinals
  BY DEF I!Want, I!Ordinals, I!NType
<1>5. PICK pipelined \in IF I!IsMap THEN {FALSE} ELSE BOOLEAN :
       /\ IF pipelined THEN I!Enqueue(opened', I!Want) ELSE UNCHANGED queued
       /\ \/ I!Lost
          \/ /\ call' = opened'
             /\ I!GoOn(I!AfterMap(pipelined))
             /\ UNCHANGED <<kind, late, cursor, got>>
  BY DEF I!FunctionMap
<1>6. pipelined => I!Enqueue(c, I!Want)
  BY <1>3, <1>5 DEF I!Enqueue, I!Seen
<1>7. /\ queued' \in [I!Calls -> [I!Ordinals -> Nat]]
      /\ \A d \in I!Calls : I!Seen(d) \subseteq I!Seen(d)'
      /\ pipelined => I!Want \subseteq I!Seen(c)'
      /\ \A i \in I!Ordinals : \/ Waiting(i)' = Waiting(i)
                               \/ \E e : Waiting(i)' = Waiting(i) \cup {e}
  <2>1. CASE pipelined
    BY <1>0, <1>1, <1>4, <1>6, <2>1, Enqueues
  <2>2. CASE ~pipelined
    BY <1>0, <1>1, <1>5, <2>2 DEF I!TypeOK, I!Seen, Waiting
  <2> QED
    BY <2>1, <2>2
<1>8. CASE I!Lost
  <2>1. pc \in I!Rpcs /\ expiring' \subseteq I!Calls /\ opened' \in Nat /\ opened' <= opened + 1
    BY <1>0, <1>1, <1>2 DEF I!Rpcs, I!TypeOK
  <2> QED
    BY <1>1, <1>7, <1>8, <2>1, LostStep
<1>9. CASE /\ call' = opened'
           /\ I!GoOn(I!AfterMap(pipelined))
           /\ UNCHANGED <<kind, late, cursor, got>>
  <2>1. /\ call' \in I!Calls /\ attempt' = 1
        /\ pc' \in {"put", "poll", "spawned", "not_enqueued"}
        /\ pc' = "put" => pc = "map" /\ queued' = queued
    BY <1>1, <1>2, <1>3, <1>5, <1>9 DEF I!GoOn, I!AfterMap, I!AfterEnqueue
  <2>2. pc' \in {"poll", "spawned"} => pipelined
    BY <1>5, <1>9 DEF I!GoOn, I!AfterMap
  <2>3. pc' \in {"poll", "spawned"} => I!Want \subseteq I!Seen(call)'
    BY <1>3, <1>7, <1>9, <2>2 DEF I!Seen
  <2> QED
    BY <1>1, <1>2, <1>7, <1>9, <2>1, <2>3, AnsweredStep
<1> QED
  BY <1>5, <1>8, <1>9

(* FunctionPutInputs: the same call at every attempt.                      *)
LEMMA PutStep == InvokeInv /\ I!FunctionPutInputs => InvokeInv'
<1> SUFFICES ASSUME InvokeInv, I!FunctionPutInputs PROVE InvokeInv'
  OBVIOUS
<1> USE InvokeConstants
<1>0. I!TypeOK /\ Called
  BY DEF InvokeInv
<1>1. pc = "put" /\ UNCHANGED <<opened, outputs, ran, expiring, expired>>
  BY DEF I!FunctionPutInputs, I!expiry
<1>2. PICK c \in I!Calls : c = call
  BY <1>0, <1>1 DEF Called
<1>3. I!Want \in SUBSET I!Ordinals
  BY DEF I!Want, I!Ordinals, I!NType
<1>4. PICK taken \in SUBSET I!Want :
        /\ I!Enqueue(call, taken)
        /\ \/ I!Lost
           \/ /\ I!GoOn(IF taken = I!Want THEN I!AfterEnqueue ELSE "not_enqueued")
              /\ UNCHANGED <<kind, late, call, cursor, got>>
  BY DEF I!FunctionPutInputs
<1>5. I!Enqueue(c, taken)
  BY <1>2, <1>4 DEF I!Enqueue, I!Seen
<1>6. /\ queued' \in [I!Calls -> [I!Ordinals -> Nat]]
      /\ \A d \in I!Calls : I!Seen(d) \subseteq I!Seen(d)'
      /\ taken \subseteq I!Seen(c)'
      /\ \A i \in I!Ordinals : \/ Waiting(i)' = Waiting(i)
                               \/ \E e : Waiting(i)' = Waiting(i) \cup {e}
  <2>1. taken \in SUBSET I!Ordinals
    BY <1>3
  <2> QED
    BY <1>0, <1>1, <1>5, <2>1, Enqueues
<1>7. opened' \in 0 .. MaxAttempts /\ opened' <= opened + 1 /\ opened' \in Nat
  BY <1>0, <1>1 DEF I!TypeOK, I!MaxAttemptsType
<1>8. CASE I!Lost
  BY <1>0, <1>1, <1>6, <1>7, <1>8, LostStep DEF I!Rpcs, I!TypeOK
<1>9. CASE /\ I!GoOn(IF taken = I!Want THEN I!AfterEnqueue ELSE "not_enqueued")
           /\ UNCHANGED <<kind, late, call, cursor, got>>
  <2>1. /\ call' \in I!Calls /\ attempt' = 1
        /\ pc' \in {"poll", "spawned", "not_enqueued"}
        /\ pc' \in {"poll", "spawned"} => taken = I!Want
    BY <1>2, <1>9 DEF I!GoOn, I!AfterEnqueue
  <2>2. pc' \in {"poll", "spawned"} => I!Want \subseteq I!Seen(call)'
    BY <1>2, <1>6, <1>9, <2>1 DEF I!Seen
  <2> QED
    BY <1>1, <1>6, <1>7, <1>9, <2>1, <2>2, AnsweredStep
<1> QED
  BY <1>4, <1>8, <1>9

(* A step of a client that polls or has polled, which the call and what is *)
(* queued, run and answered under it do not feel.                          *)
LEMMA PollingStep ==
  ASSUME InvokeInv, pc \in {"poll", "spawned"} \cup I!Polled,
         UNCHANGED <<kind, call, opened, queued, outputs, ran>>,
         pc' \in {"poll"} \cup I!Polled, attempt' \in 1 .. MaxAttempts,
         late' \in BOOLEAN, cursor' \in Nat,
         got' \in [I!Ordinals -> I!Ordinals \cup {None}],
         expiring' \subseteq I!Calls, expired' \in [I!Calls -> Nat],
         Gathered', Complete'
  PROVE  InvokeInv'
<1> USE InvokeConstants
<1>0. I!TypeOK /\ Called /\ Enqueued /\ Outputs /\ Bounded
  BY DEF InvokeInv
<1>1. I!TypeOK'
  <2>1. /\ kind' \in Kinds /\ call' \in I!Calls \cup {None} /\ opened' \in 0 .. MaxAttempts
        /\ queued' \in [I!Calls -> [I!Ordinals -> Nat]]
        /\ outputs' \in [I!Calls -> Seq([idx : I!Ordinals, ok : BOOLEAN])]
        /\ ran' \in [I!Ordinals -> Nat]
    BY <1>0 DEF I!TypeOK
  <2>2. pc' \in I!Rpcs \cup I!Ended
    BY DEF I!Rpcs, I!Ended, I!Polled
  <2> QED
    BY <2>1, <2>2 DEF I!TypeOK
<1>2. Opens' /\ Called'
  BY <1>0 DEF Opens, Called, I!Polled
<1>3. Enqueued'
  BY <1>0 DEF Enqueued, I!Polled, I!Want, I!IsMap, I!Seen
<1>4. Outputs'
  BY <1>0 DEF Outputs
<1>5. Bounded'
  <2>1. Paid' = Paid
    BY DEF Paid, I!Polled
  <2>2. \A i : Waiting(i)' = Waiting(i)
    BY DEF Waiting
  <2> QED
    BY <1>0, <2>1, <2>2 DEF Bounded
<1> QED
  BY <1>1, <1>2, <1>3, <1>4, <1>5 DEF InvokeInv

(* FunctionGetOutputs: a window of outputs is kept under their ordinals.   *)
LEMMA PollStep == InvokeInv /\ I!FunctionGetOutputs => InvokeInv'
<1> SUFFICES ASSUME InvokeInv, I!FunctionGetOutputs PROVE InvokeInv'
  OBVIOUS
<1> USE InvokeConstants
<1>0. I!TypeOK /\ Called /\ Outputs /\ Gathered /\ Complete
  BY DEF InvokeInv
<1>1. pc = "poll" /\ pc \in I!Rpcs /\ call \in I!Calls
  BY <1>0 DEF I!FunctionGetOutputs, I!Rpcs, Called
<1>2. /\ attempt \in 1 .. MaxAttempts /\ 1 \in 1 .. MaxAttempts
      /\ opened \in Nat /\ late \in BOOLEAN /\ cursor \in Nat
      /\ got \in [I!Ordinals -> I!Ordinals \cup {None}]
      /\ queued \in [I!Calls -> [I!Ordinals -> Nat]]
      /\ outputs[call] \in Seq([idx : I!Ordinals, ok : BOOLEAN])
      /\ expiring \subseteq I!Calls /\ expired \in [I!Calls -> Nat]
  <2>1. attempt \in 1 .. MaxAttempts /\ MaxAttempts \in Nat \ {0}
    BY <1>0 DEF I!TypeOK, I!MaxAttemptsType
  <2>2. late \in BOOLEAN /\ cursor \in Nat /\ expiring \subseteq I!Calls
    BY <1>0 DEF I!TypeOK
  <2>3. /\ got \in [I!Ordinals -> I!Ordinals \cup {None}]
        /\ queued \in [I!Calls -> [I!Ordinals -> Nat]]
        /\ expired \in [I!Calls -> Nat]
    BY <1>0 DEF I!TypeOK
  <2>4. outputs[call] \in Seq([idx : I!Ordinals, ok : BOOLEAN])
    BY <1>0, <1>1 DEF I!TypeOK
  <2>5. opened \in Nat
    BY <1>0 DEF I!TypeOK
  <2> QED
    BY <2>1, <2>2, <2>3, <2>4, <2>5
<1>3. CASE /\ I!GoOn("poll")
           /\ UNCHANGED <<kind, late, call, cursor, got, opened, queued, outputs, ran,
                          expiring, expired>>
  <2>1. Gathered' /\ Complete'
    BY <1>0, <1>3 DEF Gathered, Complete, I!GoOn
  <2> QED
    BY <1>1, <1>2, <1>3, <2>1, PollingStep DEF I!GoOn
<1>4. ASSUME NEW window \in (SUBSET I!Available) \ {{}},
             expiring' = expiring \cup {call},
             UNCHANGED <<opened, queued, outputs, ran, expired>>,
             \/ I!Lost
             \/ /\ cursor' = I!Max(window)
                /\ I!Consume(window)
                /\ UNCHANGED <<kind, late, call>>
      PROVE  InvokeInv'
  <2>1. expiring' \subseteq I!Calls
    BY <1>1, <1>2, <1>4
  <2>2. CASE I!Lost
    <3>1. /\ opened' \in Nat /\ opened' <= opened + 1 /\ opened' = opened
          /\ queued' \in [I!Calls -> [I!Ordinals -> Nat]]
          /\ \A c \in I!Calls : I!Seen(c) \subseteq I!Seen(c)'
          /\ \A i \in I!Ordinals : Waiting(i)' = Waiting(i)
      BY <1>2, <1>4 DEF I!Seen, Waiting
    <3> QED
      BY <1>1, <1>4, <2>1, <2>2, <3>1, LostStep
  <2>3. CASE /\ cursor' = I!Max(window)
             /\ I!Consume(window)
             /\ UNCHANGED <<kind, late, call>>
    <3>1. window # {} /\ \A p \in window : p \in 1 .. Len(outputs[call])
      BY <1>4 DEF I!Available
    <3>2. cursor' \in Nat
      <4>1. window \subseteq Nat /\ Len(outputs[call]) \in Nat
            /\ \A p \in window : p <= Len(outputs[call])
        BY <1>2, <3>1
      <4>2. I!Max(window) \in window
        BY <3>1, <4>1, MaxOf
      <4> QED
        BY <2>3, <4>1, <4>2
    <3>3. ASSUME NEW p \in window
          PROVE  I!Output(p).idx \in I!Ordinals /\ ran[I!Output(p).idx] > 0
      <4>1. p \in DOMAIN outputs[call]
        BY <1>2, <3>1
      <4> QED
        <5>1. outputs[call][p].idx \in I!Ordinals
          <6> DEFINE E == [idx : I!Ordinals, ok : BOOLEAN]
          <6>1. outputs[call] \in Seq(E)
            BY <1>2
          <6> HIDE DEF E
          <6>2. outputs[call][p] \in E
            BY <4>1, <6>1
          <6> QED
            BY <6>2 DEF E
        <5>2. ran[outputs[call][p].idx] > 0
          BY <1>0, <1>1, <4>1 DEF Outputs
        <5> QED
          BY <5>1, <5>2 DEF I!Output
    <3>4. CASE I!GoOn("failed") /\ UNCHANGED got
      <4>1. Gathered' /\ Complete'
        BY <1>0, <1>4, <3>4 DEF Gathered, Complete, I!GoOn
      <4>2. pc' \in {"poll"} \cup I!Polled /\ attempt' \in 1 .. MaxAttempts
        BY <1>2, <3>4 DEF I!GoOn, I!Polled
      <4> QED
        BY <1>1, <1>2, <1>4, <2>1, <2>3, <3>2, <3>4, <4>1, <4>2, PollingStep
    <3>5. CASE /\ got' = I!Collect(window)
               /\ I!GoOn(IF \A i \in I!Awaited : got'[i] # None THEN "ok" ELSE "poll")
      <4>1. got' \in [I!Ordinals -> I!Ordinals \cup {None}]
        BY <1>2, <3>5 DEF I!Collect
      <4>2. Gathered'
        BY <1>0, <1>2, <1>4, <3>3, <3>5 DEF Gathered, I!Collect
      <4>3. I!Awaited' = I!Awaited
        BY <2>3 DEF I!Awaited
      <4>4. Complete'
        BY <3>5, <4>3 DEF Complete, I!GoOn
      <4>5. pc' \in {"poll"} \cup I!Polled /\ attempt' \in 1 .. MaxAttempts
        BY <1>2, <3>5 DEF I!GoOn, I!Polled
      <4> QED
        BY <1>1, <1>2, <1>4, <2>1, <2>3, <3>2, <4>1, <4>2, <4>4, <4>5, PollingStep
    <3> QED
      BY <2>3, <3>4, <3>5 DEF I!Consume
  <2> QED
    BY <1>4, <2>2, <2>3
<1> QED
  BY <1>3, <1>4 DEF I!FunctionGetOutputs, I!server, I!work, I!expiry

(* A container runs an input: one copy less waits, one more has run.       *)
LEMMA RunStep ==
  ASSUME InvokeInv, NEW c \in I!Calls, NEW i \in I!Ordinals, I!Run(c, i)
  PROVE  InvokeInv'
<1> USE InvokeConstants
<1>0. /\ I!TypeOK /\ Opens /\ Called /\ Enqueued /\ Outputs
      /\ Gathered /\ Complete /\ Bounded
  BY DEF InvokeInv
<1>1. PICK ok \in BOOLEAN :
        outputs' = [outputs EXCEPT ![c] = Append(@, [idx |-> i, ok |-> ok])]
  BY DEF I!Run
<1>2. /\ queued[c][i] > 0
      /\ queued' = [queued EXCEPT ![c][i] = @ - 1]
      /\ ran' = [ran EXCEPT ![i] = @ + 1]
      /\ UNCHANGED <<kind, pc, attempt, late, call, cursor, got, opened, expiring, expired>>
  BY DEF I!Run, I!client, I!expiry
<1>3. /\ queued \in [I!Calls -> [I!Ordinals -> Nat]]
      /\ outputs \in [I!Calls -> Seq([idx : I!Ordinals, ok : BOOLEAN])]
      /\ ran \in [I!Ordinals -> Nat]
  BY <1>0 DEF I!TypeOK
<1>4. /\ queued' \in [I!Calls -> [I!Ordinals -> Nat]]
      /\ queued'[c][i] = queued[c][i] - 1 /\ queued[c][i] \in Nat /\ queued'[c][i] \in Nat
      /\ \A d \in I!Calls : \A j \in I!Ordinals :
           d # c \/ j # i => queued'[d][j] = queued[d][j]
  BY <1>2, <1>3
<1>5. ran' \in [I!Ordinals -> Nat] /\ ran'[i] = ran[i] + 1
      /\ \A j \in I!Ordinals : ran[j] \in Nat /\ ran[j] <= ran'[j] /\ (j # i => ran'[j] = ran[j])
  BY <1>2, <1>3
<1> DEFINE entry == [idx |-> i, ok |-> ok]
<1>6. entry \in [idx : I!Ordinals, ok : BOOLEAN] /\ entry.idx = i
  OBVIOUS
<1> HIDE DEF entry
<1>7. /\ outputs' \in [I!Calls -> Seq([idx : I!Ordinals, ok : BOOLEAN])]
      /\ outputs'[c] = Append(outputs[c], entry)
      /\ \A d \in I!Calls \ {c} : outputs'[d] = outputs[d]
  <2> DEFINE longer == Append(outputs[c], entry)
  <2>1. outputs' = [outputs EXCEPT ![c] = longer]
    BY <1>1 DEF entry
  <2>2. longer \in Seq([idx : I!Ordinals, ok : BOOLEAN])
    <3> DEFINE E == [idx : I!Ordinals, ok : BOOLEAN]
    <3>1. outputs[c] \in Seq(E) /\ entry \in E
      BY <1>3, <1>6
    <3> HIDE DEF E
    <3>2. Append(outputs[c], entry) \in Seq(E)
      BY <3>1
    <3> QED
      BY <3>2 DEF E
  <2>3. outputs'[c] = longer
    BY <1>3, <2>1
  <2>4. \A d \in I!Calls \ {c} : outputs'[d] = outputs[d]
    BY <1>3, <2>1
  <2> HIDE DEF longer
  <2>5. outputs' \in [I!Calls -> Seq([idx : I!Ordinals, ok : BOOLEAN])]
    BY <1>3, <2>1, <2>2
  <2> QED
    BY <2>3, <2>4, <2>5 DEF longer
<1>8. \A d \in I!Calls : outputs[d] \in Seq([idx : I!Ordinals, ok : BOOLEAN])
  BY <1>3
<1>9. /\ DOMAIN outputs'[c] = 1 .. Len(outputs[c]) + 1
      /\ DOMAIN outputs[c] = 1 .. Len(outputs[c])
      /\ Len(outputs[c]) \in Nat
      /\ outputs'[c][Len(outputs[c]) + 1] = entry
      /\ \A p \in DOMAIN outputs[c] : outputs'[c][p] = outputs[c][p]
  BY <1>6, <1>7, <1>8
<1>10. I!TypeOK'
  BY <1>0, <1>2, <1>4, <1>5, <1>7 DEF I!TypeOK
<1>11. Opens' /\ Called' /\ Complete'
  BY <1>0, <1>2 DEF Opens, Called, Complete, I!Awaited
<1>12. ASSUME NEW d \in I!Calls PROVE I!Seen(d) \subseteq I!Seen(d)'
  <2> SUFFICES ASSUME NEW j \in I!Seen(d) PROVE j \in I!Seen(d)'
    OBVIOUS
  <2>0. j \in I!Ordinals
    BY DEF I!Seen
  <2>1. CASE d = c /\ j = i
    <3>1. /\ Len(outputs[c]) + 1 \in DOMAIN outputs'[c]
          /\ outputs'[c][Len(outputs[c]) + 1].idx = i
      BY <1>6, <1>9
    <3> QED
      BY <2>0, <2>1, <3>1 DEF I!Seen, I!Range
  <2>2. CASE (d # c \/ j # i) /\ queued[d][j] > 0
    BY <1>4, <2>0, <2>2 DEF I!Seen
  <2>3. CASE \E e \in I!Range(outputs[d]) : e.idx = j
    <3>1. PICK p \in DOMAIN outputs[d] : outputs[d][p].idx = j
      BY <2>3 DEF I!Range
    <3>2. p \in DOMAIN outputs'[d] /\ outputs'[d][p] = outputs[d][p]
      BY <1>7, <1>9, <3>1
    <3> QED
      BY <2>0, <3>1, <3>2 DEF I!Seen, I!Range
  <2> QED
    BY <2>1, <2>2, <2>3 DEF I!Seen
<1>13. Enqueued'
  <2> SUFFICES ASSUME pc \in {"poll", "spawned"} \cup I!Polled
               PROVE  I!Want \subseteq I!Seen(call)'
    BY <1>2 DEF Enqueued, I!Want, I!IsMap, I!Polled
  <2>1. PICK d \in I!Calls : d = call /\ d = call'
    BY <1>0, <1>2 DEF Called
  <2>2. I!Seen(d) = I!Seen(call) /\ I!Seen(d)' = I!Seen(call)'
    BY <2>1 DEF I!Seen
  <2> QED
    BY <1>0, <1>12, <2>2 DEF Enqueued
<1>14. Outputs'
  <2> SUFFICES ASSUME NEW d \in I!Calls, NEW p \in DOMAIN outputs'[d]
               PROVE  ran'[outputs'[d][p].idx] > 0
    BY DEF Outputs
  <2>1. CASE d = c /\ p = Len(outputs[c]) + 1
    BY <1>5, <1>6, <1>9, <2>1
  <2>2. CASE ~(d = c /\ p = Len(outputs[c]) + 1)
    <3>1. p \in DOMAIN outputs[d] /\ outputs'[d][p] = outputs[d][p]
      BY <1>7, <1>9, <2>2
    <3>2. outputs[d][p].idx \in I!Ordinals
      <4> DEFINE E == [idx : I!Ordinals, ok : BOOLEAN]
      <4>1. outputs[d] \in Seq(E)
        BY <1>8
      <4> HIDE DEF E
      <4>2. outputs[d][p] \in E
        BY <3>1, <4>1
      <4> QED
        BY <4>2 DEF E
    <3> QED
      BY <1>0, <1>5, <3>1, <3>2 DEF Outputs
  <2> QED
    BY <2>1, <2>2
<1>15. Gathered'
  BY <1>0, <1>2, <1>5 DEF Gathered
<1>16. Bounded'
  <2> SUFFICES ASSUME NEW j \in I!Ordinals
               PROVE  /\ IsFiniteSet(Waiting(j)')
                      /\ Cardinality(Waiting(j)') + ran'[j] <= Paid'
    BY DEF Bounded
  <2>1. /\ IsFiniteSet(Waiting(j)) /\ Cardinality(Waiting(j)) + ran[j] <= Paid
        /\ Paid' = Paid
    BY <1>0, <1>2 DEF Bounded, Paid
  <2>2. CASE j # i
    <3>1. Waiting(j)' = Waiting(j)
      BY <1>4, <2>2 DEF Waiting
    <3> QED
      BY <1>5, <2>1, <2>2, <3>1
  <2>3. CASE j = i
    <3> DEFINE w == <<c, queued[c][i]>>
    <3>1. w \in Waiting(i)
      BY <1>2, <1>4 DEF Waiting
    <3>2. Waiting(i)' = Waiting(i) \ {w}
      <4>1. ASSUME NEW v \in I!Calls \X Nat
            PROVE  v[2] \in 1 .. queued'[v[1]][i] <=> v[2] \in 1 .. queued[v[1]][i] /\ v # w
        <5>1. v = <<v[1], v[2]>> /\ v[1] \in I!Calls /\ v[2] \in Nat
          OBVIOUS
        <5>2. CASE v[1] = c
          <6>1. PICK m \in Nat : m = v[2] /\ v = <<c, m>>
            BY <5>1, <5>2
          <6>2. v = w <=> m = queued[c][i]
            BY <6>1
          <6>3. v[1] = c /\ v[2] = m
            BY <5>2, <6>1
          <6>4. m \in 1 .. queued'[c][i] <=> m \in 1 .. queued[c][i] /\ m # queued[c][i]
            <7>1. PICK q \in Nat \ {0} : q = queued[c][i] /\ queued'[c][i] = q - 1
              BY <1>2, <1>4
            <7>2. m \in 1 .. q - 1 <=> m \in 1 .. q /\ m # q
              OBVIOUS
            <7> QED
              BY <7>1, <7>2
          <6> HIDE DEF w
          <6> QED
            BY <6>2, <6>3, <6>4
        <5>3. CASE v[1] # c
          BY <1>4, <5>1, <5>3
        <5> QED
          BY <5>2, <5>3
      <4> QED
        BY <4>1 DEF Waiting
    <3> HIDE DEF w
    <3>3. /\ IsFiniteSet(Waiting(i) \ {w})
          /\ Cardinality(Waiting(i) \ {w}) = Cardinality(Waiting(i)) - 1
      BY <2>1, <2>3, <3>1, FS_RemoveElement
    <3>4. Cardinality(Waiting(i)) \in Nat /\ ran[i] \in Nat
      BY <1>3, <2>1, <2>3, FS_CardinalityType
    <3> QED
      BY <1>5, <2>1, <2>3, <3>2, <3>3, <3>4
  <2> QED
    BY <2>2, <2>3
<1> QED
  BY <1>10, <1>11, <1>13, <1>14, <1>15, <1>16 DEF InvokeInv

(* Every step of an invocation keeps the invariant.                        *)
LEMMA InvokeStep == InvokeInv /\ [I!Next]_I!vars => InvokeInv'
<1> SUFFICES ASSUME InvokeInv, [I!Next]_I!vars PROVE InvokeInv'
  OBVIOUS
<1>0. I!TypeOK /\ Gathered /\ Complete
  BY DEF InvokeInv
<1>t. /\ attempt \in 1 .. MaxAttempts /\ 1 \in 1 .. MaxAttempts
      /\ late \in BOOLEAN /\ cursor \in Nat
      /\ got \in [I!Ordinals -> I!Ordinals \cup {None}]
      /\ expiring \subseteq I!Calls /\ expired \in [I!Calls -> Nat]
  <2>1. attempt \in 1 .. MaxAttempts /\ MaxAttempts \in Nat \ {0}
    BY <1>0, InvokeConstants DEF I!TypeOK, I!MaxAttemptsType
  <2>2. /\ late \in BOOLEAN /\ cursor \in Nat
        /\ got \in [I!Ordinals -> I!Ordinals \cup {None}]
        /\ expiring \subseteq I!Calls /\ expired \in [I!Calls -> Nat]
    BY <1>0 DEF I!TypeOK
  <2> QED
    BY <2>1, <2>2
<1>1. CASE UNCHANGED I!vars
  <2> USE <1>1 DEF I!vars, I!client, I!server, I!work, I!expiry
  <2>1. I!TypeOK'
    BY <1>0 DEF I!TypeOK
  <2>2. Opens' /\ Called' /\ Enqueued' /\ Outputs' /\ Gathered' /\ Complete' /\ Bounded'
    BY DEF InvokeInv, Opens, Called, Enqueued, Outputs, Gathered, Complete, Bounded,
           Waiting, Paid, I!Want, I!IsMap, I!Seen, I!Awaited
  <2> QED
    BY <2>1, <2>2 DEF InvokeInv
<1>2. CASE I!LostRequest
  <2> USE <1>2 DEF I!LostRequest, I!server, I!work, I!expiry
  <2>1. pc \in I!Rpcs /\ I!Lost
    BY DEF I!MayCall
  <2>2. /\ opened' \in Nat /\ opened' <= opened + 1 /\ opened' = opened
        /\ queued' \in [I!Calls -> [I!Ordinals -> Nat]] /\ expiring' \subseteq I!Calls
    BY <1>0 DEF I!TypeOK
  <2>3. /\ \A c \in I!Calls : I!Seen(c) \subseteq I!Seen(c)'
        /\ \A i \in I!Ordinals : Waiting(i)' = Waiting(i)
    BY DEF I!Seen, Waiting
  <2> QED
    BY <2>1, <2>2, <2>3, LostStep
<1>3. CASE I!Deadline
  <2>1. /\ pc = "poll" /\ pc' = "deadline"
        /\ UNCHANGED <<kind, attempt, late, call, cursor, got, opened, queued, outputs,
                       ran, expiring, expired>>
    BY <1>3 DEF I!Deadline, I!server, I!work, I!expiry
  <2>2. Gathered' /\ Complete'
    BY <1>0, <2>1 DEF Gathered, Complete
  <2> QED
    BY <1>t, <2>1, <2>2, PollingStep DEF I!Polled
<1>4. CASE I!Get
  <2>1. /\ pc \in {"spawned"} \cup I!Polled /\ pc' = "poll" /\ attempt' = 1
        /\ late' = FALSE /\ cursor' = 0 /\ got' = [i \in I!Ordinals |-> None]
        /\ UNCHANGED <<kind, call, opened, queued, outputs, ran, expiring, expired>>
    BY <1>4 DEF I!Get, I!GoOn, I!server, I!work, I!expiry
  <2>2. Gathered' /\ Complete' /\ late' \in BOOLEAN
    BY <2>1 DEF Gathered, Complete
  <2>3. got' \in [I!Ordinals -> I!Ordinals \cup {None}] /\ cursor' \in Nat
    BY <2>1
  <2> QED
    BY <1>t, <2>1, <2>2, <2>3, PollingStep
<1>5. CASE I!Elapse
  <2>1. /\ pc = "poll" /\ pc' = "poll" /\ late' = TRUE
        /\ UNCHANGED <<kind, attempt, call, cursor, got, opened, queued, outputs,
                       ran, expiring, expired>>
    BY <1>5 DEF I!Elapse, I!server, I!work, I!expiry
  <2>2. Gathered' /\ Complete' /\ late' \in BOOLEAN
    BY <1>0, <2>1 DEF Gathered, Complete
  <2> QED
    BY <1>t, <2>1, <2>2, PollingStep
<1>6. ASSUME NEW c \in I!Calls, I!Expire(c) PROVE InvokeInv'
  <2>1. /\ UNCHANGED <<kind, pc, attempt, late, call, cursor, got, opened,
                       queued, outputs, ran>>
        /\ expiring' \subseteq I!Calls
        /\ expired' = [expired EXCEPT ![c] = Len(outputs[c])]
    BY <1>t, <1>6 DEF I!Expire, I!client, I!work
  <2>2. Len(outputs[c]) \in Nat
    BY <1>0 DEF I!TypeOK
  <2>3. expired' \in [I!Calls -> Nat]
    BY <1>t, <2>1, <2>2
  <2>4. I!TypeOK'
    BY <1>0, <2>1, <2>3 DEF I!TypeOK
  <2>5. Opens' /\ Called' /\ Enqueued' /\ Outputs' /\ Gathered' /\ Complete' /\ Bounded'
    BY <2>1 DEF InvokeInv, Opens, Called, Enqueued, Outputs, Gathered, Complete, Bounded,
           Waiting, Paid, I!Want, I!IsMap, I!Seen, I!Awaited
  <2> QED
    BY <2>4, <2>5 DEF InvokeInv
<1> QED
  BY <1>1, <1>2, <1>3, <1>4, <1>5, <1>6, MapStep, PutStep, PollStep, RunStep
     DEF I!Next, I!ClientStep

(* The properties of one invocation.                                       *)
LEMMA InvokePromises ==
  InvokeInv => /\ I!TypeOK /\ I!OrderedResults /\ I!EnqueuedBeforePoll /\ I!RunsBounded
<1> SUFFICES ASSUME InvokeInv
             PROVE  I!OrderedResults /\ I!EnqueuedBeforePoll /\ I!RunsBounded
  BY DEF InvokeInv
<1> USE InvokeConstants DEF InvokeInv
<1>1. I!OrderedResults
  <2>1. \A i \in I!Awaited : i \in I!Ordinals
    BY DEF I!Awaited, I!Ordinals, I!NType
  <2> QED
    BY <2>1 DEF I!OrderedResults, Complete, Gathered
<1>2. I!EnqueuedBeforePoll
  BY DEF I!EnqueuedBeforePoll, Enqueued
<1>3. I!RunsBounded
  <2> SUFFICES ASSUME NEW i \in I!Ordinals PROVE ran[i] <= 2 * MaxAttempts - 1
    BY DEF I!RunsBounded
  <2>1. /\ Cardinality(Waiting(i)) \in Nat /\ ran[i] \in Nat
        /\ Cardinality(Waiting(i)) + ran[i] <= Paid
    BY FS_CardinalityType DEF Bounded, I!TypeOK
  <2>2. attempt \in 1 .. MaxAttempts /\ MaxAttempts \in Nat \ {0}
    BY DEF I!TypeOK, I!MaxAttemptsType
  <2>3. Paid <= 2 * MaxAttempts - 1 /\ Paid \in Int
    BY <2>2 DEF Paid
  <2> QED
    BY <2>1, <2>2, <2>3
<1> QED
  BY <1>1, <1>2, <1>3
===============================================================================
