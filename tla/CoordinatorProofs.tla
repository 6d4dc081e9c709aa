-------------------------- MODULE CoordinatorProofs --------------------------
(***************************************************************************)
(* Proofs about module Coordinator, for any number of jobs, uploads and    *)
(* artifacts and any limit of the journal: the journal names whatever a    *)
(* job has published, and what was reported deleted stays deleted.         *)
(***************************************************************************)
EXTENDS Coordinator, TLAPS

-----------------------------------------------------------------------------
(* The inductive invariant                                                 *)

\* A request is at a step of its kind, and holds a hash when one is needed.
OpFits ==
    op # None =>
        /\ op.at \in {"remove", "verify"} <=> op.req.do # "normalize"
        /\ op.at \in {"recheck", "mark", "put", "confirm"} => op.out \in Outputs

\* A job being promoted is neither cancelled nor compacted; its artifact is in
\* the journal before the PUT, and so is the doubt.  Only a PUT that no earlier
\* one could still follow ends the doubt.
PromotionOK ==
    op # None /\ op.req.do = "normalize" =>
        /\ ~sealed /\ op.req.job \notin cancelled
        /\ request[op.req.job] # None
        /\ op.at = "decode" /\ op.req.job \in spent =>
               op.req.input \in issued \ flying /\ ~There(op.req.input)
        /\ op.at \in {"mark", "put", "confirm"} =>
               op.req.job \notin spent /\ artifact[op.req.job] = op.out
        /\ op.at \in {"put", "confirm"} =>
               /\ op.req.job \in uncertain
               /\ ~op.before => \A h \in Outputs : <<op.req.job, h>> \notin flying

\* A removal runs when nothing can arrive behind it, and knows its object.
WithdrawalOK ==
    op # None /\ op.req.do = "withdraw" => Settled /\ op.req.input \in issued

DeletionOK ==
    op # None /\ op.req.do = "delete" =>
        /\ op.req.job \in cancelled
        /\ ~Settled => op.req.job \notin uncertain
        /\ IF op.req.out = Pending
           THEN /\ Settled
                /\ local => op.req.job \notin spent
                /\ op.out = IF artifact[op.req.job] # None THEN artifact[op.req.job] ELSE Pending
           ELSE op.out = op.req.out

RemovedIsGone == At("verify") /\ local => \A k \in Target : store[k] = "gone"

JournalOK == \A j \in Jobs : artifact[j] # None => request[j] # None

\* A PUT that may still arrive is remembered as uncertain.
FlyingOK ==
    /\ \A j \in Jobs, h \in Outputs : <<j, h>> \in flying => ~local /\ j \in uncertain
    /\ sealed /\ ~local => flying = {}

\* Of a job that a remote compaction has forgotten nothing exists.
SpentOK ==
    ~local => \A j \in spent, h \in Outputs : ~There(<<j, h>>) /\ <<j, h>> \notin flying

\* Nothing that could still be written has been reported deleted.
ReleasedOK ==
    /\ ReleasedStaysAbsent
    /\ \A i \in Inputs : i \in released =>
           i \in issued /\ (i \in flying => local /\ store[i] = "gone")
    /\ \A j \in Jobs, h \in Outputs : <<j, h>> \in released =>
           j \in cancelled \cup spent /\ <<j, h>> \notin flying

IInv ==
    /\ TypeOK
    /\ OpFits /\ PromotionOK /\ WithdrawalOK /\ DeletionOK /\ RemovedIsGone
    /\ JournalOK /\ FlyingOK /\ SpentOK
    /\ PublishedIsJournaled /\ ReleasedOK

-----------------------------------------------------------------------------
(* Shapes                                                                  *)

\* What a request carries, by its kind.
LEMMA RequestShape ==
    ASSUME NEW r \in Requests
    PROVE  /\ r.do \in {"normalize", "withdraw", "delete"}
           /\ r.do = "normalize" => r.job \in Jobs /\ r.input \in Inputs
           /\ r.do = "withdraw" => r.input \in Inputs
           /\ r.do = "delete" => r.job \in Jobs /\ r.out \in Outputs \cup {Pending}
  BY DEF Requests, Normalize, Withdraw, Delete

\* The request being served has the shape of an operation.
LEMMA OpShape ==
    ASSUME TypeOK, op # None
    PROVE  /\ op \in Operations
           /\ op.req \in Requests
           /\ op.out \in Outputs \cup {Pending, None}
           /\ op.before \in BOOLEAN
  BY DEF TypeOK, Operations

LEMMA RequestsMade ==
    /\ \A j \in Jobs, i \in Inputs : Normalize(j, i) \in Requests
    /\ \A i \in Inputs : Withdraw(i) \in Requests
    /\ \A j \in Jobs, h \in Outputs \cup {Pending} : Delete(j, h) \in Requests
  BY DEF Requests

LEMMA BeginType ==
    ASSUME NEW r \in Requests, NEW out \in Outputs \cup {Pending, None},
           NEW at \in {"recheck", "decode", "remove"},
           Begin(r, at, out)
    PROVE  /\ op' \in Operations
           /\ answer' = None
  BY DEF Begin, Operations

LEMMA ReplyType ==
    ASSUME NEW r \in Requests, NEW out \in Outputs \cup {None},
           NEW state \in {"ready", "deleted", "reconcile", "failed"},
           Reply(r, state, out)
    PROVE  op' = None /\ answer' \in Answers
  BY DEF Reply, Answers

LEMMA FinishType ==
    ASSUME TypeOK, op # None, NEW out \in Outputs \cup {None},
           NEW state \in {"ready", "deleted", "reconcile", "failed"},
           Finish(state, out)
    PROVE  op' = None /\ answer' \in Answers
  BY OpShape, ReplyType DEF Finish

LEMMA GotoType ==
    ASSUME TypeOK, op # None, NEW step \in {"put", "confirm", "verify"}, Goto(step)
    PROVE  op' \in Operations /\ answer' = None
  BY OpShape DEF Goto, Operations

\* The object a decoded job writes, and the object of a removal.
LEMMA KeyShape ==
    ASSUME TypeOK, OpFits, op # None
    PROVE  /\ op.at \in {"recheck", "mark", "put", "confirm"} =>
                  op.req.job \in Jobs /\ op.out \in Outputs /\ Key \in Objects
           /\ op.at \in {"remove", "verify"} => Target \subseteq Objects
  BY OpShape, RequestShape DEF OpFits, Key, Target, Objects

LEMMA StoreWritten ==
    ASSUME TypeOK, NEW k \in Objects, Write(k)
    PROVE  store' \in [Objects -> {"absent", "there", "gone"}]
  BY DEF TypeOK, Write

LEMMA StoreErased ==
    ASSUME TypeOK, NEW k \in Objects, Erase(k)
    PROVE  store' \in [Objects -> {"absent", "there", "gone"}]
  BY DEF TypeOK, Erase

\* A call cut short leaves the buckets with their shape.
LEMMA InterruptedType ==
    ASSUME TypeOK, OpFits, Interrupted
    PROVE  store' \in [Objects -> {"absent", "there", "gone"}] /\ flying' \subseteq Objects
  <1>1. CASE UNCHANGED buckets
    BY <1>1 DEF buckets, TypeOK
  <1>2. CASE At("put")
    <2>1. Key \in Objects
      BY <1>2, KeyShape DEF At
    <2>2. CASE local /\ UNCHANGED flying
               /\ store' = [store EXCEPT ![Key] = IF @ = "absent" THEN "gone" ELSE @]
      BY <2>1, <2>2 DEF TypeOK
    <2>3. CASE flying' = flying \cup {Key} /\ UNCHANGED store
      BY <2>1, <2>3 DEF TypeOK
    <2>4. QED
      BY <1>1, <1>2, <2>2, <2>3 DEF Interrupted, At
  <1>3. CASE At("remove") /\ (\E k \in Target : Erase(k)) /\ UNCHANGED flying
    BY <1>3, KeyShape, StoreErased DEF At, TypeOK
  <1>4. QED
    BY <1>1, <1>2, <1>3 DEF Interrupted

-----------------------------------------------------------------------------
(* The type invariant                                                      *)

\* Each step of the service keeps the shapes.
LEMMA StepsKeepType ==
    ASSUME CoordinatorAssumption, TypeOK, OpFits, Steps
    PROVE  TypeOK'
  <1> USE DEF TypeOK, journal, buckets, history
  <1>1. CASE Recheck
    BY <1>1, FinishType, KeyShape DEF Recheck, At
  <1>2. ASSUME NEW h \in Outputs, Decode(h) PROVE TypeOK'
    <2>1. op # None /\ op.at = "decode" /\ op.req \in Requests
      BY <1>2, OpShape DEF Decode, At
    <2>2. op.req.job \in Jobs
      BY <2>1, RequestShape DEF OpFits
    <2>3. CASE artifact' = [artifact EXCEPT ![op.req.job] = h]
               /\ op' = [op EXCEPT !.at = "mark", !.out = h] /\ answer' = None
      <3>1. op' \in Operations
        BY <2>1, <2>3, OpShape DEF Operations
      <3>2. QED
        BY <1>2, <2>2, <2>3, <3>1 DEF Decode
    <2>4. CASE Finish("failed", None) /\ UNCHANGED artifact
      BY <1>2, <2>1, <2>4, FinishType DEF Decode
    <2>5. QED
      BY <1>2, <2>3, <2>4 DEF Decode
  <1>3. CASE Mark
    <2>1. op # None /\ op.req \in Requests /\ op.req.job \in Jobs
      BY <1>3, OpShape, KeyShape DEF Mark, At
    <2>2. PICK doubt \in BOOLEAN : op' = [op EXCEPT !.at = "put", !.before = doubt]
      <3>1. (op.req.job \in uncertain) \in BOOLEAN
        OBVIOUS
      <3>2. op' = [op EXCEPT !.at = "put", !.before = op.req.job \in uncertain]
        BY <1>3 DEF Mark
      <3>3. QED
        BY <3>1, <3>2, Zenon
    <2>3. op' \in Operations
      BY <2>1, <2>2, OpShape DEF Operations
    <2>4. QED
      BY <1>3, <2>1, <2>3 DEF Mark
  <1>4. CASE Put
    <2>1. store' \in [Objects -> {"absent", "there", "gone"}]
      BY <1>4, KeyShape, StoreWritten DEF Put, At
    <2>2. QED
      BY <1>4, <2>1, GotoType DEF Put, At
  <1>5. CASE Confirm
    <2>1. op # None /\ op.req.job \in Jobs /\ op.out \in Outputs
      BY <1>5, KeyShape DEF Confirm, At
    <2>2. QED
      BY <1>5, <2>1, FinishType DEF Confirm
  <1>6. CASE Remove
    <2>1. store' \in [Objects -> {"absent", "there", "gone"}]
      BY <1>6, KeyShape, StoreErased DEF Remove, At
    <2>2. QED
      BY <1>6, <2>1, GotoType DEF Remove, At
  <1>7. CASE Verify
    <2>1. op # None /\ op.req \in Requests /\ op.req.do # "normalize"
      BY <1>7, OpShape DEF Verify, At, OpFits
    <2>2. Freed \subseteq Objects
      BY <1>7, <2>1, KeyShape, RequestShape DEF Freed, Objects, Verify, At
    <2>3. QED
      BY <1>7, <2>1, <2>2, FinishType DEF Verify
  <1>8. QED
    BY <1>1, <1>2, <1>3, <1>4, <1>5, <1>6, <1>7 DEF Steps

\* So do the requests, the failures, the operator and the environment.
LEMMA TypeStep ==
    ASSUME CoordinatorAssumption, TypeOK, OpFits, [CNext]_cvars
    PROVE  TypeOK'
  <1>1. ASSUME NEW j \in Jobs, NEW i \in Inputs, AcceptNormalize(j, i) PROVE TypeOK'
    <2>1. Normalize(j, i) \in Requests
      BY RequestsMade
    <2>2. CASE Reply(Normalize(j, i), "failed", None) /\ UNCHANGED request
      BY <1>1, <2>1, <2>2, ReplyType
      DEF AcceptNormalize, TypeOK, buckets, history
    <2>3. CASE request' = [request EXCEPT ![j] = i]
               /\ Begin(Normalize(j, i), IF result[j] = None THEN "decode" ELSE "recheck", result[j])
      <3>1. result[j] \in Outputs \cup {Pending, None}
        BY DEF TypeOK
      <3>2. op' \in Operations /\ answer' = None
        BY <2>1, <2>3, <3>1, BeginType
      <3>3. QED
        BY <1>1, <2>3, <3>2 DEF AcceptNormalize, TypeOK, buckets, history
    <2>4. QED
      BY <1>1, <2>2, <2>3 DEF AcceptNormalize
  <1>2. ASSUME NEW i \in Inputs, AcceptWithdraw(i) PROVE TypeOK'
    BY <1>2, RequestsMade, BeginType, ReplyType
    DEF AcceptWithdraw, TypeOK, journal, buckets, history
  <1>3. ASSUME NEW j \in Jobs, NEW h \in Outputs \cup {Pending}, AcceptDelete(j, h) PROVE TypeOK'
    <2>1. Delete(j, h) \in Requests
      BY RequestsMade
    <2>2. CASE \E state \in {"failed", "reconcile"} : Reply(Delete(j, h), state, None)
      BY <1>3, <2>1, <2>2, ReplyType DEF AcceptDelete, TypeOK, buckets, history
    <2>3. CASE Begin(Delete(j, h), "remove", IF h = Pending /\ artifact[j] # None THEN artifact[j] ELSE h)
      <3>1. (IF h = Pending /\ artifact[j] # None THEN artifact[j] ELSE h)
                \in Outputs \cup {Pending, None}
        BY DEF TypeOK
      <3>2. op' \in Operations /\ answer' = None
        BY <2>1, <2>3, <3>1, BeginType
      <3>3. QED
        BY <1>3, <3>2 DEF AcceptDelete, TypeOK, buckets, history
    <2>4. QED
      BY <1>3, <2>2, <2>3 DEF AcceptDelete
  <1>4. CASE Fail
    BY <1>4, InterruptedType, FinishType DEF Fail, TypeOK, journal, history
  <1>5. CASE Send
    BY <1>5 DEF Send, TypeOK, journal, buckets, history
  <1>6. ASSUME NEW seal \in BOOLEAN, Restart(seal) PROVE TypeOK'
    BY <1>6, InterruptedType DEF Restart, TypeOK, history
  <1>7. CASE CompactSealed
    BY <1>7 DEF CompactSealed, TypeOK, buckets, Journaled
  <1>8. CASE CompactLocal
    BY <1>8 DEF CompactLocal, TypeOK, Journaled
  <1>9. ASSUME NEW i \in Inputs, Issue(i) PROVE TypeOK'
    BY <1>9 DEF Issue, TypeOK, journal, Objects
  <1>10. ASSUME NEW k \in Objects, Land(k) PROVE TypeOK'
    BY <1>10, StoreWritten DEF Land, TypeOK, journal, history
  <1>11. ASSUME NEW k \in Objects, Drain(k) PROVE TypeOK'
    BY <1>11 DEF Drain, TypeOK, journal, history
  <1>12. CASE UNCHANGED cvars
    BY <1>12 DEF cvars, TypeOK, journal, buckets, history
  <1>13. QED
    BY <1>1, <1>2, <1>3, <1>4, <1>5, <1>6, <1>7, <1>8, <1>9, <1>10, <1>11, <1>12,
       StepsKeepType DEF CNext

-----------------------------------------------------------------------------
(* What a step may do to buckets and journal                               *)

\* Only the PUT being served and what is under way can make an object appear.
Appears ==
    \A o \in Objects : store'[o] = "there" =>
        \/ There(o)
        \/ At("put") /\ o = Key
        \/ o \in flying /\ (local => store[o] = "absent")

\* Under way are a PUT that was cut short and an upload just signed.
TakesOff ==
    \A o \in flying' :
        \/ o \in flying
        \/ At("put") /\ ~local /\ o = Key
        \/ o \in Inputs \ issued /\ (local \/ ~sealed)

\* A local object that is gone stays so, while uploads are under way.
StaysGone ==
    local /\ (op # None \/ flying # {}) =>
        \A o \in Objects : store[o] = "gone" => store'[o] = "gone"

Effects == Appears /\ TakesOff /\ StaysGone /\ local' = local

LEMMA PairsAreNoInputs ==
    ASSUME CoordinatorAssumption, NEW j \in Jobs, NEW h \in Outputs
    PROVE  <<j, h>> \in Objects /\ <<j, h>> \notin Inputs
  BY DEF CoordinatorAssumption, Objects

LEMMA Written ==
    ASSUME TypeOK, NEW k \in Objects, Write(k), NEW o \in Objects
    PROVE  /\ store'[o] = "there" =>
                  There(o) \/ (o = k /\ (local => store[k] = "absent"))
           /\ local /\ store[o] = "gone" => store'[o] = "gone"
  BY DEF TypeOK, Write, There

LEMMA Erased ==
    ASSUME TypeOK, NEW k \in Objects, Erase(k), NEW o \in Objects
    PROVE  /\ store'[o] = "there" => There(o)
           /\ local /\ store[o] = "gone" => store'[o] = "gone"
           /\ local => store'[k] = "gone"
  BY DEF TypeOK, Erase, There

LEMMA InterruptedEffects ==
    ASSUME TypeOK, OpFits, Interrupted
    PROVE  /\ \A o \in Objects : store'[o] = "there" => There(o)
           /\ local => \A o \in Objects : store[o] = "gone" => store'[o] = "gone"
           /\ \A o \in flying' : o \in flying \/ (At("put") /\ ~local /\ o = Key)
  <1>1. CASE UNCHANGED buckets
    BY <1>1 DEF buckets, There
  <1>2. CASE At("put") /\ ~(UNCHANGED buckets)
    <2>1. Key \in Objects
      BY <1>2, KeyShape DEF At
    <2>2. IF local
          THEN /\ store' = [store EXCEPT ![Key] = IF @ = "absent" THEN "gone" ELSE @]
               /\ UNCHANGED flying
          ELSE flying' = flying \cup {Key} /\ UNCHANGED store
      BY <1>2 DEF Interrupted, At
    <2>3. QED
      BY <1>2, <2>1, <2>2 DEF TypeOK, There
  <1>3. CASE At("remove") /\ ~(UNCHANGED buckets)
    <2>1. PICK k \in Target : Erase(k)
      BY <1>3 DEF Interrupted, At
    <2>2. k \in Objects /\ UNCHANGED flying
      BY <1>3, KeyShape DEF Interrupted, At
    <2>3. QED
      BY <2>1, <2>2, Erased
  <1>4. QED
    BY <1>1, <1>2, <1>3 DEF Interrupted

LEMMA StepEffects ==
    ASSUME CoordinatorAssumption, TypeOK, OpFits, [CNext]_cvars
    PROVE  Effects
  <1> USE DEF Effects
  <1>1. ASSUME UNCHANGED <<local, store>>, flying' \subseteq flying PROVE Effects
    BY <1>1 DEF Appears, TakesOff, StaysGone, There
  <1>2. ASSUME NEW j \in Jobs, NEW i \in Inputs, AcceptNormalize(j, i) PROVE Effects
    BY <1>1, <1>2 DEF AcceptNormalize, buckets
  <1>3. ASSUME NEW i \in Inputs, AcceptWithdraw(i) PROVE Effects
    BY <1>1, <1>3 DEF AcceptWithdraw, buckets
  <1>4. ASSUME NEW j \in Jobs, NEW h \in Outputs \cup {Pending}, AcceptDelete(j, h) PROVE Effects
    BY <1>1, <1>4 DEF AcceptDelete, buckets
  <1>5. CASE Steps
    <2>1. CASE Recheck
      BY <1>1, <2>1 DEF Recheck, buckets
    <2>2. ASSUME NEW h \in Outputs, Decode(h) PROVE Effects
      BY <1>1, <2>2 DEF Decode, buckets
    <2>3. CASE Mark
      BY <1>1, <2>3 DEF Mark, buckets
    <2>4. CASE Put
      <3>1. At("put") /\ Key \in Objects /\ Write(Key) /\ UNCHANGED <<flying, local>>
        BY <2>4, KeyShape DEF Put, At
      <3>2. QED
        BY <3>1, Written DEF Appears, TakesOff, StaysGone
    <2>5. CASE Confirm
      BY <1>1, <2>5 DEF Confirm, buckets
    <2>6. CASE Remove
      <3>1. UNCHANGED <<flying, local>>
        BY <2>6 DEF Remove
      <3>2. CASE UNCHANGED store
        BY <1>1, <3>1, <3>2
      <3>3. CASE \E k \in Target : Erase(k)
        <4>1. PICK k \in Objects : Erase(k)
          BY <2>6, <3>3, KeyShape DEF Remove, At
        <4>2. QED
          BY <3>1, <4>1, Erased DEF Appears, TakesOff, StaysGone
      <3>4. QED
        BY <2>6, <3>2, <3>3 DEF Remove
    <2>7. CASE Verify
      BY <1>1, <2>7 DEF Verify, buckets
    <2>8. QED
      BY <1>5, <2>1, <2>2, <2>3, <2>4, <2>5, <2>6, <2>7 DEF Steps
  <1>6. ASSUME Interrupted, local' = local PROVE Effects
    BY <1>6, InterruptedEffects DEF Appears, TakesOff, StaysGone
  <1>7. CASE Fail
    BY <1>6, <1>7 DEF Fail
  <1>8. CASE Send
    BY <1>1, <1>8 DEF Send, buckets
  <1>9. ASSUME NEW seal \in BOOLEAN, Restart(seal) PROVE Effects
    BY <1>6, <1>9 DEF Restart
  <1>10. CASE CompactSealed
    BY <1>1, <1>10 DEF CompactSealed, buckets
  <1>11. CASE CompactLocal
    <2>1. op = None /\ flying = {} /\ flying' = {} /\ local' = local
      BY <1>11 DEF CompactLocal
    <2>2. PICK G \in SUBSET {k \in Objects : store[k] = "gone"} :
              store' = [k \in Objects |-> IF k \in G THEN "absent" ELSE store[k]]
      BY <1>11 DEF CompactLocal
    <2>3. QED
      BY <2>1, <2>2 DEF Appears, TakesOff, StaysGone, There
  <1>12. ASSUME NEW i \in Inputs, Issue(i) PROVE Effects
    BY <1>12 DEF Issue, Appears, TakesOff, StaysGone, There
  <1>13. ASSUME NEW k \in Objects, Land(k) PROVE Effects
    <2>1. k \in flying /\ UNCHANGED <<flying, local>>
      BY <1>13 DEF Land
    <2>2. CASE Write(k)
      BY <2>1, <2>2, Written DEF Appears, TakesOff, StaysGone
    <2>3. CASE local /\ store[k] = "absent" /\ store' = [store EXCEPT ![k] = "gone"]
      BY <2>1, <2>3 DEF Appears, TakesOff, StaysGone, There, TypeOK
    <2>4. QED
      BY <1>13, <2>2, <2>3 DEF Land
  <1>14. ASSUME NEW k \in Objects, Drain(k) PROVE Effects
    BY <1>1, <1>14 DEF Drain
  <1>15. CASE UNCHANGED cvars
    BY <1>1, <1>15 DEF cvars, buckets
  <1>16. QED
    BY <1>2, <1>3, <1>4, <1>5, <1>7, <1>8, <1>9, <1>10, <1>11, <1>12, <1>13, <1>14, <1>15
    DEF CNext

\* Who may write each part of the journal and the histories.
LEMMA WhoWrites ==
    ASSUME [CNext]_cvars
    PROVE  /\ \/ artifact' = artifact
              \/ \E h \in Outputs : Decode(h)
              \/ CompactSealed \/ CompactLocal
           /\ \/ request' = request
              \/ \E j \in Jobs, i \in Inputs : AcceptNormalize(j, i)
              \/ CompactSealed \/ CompactLocal
           /\ \/ uncertain' = uncertain
              \/ Mark \/ Confirm
              \/ \E seal \in BOOLEAN : Restart(seal)
              \/ CompactSealed
           /\ \/ cancelled' = cancelled
              \/ \E j \in Jobs, h \in Outputs \cup {Pending} : AcceptDelete(j, h)
              \/ CompactSealed
           /\ spent' = spent \/ CompactSealed \/ CompactLocal
           /\ issued' = issued \/ \E i \in Inputs : Issue(i)
           /\ released' = released \/ Verify
           /\ sealed' = sealed \/ \E seal \in BOOLEAN : Restart(seal)
  <1> USE DEF CNext, cvars, journal, buckets, history, Steps,
          Recheck, Remove, Verify, Put, Mark, Fail, Send, Land, Drain, Issue, Finish, Reply
  <1>1. \/ artifact' = artifact
        \/ \E h \in Outputs : Decode(h)
        \/ CompactSealed \/ CompactLocal
    BY DEF AcceptNormalize, AcceptWithdraw, AcceptDelete, Confirm, Restart
  <1>2. \/ request' = request
        \/ \E j \in Jobs, i \in Inputs : AcceptNormalize(j, i)
        \/ CompactSealed \/ CompactLocal
    BY DEF AcceptWithdraw, AcceptDelete, Decode, Confirm, Restart
  <1>3. \/ uncertain' = uncertain
        \/ Mark \/ Confirm
        \/ \E seal \in BOOLEAN : Restart(seal)
        \/ CompactSealed
    BY DEF AcceptNormalize, AcceptWithdraw, AcceptDelete, Decode, CompactLocal
  <1>4. \/ cancelled' = cancelled
        \/ \E j \in Jobs, h \in Outputs \cup {Pending} : AcceptDelete(j, h)
        \/ CompactSealed
    BY DEF AcceptNormalize, AcceptWithdraw, Decode, Confirm, Restart, CompactLocal
  <1>5. spent' = spent \/ CompactSealed \/ CompactLocal
    BY DEF AcceptNormalize, AcceptWithdraw, AcceptDelete, Decode, Confirm, Restart
  <1>6. issued' = issued \/ \E i \in Inputs : Issue(i)
    BY DEF AcceptNormalize, AcceptWithdraw, AcceptDelete, Decode, Confirm, Restart,
           CompactSealed, CompactLocal
  <1>7. released' = released \/ Verify
    BY DEF AcceptNormalize, AcceptWithdraw, AcceptDelete, Decode, Confirm, Restart,
           CompactSealed, CompactLocal
  <1>8. sealed' = sealed \/ \E seal \in BOOLEAN : Restart(seal)
    BY DEF AcceptNormalize, AcceptWithdraw, AcceptDelete, Decode, Confirm,
           CompactSealed, CompactLocal
  <1>9. QED
    BY <1>1, <1>2, <1>3, <1>4, <1>5, <1>6, <1>7, <1>8

-----------------------------------------------------------------------------
(* Journal, transfers and what exists                                      *)

LEMMA JournalStep ==
    ASSUME CoordinatorAssumption, IInv, [CNext]_cvars
    PROVE  JournalOK'
  <1> USE DEF IInv, JournalOK
  <1>1. CASE CompactSealed
    BY <1>1 DEF CompactSealed
  <1>2. CASE CompactLocal
    BY <1>2 DEF CompactLocal, Journaled
  <1>3. ASSUME NEW j \in Jobs, NEW i \in Inputs, AcceptNormalize(j, i) PROVE JournalOK'
    <2>1. i # None
      BY DEF CoordinatorAssumption
    <2>2. QED
      BY <1>3, <2>1 DEF AcceptNormalize, TypeOK
  <1>4. ASSUME NEW h \in Outputs, Decode(h) PROVE JournalOK'
    <2>1. request[op.req.job] # None
      BY <1>4 DEF Decode, At, OpFits, PromotionOK
    <2>2. QED
      BY <1>4, <2>1 DEF Decode, TypeOK
  <1>5. CASE UNCHANGED <<artifact, request>>
    BY <1>5
  <1>6. QED
    BY <1>1, <1>2, <1>3, <1>4, <1>5, WhoWrites DEF AcceptNormalize, Decode

\* A doubt ends only when no PUT of the job is under way.
LEMMA DoubtStays ==
    ASSUME CoordinatorAssumption, IInv, [CNext]_cvars, NEW j \in uncertain
    PROVE  j \in uncertain' \/ \A h \in Outputs : <<j, h>> \notin flying'
  <1> USE DEF IInv
  <1>1. CASE CompactSealed
    BY <1>1, PairsAreNoInputs DEF CompactSealed, FlyingOK, buckets, TypeOK
  <1>2. CASE Confirm
    BY <1>2 DEF Confirm, At, buckets, OpFits, PromotionOK
  <1>3. CASE Mark \/ \E seal \in BOOLEAN : Restart(seal)
    BY <1>3 DEF Mark, Restart
  <1>4. QED
    BY <1>1, <1>2, <1>3, WhoWrites

LEMMA FlyingStep ==
    ASSUME CoordinatorAssumption, IInv, [CNext]_cvars
    PROVE  FlyingOK'
  <1> USE DEF IInv
  <1>1. Effects
    BY StepEffects
  <1>2. ASSUME NEW j \in Jobs, NEW h \in Outputs, <<j, h>> \in flying'
        PROVE  ~local' /\ j \in uncertain'
    <2>1. <<j, h>> \in flying \/ (At("put") /\ ~local /\ <<j, h>> = Key)
      BY <1>1, <1>2, PairsAreNoInputs DEF Effects, TakesOff
    <2>2. At("put") => op.req.job \in uncertain
      BY DEF At, OpFits, PromotionOK
    <2>3. ~local /\ j \in uncertain
      BY <2>1, <2>2 DEF FlyingOK, Key
    <2>4. QED
      BY <1>1, <1>2, <2>3, DoubtStays DEF Effects
  <1>3. ASSUME sealed', ~local' PROVE flying' = {}
    <2>1. ~local
      BY <1>1, <1>3 DEF Effects
    <2>2. CASE sealed' = sealed
      <3>1. flying = {} /\ ~At("put")
        BY <1>3, <2>1, <2>2 DEF FlyingOK, At, OpFits, PromotionOK
      <3>2. QED
        BY <1>1, <1>3, <2>1, <2>2, <3>1 DEF Effects, TakesOff
    <2>3. ASSUME NEW seal \in BOOLEAN, Restart(seal) PROVE flying' = {}
      BY <1>3, <2>1, <2>3 DEF Restart
    <2>4. QED
      BY <2>2, <2>3, WhoWrites
  <1>4. QED
    BY <1>2, <1>3 DEF FlyingOK

\* What exists or is under way of a job after a step, did before, or is what
\* its promotion is about to write.
LEMMA Existing ==
    ASSUME CoordinatorAssumption, IInv, [CNext]_cvars,
           NEW j \in Jobs, NEW h \in Outputs,
           store'[<<j, h>>] = "there" \/ <<j, h>> \in flying'
    PROVE  \/ There(<<j, h>>) \/ <<j, h>> \in flying
           \/ /\ op # None /\ op.req.do = "normalize" /\ op.req.job = j
              /\ j \notin cancelled \cup spent
              /\ artifact[j] = h
  <1> USE DEF IInv
  <1>1. Effects /\ <<j, h>> \in Objects /\ <<j, h>> \notin Inputs
    BY StepEffects, PairsAreNoInputs
  <1>2. \/ There(<<j, h>>) \/ <<j, h>> \in flying
        \/ At("put") /\ <<j, h>> = Key
    BY <1>1 DEF Effects, Appears, TakesOff
  <1>3. ASSUME At("put"), <<j, h>> = Key
        PROVE  /\ op # None /\ op.req.do = "normalize" /\ op.req.job = j
               /\ j \notin cancelled \cup spent /\ artifact[j] = h
    BY <1>3 DEF At, Key, OpFits, PromotionOK
  <1>4. QED
    BY <1>2, <1>3

LEMMA SpentStep ==
    ASSUME CoordinatorAssumption, IInv, [CNext]_cvars
    PROVE  SpentOK'
  <1> USE DEF IInv
  <1>1. SUFFICES ASSUME ~local', NEW j \in spent', NEW h \in Outputs,
                        store'[<<j, h>>] = "there" \/ <<j, h>> \in flying'
                 PROVE  FALSE
    BY DEF SpentOK, There
  <1>2. ~local
    BY <1>1, StepEffects DEF Effects
  <1>3. CASE CompactSealed
    <2>1. j \in Jobs /\ UNCHANGED <<store, flying>> /\ flying = {}
      BY <1>2, <1>3, <1>1 DEF CompactSealed, FlyingOK, buckets, TypeOK, Journaled
    <2>2. There(<<j, h>>)
      BY <1>1, <2>1 DEF There
    <2>3. j \notin spent
      BY <1>2, <2>2 DEF SpentOK
    <2>4. artifact[j] = h /\ h # None
      BY <2>1, <2>2, <2>3 DEF PublishedIsJournaled, CoordinatorAssumption
    <2>5. j \in Journaled
      BY <2>1, <2>4 DEF JournalOK, Journaled
    <2>6. QED
      BY <1>3, <2>2, <2>4, <2>5 DEF CompactSealed
  <1>4. CASE spent' = spent
    BY <1>1, <1>2, <1>4, Existing DEF SpentOK, TypeOK
  <1>5. QED
    BY <1>2, <1>3, <1>4, WhoWrites DEF CompactLocal

LEMMA PublishedStep ==
    ASSUME CoordinatorAssumption, IInv, [CNext]_cvars
    PROVE  PublishedIsJournaled'
  <1> USE DEF IInv
  <1>1. SUFFICES ASSUME NEW j \in Jobs, j \notin spent', NEW h \in Outputs,
                        store'[<<j, h>>] = "there" \/ <<j, h>> \in flying'
                 PROVE  artifact'[j] = h
    BY DEF PublishedIsJournaled, There
  <1>2. j \notin spent
    BY <1>1, WhoWrites DEF CompactSealed, CompactLocal
  <1>3. artifact[j] = h /\ h # None
    BY <1>1, <1>2, Existing DEF PublishedIsJournaled, CoordinatorAssumption
  <1>4. j \in Journaled
    BY <1>3 DEF JournalOK, Journaled
  <1>5. ASSUME NEW g \in Outputs, Decode(g) PROVE artifact'[j] = h
    BY <1>3, <1>5 DEF Decode, TypeOK
  <1>6. ~CompactSealed /\ ~CompactLocal
    BY <1>1, <1>4 DEF CompactSealed, CompactLocal
  <1>7. QED
    BY <1>3, <1>5, <1>6, WhoWrites

-----------------------------------------------------------------------------
(* The request being served                                                *)

\* While a request stays where it is, others touch neither the journal nor the
\* seal: what still moves is uploads and transfers.
Undisturbed ==
    /\ op' = op
    /\ UNCHANGED <<local, sealed, journal, released, spent>>
    /\ issued \subseteq issued'
    /\ flying' \subseteq flying \cup (Inputs \ issued)

LEMMA OpMoves ==
    ASSUME [CNext]_cvars
    PROVE  \/ op' = None
           \/ Undisturbed
           \/ \E j \in Jobs, i \in Inputs : AcceptNormalize(j, i)
           \/ \E i \in Inputs : AcceptWithdraw(i)
           \/ \E j \in Jobs, h \in Outputs \cup {Pending} : AcceptDelete(j, h)
           \/ \E h \in Outputs : Decode(h)
           \/ Mark \/ Put \/ Remove
  BY DEF CNext, Undisturbed, cvars, journal, buckets, history, Steps, Recheck, Confirm, Verify,
         Finish, Reply, Fail, Send, Restart, CompactSealed, CompactLocal, Issue, Land, Drain

LEMMA OpFitsStep ==
    ASSUME CoordinatorAssumption, IInv, [CNext]_cvars
    PROVE  OpFits'
  <1> USE DEF IInv, OpFits
  <1>1. ASSUME NEW j \in Jobs, NEW i \in Inputs, AcceptNormalize(j, i) PROVE OpFits'
    <2>1. result[j] # None => result[j] \in Outputs
      BY DEF TypeOK
    <2>2. QED
      BY <1>1, <2>1 DEF AcceptNormalize, Begin, Reply, Normalize
  <1>2. ASSUME NEW i \in Inputs, AcceptWithdraw(i) PROVE OpFits'
    BY <1>2 DEF AcceptWithdraw, Begin, Reply, Withdraw
  <1>3. ASSUME NEW j \in Jobs, NEW h \in Outputs \cup {Pending}, AcceptDelete(j, h) PROVE OpFits'
    BY <1>3 DEF AcceptDelete, Begin, Reply, Delete
  <1>4. ASSUME NEW h \in Outputs, Decode(h) PROVE OpFits'
    BY <1>4, OpShape DEF Decode, At, Finish, Reply, Operations
  <1>5. CASE Mark
    BY <1>5, OpShape DEF Mark, At, Operations
  <1>6. CASE Put \/ Remove
    BY <1>6, OpShape DEF Put, Remove, At, Goto, Operations
  <1>7. QED
    BY <1>1, <1>2, <1>3, <1>4, <1>5, <1>6, OpMoves DEF Undisturbed

LEMMA PromotionStep ==
    ASSUME CoordinatorAssumption, IInv, [CNext]_cvars
    PROVE  PromotionOK'
  <1> USE DEF IInv, PromotionOK
  <1>1. ASSUME NEW j \in Jobs, NEW i \in Inputs, AcceptNormalize(j, i) PROVE PromotionOK'
    <2>1. CASE op' = None
      BY <2>1
    <2>2. CASE op' # None
      <3>1. /\ ~Refused(j, i) /\ MayAsk(j, i)
            /\ request' = [request EXCEPT ![j] = i]
            /\ op'.req = Normalize(j, i) /\ op'.at \in {"decode", "recheck"}
            /\ UNCHANGED <<sealed, cancelled, spent, issued, flying, store>>
        BY <1>1, <2>2 DEF AcceptNormalize, Begin, Reply, buckets, history
      <3>2. request'[j] # None
        BY <3>1 DEF TypeOK, CoordinatorAssumption
      <3>3. QED
        BY <3>1, <3>2 DEF Refused, MayAsk, Normalize, There
    <2>3. QED
      BY <2>1, <2>2
  <1>2. ASSUME NEW i \in Inputs, AcceptWithdraw(i) PROVE PromotionOK'
    BY <1>2 DEF AcceptWithdraw, Begin, Reply, Withdraw
  <1>3. ASSUME NEW j \in Jobs, NEW h \in Outputs \cup {Pending}, AcceptDelete(j, h)
        PROVE  PromotionOK'
    BY <1>3 DEF AcceptDelete, Begin, Reply, Delete
  <1>4. ASSUME NEW h \in Outputs, Decode(h) PROVE PromotionOK'
    <2>1. op # None /\ op.at = "decode" /\ op.req.do = "normalize" /\ op.req.job \in Jobs
      BY <1>4, OpShape, RequestShape DEF Decode, At, OpFits
    <2>2. CASE op' = None
      BY <2>2
    <2>3. CASE op' # None
      <3>1. /\ There(op.req.input)
            /\ artifact' = [artifact EXCEPT ![op.req.job] = h]
            /\ op' = [op EXCEPT !.at = "mark", !.out = h]
            /\ UNCHANGED <<sealed, cancelled, request, spent>>
        BY <1>4, <2>3 DEF Decode, Finish, Reply, history
      <3>2. op'.req = op.req /\ op'.at = "mark" /\ op'.out = h
        BY <2>1, <3>1, OpShape DEF Operations
      <3>3. artifact'[op.req.job] = h /\ op.req.job \notin spent
        BY <2>1, <3>1 DEF TypeOK
      <3>4. QED
        BY <2>1, <3>1, <3>2, <3>3
    <2>4. QED
      BY <2>2, <2>3
  <1>5. CASE Mark
    <2>1. /\ op # None /\ op.at = "mark" /\ op.req.do = "normalize" /\ op.req.job \in Jobs
          /\ op'.req = op.req /\ op'.at = "put" /\ op'.out = op.out
          /\ op'.before <=> op.req.job \in uncertain
      BY <1>5, OpShape, RequestShape DEF Mark, At, OpFits, Operations
    <2>2. op.req.job \notin uncertain => \A h \in Outputs : <<op.req.job, h>> \notin flying
      BY <2>1 DEF FlyingOK
    <2>3. QED
      BY <1>5, <2>1, <2>2 DEF Mark, buckets, history
  <1>6. CASE Put
    <2>1. /\ op # None /\ op.at = "put"
          /\ op'.req = op.req /\ op'.at = "confirm" /\ op'.out = op.out
          /\ op'.before = op.before
      BY <1>6, OpShape DEF Put, At, Goto, Operations
    <2>2. QED
      BY <1>6, <2>1 DEF Put, journal, history
  <1>7. CASE Remove
    BY <1>7, OpShape DEF Remove, At, OpFits, Goto, Operations
  <1>8. CASE Undisturbed
    <2>1. SUFFICES ASSUME op # None, op.req.do = "normalize" PROVE PromotionOK'
      BY <1>8 DEF Undisturbed
    <2>2. op.req.job \in Jobs /\ op.req.input \in Inputs
      BY <2>1, OpShape, RequestShape
    <2>3. ASSUME op.req.input \in issued \ flying, ~There(op.req.input)
          PROVE  op.req.input \in issued' \ flying' /\ store'[op.req.input] # "there"
      <3>1. op.req.input \in issued' \ flying'
        BY <1>8, <2>3 DEF Undisturbed
      <3>2. op.req.input # Key \/ ~At("put")
        BY <2>2, KeyShape, PairsAreNoInputs DEF Key, At
      <3>3. QED
        BY <2>2, <2>3, <3>1, <3>2, StepEffects
        DEF Effects, Appears, TakesOff, There, Objects
    <2>4. \A h \in Outputs : <<op.req.job, h>> \notin flying => <<op.req.job, h>> \notin flying'
      BY <1>8, <2>2, PairsAreNoInputs DEF Undisturbed
    <2>5. QED
      BY <1>8, <2>1, <2>3, <2>4 DEF Undisturbed, journal, There
  <1>9. QED
    BY <1>1, <1>2, <1>3, <1>4, <1>5, <1>6, <1>7, <1>8, OpMoves

LEMMA WithdrawalStep ==
    ASSUME CoordinatorAssumption, IInv, [CNext]_cvars
    PROVE  WithdrawalOK'
  <1> USE DEF IInv, WithdrawalOK, Settled
  <1>1. ASSUME NEW j \in Jobs, NEW i \in Inputs, AcceptNormalize(j, i) PROVE WithdrawalOK'
    BY <1>1 DEF AcceptNormalize, Begin, Reply, Normalize
  <1>2. ASSUME NEW i \in Inputs, AcceptWithdraw(i) PROVE WithdrawalOK'
    BY <1>2 DEF AcceptWithdraw, Begin, Reply, Withdraw, history
  <1>3. ASSUME NEW j \in Jobs, NEW h \in Outputs \cup {Pending}, AcceptDelete(j, h)
        PROVE  WithdrawalOK'
    BY <1>3 DEF AcceptDelete, Begin, Reply, Delete
  <1>4. CASE Mark \/ Put \/ Remove \/ \E h \in Outputs : Decode(h)
    <2>1. UNCHANGED <<local, sealed, issued>>
      BY <1>4 DEF Mark, Put, Remove, Decode, history
    <2>2. op' # None => op # None /\ op'.req = op.req
      BY <1>4, OpShape DEF Mark, Put, Remove, Decode, Goto, Finish, Reply, At, Operations
    <2>3. QED
      BY <2>1, <2>2
  <1>5. CASE Undisturbed
    BY <1>5 DEF Undisturbed
  <1>6. QED
    BY <1>1, <1>2, <1>3, <1>4, <1>5, OpMoves

LEMMA DeletionStep ==
    ASSUME CoordinatorAssumption, IInv, [CNext]_cvars
    PROVE  DeletionOK'
  <1> USE DEF IInv, DeletionOK, Settled
  <1>1. ASSUME NEW j \in Jobs, NEW i \in Inputs, AcceptNormalize(j, i) PROVE DeletionOK'
    BY <1>1 DEF AcceptNormalize, Begin, Reply, Normalize
  <1>2. ASSUME NEW i \in Inputs, AcceptWithdraw(i) PROVE DeletionOK'
    BY <1>2 DEF AcceptWithdraw, Begin, Reply, Withdraw
  <1>3. ASSUME NEW j \in Jobs, NEW h \in Outputs \cup {Pending}, AcceptDelete(j, h)
        PROVE  DeletionOK'
    <2>1. CASE op' = None
      BY <2>1
    <2>2. CASE op' # None
      <3>1. /\ MayDelete(j, h)
            /\ cancelled' = cancelled \cup {j}
            /\ Settled \/ (h # Pending /\ j \notin uncertain)
            /\ op'.req = Delete(j, h)
            /\ op'.out = IF h = Pending /\ artifact[j] # None THEN artifact[j] ELSE h
            /\ UNCHANGED <<local, sealed, artifact, uncertain, spent>>
        BY <1>3, <2>2 DEF AcceptDelete, Begin, Reply, history
      <3>2. QED
        BY <3>1 DEF MayDelete, Delete
    <2>3. QED
      BY <2>1, <2>2
  <1>4. CASE Mark \/ Put \/ \E h \in Outputs : Decode(h)
    <2>1. op # None /\ op.req.do = "normalize"
      BY <1>4 DEF Mark, Put, Decode, At, OpFits
    <2>2. op' # None => op'.req = op.req
      BY <1>4, <2>1, OpShape DEF Mark, Put, Decode, Goto, Finish, Reply, Operations
    <2>3. QED
      BY <2>1, <2>2
  <1>5. CASE Remove
    <2>1. op # None /\ op'.req = op.req /\ op'.out = op.out
      BY <1>5, OpShape DEF Remove, At, Goto, Operations
    <2>2. UNCHANGED <<local, sealed, artifact, cancelled, uncertain, spent>>
      BY <1>5 DEF Remove, journal, history
    <2>3. QED
      BY <2>1, <2>2
  <1>6. CASE Undisturbed
    BY <1>6 DEF Undisturbed, journal
  <1>7. QED
    BY <1>1, <1>2, <1>3, <1>4, <1>5, <1>6, OpMoves

LEMMA RemovedStep ==
    ASSUME CoordinatorAssumption, IInv, [CNext]_cvars
    PROVE  RemovedIsGone'
  <1> USE DEF IInv, RemovedIsGone
  <1>1. SUFFICES ASSUME op' # None, op'.at = "verify", local'
                 PROVE  \A k \in Target' : store'[k] = "gone"
    BY DEF RemovedIsGone, At
  <1>2. local
    BY <1>1, StepEffects DEF Effects
  <1>3. CASE Remove
    <2>1. /\ op # None /\ op.at = "remove"
          /\ op'.req = op.req /\ op'.out = op.out
      BY <1>3, OpShape DEF Remove, At, Goto, Operations
    <2>2. Target' = Target
      BY <2>1 DEF Target, Key
    <2>3. CASE Target = {}
      BY <2>2, <2>3
    <2>4. ASSUME NEW k \in Target, Erase(k) PROVE \A o \in Target' : store'[o] = "gone"
      <3>1. k \in Objects /\ \A o \in Target : o = k
        BY <2>1, KeyShape DEF Target
      <3>2. QED
        BY <1>2, <2>2, <2>4, <3>1, Erased
    <2>5. QED
      BY <1>3, <2>3, <2>4 DEF Remove
  <1>4. CASE Undisturbed
    <2>1. Target' = Target /\ At("verify") /\ Target \subseteq Objects
      BY <1>1, <1>4, KeyShape DEF Undisturbed, Target, Key, At
    <2>2. \A k \in Target : store[k] = "gone"
      BY <1>2, <2>1
    <2>3. op # None
      BY <2>1 DEF At
    <2>4. \A k \in Target : store'[k] = "gone"
      BY <1>2, <2>1, <2>2, <2>3, StepEffects DEF Effects, StaysGone
    <2>5. QED
      BY <2>1, <2>4
  <1>5. ~Mark /\ ~Put /\ (\A h \in Outputs : ~Decode(h))
    BY <1>1, OpShape DEF Mark, Put, Decode, Goto, Finish, Reply, At, Operations
  <1>6. ASSUME NEW j \in Jobs, NEW i \in Inputs, AcceptNormalize(j, i) PROVE FALSE
    BY <1>1, <1>6 DEF AcceptNormalize, Begin, Reply
  <1>7. ASSUME NEW i \in Inputs, AcceptWithdraw(i) PROVE FALSE
    BY <1>1, <1>7 DEF AcceptWithdraw, Begin, Reply
  <1>8. ASSUME NEW j \in Jobs, NEW h \in Outputs \cup {Pending}, AcceptDelete(j, h) PROVE FALSE
    BY <1>1, <1>8 DEF AcceptDelete, Begin, Reply
  <1>9. QED
    BY <1>1, <1>3, <1>4, <1>5, <1>6, <1>7, <1>8, OpMoves

-----------------------------------------------------------------------------
(* What was reported deleted                                               *)

\* Nothing a verified removal frees exists or can still arrive.
LEMMA FreedIsSafe ==
    ASSUME CoordinatorAssumption, IInv, Verify, released' # released
    PROVE  /\ released' = released \cup Freed
           /\ \A k \in Freed : k \in Objects /\ ~There(k)
           /\ \A i \in Inputs : i \in Freed =>
                  i \in issued /\ (i \in flying => local /\ store[i] = "gone")
           /\ \A j \in Jobs, h \in Outputs : <<j, h>> \in Freed =>
                  j \in cancelled /\ <<j, h>> \notin flying
  <1> USE DEF IInv
  <1>1. /\ op # None /\ op.at = "verify" /\ op.req \in Requests
        /\ op.req.do \in {"withdraw", "delete"}
        /\ \A k \in Target : ~There(k)
        /\ released' = released \cup Freed
    BY OpShape, RequestShape DEF Verify, At, OpFits
  <1>2. Target \subseteq Objects /\ (local => \A k \in Target : store[k] = "gone")
    BY <1>1, KeyShape DEF RemovedIsGone, At
  <1>3. CASE op.req.do = "withdraw"
    <2>1. op.req.input \in Inputs /\ Target = {op.req.input} /\ Freed = Target
      BY <1>1, <1>3, RequestShape DEF Target, Freed
    <2>2. op.req.input \in issued /\ Settled
      BY <1>1, <1>3 DEF WithdrawalOK
    <2>3. op.req.input \in flying => local /\ store[op.req.input] = "gone"
      BY <1>2, <2>1, <2>2 DEF Settled, FlyingOK
    <2>4. \A j \in Jobs, h \in Outputs : <<j, h>> \notin Freed
      BY <2>1, PairsAreNoInputs
    <2>5. QED
      BY <1>1, <1>2, <2>1, <2>2, <2>3, <2>4
  <1>4. CASE op.req.do = "delete"
    <2> DEFINE job == op.req.job
    <2>1. job \in Jobs /\ job \in cancelled /\ op.req.out \in Outputs \cup {Pending}
      BY <1>1, <1>4, RequestShape DEF DeletionOK
    <2>2. \A h \in Outputs : <<job, h>> \notin flying
      BY <1>1, <1>4, <2>1 DEF DeletionOK, Settled, FlyingOK
    <2>3. \A k \in Freed : \E h \in Outputs : k = <<job, h>> /\ ~There(k)
      <3>1. CASE op.req.out = Pending
        <4>1. Freed = {job} \X Outputs
          BY <1>4, <3>1 DEF Freed
        <4>2. /\ local => job \notin spent
              /\ op.out = IF artifact[job] # None THEN artifact[job] ELSE Pending
          BY <1>1, <1>4, <3>1 DEF DeletionOK
        <4>3. ASSUME NEW h \in Outputs, There(<<job, h>>) PROVE FALSE
          <5>1. job \notin spent
            BY <2>1, <4>2, <4>3 DEF SpentOK
          <5>2. artifact[job] = h /\ h # None
            BY <2>1, <4>3, <5>1 DEF PublishedIsJournaled, CoordinatorAssumption
          <5>3. <<job, h>> \in Target
            BY <1>4, <2>1, <4>2, <5>2 DEF Target, Key, Objects
          <5>4. QED
            BY <1>1, <4>3, <5>3
        <4>4. QED
          BY <4>1, <4>3
      <3>2. CASE op.req.out # Pending
        <4>1. Freed = Target /\ op.out = op.req.out
          BY <1>1, <1>4, <3>2 DEF Freed, DeletionOK
        <4>2. QED
          BY <1>1, <1>4, <2>1, <3>2, <4>1 DEF Target, Key
      <3>3. QED
        BY <3>1, <3>2
    <2>4. \A k \in Freed : k \in Objects /\ k \notin Inputs
      BY <2>1, <2>3, PairsAreNoInputs
    <2>5. QED
      BY <1>1, <2>1, <2>2, <2>3, <2>4
  <1>5. QED
    BY <1>1, <1>3, <1>4

LEMMA ReleasedStep ==
    ASSUME CoordinatorAssumption, IInv, [CNext]_cvars
    PROVE  ReleasedOK'
  <1> USE DEF IInv
  <1>1. CASE released' # released
    <2>1. Verify /\ UNCHANGED <<local, store, flying, cancelled, issued, spent>>
      BY <1>1, WhoWrites DEF Verify, journal, buckets
    <2>2. QED
      BY <1>1, <2>1, FreedIsSafe DEF ReleasedOK, ReleasedStaysAbsent, There
  <1>2. CASE released' = released
    <2>1. Effects
      BY StepEffects
    <2>2. ASSUME NEW i \in Inputs, i \in released
          PROVE  /\ store'[i] # "there"
                 /\ i \in issued'
                 /\ i \in flying' => local' /\ store'[i] = "gone"
      <3>1. /\ ~There(i) /\ i \in issued /\ i \in Objects
            /\ i \in flying => local /\ store[i] = "gone"
        BY <2>2 DEF ReleasedOK, ReleasedStaysAbsent, Objects
      <3>2. ~(At("put") /\ i = Key)
        BY KeyShape, PairsAreNoInputs DEF Key, At
      <3>3. store'[i] # "there" /\ (i \in flying' => i \in flying)
        BY <2>1, <3>1, <3>2 DEF Effects, Appears, TakesOff
      <3>4. i \in flying' => local' /\ store'[i] = "gone"
        BY <2>1, <3>1, <3>3 DEF Effects, StaysGone
      <3>5. QED
        BY <3>1, <3>3, <3>4, WhoWrites DEF Issue
    <2>3. ASSUME NEW j \in Jobs, NEW h \in Outputs, <<j, h>> \in released
          PROVE  /\ store'[<<j, h>>] # "there" /\ <<j, h>> \notin flying'
                 /\ j \in cancelled' \cup spent'
      <3>1. /\ ~There(<<j, h>>) /\ <<j, h>> \notin flying
            /\ j \in cancelled \cup spent
        BY <2>3 DEF ReleasedOK, ReleasedStaysAbsent
      <3>2. store'[<<j, h>>] # "there" /\ <<j, h>> \notin flying'
        BY <3>1, Existing
      <3>3. j \in cancelled' \cup spent'
        BY <3>1, WhoWrites DEF AcceptDelete, CompactSealed, CompactLocal, history
      <3>4. QED
        BY <3>2, <3>3
    <2>4. \A k \in released : store'[k] # "there"
      BY <2>2, <2>3 DEF TypeOK, Objects
    <2>5. QED
      BY <1>2, <2>2, <2>3, <2>4 DEF ReleasedOK, ReleasedStaysAbsent, There
  <1>3. QED
    BY <1>1, <1>2

-----------------------------------------------------------------------------
(* The theorems                                                            *)

LEMMA InitIInv == ASSUME CoordinatorAssumption, CInit PROVE IInv
  BY DEF CInit, CoordinatorAssumption, IInv, TypeOK, OpFits, PromotionOK, WithdrawalOK,
         DeletionOK, RemovedIsGone, JournalOK, FlyingOK, SpentOK, PublishedIsJournaled,
         ReleasedOK, ReleasedStaysAbsent, There, At, Objects

LEMMA StepIInv == ASSUME CoordinatorAssumption, IInv, [CNext]_cvars PROVE IInv'
  BY TypeStep, OpFitsStep, PromotionStep, WithdrawalStep, DeletionStep, RemovedStep,
     JournalStep, FlyingStep, SpentStep, PublishedStep, ReleasedStep
  DEF IInv

\* The service keeps its inductive invariant.
THEOREM CoordinatorInvariant == CSpec => []IInv
  BY CoordinatorAssumption, InitIInv, StepIInv, PTL DEF CSpec

\* Every variable keeps its shape: journal, buckets, the request under way and
\* the answers (media_coordinator.py).
THEOREM CoordinatorTypeCorrect == CSpec => []TypeOK
  <1>1. IInv => TypeOK
    BY DEF IInv
  <1>2. QED
    BY <1>1, CoordinatorInvariant, PTL

\* Whatever a job has published, or may still publish, is the artifact its
\* journal names (media_coordinator.py:137-154).
THEOREM CoordinatorPublishedIsJournaled == CSpec => []PublishedIsJournaled
  <1>1. IInv => PublishedIsJournaled
    BY DEF IInv
  <1>2. QED
    BY <1>1, CoordinatorInvariant, PTL

\* What was reported deleted stays deleted, through late uploads and PUTs,
\* retries, restarts and compactions (media_coordinator.py:174-214).
THEOREM CoordinatorReleasedStaysAbsent == CSpec => []ReleasedStaysAbsent
  <1>1. IInv => ReleasedStaysAbsent
    BY DEF IInv, ReleasedOK
  <1>2. QED
    BY <1>1, CoordinatorInvariant, PTL
=============================================================================
