----------------------------- MODULE MediaProofs -----------------------------
(***************************************************************************)
(* Proofs about module Media, for any number of uploads and artifacts: the *)
(* application, its cleaner and its users are an environment in which the  *)
(* coordinator does what module Coordinator says, so that its theorems     *)
(* hold for the whole.                                                     *)
(***************************************************************************)
EXTENDS Media, CoordinatorProofs

-----------------------------------------------------------------------------
(* The coordinator within the application                                  *)

\* A request from the backlog is one the coordinator has an action for.
LEMMA AcceptIsStep ==
    ASSUME NEW r \in Requests, Accept(r)
    PROVE  CNext
  BY RequestShape DEF Accept, CNext

\* Every step of the application is one of the coordinator, or leaves the
\* coordinator alone.
LEMMA StepOfCoordinator ==
    ASSUME MediaAssumption, backlog \subseteq Requests, [Next]_vars
    PROVE  [CNext]_cvars
  <1>1. ASSUME NEW u \in Uploads,
               Reserve(u) \/ BeginJob(u) \/ GetResult(u) \/ FinishJob(u) \/ Pass(u) \/ UserGivesUp(u)
        PROVE  [CNext]_cvars
    BY <1>1 DEF Uploads, Reserve, BeginJob, GetResult, FinishJob, Pass, UserGivesUp, CNext
  <1>2. ASSUME NEW s \in Uploads \cup {None}, Use(s) PROVE [CNext]_cvars
    BY <1>2 DEF Use
  <1>3. CASE DeleteProfile \/ CreateProfile \/ SweepNothing \/ FinishCleanup
             \/ CleanerGivesUp \/ CrashApp
    BY <1>3 DEF DeleteProfile, CreateProfile, SweepNothing, FinishCleanup, CleanerGivesUp, CrashApp
  <1>4. ASSUME NEW m \in DOMAIN Order, Sweep(m) PROVE [CNext]_cvars
    BY <1>4 DEF Sweep
  <1>5. CASE CleanerAnswer \/ DropAnswer \/ CallFails \/ Step
    BY <1>5 DEF CleanerAnswer, DropAnswer, CallFails, Step, CNext
  <1>6. ASSUME NEW r \in backlog, Serve(r) PROVE [CNext]_cvars
    BY <1>6, AcceptIsStep DEF Serve
  <1>7. ASSUME NEW seal \in BOOLEAN, RestartCoordinator(seal) PROVE [CNext]_cvars
    BY <1>7 DEF RestartCoordinator, CNext
  <1>8. CASE CompactRemote \/ CompactSettled
    BY <1>8 DEF CompactRemote, CompactSettled, CNext
  <1>9. ASSUME NEW k \in Objects, Arrive(k) PROVE [CNext]_cvars
    BY <1>9 DEF Arrive, CNext
  <1>10. CASE UNCHANGED vars
    BY <1>10 DEF vars
  <1>11. QED
    BY <1>1, <1>2, <1>3, <1>4, <1>5, <1>6, <1>7, <1>8, <1>9, <1>10 DEF Next

-----------------------------------------------------------------------------
(* The inductive invariant                                                 *)

\* The states an output can only leave towards its removal.
Ending == {"none", "retired", "deleting"}

\* Only a promotion is answered with a hash.
AnswerFits ==
    answer # None /\ answer.state = "ready" =>
        answer.req.do = "normalize" /\ answer.out \in Outputs

\* A job is asked for with its own upload, after the entries were made.
JobsFit ==
    /\ \A r \in backlog : r.do = "normalize" => r.input = r.job /\ r.job \in started
    /\ op # None /\ op.req.do = "normalize" => op.req.input = op.req.job /\ op.req.job \in started
    /\ \A u \in Uploads : request[u] # None => request[u] = u /\ u \in started
    /\ \A u \in Uploads : output[u] # "none" \/ u \in spent => u \in started
    /\ \A u \in Uploads : input[u] # "none" \/ u \in started => u \in issued

\* Once its deletion is asked for, an output is never offered again.
DoomedOK ==
    \A u \in Uploads :
        u \in cancelled \/ (\E h \in Outputs \cup {Pending} : Delete(u, h) \in backlog) =>
            u \in started /\ output[u] \in Ending

\* A job that a compaction has forgotten has no result.
ResultFits ==
    /\ \A u \in Uploads : result[u] # None => u \notin spent
    /\ At("recheck") => op.req.job \notin spent

Ready(u, h) ==
    \/ user[u] = h
    \/ /\ answer # None
       /\ answer.req = Normalize(u, u) /\ answer.state = "ready" /\ answer.out = h

\* A result on its way to the ledger names an object that is there.
ReadyOK ==
    \A u \in Uploads, h \in Outputs :
        Ready(u, h) /\ output[u] \notin Ending => There(<<u, h>>) /\ u \notin spent

\* An output that has got its hash is the only one its job has published.
OutkeyOK ==
    \A u \in Uploads :
        /\ outkey[u] # Pending =>
             /\ u \notin spent => artifact[u] = outkey[u]
             /\ \A h \in Outputs : There(<<u, h>>) \/ <<u, h>> \in flying => h = outkey[u]
        /\ output[u] \in {"ready", "active"} => outkey[u] # Pending

\* A deletion names the hash its entry has.
DeletionFits ==
    \A u \in Uploads, h \in Outputs :
        Delete(u, h) \in backlog \/ (op # None /\ op.req = Delete(u, h)) => outkey[u] = h

\* Nothing of the job exists, and nothing will.
Forgotten(u) ==
    /\ u \in cancelled \cup spent
    /\ \A h \in Outputs : ~There(<<u, h>>) /\ <<u, h>> \notin flying

Answered(r, state) == answer # None /\ answer.req = r /\ answer.state = state

\* The cleaner drops an entry when its object is gone for good.
CleanedOK ==
    \A u \in Uploads :
        /\ \/ Answered(Withdraw(u), "deleted")
           \/ cleaner # None /\ cleaner.at = "finish" /\ cleaner.entry = <<"input", u>>
           \/ input[u] = "none" /\ u \in issued
           => u \in released
        /\ \/ \E h \in Outputs \cup {Pending} : Answered(Delete(u, h), "deleted")
           \/ cleaner # None /\ cleaner.at = "finish" /\ cleaner.entry = <<"output", u>>
           \/ output[u] = "none" /\ u \in started
           => Forgotten(u)

\* An upload exists, or may still arrive, only if it was signed.
IssuedOK == \A u \in Uploads : There(u) \/ u \in flying => u \in issued

Over(u) == u \in issued \ flying /\ ~There(u)

\* A compaction forgets jobs that nobody can ask for in a harmful way.
SpentSafe ==
    \A u \in spent :
        /\ Over(u) \/ output[u] \in Ending
        /\ local => outkey[u] # Pending

MInv ==
    /\ MediaTypeOK /\ IInv
    /\ AnswerFits /\ JobsFit /\ DoomedOK /\ ResultFits /\ ReadyOK /\ OutkeyOK /\ DeletionFits
    /\ CleanedOK /\ IssuedOK /\ SpentSafe
    /\ RequestsSafe /\ AlertsPlayable

-----------------------------------------------------------------------------
(* Shapes                                                                  *)

LEMMA OrderShape ==
    ASSUME MediaAssumption, NEW m \in DOMAIN Order
    PROVE  /\ m \in 0..Len(Order)
           /\ Order[m] \in Entries
           /\ Order[m][1] \in {"input", "output"} /\ Order[m][2] \in Uploads
  BY DEF MediaAssumption, Entries

\* The request that removes an entry.
LEMMA RemovalShape ==
    ASSUME MediaAssumption, MediaTypeOK, NEW e \in Entries
    PROVE  Removal(e) \in Requests
  BY RequestsMade DEF MediaAssumption, MediaTypeOK, Removal, Entries, Uploads

LEMMA MediaTypeStep ==
    ASSUME CoordinatorAssumption, MediaAssumption, MInv, [Next]_vars
    PROVE  MediaTypeOK'
  <1> USE DEF MInv
  <1>1. TypeOK'
    BY StepOfCoordinator, TypeStep DEF MediaTypeOK, IInv
  <1>2. ASSUME NEW u \in Uploads, Reserve(u) PROVE MediaTypeOK'
    BY <1>1, <1>2 DEF MediaTypeOK, Reserve, clients
  <1>3. ASSUME NEW u \in Uploads, BeginJob(u) PROVE MediaTypeOK'
    BY <1>1, <1>3, RequestsMade DEF MediaTypeOK, BeginJob, ledger, MediaAssumption, Uploads
  <1>4. ASSUME NEW u \in Uploads, GetResult(u) PROVE MediaTypeOK'
    <2>1. answer.state = "ready" => answer.out \in Outputs
      BY <1>4 DEF GetResult, AnswerFits
    <2>2. QED
      BY <1>1, <1>4, <2>1 DEF MediaTypeOK, GetResult, ledger
  <1>5. ASSUME NEW u \in Uploads, FinishJob(u) PROVE MediaTypeOK'
    BY <1>1, <1>5 DEF MediaTypeOK, FinishJob
  <1>6. ASSUME NEW u \in Uploads, Pass(u) PROVE MediaTypeOK'
    BY <1>1, <1>6 DEF MediaTypeOK, Pass, ledger, clients
  <1>7. ASSUME NEW u \in Uploads, UserGivesUp(u) PROVE MediaTypeOK'
    BY <1>1, <1>7 DEF MediaTypeOK, UserGivesUp, Disturb, ledger
  <1>8. ASSUME NEW s \in Uploads \cup {None}, Use(s) PROVE MediaTypeOK'
    BY <1>1, <1>8 DEF MediaTypeOK, Use, clients
  <1>9. CASE DeleteProfile
    <2>1. /\ input' \in [Uploads -> {"none", "pending", "processing", "retired", "deleting"}]
          /\ output' \in
               [Uploads -> {"none", "processing", "ready", "active", "retired", "deleting"}]
      BY <1>9 DEF DeleteProfile, RetireAll
    <2>2. faults' \in 0..MaxFaults
      BY <1>9 DEF MediaTypeOK, DeleteProfile, Disturb
    <2>3. profile' \in BOOLEAN /\ slot' \in Uploads \cup {None}
      BY <1>9 DEF DeleteProfile
    <2>4. UNCHANGED <<outkey, started, age, user, cleaner, last, backlog>>
      BY <1>9 DEF DeleteProfile, clients
    <2>5. QED
      BY <1>1, <2>1, <2>2, <2>3, <2>4 DEF MediaTypeOK
  <1>10. CASE CreateProfile
    BY <1>1, <1>10 DEF MediaTypeOK, CreateProfile, ledger, clients
  <1>11. ASSUME NEW m \in DOMAIN Order, Sweep(m) PROVE MediaTypeOK'
    BY <1>1, <1>11, OrderShape, RemovalShape DEF MediaTypeOK, Sweep, SetState
  <1>12. CASE SweepNothing
    BY <1>1, <1>12 DEF MediaTypeOK, SweepNothing, ledger, MediaAssumption
  <1>13. CASE CleanerAnswer
    <2>1. cleaner.entry \in Entries /\ cleaner' \in [entry : Entries, at : {"waiting", "finish"}] \cup {None}
      BY <1>13 DEF MediaTypeOK, CleanerAnswer
    <2>2. QED
      BY <1>1, <1>13, <2>1 DEF MediaTypeOK, CleanerAnswer, ledger
  <1>14. CASE FinishCleanup
    <2>1. cleaner.entry \in Entries
      BY <1>14 DEF MediaTypeOK, FinishCleanup
    <2>2. QED
      BY <1>1, <1>14, <2>1 DEF MediaTypeOK, FinishCleanup, SetState, Entries
  <1>15. ASSUME NEW r \in backlog, Serve(r) PROVE MediaTypeOK'
    BY <1>1, <1>15 DEF MediaTypeOK, Serve, ledger
  <1>16. CASE Step \/ DropAnswer \/ CompactRemote \/ CompactSettled
              \/ \E k \in Objects : Arrive(k)
    BY <1>1, <1>16 DEF MediaTypeOK, Step, DropAnswer, CompactRemote, CompactSettled, Arrive,
                       mvars, ledger, clients
  <1>17. CASE CallFails
    BY <1>1, <1>17 DEF MediaTypeOK, CallFails, Disturb, ledger, clients
  <1>18. CASE CleanerGivesUp
    BY <1>1, <1>18 DEF MediaTypeOK, CleanerGivesUp, Disturb, ledger
  <1>19. CASE CrashApp
    BY <1>1, <1>19 DEF MediaTypeOK, CrashApp, Disturb, ledger, MediaAssumption
  <1>20. ASSUME NEW seal \in BOOLEAN, RestartCoordinator(seal) PROVE MediaTypeOK'
    BY <1>1, <1>20 DEF MediaTypeOK, RestartCoordinator, Disturb, ledger
  <1>21. CASE UNCHANGED vars
    BY <1>1, <1>21 DEF MediaTypeOK, vars, mvars, ledger, clients
  <1>22. QED
    BY <1>2, <1>3, <1>4, <1>5, <1>6, <1>7, <1>8, <1>9, <1>10, <1>11, <1>12, <1>13, <1>14,
       <1>15, <1>16, <1>17, <1>18, <1>19, <1>20, <1>21 DEF Next

-----------------------------------------------------------------------------
(* What the coordinator does to an output                                  *)

\* A removal under way erases outputs of cancelled jobs only.
LEMMA ErasesCancelled ==
    ASSUME CoordinatorAssumption, IInv, op # None, op.at \in {"remove", "verify"},
           NEW j \in Jobs, NEW h \in Outputs, <<j, h>> \in Target
    PROVE  j \in cancelled
  <1>1. op.req \in Requests /\ op.req.do # "normalize"
    BY OpShape DEF IInv, OpFits
  <1>2. op.req.do # "withdraw"
    BY <1>1, RequestShape, PairsAreNoInputs DEF Target
  <1>3. op.req.do = "delete" /\ op.req.job = j
    BY <1>1, <1>2, RequestShape DEF Target, Key
  <1>4. QED
    BY <1>3 DEF IInv, DeletionOK

\* An output leaves the public bucket only after its job was cancelled.
LEMMA ThereStays ==
    ASSUME CoordinatorAssumption, IInv, [CNext]_cvars,
           NEW j \in Jobs, NEW h \in Outputs, There(<<j, h>>), j \notin cancelled
    PROVE  store'[<<j, h>>] = "there"
  <1> DEFINE o == <<j, h>>
  <1>1. o \in Objects /\ store[o] = "there" /\ store \in [Objects -> {"absent", "there", "gone"}]
    BY PairsAreNoInputs DEF There, IInv, TypeOK
  <1>2. ASSUME NEW k \in Objects, Write(k) PROVE store'[o] = "there"
    BY <1>1, <1>2 DEF Write
  <1>3. ASSUME op # None, op.at = "remove", NEW k \in Target, Erase(k) PROVE store'[o] = "there"
    <2>1. o \notin Target
      BY <1>3, ErasesCancelled
    <2>2. QED
      BY <1>1, <1>3, <2>1 DEF Erase
  <1>4. ASSUME Interrupted PROVE store'[o] = "there"
    <2>1. CASE UNCHANGED store
      BY <1>1, <2>1
    <2>2. CASE store' = [store EXCEPT ![Key] = IF @ = "absent" THEN "gone" ELSE @]
      BY <1>1, <2>2
    <2>3. QED
      BY <1>3, <1>4, <2>1, <2>2 DEF Interrupted, At, buckets
  <1>5. CASE Put
    <2>1. Key \in Objects
      BY <1>5, KeyShape DEF Put, At, IInv
    <2>2. QED
      BY <1>2, <1>5, <2>1 DEF Put
  <1>6. CASE Remove
    BY <1>1, <1>3, <1>6 DEF Remove, At
  <1>7. CASE CompactLocal
    <2>1. PICK G \in SUBSET {k \in Objects : store[k] = "gone"} :
              store' = [k \in Objects |-> IF k \in G THEN "absent" ELSE store[k]]
      BY <1>7 DEF CompactLocal
    <2>2. QED
      BY <1>1, <2>1
  <1>8. ASSUME NEW k \in Objects, Land(k) PROVE store'[o] = "there"
    BY <1>1, <1>2, <1>8 DEF Land
  <1>9. CASE UNCHANGED store
    BY <1>1, <1>9
  <1>10. CASE Fail \/ \E seal \in BOOLEAN : Restart(seal)
    BY <1>4, <1>10 DEF Fail, Restart
  <1>11. CASE \/ \E j2 \in Jobs, i \in Inputs : AcceptNormalize(j2, i)
              \/ \E i \in Inputs : AcceptWithdraw(i)
              \/ \E j2 \in Jobs, h2 \in Outputs \cup {Pending} : AcceptDelete(j2, h2)
    <2>1. UNCHANGED store
      BY <1>11 DEF AcceptNormalize, AcceptWithdraw, AcceptDelete, buckets
    <2>2. QED
      BY <1>9, <2>1
  <1>12. CASE Recheck \/ (\E g \in Outputs : Decode(g)) \/ Mark \/ Confirm \/ Verify
    <2>1. UNCHANGED store
      BY <1>12 DEF Recheck, Decode, Mark, Confirm, Verify, buckets
    <2>2. QED
      BY <1>9, <2>1
  <1>13. CASE \/ Send \/ CompactSealed \/ UNCHANGED cvars
              \/ \E i \in Inputs : Issue(i)
              \/ \E k \in Objects : Drain(k)
    <2>1. UNCHANGED store
      BY <1>13 DEF Send, CompactSealed, Issue, Drain, cvars, buckets
    <2>2. QED
      BY <1>9, <2>1
  <1>14. QED
    BY <1>5, <1>6, <1>7, <1>8, <1>10, <1>11, <1>12, <1>13 DEF CNext, Steps

\* The artifact of a job stays in the journal until a compaction.
LEMMA ArtifactStays ==
    ASSUME CoordinatorAssumption, IInv, [CNext]_cvars,
           NEW j \in Jobs, artifact[j] # None, j \notin spent'
    PROVE  artifact'[j] = artifact[j]
  <1>1. j \in Journaled
    BY DEF IInv, JournalOK, Journaled
  <1>2. ASSUME NEW g \in Outputs, Decode(g) PROVE artifact'[j] = artifact[j]
    BY <1>2 DEF Decode, IInv, TypeOK
  <1>3. ~CompactSealed /\ ~CompactLocal
    BY <1>1 DEF CompactSealed, CompactLocal
  <1>4. QED
    BY <1>2, <1>3, WhoWrites

\* The answers a step can bring about.
LEMMA AnswerMoves ==
    ASSUME [CNext]_cvars
    PROVE  \/ answer' = answer
           \/ answer' = None
           \/ answer'.state \in {"failed", "reconcile"}
           \/ /\ At("confirm") \/ At("recheck")
              /\ There(Key)
              /\ answer' = [req |-> op.req, state |-> "ready", out |-> op.out]
              /\ UNCHANGED <<store, cancelled, flying, spent>>
           \/ /\ Verify
              /\ answer' = [req |-> op.req, state |-> "deleted", out |-> None]
              /\ released' = released \cup Freed
  <1> USE DEF Reply, Finish, Begin
  <1>1. CASE \E j \in Jobs, i \in Inputs : AcceptNormalize(j, i)
    BY <1>1 DEF AcceptNormalize
  <1>2. CASE \E i \in Inputs : AcceptWithdraw(i)
    BY <1>2 DEF AcceptWithdraw
  <1>3. CASE \E j \in Jobs, h \in Outputs \cup {Pending} : AcceptDelete(j, h)
    BY <1>3 DEF AcceptDelete
  <1>4. CASE Recheck
    BY <1>4 DEF Recheck, journal, buckets, history
  <1>5. CASE \E h \in Outputs : Decode(h)
    BY <1>5 DEF Decode
  <1>6. CASE Mark \/ Put \/ Remove
    BY <1>6 DEF Mark, Put, Remove, Goto
  <1>7. CASE Confirm
    BY <1>7 DEF Confirm, buckets, history
  <1>8. CASE Verify
    BY <1>8 DEF Verify
  <1>9. CASE Fail \/ Send \/ (\E seal \in BOOLEAN : Restart(seal)) \/ CompactSealed \/ CompactLocal
    BY <1>9 DEF Fail, Send, Restart, CompactSealed, CompactLocal
  <1>10. CASE \/ \E i \in Inputs : Issue(i)
              \/ \E k \in Objects : Land(k) \/ Drain(k)
    BY <1>10 DEF Issue, Land, Drain
  <1>11. CASE UNCHANGED cvars
    BY <1>11 DEF cvars
  <1>12. QED
    BY <1>1, <1>2, <1>3, <1>4, <1>5, <1>6, <1>7, <1>8, <1>9, <1>10, <1>11 DEF CNext, Steps

-----------------------------------------------------------------------------
(* What a step can do to one upload                                        *)

\* An entry appears by a reservation or a first validation, goes by the end of
\* a cleanup, and its output becomes usable by a result that is still awaited.
LedgerMoves(u) ==
    /\ input'[u] = "none" => input[u] = "none" \/ (cleaner # None /\ cleaner.at = "finish" /\ cleaner.entry = <<"input", u>>)
    /\ input[u] = "none" => input'[u] = "none" \/ Reserve(u)
    /\ output'[u] = "none" => output[u] = "none" \/ (cleaner # None /\ cleaner.at = "finish" /\ cleaner.entry = <<"output", u>>)
    /\ output[u] \in Ending => output'[u] \in Ending \/ (BeginJob(u) /\ u \notin started)
    /\ output[u] = "none" => output'[u] = "none" \/ (BeginJob(u) /\ u \notin started)
    /\ output'[u] \in {"ready", "active"} => output[u] \in {"ready", "active"} \/ FinishJob(u)
    /\ outkey'[u] = outkey[u] \/ (FinishJob(u) /\ output[u] = "processing" /\ outkey'[u] = user[u])
    /\ u \in started => u \in started'
    /\ u \in started' => u \in started \/ BeginJob(u)

LEMMA OneUpload ==
    ASSUME CoordinatorAssumption, MediaTypeOK, [Next]_vars, NEW u \in Uploads
    PROVE  LedgerMoves(u)
  <1> USE DEF MediaTypeOK, Ending
  <1>1. ASSUME NEW v \in Uploads, Reserve(v) PROVE LedgerMoves(u)
    BY <1>1 DEF Reserve, LedgerMoves
  <1>2. ASSUME NEW v \in Uploads, BeginJob(v) PROVE LedgerMoves(u)
    <2>1. CASE u = v
      BY <1>2, <2>1 DEF BeginJob, LedgerMoves, ledger
    <2>2. CASE u # v
      BY <1>2, <2>2 DEF BeginJob, LedgerMoves, ledger
    <2>3. QED
      BY <2>1, <2>2
  <1>3. ASSUME NEW v \in Uploads, FinishJob(v) PROVE LedgerMoves(u)
    <2>1. CASE u = v
      BY <1>3, <2>1 DEF FinishJob, LedgerMoves
    <2>2. CASE u # v
      BY <1>3, <2>2 DEF FinishJob, LedgerMoves
    <2>3. QED
      BY <2>1, <2>2
  <1>4. ASSUME NEW s \in Uploads \cup {None}, Use(s) PROVE LedgerMoves(u)
    <2>1. u # None
      BY DEF CoordinatorAssumption, Uploads
    <2>2. QED
      BY <1>4, <2>1 DEF Use, LedgerMoves
  <1>5. CASE DeleteProfile
    BY <1>5 DEF DeleteProfile, RetireAll, LedgerMoves
  <1>6. ASSUME NEW m \in DOMAIN Order, Sweep(m) PROVE LedgerMoves(u)
    <2>1. StateOf(Order[m]) # "none"
      BY <1>6 DEF Sweep, NextDue, DueAfter, Due
    <2>2. QED
      BY <1>6, <2>1 DEF Sweep, SetState, StateOf, LedgerMoves
  <1>7. CASE FinishCleanup
    <2>1. PICK e \in Entries : e = cleaner.entry
      BY <1>7 DEF FinishCleanup
    <2>2. e = <<e[1], e[2]>> /\ e[1] \in {"input", "output"}
      BY DEF Entries
    <2>3. QED
      BY <1>7, <2>1, <2>2 DEF FinishCleanup, SetState, StateOf, LedgerMoves
  <1>8. CASE UNCHANGED ledger
    BY <1>8 DEF ledger, LedgerMoves
  <1>9. ASSUME NEW v \in Uploads, GetResult(v) \/ Pass(v) \/ UserGivesUp(v)
        PROVE UNCHANGED ledger
    BY <1>9 DEF GetResult, Pass, UserGivesUp
  <1>10. CASE \/ CreateProfile \/ SweepNothing \/ CleanerAnswer \/ CallFails
              \/ CleanerGivesUp \/ CrashApp
              \/ \E r \in backlog : Serve(r)
              \/ \E seal \in BOOLEAN : RestartCoordinator(seal)
    BY <1>8, <1>10 DEF CreateProfile, SweepNothing, CleanerAnswer, CallFails, CleanerGivesUp,
                       CrashApp, Serve, RestartCoordinator
  <1>11. CASE \/ Step \/ DropAnswer \/ CompactRemote \/ CompactSettled
              \/ \E k \in Objects : Arrive(k)
    BY <1>8, <1>11 DEF Step, DropAnswer, CompactRemote, CompactSettled, Arrive, mvars
  <1>12. CASE UNCHANGED vars
    BY <1>8, <1>12 DEF vars, mvars
  <1>13. QED
    BY <1>1, <1>2, <1>3, <1>4, <1>5, <1>6, <1>7, <1>8, <1>9, <1>10, <1>11, <1>12 DEF Next

\* The cleaner drops an entry only after the coordinator has reported its
\* object deleted, and users take results only from answers to them.
LEMMA ClientsMove ==
    ASSUME MediaAssumption, MediaTypeOK, [Next]_vars
    PROVE  /\ cleaner' # None /\ cleaner'.at = "finish" =>
                /\ cleaner # None /\ cleaner'.entry = cleaner.entry
                /\ cleaner.at = "finish" \/ Answered(Removal(cleaner.entry), "deleted")
           /\ \A u \in Uploads, h \in Outputs : user'[u] = h =>
                \/ user[u] = h
                \/ user[u] = "waiting" /\ Ready(u, h)
  <1> DEFINE CleanerMoves == cleaner' # None /\ cleaner'.at = "finish" =>
                /\ cleaner # None /\ cleaner'.entry = cleaner.entry
                /\ cleaner.at = "finish" \/ Answered(Removal(cleaner.entry), "deleted")
             UsersMove == \A u \in Uploads, h \in Outputs : user'[u] = h =>
                \/ user[u] = h
                \/ user[u] = "waiting" /\ Ready(u, h)
  <1>0. \A h \in Outputs : h # "idle" /\ h # "waiting"
    BY DEF MediaAssumption
  <1> SUFFICES CleanerMoves /\ UsersMove
    OBVIOUS
  <1> USE DEF MediaTypeOK
  <1>1. ASSUME NEW v \in Uploads, BeginJob(v) \/ FinishJob(v) \/ UserGivesUp(v)
        PROVE CleanerMoves /\ UsersMove
    BY <1>1, <1>0 DEF BeginJob, FinishJob, UserGivesUp
  <1>2. ASSUME NEW v \in Uploads, GetResult(v) PROVE CleanerMoves /\ UsersMove
    <2>1. CleanerMoves
      BY <1>2 DEF GetResult
    <2>2. UsersMove
      BY <1>2, <1>0 DEF GetResult, Ready
    <2>3. QED
      BY <2>1, <2>2
  <1>3. CASE UNCHANGED <<user, cleaner>>
    BY <1>3
  <1>4. ASSUME NEW m \in DOMAIN Order, Sweep(m) PROVE CleanerMoves /\ UsersMove
    BY <1>4 DEF Sweep
  <1>5. CASE CleanerAnswer
    <2>1. cleaner \in [entry : Entries, at : {"waiting", "finish"}]
      BY <1>5 DEF CleanerAnswer
    <2>2. QED
      BY <1>5, <2>1 DEF CleanerAnswer, Answered
  <1>6. CASE FinishCleanup \/ CleanerGivesUp
    BY <1>6 DEF FinishCleanup, CleanerGivesUp
  <1>7. CASE CrashApp \/ \E seal \in BOOLEAN : RestartCoordinator(seal)
    BY <1>7, <1>0 DEF CrashApp, RestartCoordinator
  <1>8. ASSUME NEW v \in Uploads, Reserve(v) \/ Pass(v) PROVE UNCHANGED <<user, cleaner>>
    BY <1>8 DEF Reserve, Pass, clients
  <1>9. ASSUME NEW s \in Uploads \cup {None}, Use(s) PROVE UNCHANGED <<user, cleaner>>
    BY <1>9 DEF Use, clients
  <1>10. CASE \/ DeleteProfile \/ CreateProfile \/ SweepNothing \/ CallFails
              \/ \E r \in backlog : Serve(r)
    BY <1>3, <1>10 DEF DeleteProfile, CreateProfile, SweepNothing, CallFails, Serve, clients
  <1>11. CASE \/ Step \/ DropAnswer \/ CompactRemote \/ CompactSettled
              \/ \E k \in Objects : Arrive(k)
    BY <1>3, <1>11 DEF Step, DropAnswer, CompactRemote, CompactSettled, Arrive, mvars, clients
  <1>12. CASE UNCHANGED vars
    BY <1>3, <1>12 DEF vars, mvars, clients
  <1>13. QED
    BY <1>1, <1>2, <1>3, <1>4, <1>5, <1>6, <1>7, <1>8, <1>9, <1>10, <1>11, <1>12 DEF Next

\* What the application adds to the coordinator's work: the requests it asks
\* for, and the operator's compactions.
LEMMA RequestsMove ==
    ASSUME MediaTypeOK, [Next]_vars
    PROVE  /\ \A r \in backlog' :
                \/ r \in backlog
                \/ \E u \in Uploads : BeginJob(u) /\ r = Normalize(u, u)
                \/ \E m \in DOMAIN Order : Sweep(m) /\ r = Removal(Order[m])
           /\ issued' = issued \/ \E u \in Uploads : Reserve(u)
  <1> DEFINE Asked == \A r \in backlog' :
                \/ r \in backlog
                \/ \E u \in Uploads : BeginJob(u) /\ r = Normalize(u, u)
                \/ \E m \in DOMAIN Order : Sweep(m) /\ r = Removal(Order[m])
             Signed == issued' = issued \/ \E u \in Uploads : Reserve(u)
  <1> SUFFICES Asked /\ Signed
    OBVIOUS
  <1>1. ASSUME NEW u \in Uploads, Reserve(u) PROVE Asked /\ Signed
    BY <1>1 DEF Reserve, clients
  <1>2. ASSUME NEW u \in Uploads, BeginJob(u) PROVE Asked /\ Signed
    BY <1>2 DEF BeginJob, cvars, history
  <1>3. ASSUME NEW m \in DOMAIN Order, Sweep(m) PROVE Asked /\ Signed
    BY <1>3 DEF Sweep, cvars, history
  <1>4. ASSUME backlog' \subseteq backlog, issued' = issued PROVE Asked /\ Signed
    BY <1>4
  <1>5. ASSUME NEW u \in Uploads, GetResult(u) \/ FinishJob(u) \/ Pass(u) \/ UserGivesUp(u)
        PROVE backlog' \subseteq backlog /\ issued' = issued
    BY <1>5 DEF GetResult, FinishJob, Pass, UserGivesUp, Send, cvars, history, clients
  <1>6. ASSUME NEW s \in Uploads \cup {None}, Use(s)
        PROVE backlog' \subseteq backlog /\ issued' = issued
    BY <1>6 DEF Use, cvars, history, clients
  <1>7. CASE DeleteProfile \/ CreateProfile \/ SweepNothing \/ FinishCleanup
             \/ CleanerGivesUp \/ CrashApp
    BY <1>4, <1>7 DEF DeleteProfile, CreateProfile, SweepNothing, FinishCleanup, CleanerGivesUp,
                      CrashApp, cvars, history, clients
  <1>8. CASE CleanerAnswer \/ DropAnswer \/ CallFails
    BY <1>4, <1>8 DEF CleanerAnswer, DropAnswer, CallFails, Send, Fail, history, clients, mvars
  <1>9. ASSUME NEW r \in Requests, Accept(r) PROVE issued' = issued
    BY <1>9 DEF Accept, AcceptNormalize, AcceptWithdraw, AcceptDelete, history
  <1>10. ASSUME NEW r \in backlog, Serve(r) PROVE Asked /\ Signed
    BY <1>4, <1>9, <1>10 DEF Serve, MediaTypeOK
  <1>11. CASE Step
    <2>1. issued' = issued
      BY <1>11 DEF Step, Steps, Recheck, Decode, Mark, Put, Confirm, Remove, Verify, history
    <2>2. QED
      BY <1>4, <1>11, <2>1 DEF Step, mvars, clients
  <1>12. ASSUME NEW seal \in BOOLEAN, RestartCoordinator(seal) PROVE Asked /\ Signed
    BY <1>4, <1>12 DEF RestartCoordinator, Restart, history
  <1>13. CASE CompactRemote \/ CompactSettled
    BY <1>4, <1>13 DEF CompactRemote, CompactSettled, CompactSealed, CompactLocal, mvars, clients
  <1>14. ASSUME NEW k \in Objects, Arrive(k) PROVE Asked /\ Signed
    BY <1>4, <1>14 DEF Arrive, Land, Drain, history, mvars, clients
  <1>15. CASE UNCHANGED vars
    BY <1>4, <1>15 DEF vars, cvars, history, mvars, clients
  <1>16. QED
    BY <1>1, <1>2, <1>3, <1>4, <1>5, <1>6, <1>7, <1>8, <1>10, <1>11, <1>12, <1>13, <1>14, <1>15
    DEF Next

\* Only the operator's compactions and the requests of the backlog change what
\* the journal says of a job's request and its cancellation.
LEMMA JournalMoves ==
    ASSUME MediaTypeOK, [Next]_vars
    PROVE  \/ CompactRemote \/ CompactSettled
           \/ UNCHANGED <<request, cancelled, spent>>
           \/ \E r \in backlog : Serve(r) /\ UNCHANGED spent
  <1> DEFINE Goal == \/ CompactRemote \/ CompactSettled
                     \/ UNCHANGED <<request, cancelled, spent>>
                     \/ \E r \in backlog : Serve(r) /\ UNCHANGED spent
  <1>1. CASE UNCHANGED <<request, cancelled, spent>>
    BY <1>1
  <1>2. ASSUME NEW u \in Uploads,
               Reserve(u) \/ BeginJob(u) \/ GetResult(u) \/ FinishJob(u) \/ Pass(u) \/ UserGivesUp(u)
        PROVE  UNCHANGED <<request, cancelled, spent>>
    BY <1>2 DEF Reserve, BeginJob, GetResult, FinishJob, Pass, UserGivesUp, Issue, Send, cvars,
                journal, history
  <1>3. ASSUME NEW s \in Uploads \cup {None}, Use(s) PROVE Goal
    BY <1>3 DEF Use, cvars, journal, history
  <1>4. CASE DeleteProfile \/ CreateProfile \/ SweepNothing \/ FinishCleanup
             \/ CleanerGivesUp \/ CrashApp
    BY <1>4 DEF DeleteProfile, CreateProfile, SweepNothing, FinishCleanup, CleanerGivesUp,
                CrashApp, cvars, journal, history
  <1>5. ASSUME NEW m \in DOMAIN Order, Sweep(m) PROVE Goal
    BY <1>5 DEF Sweep, cvars, journal, history
  <1>6. CASE CleanerAnswer \/ DropAnswer \/ CallFails
    BY <1>6 DEF CleanerAnswer, DropAnswer, CallFails, Send, Fail, journal, history
  <1>7. ASSUME NEW r \in backlog, Serve(r) PROVE Goal
    <2>1. UNCHANGED spent
      BY <1>7 DEF Serve, Accept, AcceptNormalize, AcceptWithdraw, AcceptDelete, history
    <2>2. QED
      BY <1>7, <2>1
  <1>8. CASE Step
    BY <1>8 DEF Step, Steps, Recheck, Decode, Mark, Put, Confirm, Remove, Verify, journal, history
  <1>9. ASSUME NEW seal \in BOOLEAN, RestartCoordinator(seal) PROVE Goal
    BY <1>9 DEF RestartCoordinator, Restart, history
  <1>10. CASE CompactRemote \/ CompactSettled
    BY <1>10
  <1>11. ASSUME NEW k \in Objects, Arrive(k) PROVE Goal
    BY <1>11 DEF Arrive, Land, Drain, journal, history
  <1>12. CASE UNCHANGED vars
    BY <1>12 DEF vars, cvars, journal, history
  <1>13. QED
    BY <1>2, <1>3, <1>4, <1>5, <1>6, <1>7, <1>8, <1>9, <1>10, <1>11, <1>12 DEF Next

\* What the coordinator works on has come through the backlog.
LEMMA WorkMoves ==
    ASSUME MediaTypeOK, [Next]_vars, op' # None
    PROVE  (op # None /\ op'.req = op.req) \/ op'.req \in backlog
  <1> DEFINE Goal == (op # None /\ op'.req = op.req) \/ op'.req \in backlog
  <1>1. CASE op' = op
    BY <1>1
  <1>2. ASSUME NEW u \in Uploads,
               Reserve(u) \/ BeginJob(u) \/ GetResult(u) \/ FinishJob(u) \/ Pass(u) \/ UserGivesUp(u)
        PROVE  op' = op
    BY <1>2 DEF Reserve, BeginJob, GetResult, FinishJob, Pass, UserGivesUp, Issue, Send, cvars
  <1>3. ASSUME NEW s \in Uploads \cup {None}, Use(s) PROVE op' = op
    BY <1>3 DEF Use, cvars
  <1>4. CASE DeleteProfile \/ CreateProfile \/ SweepNothing \/ FinishCleanup
             \/ CleanerGivesUp \/ CrashApp
    BY <1>1, <1>4 DEF DeleteProfile, CreateProfile, SweepNothing, FinishCleanup, CleanerGivesUp,
                      CrashApp, cvars
  <1>5. ASSUME NEW m \in DOMAIN Order, Sweep(m) PROVE op' = op
    BY <1>5 DEF Sweep, cvars
  <1>6. CASE CleanerAnswer \/ DropAnswer \/ CallFails
    BY <1>1, <1>6 DEF CleanerAnswer, DropAnswer, CallFails, Send, Fail, Finish, Reply
  <1>7. ASSUME NEW r \in backlog, Serve(r) PROVE Goal
    <2>1. r \in Requests
      BY <1>7 DEF MediaTypeOK
    <2>2. op'.req = r
      BY <1>7, <2>1, RequestShape
      DEF Serve, Accept, AcceptNormalize, AcceptWithdraw, AcceptDelete, Begin, Reply,
          Normalize, Withdraw, Delete, Requests
    <2>3. QED
      BY <2>2
  <1>8. CASE Step
    <2>1. op # None
      BY <1>8 DEF Step, Steps, Recheck, Decode, Mark, Put, Confirm, Remove, Verify, At
    <2>2. QED
      BY <1>8, <2>1, OpShape
      DEF MediaTypeOK, Step, Steps, Recheck, Decode, Mark, Put, Confirm, Remove, Verify, Goto,
          Finish, Reply, Operations
  <1>9. ASSUME NEW seal \in BOOLEAN, RestartCoordinator(seal) PROVE Goal
    BY <1>9 DEF RestartCoordinator, Restart
  <1>10. CASE CompactRemote \/ CompactSettled
    BY <1>1, <1>10 DEF CompactRemote, CompactSettled, CompactSealed, CompactLocal
  <1>11. ASSUME NEW k \in Objects, Arrive(k) PROVE op' = op
    BY <1>11 DEF Arrive, Land, Drain
  <1>12. CASE UNCHANGED vars
    BY <1>1, <1>12 DEF vars, cvars
  <1>13. QED
    BY <1>1, <1>2, <1>3, <1>4, <1>5, <1>6, <1>7, <1>8, <1>9, <1>10, <1>11, <1>12 DEF Next

-----------------------------------------------------------------------------
(* Requests and answers                                                    *)

LEMMA Basics ==
    ASSUME CoordinatorAssumption, MediaAssumption, MInv, [Next]_vars
    PROVE  /\ Jobs = Uploads /\ Inputs = Uploads
           /\ MediaTypeOK /\ TypeOK /\ IInv
           /\ MediaTypeOK' /\ TypeOK' /\ IInv'
           /\ [CNext]_cvars
  BY StepOfCoordinator, MediaTypeStep, StepIInv DEF MInv, MediaTypeOK, MediaAssumption, Uploads

LEMMA RemovalOf ==
    ASSUME NEW u, NEW h
    PROVE  /\ Removal(<<"input", u>>) = Withdraw(u)
           /\ Removal(<<"output", u>>) = Delete(u, outkey[u])
  BY DEF Removal

\* The removal of an entry is of its kind and names its upload.
LEMMA RemovalKind ==
    ASSUME NEW e \in Entries
    PROVE  /\ Removal(e).do \in {"withdraw", "delete"}
           /\ \A u, h : Removal(e) = Delete(u, h) => e = <<"output", u>> /\ h = outkey[u]
           /\ \A u : Removal(e) = Withdraw(u) => e = <<"input", u>>
  <1>1. e = <<e[1], e[2]>> /\ e[1] \in {"input", "output"}
    BY DEF Entries
  <1>2. CASE e[1] = "input"
    BY <1>1, <1>2 DEF Removal, Withdraw, Delete
  <1>3. CASE e[1] = "output"
    BY <1>1, <1>3 DEF Removal, Withdraw, Delete
  <1>4. QED
    BY <1>1, <1>2, <1>3

LEMMA AnswerFitsStep ==
    ASSUME CoordinatorAssumption, MediaAssumption, MInv, [Next]_vars
    PROVE  AnswerFits'
  <1>1. AnswerFits /\ OpFits /\ TypeOK /\ [CNext]_cvars
    BY Basics DEF MInv, IInv
  <1>2. CASE At("confirm") \/ At("recheck")
    <2>1. op.req.do = "normalize" /\ op.out \in Outputs
      BY <1>1, <1>2, OpShape, RequestShape DEF At, OpFits
    <2>2. QED
      BY <1>1, <2>1, AnswerMoves DEF AnswerFits
  <1>3. CASE ~(At("confirm") \/ At("recheck"))
    BY <1>1, <1>3, AnswerMoves DEF AnswerFits
  <1>4. QED
    BY <1>2, <1>3

\* Serving a request changes the journal of the job it names only.
LEMMA Served ==
    ASSUME TypeOK, NEW r \in Requests, Serve(r)
    PROVE  /\ \A j \in Jobs : \/ request'[j] = request[j]
                              \/ r.do = "normalize" /\ r.job = j /\ request'[j] = r.input
           /\ \A j \in cancelled' : j \in cancelled \/ (r.do = "delete" /\ r.job = j)
           /\ r.do = "delete" => r = Delete(r.job, r.out) /\ r.job \in Jobs /\ r.out \in Outputs \cup {Pending}
  <1> USE DEF Serve, Accept, TypeOK
  <1>1. CASE r.do = "normalize"
    BY <1>1, RequestShape DEF AcceptNormalize
  <1>2. CASE r.do = "withdraw"
    BY <1>2 DEF AcceptWithdraw, journal
  <1>3. CASE r.do = "delete"
    <2>1. r = Delete(r.job, r.out) /\ r.job \in Jobs /\ r.out \in Outputs \cup {Pending}
      BY <1>3 DEF Requests, Normalize, Withdraw, Delete
    <2>2. QED
      BY <1>3, <2>1 DEF AcceptDelete
  <1>4. QED
    BY <1>1, <1>2, <1>3, RequestShape

\* After a compaction the journal is empty.
LEMMA Compacted ==
    ASSUME CompactRemote \/ CompactSettled
    PROVE  /\ \A j \in Jobs : request'[j] = None /\ result'[j] = None
           /\ spent \subseteq spent'
           /\ spent' \subseteq spent \cup Journaled \cup cancelled
           /\ cancelled' \subseteq cancelled
           /\ cancelled' # cancelled => cancelled \subseteq spent'
           /\ backlog = {} /\ backlog' = {} /\ op' = None /\ answer' = None
           /\ UNCHANGED <<ledger, user, cleaner, issued, flying, local>>
  <1>1. CASE CompactRemote
    BY <1>1 DEF CompactRemote, CompactSealed, mvars, clients, buckets
  <1>2. CASE CompactSettled
    BY <1>2 DEF CompactSettled, CompactLocal, mvars, clients
  <1>3. QED
    BY <1>1, <1>2

LEMMA JobsFitStep ==
    ASSUME CoordinatorAssumption, MediaAssumption, MInv, [Next]_vars
    PROVE  JobsFit'
  <1>1. /\ JobsFit /\ MediaTypeOK /\ TypeOK /\ Jobs = Uploads /\ backlog \subseteq Requests
        /\ op # None => op.req \in Requests
    BY Basics, OpShape DEF MInv, MediaTypeOK
  <1>2. started \subseteq started'
    BY <1>1, OneUpload DEF LedgerMoves, MediaTypeOK
  <1>3. ASSUME NEW r \in backlog', r.do = "normalize"
        PROVE  r.input = r.job /\ r.job \in started'
    <2>1. CASE r \in backlog
      BY <1>1, <1>2, <1>3, <2>1 DEF JobsFit
    <2>2. ASSUME NEW u \in Uploads, BeginJob(u), r = Normalize(u, u)
          PROVE  r.input = r.job /\ r.job \in started'
      BY <2>2 DEF BeginJob, Normalize, ledger
    <2>3. ASSUME NEW m \in DOMAIN Order, Sweep(m), r = Removal(Order[m]) PROVE FALSE
      BY <1>3, <2>3, OrderShape, RemovalKind
    <2>4. QED
      BY <1>1, <2>1, <2>2, <2>3, RequestsMove
  <1>4. op' # None /\ op'.req.do = "normalize" => op'.req.input = op'.req.job /\ op'.req.job \in started'
    BY <1>1, <1>2, WorkMoves DEF JobsFit
  <1>5. ASSUME NEW u \in Uploads, request'[u] # None PROVE request'[u] = u /\ u \in started'
    <2>1. CASE CompactRemote \/ CompactSettled
      BY <1>1, <1>5, <2>1, Compacted
    <2>2. CASE UNCHANGED request
      BY <1>1, <1>2, <1>5, <2>2 DEF JobsFit
    <2>3. ASSUME NEW r \in backlog, Serve(r) PROVE request'[u] = u /\ u \in started'
      BY <1>1, <1>2, <1>5, <2>3, Served DEF JobsFit
    <2>4. QED
      BY <1>1, <2>1, <2>2, <2>3, JournalMoves
  <1>6. ASSUME NEW u \in Uploads, output'[u] # "none" \/ u \in spent' PROVE u \in started'
    <2>1. CASE u \in spent' /\ u \notin spent
      <3>1. u \in Journaled \cup cancelled
        BY <1>1, <2>1, JournalMoves, Compacted
      <3>2. QED
        BY <1>1, <1>2, <3>1 DEF Journaled, JobsFit, MInv, DoomedOK
    <2>2. CASE output'[u] # "none" /\ output[u] = "none"
      BY <1>1, <2>2, OneUpload DEF LedgerMoves, BeginJob, ledger
    <2>3. QED
      BY <1>1, <1>2, <1>6, <2>1, <2>2 DEF JobsFit
  <1>7. ASSUME NEW u \in Uploads, input'[u] # "none" \/ u \in started' PROVE u \in issued'
    <2>1. issued \subseteq issued'
      BY <1>1, RequestsMove DEF Reserve, Issue
    <2>2. CASE Reserve(u)
      BY <2>2 DEF Reserve, Issue
    <2>3. CASE BeginJob(u)
      BY <1>1, <2>1, <2>3 DEF BeginJob, JobsFit
    <2>4. QED
      BY <1>1, <1>7, <2>1, <2>2, <2>3, OneUpload DEF LedgerMoves, JobsFit
  <1>8. QED
    BY <1>3, <1>4, <1>5, <1>6, <1>7 DEF JobsFit

\* A first validation is of an upload whose deletion nobody has asked for.
LEMMA EndingStays ==
    ASSUME CoordinatorAssumption, MediaTypeOK, [Next]_vars, NEW u \in started, output[u] \in Ending
    PROVE  u \in started' /\ output'[u] \in Ending
  BY OneUpload DEF LedgerMoves, MediaTypeOK

LEMMA DoomedStep ==
    ASSUME CoordinatorAssumption, MediaAssumption, MInv, [Next]_vars
    PROVE  DoomedOK'
  <1>1. /\ JobsFit /\ DoomedOK /\ MediaTypeOK /\ TypeOK /\ Jobs = Uploads
        /\ backlog \subseteq Requests
    BY Basics DEF MInv, MediaTypeOK
  <1>2. ASSUME NEW u \in Uploads, u \in cancelled'
        PROVE  u \in cancelled \/ \E h \in Outputs \cup {Pending} : Delete(u, h) \in backlog
    <2>1. CASE CompactRemote \/ CompactSettled
      BY <1>2, <2>1, Compacted
    <2>2. ASSUME NEW r \in backlog, Serve(r), u \notin cancelled
          PROVE  \E h \in Outputs \cup {Pending} : Delete(u, h) \in backlog
      BY <1>1, <1>2, <2>2, Served
    <2>3. QED
      BY <1>1, <1>2, <2>1, <2>2, JournalMoves
  <1>3. ASSUME NEW u \in Uploads, NEW h \in Outputs \cup {Pending}, Delete(u, h) \in backlog'
        PROVE  Delete(u, h) \in backlog \/ (u \in started /\ output'[u] = "deleting")
    <2>1. ASSUME NEW v \in Uploads, Delete(u, h) = Normalize(v, v) PROVE FALSE
      BY <2>1 DEF Delete, Normalize
    <2>2. ASSUME NEW m \in DOMAIN Order, Sweep(m), Delete(u, h) = Removal(Order[m])
          PROVE  u \in started /\ output'[u] = "deleting"
      <3>1. Order[m] \in Entries /\ Order[m] = <<"output", u>>
        BY <2>2, OrderShape, RemovalKind
      <3>2. output[u] # "none"
        BY <2>2, <3>1 DEF Sweep, NextDue, DueAfter, Due, StateOf
      <3>3. QED
        BY <1>1, <2>2, <3>1, <3>2 DEF Sweep, SetState, JobsFit, MediaTypeOK
    <2>3. QED
      BY <1>1, <1>3, <2>1, <2>2, RequestsMove
  <1>4. ASSUME NEW u \in Uploads,
               u \in cancelled \/ \E h \in Outputs \cup {Pending} : Delete(u, h) \in backlog
        PROVE  u \in started' /\ output'[u] \in Ending
    BY <1>1, <1>4, EndingStays DEF DoomedOK
  <1>5. ASSUME NEW u \in started, output'[u] = "deleting"
        PROVE  u \in started' /\ output'[u] \in Ending
    BY <1>1, <1>5, OneUpload DEF LedgerMoves, Ending, MediaTypeOK
  <1>6. QED
    BY <1>2, <1>3, <1>4, <1>5 DEF DoomedOK

-----------------------------------------------------------------------------
(* Results                                                                 *)

\* Who writes the results of the journal.
LEMMA ResultMoves ==
    ASSUME [CNext]_cvars
    PROVE  \/ result' = result
           \/ CompactSealed \/ CompactLocal
           \/ /\ At("confirm") /\ UNCHANGED spent
              /\ result' = [result EXCEPT ![op.req.job] = op.out]
  <1>1. CASE \/ \E j \in Jobs, i \in Inputs : AcceptNormalize(j, i)
             \/ \E i \in Inputs : AcceptWithdraw(i)
             \/ \E j \in Jobs, h \in Outputs \cup {Pending} : AcceptDelete(j, h)
    BY <1>1 DEF AcceptNormalize, AcceptWithdraw, AcceptDelete, journal
  <1>2. CASE Recheck \/ (\E h \in Outputs : Decode(h)) \/ Mark \/ Put \/ Remove \/ Verify
    BY <1>2 DEF Recheck, Decode, Mark, Put, Remove, Verify, journal
  <1>3. CASE Confirm
    BY <1>3 DEF Confirm, history
  <1>4. CASE Fail \/ Send \/ \E seal \in BOOLEAN : Restart(seal)
    BY <1>4 DEF Fail, Send, Restart, journal
  <1>5. CASE \/ \E i \in Inputs : Issue(i)
             \/ \E k \in Objects : Land(k) \/ Drain(k)
    BY <1>5 DEF Issue, Land, Drain, journal
  <1>6. CASE UNCHANGED cvars
    BY <1>6 DEF cvars, journal
  <1>7. QED
    BY <1>1, <1>2, <1>3, <1>4, <1>5, <1>6 DEF CNext, Steps

LEMMA ResultFitsStep ==
    ASSUME CoordinatorAssumption, MediaAssumption, MInv, [Next]_vars
    PROVE  ResultFits'
  <1>1. /\ ResultFits /\ IInv /\ TypeOK /\ [CNext]_cvars /\ Jobs = Uploads
        /\ PromotionOK /\ OpFits
    BY Basics DEF MInv, IInv
  <1>2. CASE CompactSealed \/ CompactLocal
    BY <1>1, <1>2 DEF CompactSealed, CompactLocal, ResultFits, At
  <1>3. CASE ~(CompactSealed \/ CompactLocal)
    <2>1. UNCHANGED spent
      BY <1>1, <1>3, WhoWrites
    <2>2. ASSUME NEW u \in Uploads, result'[u] # None PROVE u \notin spent'
      <3>1. CASE result' = result
        BY <1>1, <2>1, <2>2, <3>1 DEF ResultFits
      <3>2. CASE At("confirm") /\ result' = [result EXCEPT ![op.req.job] = op.out]
        <4>1. op # None /\ op.req.do = "normalize" /\ op.req.job \notin spent
          BY <1>1, <3>2, OpShape, RequestShape DEF At, OpFits, PromotionOK
        <4>2. CASE u = op.req.job
          BY <2>1, <4>1, <4>2
        <4>3. CASE u # op.req.job
          BY <1>1, <2>1, <2>2, <3>2, <4>3 DEF ResultFits, TypeOK
        <4>4. QED
          BY <4>2, <4>3
      <3>3. QED
        BY <1>1, <1>3, <3>1, <3>2, ResultMoves
    <2>3. ASSUME op' # None, op'.at = "recheck" PROVE op'.req.job \notin spent'
      <3>1. ASSUME NEW j \in Jobs, NEW i \in Inputs, AcceptNormalize(j, i)
            PROVE  op'.req.job \notin spent'
        <4>1. result[j] # None /\ op'.req = Normalize(j, i)
          BY <2>3, <3>1 DEF AcceptNormalize, Begin, Reply
        <4>2. QED
          BY <1>1, <2>1, <4>1 DEF ResultFits, Normalize
      <3>2. CASE Undisturbed
        BY <1>1, <2>1, <2>3, <3>2 DEF Undisturbed, ResultFits, At
      <3>3. ASSUME NEW i \in Inputs, AcceptWithdraw(i) PROVE FALSE
        BY <2>3, <3>3 DEF AcceptWithdraw, Begin, Reply
      <3>4. ASSUME NEW j \in Jobs, NEW h \in Outputs \cup {Pending}, AcceptDelete(j, h)
            PROVE  FALSE
        BY <2>3, <3>4 DEF AcceptDelete, Begin, Reply
      <3>5. ~Mark /\ ~Put /\ ~Remove /\ (\A h \in Outputs : ~Decode(h))
        BY <1>1, <2>3, OpShape DEF Mark, Put, Remove, Decode, Goto, Finish, Reply, At, Operations
      <3>6. QED
        BY <1>1, <2>3, <3>1, <3>2, <3>3, <3>4, <3>5, OpMoves
    <2>4. QED
      BY <2>2, <2>3 DEF ResultFits, At
  <1>4. QED
    BY <1>2, <1>3

\* A result comes from a promotion that has just been confirmed or rechecked.
LEMMA NewlyReady ==
    ASSUME CoordinatorAssumption, MediaAssumption, MInv, [Next]_vars,
           NEW u \in Uploads, NEW h \in Outputs, Ready(u, h)'
    PROVE  \/ Ready(u, h)
           \/ store'[<<u, h>>] = "there" /\ u \notin spent'
  <1>1. /\ ResultFits /\ TypeOK /\ [CNext]_cvars /\ Jobs = Uploads /\ PromotionOK /\ OpFits
    BY Basics DEF MInv, IInv
  <1>2. CASE user'[u] = h
    BY <1>2, ClientsMove, Basics DEF Ready
  <1>3. CASE /\ answer' # None
             /\ answer'.req = Normalize(u, u) /\ answer'.state = "ready" /\ answer'.out = h
    <2>1. CASE answer' = answer
      BY <1>3, <2>1 DEF Ready
    <2>2. CASE /\ At("confirm") \/ At("recheck")
               /\ There(Key)
               /\ answer' = [req |-> op.req, state |-> "ready", out |-> op.out]
               /\ UNCHANGED <<store, cancelled, flying, spent>>
      <3>1. op.req = Normalize(u, u) /\ op.out = h
        BY <1>3, <2>2
      <3>2. op.req.do = "normalize" /\ op.req.job = u /\ Key = <<u, h>>
        BY <3>1 DEF Normalize, Key
      <3>3. u \notin spent
        BY <1>1, <2>2, <3>2 DEF PromotionOK, ResultFits, At
      <3>4. QED
        BY <2>2, <3>2, <3>3 DEF There
    <2>3. QED
      BY <1>1, <1>3, <2>1, <2>2, AnswerMoves
  <1>4. QED
    BY <1>2, <1>3 DEF Ready

LEMMA ReadyStep ==
    ASSUME CoordinatorAssumption, MediaAssumption, MInv, [Next]_vars
    PROVE  ReadyOK'
  <1>1. /\ IInv /\ MediaTypeOK /\ [CNext]_cvars /\ Jobs = Uploads
        /\ ReadyOK /\ DoomedOK /\ PublishedIsJournaled /\ JournalOK
    BY Basics DEF MInv, IInv
  <1>2. SUFFICES ASSUME NEW u \in Uploads, NEW h \in Outputs, Ready(u, h)', output'[u] \notin Ending
                 PROVE  store'[<<u, h>>] = "there" /\ u \notin spent'
    BY DEF ReadyOK, There, Ready
  <1>3. CASE Ready(u, h)
    <2>1. ~BeginJob(u)
      BY <1>3 DEF Ready, BeginJob, Outstanding, MediaAssumption
    <2>2. output[u] \notin Ending
      BY <1>1, <1>2, <2>1, OneUpload DEF LedgerMoves
    <2>3. There(<<u, h>>) /\ u \notin spent /\ u \notin cancelled
      BY <1>1, <1>3, <2>2 DEF ReadyOK, DoomedOK
    <2>4. store'[<<u, h>>] = "there"
      BY <1>1, <2>3, ThereStays
    <2>5. artifact[u] = h /\ h # None /\ u \in Journaled
      BY <1>1, <2>3 DEF PublishedIsJournaled, JournalOK, Journaled, CoordinatorAssumption
    <2>6. ~CompactRemote
      BY <2>3, <2>5 DEF CompactRemote, CompactSealed
    <2>7. ~CompactSettled
      BY <1>2 DEF CompactSettled, CompactLocal, Ready, mvars, clients, MediaAssumption
    <2>8. u \notin spent'
      BY <1>1, <2>3, <2>6, <2>7, JournalMoves
    <2>9. QED
      BY <2>4, <2>8
  <1>4. QED
    BY <1>2, <1>3, NewlyReady

LEMMA SpentGrows ==
    ASSUME MediaTypeOK, [Next]_vars
    PROVE  spent \subseteq spent'
  BY JournalMoves, Compacted

LEMMA OutkeyStep ==
    ASSUME CoordinatorAssumption, MediaAssumption, MInv, [Next]_vars
    PROVE  OutkeyOK'
  <1>1. /\ IInv /\ MediaTypeOK /\ [CNext]_cvars /\ Jobs = Uploads
        /\ ReadyOK /\ OutkeyOK /\ PublishedIsJournaled
    BY Basics DEF MInv, IInv
  <1>2. ASSUME NEW u \in Uploads, FinishJob(u), output[u] = "processing", outkey'[u] = user[u]
        PROVE  /\ u \notin spent' => artifact'[u] = outkey'[u]
               /\ \A h \in Outputs : store'[<<u, h>>] = "there" \/ <<u, h>> \in flying' => h = outkey'[u]
    <2>1. user[u] \in Outputs /\ UNCHANGED cvars
      BY <1>2 DEF FinishJob
    <2>2. There(<<u, user[u]>>) /\ u \notin spent
      BY <1>1, <1>2, <2>1 DEF ReadyOK, Ready, Ending
    <2>3. /\ artifact[u] = user[u]
          /\ \A h \in Outputs : There(<<u, h>>) \/ <<u, h>> \in flying => h = user[u]
      BY <1>1, <2>1, <2>2 DEF PublishedIsJournaled
    <2>4. QED
      BY <1>2, <2>1, <2>3 DEF cvars, journal, buckets, There
  <1>3. ASSUME NEW u \in Uploads, outkey[u] # Pending, outkey'[u] = outkey[u]
        PROVE  /\ u \notin spent' => artifact'[u] = outkey'[u]
               /\ \A h \in Outputs : store'[<<u, h>>] = "there" \/ <<u, h>> \in flying' => h = outkey'[u]
    <2>1. outkey[u] \in Outputs /\ outkey[u] # None
      BY <1>1, <1>3 DEF MediaTypeOK, CoordinatorAssumption
    <2>2. u \notin spent => artifact[u] = outkey[u]
      BY <1>1, <1>3 DEF OutkeyOK
    <2>3. u \notin spent' => artifact'[u] = outkey'[u]
      BY <1>1, <1>3, <2>1, <2>2, SpentGrows, ArtifactStays
    <2>4. ASSUME NEW h \in Outputs, store'[<<u, h>>] = "there" \/ <<u, h>> \in flying'
          PROVE  h = outkey[u]
      BY <1>1, <1>3, <2>2, <2>4, Existing DEF OutkeyOK
    <2>5. QED
      BY <1>3, <2>3, <2>4
  <1>4. ASSUME NEW u \in Uploads, output'[u] \in {"ready", "active"} PROVE outkey'[u] # Pending
    <2>1. CASE FinishJob(u) /\ profile /\ input[u] = "processing" /\ output[u] = "processing"
      BY <1>1, <2>1 DEF FinishJob, MediaTypeOK, CoordinatorAssumption
    <2>2. CASE output[u] \in {"ready", "active"}
      BY <1>1, <2>2, OneUpload DEF LedgerMoves, OutkeyOK
    <2>3. CASE FinishJob(u) /\ ~(profile /\ input[u] = "processing" /\ output[u] = "processing")
      BY <1>1, <1>4, <2>3 DEF FinishJob, OutkeyOK
    <2>4. QED
      BY <1>1, <1>4, <2>1, <2>2, <2>3, OneUpload DEF LedgerMoves
  <1>5. QED
    BY <1>1, <1>2, <1>3, <1>4, OneUpload DEF LedgerMoves, OutkeyOK, There

LEMMA DeletionFitsStep ==
    ASSUME CoordinatorAssumption, MediaAssumption, MInv, [Next]_vars
    PROVE  DeletionFits'
  <1>1. /\ IInv /\ MediaTypeOK /\ Jobs = Uploads /\ DeletionFits /\ DoomedOK /\ DeletionOK
    BY Basics DEF MInv, IInv
  <1>2. ASSUME NEW u \in Uploads, NEW h \in Outputs,
               Delete(u, h) \in backlog \/ (op # None /\ op.req = Delete(u, h))
        PROVE  outkey'[u] = h
    <2>1. output[u] \in Ending
      BY <1>1, <1>2 DEF DoomedOK, DeletionOK, Delete
    <2>2. QED
      BY <1>1, <1>2, <2>1, OneUpload DEF LedgerMoves, DeletionFits, Ending
  <1>3. ASSUME NEW u \in Uploads, NEW h \in Outputs, NEW m \in DOMAIN Order,
               Sweep(m), Delete(u, h) = Removal(Order[m])
        PROVE  outkey'[u] = h
    BY <1>3, OrderShape, RemovalKind DEF Sweep
  <1>4. ASSUME NEW u \in Uploads, NEW h \in Outputs, NEW v \in Uploads, Delete(u, h) = Normalize(v, v)
        PROVE  FALSE
    BY <1>4 DEF Delete, Normalize
  <1>5. QED
    BY <1>1, <1>2, <1>3, <1>4, RequestsMove, WorkMoves DEF DeletionFits

-----------------------------------------------------------------------------
(* What is gone                                                            *)

LEMMA ReleasedGrows ==
    ASSUME [CNext]_cvars
    PROVE  released \subseteq released'
  BY WhoWrites DEF Verify

\* Nothing brings back a job that is cancelled or compacted away.
LEMMA ForgottenStays ==
    ASSUME CoordinatorAssumption, MediaAssumption, MInv, [Next]_vars, NEW u \in Uploads, Forgotten(u)
    PROVE  Forgotten(u)'
  <1>1. IInv /\ MediaTypeOK /\ [CNext]_cvars /\ Jobs = Uploads
    BY Basics
  <1>2. u \in cancelled' \cup spent'
    <2>1. cancelled \subseteq cancelled' \cup spent'
      BY <1>1, WhoWrites DEF AcceptDelete, CompactSealed
    <2>2. QED
      BY <1>1, <2>1, SpentGrows DEF Forgotten
  <1>3. ASSUME NEW h \in Outputs PROVE store'[<<u, h>>] # "there" /\ <<u, h>> \notin flying'
    BY <1>1, Existing DEF Forgotten
  <1>4. QED
    BY <1>2, <1>3 DEF Forgotten, There

\* The objects of a removal that was just verified.
LEMMA VerifiedNow ==
    ASSUME CoordinatorAssumption, MediaAssumption, MInv, [Next]_vars,
           Verify, answer' = [req |-> op.req, state |-> "deleted", out |-> None],
           released' = released \cup Freed, NEW u \in Uploads
    PROVE  /\ op.req = Withdraw(u) => u \in released'
           /\ \A h \in Outputs \cup {Pending} : op.req = Delete(u, h) => Forgotten(u)'
  <1>1. /\ IInv /\ TypeOK /\ Jobs = Uploads /\ DeletionOK /\ OutkeyOK /\ DeletionFits
        /\ IInv' /\ op # None
        /\ UNCHANGED <<cancelled, spent, store, flying>>
    BY Basics DEF MInv, IInv, Verify, At, journal, buckets
  <1>2. ASSUME op.req = Withdraw(u) PROVE u \in released'
    BY <1>2 DEF Freed, Target, Withdraw
  <1>3. ASSUME NEW h \in Outputs \cup {Pending}, op.req = Delete(u, h) PROVE Forgotten(u)'
    <2>1. op.req.do = "delete" /\ op.req.job = u /\ op.req.out = h
      BY <1>3 DEF Delete
    <2>2. u \in cancelled
      BY <1>1, <2>1 DEF DeletionOK
    <2>3. ASSUME NEW g \in Outputs, <<u, g>> \in released'
          PROVE  ~There(<<u, g>>) /\ <<u, g>> \notin flying
      <3>1. store'[<<u, g>>] # "there" /\ <<u, g>> \notin flying'
        BY <1>1, <2>3 DEF IInv, ReleasedOK, ReleasedStaysAbsent, There
      <3>2. QED
        BY <1>1, <3>1 DEF There
    <2>4. ASSUME NEW g \in Outputs PROVE ~There(<<u, g>>) /\ <<u, g>> \notin flying
      <3>1. CASE h = Pending
        BY <2>1, <2>3, <3>1 DEF Freed
      <3>2. CASE h \in Outputs
        <4>1. op.out = h /\ outkey[u] = h /\ h # Pending
          BY <1>1, <1>3, <2>1, <3>2 DEF DeletionOK, DeletionFits, CoordinatorAssumption
        <4>2. <<u, h>> \in Freed
          BY <1>1, <2>1, <3>2, <4>1, PairsAreNoInputs DEF Freed, Target, Key
        <4>3. g # h => ~There(<<u, g>>) /\ <<u, g>> \notin flying
          BY <1>1, <4>1 DEF OutkeyOK
        <4>4. QED
          BY <2>3, <3>2, <4>2, <4>3
      <3>3. QED
        BY <3>1, <3>2
    <2>5. QED
      BY <1>1, <2>2, <2>4 DEF Forgotten, There
  <1>4. QED
    BY <1>2, <1>3

\* A new answer that reports a deletion comes from Verify.
LEMMA DeletedAnswers ==
    ASSUME [CNext]_cvars, answer' # None, answer'.state = "deleted"
    PROVE  \/ answer' = answer
           \/ /\ Verify
              /\ answer' = [req |-> op.req, state |-> "deleted", out |-> None]
              /\ released' = released \cup Freed
  BY AnswerMoves

LEMMA CleanedStep ==
    ASSUME CoordinatorAssumption, MediaAssumption, MInv, [Next]_vars
    PROVE  CleanedOK'
  <1>1. /\ IInv /\ MediaTypeOK /\ [CNext]_cvars /\ Jobs = Uploads /\ CleanedOK
        /\ released \subseteq released'
    BY Basics, ReleasedGrows DEF MInv
  <1>2. ASSUME NEW u \in Uploads, Answered(Withdraw(u), "deleted")' PROVE u \in released'
    <2>1. answer' # None /\ answer'.req = Withdraw(u) /\ answer'.state = "deleted"
      BY <1>2 DEF Answered
    <2>2. CASE answer' = answer
      BY <1>1, <2>1, <2>2 DEF CleanedOK, Answered
    <2>3. CASE /\ Verify
               /\ answer' = [req |-> op.req, state |-> "deleted", out |-> None]
               /\ released' = released \cup Freed
      BY <2>1, <2>3, VerifiedNow
    <2>4. QED
      BY <1>1, <2>1, <2>2, <2>3, DeletedAnswers
  <1>3. ASSUME NEW u \in Uploads, NEW h \in Outputs \cup {Pending}, Answered(Delete(u, h), "deleted")'
        PROVE  Forgotten(u)'
    <2>1. answer' # None /\ answer'.req = Delete(u, h) /\ answer'.state = "deleted"
      BY <1>3 DEF Answered
    <2>2. CASE answer' = answer
      BY <1>1, <2>1, <2>2, ForgottenStays DEF CleanedOK, Answered
    <2>3. CASE /\ Verify
               /\ answer' = [req |-> op.req, state |-> "deleted", out |-> None]
               /\ released' = released \cup Freed
      BY <2>1, <2>3, VerifiedNow
    <2>4. QED
      BY <1>1, <2>1, <2>2, <2>3, DeletedAnswers
  <1>4. ASSUME NEW u \in Uploads, cleaner' # None, cleaner'.at = "finish",
               cleaner'.entry = <<"input", u>>
        PROVE  u \in released'
    <2>1. cleaner # None /\ cleaner.entry = <<"input", u>>
          /\ (cleaner.at = "finish" \/ Answered(Withdraw(u), "deleted"))
      BY <1>1, <1>4, ClientsMove, RemovalOf
    <2>2. QED
      BY <1>1, <2>1 DEF CleanedOK
  <1>5. ASSUME NEW u \in Uploads, cleaner' # None, cleaner'.at = "finish",
               cleaner'.entry = <<"output", u>>
        PROVE  Forgotten(u)'
    <2>1. /\ cleaner # None /\ cleaner.entry = <<"output", u>>
          /\ cleaner.at = "finish" \/ Answered(Delete(u, outkey[u]), "deleted")
      BY <1>1, <1>5, ClientsMove, RemovalOf
    <2>2. outkey[u] \in Outputs \cup {Pending}
      BY <1>1 DEF MediaTypeOK
    <2>3. Forgotten(u)
      BY <1>1, <2>1, <2>2 DEF CleanedOK
    <2>4. QED
      BY <2>3, ForgottenStays
  <1>6. ASSUME NEW u \in Uploads, input'[u] = "none", u \in issued' PROVE u \in released'
    <2>1. ~Reserve(u)
      BY <1>1, <1>6 DEF Reserve, MediaTypeOK
    <2>2. ASSUME NEW v \in Uploads, Reserve(v) PROVE issued' = issued \cup {v}
      BY <2>2 DEF Reserve, Issue
    <2>3. u \in issued
      BY <1>1, <1>6, <2>1, <2>2, RequestsMove
    <2>4. QED
      BY <1>1, <1>6, <2>3, OneUpload DEF LedgerMoves, CleanedOK
  <1>7. ASSUME NEW u \in Uploads, output'[u] = "none", u \in started' PROVE Forgotten(u)'
    <2>1. CASE u \in started
      BY <1>1, <1>7, <2>1, OneUpload, ForgottenStays DEF LedgerMoves, CleanedOK
    <2>2. CASE u \notin started
      <3>1. BeginJob(u)
        BY <1>1, <1>7, <2>2, OneUpload DEF LedgerMoves
      <3>2. QED
        BY <1>1, <1>7, <2>2, <3>1 DEF BeginJob, MediaTypeOK
    <2>3. QED
      BY <2>1, <2>2
  <1>8. QED
    BY <1>2, <1>3, <1>4, <1>5, <1>6, <1>7 DEF CleanedOK

-----------------------------------------------------------------------------
(* Uploads                                                                 *)

\* An upload is under way only once it was signed.
LEMMA SignedFlies ==
    ASSUME CoordinatorAssumption, IInv, [CNext]_cvars, NEW i \in Inputs, i \in flying'
    PROVE  i \in flying \/ i \in issued'
  <1>1. TypeOK /\ OpFits
    BY DEF IInv
  <1>2. CASE flying' \subseteq flying
    BY <1>2
  <1>3. ASSUME Interrupted PROVE i \in flying
    <2>1. ~(At("put") /\ i = Key)
      BY <1>1, KeyShape, PairsAreNoInputs DEF Key, At
    <2>2. QED
      BY <1>1, <1>3, <2>1, InterruptedEffects
  <1>4. CASE Fail \/ \E seal \in BOOLEAN : Restart(seal)
    BY <1>3, <1>4 DEF Fail, Restart
  <1>5. CASE \E v \in Inputs : Issue(v)
    BY <1>5 DEF Issue
  <1>6. CASE \/ \E j \in Jobs, v \in Inputs : AcceptNormalize(j, v)
             \/ \E v \in Inputs : AcceptWithdraw(v)
             \/ \E j \in Jobs, h \in Outputs \cup {Pending} : AcceptDelete(j, h)
    BY <1>2, <1>6 DEF AcceptNormalize, AcceptWithdraw, AcceptDelete, buckets
  <1>7. CASE Steps
    BY <1>2, <1>7 DEF Steps, Recheck, Decode, Mark, Put, Confirm, Remove, Verify, buckets
  <1>8. CASE Send \/ CompactSealed \/ CompactLocal \/ \E k \in Objects : Land(k) \/ Drain(k)
    BY <1>2, <1>8 DEF Send, CompactSealed, CompactLocal, Land, Drain, buckets
  <1>9. CASE UNCHANGED cvars
    BY <1>2, <1>9 DEF cvars, buckets
  <1>10. QED
    BY <1>4, <1>5, <1>6, <1>7, <1>8, <1>9 DEF CNext

LEMMA IssuedGrows ==
    ASSUME [CNext]_cvars
    PROVE  issued \subseteq issued'
  BY WhoWrites DEF Issue

\* An input appears in quarantine only from an upload under way.
LEMMA InputAppears ==
    ASSUME CoordinatorAssumption, IInv, [CNext]_cvars, NEW i \in Inputs, store'[i] = "there"
    PROVE  There(i) \/ i \in flying
  <1>1. Effects /\ i \in Objects
    BY StepEffects DEF IInv, Objects
  <1>2. ~(At("put") /\ i = Key)
    BY KeyShape, PairsAreNoInputs DEF Key, At, IInv
  <1>3. QED
    BY <1>1, <1>2 DEF Effects, Appears

LEMMA IssuedStep ==
    ASSUME CoordinatorAssumption, MediaAssumption, MInv, [Next]_vars
    PROVE  IssuedOK'
  BY Basics, SignedFlies, InputAppears, IssuedGrows DEF MInv, IssuedOK, There

\* A signed upload that is over is never under way again.
LEMMA OverStays ==
    ASSUME CoordinatorAssumption, IInv, [CNext]_cvars, NEW i \in Inputs, Over(i)
    PROVE  Over(i)'
  <1>1. Effects /\ TypeOK /\ OpFits
    BY StepEffects DEF IInv
  <1>2. i \notin flying'
    <2>1. ~(At("put") /\ i = Key)
      BY <1>1, KeyShape, PairsAreNoInputs DEF Key, At
    <2>2. QED
      BY <1>1, <2>1 DEF Effects, TakesOff, Over
  <1>3. QED
    BY <1>2, IssuedGrows, InputAppears DEF Over, There

LEMMA SpentSafeStep ==
    ASSUME CoordinatorAssumption, MediaAssumption, MInv, [Next]_vars
    PROVE  SpentSafe'
  <1>1. /\ IInv /\ MediaTypeOK /\ TypeOK /\ [CNext]_cvars /\ Jobs = Uploads /\ Inputs = Uploads
        /\ SpentSafe /\ JobsFit /\ DoomedOK /\ FlyingOK /\ SpentOK
        /\ local' = local
    BY Basics, StepEffects DEF MInv, IInv, Effects
  <1>2. ASSUME NEW u \in spent
        PROVE  Over(u)' \/ output'[u] \in Ending
    <2>1. u \in Uploads /\ u \in started
      BY <1>1 DEF TypeOK, JobsFit
    <2>2. QED
      BY <1>1, <2>1, OverStays, EndingStays DEF SpentSafe
  <1>3. ASSUME NEW u \in Uploads, outkey[u] # Pending PROVE outkey'[u] # Pending
    BY <1>1, <1>3, OneUpload DEF LedgerMoves, FinishJob, CoordinatorAssumption
  <1>4. ASSUME NEW u \in spent', u \notin spent, CompactRemote
        PROVE  (Over(u)' \/ output'[u] \in Ending) /\ ~local'
    <2>1. ~local /\ sealed /\ flying = {} /\ UNCHANGED ledger
      BY <1>1, <1>4 DEF CompactRemote, CompactSealed, FlyingOK, mvars
    <2>2. u \in Uploads /\ u \in Journaled \cup cancelled
      BY <1>1, <1>4, Compacted DEF TypeOK, Journaled
    <2>3. CASE u \in cancelled
      BY <1>1, <2>1, <2>2, <2>3 DEF DoomedOK, ledger
    <2>4. CASE u \in Journaled
      <3>1. request[u] = u /\ u \in issued
        BY <1>1, <2>2, <2>4 DEF Journaled, JobsFit
      <3>2. ~There(u)
        BY <1>4, <2>4, <3>1 DEF CompactRemote, CompactSealed
      <3>3. Over(u)
        BY <2>1, <3>1, <3>2 DEF Over
      <3>4. QED
        BY <1>1, <2>1, <2>2, <3>3, OverStays
    <2>5. QED
      BY <1>1, <2>1, <2>2, <2>3, <2>4
  <1>5. ASSUME NEW u \in spent', u \notin spent, CompactSettled
        PROVE  Over(u)' /\ outkey'[u] # Pending
    <2>1. u \in Journaled /\ flying = {} /\ u \in Uploads /\ UNCHANGED ledger
      BY <1>1, <1>5 DEF CompactSettled, CompactLocal, mvars, Journaled
    <2>2. result[u] = outkey[u] /\ result[u] # None /\ There(<<u, result[u]>>)
          /\ ~There(request[u])
      BY <1>5, <2>1 DEF CompactSettled, CompactLocal
    <2>3. request[u] = u /\ u \in issued
      BY <1>1, <2>1 DEF Journaled, JobsFit
    <2>4. Over(u)
      BY <2>1, <2>2, <2>3 DEF Over
    <2>5. outkey[u] # Pending
      BY <1>1, <2>1, <2>2 DEF TypeOK, CoordinatorAssumption
    <2>6. QED
      BY <1>1, <2>1, <2>4, <2>5, OverStays DEF ledger
  <1>6. spent' # spent => CompactRemote \/ CompactSettled
    BY <1>1, JournalMoves
  <1>7. spent \subseteq Uploads
    BY <1>1 DEF TypeOK
  <1>8. QED
    BY <1>1, <1>2, <1>3, <1>4, <1>5, <1>6, <1>7 DEF SpentSafe

LEMMA RequestsSafeStep ==
    ASSUME CoordinatorAssumption, MediaAssumption, MInv, [Next]_vars
    PROVE  RequestsSafe'
  <1>1. /\ IInv /\ MediaTypeOK /\ TypeOK /\ [CNext]_cvars /\ Jobs = Uploads /\ Inputs = Uploads
        /\ SpentSafe /\ JobsFit /\ RequestsSafe /\ backlog \subseteq Requests
        /\ local' = local
    BY Basics, StepEffects DEF MInv, MediaTypeOK, IInv, Effects
  <1>2. backlog' # {} => UNCHANGED spent
    BY <1>1, JournalMoves, Compacted
  <1>3. ASSUME NEW r \in backlog', r \in backlog, r.do = "normalize"
        PROVE  MayAsk(r.job, r.input)'
    <2>1. r.input \in Inputs /\ UNCHANGED spent
      BY <1>1, <1>2, <1>3, RequestShape
    <2>2. r.job \in spent => Over(r.input)
      BY <1>1, <1>3 DEF RequestsSafe, MayAsk, Over
    <2>3. r.job \in spent => Over(r.input)'
      BY <1>1, <2>1, <2>2, OverStays
    <2>4. QED
      BY <2>1, <2>3 DEF MayAsk, Over
  <1>4. ASSUME NEW r \in backlog', r \in backlog, r.do = "delete"
        PROVE  MayDelete(r.job, r.out)'
    BY <1>1, <1>2, <1>4 DEF RequestsSafe, MayDelete
  <1>5. ASSUME NEW u \in Uploads, BeginJob(u), NEW r, r = Normalize(u, u)
        PROVE  r.do = "normalize" /\ MayAsk(r.job, r.input)'
    <2>1. r.do = "normalize" /\ r.job = u /\ r.input = u
      BY <1>5 DEF Normalize
    <2>2. u \in spent => Over(u)
      <3>1. u \in spent => u \in started
        BY <1>1 DEF JobsFit
      <3>2. u \in started => output[u] = "processing"
        BY <1>5 DEF BeginJob
      <3>3. QED
        BY <1>1, <3>1, <3>2 DEF SpentSafe, Ending
    <2>3. UNCHANGED cvars
      BY <1>5 DEF BeginJob
    <2>4. QED
      BY <2>1, <2>2, <2>3 DEF MayAsk, Over, There, cvars, history, buckets
  <1>6. ASSUME NEW m \in DOMAIN Order, Sweep(m), NEW r, r = Removal(Order[m])
        PROVE  r.do # "normalize" /\ (r.do = "delete" => MayDelete(r.job, r.out)')
    <2>1. Order[m] \in Entries /\ UNCHANGED cvars
      BY <1>6, OrderShape DEF Sweep
    <2>2. r.do # "normalize"
      BY <1>6, <2>1, RemovalKind
    <2>3. ASSUME r.do = "delete" PROVE MayDelete(r.job, r.out)'
      <3>1. PICK u \in Uploads : r = Delete(u, outkey[u])
        BY <1>6, <2>1, <2>3 DEF Removal, Withdraw, Entries
      <3>2. r.job = u /\ r.out = outkey[u]
        BY <3>1 DEF Delete
      <3>3. local' = local /\ spent' = spent
        BY <2>1 DEF cvars, history
      <3>4. local /\ r.out = Pending => r.job \notin spent
        BY <1>1, <3>2 DEF SpentSafe
      <3>5. QED
        BY <3>3, <3>4 DEF MayDelete
    <2>4. QED
      BY <2>2, <2>3
  <1>7. ASSUME NEW r \in backlog', r.do = "normalize" PROVE MayAsk(r.job, r.input)'
    BY <1>1, <1>3, <1>5, <1>6, <1>7, RequestsMove
  <1>8. ASSUME NEW r \in backlog', r.do = "delete" PROVE MayDelete(r.job, r.out)'
    BY <1>1, <1>4, <1>5, <1>6, <1>8, RequestsMove
  <1>9. QED
    BY <1>7, <1>8 DEF RequestsSafe

-----------------------------------------------------------------------------
(* Alerts                                                                  *)

LEMMA SlotStep ==
    ASSUME CoordinatorAssumption, MediaAssumption, MInv, [Next]_vars
    PROVE  slot' # None => output'[slot'] = "active"
  <1> DEFINE Goal == slot' # None => output'[slot'] = "active"
  <1>1. /\ MediaTypeOK /\ JobsFit
        /\ slot # None => slot \in Uploads /\ output[slot] = "active" /\ slot \in started
    BY DEF MInv, MediaTypeOK, AlertsPlayable, JobsFit
  <1>2. CASE UNCHANGED <<output, slot>>
    BY <1>1, <1>2
  <1>3. ASSUME NEW u \in Uploads, BeginJob(u) PROVE Goal
    BY <1>1, <1>3 DEF BeginJob, ledger, MediaTypeOK
  <1>4. ASSUME NEW u \in Uploads, FinishJob(u) PROVE Goal
    BY <1>1, <1>4 DEF FinishJob, MediaTypeOK
  <1>5. ASSUME NEW s \in Uploads \cup {None}, Use(s) PROVE Goal
    BY <1>5 DEF Use
  <1>6. CASE DeleteProfile
    BY <1>6 DEF DeleteProfile
  <1>7. ASSUME NEW m \in DOMAIN Order, Sweep(m) PROVE Goal
    <2>1. StateOf(Order[m]) # "active"
      BY <1>7 DEF Sweep, NextDue, DueAfter, Due
    <2>2. QED
      BY <1>1, <1>7, <2>1 DEF Sweep, SetState, StateOf, MediaTypeOK
  <1>8. CASE FinishCleanup
    BY <1>1, <1>8 DEF FinishCleanup, SetState, StateOf, MediaTypeOK
  <1>9. ASSUME NEW u \in Uploads, Reserve(u) \/ GetResult(u) \/ Pass(u) \/ UserGivesUp(u)
        PROVE  UNCHANGED <<output, slot>>
    BY <1>9 DEF Reserve, GetResult, Pass, UserGivesUp, ledger
  <1>10. CASE \/ CreateProfile \/ SweepNothing \/ CleanerAnswer \/ CallFails
              \/ CleanerGivesUp \/ CrashApp
              \/ \E r \in backlog : Serve(r)
              \/ \E seal \in BOOLEAN : RestartCoordinator(seal)
    BY <1>2, <1>10 DEF CreateProfile, SweepNothing, CleanerAnswer, CallFails, CleanerGivesUp,
                       CrashApp, Serve, RestartCoordinator, ledger
  <1>11. CASE \/ Step \/ DropAnswer \/ CompactRemote \/ CompactSettled
              \/ \E k \in Objects : Arrive(k)
    BY <1>2, <1>11 DEF Step, DropAnswer, CompactRemote, CompactSettled, Arrive, mvars, ledger
  <1>12. CASE UNCHANGED vars
    BY <1>2, <1>12 DEF vars, mvars, ledger
  <1>13. QED
    BY <1>2, <1>3, <1>4, <1>5, <1>6, <1>7, <1>8, <1>9, <1>10, <1>11, <1>12 DEF Next

LEMMA AlertsStep ==
    ASSUME CoordinatorAssumption, MediaAssumption, MInv, [Next]_vars
    PROVE  AlertsPlayable'
  <1>1. /\ IInv /\ MediaTypeOK /\ [CNext]_cvars /\ Jobs = Uploads
        /\ AlertsPlayable /\ DoomedOK /\ OutkeyOK /\ ReadyOK
    BY Basics DEF MInv
  <1>2. ASSUME NEW u \in Uploads, output[u] \in {"ready", "active"}
        PROVE  store'[<<u, outkey'[u]>>] = "there"
    <2>1. outkey[u] \in Outputs /\ outkey'[u] = outkey[u]
      BY <1>1, <1>2, OneUpload DEF LedgerMoves, OutkeyOK, MediaTypeOK
    <2>2. u \notin cancelled /\ There(<<u, outkey[u]>>)
      BY <1>1, <1>2 DEF DoomedOK, Ending, AlertsPlayable
    <2>3. QED
      BY <1>1, <2>1, <2>2, ThereStays
  <1>3. ASSUME NEW u \in Uploads, FinishJob(u), output'[u] \in {"ready", "active"},
               output[u] \notin {"ready", "active"}
        PROVE  store'[<<u, outkey'[u]>>] = "there"
    <2>1. /\ user[u] \in Outputs /\ output[u] = "processing"
          /\ outkey'[u] = user[u] /\ UNCHANGED store
      BY <1>1, <1>3 DEF FinishJob, MediaTypeOK, cvars, buckets
    <2>2. There(<<u, user[u]>>)
      BY <1>1, <2>1 DEF ReadyOK, Ready, Ending
    <2>3. QED
      BY <2>1, <2>2 DEF There
  <1>4. ASSUME NEW u \in Uploads, output'[u] \in {"ready", "active"}
        PROVE  store'[<<u, outkey'[u]>>] = "there"
    BY <1>1, <1>2, <1>3, <1>4, OneUpload DEF LedgerMoves
  <1>5. QED
    BY <1>4, SlotStep DEF AlertsPlayable, There

-----------------------------------------------------------------------------
(* The theorems                                                            *)

LEMMA InitMInv ==
    ASSUME CoordinatorAssumption, MediaAssumption, Init
    PROVE  MInv
  <1>1. IInv /\ TypeOK
    BY InitIInv DEF Init, IInv
  <1>2. MediaTypeOK
    BY <1>1 DEF Init, MediaTypeOK, MediaAssumption
  <1>3. AnswerFits /\ JobsFit /\ DoomedOK /\ ResultFits /\ DeletionFits
    BY DEF Init, CInit, MediaAssumption, Uploads, AnswerFits, JobsFit, DoomedOK, ResultFits,
           DeletionFits, At
  <1>4. ReadyOK /\ OutkeyOK
    BY DEF Init, CInit, MediaAssumption, ReadyOK, Ready, OutkeyOK
  <1>5. CleanedOK /\ IssuedOK
    BY DEF Init, CInit, MediaAssumption, Uploads, CleanedOK, IssuedOK, Answered, There, Objects
  <1>6. SpentSafe /\ RequestsSafe /\ AlertsPlayable
    BY DEF Init, CInit, SpentSafe, RequestsSafe, AlertsPlayable
  <1>7. QED
    BY <1>1, <1>2, <1>3, <1>4, <1>5, <1>6 DEF MInv

LEMMA StepMInv ==
    ASSUME CoordinatorAssumption, MediaAssumption, MInv, [Next]_vars
    PROVE  MInv'
  BY Basics, AnswerFitsStep, JobsFitStep, DoomedStep, ResultFitsStep, ReadyStep, OutkeyStep,
     DeletionFitsStep, CleanedStep, IssuedStep, SpentSafeStep, RequestsSafeStep, AlertsStep
  DEF MInv

\* Application and coordinator together keep the inductive invariant.
THEOREM MediaInvariant == Spec => []MInv
  <1>1. Init => MInv
    BY CoordinatorAssumption, MediaAssumption, InitMInv
  <1>2. MInv /\ [Next]_vars => MInv'
    BY CoordinatorAssumption, MediaAssumption, StepMInv
  <1>3. QED
    BY <1>1, <1>2, PTL DEF Spec

\* Whatever users, cleaner and operator do, what the coordinator does is what
\* its own specification says (media_cleanup.ex, media_coordinator.ex).
THEOREM MediaIsCoordinator == Spec => CSpec
  <1>1. Init => CInit
    BY DEF Init
  <1>2. MInv /\ [Next]_vars => [CNext]_cvars
    BY MediaAssumption, StepOfCoordinator DEF MInv, MediaTypeOK
  <1>3. QED
    BY <1>1, <1>2, MediaInvariant, PTL DEF Spec, CSpec

\* Every variable of ledger, clients and coordinator keeps its shape.
THEOREM MediaTypeCorrect == Spec => []MediaTypeOK
  <1>1. MInv => MediaTypeOK
    BY DEF MInv
  <1>2. QED
    BY <1>1, MediaInvariant, PTL

\* The alert in use can be played (profiles.ex:218-287, 1338-1428).
THEOREM MediaAlertsPlayable == Spec => []AlertsPlayable
  <1>1. MInv => AlertsPlayable
    BY DEF MInv
  <1>2. QED
    BY <1>1, MediaInvariant, PTL

\* The application keeps to what the coordinator takes for granted
\* (profiles.ex:148-216, media_coordinator.py:216-237).
THEOREM MediaRequestsSafe == Spec => []RequestsSafe
  <1>1. MInv => RequestsSafe
    BY DEF MInv
  <1>2. QED
    BY <1>1, MediaInvariant, PTL

\* Nothing is stored, or can still arrive, without an entry that pays for it:
\* an upload without one was released, an output without one is forgotten or
\* was never asked for (profiles.ex:330-343, media_coordinator.py:174-214).
THEOREM MediaBytesAccounted == Spec => []BytesAccounted
  <1>1. ASSUME MInv, NEW u \in Uploads, There(u) PROVE input[u] # "none"
    <2>1. u \in issued /\ u \notin released
      BY <1>1 DEF MInv, IInv, IssuedOK, ReleasedOK, ReleasedStaysAbsent
    <2>2. QED
      BY <1>1, <2>1 DEF MInv, CleanedOK
  <1>2. ASSUME MInv, NEW u \in Uploads, NEW h \in Outputs,
               There(<<u, h>>) \/ <<u, h>> \in flying
        PROVE  output[u] # "none"
    <2>1. u \in Jobs /\ h # None
      BY CoordinatorAssumption, MediaAssumption DEF CoordinatorAssumption, MediaAssumption, Uploads
    <2>2. CASE u \in started
      BY <1>2, <2>2 DEF MInv, CleanedOK, Forgotten
    <2>3. CASE u \notin started
      <3>1. u \notin spent /\ request[u] = None
        BY <1>2, <2>3 DEF MInv, JobsFit
      <3>2. artifact[u] = None
        BY <1>2, <2>1, <3>1 DEF MInv, IInv, JournalOK
      <3>3. QED
        BY <1>2, <2>1, <3>1, <3>2 DEF MInv, IInv, PublishedIsJournaled
    <2>4. QED
      BY <2>2, <2>3
  <1>3. MInv => BytesAccounted
    BY <1>1, <1>2 DEF BytesAccounted
  <1>4. QED
    BY <1>3, MediaInvariant, PTL

\* Within the application, too, the journal names whatever a job has published
\* (media_coordinator.py:137-154).
THEOREM MediaPublishedIsJournaled == Spec => []PublishedIsJournaled
  BY MediaIsCoordinator, CoordinatorPublishedIsJournaled, PTL

\* Within the application, too, what was reported deleted stays deleted
\* (media_coordinator.py:174-214).
THEOREM MediaReleasedStaysAbsent == Spec => []ReleasedStaysAbsent
  BY MediaIsCoordinator, CoordinatorReleasedStaysAbsent, PTL
=============================================================================
