---------------------------- MODULE Coordinator ----------------------------
(***************************************************************************)
(* The operator's service scripts/media_coordinator.py between quarantine  *)
(* and public bucket, with the local variant of                            *)
(* scripts/local_media_coordinator.py.  It serves one request at a time;   *)
(* its journal is committed between the steps of a request, so each commit *)
(* and each call to a bucket is a step here and the process may stop       *)
(* between any two.  A PUT that was cut short may still arrive at a remote *)
(* bucket, an upload may use its signed URL late.  Authentication and the  *)
(* syntax of requests are left out.                                        *)
(***************************************************************************)
EXTENDS Naturals, FiniteSets

CONSTANTS
    Jobs, Inputs,
    Outputs,   \* hashes of what the decoder may produce
    Pending,   \* the last part of a public key whose hash is not known yet
    None,
    MaxJobs    \* the limit of journal and cancellations, 128

Objects == Inputs \cup (Jobs \X Outputs)

Normalize(j, i) == [do |-> "normalize", job |-> j, input |-> i]
Withdraw(i) == [do |-> "withdraw", input |-> i]
Delete(j, h) == [do |-> "delete", job |-> j, out |-> h]

Requests ==
    {Normalize(j, i) : j \in Jobs, i \in Inputs}
        \cup {Withdraw(i) : i \in Inputs}
        \cup {Delete(j, h) : j \in Jobs, h \in Outputs \cup {Pending}}

Operations ==
    [req : Requests, at : {"recheck", "decode", "mark", "put", "confirm", "remove", "verify"},
     out : Outputs \cup {Pending, None}, before : BOOLEAN]

Answers ==
    [req : Requests, state : {"ready", "deleted", "reconcile", "failed"},
     out : Outputs \cup {None}]

ASSUME CoordinatorAssumption ==
    /\ MaxJobs \in Nat
    /\ Pending \notin Outputs
    /\ None \notin Inputs \cup Outputs \cup {Pending} \cup Operations \cup Answers
    /\ Inputs \cap (Jobs \X Outputs) = {}

VARIABLES
    local,      \* the objects are on this host, local_media_store.py
    sealed,     \* MEDIA_UPLOADS_SEALED
    request, result, artifact, cancelled, uncertain,  \* the journal
    store,      \* both buckets: absent, there, or (locally) gone for good
    flying,     \* signed uploads that may be used, PUTs that may arrive
    issued,     \* history: inputs an upload was ever signed for
    op,         \* the request that is being served
    answer,     \* what the last one got
    released,   \* history: objects reported deleted
    spent       \* history: jobs a compaction has taken out of the journal

journal == <<request, result, artifact, cancelled, uncertain>>
buckets == <<store, flying>>
history == <<issued, released, spent>>
cvars == <<local, sealed, journal, buckets, history, op, answer>>

TypeOK ==
    /\ local \in BOOLEAN /\ sealed \in BOOLEAN
    /\ request \in [Jobs -> Inputs \cup {None}]
    /\ result \in [Jobs -> Outputs \cup {None}]
    /\ artifact \in [Jobs -> Outputs \cup {None}]
    /\ cancelled \subseteq Jobs /\ uncertain \subseteq Jobs /\ spent \subseteq Jobs
    /\ store \in [Objects -> {"absent", "there", "gone"}]
    /\ flying \subseteq Objects /\ released \subseteq Objects
    /\ issued \subseteq Inputs
    /\ op \in Operations \cup {None}
    /\ answer \in Answers \cup {None}

There(k) == store[k] = "there"

\* A local object is written once (module WriteOnce); a remote one replaces
\* only itself, since the key carries the hash.
Write(k) ==
    store' = [store EXCEPT ![k] = IF local /\ @ # "absent" THEN @ ELSE "there"]

Erase(k) == store' = [store EXCEPT ![k] = IF local THEN "gone" ELSE "absent"]

CInit ==
    /\ local \in BOOLEAN
    /\ sealed = FALSE
    /\ request = [j \in Jobs |-> None]
    /\ result = [j \in Jobs |-> None]
    /\ artifact = [j \in Jobs |-> None]
    /\ cancelled = {} /\ uncertain = {} /\ spent = {}
    /\ store = [k \in Objects |-> "absent"]
    /\ flying = {} /\ released = {} /\ issued = {}
    /\ op = None
    /\ answer = None

-----------------------------------------------------------------------------
(* Requests *)

Begin(r, at, out) ==
    /\ op' = [req |-> r, at |-> at, out |-> out, before |-> FALSE]
    /\ answer' = None

Reply(r, state, out) ==
    /\ op' = None
    /\ answer' = [req |-> r, state |-> state, out |-> out]

Finish(state, out) == Reply(op.req, state, out)

At(step) == op # None /\ op.at = step

Goto(step) == op' = [op EXCEPT !.at = step] /\ answer' = None

Key == <<op.req.job, op.out>>

Journaled == {j \in Jobs : request[j] # None}

Refused(j, i) ==
    \/ sealed
    \/ j \in cancelled
    \/ request[j] \notin {None, i}
    \/ request[j] = None /\ Cardinality(Journaled) >= MaxJobs

\* Job names are random: one that a compaction has removed is only asked for
\* with an upload that is over and gone.
MayAsk(j, i) == j \in spent => i \in issued \ flying /\ ~There(i)

AcceptNormalize(j, i) ==
    /\ op = None
    /\ MayAsk(j, i)
    /\ IF Refused(j, i)
       THEN Reply(Normalize(j, i), "failed", None) /\ UNCHANGED request
       ELSE /\ request' = [request EXCEPT ![j] = i]
            /\ Begin(Normalize(j, i), IF result[j] = None THEN "decode" ELSE "recheck", result[j])
    /\ UNCHANGED <<local, sealed, result, artifact, cancelled, uncertain, buckets, history>>

\* A job that was promoted is answered from the journal, if the object is there.
Recheck ==
    /\ At("recheck")
    /\ IF There(Key) THEN Finish("ready", op.out) ELSE Finish("failed", None)
    /\ UNCHANGED <<local, sealed, journal, buckets, history>>

\* Mutant: the artifact of an earlier attempt is replaced.
DecodeAnew(h) ==
    /\ At("decode")
    /\ IF There(op.req.input)
       THEN /\ artifact' = [artifact EXCEPT ![op.req.job] = h]
            /\ op' = [op EXCEPT !.at = "mark", !.out = h]
            /\ answer' = None
       ELSE Finish("failed", None) /\ UNCHANGED artifact
    /\ UNCHANGED <<local, sealed, request, result, cancelled, uncertain, buckets, history>>

\* The input is read and decoded to h, and h is journaled: an earlier attempt
\* must have come to the same artifact.
Decode(h) ==
    /\ At("decode")
    /\ IF There(op.req.input) /\ artifact[op.req.job] \in {None, h}
       THEN /\ artifact' = [artifact EXCEPT ![op.req.job] = h]
            /\ op' = [op EXCEPT !.at = "mark", !.out = h]
            /\ answer' = None
       ELSE Finish("failed", None) /\ UNCHANGED artifact
    /\ UNCHANGED <<local, sealed, request, result, cancelled, uncertain, buckets, history>>

Mark ==
    /\ At("mark")
    /\ op' = [op EXCEPT !.at = "put", !.before = op.req.job \in uncertain]
    /\ answer' = None
    /\ uncertain' = uncertain \cup {op.req.job}
    /\ UNCHANGED <<local, sealed, request, result, artifact, cancelled, buckets, history>>

\* The PUT is answered, also with 412.
Put ==
    /\ At("put")
    /\ Write(Key)
    /\ Goto("confirm")
    /\ UNCHANGED <<local, sealed, journal, flying, history>>

\* Mutant: a retry that succeeds clears the doubt about the PUT before it.
ConfirmForgets ==
    /\ At("confirm")
    /\ IF There(Key)
       THEN /\ result' = [result EXCEPT ![op.req.job] = op.out]
            /\ uncertain' = uncertain \ {op.req.job}
            /\ Finish("ready", op.out)
       ELSE Finish("failed", None) /\ UNCHANGED <<result, uncertain>>
    /\ UNCHANGED <<local, sealed, request, artifact, cancelled, buckets, history>>

\* A retry that succeeds says nothing of an earlier PUT.
Confirm ==
    /\ At("confirm")
    /\ IF There(Key)
       THEN /\ result' = [result EXCEPT ![op.req.job] = op.out]
            /\ uncertain' = IF op.before THEN uncertain ELSE uncertain \ {op.req.job}
            /\ Finish("ready", op.out)
       ELSE Finish("failed", None) /\ UNCHANGED <<result, uncertain>>
    /\ UNCHANGED <<local, sealed, request, artifact, cancelled, buckets, history>>

\* The local variant deletes as if it were sealed.
Settled == sealed \/ local

AcceptWithdraw(i) ==
    /\ op = None
    /\ i \in issued
    /\ IF Settled THEN Begin(Withdraw(i), "remove", None)
       ELSE Reply(Withdraw(i), "reconcile", None)
    /\ UNCHANGED <<local, sealed, journal, buckets, history>>

\* A local compaction leaves no placeholder behind that could be deleted later.
MayDelete(j, h) == local /\ h = Pending => j \notin spent

\* The job is cancelled for good before anything is deleted.  Of a transfer
\* that may still arrive only an operator can say when it has ended.
AcceptDelete(j, h) ==
    /\ op = None
    /\ MayDelete(j, h)
    /\ IF j \notin cancelled /\ Cardinality(cancelled) >= MaxJobs
       THEN Reply(Delete(j, h), "failed", None) /\ UNCHANGED cancelled
       ELSE /\ cancelled' = cancelled \cup {j}
            /\ IF ~Settled /\ (h = Pending \/ j \in uncertain)
               THEN Reply(Delete(j, h), "reconcile", None)
               ELSE Begin(Delete(j, h), "remove",
                          IF h = Pending /\ artifact[j] # None THEN artifact[j] ELSE h)
    /\ UNCHANGED <<local, sealed, request, result, artifact, uncertain, buckets, history>>

Target == IF op.req.do = "withdraw" THEN {op.req.input} ELSE {Key} \cap Objects

Remove ==
    /\ At("remove")
    /\ IF Target = {} THEN UNCHANGED store ELSE \E k \in Target : Erase(k)
    /\ Goto("verify")
    /\ UNCHANGED <<local, sealed, journal, flying, history>>

\* Deleting the placeholder of a job stands for whatever the job has published.
Freed ==
    IF op.req.do = "delete" /\ op.req.out = Pending
    THEN {op.req.job} \X Outputs ELSE Target

Verify ==
    /\ At("verify")
    /\ IF \E k \in Target : There(k)
       THEN Finish("failed", None) /\ UNCHANGED released
       ELSE Finish("deleted", None) /\ released' = released \cup Freed
    /\ UNCHANGED <<local, sealed, journal, buckets, issued, spent>>

\* What a call that was cut short has done to the buckets.
Interrupted ==
    \/ UNCHANGED buckets
    \/ /\ At("put")
       /\ IF local
          THEN /\ store' = [store EXCEPT ![Key] = IF @ = "absent" THEN "gone" ELSE @]
               /\ UNCHANGED flying
          ELSE flying' = flying \cup {Key} /\ UNCHANGED store
    \/ /\ At("remove")
       /\ \E k \in Target : Erase(k)
       /\ UNCHANGED flying

\* A timeout or an error of a bucket or of the decoder: the request fails.
Fail ==
    /\ op # None
    /\ Interrupted
    /\ Finish("failed", None)
    /\ UNCHANGED <<local, sealed, journal, history>>

-----------------------------------------------------------------------------
(* Operator and environment *)

\* The process stops and starts again: a job without result may have left a
\* PUT behind.  Starting it sealed is the operator's word that no upload and no
\* transfer is under way.
Restart(seal) ==
    /\ Interrupted
    /\ seal => local \/ flying' = {}
    /\ sealed' = seal
    /\ uncertain' = uncertain \cup {j \in Jobs : request[j] # None /\ result[j] = None}
    /\ op' = None /\ answer' = None
    /\ UNCHANGED <<local, request, result, artifact, cancelled, history>>

\* compact_sealed: the remote journal is emptied once nothing it names exists.
CompactSealed ==
    /\ ~local /\ sealed /\ op = None
    /\ \A j \in Journaled :
         /\ ~There(request[j])
         /\ artifact[j] # None => ~There(<<j, artifact[j]>>)
    /\ request' = [j \in Jobs |-> None]
    /\ result' = [j \in Jobs |-> None]
    /\ artifact' = [j \in Jobs |-> None]
    /\ cancelled' = {} /\ uncertain' = {}
    /\ spent' = spent \cup Journaled \cup cancelled
    /\ answer' = None
    /\ UNCHANGED <<local, sealed, buckets, issued, released, op>>

\* The journal's part of compact_local_media.py, with every writer stopped.
CompactLocal ==
    /\ local /\ op = None /\ flying = {}
    /\ uncertain = {} /\ cancelled = {}
    /\ \A j \in Journaled :
         /\ result[j] # None /\ There(<<j, result[j]>>)
         /\ ~There(request[j])
    /\ \E G \in SUBSET {k \in Objects : store[k] = "gone"} :
         store' = [k \in Objects |-> IF k \in G THEN "absent" ELSE store[k]]
    /\ request' = [j \in Jobs |-> None]
    /\ result' = [j \in Jobs |-> None]
    /\ artifact' = [j \in Jobs |-> IF j \in Journaled THEN None ELSE artifact[j]]
    /\ spent' = spent \cup Journaled
    /\ answer' = None
    /\ UNCHANGED <<local, sealed, cancelled, uncertain, flying, issued, released, op>>

\* An upload is signed; keys are random, so once per input.
Issue(i) ==
    /\ local \/ ~sealed
    /\ i \notin issued
    /\ issued' = issued \cup {i}
    /\ flying' = flying \cup {i}
    /\ UNCHANGED <<local, sealed, journal, store, released, spent, op, answer>>

\* It arrives, perhaps more than once; a local one may leave a torn file.
Land(k) ==
    /\ k \in flying
    /\ local => ~sealed
    /\ \/ Write(k)
       \/ local /\ store[k] = "absent" /\ store' = [store EXCEPT ![k] = "gone"]
    /\ UNCHANGED <<local, sealed, journal, flying, history, op, answer>>

Drain(k) ==
    /\ k \in flying
    /\ flying' = flying \ {k}
    /\ UNCHANGED <<local, sealed, journal, store, history, op, answer>>

\* The answer leaves on the connection, if somebody still listens to it.
Send ==
    /\ answer # None
    /\ answer' = None
    /\ UNCHANGED <<local, sealed, journal, buckets, history, op>>

Steps ==
    \/ Recheck
    \/ \E h \in Outputs : Decode(h)
    \/ Mark
    \/ Put
    \/ Confirm
    \/ Remove
    \/ Verify

CNext ==
    \/ \E j \in Jobs, i \in Inputs : AcceptNormalize(j, i)
    \/ \E i \in Inputs : AcceptWithdraw(i)
    \/ \E j \in Jobs, h \in Outputs \cup {Pending} : AcceptDelete(j, h)
    \/ Steps
    \/ Fail
    \/ Send
    \/ \E seal \in BOOLEAN : Restart(seal)
    \/ CompactSealed
    \/ CompactLocal
    \/ \E i \in Inputs : Issue(i)
    \/ \E k \in Objects : Land(k) \/ Drain(k)

CSpec == CInit /\ [][CNext]_cvars

-----------------------------------------------------------------------------

\* Whatever a job has published, or may still publish, is the artifact its
\* journal names, so a deletion that knows only the job finds it: the artifact
\* is committed before the PUT and a retry cannot change it
\* (media_coordinator.py:137-154, 185-192).
PublishedIsJournaled ==
    \A j \in Jobs \ spent : \A h \in Outputs :
        There(<<j, h>>) \/ <<j, h>> \in flying => artifact[j] = h

\* What was reported deleted stays deleted: no late upload, late PUT, retry or
\* restart brings it back (media_coordinator.py:174-214; "cancela el job de
\* forma durable antes de eliminar, evitando repromocion").
ReleasedStaysAbsent == \A k \in released : ~There(k)
=============================================================================
