------------------------------- MODULE Media -------------------------------
(***************************************************************************)
(* The ledger of media objects (media_ledger.ex, the media operations of   *)
(* profiles.ex), the cleaner media_cleanup.ex and the users who upload,    *)
(* validate and use alert media, working with the coordinator.  An upload  *)
(* has an input in quarantine and, once it is validated, an output in the  *)
(* public bucket; both have an entry in the ledger and share the deadline. *)
(* The ledger is persisted before it is published, so it survives.  Of the *)
(* two alert slots one is modelled; sizes and quotas in bytes are left out.*)
(***************************************************************************)
EXTENDS Coordinator, Sequences

CONSTANTS
    Order,       \* the entries in the order of their keys
    MaxObjects,  \* the limit of entries of a profile, 12
    MaxFaults    \* bound on disturbances

Uploads == Inputs

Entries == {"input", "output"} \X Uploads

ASSUME MediaAssumption ==
    /\ Jobs = Inputs
    /\ Order \in Seq(Entries)
    /\ {"idle", "waiting"} \cap Outputs = {}
    /\ MaxObjects \in Nat /\ MaxFaults \in Nat

VARIABLES
    input,    \* state of each input's entry
    output,   \* state of each output's entry
    outkey,   \* the hash in the output's key, or Pending
    started,  \* inputs whose entry names a job
    age,      \* how far the deadline of an upload is
    profile,  \* the profile exists
    slot,     \* the upload its alert uses
    user,     \* per upload: who validates it is idle, waiting, or has a result
    cleaner,  \* the entry being cleaned, and how far
    last,     \* the cleaner's place in Order
    backlog,  \* requests that have reached the coordinator
    faults    \* number of disturbances so far

ledger == <<input, output, outkey, started>>
clients == <<user, cleaner, last, backlog>>
mvars == <<ledger, age, profile, slot, clients, faults>>
vars == <<cvars, mvars>>

MediaTypeOK ==
    /\ TypeOK
    /\ input \in [Uploads -> {"none", "pending", "processing", "retired", "deleting"}]
    /\ output \in [Uploads -> {"none", "processing", "ready", "active", "retired", "deleting"}]
    /\ outkey \in [Uploads -> Outputs \cup {Pending}]
    /\ started \subseteq Uploads
    /\ age \in [Uploads -> {"new", "fresh", "expired", "due"}]
    /\ profile \in BOOLEAN
    /\ slot \in Uploads \cup {None}
    /\ user \in [Uploads -> {"idle", "waiting"} \cup Outputs]
    /\ cleaner \in [entry : Entries, at : {"waiting", "finish"}] \cup {None}
    /\ last \in 0..Len(Order)
    /\ backlog \subseteq Requests
    /\ faults \in 0..MaxFaults

Init ==
    /\ CInit
    /\ input = [u \in Uploads |-> "none"]
    /\ output = [u \in Uploads |-> "none"]
    /\ outkey = [u \in Uploads |-> Pending]
    /\ started = {}
    /\ age = [u \in Uploads |-> "new"]
    /\ profile = TRUE
    /\ slot = None
    /\ user = [u \in Uploads |-> "idle"]
    /\ cleaner = None
    /\ last = 0
    /\ backlog = {}
    /\ faults = 0

Listed ==
    {<<"input", u>> : u \in {v \in Uploads : input[v] # "none"}}
        \cup {<<"output", u>> : u \in {v \in Uploads : output[v] # "none"}}

StateOf(e) == IF e[1] = "input" THEN input[e[2]] ELSE output[e[2]]

SetState(e, s) ==
    IF e[1] = "input"
    THEN input' = [input EXCEPT ![e[2]] = s] /\ UNCHANGED output
    ELSE output' = [output EXCEPT ![e[2]] = s] /\ UNCHANGED input

Disturb == faults < MaxFaults /\ faults' = faults + 1

-----------------------------------------------------------------------------
(* Users: reserve, validate, activate *)

\* reserve_media: the entry, and with it the right to upload.
Reserve(u) ==
    /\ profile
    /\ age[u] = "new"
    /\ Cardinality(Listed) < MaxObjects
    /\ Issue(u)
    /\ input' = [input EXCEPT ![u] = "pending"]
    /\ age' = [age EXCEPT ![u] = "fresh"]
    /\ UNCHANGED <<output, outkey, started, profile, slot, clients, faults>>

\* An equal request that is still under way would get the same answer.
Outstanding(r) ==
    \/ r \in backlog
    \/ op # None /\ op.req = r
    \/ answer # None /\ answer.req = r

\* begin_media_job: a first validation makes the entry of the output; another
\* one asks again while both are being processed.
BeginJob(u) ==
    /\ profile
    /\ input[u] \in {"pending", "processing", "retired"}
    /\ age[u] = "fresh"
    /\ user[u] = "idle"
    /\ ~Outstanding(Normalize(u, u))
    /\ IF u \in started
       THEN /\ input[u] = "processing" /\ output[u] = "processing"
            /\ UNCHANGED ledger
       ELSE /\ Cardinality(Listed) < MaxObjects
            /\ input' = [input EXCEPT ![u] = "processing"]
            /\ output' = [output EXCEPT ![u] = "processing"]
            /\ started' = started \cup {u}
            /\ UNCHANGED outkey
    /\ user' = [user EXCEPT ![u] = "waiting"]
    /\ backlog' = backlog \cup {Normalize(u, u)}
    /\ UNCHANGED <<cvars, age, profile, slot, cleaner, last, faults>>

\* Mutant: any answer is taken for a result.
GetAnyResult(u) ==
    /\ user[u] = "waiting"
    /\ answer # None /\ answer.req = Normalize(u, u)
    /\ user' = [user EXCEPT ![u] = answer.out]
    /\ Send
    /\ UNCHANGED <<ledger, age, profile, slot, cleaner, last, backlog, faults>>

GetResult(u) ==
    /\ user[u] = "waiting"
    /\ answer # None /\ answer.req = Normalize(u, u)
    /\ user' = [user EXCEPT ![u] = IF answer.state = "ready" THEN answer.out ELSE "idle"]
    /\ Send
    /\ UNCHANGED <<ledger, age, profile, slot, cleaner, last, backlog, faults>>

\* Mutant: a late result revives what was retired or is being deleted.
FinishLateJob(u) ==
    /\ user[u] \in Outputs
    /\ IF profile /\ output[u] # "none"
       THEN /\ output' = [output EXCEPT ![u] = "ready"]
            /\ outkey' = [outkey EXCEPT ![u] = user[u]]
            /\ input' = [input EXCEPT ![u] = "retired"]
       ELSE UNCHANGED <<input, output, outkey>>
    /\ user' = [user EXCEPT ![u] = "idle"]
    /\ UNCHANGED <<cvars, started, age, profile, slot, cleaner, last, backlog, faults>>

\* finish_media_job: the result counts if both entries still wait for it.
FinishJob(u) ==
    /\ user[u] \in Outputs
    /\ IF profile /\ input[u] = "processing" /\ output[u] = "processing"
       THEN /\ output' = [output EXCEPT ![u] = "ready"]
            /\ outkey' = [outkey EXCEPT ![u] = user[u]]
            /\ input' = [input EXCEPT ![u] = "retired"]
       ELSE UNCHANGED <<input, output, outkey>>
    /\ user' = [user EXCEPT ![u] = "idle"]
    /\ UNCHANGED <<cvars, started, age, profile, slot, cleaner, last, backlog, faults>>

\* do_update_media with activatable? and transition: what the profile uses is
\* active, what it no longer uses is retired.
Use(s) ==
    /\ profile
    /\ slot # s
    /\ s # None => output[s] \in {"ready", "active"}
    /\ slot' = s
    /\ output' = [u \in Uploads |->
         IF u = s THEN "active"
         ELSE IF output[u] = "active" THEN "retired" ELSE output[u]]
    /\ UNCHANGED <<cvars, input, outkey, started, age, profile, clients, faults>>

RetireAll(states) ==
    [u \in Uploads |-> IF states[u] = "none" THEN "none" ELSE "retired"]

DeleteProfile ==
    /\ profile
    /\ Disturb
    /\ profile' = FALSE
    /\ slot' = None
    /\ input' = RetireAll(input)
    /\ output' = RetireAll(output)
    /\ UNCHANGED <<cvars, outkey, started, age, clients>>

CreateProfile ==
    /\ ~profile
    /\ profile' = TRUE
    /\ UNCHANGED <<cvars, ledger, age, slot, clients, faults>>

Pass(u) ==
    /\ age[u] \in {"fresh", "expired"}
    /\ age' = [age EXCEPT ![u] = IF @ = "fresh" THEN "expired" ELSE "due"]
    /\ UNCHANGED <<cvars, ledger, profile, slot, clients, faults>>

-----------------------------------------------------------------------------
(* The cleaner *)

Due(e) ==
    /\ StateOf(e) \notin {"none", "active"}
    /\ age[e[2]] = "due"

DueAfter(n) == {m \in DOMAIN Order : m > n /\ Due(Order[m])}

\* Mutant: always the first due entry.
FirstDue(m) == m \in DueAfter(0) /\ \A n \in DueAfter(0) : m <= n

\* The entry after the last one, or else the first.
NextDue(m) ==
    LET D == IF DueAfter(last) # {} THEN DueAfter(last) ELSE DueAfter(0)
    IN m \in D /\ \A n \in D : m <= n

Removal(e) == IF e[1] = "input" THEN Withdraw(e[2]) ELSE Delete(e[2], outkey[e[2]])

\* handle_info(:cleanup), claim_cleanup_media and the request to the coordinator.
Sweep(m) ==
    /\ cleaner = None
    /\ NextDue(m)
    /\ ~Outstanding(Removal(Order[m]))
    /\ SetState(Order[m], "deleting")
    /\ cleaner' = [entry |-> Order[m], at |-> "waiting"]
    /\ last' = m
    /\ backlog' = backlog \cup {Removal(Order[m])}
    /\ UNCHANGED <<cvars, outkey, started, age, profile, slot, user, faults>>

SweepNothing ==
    /\ cleaner = None
    /\ DueAfter(0) = {}
    /\ last' = 0
    /\ UNCHANGED <<cvars, ledger, age, profile, slot, user, cleaner, backlog, faults>>

\* Mutant: an entry the operator has to settle is released.
CleanerTakesAll ==
    /\ cleaner # None /\ cleaner.at = "waiting"
    /\ answer # None /\ answer.req = Removal(cleaner.entry)
    /\ cleaner' = IF answer.state # "failed" THEN [cleaner EXCEPT !.at = "finish"] ELSE None
    /\ Send
    /\ UNCHANGED <<ledger, age, profile, slot, user, last, backlog, faults>>

CleanerAnswer ==
    /\ cleaner # None /\ cleaner.at = "waiting"
    /\ answer # None /\ answer.req = Removal(cleaner.entry)
    /\ cleaner' = IF answer.state = "deleted" THEN [cleaner EXCEPT !.at = "finish"] ELSE None
    /\ Send
    /\ UNCHANGED <<ledger, age, profile, slot, user, last, backlog, faults>>

\* finish_cleanup_media: the entry goes if it is still as it was claimed.
FinishCleanup ==
    /\ cleaner # None /\ cleaner.at = "finish"
    /\ IF StateOf(cleaner.entry) = "deleting"
       THEN SetState(cleaner.entry, "none")
       ELSE UNCHANGED <<input, output>>
    /\ cleaner' = None
    /\ UNCHANGED <<cvars, outkey, started, age, profile, slot, user, last, backlog, faults>>

-----------------------------------------------------------------------------
(* The coordinator and what goes wrong *)

Waiting(r) ==
    \/ \E u \in Uploads : user[u] = "waiting" /\ r = Normalize(u, u)
    \/ cleaner # None /\ cleaner.at = "waiting" /\ r = Removal(cleaner.entry)

Accept(r) ==
    \/ r.do = "normalize" /\ AcceptNormalize(r.job, r.input)
    \/ r.do = "withdraw" /\ AcceptWithdraw(r.input)
    \/ r.do = "delete" /\ AcceptDelete(r.job, r.out)

Serve(r) ==
    /\ r \in backlog
    /\ answer = None
    /\ Accept(r)
    /\ backlog' = backlog \ {r}
    /\ UNCHANGED <<ledger, age, profile, slot, user, cleaner, last, faults>>

Step == Steps /\ UNCHANGED mvars

DropAnswer ==
    /\ answer # None /\ ~Waiting(answer.req)
    /\ Send
    /\ UNCHANGED mvars

CallFails ==
    /\ Fail
    /\ Disturb
    /\ UNCHANGED <<ledger, age, profile, slot, clients>>

\* 30 s without an answer: the client goes, its request stays.
UserGivesUp(u) ==
    /\ user[u] = "waiting"
    /\ Disturb
    /\ user' = [user EXCEPT ![u] = "idle"]
    /\ UNCHANGED <<cvars, ledger, age, profile, slot, cleaner, last, backlog>>

CleanerGivesUp ==
    /\ cleaner # None /\ cleaner.at = "waiting"
    /\ Disturb
    /\ cleaner' = None
    /\ UNCHANGED <<cvars, ledger, age, profile, slot, user, last, backlog>>

CrashApp ==
    /\ Disturb
    /\ user' = [u \in Uploads |-> "idle"]
    /\ cleaner' = None
    /\ last' = 0
    /\ UNCHANGED <<cvars, ledger, age, profile, slot, backlog>>

Quiet == op = None /\ answer = None /\ backlog = {}

\* Connections end with the process.  An operator who seals or unseals it while
\* it has nothing to do disturbs nobody.
RestartCoordinator(seal) ==
    /\ Restart(seal)
    /\ IF Quiet /\ seal # sealed THEN UNCHANGED faults ELSE Disturb
    /\ backlog' = {}
    /\ user' = [u \in Uploads |-> IF user[u] = "waiting" THEN "idle" ELSE user[u]]
    /\ cleaner' = IF cleaner # None /\ cleaner.at = "waiting" THEN None ELSE cleaner
    /\ UNCHANGED <<ledger, age, profile, slot, last>>

CompactRemote ==
    /\ CompactSealed
    /\ backlog = {} /\ \A u \in Uploads : user[u] # "waiting"
    /\ cleaner # None => cleaner.at # "waiting"
    /\ UNCHANGED mvars

\* Mutant: the ledger may still hold entries that are under way.
CompactUnsettled ==
    /\ backlog = {} /\ cleaner = None /\ \A u \in Uploads : user[u] = "idle"
    /\ CompactLocal
    /\ UNCHANGED mvars

\* compact_local_media.py: the ledger it is given holds active entries only,
\* and they are what the index holds.
CompactSettled ==
    /\ backlog = {} /\ cleaner = None /\ \A u \in Uploads : user[u] = "idle"
    /\ \A e \in Listed : StateOf(e) = "active"
    /\ {k \in Objects : There(k)} = {<<u, outkey[u]>> : u \in {v \in Uploads : output[v] = "active"}}
    /\ \A j \in Journaled : output[j] = "active" /\ result[j] = outkey[j]
    /\ CompactLocal
    /\ UNCHANGED mvars

Arrive(k) == (Land(k) \/ Drain(k)) /\ UNCHANGED mvars

Next ==
    \/ \E u \in Uploads :
         \/ Reserve(u)
         \/ BeginJob(u)
         \/ GetResult(u)
         \/ FinishJob(u)
         \/ Pass(u)
         \/ UserGivesUp(u)
    \/ \E s \in Uploads \cup {None} : Use(s)
    \/ DeleteProfile
    \/ CreateProfile
    \/ \E m \in DOMAIN Order : Sweep(m)
    \/ SweepNothing
    \/ CleanerAnswer
    \/ FinishCleanup
    \/ \E r \in backlog : Serve(r)
    \/ Step
    \/ DropAnswer
    \/ CallFails
    \/ CleanerGivesUp
    \/ CrashApp
    \/ \E seal \in BOOLEAN : RestartCoordinator(seal)
    \/ CompactRemote
    \/ CompactSettled
    \/ \E k \in Objects : Arrive(k)

Spec == Init /\ [][Next]_vars

\* The coordinator serves what has reached it, clients take their answers, the
\* cleaner's timer fires every 30 s.
Fairness ==
    /\ WF_vars(Step)
    /\ WF_vars(DropAnswer)
    /\ WF_vars(CleanerAnswer)
    /\ WF_vars(FinishCleanup)
    /\ WF_vars(\E m \in DOMAIN Order : Sweep(m))
    /\ \A r \in Requests : WF_vars(Serve(r))
    /\ \A u \in Uploads : WF_vars(GetResult(u))

FairSpec == Spec /\ Fairness

-----------------------------------------------------------------------------

\* No byte is stored, or may still arrive, without an entry of the ledger that
\* charges for it: an entry leaves only when its object is gone for good
\* (profiles.ex:84-109, 330-343, media_coordinator.py:174-214; "never release
\* quarantine cost on DELETE alone").
BytesAccounted ==
    \A u \in Uploads :
        /\ There(u) => input[u] # "none"
        /\ \A h \in Outputs :
             There(<<u, h>>) \/ <<u, h>> \in flying => output[u] # "none"

\* The alert in use, and every output offered for use, is in the public bucket,
\* whatever the cleaner, late results and the deletion of the profile do
\* (profiles.ex:218-287, 307-343, 1338-1428; "nunca elimina objetos activos").
AlertsPlayable ==
    /\ slot # None => output[slot] = "active"
    /\ \A u \in Uploads :
         output[u] \in {"ready", "active"} => There(<<u, outkey[u]>>)

\* The coordinator takes names for fresh: the application never asks it to
\* decode an upload, or to delete a placeholder, in a way that would bring
\* back what a compaction has forgotten (profiles.ex:148-216,
\* compact_local_media.py:17-29, media_coordinator.py:216-237).
RequestsSafe ==
    \A r \in backlog :
        /\ r.do = "normalize" => MayAsk(r.job, r.input)
        /\ r.do = "delete" => MayDelete(r.job, r.out)

\* An entry the service can decide about without the operator.
Decidable(e) ==
    IF e[1] = "input" THEN local
    ELSE /\ outkey[e[2]] # Pending \/ local
         /\ e[2] \notin uncertain \/ local
         /\ e[2] \in cancelled \/ Cardinality(cancelled) < MaxJobs

\* A due entry whose object can be removed is removed, or used again, although
\* entries that only the operator can settle come before it every time, and
\* although cleaner and coordinator may stop between claim and deletion
\* (media_cleanup.ex:12-18, profiles.ex:84-94).
DueIsRemoved ==
    \A e \in Entries : Due(e) /\ Decidable(e) ~> ~Due(e) \/ ~Decidable(e)
=============================================================================
