------------------------------- MODULE Tokens -------------------------------
(***************************************************************************)
(* The access tokens of linked accounts: the coordinator process           *)
(* lib/chat_overlay/tokens.ex with its cache, its coalesced callers and    *)
(* its refresh workers; the account operations that lib/chat_overlay/      *)
(* profiles.ex runs one at a time and after which it invalidates tokens;   *)
(* the reader lib/chat_overlay/net.ex, which checks the binding before and *)
(* after it asks; and the OAuth provider, which may issue a new refresh    *)
(* token with every grant and then refuses the old one.                    *)
(*                                                                         *)
(* A request is handled when its action is taken: a caller, a worker or    *)
(* Profiles that waits in a mailbox is one that has not sent yet.  Only    *)
(* what a worker sent to Profiles outlives its sender and is kept in       *)
(* inbox.  A token is the number of the grant that issued it.              *)
(***************************************************************************)
EXTENDS Integers, Sequences, FiniteSets

CONSTANTS
    Keys,       \* linked accounts: a profile and a provider
    Callers, Pids, None,
    Rotating,   \* accounts of providers that replace the refresh token
    Forces,     \* values of the option force_refresh
    MaxLinks,   \* bound: account links
    MaxGrants,  \* bound: grants of the provider
    MaxFaults   \* bound: crashes of workers and processes, and answers of the
                \* provider that are misjudged

ASSUME TokensAssumption ==
    /\ Rotating \subseteq Keys
    /\ Forces \subseteq BOOLEAN
    /\ {MaxLinks, MaxGrants, MaxFaults} \subseteq Nat
    /\ None \notin Nat \cup Keys \cup Pids
    \* None is no set of callers, no account and no worker either.
    /\ \A C \in SUBSET Callers : C # None
    /\ None \notin [version : Nat, token : Nat, refresh : Nat \cup {None},
                    status : {"active", "reauth_required"}]
    /\ None \notin [key : Keys, version : Nat, refresh : Nat, token : Nat \cup {None},
                    at : {"ask", "save", "mark", "done"}]

VARIABLES
    account,    \* Config: the account of each key, or None
    links,      \* bindings made so far; the last account_version
    busy,       \* keys Profiles still has to invalidate
    inbox,      \* what workers asked Profiles to do
    cache,      \* s.cache
    in_flight,  \* s.in_flight: the callers waiting for a refresh, or None
    tasks,      \* s.tasks and s.refs: the key of each worker, or None
    job,        \* what each worker is doing, or None
    call,       \* what each caller is doing
    binding,    \* the binding of each grant
    fresh,      \* tokens far from their expiry
    valid,      \* the refresh token the provider accepts for each binding
    unsure,     \* accounts with a granted refresh that failed to be saved, or
                \* whose worker died with its request still waiting at Profiles
    cut,        \* accounts whose worker an invalidation killed that late
    misjudged,  \* accounts whose stored refresh token was taken for refused,
                \* although the provider accepts it, since they last got one
    faults

profileVars == <<account, links, busy, inbox>>
coordinatorVars == <<cache, in_flight, tasks>>
providerVars == <<binding, fresh, valid>>
historyVars == <<unsure, cut, misjudged>>
vars == <<profileVars, coordinatorVars, job, call, providerVars, historyVars, faults>>

-----------------------------------------------------------------------------
\* active_binding/2
Active(k) ==
    IF account[k] # None /\ account[k].status = "active" THEN account[k].version ELSE None

Grants == 1 .. Len(binding)
NextGrant == Len(binding) + 1

IdleCall == [at |-> "idle", key |-> None, version |-> None, got |-> None]

\* GenServer.reply/2 to every caller of C: a token, or an error, with which a
\* reader is done.
Reply(C, t) ==
    call' = [c \in Callers |->
                IF c \notin C THEN call[c]
                ELSE IF t = None THEN IdleCall
                ELSE [call[c] EXCEPT !.at = "replied", !.got = t]]

Waiting(k) == IF in_flight[k] = None THEN {} ELSE in_flight[k]
WorkersOf(k) == {p \in Pids : tasks[p] = k}

\* What a worker that is gone sent to Profiles stays in the mailbox there.
Orphaned(P) ==
    [i \in DOMAIN inbox |->
        IF inbox[i].pid \in P THEN [inbox[i] EXCEPT !.pid = None] ELSE inbox[i]]

\* The accounts for whose binding workers of P have sent tokens to Profiles.
Saving(P) ==
    {k \in Keys : \E p \in P :
        /\ job[p] # None /\ job[p].at = "save" /\ job[p].key = k
        /\ account[k] # None /\ account[k].version = job[p].version}

\* The provider may have served the requests of workers that are gone.
MayHaveServed(P) ==
    LET lost == {job[p].version : p \in {q \in P :
                    job[q] # None /\ job[q].at = "ask" /\ job[q].key \in Rotating
                    /\ valid[job[q].version] = job[q].refresh}}
    IN \E S \in SUBSET lost :
          valid' = [v \in DOMAIN valid |-> IF v \in S THEN None ELSE valid[v]]

-----------------------------------------------------------------------------
(* Callers.                                                                *)

\* A reader has read the active binding and asks for its token.
Ask(c, k) ==
    /\ call[c].at = "idle"
    /\ Active(k) # None
    /\ call' = [call EXCEPT ![c] =
                   [at |-> "asked", key |-> k, version |-> Active(k), got |-> None]]
    /\ UNCHANGED <<profileVars, coordinatorVars, job, providerVars, historyVars, faults>>

\* The reader uses the token if it still finds the binding, and is done.
Finish(c) ==
    /\ call[c].at = "replied"
    /\ call' = [call EXCEPT ![c] = IdleCall]
    /\ UNCHANGED <<profileVars, coordinatorVars, job, providerVars, historyVars, faults>>

\* Would the reader use the token it got?
Accepted(c) ==
    /\ call[c].at = "replied"
    /\ Active(call[c].key) = call[c].version

-----------------------------------------------------------------------------
(* handle_call({:get_access_token, ...}): the coordinator's four answers.  *)

Usable(k, force) ==
    ~force /\ cache[k] # None /\ cache[k].version = Active(k) /\ cache[k].token \in fresh

\* Mutant: any fresh cached token will do.
GetAnyCached(c, k, force) ==
    /\ ~force /\ cache[k] # None /\ cache[k].token \in fresh
    /\ Reply({c}, cache[k].token)
    /\ UNCHANGED <<profileVars, coordinatorVars, job, providerVars, historyVars, faults>>

GetCached(c, k, force) ==
    /\ Usable(k, force)
    /\ Reply({c}, cache[k].token)
    /\ UNCHANGED <<profileVars, coordinatorVars, job, providerVars, historyVars, faults>>

Coalesce(c, k, force) ==
    /\ ~Usable(k, force)
    /\ in_flight[k] # None
    /\ in_flight' = [in_flight EXCEPT ![k] = @ \cup {c}]
    /\ call' = [call EXCEPT ![c].at = "waiting"]
    /\ UNCHANGED <<profileVars, cache, tasks, job, providerVars, historyVars, faults>>

NotLinked(k) == account[k] = None
ReauthFirst(k, force) ==
    ~force /\ account[k] # None /\ account[k].status = "reauth_required"
StoredFresh(k, force) == ~force /\ account[k] # None /\ account[k].token \in fresh
NoRefreshToken(k) == account[k] # None /\ account[k].refresh = None

\* Not linked, reauth_required or without a refresh token.
GetRefused(c, k, force) ==
    /\ ~Usable(k, force)
    /\ in_flight[k] = None
    /\ \/ NotLinked(k)
       \/ ReauthFirst(k, force)
       \/ ~StoredFresh(k, force) /\ NoRefreshToken(k)
    /\ Reply({c}, None)
    /\ UNCHANGED <<profileVars, coordinatorVars, job, providerVars, historyVars, faults>>

\* The stored token is fresh: it primes the cache.
GetStored(c, k, force) ==
    /\ ~Usable(k, force)
    /\ in_flight[k] = None
    /\ ~NotLinked(k) /\ ~ReauthFirst(k, force)
    /\ StoredFresh(k, force)
    /\ cache' = [cache EXCEPT ![k] = [token |-> account[k].token,
                                      version |-> account[k].version]]
    /\ Reply({c}, account[k].token)
    /\ UNCHANGED <<profileVars, in_flight, tasks, job, providerVars, historyVars, faults>>

FreePids == {p \in Pids : tasks[p] = None /\ job[p] = None}

\* A worker takes the stored refresh token and its binding with it.
Spawn(c, k) ==
    /\ FreePids # {}
    /\ LET p == CHOOSE p \in FreePids : TRUE
       IN /\ tasks' = [tasks EXCEPT ![p] = k]
          /\ job' = [job EXCEPT ![p] = [key |-> k, version |-> account[k].version,
                                        refresh |-> account[k].refresh,
                                        at |-> "ask", token |-> None]]
    /\ in_flight' = [in_flight EXCEPT ![k] = {c}]
    /\ call' = [call EXCEPT ![c].at = "waiting"]
    /\ UNCHANGED <<profileVars, cache, providerVars, historyVars, faults>>

\* Mutant: every caller gets a refresh of its own.
StartAnother(c, k, force) ==
    /\ ~Usable(k, force)
    /\ ~NotLinked(k) /\ ~ReauthFirst(k, force) /\ ~StoredFresh(k, force)
    /\ ~NoRefreshToken(k)
    /\ Spawn(c, k)

StartWorker(c, k, force) ==
    /\ ~Usable(k, force)
    /\ in_flight[k] = None
    /\ ~NotLinked(k) /\ ~ReauthFirst(k, force) /\ ~StoredFresh(k, force)
    /\ ~NoRefreshToken(k)
    /\ Spawn(c, k)

Get(c) ==
    /\ call[c].at = "asked"
    /\ \E force \in Forces :
          \/ GetCached(c, call[c].key, force)
          \/ Coalesce(c, call[c].key, force)
          \/ GetRefused(c, call[c].key, force)
          \/ GetStored(c, call[c].key, force)
          \/ StartWorker(c, call[c].key, force)

-----------------------------------------------------------------------------
(* The provider answers a worker, and the worker goes on to Profiles.      *)

Asking(p) == job[p] # None /\ job[p].at = "ask"

\* Worker p sends a request of this kind and waits for the answer.
Send(p, kind, t) ==
    inbox' = Append(inbox, [pid |-> p, kind |-> kind, key |-> job[p].key,
                            version |-> job[p].version, token |-> t])

Granted(p) ==
    /\ Asking(p)
    /\ valid[job[p].version] = job[p].refresh
    /\ Len(binding) < MaxGrants
    /\ binding' = Append(binding, job[p].version)
    /\ fresh' = fresh \cup {NextGrant}
    /\ valid' = [valid EXCEPT ![job[p].version] =
                    IF job[p].key \in Rotating THEN NextGrant ELSE @]
    /\ Send(p, "save", NextGrant)
    /\ job' = [job EXCEPT ![p].at = "save", ![p].token = NextGrant]
    /\ UNCHANGED <<account, links, busy, coordinatorVars, call, historyVars, faults>>

\* Does the provider accept the refresh token of worker p, which is the one of
\* the account?
Healthy(p) ==
    /\ valid[job[p].version] = job[p].refresh
    /\ account[job[p].key] # None /\ account[job[p].key].version = job[p].version

\* {:error, :invalid_grant}, which refresh_tokens makes of every 401, and of a
\* 400 that says so or whose description mentions "revoked" or "expired": it
\* need not be about the refresh token.
Refused(p) ==
    /\ Asking(p)
    /\ Healthy(p) => faults < MaxFaults
    /\ Send(p, "mark", None)
    /\ job' = [job EXCEPT ![p].at = "mark"]
    /\ misjudged' = IF Healthy(p) THEN misjudged \cup {job[p].key} ELSE misjudged
    /\ faults' = IF Healthy(p) THEN faults + 1 ELSE faults
    /\ UNCHANGED <<account, links, busy, coordinatorVars, call, providerVars, unsure, cut>>

\* No answer, or none that can be used; the provider may have served it.
Unanswered(p) ==
    /\ Asking(p)
    /\ job' = [job EXCEPT ![p].at = "done"]
    /\ MayHaveServed({p})
    /\ UNCHANGED <<profileVars, coordinatorVars, call, binding, fresh, historyVars, faults>>

\* The owner of a linked account revokes the grant at the provider.
Revoke(k) ==
    /\ account[k] # None
    /\ valid[account[k].version] # None
    /\ valid' = [valid EXCEPT ![account[k].version] = None]
    /\ UNCHANGED <<profileVars, coordinatorVars, job, call, binding, fresh, historyVars, faults>>

\* A token somebody can still look up comes close to its expiry.
Expire(t) ==
    /\ t \in fresh
    /\ \E k \in Keys :
          \/ account[k] # None /\ account[k].token = t
          \/ cache[k] # None /\ cache[k].token = t
    /\ fresh' = fresh \ {t}
    /\ UNCHANGED <<profileVars, coordinatorVars, job, call, binding, valid, historyVars, faults>>

-----------------------------------------------------------------------------
(* Profiles, one request at a time; it waits for every invalidation.       *)

Free == busy = {}

\* A stored grant, with a refresh token or without.
Link(k) ==
    /\ Free
    /\ links < MaxLinks /\ Len(binding) < MaxGrants
    /\ \E refresh \in {NextGrant, None} :
          /\ account' = [account EXCEPT ![k] =
                            [version |-> links + 1, token |-> NextGrant,
                             refresh |-> refresh, status |-> "active"]]
          /\ valid' = Append(valid, refresh)
    /\ links' = links + 1
    /\ binding' = Append(binding, links + 1)
    /\ fresh' = fresh \cup {NextGrant}
    /\ busy' = {k}
    /\ unsure' = unsure \ {k}
    /\ cut' = cut \ {k}
    /\ misjudged' = misjudged \ {k}
    /\ UNCHANGED <<inbox, coordinatorVars, job, call, faults>>

Unlink(k) ==
    /\ Free
    /\ account[k] # None
    /\ account' = [account EXCEPT ![k] = None]
    /\ busy' = {k}
    /\ UNCHANGED <<links, inbox, coordinatorVars, job, call, providerVars, historyVars, faults>>

\* The profile with all its accounts is deleted (and may be created again).
Delete ==
    /\ Free
    /\ \E k \in Keys : account[k] # None
    /\ account' = [k \in Keys |-> None]
    /\ busy' = Keys
    /\ UNCHANGED <<links, inbox, coordinatorVars, job, call, providerVars, historyVars, faults>>

Serving(kind) == Free /\ inbox # <<>> /\ Head(inbox).kind = kind

\* Is request r about the binding that is linked now?
Current(r) == account[r.key] # None /\ account[r.key].version = r.version

\* The worker that sent request r, if it is alive, gets its answer.
Answer(r, at) ==
    job' = IF r.pid = None THEN job ELSE [job EXCEPT ![r.pid] = at]

Done(r, t) == [job[r.pid] EXCEPT !.at = "done", !.token = t]

Saved(r) == [account[r.key] EXCEPT !.token = r.token, !.status = "active",
                                   !.refresh = IF r.key \in Rotating THEN r.token ELSE @]

\* update_tokens with the expected version
SaveTokens ==
    /\ Serving("save")
    /\ LET r == Head(inbox)
       IN /\ Current(r)
          /\ account' = [account EXCEPT ![r.key] = Saved(r)]
          /\ misjudged' = misjudged \ {r.key}
          /\ Answer(r, Done(r, r.token))
    /\ inbox' = Tail(inbox)
    /\ UNCHANGED <<links, busy, coordinatorVars, call, providerVars, unsure, cut, faults>>

\* stale_binding
SaveStale ==
    /\ Serving("save")
    /\ LET r == Head(inbox)
       IN /\ account[r.key] # None /\ account[r.key].version # r.version
          /\ Answer(r, Done(r, None))
    /\ inbox' = Tail(inbox)
    /\ UNCHANGED <<account, links, busy, coordinatorVars, call, providerVars, historyVars, faults>>

\* The account is gone or the profiles cannot be written: the worker goes on
\* to mark the account.
SaveFails ==
    /\ Serving("save")
    /\ LET r == Head(inbox)
       IN /\ account[r.key] # None => Current(r)
          /\ IF r.pid = None
             THEN UNCHANGED job /\ inbox' = Tail(inbox)
             ELSE /\ job' = [job EXCEPT ![r.pid].at = "mark", ![r.pid].token = None]
                  /\ inbox' = Append(Tail(inbox), [r EXCEPT !.kind = "mark", !.token = None])
          /\ unsure' = unsure \cup {r.key}
    /\ UNCHANGED <<account, links, busy, coordinatorVars, call, providerVars, cut, misjudged,
                   faults>>

\* mark_account_reauth_required with the expected version; memory changes even
\* when the profiles cannot be written.
Mark ==
    /\ Serving("mark")
    /\ LET r == Head(inbox)
       IN /\ account' = IF Current(r) THEN [account EXCEPT ![r.key].status = "reauth_required"]
                                      ELSE account
          /\ Answer(r, Done(r, None))
    /\ inbox' = Tail(inbox)
    /\ UNCHANGED <<links, busy, coordinatorVars, call, providerVars, historyVars, faults>>

-----------------------------------------------------------------------------
(* The other messages of the coordinator.                                  *)

\* handle_call({:invalidate, ...}) from Profiles: the workers of the key are
\* killed and their callers told.
Kill(P) ==
    /\ job' = [p \in Pids |-> IF p \in P THEN None ELSE job[p]]
    /\ inbox' = Orphaned(P)
    /\ MayHaveServed(P)

\* Mutants: the cached token stays; the workers stay.
InvalidateKeepingCache(k) ==
    /\ k \in busy
    /\ busy' = busy \ {k}
    /\ Kill(WorkersOf(k))
    /\ tasks' = [p \in Pids |-> IF tasks[p] = k THEN None ELSE tasks[p]]
    /\ Reply(Waiting(k), None)
    /\ in_flight' = [in_flight EXCEPT ![k] = None]
    /\ cut' = cut \cup Saving(WorkersOf(k))
    /\ UNCHANGED <<account, links, cache, binding, fresh, unsure, misjudged, faults>>

InvalidateKeepingWorkers(k) ==
    /\ k \in busy
    /\ busy' = busy \ {k}
    /\ Reply(Waiting(k), None)
    /\ in_flight' = [in_flight EXCEPT ![k] = None]
    /\ cache' = [cache EXCEPT ![k] = None]
    /\ UNCHANGED <<account, links, inbox, tasks, job, providerVars, historyVars, faults>>

Invalidate(k) ==
    /\ k \in busy
    /\ busy' = busy \ {k}
    /\ Kill(WorkersOf(k))
    /\ tasks' = [p \in Pids |-> IF tasks[p] = k THEN None ELSE tasks[p]]
    /\ Reply(Waiting(k), None)
    /\ in_flight' = [in_flight EXCEPT ![k] = None]
    /\ cache' = [cache EXCEPT ![k] = None]
    /\ cut' = cut \cup Saving(WorkersOf(k))
    /\ UNCHANGED <<account, links, binding, fresh, unsure, misjudged, faults>>

\* Mutant: a failed refresh is remembered like a token.
DoneCachingAll(p) ==
    /\ tasks[p] # None
    /\ job[p] # None /\ job[p].at = "done"
    /\ LET k == tasks[p]
           t == IF job[p].version = Active(k) THEN job[p].token ELSE None
       IN /\ Reply(Waiting(k), t)
          /\ in_flight' = [in_flight EXCEPT ![k] = None]
          /\ cache' = [cache EXCEPT ![k] =
                          [token |-> t, version |-> job[p].version]]
    /\ tasks' = [tasks EXCEPT ![p] = None]
    /\ job' = [job EXCEPT ![p] = None]
    /\ UNCHANGED <<profileVars, providerVars, historyVars, faults>>

\* {:worker_done, pid, key, result}: a result for a binding that is no longer
\* active counts as a failure.
WorkerDone(p) ==
    /\ tasks[p] # None
    /\ job[p] # None /\ job[p].at = "done"
    /\ LET k == tasks[p]
           t == IF job[p].version = Active(k) THEN job[p].token ELSE None
       IN /\ Reply(Waiting(k), t)
          /\ in_flight' = [in_flight EXCEPT ![k] = None]
          /\ cache' = [cache EXCEPT ![k] =
                          IF t = None THEN None ELSE [token |-> t, version |-> job[p].version]]
    /\ tasks' = [tasks EXCEPT ![p] = None]
    /\ job' = [job EXCEPT ![p] = None]
    /\ UNCHANGED <<profileVars, providerVars, historyVars, faults>>

\* A worker exits without a result; its call of Profiles may have timed out.
WorkerDies(p) ==
    /\ job[p] # None /\ job[p].at # "done"
    /\ faults < MaxFaults
    /\ faults' = faults + 1
    /\ unsure' = unsure \cup Saving({p})
    /\ Kill({p})
    /\ UNCHANGED <<account, links, busy, coordinatorVars, call, binding, fresh, cut, misjudged>>

\* Mutant: the callers of a worker that died are forgotten.
DownUnanswered(p) ==
    /\ tasks[p] # None /\ job[p] = None
    /\ in_flight' = [in_flight EXCEPT ![tasks[p]] = None]
    /\ cache' = [cache EXCEPT ![tasks[p]] = None]
    /\ tasks' = [tasks EXCEPT ![p] = None]
    /\ UNCHANGED <<profileVars, call, job, providerVars, historyVars, faults>>

\* {:DOWN, ...}
Down(p) ==
    /\ tasks[p] # None /\ job[p] = None
    /\ Reply(Waiting(tasks[p]), None)
    /\ in_flight' = [in_flight EXCEPT ![tasks[p]] = None]
    /\ cache' = [cache EXCEPT ![tasks[p]] = None]
    /\ tasks' = [tasks EXCEPT ![p] = None]
    /\ UNCHANGED <<profileVars, job, providerVars, historyVars, faults>>

\* The coordinator crashes: its linked workers die, and rest_for_one starts it
\* and the processes of all callers again.  Profiles crashes with it when it is
\* waiting for it, and loses its mailbox; a crash of Profiles starts both.
Crash(profilesToo) ==
    /\ faults < MaxFaults
    /\ faults' = faults + 1
    /\ busy # {} => profilesToo
    /\ job' = [p \in Pids |-> None]
    /\ inbox' = IF profilesToo THEN <<>> ELSE Orphaned(Pids)
    /\ MayHaveServed(Pids)
    /\ busy' = {}
    /\ cache' = [k \in Keys |-> None]
    /\ in_flight' = [k \in Keys |-> None]
    /\ tasks' = [p \in Pids |-> None]
    /\ call' = [c \in Callers |-> IdleCall]
    /\ unsure' = unsure \cup Saving(Pids)
    /\ UNCHANGED <<account, links, binding, fresh, cut, misjudged>>

-----------------------------------------------------------------------------
Init ==
    /\ account = [k \in Keys |-> None]
    /\ links = 0
    /\ busy = {}
    /\ inbox = <<>>
    /\ cache = [k \in Keys |-> None]
    /\ in_flight = [k \in Keys |-> None]
    /\ tasks = [p \in Pids |-> None]
    /\ job = [p \in Pids |-> None]
    /\ call = [c \in Callers |-> IdleCall]
    /\ binding = <<>>
    /\ fresh = {}
    /\ valid = <<>>
    /\ unsure = {}
    /\ cut = {}
    /\ misjudged = {}
    /\ faults = 0

Work(p) == Granted(p) \/ Refused(p) \/ Unanswered(p)
Serve == SaveTokens \/ SaveStale \/ SaveFails \/ Mark
Report(p) == WorkerDone(p) \/ Down(p)

Next ==
    \/ \E c \in Callers : Get(c) \/ Finish(c) \/ \E k \in Keys : Ask(c, k)
    \/ \E p \in Pids : Work(p) \/ Report(p) \/ WorkerDies(p)
    \/ \E k \in Keys : Link(k) \/ Unlink(k) \/ Invalidate(k) \/ Revoke(k)
    \/ Delete
    \/ Serve
    \/ \E t \in Grants : Expire(t)
    \/ \E profilesToo \in BOOLEAN : Crash(profilesToo)

Spec == Init /\ [][Next]_vars

\* The processes handle their messages, and a request to the provider ends
\* (it has a timeout).  People and the provider owe nothing else.
Fairness ==
    /\ WF_vars(Serve)
    /\ \A c \in Callers : WF_vars(Get(c))
    /\ \A p \in Pids : WF_vars(Work(p)) /\ WF_vars(Report(p))
    /\ \A k \in Keys : WF_vars(Invalidate(k))
FairSpec == Spec /\ Fairness

-----------------------------------------------------------------------------
(* Properties.                                                             *)

Version == 1 .. links
GrantOrNone == Grants \cup {None}

Account == [version : Version, token : Grants, refresh : GrantOrNone,
            status : {"active", "reauth_required"}]
Request == [pid : Pids \cup {None}, kind : {"save", "mark"}, key : Keys,
            version : Version, token : GrantOrNone]
CacheEntry == [token : Grants, version : Version]
Job == [key : Keys, version : Version, refresh : Grants, token : GrantOrNone,
        at : {"ask", "save", "mark", "done"}]
Call == [at : {"asked", "waiting", "replied"}, key : Keys, version : Version,
         got : GrantOrNone]

\* Every variable keeps its shape; bindings and tokens exist.
TypeOK ==
    /\ account \in [Keys -> Account \cup {None}]
    /\ links \in Nat
    /\ busy \subseteq Keys
    /\ inbox \in Seq(Request)
    /\ cache \in [Keys -> CacheEntry \cup {None}]
    /\ in_flight \in [Keys -> (SUBSET Callers) \cup {None}]
    /\ tasks \in [Pids -> Keys \cup {None}]
    /\ job \in [Pids -> Job \cup {None}]
    /\ call \in [Callers -> Call \cup {IdleCall}]
    /\ binding \in Seq(Version)
    /\ fresh \subseteq Grants
    /\ valid \in [Version -> GrantOrNone]
    /\ unsure \subseteq Keys /\ cut \subseteq Keys /\ misjudged \subseteq Keys
    /\ faults \in Nat

OneWorkerPerWait ==
    \A k \in Keys : Cardinality(WorkersOf(k)) = IF in_flight[k] = None THEN 0 ELSE 1

WaitingIsRegistered ==
    \A c \in Callers : call[c].at = "waiting" <=> \E k \in Keys : c \in Waiting(k)

\* tokens.ex:6 "coalesced into a single upstream OAuth refresh request": while
\* callers of a key wait there is exactly one worker for it, nobody waits
\* without being registered for its reply, and no worker runs for nobody.
WaitersHaveWorker == OneWorkerPerWait /\ WaitingIsRegistered

\* tokens.ex:13-15 "preventing stale overwrite across account re-links": the
\* stored tokens of an account were granted for its current binding.
StoredOfItsBinding ==
    \A k \in Keys : account[k] # None => binding[account[k].token] = account[k].version

\* A reader that finds the same binding before and after it asked never uses a
\* token of another binding, whatever was linked, unlinked and linked between.
AcceptedOfItsBinding ==
    \A c \in Callers : Accepted(c) => binding[call[c].got] = call[c].version

\* Once Profiles is done with an account nothing cached is left of the binding
\* it replaced.
CacheIsCurrent ==
    \A k \in Keys \ busy : cache[k] # None =>
        account[k] # None /\ cache[k].version = account[k].version

\* An account is marked although the provider accepts its stored refresh token.
MarkedHealthy(k) ==
    /\ account[k] # None
    /\ account[k].status = "reauth_required"
    /\ account[k].refresh = valid[account[k].version]

\* tokens.ex:6 "coalesced into a single upstream OAuth refresh request": no
\* refresh token is spent twice, which a provider that replaces it would refuse.
\* An account whose stored refresh token the provider accepts is marked
\* reauth_required only when an answer about that token was misjudged since it
\* got it, or when a granted refresh could not be saved or its worker was gone,
\* dead or killed, when it was.
HealthyStaysActive ==
    \A k \in Keys :
        MarkedHealthy(k) => k \in unsure \cup cut \cup misjudged

\* WHAT_WE_ARE_BUILDING.md:134 "La renovación debe resistir concurrencia": as
\* long as no process crashes, nothing fails to be saved and no answer is
\* misjudged, concurrency alone does not make a healthy account need its owner.
\* Violated: the invalidation that ends a link kills a worker of the new binding.
RenewalSurvivesLinks ==
    \A k \in Keys : MarkedHealthy(k) => k \in unsure \cup misjudged

\* Every caller that waits for a refresh gets an answer, also when the worker
\* dies, the account is linked again or the coordinator crashes.
WaitersAnswered == \A c \in Callers : call[c].at = "waiting" ~> call[c].at # "waiting"
=============================================================================
