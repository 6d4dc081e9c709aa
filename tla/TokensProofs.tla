---------------------------- MODULE TokensProofs ----------------------------
(* What holds of the tokens for every number of accounts, callers, workers,  *)
(* bindings and grants.                                                      *)
EXTENDS Tokens, TLAPS, SequenceTheorems, FiniteSetTheorems

-----------------------------------------------------------------------------
(* The inductive invariant.                                                  *)

\* A request that Profiles holds for a living worker is the one it waits for.
InboxOwned ==
    /\ \A i \in DOMAIN inbox : inbox[i].pid # None =>
          /\ job[inbox[i].pid] \in Job
          /\ job[inbox[i].pid].at = inbox[i].kind
          /\ job[inbox[i].pid].version = inbox[i].version
          /\ job[inbox[i].pid].key = inbox[i].key
    /\ \A i, j \in DOMAIN inbox :
          i # j => inbox[i].pid = None \/ inbox[i].pid # inbox[j].pid

\* Whoever waits for a refresh of k has asked for k.
WaitingAsked ==
    \A k \in Keys : \A c \in Waiting(k) : call[c].at = "waiting" /\ call[c].key = k

\* Every token in the cache, in a worker's hands or on its way to Profiles was
\* granted for the binding it is held with, like the stored ones.
CachedOfBindings ==
    \A k \in Keys : cache[k] # None => binding[cache[k].token] = cache[k].version

HeldOfBindings ==
    \A p \in Pids : job[p] # None /\ job[p].token # None =>
        binding[job[p].token] = job[p].version

SentOfBindings ==
    \A i \in DOMAIN inbox : inbox[i].kind = "save" =>
        inbox[i].token \in Grants /\ binding[inbox[i].token] = inbox[i].version

TokensOfBindings ==
    StoredOfItsBinding /\ CachedOfBindings /\ HeldOfBindings /\ SentOfBindings

\* A reader whose binding is still linked was given a token of it, also while
\* the account is not active and may become active again.
RepliesOfBindings ==
    \A c \in Callers : call[c].at = "replied" =>
        \/ account[call[c].key] = None
        \/ account[call[c].key].version # call[c].version
        \/ call[c].got \in Grants /\ binding[call[c].got] = call[c].version

IInv == TypeOK /\ InboxOwned /\ WaitingAsked /\ TokensOfBindings /\ RepliesOfBindings

-----------------------------------------------------------------------------
(* What the shapes of the values depend on, and the helpers.                 *)

\* The sets of values depend on the bindings and grants that exist, and on nothing else.
LEMMA TypesSame ==
    ASSUME UNCHANGED <<links, binding>>
    PROVE  /\ Version' = Version /\ Grants' = Grants /\ GrantOrNone' = GrantOrNone
           /\ Account' = Account /\ Request' = Request /\ CacheEntry' = CacheEntry
           /\ Job' = Job /\ Call' = Call
  BY DEF Version, Grants, GrantOrNone, Account, Request, CacheEntry, Job, Call

\* They grow with every binding and grant, so old values stay well formed.
LEMMA TypesGrow ==
    ASSUME TypeOK, links' \in Nat, links' >= links,
           binding' \in Seq(Version'), Len(binding') >= Len(binding)
    PROVE  /\ Version \subseteq Version' /\ Grants \subseteq Grants'
           /\ GrantOrNone \subseteq GrantOrNone'
           /\ Account \subseteq Account' /\ Request \subseteq Request'
           /\ CacheEntry \subseteq CacheEntry' /\ Job \subseteq Job' /\ Call \subseteq Call'
  <1>1. Version \subseteq Version' /\ Grants \subseteq Grants'
    BY DEF TypeOK, Version, Grants
  <1>2. GrantOrNone \subseteq GrantOrNone'
    BY <1>1 DEF GrantOrNone
  <1>3. Account \subseteq Account' /\ Request \subseteq Request' /\ CacheEntry \subseteq CacheEntry'
    BY <1>1, <1>2 DEF Account, Request, CacheEntry
  <1>4. Job \subseteq Job' /\ Call \subseteq Call'
    BY <1>1, <1>2 DEF Job, Call
  <1> QED
    BY <1>1, <1>2, <1>3, <1>4

\* A reply ends the call of everybody in C, with t or with nothing.
LEMMA ReplyAnswers ==
    ASSUME TypeOK, NEW C \in SUBSET Callers, \A c \in C : call[c].at \in {"asked", "waiting"},
           NEW t \in GrantOrNone, Reply(C, t)
    PROVE  /\ call' \in [Callers -> Call \cup {IdleCall}]
           /\ \A c \in Callers \ C : call'[c] = call[c]
           /\ \A c \in C : \/ call'[c] = IdleCall
                          \/ /\ t # None /\ call'[c].at = "replied" /\ call'[c].got = t
                             /\ call'[c].key = call[c].key
                             /\ call'[c].version = call[c].version
  <1>1. \A c \in C : call[c] \in Call
    BY DEF TypeOK, IdleCall
  <1>2. \A c \in Callers \ C : call'[c] = call[c]
    BY DEF Reply
  <1>3. ASSUME NEW c \in C, t # None
        PROVE  /\ call'[c] = [call[c] EXCEPT !.at = "replied", !.got = t]
               /\ call'[c] \in Call
    BY <1>1, <1>3 DEF Reply, Call
  <1>4. ASSUME NEW c \in C, t = None PROVE call'[c] = IdleCall
    BY <1>4 DEF Reply
  <1>5. call' \in [Callers -> Call \cup {IdleCall}]
    <2>1. call' = [c \in Callers |-> call'[c]]
      BY DEF Reply
    <2>2. ASSUME NEW c \in Callers PROVE call'[c] \in Call \cup {IdleCall}
      <3>1. CASE c \in C
        BY <3>1, <1>3, <1>4
      <3>2. CASE c \notin C
        BY <3>2, <1>2 DEF TypeOK
      <3> QED
        BY <3>1, <3>2
    <2> QED
      BY <2>1, <2>2
  <1>6. ASSUME NEW c \in C, t # None
        PROVE  /\ call'[c].at = "replied" /\ call'[c].got = t
               /\ call'[c].key = call[c].key /\ call'[c].version = call[c].version
    <2>1. call'[c] = [call[c] EXCEPT !.at = "replied", !.got = t]
      BY <1>3, <1>6
    <2>2. PICK r \in Call : call[c] = r
      BY <1>1
    <2>3. call'[c] = [r EXCEPT !.at = "replied", !.got = t]
      BY <2>1, <2>2
    <2> QED
      BY <2>2, <2>3 DEF Call
  <1> QED
    BY <1>2, <1>4, <1>5, <1>6

\* Of an orphaned request only the sender is forgotten.
LEMMA OrphanedRequests ==
    ASSUME TypeOK, NEW P \in SUBSET Pids
    PROVE  /\ Orphaned(P) \in Seq(Request)
           /\ DOMAIN Orphaned(P) = DOMAIN inbox
           /\ \A i \in DOMAIN inbox :
                 /\ Orphaned(P)[i].pid =
                       IF inbox[i].pid \in P THEN None ELSE inbox[i].pid
                 /\ Orphaned(P)[i].kind = inbox[i].kind
                 /\ Orphaned(P)[i].key = inbox[i].key
                 /\ Orphaned(P)[i].version = inbox[i].version
                 /\ Orphaned(P)[i].token = inbox[i].token
  <1>1. \A i \in DOMAIN inbox : inbox[i] \in Request
    BY DEF TypeOK
  <1>2. \A i \in DOMAIN inbox : Orphaned(P)[i] =
            IF inbox[i].pid \in P THEN [inbox[i] EXCEPT !.pid = None] ELSE inbox[i]
    BY DEF Orphaned
  <1>3. \A i \in DOMAIN inbox : [inbox[i] EXCEPT !.pid = None] \in Request
    BY <1>1 DEF Request
  <1>4. \A i \in DOMAIN inbox : Orphaned(P)[i] \in Request
    BY <1>1, <1>2, <1>3
  <1>5. DOMAIN inbox = 1 .. Len(inbox) /\ Len(inbox) \in Nat
    BY DEF TypeOK
  <1>6. Orphaned(P) \in Seq(Request) /\ DOMAIN Orphaned(P) = DOMAIN inbox
    BY <1>4, <1>5 DEF Orphaned
  <1> QED
    BY <1>1, <1>2, <1>6 DEF Request

\* What the provider may have served leaves valid well formed.
LEMMA ServedValid ==
    ASSUME TypeOK, NEW P \in SUBSET Pids, MayHaveServed(P)
    PROVE  valid' \in [Version -> GrantOrNone]
  <1>1. DOMAIN valid = Version /\ \A v \in Version : valid[v] \in GrantOrNone
    BY DEF TypeOK
  <1>2. None \in GrantOrNone
    BY DEF GrantOrNone
  <1> QED
    BY <1>1, <1>2 DEF MayHaveServed

-----------------------------------------------------------------------------
(* Types: one lemma per handler.                                             *)

\* From here to TypesKept: every action keeps the types, one lemma for each.
LEMMA AskTypes ==
    ASSUME TypeOK, NEW c \in Callers, NEW k \in Keys, Ask(c, k)
    PROVE  TypeOK'
  <1>1. UNCHANGED <<links, binding>> /\ None \notin Version
    BY TokensAssumption DEF Ask, profileVars, providerVars, Version
  <1>2. Active(k) \in Version
    BY DEF Ask, Active, TypeOK, Account
  <1>3. [at |-> "asked", key |-> k, version |-> Active(k), got |-> None] \in Call
    BY <1>2 DEF Call, GrantOrNone
  <1>4. call' \in [Callers -> Call \cup {IdleCall}]
    BY <1>3 DEF Ask, TypeOK
  <1> QED
    BY <1>1, <1>4, TypesSame
    DEF Ask, TypeOK, profileVars, coordinatorVars, providerVars, historyVars, IdleCall

LEMMA FinishTypes ==
    ASSUME TypeOK, NEW c \in Callers, Finish(c)
    PROVE  TypeOK'
  <1>1. UNCHANGED <<links, binding>>
    BY DEF Finish, profileVars, providerVars
  <1>2. call' \in [Callers -> Call \cup {IdleCall}]
    BY DEF Finish, TypeOK
  <1> QED
    BY <1>1, <1>2, TypesSame
    DEF Finish, TypeOK, profileVars, coordinatorVars, providerVars, historyVars, IdleCall

\* The answers to a caller: c asked for k and was not waiting yet.
Asked(c) == call[c].at = "asked"

LEMMA AskedIsCall ==
    ASSUME TypeOK, NEW c \in Callers, call[c].at \in {"asked", "waiting"}
    PROVE  call[c] \in Call /\ call[c].key \in Keys /\ call[c].version \in Version
  <1>1. call[c] \in Call
    BY DEF TypeOK, IdleCall
  <1> QED
    BY <1>1 DEF Call

LEMMA RepliedTypes ==
    ASSUME TypeOK, NEW c \in Callers, Asked(c), NEW t \in GrantOrNone, Reply({c}, t)
    PROVE  call' \in [Callers -> Call \cup {IdleCall}]
  BY ReplyAnswers DEF Asked

LEMMA GetCachedTypes ==
    ASSUME TypeOK, NEW c \in Callers, Asked(c), NEW k \in Keys, NEW force \in BOOLEAN,
           GetCached(c, k, force)
    PROVE  TypeOK'
  <1>1. UNCHANGED <<links, binding>>
    BY DEF GetCached, profileVars, providerVars
  <1>2. cache[k].token \in GrantOrNone
    BY DEF GetCached, Usable, TypeOK, CacheEntry, GrantOrNone
  <1>3. call' \in [Callers -> Call \cup {IdleCall}]
    BY <1>2, RepliedTypes DEF GetCached
  <1> QED
    BY <1>1, <1>3, TypesSame
    DEF GetCached, TypeOK, profileVars, coordinatorVars, providerVars, historyVars, IdleCall

LEMMA WaitsIsCall ==
    ASSUME TypeOK, NEW c \in Callers, Asked(c)
    PROVE  [call EXCEPT ![c].at = "waiting"] \in [Callers -> Call \cup {IdleCall}]
  <1>1. PICK r \in Call : call[c] = r
    BY AskedIsCall DEF Asked
  <1>2. [r EXCEPT !.at = "waiting"] \in Call
    BY DEF Call
  <1> QED
    BY <1>1, <1>2 DEF TypeOK

LEMMA CoalesceTypes ==
    ASSUME TypeOK, NEW c \in Callers, Asked(c), NEW k \in Keys, NEW force \in BOOLEAN,
           Coalesce(c, k, force)
    PROVE  TypeOK'
  <1>1. UNCHANGED <<links, binding>>
    BY DEF Coalesce, profileVars, providerVars
  <1>2. call' \in [Callers -> Call \cup {IdleCall}]
    BY WaitsIsCall DEF Coalesce
  <1>3. in_flight[k] \cup {c} \in SUBSET Callers
    BY DEF Coalesce, TypeOK
  <1>4. in_flight' \in [Keys -> (SUBSET Callers) \cup {None}]
    BY <1>3 DEF Coalesce, TypeOK
  <1> QED
    BY <1>1, <1>2, <1>4, TypesSame
    DEF Coalesce, TypeOK, profileVars, providerVars, historyVars, IdleCall

LEMMA GetRefusedTypes ==
    ASSUME TypeOK, NEW c \in Callers, Asked(c), NEW k \in Keys, NEW force \in BOOLEAN,
           GetRefused(c, k, force)
    PROVE  TypeOK'
  <1>1. UNCHANGED <<links, binding>>
    BY DEF GetRefused, profileVars, providerVars
  <1>2. call' \in [Callers -> Call \cup {IdleCall}]
    BY RepliedTypes DEF GetRefused, GrantOrNone
  <1> QED
    BY <1>1, <1>2, TypesSame
    DEF GetRefused, TypeOK, profileVars, coordinatorVars, providerVars, historyVars, IdleCall

LEMMA GetStoredTypes ==
    ASSUME TypeOK, NEW c \in Callers, Asked(c), NEW k \in Keys, NEW force \in BOOLEAN,
           GetStored(c, k, force)
    PROVE  TypeOK'
  <1>1. UNCHANGED <<links, binding>>
    BY DEF GetStored, profileVars, providerVars
  <1>2. account[k] \in Account
    BY DEF GetStored, NotLinked, TypeOK
  <1>3. account[k].token \in Grants /\ account[k].version \in Version
    BY <1>2 DEF Account
  <1>4. call' \in [Callers -> Call \cup {IdleCall}]
    BY <1>3, RepliedTypes DEF GetStored, GrantOrNone
  <1>5. cache' \in [Keys -> CacheEntry \cup {None}]
    BY <1>3 DEF GetStored, TypeOK, CacheEntry
  <1> QED
    BY <1>1, <1>4, <1>5, TypesSame
    DEF GetStored, TypeOK, profileVars, providerVars, historyVars, IdleCall

LEMMA StartWorkerTypes ==
    ASSUME TypeOK, NEW c \in Callers, Asked(c), NEW k \in Keys, NEW force \in BOOLEAN,
           StartWorker(c, k, force)
    PROVE  TypeOK'
  <1>1. UNCHANGED <<links, binding>>
    BY DEF StartWorker, Spawn, profileVars, providerVars
  <1>2. account[k] \in Account
    BY DEF StartWorker, NotLinked, TypeOK
  <1>3. account[k].refresh \in Grants /\ account[k].version \in Version
    BY <1>2 DEF StartWorker, NotLinked, NoRefreshToken, Account, GrantOrNone
  <1>4. call' \in [Callers -> Call \cup {IdleCall}]
    BY WaitsIsCall DEF StartWorker, Spawn
  <1>5. PICK p \in Pids :
           /\ tasks' = [tasks EXCEPT ![p] = k]
           /\ job' = [job EXCEPT ![p] = [key |-> k, version |-> account[k].version,
                                        refresh |-> account[k].refresh,
                                        at |-> "ask", token |-> None]]
    BY DEF StartWorker, Spawn, FreePids
  <1>6. [key |-> k, version |-> account[k].version, refresh |-> account[k].refresh,
         at |-> "ask", token |-> None] \in Job
    BY <1>3 DEF Job, GrantOrNone
  <1>7. job' \in [Pids -> Job \cup {None}] /\ tasks' \in [Pids -> Keys \cup {None}]
    BY <1>5, <1>6 DEF TypeOK
  <1>8. in_flight' \in [Keys -> (SUBSET Callers) \cup {None}]
    BY DEF StartWorker, Spawn, TypeOK
  <1> QED
    BY <1>1, <1>4, <1>7, <1>8, TypesSame
    DEF StartWorker, Spawn, TypeOK, profileVars, providerVars, historyVars, IdleCall

\* A grant to a worker adds a token for the binding it was started with.
LEMMA NewGrant ==
    ASSUME TypeOK, links' = links, NEW v \in Version, binding' = Append(binding, v)
    PROVE  /\ binding' \in Seq(Version') /\ Version' = Version
           /\ NextGrant \in Grants' /\ Grants \subseteq Grants'
           /\ \A t \in Grants : binding'[t] = binding[t]
           /\ binding'[NextGrant] = v
           /\ GrantOrNone \subseteq GrantOrNone' /\ Account \subseteq Account'
           /\ Request \subseteq Request' /\ CacheEntry \subseteq CacheEntry'
           /\ Job \subseteq Job' /\ Call \subseteq Call'
  <1>1. Version' = Version
    BY DEF Version
  <1>2. binding \in Seq(Version) /\ links \in Nat
    BY DEF TypeOK
  <1>3. /\ Append(binding, v) \in Seq(Version) /\ Len(Append(binding, v)) = Len(binding) + 1
        /\ \A t \in 1 .. Len(binding) : Append(binding, v)[t] = binding[t]
        /\ Append(binding, v)[Len(binding) + 1] = v
    BY <1>2, AppendProperties
  <1>4. Len(binding) \in Nat
    BY <1>2
  <1>5. NextGrant \in Grants' /\ Grants \subseteq Grants'
    BY <1>3, <1>4 DEF NextGrant, Grants
  <1> QED
    BY <1>1, <1>2, <1>3, <1>4, <1>5, TypesGrow DEF NextGrant, Grants

\* What worker p sends keeps the mailbox of Profiles well formed.
LEMMA SendTypes ==
    ASSUME TypeOK, Request \subseteq Request', Version' = Version,
           NEW p \in Pids, job[p] \in Job, NEW kind \in {"save", "mark"},
           NEW t \in GrantOrNone', Send(p, kind, t)
    PROVE  /\ inbox' \in Seq(Request')
           /\ Len(inbox') = Len(inbox) + 1
           /\ \A i \in 1 .. Len(inbox) : inbox'[i] = inbox[i]
           /\ inbox'[Len(inbox) + 1] =
                 [pid |-> p, kind |-> kind, key |-> job[p].key,
                  version |-> job[p].version, token |-> t]
  <1> DEFINE r == [pid |-> p, kind |-> kind, key |-> job[p].key,
                   version |-> job[p].version, token |-> t]
  <1>1. r \in Request'
    BY DEF Job, Request
  <1>2. inbox \in Seq(Request')
    BY DEF TypeOK
  <1>3. inbox' = Append(inbox, r)
    BY DEF Send
  <1> HIDE DEF r
  <1>4. /\ Append(inbox, r) \in Seq(Request') /\ Len(Append(inbox, r)) = Len(inbox) + 1
        /\ \A i \in 1 .. Len(inbox) : Append(inbox, r)[i] = inbox[i]
        /\ Append(inbox, r)[Len(inbox) + 1] = r
    BY <1>1, <1>2, AppendProperties
  <1> QED
    BY <1>3, <1>4 DEF r

LEMMA AskingIsJob ==
    ASSUME TypeOK, NEW p \in Pids, Asking(p)
    PROVE  job[p] \in Job /\ job[p].version \in Version /\ job[p].key \in Keys
  BY DEF Asking, TypeOK, Job

LEMMA GrantedTypes ==
    ASSUME TypeOK, NEW p \in Pids, Granted(p)
    PROVE  TypeOK'
  <1> DEFINE v == job[p].version
  <1>1. job[p] \in Job /\ v \in Version
    BY AskingIsJob DEF Granted
  <1>2. links' = links /\ binding' = Append(binding, v)
    BY DEF Granted
  <1>3. /\ binding' \in Seq(Version') /\ Version' = Version
        /\ NextGrant \in Grants' /\ Grants \subseteq Grants'
        /\ GrantOrNone \subseteq GrantOrNone' /\ Account \subseteq Account'
        /\ Request \subseteq Request' /\ CacheEntry \subseteq CacheEntry'
        /\ Job \subseteq Job' /\ Call \subseteq Call'
    BY <1>1, <1>2, NewGrant
  <1>4. NextGrant \in GrantOrNone'
    BY <1>3 DEF GrantOrNone
  <1>5. inbox' \in Seq(Request')
    BY <1>1, <1>3, <1>4, SendTypes DEF Granted
  <1>6. PICK r \in Job' : job[p] = r
    BY <1>1, <1>3
  <1>7. [r EXCEPT !.at = "save", !.token = NextGrant] \in Job'
    BY <1>4 DEF Job
  <1>8. job' = [job EXCEPT ![p] = [r EXCEPT !.at = "save", !.token = NextGrant]]
    BY <1>6 DEF Granted, TypeOK
  <1>9. job' \in [Pids -> Job' \cup {None}]
    BY <1>3, <1>7, <1>8 DEF TypeOK
  <1>10. valid' \in [Version' -> GrantOrNone']
    BY <1>3, <1>4 DEF Granted, TypeOK
  <1>11. fresh' \subseteq Grants'
    BY <1>3 DEF Granted, TypeOK
  <1>12. /\ account' \in [Keys -> Account' \cup {None}]
         /\ cache' \in [Keys -> CacheEntry' \cup {None}]
         /\ call' \in [Callers -> Call' \cup {IdleCall}]
    BY <1>3 DEF Granted, TypeOK, coordinatorVars
  <1> QED
    BY <1>2, <1>3, <1>5, <1>9, <1>10, <1>11, <1>12
    DEF Granted, TypeOK, coordinatorVars, historyVars, IdleCall

LEMMA RefusedTypes ==
    ASSUME TypeOK, NEW p \in Pids, Refused(p)
    PROVE  TypeOK'
  <1>1. UNCHANGED <<links, binding>>
    BY DEF Refused, providerVars
  <1>2. job[p] \in Job
    BY AskingIsJob DEF Refused
  <1>3. None \in GrantOrNone'
    BY DEF GrantOrNone
  <1>4. inbox' \in Seq(Request')
    BY <1>1, <1>2, <1>3, TypesSame, SendTypes DEF Refused
  <1>5. PICK r \in Job : job[p] = r
    BY <1>2
  <1>6. [r EXCEPT !.at = "mark"] \in Job
    BY DEF Job
  <1>7. job' \in [Pids -> Job \cup {None}]
    BY <1>5, <1>6 DEF Refused, TypeOK
  <1>8. misjudged' \subseteq Keys
    <2>1. job[p].key \in Keys
      BY <1>2 DEF Job
    <2> QED
      BY <2>1 DEF Refused, TypeOK
  <1>9. faults' \in Nat
    BY DEF Refused, TypeOK
  <1> QED
    BY <1>1, <1>4, <1>7, <1>8, <1>9, TypesSame
    DEF Refused, TypeOK, coordinatorVars, providerVars, IdleCall

LEMMA UnansweredTypes ==
    ASSUME TypeOK, NEW p \in Pids, Unanswered(p)
    PROVE  TypeOK'
  <1>1. UNCHANGED <<links, binding>>
    BY DEF Unanswered, profileVars
  <1>2. PICK r \in Job : job[p] = r
    BY AskingIsJob DEF Unanswered
  <1>3. [r EXCEPT !.at = "done"] \in Job
    BY DEF Job
  <1>4. job' \in [Pids -> Job \cup {None}]
    BY <1>2, <1>3 DEF Unanswered, TypeOK
  <1>5. valid' \in [Version -> GrantOrNone]
    BY ServedValid DEF Unanswered
  <1> QED
    BY <1>1, <1>4, <1>5, TypesSame
    DEF Unanswered, TypeOK, coordinatorVars, profileVars, historyVars, IdleCall

LEMMA RevokeTypes ==
    ASSUME TypeOK, NEW k \in Keys, Revoke(k)
    PROVE  TypeOK'
  <1>1. UNCHANGED <<links, binding>>
    BY DEF Revoke, profileVars
  <1>2. valid' \in [Version -> GrantOrNone]
    BY DEF Revoke, TypeOK, GrantOrNone
  <1> QED
    BY <1>1, <1>2, TypesSame
    DEF Revoke, TypeOK, coordinatorVars, profileVars, historyVars, IdleCall

LEMMA ExpireTypes ==
    ASSUME TypeOK, NEW t \in Grants, Expire(t)
    PROVE  TypeOK'
  <1>1. UNCHANGED <<links, binding>>
    BY DEF Expire, profileVars
  <1>2. fresh' \subseteq Grants
    BY DEF Expire, TypeOK
  <1> QED
    BY <1>1, <1>2, TypesSame
    DEF Expire, TypeOK, coordinatorVars, profileVars, historyVars, IdleCall

\* A link adds a binding and its first token.
LEMMA LinkGrows ==
    ASSUME TypeOK, NEW k \in Keys, Link(k)
    PROVE  /\ links' \in Nat /\ links' = links + 1
           /\ binding' \in Seq(Version') /\ NextGrant \in Grants' /\ links' \in Version'
           /\ \A t \in Grants : binding'[t] = binding[t]
           /\ binding'[NextGrant] = links'
           /\ Version \subseteq Version' /\ Grants \subseteq Grants'
           /\ GrantOrNone \subseteq GrantOrNone' /\ Account \subseteq Account'
           /\ Request \subseteq Request' /\ CacheEntry \subseteq CacheEntry'
           /\ Job \subseteq Job' /\ Call \subseteq Call'
  <1>1. links' \in Nat /\ links' = links + 1 /\ binding' = Append(binding, links')
    BY DEF Link, TypeOK
  <1>2. links \in Nat /\ binding \in Seq(Version')
    BY <1>1 DEF TypeOK, Version
  <1>3. links' \in Version'
    BY <1>1, <1>2 DEF Version
  <1>4. /\ Append(binding, links') \in Seq(Version')
        /\ Len(Append(binding, links')) = Len(binding) + 1
        /\ \A t \in 1 .. Len(binding) : Append(binding, links')[t] = binding[t]
        /\ Append(binding, links')[Len(binding) + 1] = links'
    BY <1>2, <1>3, AppendProperties
  <1>5. Len(binding) \in Nat
    BY <1>2
  <1>6. NextGrant \in Grants' /\ Grants \subseteq Grants'
    BY <1>1, <1>4, <1>5 DEF NextGrant, Grants
  <1>7. links' >= links /\ Len(binding') >= Len(binding)
    BY <1>1, <1>2, <1>4, <1>5
  <1> QED
    BY <1>1, <1>3, <1>4, <1>5, <1>6, <1>7, TypesGrow DEF NextGrant, Grants

LEMMA LinkTypes ==
    ASSUME TypeOK, NEW k \in Keys, Link(k)
    PROVE  TypeOK'
  <1>1. /\ links' \in Nat /\ links' = links + 1
        /\ binding' \in Seq(Version') /\ NextGrant \in Grants' /\ links' \in Version'
        /\ Version \subseteq Version' /\ Grants \subseteq Grants'
        /\ GrantOrNone \subseteq GrantOrNone' /\ Account \subseteq Account'
        /\ Request \subseteq Request' /\ CacheEntry \subseteq CacheEntry'
        /\ Job \subseteq Job' /\ Call \subseteq Call'
    BY LinkGrows
  <1>2. PICK refresh \in {NextGrant, None} :
           /\ account' = [account EXCEPT ![k] =
                            [version |-> links + 1, token |-> NextGrant,
                             refresh |-> refresh, status |-> "active"]]
           /\ valid' = Append(valid, refresh)
    BY DEF Link
  <1>3. refresh \in GrantOrNone'
    BY <1>1 DEF GrantOrNone
  <1>4. [version |-> links + 1, token |-> NextGrant, refresh |-> refresh,
         status |-> "active"] \in Account'
    BY <1>1, <1>3 DEF Account
  <1>5. account' \in [Keys -> Account' \cup {None}]
    BY <1>1, <1>2, <1>4 DEF TypeOK
  <1>6. valid' \in [Version' -> GrantOrNone']
    <2>1. links \in Nat /\ valid \in [1 .. links -> GrantOrNone']
      BY <1>1 DEF TypeOK, Version
    <2>2. valid \in Seq(GrantOrNone') /\ Len(valid) = links
      BY <2>1
    <2>3. /\ Append(valid, refresh) \in Seq(GrantOrNone')
          /\ Len(Append(valid, refresh)) = links + 1
      BY <1>3, <2>2, AppendProperties
    <2>4. Append(valid, refresh) \in [1 .. links + 1 -> GrantOrNone']
      <3> DEFINE q == Append(valid, refresh)
      <3> HIDE DEF q
      <3>1. q \in Seq(GrantOrNone') /\ Len(q) = links + 1
        BY <2>3 DEF q
      <3>2. q \in [1 .. Len(q) -> GrantOrNone']
        BY <3>1, LenProperties
      <3> QED
        BY <3>1, <3>2 DEF q
    <2>5. Version' = 1 .. links + 1
      BY <1>1 DEF Version
    <2> QED
      BY <1>2, <2>4, <2>5
  <1>7. fresh' \subseteq Grants' /\ busy' \subseteq Keys
    BY <1>1 DEF Link, TypeOK
  <1>8. /\ cache' \in [Keys -> CacheEntry' \cup {None}]
        /\ call' \in [Callers -> Call' \cup {IdleCall}]
        /\ job' \in [Pids -> Job' \cup {None}]
    BY <1>1 DEF Link, TypeOK, coordinatorVars
  <1>9. inbox' \in Seq(Request')
    BY <1>1 DEF Link, TypeOK
  <1>10. unsure' \subseteq Keys /\ cut' \subseteq Keys /\ misjudged' \subseteq Keys
    BY DEF Link, TypeOK
  <1> QED
    BY <1>1, <1>5, <1>6, <1>7, <1>8, <1>9, <1>10
    DEF Link, TypeOK, coordinatorVars, IdleCall

LEMMA UnlinkTypes ==
    ASSUME TypeOK, NEW k \in Keys, Unlink(k)
    PROVE  TypeOK'
  <1>1. UNCHANGED <<links, binding>>
    BY DEF Unlink, providerVars
  <1>2. account' \in [Keys -> Account \cup {None}] /\ busy' \subseteq Keys
    BY DEF Unlink, TypeOK
  <1> QED
    BY <1>1, <1>2, TypesSame
    DEF Unlink, TypeOK, coordinatorVars, providerVars, historyVars, IdleCall

LEMMA DeleteTypes ==
    ASSUME TypeOK, Delete
    PROVE  TypeOK'
  <1>1. UNCHANGED <<links, binding>>
    BY DEF Delete, providerVars
  <1>2. account' \in [Keys -> Account \cup {None}] /\ busy' \subseteq Keys
    BY DEF Delete, TypeOK
  <1> QED
    BY <1>1, <1>2, TypesSame
    DEF Delete, TypeOK, coordinatorVars, providerVars, historyVars, IdleCall

\* Profiles takes the first request out of its mailbox.
LEMMA Served ==
    ASSUME TypeOK, inbox # <<>>
    PROVE  /\ Head(inbox) = inbox[1] /\ 1 \in DOMAIN inbox /\ Head(inbox) \in Request
           /\ Tail(inbox) \in Seq(Request)
           /\ Len(Tail(inbox)) = Len(inbox) - 1
           /\ \A i \in DOMAIN Tail(inbox) :
                 i + 1 \in DOMAIN inbox /\ i + 1 # 1 /\ Tail(inbox)[i] = inbox[i + 1]
  <1>1. inbox \in Seq(Request)
    BY DEF TypeOK
  <1> QED
    BY <1>1

\* A worker at work is told from a free one.
LEMMA JobIsRecord ==
    ASSUME TypeOK
    PROVE  None \notin Job
  <1>1. Version \subseteq Nat /\ Grants \subseteq Nat
    BY DEF TypeOK, Version, Grants
  <1>2. Job \subseteq [key : Keys, version : Nat, refresh : Nat, token : Nat \cup {None},
                     at : {"ask", "save", "mark", "done"}]
    BY <1>1 DEF Job, GrantOrNone
  <1> QED
    BY <1>2, TokensAssumption

\* An answer from Profiles changes the worker it is for, and no other.
LEMMA AnswerTypes ==
    ASSUME TypeOK, InboxOwned, inbox # <<>>, NEW t \in GrantOrNone,
           Answer(Head(inbox), Done(Head(inbox), t))
    PROVE  /\ job' \in [Pids -> Job \cup {None}]
           /\ \A p \in Pids : p # Head(inbox).pid => job'[p] = job[p]
           /\ \A p \in Pids : p = Head(inbox).pid =>
                 /\ job'[p].token = t /\ job'[p].version = job[p].version
                 /\ job[p] # None /\ job'[p].key = job[p].key /\ job'[p].at = "done"
  <1>1. Head(inbox) = inbox[1] /\ 1 \in DOMAIN inbox /\ Head(inbox) \in Request
    BY Served
  <1>2. CASE Head(inbox).pid = None
    BY <1>2, TokensAssumption DEF Answer, TypeOK
  <1>3. CASE Head(inbox).pid # None
    <2>1. Head(inbox).pid \in Pids
      BY <1>1, <1>3 DEF Request
    <2>2. PICK r \in Job : job[Head(inbox).pid] = r
      BY <1>1, <1>3 DEF InboxOwned
    <2>3. [r EXCEPT !.at = "done", !.token = t] \in Job
      BY DEF Job
    <2>4. job' = [job EXCEPT ![Head(inbox).pid] = [r EXCEPT !.at = "done", !.token = t]]
      BY <1>3, <2>2 DEF Answer, Done
    <2>5. /\ [r EXCEPT !.at = "done", !.token = t].token = t
          /\ [r EXCEPT !.at = "done", !.token = t].version = r.version
          /\ [r EXCEPT !.at = "done", !.token = t].key = r.key
          /\ [r EXCEPT !.at = "done", !.token = t].at = "done"
      BY DEF Job
    <2>6. r # None
      BY JobIsRecord
    <2> QED
      BY <2>1, <2>2, <2>3, <2>4, <2>5, <2>6 DEF TypeOK
  <1> QED
    BY <1>2, <1>3

LEMMA SaveTokensTypes ==
    ASSUME TypeOK, InboxOwned, TokensOfBindings, SaveTokens
    PROVE  TypeOK'
  <1> DEFINE r == Head(inbox)
  <1>1. UNCHANGED <<links, binding>>
    BY DEF SaveTokens, providerVars
  <1>2. inbox # <<>> /\ r.kind = "save" /\ Current(r)
    BY DEF SaveTokens, Serving
  <1>3. r = inbox[1] /\ 1 \in DOMAIN inbox /\ r \in Request /\ Tail(inbox) \in Seq(Request)
    BY <1>2, Served
  <1>4. r.token \in Grants
    BY <1>2, <1>3 DEF TokensOfBindings, SentOfBindings
  <1>5. job' \in [Pids -> Job \cup {None}]
    BY <1>2, <1>4, AnswerTypes DEF SaveTokens, GrantOrNone
  <1>6. r.key \in Keys /\ account[r.key] \in Account
    BY <1>2, <1>3 DEF Current, TypeOK, Request
  <1>7. PICK a \in Account : account[r.key] = a
    BY <1>6
  <1>8. Saved(r) = [a EXCEPT !.token = r.token, !.status = "active",
                             !.refresh = IF r.key \in Rotating THEN r.token ELSE a.refresh]
    BY <1>7 DEF Saved
  <1>9. Saved(r) \in Account
    BY <1>4, <1>8 DEF Account, GrantOrNone
  <1>10. account' \in [Keys -> Account \cup {None}]
    BY <1>6, <1>9 DEF SaveTokens, TypeOK
  <1>11. inbox' \in Seq(Request)
    BY <1>3 DEF SaveTokens
  <1> QED
    BY <1>1, <1>5, <1>10, <1>11, TypesSame
    DEF SaveTokens, TypeOK, coordinatorVars, providerVars, IdleCall

LEMMA SaveStaleTypes ==
    ASSUME TypeOK, InboxOwned, SaveStale
    PROVE  TypeOK'
  <1>1. UNCHANGED <<links, binding>>
    BY DEF SaveStale, providerVars
  <1>2. inbox # <<>>
    BY DEF SaveStale, Serving
  <1>3. job' \in [Pids -> Job \cup {None}]
    BY <1>2, AnswerTypes DEF SaveStale, GrantOrNone
  <1>4. inbox' \in Seq(Request)
    BY <1>2, Served DEF SaveStale
  <1> QED
    BY <1>1, <1>3, <1>4, TypesSame
    DEF SaveStale, TypeOK, coordinatorVars, providerVars, historyVars, IdleCall

LEMMA SaveFailsTypes ==
    ASSUME TypeOK, InboxOwned, SaveFails
    PROVE  TypeOK'
  <1> DEFINE r == Head(inbox)
  <1>1. UNCHANGED <<links, binding>>
    BY DEF SaveFails, providerVars
  <1>2. inbox # <<>>
    BY DEF SaveFails, Serving
  <1>3. r = inbox[1] /\ 1 \in DOMAIN inbox /\ r \in Request /\ Tail(inbox) \in Seq(Request)
    BY <1>2, Served
  <1>4. unsure' \subseteq Keys
    BY <1>3 DEF SaveFails, TypeOK, Request
  <1>5. job' \in [Pids -> Job \cup {None}] /\ inbox' \in Seq(Request)
    <2>1. CASE r.pid = None
      BY <2>1, <1>3 DEF SaveFails, TypeOK
    <2>2. CASE r.pid # None
      <3>1. PICK j \in Job : job[r.pid] = j
        BY <2>2, <1>3 DEF InboxOwned
      <3>2. [j EXCEPT !.at = "mark", !.token = None] \in Job
        BY DEF Job, GrantOrNone
      <3>3. job' = [job EXCEPT ![r.pid] = [j EXCEPT !.at = "mark", !.token = None]]
        BY <2>2, <3>1 DEF SaveFails, TypeOK
      <3>4. [r EXCEPT !.kind = "mark", !.token = None] \in Request
        BY <1>3 DEF Request, GrantOrNone
      <3>5. inbox' = Append(Tail(inbox), [r EXCEPT !.kind = "mark", !.token = None])
        BY <2>2 DEF SaveFails
      <3>6. inbox' \in Seq(Request)
        BY <1>3, <3>4, <3>5
      <3> QED
        BY <3>2, <3>3, <3>6 DEF TypeOK
    <2> QED
      BY <2>1, <2>2
  <1> QED
    BY <1>1, <1>4, <1>5, TypesSame
    DEF SaveFails, TypeOK, coordinatorVars, providerVars, IdleCall

LEMMA MarkTypes ==
    ASSUME TypeOK, InboxOwned, Mark
    PROVE  TypeOK'
  <1> DEFINE r == Head(inbox)
  <1>1. UNCHANGED <<links, binding>>
    BY DEF Mark, providerVars
  <1>2. inbox # <<>>
    BY DEF Mark, Serving
  <1>3. r \in Request /\ Tail(inbox) \in Seq(Request)
    BY <1>2, Served
  <1>4. job' \in [Pids -> Job \cup {None}]
    BY <1>2, AnswerTypes DEF Mark, GrantOrNone
  <1>5. account' \in [Keys -> Account \cup {None}]
    <2>1. CASE Current(r)
      <3>1. PICK a \in Account : account[r.key] = a
        BY <2>1, <1>3 DEF Current, TypeOK, Request
      <3>2. [a EXCEPT !.status = "reauth_required"] \in Account
        BY DEF Account
      <3>3. account' = [account EXCEPT ![r.key] = [a EXCEPT !.status = "reauth_required"]]
        BY <2>1, <3>1 DEF Mark
      <3> QED
        BY <3>2, <3>3 DEF TypeOK
    <2>2. CASE ~Current(r)
      BY <2>2 DEF Mark, TypeOK
    <2> QED
      BY <2>1, <2>2
  <1>6. inbox' \in Seq(Request)
    BY <1>3 DEF Mark
  <1> QED
    BY <1>1, <1>4, <1>5, <1>6, TypesSame
    DEF Mark, TypeOK, coordinatorVars, providerVars, historyVars, IdleCall

\* Whoever waits for a reply about k is a caller that asked for it.
LEMMA WaitingCallers ==
    ASSUME TypeOK, WaitingAsked, NEW k \in Keys
    PROVE  /\ Waiting(k) \in SUBSET Callers
           /\ \A c \in Waiting(k) : call[c].at \in {"asked", "waiting"}
  BY DEF TypeOK, WaitingAsked, Waiting

LEMMA KillTypes ==
    ASSUME TypeOK, UNCHANGED <<links, binding>>, NEW P \in SUBSET Pids, Kill(P)
    PROVE  /\ job' \in [Pids -> Job \cup {None}]
           /\ inbox' \in Seq(Request)
           /\ valid' \in [Version -> GrantOrNone]
  BY OrphanedRequests, ServedValid DEF Kill, TypeOK

LEMMA InvalidateTypes ==
    ASSUME TypeOK, WaitingAsked, NEW k \in Keys, Invalidate(k)
    PROVE  TypeOK'
  <1>1. UNCHANGED <<links, binding>>
    BY DEF Invalidate
  <1>2. WorkersOf(k) \in SUBSET Pids
    BY DEF WorkersOf
  <1>3. /\ job' \in [Pids -> Job \cup {None}]
        /\ inbox' \in Seq(Request)
        /\ valid' \in [Version -> GrantOrNone]
    BY <1>1, <1>2, KillTypes DEF Invalidate
  <1>4. call' \in [Callers -> Call \cup {IdleCall}]
    BY WaitingCallers, ReplyAnswers DEF Invalidate, GrantOrNone
  <1>5. /\ tasks' \in [Pids -> Keys \cup {None}]
        /\ in_flight' \in [Keys -> (SUBSET Callers) \cup {None}]
        /\ cache' \in [Keys -> CacheEntry \cup {None}]
    BY DEF Invalidate, TypeOK
  <1>6. cut' \subseteq Keys /\ busy' \subseteq Keys
    BY DEF Invalidate, TypeOK, Saving
  <1> QED
    BY <1>1, <1>3, <1>4, <1>5, <1>6, TypesSame DEF Invalidate, TypeOK, IdleCall

LEMMA WorkerDoneTypes ==
    ASSUME TypeOK, WaitingAsked, NEW p \in Pids, WorkerDone(p)
    PROVE  TypeOK'
  <1> DEFINE k == tasks[p]
             t == IF job[p].version = Active(k) THEN job[p].token ELSE None
  <1>1. UNCHANGED <<links, binding>>
    BY DEF WorkerDone, profileVars, providerVars
  <1>2. k \in Keys /\ job[p] \in Job
    BY DEF WorkerDone, TypeOK
  <1>3. t \in GrantOrNone /\ job[p].version \in Version
    BY <1>2 DEF Job, GrantOrNone
  <1>4. call' \in [Callers -> Call \cup {IdleCall}]
    BY <1>2, <1>3, WaitingCallers, ReplyAnswers DEF WorkerDone
  <1>5. cache' \in [Keys -> CacheEntry \cup {None}]
    <2>1. CASE t = None
      BY <2>1 DEF WorkerDone, TypeOK
    <2>2. CASE t # None
      <3>1. [token |-> t, version |-> job[p].version] \in CacheEntry
        BY <1>3, <2>2 DEF CacheEntry, GrantOrNone
      <3> QED
        BY <2>2, <3>1 DEF WorkerDone, TypeOK
    <2> QED
      BY <2>1, <2>2
  <1>6. /\ tasks' \in [Pids -> Keys \cup {None}]
        /\ job' \in [Pids -> Job \cup {None}]
        /\ in_flight' \in [Keys -> (SUBSET Callers) \cup {None}]
    BY DEF WorkerDone, TypeOK
  <1> QED
    BY <1>1, <1>4, <1>5, <1>6, TypesSame
    DEF WorkerDone, TypeOK, profileVars, providerVars, historyVars, IdleCall

LEMMA WorkerDiesTypes ==
    ASSUME TypeOK, NEW p \in Pids, WorkerDies(p)
    PROVE  TypeOK'
  <1>1. UNCHANGED <<links, binding>>
    BY DEF WorkerDies
  <1>2. /\ job' \in [Pids -> Job \cup {None}]
        /\ inbox' \in Seq(Request)
        /\ valid' \in [Version -> GrantOrNone]
    BY <1>1, KillTypes DEF WorkerDies
  <1>3. unsure' \subseteq Keys /\ faults' \in Nat
    BY DEF WorkerDies, TypeOK, Saving
  <1> QED
    BY <1>1, <1>2, <1>3, TypesSame DEF WorkerDies, TypeOK, coordinatorVars, IdleCall

LEMMA DownTypes ==
    ASSUME TypeOK, WaitingAsked, NEW p \in Pids, Down(p)
    PROVE  TypeOK'
  <1>1. UNCHANGED <<links, binding>>
    BY DEF Down, profileVars, providerVars
  <1>2. tasks[p] \in Keys
    BY DEF Down, TypeOK
  <1>3. call' \in [Callers -> Call \cup {IdleCall}]
    BY <1>2, WaitingCallers, ReplyAnswers DEF Down, GrantOrNone
  <1>4. /\ tasks' \in [Pids -> Keys \cup {None}]
        /\ cache' \in [Keys -> CacheEntry \cup {None}]
        /\ in_flight' \in [Keys -> (SUBSET Callers) \cup {None}]
    BY DEF Down, TypeOK
  <1> QED
    BY <1>1, <1>3, <1>4, TypesSame
    DEF Down, TypeOK, profileVars, providerVars, historyVars, IdleCall

LEMMA CrashTypes ==
    ASSUME TypeOK, NEW profilesToo \in BOOLEAN, Crash(profilesToo)
    PROVE  TypeOK'
  <1>1. UNCHANGED <<links, binding>>
    BY DEF Crash
  <1>2. inbox' \in Seq(Request)
    BY OrphanedRequests DEF Crash
  <1>3. valid' \in [Version -> GrantOrNone]
    BY ServedValid DEF Crash
  <1>4. unsure' \subseteq Keys /\ faults' \in Nat
    BY DEF Crash, TypeOK, Saving
  <1>5. call' \in [Callers -> Call \cup {IdleCall}]
    BY DEF Crash
  <1> QED
    BY <1>1, <1>2, <1>3, <1>4, <1>5, TypesSame DEF Crash, TypeOK, IdleCall

\* Every step keeps the types.
LEMMA TypesKept ==
    ASSUME TypeOK, InboxOwned, WaitingAsked, TokensOfBindings, [Next]_vars
    PROVE  TypeOK'
  <1>1. CASE UNCHANGED vars
    <2>1. UNCHANGED <<links, binding>>
      BY <1>1 DEF vars, profileVars, providerVars
    <2> QED
      BY <1>1, <2>1, TypesSame
      DEF vars, TypeOK, profileVars, coordinatorVars, providerVars, historyVars, IdleCall
  <1>2. ASSUME NEW c \in Callers, Get(c) PROVE TypeOK'
    <2> DEFINE k == call[c].key
    <2>1. Asked(c) /\ k \in Keys
      BY <1>2, AskedIsCall DEF Get, Asked
    <2>2. PICK force \in BOOLEAN :
             \/ GetCached(c, k, force) \/ Coalesce(c, k, force) \/ GetRefused(c, k, force)
             \/ GetStored(c, k, force) \/ StartWorker(c, k, force)
      BY <1>2, TokensAssumption DEF Get
    <2> QED
      BY <2>1, <2>2, GetCachedTypes, CoalesceTypes, GetRefusedTypes, GetStoredTypes,
         StartWorkerTypes
  <1>3. ASSUME NEW p \in Pids, Work(p) \/ Report(p) \/ WorkerDies(p) PROVE TypeOK'
    BY <1>3, GrantedTypes, RefusedTypes, UnansweredTypes, WorkerDoneTypes, DownTypes,
       WorkerDiesTypes DEF Work, Report
  <1>4. ASSUME NEW k \in Keys, Link(k) \/ Unlink(k) \/ Invalidate(k) \/ Revoke(k)
        PROVE  TypeOK'
    BY <1>4, LinkTypes, UnlinkTypes, InvalidateTypes, RevokeTypes
  <1>5. CASE Serve
    BY <1>5, SaveTokensTypes, SaveStaleTypes, SaveFailsTypes, MarkTypes DEF Serve
  <1> QED
    BY <1>1, <1>2, <1>3, <1>4, <1>5, AskTypes, FinishTypes, DeleteTypes, ExpireTypes,
       CrashTypes DEF Next

\* Bindings and grants are never forgotten.
LEMMA StepGrows ==
    ASSUME TypeOK, [Next]_vars
    PROVE  /\ Version \subseteq Version' /\ Grants \subseteq Grants' /\ Job \subseteq Job'
           /\ \A t \in Grants : binding'[t] = binding[t]
           /\ links' \in Nat /\ links' >= links
  <1>1. ASSUME UNCHANGED <<links, binding>>
        PROVE  /\ Version \subseteq Version' /\ Grants \subseteq Grants' /\ Job \subseteq Job'
               /\ \A t \in Grants : binding'[t] = binding[t]
               /\ links' \in Nat /\ links' >= links
    BY <1>1, TypesSame DEF TypeOK
  <1>2. ASSUME NEW k \in Keys, Link(k)
        PROVE  /\ Version \subseteq Version' /\ Grants \subseteq Grants' /\ Job \subseteq Job'
               /\ \A t \in Grants : binding'[t] = binding[t]
               /\ links' \in Nat /\ links' >= links
    BY <1>2, LinkGrows DEF TypeOK
  <1>3. ASSUME NEW p \in Pids, Granted(p)
        PROVE  /\ Version \subseteq Version' /\ Grants \subseteq Grants' /\ Job \subseteq Job'
               /\ \A t \in Grants : binding'[t] = binding[t]
               /\ links' \in Nat /\ links' >= links
    <2>1. links' = links /\ binding' = Append(binding, job[p].version)
      BY <1>3 DEF Granted
    <2>2. job[p].version \in Version
      BY <1>3, AskingIsJob DEF Granted
    <2>3. links' \in Nat /\ links' >= links
      BY <2>1 DEF TypeOK
    <2>4. /\ Version' = Version /\ Grants \subseteq Grants' /\ Job \subseteq Job'
          /\ \A t \in Grants : binding'[t] = binding[t]
      BY <2>1, <2>2, NewGrant
    <2> QED
      BY <2>3, <2>4
  <1>4. \/ UNCHANGED <<links, binding>>
        \/ \E k \in Keys : Link(k)
        \/ \E p \in Pids : Granted(p)
    <2>1. CASE UNCHANGED vars
      BY <2>1 DEF vars, profileVars, providerVars
    <2>2. ASSUME NEW c \in Callers, Get(c) PROVE UNCHANGED <<links, binding>>
      BY <2>2 DEF Get, GetCached, Coalesce, GetRefused, GetStored, StartWorker, Spawn,
                  profileVars, providerVars
    <2>3. ASSUME NEW p \in Pids, Refused(p) \/ Unanswered(p) \/ Report(p) \/ WorkerDies(p)
          PROVE  UNCHANGED <<links, binding>>
      BY <2>3 DEF Refused, Unanswered, Report, WorkerDone, Down, WorkerDies,
                  profileVars, providerVars
    <2>4. ASSUME NEW k \in Keys, Unlink(k) \/ Invalidate(k) \/ Revoke(k)
          PROVE  UNCHANGED <<links, binding>>
      BY <2>4 DEF Unlink, Invalidate, Revoke, profileVars, providerVars
    <2>5. ASSUME Serve \/ Delete PROVE UNCHANGED <<links, binding>>
      BY <2>5 DEF Serve, SaveTokens, SaveStale, SaveFails, Mark, Delete, providerVars
    <2>6. ASSUME NEW c \in Callers, NEW k \in Keys, Ask(c, k)
          PROVE  UNCHANGED <<links, binding>>
      BY <2>6 DEF Ask, profileVars, providerVars
    <2>7. ASSUME NEW c \in Callers, Finish(c) PROVE UNCHANGED <<links, binding>>
      BY <2>7 DEF Finish, profileVars, providerVars
    <2>8. ASSUME NEW t \in Grants, Expire(t) PROVE UNCHANGED <<links, binding>>
      BY <2>8 DEF Expire, profileVars
    <2>9. ASSUME NEW profilesToo \in BOOLEAN, Crash(profilesToo)
          PROVE  UNCHANGED <<links, binding>>
      BY <2>9 DEF Crash
    <2> QED
      BY <2>1, <2>2, <2>3, <2>4, <2>5, <2>6, <2>7, <2>8, <2>9 DEF Next, Work
  <1> QED
    BY <1>1, <1>2, <1>3, <1>4

-----------------------------------------------------------------------------
(* The requests of living workers.                                           *)

\* Nothing changes for a worker that waits for Profiles.
LEMMA InboxSame ==
    ASSUME TypeOK, InboxOwned, inbox' = inbox, Job \subseteq Job',
           \A p \in Pids : job'[p] = job[p] \/ job[p] = None
                          \/ job[p].at \notin {"save", "mark"}
    PROVE  InboxOwned'
  <1>1. ASSUME NEW i \in DOMAIN inbox, inbox[i].pid # None
        PROVE  /\ job'[inbox[i].pid] \in Job' /\ job'[inbox[i].pid].at = inbox[i].kind
               /\ job'[inbox[i].pid].version = inbox[i].version
               /\ job'[inbox[i].pid].key = inbox[i].key
    <2>1. inbox[i] \in Request
      BY DEF TypeOK
    <2>2. inbox[i].pid \in Pids /\ inbox[i].kind \in {"save", "mark"}
      BY <1>1, <2>1 DEF Request
    <2>3. /\ job[inbox[i].pid] \in Job /\ job[inbox[i].pid].at = inbox[i].kind
          /\ job[inbox[i].pid].version = inbox[i].version
          /\ job[inbox[i].pid].key = inbox[i].key
      BY <1>1 DEF InboxOwned
    <2>4. job'[inbox[i].pid] = job[inbox[i].pid]
      BY <2>2, <2>3, JobIsRecord
    <2> QED
      BY <2>3, <2>4
  <1> QED
    BY <1>1 DEF InboxOwned

\* Profiles answers the first request.
LEMMA InboxServed ==
    ASSUME TypeOK, InboxOwned, inbox # <<>>, inbox' = Tail(inbox), Job' = Job,
           \A p \in Pids : p # Head(inbox).pid => job'[p] = job[p]
    PROVE  InboxOwned'
  <1>1. /\ Head(inbox) = inbox[1] /\ 1 \in DOMAIN inbox
        /\ \A i \in DOMAIN inbox' :
              i + 1 \in DOMAIN inbox /\ i + 1 # 1 /\ inbox'[i] = inbox[i + 1]
    BY Served
  <1>2. ASSUME NEW i \in DOMAIN inbox', inbox'[i].pid # None
        PROVE  /\ job'[inbox'[i].pid] \in Job' /\ job'[inbox'[i].pid].at = inbox'[i].kind
               /\ job'[inbox'[i].pid].version = inbox'[i].version
               /\ job'[inbox'[i].pid].key = inbox'[i].key
    <2>1. i + 1 \in DOMAIN inbox /\ i + 1 # 1 /\ inbox'[i] = inbox[i + 1]
      BY <1>1
    <2>2. inbox[i + 1] \in Request
      BY <2>1 DEF TypeOK
    <2>3. inbox[i + 1].pid \in Pids
      BY <1>2, <2>1, <2>2 DEF Request
    <2>4. inbox[i + 1].pid # inbox[1].pid
      BY <1>1, <1>2, <2>1 DEF InboxOwned
    <2>5. /\ job[inbox[i + 1].pid] \in Job
          /\ job[inbox[i + 1].pid].at = inbox[i + 1].kind
          /\ job[inbox[i + 1].pid].version = inbox[i + 1].version
          /\ job[inbox[i + 1].pid].key = inbox[i + 1].key
      BY <1>2, <2>1 DEF InboxOwned
    <2> QED
      BY <1>1, <2>1, <2>3, <2>4, <2>5
  <1>3. ASSUME NEW i \in DOMAIN inbox', NEW j \in DOMAIN inbox', i # j
        PROVE  inbox'[i].pid = None \/ inbox'[i].pid # inbox'[j].pid
    <2>1. /\ i + 1 \in DOMAIN inbox /\ inbox'[i] = inbox[i + 1]
          /\ j + 1 \in DOMAIN inbox /\ inbox'[j] = inbox[j + 1]
      BY <1>1
    <2>2. i \in Nat /\ j \in Nat
      BY Served
    <2>3. i + 1 # j + 1
      BY <1>3, <2>2
    <2> QED
      BY <2>1, <2>3 DEF InboxOwned
  <1> QED
    BY <1>2, <1>3 DEF InboxOwned

\* A worker that waited for nothing at Profiles sends a request.
LEMMA InboxSent ==
    ASSUME TypeOK, InboxOwned, NEW p \in Pids, NEW r,
           job'[p] \in Job', job'[p].at = r.kind, job'[p].version = r.version,
           job'[p].key = r.key, r.pid = p,
           \A q \in Pids : q # p => job'[q] = job[q],
           \A i \in DOMAIN inbox : inbox[i].pid # p,
           Len(inbox') = Len(inbox) + 1, inbox'[Len(inbox) + 1] = r,
           \A i \in DOMAIN inbox : inbox'[i] = inbox[i],
           DOMAIN inbox' = 1 .. Len(inbox'), Job \subseteq Job'
    PROVE  InboxOwned'
  <1>1. DOMAIN inbox = 1 .. Len(inbox) /\ Len(inbox) \in Nat
    BY DEF TypeOK
  <1>2. DOMAIN inbox' = DOMAIN inbox \cup {Len(inbox) + 1}
    BY <1>1
  <1>3. ASSUME NEW i \in DOMAIN inbox, inbox[i].pid # None
        PROVE  /\ job'[inbox[i].pid] \in Job' /\ job'[inbox[i].pid].at = inbox[i].kind
               /\ job'[inbox[i].pid].version = inbox[i].version
               /\ job'[inbox[i].pid].key = inbox[i].key
    <2>1. inbox[i] \in Request
      BY DEF TypeOK
    <2>2. inbox[i].pid \in Pids
      BY <1>3, <2>1 DEF Request
    <2> QED
      BY <1>3, <2>2 DEF InboxOwned
  <1>4. ASSUME NEW i \in DOMAIN inbox', inbox'[i].pid # None
        PROVE  /\ job'[inbox'[i].pid] \in Job' /\ job'[inbox'[i].pid].at = inbox'[i].kind
               /\ job'[inbox'[i].pid].version = inbox'[i].version
               /\ job'[inbox'[i].pid].key = inbox'[i].key
    <2>1. CASE i \in DOMAIN inbox
      BY <1>3, <1>4, <2>1
    <2>2. CASE i = Len(inbox) + 1
      BY <2>2
    <2> QED
      BY <1>2, <2>1, <2>2
  <1>5. ASSUME NEW i \in DOMAIN inbox', NEW j \in DOMAIN inbox', i # j
        PROVE  inbox'[i].pid = None \/ inbox'[i].pid # inbox'[j].pid
    <2>1. CASE i \in DOMAIN inbox /\ j \in DOMAIN inbox
      <3>1. inbox[i].pid = None \/ inbox[i].pid # inbox[j].pid
        BY <1>5, <2>1 DEF InboxOwned
      <3> QED
        BY <2>1, <3>1
    <2>2. CASE i \in DOMAIN inbox /\ j = Len(inbox) + 1
      BY <2>2
    <2>3. CASE i = Len(inbox) + 1 /\ j \in DOMAIN inbox
      BY <2>3
    <2> QED
      BY <1>2, <1>5, <2>1, <2>2, <2>3
  <1> QED
    BY <1>4, <1>5 DEF InboxOwned

\* Workers are killed.
LEMMA InboxKilled ==
    ASSUME TypeOK, InboxOwned, NEW P \in SUBSET Pids, Kill(P), Job' = Job
    PROVE  InboxOwned'
  <1>1. /\ DOMAIN inbox' = DOMAIN inbox
        /\ \A i \in DOMAIN inbox :
              /\ inbox'[i].pid = IF inbox[i].pid \in P THEN None ELSE inbox[i].pid
              /\ inbox'[i].kind = inbox[i].kind
              /\ inbox'[i].version = inbox[i].version /\ inbox'[i].key = inbox[i].key
    BY OrphanedRequests DEF Kill
  <1>2. ASSUME NEW i \in DOMAIN inbox', inbox'[i].pid # None
        PROVE  /\ job'[inbox'[i].pid] \in Job' /\ job'[inbox'[i].pid].at = inbox'[i].kind
               /\ job'[inbox'[i].pid].version = inbox'[i].version
               /\ job'[inbox'[i].pid].key = inbox'[i].key
    <2>1. inbox[i].pid \notin P /\ inbox'[i].pid = inbox[i].pid
      BY <1>1, <1>2
    <2>2. i \in DOMAIN inbox /\ inbox[i] \in Request
      BY <1>1 DEF TypeOK
    <2>3. inbox[i].pid \in Pids
      BY <1>2, <2>1, <2>2 DEF Request
    <2>4. job'[inbox[i].pid] = job[inbox[i].pid]
      BY <2>1, <2>3 DEF Kill
    <2> QED
      BY <1>1, <1>2, <2>1, <2>2, <2>4 DEF InboxOwned
  <1>3. ASSUME NEW i \in DOMAIN inbox', NEW j \in DOMAIN inbox', i # j
        PROVE  inbox'[i].pid = None \/ inbox'[i].pid # inbox'[j].pid
    BY <1>1, <1>3 DEF InboxOwned
  <1> QED
    BY <1>2, <1>3 DEF InboxOwned

\* Profiles could not save what a living worker sent: the worker sends again.
LEMMA InboxAgain ==
    ASSUME TypeOK, InboxOwned, SaveFails, Head(inbox).pid # None
    PROVE  InboxOwned'
  <1> DEFINE r == Head(inbox)
             s == [r EXCEPT !.kind = "mark", !.token = None]
             n == Len(inbox)
  <1>1. inbox # <<>> /\ inbox \in Seq(Request) /\ UNCHANGED <<links, binding>>
    BY DEF SaveFails, Serving, TypeOK, providerVars
  <1>2. r = inbox[1] /\ 1 \in DOMAIN inbox /\ r \in Request
    BY <1>1, Served
  <1>3. r.pid \in Pids
    BY <1>2 DEF Request
  <1>4. PICK j \in Job : job[r.pid] = j /\ j.version = r.version /\ j.key = r.key
    BY <1>2 DEF InboxOwned
  <1>5. /\ s.pid = r.pid /\ s.kind = "mark" /\ s.version = r.version /\ s.key = r.key
        /\ s \in Request
    BY <1>2 DEF Request, GrantOrNone
  <1>6. inbox' = Append(Tail(inbox), s)
    BY DEF SaveFails
  <1> HIDE DEF s, r
  <1>7. /\ DOMAIN inbox' = 1 .. n /\ n \in Nat /\ n # 0 /\ inbox'[n] = s
        /\ \A i \in 1 .. n : i # n => inbox'[i] = inbox[i + 1] /\ i + 1 \in DOMAIN inbox
    BY <1>1, <1>5, <1>6
  <1>8. job' = [job EXCEPT ![r.pid] = [j EXCEPT !.at = "mark", !.token = None]]
    BY <1>4 DEF SaveFails, r, TypeOK
  <1>9. [j EXCEPT !.at = "mark", !.token = None] \in Job
    BY DEF Job, GrantOrNone
  <1>10. /\ job'[r.pid] \in Job /\ job'[r.pid].at = "mark"
         /\ job'[r.pid].version = r.version /\ job'[r.pid].key = r.key
    <2>1. /\ [j EXCEPT !.at = "mark", !.token = None].at = "mark"
          /\ [j EXCEPT !.at = "mark", !.token = None].version = j.version
          /\ [j EXCEPT !.at = "mark", !.token = None].key = j.key
      BY DEF Job
    <2> QED
      BY <1>3, <1>4, <1>8, <1>9, <2>1 DEF TypeOK
  <1>11. ASSUME NEW i \in DOMAIN inbox, i # 1, inbox[i].pid # None
         PROVE  /\ inbox[i].pid # r.pid
                /\ job'[inbox[i].pid] \in Job /\ job'[inbox[i].pid].at = inbox[i].kind
                /\ job'[inbox[i].pid].version = inbox[i].version
                /\ job'[inbox[i].pid].key = inbox[i].key
    <2>1. inbox[i].pid # r.pid
      BY <1>2, <1>11 DEF InboxOwned
    <2>2. inbox[i] \in Request
      BY <1>1
    <2>3. inbox[i].pid \in Pids
      BY <1>11, <2>2 DEF Request
    <2>4. job'[inbox[i].pid] = job[inbox[i].pid]
      BY <1>8, <2>1, <2>3 DEF TypeOK
    <2> QED
      BY <1>11, <2>1, <2>4 DEF InboxOwned
  <1>12. ASSUME NEW i \in DOMAIN inbox', inbox'[i].pid # None
         PROVE  /\ job'[inbox'[i].pid] \in Job' /\ job'[inbox'[i].pid].at = inbox'[i].kind
               /\ job'[inbox'[i].pid].version = inbox'[i].version
               /\ job'[inbox'[i].pid].key = inbox'[i].key
    <2>1. Job' = Job
      BY <1>1, TypesSame
    <2>2. CASE i = n
      BY <1>5, <1>7, <1>10, <2>1, <2>2
    <2>3. CASE i # n
      <3>1. i + 1 # 1 /\ i + 1 \in DOMAIN inbox /\ inbox'[i] = inbox[i + 1]
        BY <1>7, <2>3
      <3> QED
        BY <1>11, <1>12, <2>1, <3>1
    <2> QED
      BY <2>2, <2>3
  <1>13. ASSUME NEW i \in DOMAIN inbox', NEW j2 \in DOMAIN inbox', i # j2
         PROVE  inbox'[i].pid = None \/ inbox'[i].pid # inbox'[j2].pid
    <2>1. \A l \in DOMAIN inbox' : l # n =>
             l + 1 # 1 /\ l + 1 \in DOMAIN inbox /\ inbox'[l] = inbox[l + 1]
      BY <1>7
    <2>2. CASE i # n /\ j2 # n
      <3>1. i + 1 # j2 + 1
        BY <1>7, <1>13
      <3> QED
        BY <2>1, <2>2, <3>1 DEF InboxOwned
    <2>3. CASE i = n /\ j2 # n
      BY <1>2, <1>5, <1>7, <1>11, <2>1, <2>3, <1>3, TokensAssumption
    <2>4. CASE i # n /\ j2 = n
      BY <1>5, <1>7, <1>11, <2>1, <2>4
    <2> QED
      BY <1>13, <2>2, <2>3, <2>4
  <1> QED
    BY <1>12, <1>13 DEF InboxOwned

\* A worker that the provider answered sends its first request.
LEMMA InboxWork ==
    ASSUME TypeOK, InboxOwned, NEW p \in Pids, Granted(p) \/ Refused(p)
    PROVE  InboxOwned'
  <1>1. job[p] \in Job /\ job[p].at = "ask"
    BY AskingIsJob DEF Granted, Refused, Asking
  <1>2. \A i \in DOMAIN inbox : inbox[i].pid # p
    <2>1. ASSUME NEW i \in DOMAIN inbox, inbox[i].pid = p PROVE FALSE
      <3>1. p # None
        BY TokensAssumption
      <3>2. inbox[i].kind = "ask"
        BY <1>1, <2>1, <3>1 DEF InboxOwned
      <3>3. inbox[i] \in Request
        BY DEF TypeOK
      <3> QED
        BY <3>2, <3>3 DEF Request
    <2> QED
      BY <2>1
  <1>3. DOMAIN inbox = 1 .. Len(inbox)
    BY DEF TypeOK
  <1>4. CASE Granted(p)
    <2>1. links' = links /\ binding' = Append(binding, job[p].version)
      BY <1>4 DEF Granted
    <2>2. job[p].version \in Version
      BY <1>1 DEF Job
    <2>3. /\ Request \subseteq Request' /\ Version' = Version /\ Job \subseteq Job'
          /\ NextGrant \in Grants'
      BY <2>1, <2>2, NewGrant
    <2>4. NextGrant \in GrantOrNone'
      BY <2>3 DEF GrantOrNone
    <2>5. /\ inbox' \in Seq(Request')
          /\ Len(inbox') = Len(inbox) + 1
          /\ \A i \in 1 .. Len(inbox) : inbox'[i] = inbox[i]
          /\ inbox'[Len(inbox) + 1] =
                [pid |-> p, kind |-> "save", key |-> job[p].key,
                 version |-> job[p].version, token |-> NextGrant]
      BY <1>1, <1>4, <2>3, <2>4, SendTypes DEF Granted
    <2>6. DOMAIN inbox' = 1 .. Len(inbox')
      BY <2>5
    <2>7. PICK r \in Job' : job[p] = r
      BY <1>1, <2>3
    <2>8. job' = [job EXCEPT ![p] = [r EXCEPT !.at = "save", !.token = NextGrant]]
      BY <1>4, <2>7 DEF Granted, TypeOK
    <2>9. /\ [r EXCEPT !.at = "save", !.token = NextGrant] \in Job'
          /\ [r EXCEPT !.at = "save", !.token = NextGrant].at = "save"
          /\ [r EXCEPT !.at = "save", !.token = NextGrant].version = r.version
          /\ [r EXCEPT !.at = "save", !.token = NextGrant].key = r.key
      BY <2>4 DEF Job
    <2>10. /\ job'[p] \in Job' /\ job'[p].at = "save" /\ job'[p].version = job[p].version
           /\ job'[p].key = job[p].key
           /\ \A q \in Pids : q # p => job'[q] = job[q]
      BY <2>7, <2>8, <2>9 DEF TypeOK
    <2> QED
      BY <1>2, <1>3, <2>3, <2>5, <2>6, <2>10, InboxSent
  <1>5. CASE Refused(p)
    <2>1. UNCHANGED <<links, binding>>
      BY <1>5 DEF Refused, providerVars
    <2>2. Request' = Request /\ Version' = Version /\ Job' = Job /\ GrantOrNone' = GrantOrNone
      BY <2>1, TypesSame
    <2>3. None \in GrantOrNone'
      BY DEF GrantOrNone
    <2>4. /\ inbox' \in Seq(Request')
          /\ Len(inbox') = Len(inbox) + 1
          /\ \A i \in 1 .. Len(inbox) : inbox'[i] = inbox[i]
          /\ inbox'[Len(inbox) + 1] =
                [pid |-> p, kind |-> "mark", key |-> job[p].key,
                 version |-> job[p].version, token |-> None]
      BY <1>1, <1>5, <2>2, <2>3, SendTypes DEF Refused
    <2>5. DOMAIN inbox' = 1 .. Len(inbox')
      BY <2>4
    <2>6. PICK r \in Job : job[p] = r
      BY <1>1
    <2>7. job' = [job EXCEPT ![p] = [r EXCEPT !.at = "mark"]]
      BY <1>5, <2>6 DEF Refused, TypeOK
    <2>8. /\ [r EXCEPT !.at = "mark"] \in Job /\ [r EXCEPT !.at = "mark"].at = "mark"
          /\ [r EXCEPT !.at = "mark"].version = r.version
          /\ [r EXCEPT !.at = "mark"].key = r.key
      BY DEF Job
    <2>9. /\ job'[p] \in Job' /\ job'[p].at = "mark" /\ job'[p].version = job[p].version
          /\ job'[p].key = job[p].key
          /\ \A q \in Pids : q # p => job'[q] = job[q]
      BY <2>2, <2>6, <2>7, <2>8 DEF TypeOK
    <2> QED
      BY <1>2, <1>3, <2>2, <2>4, <2>5, <2>9, InboxSent
  <1> QED
    BY <1>4, <1>5

\* A mailbox of requests that nobody alive waits for.
LEMMA InboxOfNobody ==
    ASSUME TypeOK, NEW profilesToo \in BOOLEAN, Crash(profilesToo)
    PROVE  InboxOwned'
  <1>1. CASE profilesToo
    BY <1>1 DEF Crash, InboxOwned
  <1>2. CASE ~profilesToo
    <2>1. inbox' = Orphaned(Pids)
      BY <1>2 DEF Crash
    <2>2. \A i \in DOMAIN inbox' : inbox'[i].pid = None
      <3>1. ASSUME NEW i \in DOMAIN inbox' PROVE inbox'[i].pid = None
        <4>1. /\ i \in DOMAIN inbox
              /\ inbox'[i].pid = IF inbox[i].pid \in Pids THEN None ELSE inbox[i].pid
          BY <2>1, OrphanedRequests
        <4>2. inbox[i] \in Request
          BY <4>1 DEF TypeOK
        <4> QED
          BY <4>1, <4>2 DEF Request
      <3> QED
        BY <3>1
    <2> QED
      BY <2>2 DEF InboxOwned
  <1> QED
    BY <1>1, <1>2

\* Every step keeps requests and their waiting workers together.
LEMMA InboxOwnedKept ==
    ASSUME TypeOK, InboxOwned, [Next]_vars
    PROVE  InboxOwned'
  <1>1. Job \subseteq Job'
    BY StepGrows
  <1>2. ASSUME UNCHANGED <<inbox, job>> PROVE InboxOwned'
    BY <1>1, <1>2, InboxSame
  <1>3. CASE UNCHANGED vars
    BY <1>2, <1>3 DEF vars, profileVars
  <1>4. ASSUME NEW c \in Callers, Get(c) PROVE InboxOwned'
    <2>1. inbox' = inbox /\ \A p \in Pids : job'[p] = job[p] \/ job[p] = None
      <3>1. CASE job' = job
        BY <1>4, <3>1 DEF Get, GetCached, Coalesce, GetRefused, GetStored, StartWorker,
                          Spawn, profileVars
      <3>2. CASE job' # job
        <4>1. Spawn(c, call[c].key)
          BY <1>4, <3>2 DEF Get, GetCached, Coalesce, GetRefused, GetStored, StartWorker
        <4> QED
          BY <4>1 DEF Spawn, FreePids, profileVars, TypeOK
      <3> QED
        BY <3>1, <3>2
    <2> QED
      BY <1>1, <2>1, InboxSame
  <1>5. ASSUME NEW c \in Callers, Finish(c) \/ \E k \in Keys : Ask(c, k) PROVE InboxOwned'
    BY <1>2, <1>5 DEF Finish, Ask, profileVars
  <1>6. ASSUME NEW p \in Pids, Work(p) PROVE InboxOwned'
    <2>1. CASE Unanswered(p)
      <3>1. inbox' = inbox /\ \A q \in Pids : q # p => job'[q] = job[q]
        BY <2>1 DEF Unanswered, profileVars, TypeOK
      <3>2. job[p].at \notin {"save", "mark"}
        BY <2>1 DEF Unanswered, Asking
      <3> QED
        BY <1>1, <3>1, <3>2, InboxSame
    <2> QED
      BY <1>6, <2>1, InboxWork DEF Work
  <1>7. ASSUME NEW p \in Pids, Report(p) PROVE InboxOwned'
    <2>1. CASE WorkerDone(p)
      <3>1. inbox' = inbox /\ \A q \in Pids : q # p => job'[q] = job[q]
        BY <2>1 DEF WorkerDone, profileVars, TypeOK
      <3>2. job[p].at \notin {"save", "mark"}
        BY <2>1 DEF WorkerDone
      <3> QED
        BY <1>1, <3>1, <3>2, InboxSame
    <2> QED
      BY <1>2, <1>7, <2>1 DEF Report, Down, profileVars
  <1>8. ASSUME NEW p \in Pids, WorkerDies(p) PROVE InboxOwned'
    <2>1. Kill({p}) /\ UNCHANGED <<links, binding>>
      BY <1>8 DEF WorkerDies
    <2> QED
      BY <2>1, TypesSame, InboxKilled
  <1>9. ASSUME NEW k \in Keys, Invalidate(k) PROVE InboxOwned'
    <2>1. Kill(WorkersOf(k)) /\ UNCHANGED <<links, binding>>
      BY <1>9 DEF Invalidate
    <2>2. WorkersOf(k) \in SUBSET Pids
      BY DEF WorkersOf
    <2> QED
      BY <2>1, <2>2, TypesSame, InboxKilled
  <1>10. ASSUME NEW k \in Keys, Link(k) \/ Unlink(k) \/ Revoke(k) PROVE InboxOwned'
    BY <1>2, <1>10 DEF Link, Unlink, Revoke, profileVars
  <1>11. CASE Serve
    <2>1. CASE SaveFails
      <3>1. CASE Head(inbox).pid = None
        <4>1. inbox # <<>> /\ inbox' = Tail(inbox) /\ job' = job
          BY <2>1, <3>1 DEF SaveFails, Serving
        <4>2. UNCHANGED <<links, binding>>
          BY <2>1 DEF SaveFails, providerVars
        <4> QED
          BY <4>1, <4>2, TypesSame, InboxServed
      <3> QED
        BY <2>1, <3>1, InboxAgain
    <2>2. CASE SaveTokens \/ SaveStale \/ Mark
      <3>1. /\ inbox # <<>> /\ inbox' = Tail(inbox) /\ UNCHANGED <<links, binding>>
            /\ \E t : Answer(Head(inbox), Done(Head(inbox), t))
        BY <2>2 DEF SaveTokens, SaveStale, Mark, Serving, providerVars
      <3>2. \A p \in Pids : p # Head(inbox).pid => job'[p] = job[p]
        BY <3>1 DEF Answer, TypeOK
      <3> QED
        BY <3>1, <3>2, TypesSame, InboxServed
    <2> QED
      BY <1>11, <2>1, <2>2 DEF Serve
  <1>12. CASE Delete
    BY <1>2, <1>12 DEF Delete
  <1>13. ASSUME NEW t \in Grants, Expire(t) PROVE InboxOwned'
    BY <1>2, <1>13 DEF Expire, profileVars
  <1> QED
    BY <1>3, <1>4, <1>5, <1>6, <1>7, <1>8, <1>9, <1>10, <1>11, <1>12, <1>13, InboxOfNobody
    DEF Next

-----------------------------------------------------------------------------
(* The callers.                                                              *)

\* The callers of one key are answered, and nobody else is.
LEMMA AnsweredAsked ==
    ASSUME TypeOK, WaitingAsked, NEW k \in Keys, NEW t \in GrantOrNone,
           Reply(Waiting(k), t), in_flight' = [in_flight EXCEPT ![k] = None]
    PROVE  WaitingAsked'
  <1>1. ASSUME NEW l \in Keys, NEW c \in Waiting(l)'
        PROVE  call'[c].at = "waiting" /\ call'[c].key = l
    <2>1. l # k /\ c \in Waiting(l)
      BY <1>1 DEF Waiting, TypeOK
    <2>2. call[c].at = "waiting" /\ call[c].key = l /\ c \in Callers
      BY <2>1, WaitingCallers DEF WaitingAsked
    <2>3. c \notin Waiting(k)
      BY <2>1, <2>2 DEF WaitingAsked
    <2> QED
      BY <2>2, <2>3 DEF Reply
  <1> QED
    BY <1>1 DEF WaitingAsked

\* Every step keeps the callers of a refresh registered under what they asked for.
LEMMA WaitingAskedKept ==
    ASSUME TypeOK, WaitingAsked, [Next]_vars
    PROVE  WaitingAsked'
  <1>1. ASSUME UNCHANGED <<in_flight, call>> PROVE WaitingAsked'
    BY <1>1 DEF WaitingAsked, Waiting
  <1>2. ASSUME in_flight' = in_flight, NEW d \in Callers, call[d].at # "waiting",
               \A c \in Callers : c # d => call'[c] = call[c]
        PROVE  WaitingAsked'
    <2>1. ASSUME NEW k \in Keys, NEW c \in Waiting(k)
          PROVE  call'[c].at = "waiting" /\ call'[c].key = k
      BY <1>2, WaitingCallers DEF WaitingAsked
    <2> QED
      BY <1>2, <2>1 DEF WaitingAsked, Waiting
  <1>3. CASE UNCHANGED vars
    BY <1>1, <1>3 DEF vars, coordinatorVars
  <1>4. ASSUME NEW c \in Callers, Get(c) PROVE WaitingAsked'
    <2> DEFINE k == call[c].key
    <2>1. call[c].at = "asked" /\ call[c] \in Call
      BY <1>4, AskedIsCall DEF Get, Asked
    <2>2. k \in Keys
      BY <2>1 DEF Call
    <2>3. ASSUME NEW t, Reply({c}, t), in_flight' = in_flight PROVE WaitingAsked'
      <3>1. \A d \in Callers : d # c => call'[d] = call[d]
        BY <2>3 DEF Reply
      <3> QED
        BY <1>2, <2>1, <2>3, <3>1
    <2>4. ASSUME call' = [call EXCEPT ![c].at = "waiting"],
                 \/ in_flight' = [in_flight EXCEPT ![k] = {c}]
                 \/ in_flight' = [in_flight EXCEPT ![k] = @ \cup {c}] /\ in_flight[k] # None
          PROVE  WaitingAsked'
      <3>1. PICK r \in Call : call[c] = r
        BY <2>1
      <3>2. call' = [call EXCEPT ![c] = [r EXCEPT !.at = "waiting"]]
        BY <2>4, <3>1 DEF TypeOK
      <3>3. call'[c].at = "waiting" /\ call'[c].key = k
        BY <3>1, <3>2 DEF TypeOK, Call
      <3>4. ASSUME NEW l \in Keys, NEW d \in Waiting(l)'
            PROVE  call'[d].at = "waiting" /\ call'[d].key = l
        <4>1. (d = c /\ l = k) \/ d \in Waiting(l)
          BY <2>2, <2>4, <3>4 DEF Waiting, TypeOK
        <4>2. CASE d \in Waiting(l)
          <5>1. d \in Callers /\ d # c
            BY <2>1, <4>2, WaitingCallers DEF WaitingAsked
          <5>2. call'[d] = call[d]
            BY <3>2, <5>1 DEF TypeOK
          <5> QED
            BY <4>2, <5>2 DEF WaitingAsked
        <4> QED
          BY <3>3, <4>1, <4>2
      <3> QED
        BY <3>4 DEF WaitingAsked
    <2> QED
      BY <1>4, <2>3, <2>4
      DEF Get, GetCached, Coalesce, GetRefused, GetStored, StartWorker, Spawn, coordinatorVars
  <1>5. ASSUME NEW c \in Callers, Finish(c) \/ \E k \in Keys : Ask(c, k) PROVE WaitingAsked'
    <2>1. call[c].at # "waiting" /\ in_flight' = in_flight
      BY <1>5 DEF Finish, Ask, coordinatorVars
    <2>2. \A d \in Callers : d # c => call'[d] = call[d]
      BY <1>5 DEF Finish, Ask, TypeOK
    <2> QED
      BY <1>2, <2>1, <2>2
  <1>6. ASSUME NEW p \in Pids, WorkerDone(p) PROVE WaitingAsked'
    <2> DEFINE k == tasks[p]
               t == IF job[p].version = Active(k) THEN job[p].token ELSE None
    <2>1. k \in Keys /\ job[p] \in Job
      BY <1>6 DEF WorkerDone, TypeOK
    <2>2. t \in GrantOrNone
      BY <2>1 DEF Job, GrantOrNone
    <2>3. Reply(Waiting(k), t) /\ in_flight' = [in_flight EXCEPT ![k] = None]
      BY <1>6 DEF WorkerDone
    <2> QED
      BY <2>1, <2>2, <2>3, AnsweredAsked
  <1>7. ASSUME NEW p \in Pids, Down(p) PROVE WaitingAsked'
    BY <1>7, AnsweredAsked DEF Down, TypeOK, GrantOrNone
  <1>8. ASSUME NEW k \in Keys, Invalidate(k) PROVE WaitingAsked'
    BY <1>8, AnsweredAsked DEF Invalidate, GrantOrNone
  <1>9. ASSUME NEW p \in Pids, Work(p) \/ WorkerDies(p) PROVE WaitingAsked'
    BY <1>1, <1>9 DEF Work, Granted, Refused, Unanswered, WorkerDies, coordinatorVars
  <1>10. ASSUME NEW k \in Keys, Link(k) \/ Unlink(k) \/ Revoke(k) PROVE WaitingAsked'
    BY <1>1, <1>10 DEF Link, Unlink, Revoke, coordinatorVars
  <1>11. CASE Serve \/ Delete
    BY <1>1, <1>11
    DEF Serve, SaveTokens, SaveStale, SaveFails, Mark, Delete, coordinatorVars
  <1>12. ASSUME NEW t \in Grants, Expire(t) PROVE WaitingAsked'
    BY <1>1, <1>12 DEF Expire, coordinatorVars
  <1>13. ASSUME NEW profilesToo \in BOOLEAN, Crash(profilesToo) PROVE WaitingAsked'
    BY <1>13 DEF Crash, WaitingAsked, Waiting
  <1> QED
    BY <1>3, <1>4, <1>5, <1>6, <1>7, <1>8, <1>9, <1>10, <1>11, <1>12, <1>13
    DEF Next, Report

-----------------------------------------------------------------------------
(* Tokens and their bindings.                                                *)

\* What is held of a job or an entry that is not None.
LEMMA Shapes ==
    ASSUME TypeOK
    PROVE  /\ \A k \in Keys : account[k] # None =>
                 account[k] \in Account /\ account[k].token \in Grants
                 /\ account[k].version \in Version
           /\ \A k \in Keys : cache[k] # None =>
                 cache[k].token \in Grants /\ cache[k].version \in Version
           /\ \A p \in Pids : job[p] # None =>
                 /\ job[p] \in Job /\ job[p].version \in Version /\ job[p].key \in Keys
                 /\ job[p].token # None => job[p].token \in Grants
  <1>1. \A k \in Keys : account[k] # None => account[k] \in Account
    BY DEF TypeOK
  <1>2. \A k \in Keys : cache[k] # None => cache[k] \in CacheEntry
    BY DEF TypeOK
  <1>3. \A p \in Pids : job[p] # None => job[p] \in Job
    BY DEF TypeOK
  <1> QED
    BY <1>1, <1>2, <1>3 DEF Account, CacheEntry, Job, GrantOrNone

\* What worker p is given when it is answered with t.
LEMMA AnswerToken ==
    ASSUME TypeOK, InboxOwned, inbox # <<>>, NEW t \in GrantOrNone,
           Answer(Head(inbox), Done(Head(inbox), t)), HeldOfBindings,
           t # None => t \in Grants /\ binding[t] = Head(inbox).version,
           UNCHANGED binding
    PROVE  HeldOfBindings'
  <1>1. /\ \A p \in Pids : p # Head(inbox).pid => job'[p] = job[p]
        /\ \A p \in Pids : p = Head(inbox).pid =>
              job'[p].token = t /\ job'[p].version = job[p].version
    BY AnswerTypes
  <1>2. Head(inbox) = inbox[1] /\ 1 \in DOMAIN inbox
    BY Served
  <1>3. ASSUME NEW p \in Pids, job'[p] # None, job'[p].token # None
        PROVE  binding'[job'[p].token] = job'[p].version
    <2>1. CASE p # Head(inbox).pid
      BY <1>1, <1>3, <2>1 DEF HeldOfBindings
    <2>2. CASE p = Head(inbox).pid
      <3>1. p # None
        BY TokensAssumption
      <3>2. job[p].version = Head(inbox).version
        BY <1>2, <2>2, <3>1 DEF InboxOwned
      <3> QED
        BY <1>1, <1>3, <2>2, <3>2
    <2> QED
      BY <2>1, <2>2
  <1> QED
    BY <1>3 DEF HeldOfBindings

\* Every step stores only tokens of the binding that is linked.
LEMMA StoredKept ==
    ASSUME TypeOK, TokensOfBindings, [Next]_vars
    PROVE  StoredOfItsBinding'
  <1>1. Grants \subseteq Grants' /\ \A t \in Grants : binding'[t] = binding[t]
    BY StepGrows
  <1>2. \A k \in Keys : account[k] # None =>
           binding'[account[k].token] = account[k].version
    BY <1>1, Shapes DEF TokensOfBindings, StoredOfItsBinding
  <1>3. ASSUME account' = account PROVE StoredOfItsBinding'
    BY <1>2, <1>3 DEF StoredOfItsBinding
  <1>4. ASSUME NEW k \in Keys, Link(k) PROVE StoredOfItsBinding'
    <2>1. binding'[NextGrant] = links' /\ links' = links + 1
      BY <1>4, LinkGrows
    <2>2. PICK refresh \in {NextGrant, None} :
             account' = [account EXCEPT ![k] =
                            [version |-> links + 1, token |-> NextGrant,
                             refresh |-> refresh, status |-> "active"]]
      BY <1>4 DEF Link
    <2>3. /\ account'[k].token = NextGrant /\ account'[k].version = links + 1
          /\ \A l \in Keys : l # k => account'[l] = account[l]
      BY <2>2 DEF TypeOK
    <2> QED
      BY <1>2, <2>1, <2>3 DEF StoredOfItsBinding
  <1>5. ASSUME NEW k \in Keys, Unlink(k) PROVE StoredOfItsBinding'
    BY <1>2, <1>5 DEF Unlink, StoredOfItsBinding, TypeOK
  <1>6. CASE Delete
    BY <1>6 DEF Delete, StoredOfItsBinding
  <1>7. CASE SaveTokens
    <2> DEFINE r == Head(inbox)
    <2>1. /\ inbox # <<>> /\ r.kind = "save" /\ Current(r) /\ binding' = binding
          /\ account' = [account EXCEPT ![r.key] = Saved(r)]
      BY <1>7 DEF SaveTokens, Serving, providerVars
    <2>2. r = inbox[1] /\ 1 \in DOMAIN inbox /\ r \in Request
      BY <2>1, Served
    <2>3. r.token \in Grants /\ binding[r.token] = r.version
      BY <2>1, <2>2 DEF TokensOfBindings, SentOfBindings
    <2>4. r.key \in Keys /\ account[r.key] \in Account /\ account[r.key].version = r.version
      BY <2>1, <2>2, Shapes DEF Current, Request
    <2>5. PICK a \in Account : account[r.key] = a
      BY <2>4
    <2>6. Saved(r) = [a EXCEPT !.token = r.token, !.status = "active",
                               !.refresh = IF r.key \in Rotating THEN r.token ELSE a.refresh]
      BY <2>5 DEF Saved
    <2>7. Saved(r).token = r.token /\ Saved(r).version = a.version
      BY <2>6 DEF Account
    <2>8. /\ account'[r.key] = Saved(r)
          /\ \A k \in Keys : k # r.key => account'[k] = account[k]
      BY <2>1, <2>4 DEF TypeOK
    <2> QED
      BY <1>2, <2>1, <2>3, <2>4, <2>5, <2>7, <2>8 DEF StoredOfItsBinding
  <1>8. CASE Mark
    <2> DEFINE r == Head(inbox)
    <2>1. CASE Current(r)
      <3>1. inbox # <<>>
        BY <1>8 DEF Mark, Serving
      <3>2. r \in Request
        BY <3>1, Served
      <3>3. r.key \in Keys /\ account[r.key] \in Account
        BY <2>1, <3>2, Shapes DEF Current, Request
      <3>4. PICK a \in Account : account[r.key] = a
        BY <3>3
      <3>5. account' = [account EXCEPT ![r.key] = [a EXCEPT !.status = "reauth_required"]]
        BY <1>8, <2>1, <3>4 DEF Mark
      <3>6. /\ [a EXCEPT !.status = "reauth_required"].token = a.token
            /\ [a EXCEPT !.status = "reauth_required"].version = a.version
        BY DEF Account
      <3>7. a # None
        BY <2>1, <3>4 DEF Current
      <3> QED
        BY <1>2, <3>3, <3>4, <3>5, <3>6, <3>7 DEF StoredOfItsBinding, TypeOK
    <2>2. CASE ~Current(r)
      BY <1>3, <1>8, <2>2 DEF Mark
    <2> QED
      BY <2>1, <2>2
  <1>9. CASE UNCHANGED vars
    BY <1>3, <1>9 DEF vars, profileVars
  <1>10. ASSUME NEW c \in Callers, Get(c) \/ Finish(c) \/ \E k \in Keys : Ask(c, k)
         PROVE  StoredOfItsBinding'
    BY <1>3, <1>10 DEF Get, GetCached, Coalesce, GetRefused, GetStored, StartWorker, Spawn,
                       Finish, Ask, profileVars
  <1>11. ASSUME NEW p \in Pids, Work(p) \/ Report(p) \/ WorkerDies(p)
         PROVE  StoredOfItsBinding'
    BY <1>3, <1>11 DEF Work, Granted, Refused, Unanswered, Report, WorkerDone, Down,
                       WorkerDies, profileVars
  <1>12. ASSUME NEW k \in Keys, Invalidate(k) \/ Revoke(k) PROVE StoredOfItsBinding'
    BY <1>3, <1>12 DEF Invalidate, Revoke, profileVars
  <1>13. CASE SaveStale \/ SaveFails
    BY <1>3, <1>13 DEF SaveStale, SaveFails
  <1>14. ASSUME NEW t \in Grants, Expire(t) PROVE StoredOfItsBinding'
    BY <1>3, <1>14 DEF Expire, profileVars
  <1>15. ASSUME NEW profilesToo \in BOOLEAN, Crash(profilesToo) PROVE StoredOfItsBinding'
    BY <1>3, <1>15 DEF Crash
  <1> QED
    BY <1>4, <1>5, <1>6, <1>7, <1>8, <1>9, <1>10, <1>11, <1>12, <1>13, <1>14, <1>15
    DEF Next, Serve

\* Every step caches tokens with their own binding.
LEMMA CachedKept ==
    ASSUME TypeOK, TokensOfBindings, [Next]_vars
    PROVE  CachedOfBindings'
  <1>1. Grants \subseteq Grants' /\ \A t \in Grants : binding'[t] = binding[t]
    BY StepGrows
  <1>2. \A k \in Keys : cache[k] # None => binding'[cache[k].token] = cache[k].version
    BY <1>1, Shapes DEF TokensOfBindings, CachedOfBindings
  <1>3. ASSUME cache' = cache PROVE CachedOfBindings'
    BY <1>2, <1>3 DEF CachedOfBindings
  <1>4. ASSUME NEW k \in Keys, cache' = [cache EXCEPT ![k] = None] PROVE CachedOfBindings'
    BY <1>2, <1>4 DEF CachedOfBindings, TypeOK
  <1>5. ASSUME NEW k \in Keys, NEW t \in Grants, NEW v, binding[t] = v,
               cache' = [cache EXCEPT ![k] = [token |-> t, version |-> v]]
        PROVE  CachedOfBindings'
    <2>1. /\ cache'[k].token = t /\ cache'[k].version = v
          /\ \A l \in Keys : l # k => cache'[l] = cache[l]
      BY <1>5 DEF TypeOK
    <2> QED
      BY <1>1, <1>2, <1>5, <2>1 DEF CachedOfBindings
  <1>6. ASSUME NEW c \in Callers, Get(c) PROVE CachedOfBindings'
    <2> DEFINE k == call[c].key
    <2>1. k \in Keys
      BY <1>6, AskedIsCall DEF Get, Asked
    <2>2. ASSUME NEW force \in Forces, GetStored(c, k, force) PROVE CachedOfBindings'
      <3>1. account[k] # None
        BY <2>2 DEF GetStored, NotLinked
      <3>2. account[k].token \in Grants /\ binding[account[k].token] = account[k].version
        BY <2>1, <3>1, Shapes DEF TokensOfBindings, StoredOfItsBinding
      <3> QED
        BY <1>5, <2>1, <2>2, <3>2 DEF GetStored
    <2> QED
      BY <1>3, <1>6, <2>2 DEF Get, GetCached, Coalesce, GetRefused, StartWorker, Spawn,
                              coordinatorVars
  <1>7. ASSUME NEW p \in Pids, WorkerDone(p) PROVE CachedOfBindings'
    <2> DEFINE k == tasks[p]
               t == IF job[p].version = Active(k) THEN job[p].token ELSE None
    <2>1. /\ k \in Keys /\ job[p] # None
          /\ cache' = [cache EXCEPT ![k] = IF t = None THEN None
                                           ELSE [token |-> t, version |-> job[p].version]]
      BY <1>7 DEF WorkerDone, TypeOK
    <2>2. CASE t = None
      BY <1>4, <2>1, <2>2
    <2>3. CASE t # None
      <3>1. t = job[p].token
        BY <2>3
      <3>2. t \in Grants /\ binding[t] = job[p].version
        BY <2>1, <2>3, <3>1, Shapes DEF TokensOfBindings, HeldOfBindings
      <3> QED
        BY <1>5, <2>1, <2>3, <3>2
    <2> QED
      BY <2>2, <2>3
  <1>8. ASSUME NEW p \in Pids, Down(p) PROVE CachedOfBindings'
    BY <1>4, <1>8 DEF Down, TypeOK
  <1>9. ASSUME NEW k \in Keys, Invalidate(k) PROVE CachedOfBindings'
    BY <1>4, <1>9 DEF Invalidate
  <1>10. ASSUME NEW profilesToo \in BOOLEAN, Crash(profilesToo) PROVE CachedOfBindings'
    BY <1>10 DEF Crash, CachedOfBindings
  <1>11. CASE UNCHANGED vars
    BY <1>3, <1>11 DEF vars, coordinatorVars
  <1>12. ASSUME NEW c \in Callers, Finish(c) \/ \E k \in Keys : Ask(c, k)
         PROVE  CachedOfBindings'
    BY <1>3, <1>12 DEF Finish, Ask, coordinatorVars
  <1>13. ASSUME NEW p \in Pids, Work(p) \/ WorkerDies(p) PROVE CachedOfBindings'
    BY <1>3, <1>13 DEF Work, Granted, Refused, Unanswered, WorkerDies, coordinatorVars
  <1>14. ASSUME NEW k \in Keys, Link(k) \/ Unlink(k) \/ Revoke(k) PROVE CachedOfBindings'
    BY <1>3, <1>14 DEF Link, Unlink, Revoke, coordinatorVars
  <1>15. CASE Serve \/ Delete
    BY <1>3, <1>15
    DEF Serve, SaveTokens, SaveStale, SaveFails, Mark, Delete, coordinatorVars
  <1>16. ASSUME NEW t \in Grants, Expire(t) PROVE CachedOfBindings'
    BY <1>3, <1>16 DEF Expire, coordinatorVars
  <1> QED
    BY <1>6, <1>7, <1>8, <1>9, <1>10, <1>11, <1>12, <1>13, <1>14, <1>15, <1>16
    DEF Next, Report

\* Every step leaves workers with tokens of the binding they were started with.
LEMMA HeldKept ==
    ASSUME TypeOK, InboxOwned, TokensOfBindings, [Next]_vars
    PROVE  HeldOfBindings'
  <1>1. Grants \subseteq Grants' /\ \A t \in Grants : binding'[t] = binding[t]
    BY StepGrows
  <1>2. \A p \in Pids : job[p] # None /\ job[p].token # None =>
           binding'[job[p].token] = job[p].version
    BY <1>1, Shapes DEF TokensOfBindings, HeldOfBindings
  <1>3. ASSUME \A p \in Pids :
                  job'[p] # job[p] /\ job'[p] # None /\ job'[p].token # None =>
                     /\ job[p] # None /\ job'[p].token = job[p].token
                     /\ job'[p].version = job[p].version
        PROVE  HeldOfBindings'
    BY <1>2, <1>3 DEF HeldOfBindings
  <1>4. ASSUME NEW c \in Callers, Get(c) PROVE HeldOfBindings'
    <2>1. CASE job' = job
      BY <1>3, <2>1
    <2>2. CASE job' # job
      <3>1. Spawn(c, call[c].key)
        BY <1>4, <2>2 DEF Get, GetCached, Coalesce, GetRefused, GetStored, StartWorker
      <3>2. \A p \in Pids : job'[p] = job[p] \/ job'[p].token = None
        BY <3>1 DEF Spawn, TypeOK
      <3> QED
        BY <1>3, <3>2
    <2> QED
      BY <2>1, <2>2
  <1>5. ASSUME NEW p \in Pids, Granted(p) PROVE HeldOfBindings'
    <2>1. job[p] \in Job /\ links' = links /\ binding' = Append(binding, job[p].version)
      BY <1>5, AskingIsJob DEF Granted
    <2>2. job[p].version \in Version
      BY <2>1 DEF Job
    <2>3. binding'[NextGrant] = job[p].version
      BY <2>1, <2>2, NewGrant
    <2>4. PICK r \in Job : job[p] = r
      BY <2>1
    <2>5. job' = [job EXCEPT ![p] = [r EXCEPT !.at = "save", !.token = NextGrant]]
      BY <1>5, <2>4 DEF Granted, TypeOK
    <2>6. /\ [r EXCEPT !.at = "save", !.token = NextGrant].token = NextGrant
          /\ [r EXCEPT !.at = "save", !.token = NextGrant].version = r.version
      BY DEF Job
    <2>7. /\ job'[p].token = NextGrant /\ job'[p].version = job[p].version
          /\ \A q \in Pids : q # p => job'[q] = job[q]
      BY <2>4, <2>5, <2>6 DEF TypeOK
    <2> QED
      BY <1>2, <2>3, <2>7 DEF HeldOfBindings
  <1>6. ASSUME NEW p \in Pids, NEW at, Asking(p), job' = [job EXCEPT ![p].at = at]
        PROVE  HeldOfBindings'
    <2>1. PICK r \in Job : job[p] = r
      BY <1>6, AskingIsJob
    <2>2. job[p] # None /\ job' = [job EXCEPT ![p] = [r EXCEPT !.at = at]]
      BY <1>6, <2>1 DEF Asking, TypeOK
    <2>3. [r EXCEPT !.at = at].token = r.token /\ [r EXCEPT !.at = at].version = r.version
      BY DEF Job
    <2>4. /\ job'[p].token = job[p].token /\ job'[p].version = job[p].version
          /\ \A q \in Pids : q # p => job'[q] = job[q]
      BY <2>1, <2>2, <2>3 DEF TypeOK
    <2> QED
      BY <1>3, <2>2, <2>4
  <1>7. ASSUME NEW p \in Pids, Refused(p) \/ Unanswered(p) PROVE HeldOfBindings'
    BY <1>6, <1>7 DEF Refused, Unanswered
  <1>8. CASE SaveTokens
    <2> DEFINE r == Head(inbox)
    <2>1. /\ inbox # <<>> /\ r.kind = "save" /\ binding' = binding
          /\ Answer(r, Done(r, r.token))
      BY <1>8 DEF SaveTokens, Serving, providerVars
    <2>2. r = inbox[1] /\ 1 \in DOMAIN inbox
      BY <2>1, Served
    <2>3. r.token \in Grants /\ binding[r.token] = r.version
      BY <2>1, <2>2 DEF TokensOfBindings, SentOfBindings
    <2> QED
      BY <2>1, <2>3, AnswerToken DEF TokensOfBindings, GrantOrNone
  <1>9. CASE SaveStale \/ Mark
    <2>1. /\ inbox # <<>> /\ binding' = binding
          /\ Answer(Head(inbox), Done(Head(inbox), None))
      BY <1>9 DEF SaveStale, Mark, Serving, providerVars
    <2> QED
      BY <2>1, AnswerToken DEF TokensOfBindings, GrantOrNone
  <1>10. CASE SaveFails
    <2> DEFINE r == Head(inbox)
    <2>1. CASE r.pid = None
      BY <1>3, <1>10, <2>1 DEF SaveFails
    <2>2. CASE r.pid # None
      <3>1. inbox # <<>>
        BY <1>10 DEF SaveFails, Serving
      <3>2. r = inbox[1] /\ 1 \in DOMAIN inbox
        BY <3>1, Served
      <3>3. PICK j \in Job : job[r.pid] = j
        BY <2>2, <3>2 DEF InboxOwned
      <3>4. job' = [job EXCEPT ![r.pid] = [j EXCEPT !.at = "mark", !.token = None]]
        BY <1>10, <2>2, <3>3 DEF SaveFails, TypeOK
      <3>5. [j EXCEPT !.at = "mark", !.token = None].token = None
        BY DEF Job
      <3>6. \A p \in Pids : job'[p] = job[p] \/ job'[p].token = None
        BY <3>4, <3>5 DEF TypeOK
      <3> QED
        BY <1>3, <3>6
    <2> QED
      BY <2>1, <2>2
  <1>11. ASSUME NEW P, Kill(P) PROVE HeldOfBindings'
    BY <1>3, <1>11 DEF Kill
  <1>12. ASSUME NEW p \in Pids, Report(p) \/ WorkerDies(p) PROVE HeldOfBindings'
    <2>1. CASE WorkerDone(p)
      BY <1>3, <2>1 DEF WorkerDone, TypeOK
    <2>2. CASE Down(p)
      BY <1>3, <2>2 DEF Down
    <2> QED
      BY <1>11, <1>12, <2>1, <2>2 DEF Report, WorkerDies
  <1>13. ASSUME NEW k \in Keys, Invalidate(k) PROVE HeldOfBindings'
    BY <1>11, <1>13 DEF Invalidate
  <1>14. ASSUME NEW k \in Keys, Link(k) \/ Unlink(k) \/ Revoke(k) PROVE HeldOfBindings'
    BY <1>3, <1>14 DEF Link, Unlink, Revoke
  <1>15. CASE Delete
    BY <1>3, <1>15 DEF Delete
  <1>16. ASSUME NEW c \in Callers, Finish(c) \/ \E k \in Keys : Ask(c, k)
         PROVE  HeldOfBindings'
    BY <1>3, <1>16 DEF Finish, Ask
  <1>17. ASSUME NEW t \in Grants, Expire(t) PROVE HeldOfBindings'
    BY <1>3, <1>17 DEF Expire
  <1>18. ASSUME NEW profilesToo \in BOOLEAN, Crash(profilesToo) PROVE HeldOfBindings'
    BY <1>3, <1>18 DEF Crash
  <1>19. CASE UNCHANGED vars
    BY <1>3, <1>19 DEF vars
  <1> QED
    BY <1>4, <1>5, <1>7, <1>8, <1>9, <1>10, <1>12, <1>13, <1>14, <1>15, <1>16, <1>17, <1>18,
       <1>19 DEF Next, Work, Serve

\* Every step leaves at Profiles only tokens of the binding they are sent for.
LEMMA SentKept ==
    ASSUME TypeOK, TokensOfBindings, [Next]_vars
    PROVE  SentOfBindings'
  <1> DEFINE Sound(r) == r.kind = "save" =>
                r.token \in Grants' /\ binding'[r.token] = r.version
  <1>1. Grants \subseteq Grants' /\ \A t \in Grants : binding'[t] = binding[t]
    BY StepGrows
  <1>2. \A i \in DOMAIN inbox : Sound(inbox[i])
    BY <1>1 DEF TokensOfBindings, SentOfBindings
  <1>3. ASSUME \A i \in DOMAIN inbox' : Sound(inbox'[i]) PROVE SentOfBindings'
    BY <1>3 DEF SentOfBindings
  <1> HIDE DEF Sound
  <1>4. ASSUME inbox' = inbox PROVE SentOfBindings'
    BY <1>2, <1>3, <1>4
  <1>5. DOMAIN inbox = 1 .. Len(inbox) /\ Len(inbox) \in Nat
    BY DEF TypeOK
  <1>6. ASSUME NEW p \in Pids, Granted(p) \/ Refused(p) PROVE SentOfBindings'
    <2>1. job[p] \in Job /\ job[p].version \in Version
      BY <1>6, AskingIsJob DEF Granted, Refused
    <2>2. ASSUME NEW r, Sound(r), inbox' \in Seq(Request'), Len(inbox') = Len(inbox) + 1,
                 \A i \in 1 .. Len(inbox) : inbox'[i] = inbox[i], inbox'[Len(inbox) + 1] = r
          PROVE  SentOfBindings'
      <3>1. DOMAIN inbox' = 1 .. Len(inbox) + 1
        BY <2>2
      <3> QED
        BY <1>2, <1>3, <1>5, <2>2, <3>1
    <2>3. CASE Granted(p)
      <3>1. links' = links /\ binding' = Append(binding, job[p].version)
        BY <2>3 DEF Granted
      <3>2. /\ Request \subseteq Request' /\ Version' = Version
            /\ NextGrant \in Grants' /\ binding'[NextGrant] = job[p].version
        BY <2>1, <3>1, NewGrant
      <3>3. NextGrant \in GrantOrNone'
        BY <3>2 DEF GrantOrNone
      <3> DEFINE r == [pid |-> p, kind |-> "save", key |-> job[p].key,
                       version |-> job[p].version, token |-> NextGrant]
      <3>4. /\ inbox' \in Seq(Request') /\ Len(inbox') = Len(inbox) + 1
            /\ \A i \in 1 .. Len(inbox) : inbox'[i] = inbox[i]
            /\ inbox'[Len(inbox) + 1] = r
        BY <2>1, <2>3, <3>2, <3>3, SendTypes DEF Granted
      <3>5. Sound(r)
        BY <3>2 DEF Sound
      <3> HIDE DEF r
      <3> QED
        BY <2>2, <3>4, <3>5
    <2>4. CASE Refused(p)
      <3>1. UNCHANGED <<links, binding>>
        BY <2>4 DEF Refused, providerVars
      <3>2. Request' = Request /\ Version' = Version /\ None \in GrantOrNone'
        BY <3>1, TypesSame DEF GrantOrNone
      <3> DEFINE r == [pid |-> p, kind |-> "mark", key |-> job[p].key,
                       version |-> job[p].version, token |-> None]
      <3>3. /\ inbox' \in Seq(Request') /\ Len(inbox') = Len(inbox) + 1
            /\ \A i \in 1 .. Len(inbox) : inbox'[i] = inbox[i]
            /\ inbox'[Len(inbox) + 1] = r
        BY <2>1, <2>4, <3>2, SendTypes DEF Refused
      <3>4. Sound(r)
        BY DEF Sound
      <3> HIDE DEF r
      <3> QED
        BY <2>2, <3>3, <3>4
    <2> QED
      BY <1>6, <2>3, <2>4
  <1>7. ASSUME inbox # <<>>
        PROVE  \A i \in DOMAIN Tail(inbox) : Sound(Tail(inbox)[i])
    BY <1>2, <1>7, Served
  <1>8. ASSUME inbox # <<>>, inbox' = Tail(inbox) PROVE SentOfBindings'
    BY <1>3, <1>7, <1>8
  <1>9. CASE SaveFails
    <2> DEFINE r == Head(inbox)
               s == [r EXCEPT !.kind = "mark", !.token = None]
    <2>1. inbox # <<>>
      BY <1>9 DEF SaveFails, Serving
    <2>2. CASE r.pid = None
      BY <1>8, <1>9, <2>1, <2>2 DEF SaveFails
    <2>3. CASE r.pid # None
      <3>1. inbox' = Append(Tail(inbox), s)
        BY <1>9, <2>3 DEF SaveFails
      <3>2. r \in Request /\ Tail(inbox) \in Seq(Request)
        BY <2>1, Served
      <3>3. s \in Request /\ s.kind = "mark"
        BY <3>2 DEF Request, GrantOrNone
      <3>4. Sound(s)
        BY <3>3 DEF Sound
      <3> HIDE DEF s
      <3>5. \A i \in DOMAIN inbox' :
               \/ inbox'[i] = s
               \/ i \in DOMAIN Tail(inbox) /\ inbox'[i] = Tail(inbox)[i]
        BY <3>1, <3>2, <3>3
      <3> QED
        BY <1>3, <1>7, <2>1, <3>4, <3>5
    <2> QED
      BY <2>2, <2>3
  <1>10. ASSUME NEW P \in SUBSET Pids, inbox' = Orphaned(P) PROVE SentOfBindings'
    <2>1. /\ DOMAIN inbox' = DOMAIN inbox
          /\ \A i \in DOMAIN inbox :
                /\ inbox'[i].kind = inbox[i].kind /\ inbox'[i].version = inbox[i].version
                /\ inbox'[i].token = inbox[i].token
      BY <1>10, OrphanedRequests
    <2> QED
      BY <1>2, <1>3, <2>1 DEF Sound
  <1>11. ASSUME NEW p \in Pids, WorkerDies(p) PROVE SentOfBindings'
    BY <1>10, <1>11 DEF WorkerDies, Kill
  <1>12. ASSUME NEW k \in Keys, Invalidate(k) PROVE SentOfBindings'
    BY <1>10, <1>12 DEF Invalidate, Kill, WorkersOf
  <1>13. ASSUME NEW profilesToo \in BOOLEAN, Crash(profilesToo) PROVE SentOfBindings'
    <2>1. CASE profilesToo
      BY <1>13, <2>1 DEF Crash, SentOfBindings
    <2>2. CASE ~profilesToo
      BY <1>10, <1>13, <2>2 DEF Crash
    <2> QED
      BY <2>1, <2>2
  <1>14. CASE SaveTokens \/ SaveStale \/ Mark
    BY <1>8, <1>14 DEF SaveTokens, SaveStale, Mark, Serving
  <1>15. CASE UNCHANGED vars
    BY <1>4, <1>15 DEF vars, profileVars
  <1>16. ASSUME NEW c \in Callers, Get(c) \/ Finish(c) \/ \E k \in Keys : Ask(c, k)
         PROVE  SentOfBindings'
    BY <1>4, <1>16 DEF Get, GetCached, Coalesce, GetRefused, GetStored, StartWorker, Spawn,
                       Finish, Ask, profileVars
  <1>17. ASSUME NEW p \in Pids, Unanswered(p) \/ Report(p) PROVE SentOfBindings'
    BY <1>4, <1>17 DEF Unanswered, Report, WorkerDone, Down, profileVars
  <1>18. ASSUME NEW k \in Keys, Link(k) \/ Unlink(k) \/ Revoke(k) PROVE SentOfBindings'
    BY <1>4, <1>18 DEF Link, Unlink, Revoke, profileVars
  <1>19. CASE Delete
    BY <1>4, <1>19 DEF Delete
  <1>20. ASSUME NEW t \in Grants, Expire(t) PROVE SentOfBindings'
    BY <1>4, <1>20 DEF Expire, profileVars
  <1> QED
    BY <1>6, <1>9, <1>11, <1>12, <1>13, <1>14, <1>15, <1>16, <1>17, <1>18, <1>19, <1>20
    DEF Next, Work, Serve

-----------------------------------------------------------------------------
(* Tokens that callers were given.                                           *)

\* Callers of k are given a token of the account's binding, or an error.
LEMMA ReplyKept ==
    ASSUME TypeOK, RepliesOfBindings, NEW k \in Keys, NEW C \in SUBSET Callers,
           \A c \in C : call[c].at \in {"asked", "waiting"} /\ call[c].key = k,
           NEW t \in GrantOrNone, Reply(C, t), UNCHANGED <<account, binding>>,
           t # None /\ account[k] # None => binding[t] = account[k].version
    PROVE  RepliesOfBindings'
  <1>1. /\ \A c \in Callers \ C : call'[c] = call[c]
        /\ \A c \in C : \/ call'[c] = IdleCall
                       \/ /\ t # None /\ call'[c].at = "replied" /\ call'[c].got = t
                          /\ call'[c].key = call[c].key
                          /\ call'[c].version = call[c].version
    BY ReplyAnswers
  <1>2. ASSUME NEW c \in Callers, call'[c].at = "replied",
               account[call'[c].key] # None,
               account[call'[c].key].version = call'[c].version
        PROVE  call'[c].got \in Grants /\ binding[call'[c].got] = call'[c].version
    <2>1. CASE c \in C
      <3>1. call'[c] # IdleCall
        BY <1>2 DEF IdleCall
      <3> QED
        BY <1>1, <1>2, <2>1, <3>1 DEF GrantOrNone
    <2>2. CASE c \notin C
      BY <1>1, <1>2, <2>2 DEF RepliesOfBindings
    <2> QED
      BY <2>1, <2>2
  <1> QED
    BY <1>2 DEF RepliesOfBindings, Grants

\* No account is linked to a binding that a caller read before.
LEMMA AccountsKept ==
    ASSUME TypeOK, RepliesOfBindings, UNCHANGED call,
           Grants \subseteq Grants', \A t \in Grants : binding'[t] = binding[t],
           \A k \in Keys : account'[k] # None =>
              \/ account[k] # None /\ account'[k].version = account[k].version
              \/ account'[k].version \notin Version
    PROVE  RepliesOfBindings'
  <1>1. ASSUME NEW c \in Callers, call[c].at = "replied",
               account'[call[c].key] # None, account'[call[c].key].version = call[c].version
        PROVE  call[c].got \in Grants' /\ binding'[call[c].got] = call[c].version
    <2>1. call[c] \in Call
      BY <1>1 DEF TypeOK, IdleCall
    <2>2. call[c].key \in Keys /\ call[c].version \in Version
      BY <2>1 DEF Call
    <2>3. /\ account[call[c].key] # None
          /\ account[call[c].key].version = call[c].version
      BY <1>1, <2>2
    <2>4. call[c].got \in Grants /\ binding[call[c].got] = call[c].version
      BY <1>1, <2>3 DEF RepliesOfBindings
    <2> QED
      BY <2>4
  <1> QED
    BY <1>1 DEF RepliesOfBindings

\* Every step leaves callers with tokens of a binding that is theirs or gone.
LEMMA RepliesKept ==
    ASSUME TypeOK, WaitingAsked, TokensOfBindings, RepliesOfBindings, [Next]_vars
    PROVE  RepliesOfBindings'
  <1>1. Grants \subseteq Grants' /\ \A t \in Grants : binding'[t] = binding[t]
    BY StepGrows
  <1>2. ASSUME UNCHANGED <<account, call>> PROVE RepliesOfBindings'
    BY <1>1, <1>2, AccountsKept
  <1>3. ASSUME NEW c \in Callers, Get(c) PROVE RepliesOfBindings'
    <2> DEFINE k == call[c].key
    <2>1. call[c].at = "asked" /\ k \in Keys
      BY <1>3, AskedIsCall DEF Get
    <2>2. ASSUME NEW t \in GrantOrNone, Reply({c}, t), UNCHANGED <<account, binding>>,
                 t # None /\ account[k] # None => binding[t] = account[k].version
          PROVE  RepliesOfBindings'
      BY <2>1, <2>2, ReplyKept
    <2>3. ASSUME NEW force \in Forces, GetCached(c, k, force) PROVE RepliesOfBindings'
      <3>1. cache[k] # None /\ cache[k].version = Active(k)
        BY <2>3 DEF GetCached, Usable
      <3>2. /\ cache[k].token \in Grants /\ cache[k].version \in Version
            /\ binding[cache[k].token] = cache[k].version
        BY <2>1, <3>1, Shapes DEF TokensOfBindings, CachedOfBindings
      <3>3. cache[k].version # None
        BY <3>2, TokensAssumption DEF Version, TypeOK
      <3>4. account[k].version = cache[k].version
        BY <3>1, <3>3 DEF Active
      <3> QED
        BY <2>2, <2>3, <3>2, <3>4 DEF GetCached, GrantOrNone, profileVars, providerVars
    <2>4. ASSUME NEW force \in Forces, GetStored(c, k, force) PROVE RepliesOfBindings'
      <3>1. account[k] # None
        BY <2>4 DEF GetStored, NotLinked
      <3>2. account[k].token \in Grants /\ binding[account[k].token] = account[k].version
        BY <2>1, <3>1, Shapes DEF TokensOfBindings, StoredOfItsBinding
      <3> QED
        BY <2>2, <2>4, <3>2 DEF GetStored, GrantOrNone, profileVars, providerVars
    <2>5. ASSUME NEW force \in Forces, GetRefused(c, k, force) PROVE RepliesOfBindings'
      BY <2>2, <2>5 DEF GetRefused, GrantOrNone, profileVars, providerVars
    <2>6. ASSUME call' = [call EXCEPT ![c].at = "waiting"], UNCHANGED <<account, binding>>
          PROVE  RepliesOfBindings'
      <3>1. call[c] \in Call
        BY <2>1, AskedIsCall
      <3>2. call'[c].at = "waiting" /\ \A d \in Callers : d # c => call'[d] = call[d]
        BY <2>6, <3>1 DEF TypeOK, Call
      <3> QED
        BY <2>6, <3>2 DEF RepliesOfBindings, Grants
    <2>7. ASSUME NEW force \in Forces, Coalesce(c, k, force) \/ StartWorker(c, k, force)
          PROVE  RepliesOfBindings'
      BY <2>6, <2>7 DEF Coalesce, StartWorker, Spawn, profileVars, providerVars
    <2> QED
      BY <1>3, <2>3, <2>4, <2>5, <2>7 DEF Get
  <1>4. ASSUME NEW c \in Callers, Finish(c) \/ \E k \in Keys : Ask(c, k)
        PROVE  RepliesOfBindings'
    <2>1. /\ call'[c].at # "replied" /\ UNCHANGED <<account, binding>>
          /\ \A d \in Callers : d # c => call'[d] = call[d]
      BY <1>4 DEF Finish, Ask, IdleCall, TypeOK, profileVars, providerVars
    <2> QED
      BY <2>1 DEF RepliesOfBindings, Grants
  <1>5. ASSUME NEW p \in Pids, WorkerDone(p) PROVE RepliesOfBindings'
    <2> DEFINE k == tasks[p]
               t == IF job[p].version = Active(k) THEN job[p].token ELSE None
    <2>1. /\ k \in Keys /\ job[p] # None /\ Reply(Waiting(k), t)
          /\ UNCHANGED <<account, binding>>
      BY <1>5 DEF WorkerDone, TypeOK, profileVars, providerVars
    <2>2. job[p].version \in Version /\ (job[p].token # None => job[p].token \in Grants)
      BY <2>1, Shapes
    <2>3. t \in GrantOrNone
      BY <2>2 DEF GrantOrNone
    <2>4. ASSUME t # None, account[k] # None PROVE binding[t] = account[k].version
      <3>1. t = job[p].token /\ job[p].version = Active(k)
        BY <2>4
      <3>2. job[p].version # None
        BY <2>2, TokensAssumption DEF Version, TypeOK
      <3>3. account[k].version = job[p].version
        BY <3>1, <3>2 DEF Active
      <3>4. job[p].token # None
        BY <2>4, <3>1
      <3> QED
        BY <2>1, <3>1, <3>3, <3>4 DEF TokensOfBindings, HeldOfBindings
    <2>5. /\ Waiting(k) \in SUBSET Callers
          /\ \A c \in Waiting(k) : call[c].at \in {"asked", "waiting"} /\ call[c].key = k
      BY <2>1, WaitingCallers DEF WaitingAsked
    <2> HIDE DEF t
    <2> QED
      BY <2>1, <2>3, <2>4, <2>5, ReplyKept
  <1>6. ASSUME NEW k \in Keys, Reply(Waiting(k), None), UNCHANGED <<account, binding>>
        PROVE  RepliesOfBindings'
    <2>1. /\ Waiting(k) \in SUBSET Callers
          /\ \A c \in Waiting(k) : call[c].at \in {"asked", "waiting"} /\ call[c].key = k
      BY WaitingCallers DEF WaitingAsked
    <2> QED
      BY <1>6, <2>1, ReplyKept DEF GrantOrNone
  <1>7. ASSUME NEW p \in Pids, Down(p) PROVE RepliesOfBindings'
    BY <1>6, <1>7 DEF Down, TypeOK, profileVars, providerVars
  <1>8. ASSUME NEW k \in Keys, Invalidate(k) PROVE RepliesOfBindings'
    BY <1>6, <1>8 DEF Invalidate
  <1>9. ASSUME NEW k \in Keys, Link(k) PROVE RepliesOfBindings'
    <2>1. account'[k].version = links + 1 /\ \A l \in Keys : l # k => account'[l] = account[l]
      BY <1>9 DEF Link, TypeOK
    <2>2. links + 1 \notin Version
      BY DEF TypeOK, Version
    <2> QED
      BY <1>1, <1>9, <2>1, <2>2, AccountsKept DEF Link
  <1>10. ASSUME NEW k \in Keys, Unlink(k) PROVE RepliesOfBindings'
    <2>1. \A l \in Keys : account'[l] # None => account'[l] = account[l]
      BY <1>10 DEF Unlink, TypeOK
    <2> QED
      BY <1>1, <1>10, <2>1, AccountsKept DEF Unlink
  <1>11. CASE Delete
    <2>1. \A l \in Keys : account'[l] = None
      BY <1>11 DEF Delete
    <2> QED
      BY <1>1, <1>11, <2>1, AccountsKept DEF Delete
  <1>12. CASE SaveTokens
    <2> DEFINE r == Head(inbox)
    <2>1. /\ inbox # <<>> /\ Current(r) /\ UNCHANGED call
          /\ account' = [account EXCEPT ![r.key] = Saved(r)]
      BY <1>12 DEF SaveTokens, Serving
    <2>2. r \in Request
      BY <2>1, Served
    <2>3. r.key \in Keys /\ account[r.key] # None /\ account[r.key] \in Account
      BY <2>1, <2>2, Shapes DEF Current, Request
    <2>4. PICK a \in Account : account[r.key] = a
      BY <2>3
    <2>5. Saved(r) = [a EXCEPT !.token = r.token, !.status = "active",
                               !.refresh = IF r.key \in Rotating THEN r.token ELSE a.refresh]
      BY <2>4 DEF Saved
    <2>6. Saved(r).version = a.version
      BY <2>5 DEF Account
    <2>7. /\ account'[r.key] = Saved(r)
          /\ \A k \in Keys : k # r.key => account'[k] = account[k]
      BY <2>1, <2>3 DEF TypeOK
    <2> QED
      BY <1>1, <2>1, <2>3, <2>4, <2>6, <2>7, AccountsKept
  <1>13. CASE Mark
    <2> DEFINE r == Head(inbox)
    <2>1. inbox # <<>> /\ UNCHANGED call
      BY <1>13 DEF Mark, Serving
    <2>2. CASE Current(r)
      <3>1. r \in Request
        BY <2>1, Served
      <3>2. r.key \in Keys /\ account[r.key] # None /\ account[r.key] \in Account
        BY <2>2, <3>1, Shapes DEF Current, Request
      <3>3. PICK a \in Account : account[r.key] = a
        BY <3>2
      <3>4. account' = [account EXCEPT ![r.key] = [a EXCEPT !.status = "reauth_required"]]
        BY <1>13, <2>2, <3>3 DEF Mark
      <3>5. [a EXCEPT !.status = "reauth_required"].version = a.version
        BY DEF Account
      <3>6. \A k \in Keys : account'[k] # None =>
               account[k] # None /\ account'[k].version = account[k].version
        BY <3>2, <3>3, <3>4, <3>5 DEF TypeOK
      <3> QED
        BY <1>1, <2>1, <3>6, AccountsKept
    <2>3. CASE ~Current(r)
      BY <1>2, <1>13, <2>3 DEF Mark
    <2> QED
      BY <2>2, <2>3
  <1>14. CASE SaveStale \/ SaveFails
    BY <1>2, <1>14 DEF SaveStale, SaveFails
  <1>15. ASSUME NEW p \in Pids, Work(p) \/ WorkerDies(p) PROVE RepliesOfBindings'
    BY <1>2, <1>15 DEF Work, Granted, Refused, Unanswered, WorkerDies, profileVars
  <1>16. ASSUME NEW k \in Keys, Revoke(k) PROVE RepliesOfBindings'
    BY <1>2, <1>16 DEF Revoke, profileVars
  <1>17. ASSUME NEW t \in Grants, Expire(t) PROVE RepliesOfBindings'
    BY <1>2, <1>17 DEF Expire, profileVars
  <1>18. ASSUME NEW profilesToo \in BOOLEAN, Crash(profilesToo) PROVE RepliesOfBindings'
    BY <1>18 DEF Crash, RepliesOfBindings, IdleCall
  <1>19. CASE UNCHANGED vars
    BY <1>2, <1>19 DEF vars, profileVars
  <1> QED
    BY <1>3, <1>4, <1>5, <1>7, <1>8, <1>9, <1>10, <1>11, <1>12, <1>13, <1>14, <1>15, <1>16,
       <1>17, <1>18, <1>19 DEF Next, Report, Serve

-----------------------------------------------------------------------------
(* What is cached.                                                           *)

\* A linked account is told from an unlinked one.
LEMMA AccountIsRecord ==
    ASSUME TypeOK
    PROVE  None \notin Account
  <1>1. Version \subseteq Nat /\ Grants \subseteq Nat
    BY DEF TypeOK, Version, Grants
  <1>2. Account \subseteq [version : Nat, token : Nat, refresh : Nat \cup {None},
                         status : {"active", "reauth_required"}]
    BY <1>1 DEF Account, GrantOrNone
  <1> QED
    BY <1>2, TokensAssumption

\* Every step keeps the cache free of replaced bindings, once Profiles is done.
LEMMA CurrentKept ==
    ASSUME TypeOK, TokensOfBindings, CacheIsCurrent, [Next]_vars
    PROVE  CacheIsCurrent'
  <1> DEFINE IsCurrent(k) == cache[k] # None =>
                account[k] # None /\ cache[k].version = account[k].version
  <1>1. \A k \in Keys \ busy : IsCurrent(k)
    BY DEF CacheIsCurrent
  <1>2. ASSUME \A k \in Keys \ busy' : IsCurrent(k)' PROVE CacheIsCurrent'
    BY <1>2 DEF CacheIsCurrent
  <1>3. ASSUME UNCHANGED <<busy, account, cache>> PROVE CacheIsCurrent'
    BY <1>1, <1>2, <1>3
  <1>4. ASSUME UNCHANGED <<busy, account>>, NEW k \in Keys, NEW e,
               cache' = [cache EXCEPT ![k] = e],
               e # None => account[k] # None /\ e.version = account[k].version
        PROVE  CacheIsCurrent'
    <2>1. cache'[k] = e /\ \A l \in Keys : l # k => cache'[l] = cache[l]
      BY <1>4 DEF TypeOK
    <2> QED
      BY <1>1, <1>2, <1>4, <2>1
  <1>5. ASSUME NEW c \in Callers, Get(c) PROVE CacheIsCurrent'
    <2>1. call[c].key \in Keys
      BY <1>5, AskedIsCall DEF Get
    <2>2. ASSUME NEW force \in Forces, GetStored(c, call[c].key, force)
          PROVE  CacheIsCurrent'
      <3> DEFINE e == [token |-> account[call[c].key].token,
                       version |-> account[call[c].key].version]
      <3>1. /\ account[call[c].key] # None /\ UNCHANGED <<busy, account>>
            /\ cache' = [cache EXCEPT ![call[c].key] = e]
        BY <2>2 DEF GetStored, NotLinked, profileVars
      <3>2. e.version = account[call[c].key].version
        OBVIOUS
      <3> HIDE DEF e
      <3> QED
        BY <1>4, <2>1, <3>1, <3>2
    <2> QED
      BY <1>3, <1>5, <2>2 DEF Get, GetCached, Coalesce, GetRefused, StartWorker, Spawn,
                              profileVars, coordinatorVars
  <1>6. ASSUME NEW p \in Pids, WorkerDone(p) PROVE CacheIsCurrent'
    <2> DEFINE k == tasks[p]
               t == IF job[p].version = Active(k) THEN job[p].token ELSE None
               e == IF t = None THEN None ELSE [token |-> t, version |-> job[p].version]
    <2>1. /\ k \in Keys /\ job[p] # None /\ UNCHANGED <<busy, account>>
          /\ cache' = [cache EXCEPT ![k] = e]
      BY <1>6 DEF WorkerDone, TypeOK, profileVars
    <2>2. ASSUME e # None PROVE account[k] # None /\ e.version = account[k].version
      <3>1. job[p].version = Active(k) /\ e.version = job[p].version
        BY <2>2
      <3>2. job[p].version \in Version
        BY <2>1, Shapes
      <3>3. job[p].version # None
        BY <3>2, TokensAssumption DEF Version, TypeOK
      <3> QED
        BY <3>1, <3>3 DEF Active
    <2> HIDE DEF e
    <2> QED
      BY <1>4, <2>1, <2>2
  <1>7. ASSUME NEW p \in Pids, Down(p) PROVE CacheIsCurrent'
    BY <1>4, <1>7 DEF Down, TypeOK, profileVars
  <1>8. ASSUME NEW k \in Keys, Invalidate(k) PROVE CacheIsCurrent'
    <2>1. /\ busy' = busy \ {k} /\ account' = account /\ cache'[k] = None
          /\ \A l \in Keys : l # k => cache'[l] = cache[l]
      BY <1>8 DEF Invalidate, TypeOK
    <2> QED
      BY <1>1, <1>2, <2>1
  <1>9. ASSUME NEW k \in Keys, busy' = {k}, cache' = cache,
               \A l \in Keys : l # k => account'[l] = account[l], busy = {}
        PROVE  CacheIsCurrent'
    BY <1>1, <1>2, <1>9
  <1>10. ASSUME NEW k \in Keys, Link(k) \/ Unlink(k) PROVE CacheIsCurrent'
    BY <1>9, <1>10 DEF Link, Unlink, Free, TypeOK, coordinatorVars
  <1>11. CASE Delete
    BY <1>11 DEF Delete, CacheIsCurrent
  <1>12. ASSUME UNCHANGED <<busy, cache>>,
                NEW k \in Keys, NEW a, account' = [account EXCEPT ![k] = a],
                a # None, a.version = account[k].version
         PROVE  CacheIsCurrent'
    <2>1. account'[k] = a /\ \A l \in Keys : l # k => account'[l] = account[l]
      BY <1>12 DEF TypeOK
    <2> QED
      BY <1>1, <1>2, <1>12, <2>1
  <1>13. CASE SaveTokens \/ Mark
    <2> DEFINE r == Head(inbox)
    <2>1. inbox # <<>> /\ UNCHANGED <<busy, cache>>
      BY <1>13 DEF SaveTokens, Mark, Serving, coordinatorVars
    <2>2. r \in Request
      BY <2>1, Served
    <2>3. CASE ~Current(r)
      BY <1>3, <1>13, <2>1, <2>3 DEF SaveTokens, Mark
    <2>4. CASE Current(r)
      <3>1. r.key \in Keys /\ account[r.key] # None
        BY <2>2, <2>4 DEF Current, Request
      <3>2. PICK a \in Account : account[r.key] = a
        BY <3>1, Shapes
      <3>3. CASE SaveTokens
        <4>1. r.kind = "save" /\ account' = [account EXCEPT ![r.key] = Saved(r)]
          BY <3>3 DEF SaveTokens, Serving
        <4>2. r.token \in Grants
          BY <2>1, <4>1, Served DEF TokensOfBindings, SentOfBindings
        <4>3. Saved(r) = [a EXCEPT !.token = r.token, !.status = "active",
                            !.refresh = IF r.key \in Rotating THEN r.token ELSE a.refresh]
          BY <3>2 DEF Saved
        <4>4. Saved(r) \in Account /\ Saved(r).version = a.version
          BY <4>2, <4>3 DEF Account, GrantOrNone
        <4> QED
          BY <1>12, <2>1, <3>1, <3>2, <4>1, <4>4, AccountIsRecord
      <3>4. CASE Mark
        <4> DEFINE b == [a EXCEPT !.status = "reauth_required"]
        <4>1. account' = [account EXCEPT ![r.key] = b]
          BY <2>4, <3>2, <3>4 DEF Mark
        <4>2. b \in Account /\ b.version = a.version
          BY DEF Account
        <4> HIDE DEF b
        <4> QED
          BY <1>12, <2>1, <3>1, <3>2, <4>1, <4>2, AccountIsRecord
      <3> QED
        BY <1>13, <3>3, <3>4
    <2> QED
      BY <2>3, <2>4
  <1>14. CASE SaveStale \/ SaveFails
    BY <1>3, <1>14 DEF SaveStale, SaveFails, coordinatorVars
  <1>15. ASSUME NEW p \in Pids, Work(p) \/ WorkerDies(p) PROVE CacheIsCurrent'
    BY <1>3, <1>15 DEF Work, Granted, Refused, Unanswered, WorkerDies, profileVars,
                       coordinatorVars
  <1>16. ASSUME NEW k \in Keys, Revoke(k) PROVE CacheIsCurrent'
    BY <1>3, <1>16 DEF Revoke, profileVars, coordinatorVars
  <1>17. ASSUME NEW t \in Grants, Expire(t) PROVE CacheIsCurrent'
    BY <1>3, <1>17 DEF Expire, profileVars, coordinatorVars
  <1>18. ASSUME NEW profilesToo \in BOOLEAN, Crash(profilesToo) PROVE CacheIsCurrent'
    BY <1>18 DEF Crash, CacheIsCurrent
  <1>19. CASE UNCHANGED vars
    BY <1>3, <1>19 DEF vars, profileVars, coordinatorVars
  <1>20. ASSUME NEW c \in Callers, Finish(c) \/ \E k \in Keys : Ask(c, k)
         PROVE  CacheIsCurrent'
    BY <1>3, <1>20 DEF Finish, Ask, profileVars, coordinatorVars
  <1> QED
    BY <1>5, <1>6, <1>7, <1>8, <1>10, <1>11, <1>13, <1>14, <1>15, <1>16, <1>17, <1>18,
       <1>19, <1>20 DEF Next, Report, Serve

-----------------------------------------------------------------------------
(* Waiting callers and workers.                                              *)

\* A worker works for callers that wait, those who wait for a key have a worker,
\* and a key has at most one.
WaitsAreWorked ==
    /\ \A p \in Pids : tasks[p] # None => in_flight[tasks[p]] # None
    /\ \A k \in Keys : in_flight[k] # None => \E p \in Pids : tasks[p] = k
    /\ \A p, q \in Pids : tasks[p] # None /\ tasks[p] = tasks[q] => p = q

\* Whoever waits is registered with the key asked for.
WaitsAreRegistered ==
    \A c \in Callers : call[c].at = "waiting" =>
        call[c].key \in Keys /\ c \in Waiting(call[c].key)

\* A refresh that ends leaves no worker and no caller of its key behind.
LEMMA EndsWork ==
    ASSUME TypeOK, WaitsAreWorked, NEW k \in Keys,
           in_flight' = [in_flight EXCEPT ![k] = None],
           \A q \in Pids : tasks'[q] = IF tasks[q] = k THEN None ELSE tasks[q]
    PROVE  WaitsAreWorked'
  <1>1. k # None
    BY TokensAssumption
  <1>2. \A q \in Pids : tasks'[q] # None => tasks'[q] = tasks[q] /\ tasks[q] # k /\ tasks[q] \in Keys
    BY DEF TypeOK
  <1>3. in_flight'[k] = None /\ \A l \in Keys : l # k => in_flight'[l] = in_flight[l]
    BY DEF TypeOK
  <1> QED
    BY <1>1, <1>2, <1>3 DEF WaitsAreWorked

LEMMA WorkedKept ==
    ASSUME TypeOK, WaitsAreWorked, [Next]_vars
    PROVE  WaitsAreWorked'
  <1>1. ASSUME UNCHANGED <<in_flight, tasks>> PROVE WaitsAreWorked'
    BY <1>1 DEF WaitsAreWorked
  <1>2. CASE UNCHANGED vars
    BY <1>1, <1>2 DEF vars, coordinatorVars
  <1>3. ASSUME NEW c \in Callers, Get(c) PROVE WaitsAreWorked'
    <2> DEFINE k == call[c].key
    <2>1. k \in Keys /\ k # None
      BY <1>3, AskedIsCall, TokensAssumption DEF Get, Asked
    <2>2. \A C \in SUBSET Callers : C # None
      BY TokensAssumption
    <2>3. ASSUME NEW force \in Forces, Coalesce(c, k, force) PROVE WaitsAreWorked'
      <3>1. in_flight[k] \cup {c} \in SUBSET Callers /\ in_flight[k] # None /\ tasks' = tasks
        BY <2>1, <2>3 DEF Coalesce, TypeOK
      <3>2. /\ in_flight'[k] # None
            /\ \A l \in Keys : l # k => in_flight'[l] = in_flight[l]
        BY <2>1, <2>2, <2>3, <3>1 DEF Coalesce, TypeOK
      <3>3. \A l \in Keys : in_flight'[l] # None <=> in_flight[l] # None
        BY <3>1, <3>2
      <3> QED
        BY <3>1, <3>3 DEF WaitsAreWorked, TypeOK
    <2>4. ASSUME NEW force \in Forces, StartWorker(c, k, force) PROVE WaitsAreWorked'
      <3>1. PICK p \in Pids : tasks[p] = None /\ tasks' = [tasks EXCEPT ![p] = k]
        BY <2>4 DEF StartWorker, Spawn, FreePids
      <3>2. in_flight[k] = None /\ in_flight' = [in_flight EXCEPT ![k] = {c}]
        BY <2>4 DEF StartWorker, Spawn
      <3>3. tasks'[p] = k /\ \A q \in Pids : q # p => tasks'[q] = tasks[q]
        BY <3>1 DEF TypeOK
      <3>4. /\ in_flight'[k] # None
            /\ \A l \in Keys : l # k => in_flight'[l] = in_flight[l]
        BY <2>1, <2>2, <3>2 DEF TypeOK
      <3>5. \A q \in Pids : tasks[q] # k
        BY <2>1, <3>2 DEF WaitsAreWorked
      <3>6. \A q \in Pids : tasks[q] \in Keys \cup {None}
        BY DEF TypeOK
      <3>7. \A q \in Pids : tasks'[q] # None => in_flight'[tasks'[q]] # None
        BY <2>1, <3>1, <3>3, <3>4, <3>6 DEF WaitsAreWorked
      <3>8. \A l \in Keys : in_flight'[l] # None => \E q \in Pids : tasks'[q] = l
        <4>1. ASSUME NEW l \in Keys, l # k, in_flight'[l] # None
              PROVE  \E q \in Pids : tasks'[q] = l
          <5>1. PICK q \in Pids : tasks[q] = l
            BY <3>4, <4>1 DEF WaitsAreWorked
          <5>2. q # p
            BY <3>1, <4>1, <5>1, TokensAssumption
          <5> QED
            BY <3>3, <5>1, <5>2
        <4> QED
          BY <3>3, <4>1
      <3>9. \A q, r \in Pids : tasks'[q] # None /\ tasks'[q] = tasks'[r] => q = r
        BY <3>3, <3>5 DEF WaitsAreWorked
      <3> QED
        BY <3>7, <3>8, <3>9 DEF WaitsAreWorked
    <2> QED
      BY <1>1, <1>3, <2>3, <2>4 DEF Get, GetCached, GetRefused, GetStored, coordinatorVars
  <1>4. ASSUME NEW p \in Pids, Report(p) PROVE WaitsAreWorked'
    <2>1. /\ tasks[p] # None /\ in_flight' = [in_flight EXCEPT ![tasks[p]] = None]
          /\ tasks' = [tasks EXCEPT ![p] = None]
      BY <1>4 DEF Report, WorkerDone, Down
    <2>2. tasks[p] \in Keys
      BY <2>1 DEF TypeOK
    <2>3. \A q \in Pids : tasks'[q] = IF tasks[q] = tasks[p] THEN None ELSE tasks[q]
      BY <2>1 DEF WaitsAreWorked, TypeOK
    <2> QED
      BY <2>1, <2>2, <2>3, EndsWork
  <1>5. ASSUME NEW k \in Keys, Invalidate(k) PROVE WaitsAreWorked'
    BY <1>5, EndsWork DEF Invalidate
  <1>6. ASSUME NEW profilesToo \in BOOLEAN, Crash(profilesToo) PROVE WaitsAreWorked'
    BY <1>6 DEF Crash, WaitsAreWorked
  <1>7. ASSUME NEW c \in Callers, Finish(c) \/ \E k \in Keys : Ask(c, k) PROVE WaitsAreWorked'
    BY <1>1, <1>7 DEF Finish, Ask, coordinatorVars
  <1>8. ASSUME NEW p \in Pids, Work(p) \/ WorkerDies(p) PROVE WaitsAreWorked'
    BY <1>1, <1>8 DEF Work, Granted, Refused, Unanswered, WorkerDies, coordinatorVars
  <1>9. ASSUME NEW k \in Keys, Link(k) \/ Unlink(k) \/ Revoke(k) PROVE WaitsAreWorked'
    BY <1>1, <1>9 DEF Link, Unlink, Revoke, coordinatorVars
  <1>10. CASE Serve \/ Delete
    BY <1>1, <1>10
    DEF Serve, SaveTokens, SaveStale, SaveFails, Mark, Delete, coordinatorVars
  <1>11. ASSUME NEW t \in Grants, Expire(t) PROVE WaitsAreWorked'
    BY <1>1, <1>11 DEF Expire, coordinatorVars
  <1> QED
    BY <1>2, <1>3, <1>4, <1>5, <1>6, <1>7, <1>8, <1>9, <1>10, <1>11 DEF Next

\* The callers of k are answered and nobody else is touched.
LEMMA EndsWaits ==
    ASSUME TypeOK, WaitingAsked, WaitsAreRegistered, NEW k \in Keys, NEW t \in GrantOrNone,
           Reply(Waiting(k), t), in_flight' = [in_flight EXCEPT ![k] = None]
    PROVE  WaitsAreRegistered'
  <1>1. Waiting(k) \in SUBSET Callers /\ \A c \in Waiting(k) : call[c].at \in {"asked", "waiting"}
    BY WaitingCallers DEF WaitingAsked
  <1>2. \A c \in Callers \ Waiting(k) : call'[c] = call[c]
    BY <1>1, ReplyAnswers
  <1>3. \A c \in Waiting(k) : call'[c].at # "waiting"
    <2>1. \A c \in Waiting(k) : call'[c] = IdleCall \/ call'[c].at = "replied"
      BY <1>1, ReplyAnswers
    <2> QED
      BY <2>1 DEF IdleCall
  <1>4. \A l \in Keys : l # k => Waiting(l)' = Waiting(l)
    BY DEF Waiting, TypeOK
  <1>5. ASSUME NEW c \in Callers, call'[c].at = "waiting"
        PROVE  call'[c].key \in Keys /\ c \in Waiting(call[c].key)' /\ call'[c] = call[c]
    <2>1. c \notin Waiting(k)
      BY <1>3, <1>5
    <2>2. call'[c] = call[c]
      BY <1>2, <2>1
    <2>3. call[c].key \in Keys /\ c \in Waiting(call[c].key)
      BY <1>5, <2>2 DEF WaitsAreRegistered
    <2> QED
      BY <1>4, <2>1, <2>2, <2>3
  <1> QED
    BY <1>5 DEF WaitsAreRegistered, Waiting

LEMMA RegisteredKept ==
    ASSUME TypeOK, WaitingAsked, WaitsAreRegistered, [Next]_vars
    PROVE  WaitsAreRegistered'
  <1>1. ASSUME UNCHANGED <<in_flight, call>> PROVE WaitsAreRegistered'
    BY <1>1 DEF WaitsAreRegistered, Waiting
  <1>2. ASSUME in_flight' = in_flight, NEW d \in Callers, call'[d].at # "waiting",
               \A c \in Callers : c # d => call'[c] = call[c]
        PROVE  WaitsAreRegistered'
    BY <1>2 DEF WaitsAreRegistered, Waiting
  <1>3. CASE UNCHANGED vars
    BY <1>1, <1>3 DEF vars, coordinatorVars
  <1>4. ASSUME NEW c \in Callers, Get(c) PROVE WaitsAreRegistered'
    <2>1. call[c].at = "asked" /\ call[c] \in Call
      BY <1>4, AskedIsCall DEF Get, Asked
    <2>2. PICK k \in Keys : call[c].key = k
      BY <2>1 DEF Call
    <2>3. ASSUME NEW t \in GrantOrNone, Reply({c}, t), in_flight' = in_flight
          PROVE  WaitsAreRegistered'
      <3>1. \A d \in Callers : d # c => call'[d] = call[d]
        BY <2>3 DEF Reply
      <3>2. call'[c].at # "waiting"
        BY <2>1, <2>3, ReplyAnswers DEF IdleCall
      <3> QED
        BY <1>2, <2>3, <3>1, <3>2
    <2>4. ASSUME call' = [call EXCEPT ![c].at = "waiting"],
                 \/ in_flight' = [in_flight EXCEPT ![k] = {c}] /\ in_flight[k] = None
                 \/ in_flight' = [in_flight EXCEPT ![k] = @ \cup {c}] /\ in_flight[k] # None
          PROVE  WaitsAreRegistered'
      <3>1. PICK r \in Call : call[c] = r
        BY <2>1
      <3>2. call' = [call EXCEPT ![c] = [r EXCEPT !.at = "waiting"]]
        BY <2>4, <3>1 DEF TypeOK
      <3>3. call'[c].key = k /\ \A d \in Callers : d # c => call'[d] = call[d]
        BY <2>2, <3>1, <3>2 DEF TypeOK, Call
      <3>4. in_flight'[k] \in SUBSET Callers /\ c \in in_flight'[k]
        BY <2>2, <2>4 DEF TypeOK
      <3>5. c \in Waiting(k)' /\ Waiting(k) \subseteq Waiting(k)'
        BY <2>2, <2>4, <3>4, TokensAssumption DEF Waiting, TypeOK
      <3>6. \A l \in Keys : l # k => Waiting(l)' = Waiting(l)
        BY <2>4 DEF Waiting, TypeOK
      <3>7. ASSUME NEW d \in Callers, call'[d].at = "waiting"
            PROVE  (call[d].key \in Keys /\ d \in Waiting(call[d].key))'
        <4>1. CASE d = c
          BY <2>2, <3>3, <3>5, <4>1 DEF Waiting
        <4>2. CASE d # c
          <5>1. call'[d] = call[d] /\ call[d].key \in Keys /\ d \in Waiting(call[d].key)
            BY <3>3, <3>7, <4>2 DEF WaitsAreRegistered
          <5> QED
            BY <3>5, <3>6, <5>1 DEF Waiting
        <4> QED
          BY <4>1, <4>2
      <3> QED
        BY <3>7 DEF WaitsAreRegistered
    <2>5. ASSUME NEW force \in Forces, GetCached(c, k, force) PROVE WaitsAreRegistered'
      <3>1. cache[k].token \in GrantOrNone
        BY <2>2, <2>5, Shapes DEF GetCached, Usable, GrantOrNone
      <3> QED
        BY <2>3, <2>5, <3>1 DEF GetCached, coordinatorVars
    <2>6. ASSUME NEW force \in Forces, GetStored(c, k, force) PROVE WaitsAreRegistered'
      <3>1. account[k].token \in GrantOrNone
        BY <2>2, <2>6, Shapes DEF GetStored, NotLinked, GrantOrNone
      <3> QED
        BY <2>3, <2>6, <3>1 DEF GetStored
    <2>7. ASSUME NEW force \in Forces, GetRefused(c, k, force) PROVE WaitsAreRegistered'
      BY <2>3, <2>7 DEF GetRefused, coordinatorVars, GrantOrNone
    <2> QED
      BY <1>4, <2>2, <2>4, <2>5, <2>6, <2>7 DEF Get, Coalesce, StartWorker, Spawn
  <1>5. ASSUME NEW c \in Callers, Finish(c) \/ \E k \in Keys : Ask(c, k)
        PROVE  WaitsAreRegistered'
    <2>1. call'[c].at # "waiting" /\ in_flight' = in_flight
      BY <1>5 DEF Finish, Ask, coordinatorVars, IdleCall, TypeOK
    <2>2. \A d \in Callers : d # c => call'[d] = call[d]
      BY <1>5 DEF Finish, Ask, TypeOK
    <2> QED
      BY <1>2, <2>1, <2>2
  <1>6. ASSUME NEW p \in Pids, WorkerDone(p) PROVE WaitsAreRegistered'
    <2> DEFINE k == tasks[p]
               t == IF job[p].version = Active(k) THEN job[p].token ELSE None
    <2>1. k \in Keys /\ job[p] \in Job
      BY <1>6 DEF WorkerDone, TypeOK
    <2>2. t \in GrantOrNone
      BY <2>1 DEF Job, GrantOrNone
    <2>3. Reply(Waiting(k), t) /\ in_flight' = [in_flight EXCEPT ![k] = None]
      BY <1>6 DEF WorkerDone
    <2> QED
      BY <2>1, <2>2, <2>3, EndsWaits
  <1>7. ASSUME NEW p \in Pids, Down(p) PROVE WaitsAreRegistered'
    BY <1>7, EndsWaits DEF Down, TypeOK, GrantOrNone
  <1>8. ASSUME NEW k \in Keys, Invalidate(k) PROVE WaitsAreRegistered'
    BY <1>8, EndsWaits DEF Invalidate, GrantOrNone
  <1>9. ASSUME NEW p \in Pids, Work(p) \/ WorkerDies(p) PROVE WaitsAreRegistered'
    BY <1>1, <1>9 DEF Work, Granted, Refused, Unanswered, WorkerDies, coordinatorVars
  <1>10. ASSUME NEW k \in Keys, Link(k) \/ Unlink(k) \/ Revoke(k) PROVE WaitsAreRegistered'
    BY <1>1, <1>10 DEF Link, Unlink, Revoke, coordinatorVars
  <1>11. CASE Serve \/ Delete
    BY <1>1, <1>11
    DEF Serve, SaveTokens, SaveStale, SaveFails, Mark, Delete, coordinatorVars
  <1>12. ASSUME NEW t \in Grants, Expire(t) PROVE WaitsAreRegistered'
    BY <1>1, <1>12 DEF Expire, coordinatorVars
  <1>13. ASSUME NEW profilesToo \in BOOLEAN, Crash(profilesToo) PROVE WaitsAreRegistered'
    BY <1>13 DEF Crash, WaitsAreRegistered, IdleCall
  <1> QED
    BY <1>3, <1>4, <1>5, <1>6, <1>7, <1>8, <1>9, <1>10, <1>11, <1>12, <1>13
    DEF Next, Report

-----------------------------------------------------------------------------
(* Healthy accounts.                                                         *)

\* The binding v of k is linked, and no refresh of it was lost.
Sure(k, v) ==
    account[k] # None /\ account[k].version = v /\ k \notin unsure \cup cut

\* A worker works on the key it was started for.
JobsKeyed == \A p \in Pids : job[p] # None => tasks[p] = job[p].key

\* A worker asks with the stored refresh token.
AskingWithStored ==
    \A p \in Pids : job[p] # None /\ Sure(job[p].key, job[p].version) =>
        /\ account[job[p].key].refresh # None
        /\ job[p].at = "ask" => job[p].refresh = account[job[p].key].refresh

\* The provider does not accept the stored refresh token of k, or an answer
\* about it was misjudged.
TakenForSpent(k, v) ==
    /\ account[k].refresh # None
    /\ account[k].refresh # valid[v] \/ k \in misjudged

\* A token to be saved has a worker that waits for it, and an account to be
\* marked has a refresh token that is spent or was taken for it.
RequestSound(r) ==
    Sure(r.key, r.version) =>
        /\ account[r.key].refresh # None
        /\ r.kind = "save" => r.pid # None
        /\ r.kind = "mark" => TakenForSpent(r.key, r.version)

SaveThenMark(r, s) ==
    r.kind = "save" /\ s.kind = "mark" /\ r.key = s.key /\ r.version = s.version

\* No account is to be marked after its refreshed tokens are saved.
RequestsSound ==
    /\ \A i \in DOMAIN inbox : RequestSound(inbox[i])
    /\ \A i, j \in DOMAIN inbox : i < j /\ SaveThenMark(inbox[i], inbox[j]) =>
          ~Sure(inbox[i].key, inbox[i].version)

\* A marked account has a refresh token that is spent or was taken for it.
MarkedSpent ==
    \A k \in Keys :
        Sure(k, account[k].version) /\ account[k].status = "reauth_required" =>
            TakenForSpent(k, account[k].version)

HealthInv == JobsKeyed /\ AskingWithStored /\ RequestsSound /\ MarkedSpent

\* What a step other than SaveTokens does to the bindings there were: it may end
\* them or the provider may refuse their refresh token, and no more, and it
\* forgets no misjudgement.
BindingsKeep ==
    \A k \in Keys : \A v \in Version : Sure(k, v)' =>
        /\ Sure(k, v)
        /\ account'[k].refresh = account[k].refresh
        /\ account[k].refresh # None =>
              valid'[v] = valid[v] \/ valid'[v] # account[k].refresh
        /\ k \in misjudged => k \in misjudged'

LEMMA AccountsSameKeep ==
    ASSUME TypeOK, account' = account, unsure \subseteq unsure', cut \subseteq cut',
           misjudged \subseteq misjudged',
           \A v \in Version : valid'[v] = valid[v] \/ valid'[v] \notin Grants
    PROVE  BindingsKeep
  <1>1. ASSUME NEW k \in Keys, account[k] # None
        PROVE  account[k].refresh \in GrantOrNone
    BY <1>1 DEF TypeOK, Account
  <1> QED
    BY <1>1 DEF BindingsKeep, Sure, GrantOrNone

LEMMA ServedRefuses ==
    ASSUME TypeOK, NEW P \in SUBSET Pids, MayHaveServed(P)
    PROVE  \A v \in Version : valid'[v] = valid[v] \/ valid'[v] \notin Grants
  <1>1. DOMAIN valid = Version /\ None \notin Grants
    BY TokensAssumption DEF TypeOK, Grants
  <1> QED
    BY <1>1 DEF MayHaveServed

LEMMA StepKeepsBindings ==
    ASSUME TypeOK, [Next]_vars
    PROVE  SaveTokens \/ BindingsKeep
  <1>1. ASSUME UNCHANGED <<account, valid>>, unsure \subseteq unsure', cut \subseteq cut',
               misjudged \subseteq misjudged'
        PROVE  BindingsKeep
    BY <1>1, AccountsSameKeep
  <1>2. CASE UNCHANGED vars
    BY <1>1, <1>2 DEF vars, profileVars, providerVars, historyVars
  <1>3. ASSUME NEW c \in Callers, Get(c) PROVE BindingsKeep
    BY <1>1, <1>3 DEF Get, GetCached, Coalesce, GetRefused, GetStored, StartWorker, Spawn,
                      profileVars, providerVars, historyVars
  <1>4. ASSUME NEW c \in Callers, Finish(c) \/ \E k \in Keys : Ask(c, k) PROVE BindingsKeep
    BY <1>1, <1>4 DEF Finish, Ask, profileVars, providerVars, historyVars
  <1>5. ASSUME NEW p \in Pids, Granted(p) PROVE BindingsKeep
    <2>1. NextGrant \notin Grants
      BY DEF NextGrant, Grants, TypeOK
    <2>2. DOMAIN valid = Version
      BY DEF TypeOK
    <2>3. \A v \in Version : valid'[v] = valid[v] \/ valid'[v] = NextGrant
      BY <1>5, <2>2 DEF Granted
    <2> QED
      BY <1>5, <2>1, <2>3, AccountsSameKeep DEF Granted, historyVars
  <1>6. ASSUME NEW p \in Pids, Refused(p) \/ Report(p) PROVE BindingsKeep
    BY <1>1, <1>6 DEF Refused, Report, WorkerDone, Down, profileVars, providerVars, historyVars
  <1>7. ASSUME NEW p \in Pids, Unanswered(p) PROVE BindingsKeep
    <2>1. /\ MayHaveServed({p}) /\ account' = account
          /\ UNCHANGED <<unsure, cut, misjudged>>
      BY <1>7 DEF Unanswered, profileVars, historyVars
    <2> QED
      BY <2>1, ServedRefuses, AccountsSameKeep
  <1>8. ASSUME NEW p \in Pids, WorkerDies(p) PROVE BindingsKeep
    <2>1. /\ MayHaveServed({p}) /\ account' = account
          /\ unsure \subseteq unsure' /\ cut \subseteq cut' /\ misjudged \subseteq misjudged'
      BY <1>8 DEF WorkerDies, Kill
    <2> QED
      BY <2>1, ServedRefuses, AccountsSameKeep
  <1>9. ASSUME NEW k \in Keys, Invalidate(k) PROVE BindingsKeep
    <2>1. /\ MayHaveServed(WorkersOf(k)) /\ account' = account
          /\ unsure \subseteq unsure' /\ cut \subseteq cut' /\ misjudged \subseteq misjudged'
      BY <1>9 DEF Invalidate, Kill
    <2>2. WorkersOf(k) \in SUBSET Pids
      BY DEF WorkersOf
    <2> QED
      BY <2>1, <2>2, ServedRefuses, AccountsSameKeep
  <1>10. ASSUME NEW profilesToo \in BOOLEAN, Crash(profilesToo) PROVE BindingsKeep
    <2>1. /\ MayHaveServed(Pids) /\ account' = account
          /\ unsure \subseteq unsure' /\ cut \subseteq cut' /\ misjudged \subseteq misjudged'
      BY <1>10 DEF Crash
    <2> QED
      BY <2>1, ServedRefuses, AccountsSameKeep
  <1>11. ASSUME NEW k \in Keys, Revoke(k) PROVE BindingsKeep
    <2>1. DOMAIN valid = Version /\ None \notin Grants
      BY TokensAssumption DEF TypeOK, Grants
    <2>2. \A v \in Version : valid'[v] = valid[v] \/ valid'[v] = None
      BY <1>11, <2>1 DEF Revoke
    <2> QED
      BY <1>11, <2>1, <2>2, AccountsSameKeep DEF Revoke, profileVars, historyVars
  <1>12. ASSUME NEW k \in Keys, Link(k) PROVE BindingsKeep
    <2>1. account'[k].version = links + 1 /\ \A l \in Keys : l # k => account'[l] = account[l]
      BY <1>12 DEF Link, TypeOK
    <2>2. links + 1 \notin Version
      BY DEF TypeOK, Version
    <2>3. \A v \in Version : valid'[v] = valid[v]
      <3>1. valid \in Seq(GrantOrNone) /\ Len(valid) = links
        BY DEF TypeOK, Version
      <3>2. PICK refresh \in {NextGrant, None} : valid' = Append(valid, refresh)
        BY <1>12 DEF Link
      <3> QED
        BY <3>1, <3>2, AppendProperties DEF Version
    <2>4. \A l \in Keys : l # k =>
              /\ l \in unsure \cup cut => l \in unsure' \cup cut'
              /\ l \in misjudged => l \in misjudged'
      BY <1>12 DEF Link
    <2> QED
      BY <2>1, <2>2, <2>3, <2>4 DEF BindingsKeep, Sure
  <1>13. ASSUME NEW k \in Keys, Unlink(k) PROVE BindingsKeep
    <2>1. \A l \in Keys : account'[l] # None => account'[l] = account[l]
      BY <1>13 DEF Unlink, TypeOK
    <2> QED
      BY <1>13, <2>1 DEF Unlink, BindingsKeep, Sure, providerVars, historyVars
  <1>14. CASE Delete
    BY <1>14 DEF Delete, BindingsKeep, Sure
  <1>15. CASE SaveStale \/ SaveFails
    BY <1>1, <1>15 DEF SaveStale, SaveFails, providerVars, historyVars
  <1>16. CASE Mark
    <2> DEFINE r == Head(inbox)
    <2>1. CASE ~Current(r)
      BY <1>1, <1>16, <2>1 DEF Mark, providerVars, historyVars
    <2>2. CASE Current(r)
      <3>1. inbox # <<>>
        BY <1>16 DEF Mark, Serving
      <3>2. r.key \in Keys /\ account[r.key] # None
        BY <2>2, <3>1, Served DEF Current, Request
      <3>3. PICK a \in Account : account[r.key] = a
        BY <3>2 DEF TypeOK
      <3>4. account' = [account EXCEPT ![r.key] = [a EXCEPT !.status = "reauth_required"]]
        BY <1>16, <2>2, <3>3 DEF Mark
      <3>5. /\ [a EXCEPT !.status = "reauth_required"].version = a.version
            /\ [a EXCEPT !.status = "reauth_required"].refresh = a.refresh
        BY DEF Account
      <3>6. \A k \in Keys : account'[k] # None =>
               /\ account[k] # None /\ account'[k].version = account[k].version
               /\ account'[k].refresh = account[k].refresh
        BY <3>2, <3>3, <3>4, <3>5 DEF TypeOK
      <3> QED
        BY <1>16, <3>6 DEF Mark, BindingsKeep, Sure, providerVars, historyVars
    <2> QED
      BY <2>1, <2>2
  <1>17. ASSUME NEW t \in Grants, Expire(t) PROVE BindingsKeep
    BY <1>1, <1>17 DEF Expire, profileVars, historyVars
  <1> QED
    BY <1>2, <1>3, <1>4, <1>5, <1>6, <1>7, <1>8, <1>9, <1>10, <1>11, <1>12, <1>13, <1>14,
       <1>15, <1>16, <1>17 DEF Next, Work, Serve

\* Worker p goes on with its job, or has stopped asking.
Carried(p) ==
    /\ job[p] # None /\ tasks'[p] = tasks[p]
    /\ job'[p].key = job[p].key /\ job'[p].version = job[p].version
    /\ job'[p].at = "ask" => job[p].at = "ask" /\ job'[p].refresh = job[p].refresh

\* Worker p is started with what is stored.
Started(p) ==
    /\ tasks'[p] = job'[p].key /\ account' = account
    /\ account[job'[p].key].refresh # None
    /\ job'[p].refresh = account[job'[p].key].refresh

LEMMA StepKeepsJobs ==
    ASSUME TypeOK, InboxOwned, [Next]_vars, NEW p \in Pids, job'[p] # None
    PROVE  Carried(p) \/ Started(p)
  <1>1. ASSUME UNCHANGED <<tasks, job>> PROVE Carried(p)
    BY <1>1 DEF Carried
  <1>2. ASSUME NEW q \in Pids, UNCHANGED tasks, job[q] \in Job,
               NEW j, job' = [job EXCEPT ![q] = j], j.key = job[q].key,
               j.version = job[q].version, j.at # "ask"
        PROVE  Carried(p)
    <2>1. job[q] # None
      BY <1>2, JobIsRecord
    <2>2. job'[p] = IF p = q THEN j ELSE job[p]
      BY <1>2 DEF TypeOK
    <2> QED
      BY <1>2, <2>1, <2>2 DEF Carried
  <1>3. CASE UNCHANGED vars
    BY <1>1, <1>3 DEF vars, coordinatorVars
  <1>4. ASSUME NEW c \in Callers, Get(c) PROVE Carried(p) \/ Started(p)
    <2>1. ASSUME NEW force \in Forces, StartWorker(c, call[c].key, force)
          PROVE  Carried(p) \/ Started(p)
      <3>1. PICK k \in Keys : k = call[c].key
        BY <1>4, AskedIsCall DEF Get
      <3>2. PICK q \in Pids :
               /\ tasks' = [tasks EXCEPT ![q] = k]
               /\ job' = [job EXCEPT ![q] = [key |-> k, version |-> account[k].version,
                                             refresh |-> account[k].refresh,
                                             at |-> "ask", token |-> None]]
        BY <2>1, <3>1 DEF StartWorker, Spawn, FreePids
      <3>3. account' = account /\ account[k].refresh # None
        BY <2>1, <3>1 DEF StartWorker, NotLinked, NoRefreshToken, Spawn, profileVars
      <3>4. CASE p = q
        BY <3>2, <3>3, <3>4 DEF Started, TypeOK
      <3>5. CASE p # q
        BY <3>2, <3>5 DEF Carried, TypeOK
      <3> QED
        BY <3>4, <3>5
    <2> QED
      BY <1>1, <1>4, <2>1 DEF Get, GetCached, Coalesce, GetRefused, GetStored, coordinatorVars
  <1>5. ASSUME NEW c \in Callers, Finish(c) \/ \E k \in Keys : Ask(c, k) PROVE Carried(p)
    BY <1>1, <1>5 DEF Finish, Ask, coordinatorVars
  <1>6. ASSUME NEW q \in Pids, Work(q) PROVE Carried(p)
    <2>1. PICK j \in Job : job[q] = j
      BY <1>6, AskingIsJob DEF Work, Granted, Refused, Unanswered
    <2>2. CASE Granted(q)
      <3> DEFINE e == [j EXCEPT !.at = "save", !.token = NextGrant]
      <3>1. job' = [job EXCEPT ![q] = e] /\ tasks' = tasks
        BY <2>1, <2>2 DEF Granted, coordinatorVars, TypeOK
      <3>2. e.key = j.key /\ e.version = j.version /\ e.at # "ask"
        BY DEF Job
      <3> HIDE DEF e
      <3> QED
        BY <1>2, <2>1, <3>1, <3>2
    <2>3. CASE Refused(q) \/ Unanswered(q)
      <3>1. PICK at \in {"mark", "done"} : job' = [job EXCEPT ![q] = [j EXCEPT !.at = at]]
        BY <2>1, <2>3 DEF Refused, Unanswered, TypeOK
      <3> DEFINE e == [j EXCEPT !.at = at]
      <3>2. e.key = j.key /\ e.version = j.version /\ e.at # "ask"
        BY DEF Job
      <3>3. tasks' = tasks /\ job' = [job EXCEPT ![q] = e]
        BY <2>3, <3>1 DEF Refused, Unanswered, coordinatorVars
      <3> HIDE DEF e
      <3> QED
        BY <1>2, <2>1, <3>2, <3>3
    <2> QED
      BY <1>6, <2>2, <2>3 DEF Work
  <1>7. ASSUME NEW q \in Pids, Report(q) PROVE Carried(p)
    <2>1. tasks' = [tasks EXCEPT ![q] = None] /\ (job' = job \/ job' = [job EXCEPT ![q] = None])
      BY <1>7 DEF Report, WorkerDone, Down
    <2>2. job'[q] = None
      BY <1>7 DEF Report, WorkerDone, Down, TypeOK
    <2>3. p # q /\ job'[p] = job[p] /\ tasks'[p] = tasks[p]
      BY <2>1, <2>2 DEF TypeOK
    <2> QED
      BY <2>3 DEF Carried
  <1>8. ASSUME NEW q \in Pids, WorkerDies(q) PROVE Carried(p)
    BY <1>8 DEF WorkerDies, Kill, Carried, coordinatorVars
  <1>9. ASSUME NEW k \in Keys, Invalidate(k) PROVE Carried(p)
    BY <1>9 DEF Invalidate, Kill, WorkersOf, Carried
  <1>10. ASSUME NEW k \in Keys, Link(k) \/ Unlink(k) \/ Revoke(k) PROVE Carried(p)
    BY <1>1, <1>10 DEF Link, Unlink, Revoke, coordinatorVars
  <1>11. CASE SaveFails
    <2> DEFINE r == Head(inbox)
    <2>1. tasks' = tasks /\ inbox # <<>>
      BY <1>11 DEF SaveFails, Serving, coordinatorVars
    <2>2. CASE r.pid = None
      BY <1>1, <1>11, <2>1, <2>2 DEF SaveFails
    <2>3. CASE r.pid # None
      <3>1. r.pid \in Pids /\ job[r.pid] \in Job
        BY <2>1, <2>3, Served DEF InboxOwned, Request
      <3>2. PICK j \in Job : job[r.pid] = j
        BY <3>1
      <3> DEFINE e == [j EXCEPT !.at = "mark", !.token = None]
      <3>3. job' = [job EXCEPT ![r.pid] = e]
        BY <1>11, <2>3, <3>2 DEF SaveFails, TypeOK
      <3>4. e.key = j.key /\ e.version = j.version /\ e.at # "ask"
        BY DEF Job
      <3> HIDE DEF e
      <3> QED
        BY <1>2, <2>1, <3>1, <3>2, <3>3, <3>4
    <2> QED
      BY <2>2, <2>3
  <1>12. CASE SaveTokens \/ SaveStale \/ Mark
    <2>1. inbox # <<>> /\ tasks' = tasks
      BY <1>12 DEF SaveTokens, SaveStale, Mark, Serving, coordinatorVars
    <2>2. PICK t \in GrantOrNone : Answer(Head(inbox), Done(Head(inbox), t))
      <3>1. Head(inbox).token \in GrantOrNone
        BY <2>1, Served DEF Request
      <3> QED
        BY <1>12, <3>1 DEF SaveTokens, SaveStale, Mark, GrantOrNone
    <2>3. CASE p # Head(inbox).pid
      BY <2>1, <2>2, <2>3, AnswerTypes DEF Carried
    <2>4. CASE p = Head(inbox).pid
      <3>1. /\ job[p] # None /\ job'[p].version = job[p].version
            /\ job'[p].key = job[p].key /\ job'[p].at = "done"
        BY <2>1, <2>2, <2>4, AnswerTypes
      <3> QED
        BY <2>1, <3>1 DEF Carried
    <2> QED
      BY <2>3, <2>4
  <1>13. CASE Delete
    BY <1>1, <1>13 DEF Delete, coordinatorVars
  <1>14. ASSUME NEW t \in Grants, Expire(t) PROVE Carried(p)
    BY <1>1, <1>14 DEF Expire, coordinatorVars
  <1>15. ASSUME NEW profilesToo \in BOOLEAN, Crash(profilesToo) PROVE Carried(p)
    BY <1>15 DEF Crash
  <1> QED
    BY <1>3, <1>4, <1>5, <1>6, <1>7, <1>8, <1>9, <1>10, <1>11, <1>12, <1>13, <1>14, <1>15
    DEF Next, Serve

\* Two jobs of one account are the same job.
LEMMA OneJob ==
    ASSUME JobsKeyed, WaitsAreWorked, NEW p \in Pids, NEW q \in Pids,
           job[p] # None, job[q] # None, job[p].key = job[q].key, job[p].key \in Keys
    PROVE  p = q
  BY TokensAssumption DEF JobsKeyed, WaitsAreWorked

LEMMA JobsKeyedKept ==
    ASSUME TypeOK, InboxOwned, JobsKeyed, [Next]_vars
    PROVE  JobsKeyed'
  BY StepKeepsJobs DEF JobsKeyed, Carried, Started

\* What Profiles finds when it saves the tokens of a binding that is sure: the
\* request is the first one, and its worker is alive and waits for it.
LEMMA SavesFor ==
    ASSUME TypeOK, InboxOwned, RequestsSound, SaveTokens,
           NEW k \in Keys, NEW v, Sure(k, v)'
    PROVE  /\ Sure(k, v) /\ valid' = valid
           /\ k # Head(inbox).key =>
                 account'[k] = account[k] /\ (k \in misjudged => k \in misjudged')
           /\ k = Head(inbox).key =>
                 /\ v = Head(inbox).version /\ account'[k].status = "active"
                 /\ account'[k].refresh = account[k].refresh \/ account'[k].refresh = Head(inbox).token
                 /\ account[k].refresh # None
                 /\ Head(inbox).pid \in Pids /\ job[Head(inbox).pid] \in Job
                 /\ job[Head(inbox).pid].at = "save" /\ job[Head(inbox).pid].key = k
  <1> DEFINE r == Head(inbox)
  <1>1. /\ inbox # <<>> /\ r.kind = "save" /\ Current(r) /\ UNCHANGED <<unsure, cut, valid>>
        /\ account' = [account EXCEPT ![r.key] = Saved(r)]
        /\ misjudged' = misjudged \ {r.key}
    BY DEF SaveTokens, Serving, providerVars
  <1>2. r = inbox[1] /\ 1 \in DOMAIN inbox /\ r \in Request
    BY <1>1, Served
  <1>3. r.key \in Keys /\ account[r.key] # None /\ account[r.key].version = r.version
    BY <1>1, <1>2 DEF Current, Request
  <1>4. PICK a \in Account : account[r.key] = a
    BY <1>3, Shapes
  <1>5. Saved(r) = [a EXCEPT !.token = r.token, !.status = "active",
                             !.refresh = IF r.key \in Rotating THEN r.token ELSE a.refresh]
    BY <1>4 DEF Saved
  <1>6. /\ Saved(r).version = a.version /\ Saved(r).status = "active"
        /\ Saved(r).refresh = a.refresh \/ Saved(r).refresh = r.token
    BY <1>5 DEF Account
  <1>7. account'[r.key] = Saved(r) /\ \A l \in Keys : l # r.key => account'[l] = account[l]
    BY <1>1, <1>3 DEF TypeOK
  <1>8. Sure(k, v)
    BY <1>1, <1>3, <1>4, <1>6, <1>7 DEF Sure
  <1>9. ASSUME k = r.key
        PROVE  /\ v = r.version /\ account'[k].status = "active"
               /\ account'[k].refresh = account[k].refresh \/ account'[k].refresh = r.token
               /\ account[k].refresh # None
               /\ r.pid \in Pids /\ job[r.pid] \in Job
               /\ job[r.pid].at = "save" /\ job[r.pid].key = k
    <2>1. v = r.version
      BY <1>3, <1>8, <1>9 DEF Sure
    <2>2. account[r.key].refresh # None /\ r.pid # None
      BY <1>1, <1>2, <1>8, <1>9, <2>1 DEF RequestsSound, RequestSound
    <2>3. r.pid \in Pids
      BY <1>2, <2>2 DEF Request
    <2>4. job[r.pid] \in Job /\ job[r.pid].at = "save" /\ job[r.pid].key = k
      BY <1>1, <1>2, <1>9, <2>2 DEF InboxOwned
    <2> QED
      BY <1>4, <1>6, <1>7, <1>9, <2>1, <2>2, <2>3, <2>4
  <1> HIDE DEF r
  <1> QED
    BY <1>1, <1>7, <1>8, <1>9 DEF r

LEMMA AskingKept ==
    ASSUME TypeOK, TypeOK', InboxOwned, TokensOfBindings, WaitsAreWorked, HealthInv, [Next]_vars
    PROVE  AskingWithStored'
  <1> SUFFICES ASSUME NEW p \in Pids, job'[p] # None, NEW k, k = job'[p].key,
                      NEW v, v = job'[p].version, Sure(k, v)'
               PROVE  /\ account'[k].refresh # None
                      /\ job'[p].at = "ask" => job'[p].refresh = account'[k].refresh
    BY DEF AskingWithStored
  <1>1. k \in Keys
    BY DEF TypeOK, Job
  <1>2. CASE Started(p)
    BY <1>2 DEF Started
  <1>3. CASE Carried(p)
    <2>1. job[p] # None /\ k = job[p].key /\ v = job[p].version /\ v \in Version
      BY <1>3, Shapes DEF Carried
    <2>2. Sure(k, v) =>
             /\ account[k].refresh # None
             /\ job[p].at = "ask" => job[p].refresh = account[k].refresh
      BY <2>1 DEF HealthInv, AskingWithStored
    <2>3. CASE BindingsKeep
      <3>1. Sure(k, v) /\ account'[k].refresh = account[k].refresh
        BY <1>1, <2>1, <2>3 DEF BindingsKeep
      <3> QED
        BY <1>3, <2>2, <3>1 DEF Carried
    <2>4. CASE SaveTokens
      <3>1. CASE k # Head(inbox).key
        <4>1. Sure(k, v) /\ account'[k] = account[k]
          BY <1>1, <2>4, <3>1, SavesFor DEF HealthInv
        <4> QED
          BY <1>3, <2>2, <4>1 DEF Carried
      <3>2. CASE k = Head(inbox).key
        <4> DEFINE q == Head(inbox).pid
        <4>1. /\ account'[k].refresh = account[k].refresh \/ account'[k].refresh = Head(inbox).token
              /\ account[k].refresh # None /\ q \in Pids /\ job[q] \in Job
              /\ job[q].at = "save" /\ job[q].key = k
          BY <1>1, <2>4, <3>2, SavesFor DEF HealthInv
        <4>2. inbox # <<>> /\ Head(inbox).kind = "save"
          BY <2>4 DEF SaveTokens, Serving
        <4>3. Head(inbox).token # None
          BY <4>2, Served, TokensAssumption DEF TokensOfBindings, SentOfBindings, Grants
        <4>4. p = q
          BY <1>1, <2>1, <4>1, OneJob, JobIsRecord DEF HealthInv
        <4>5. job'[p].at # "ask"
          BY <1>3, <4>1, <4>4 DEF Carried
        <4> QED
          BY <4>1, <4>3, <4>5
      <3> QED
        BY <3>1, <3>2
    <2> QED
      BY <2>3, <2>4, StepKeepsBindings
  <1> QED
    BY <1>2, <1>3, StepKeepsJobs

\* The requests at the positions of D are requests of before, in the same order;
\* of one whose worker is gone since then nothing was lost that is not recorded.
CarriedBy(D, f) ==
    /\ \A i \in D : f[i] \in DOMAIN inbox
    /\ \A i, j \in D : i < j => f[i] < f[j]
    /\ \A i \in D :
          /\ inbox'[i].key = inbox[f[i]].key /\ inbox'[i].version = inbox[f[i]].version
          /\ inbox'[i].kind = inbox[f[i]].kind
          /\ \/ inbox'[i].pid = inbox[f[i]].pid
             \/ inbox'[i].kind = "save" =>
                   ~(account'[inbox'[i].key] # None
                     /\ account'[inbox'[i].key].version = inbox'[i].version
                     /\ inbox'[i].key \notin unsure' \cup cut')

LEMMA RequestsCarried ==
    ASSUME TypeOK, RequestsSound, BindingsKeep, NEW D, NEW f, CarriedBy(D, f)
    PROVE  /\ \A i \in D : RequestSound(inbox[i])'
           /\ \A i, j \in D : i < j /\ SaveThenMark(inbox'[i], inbox'[j]) =>
                 ~Sure(inbox[i].key, inbox[i].version)'
  <1>1. ASSUME NEW i \in D
        PROVE  /\ f[i] \in DOMAIN inbox
               /\ inbox'[i].key \in Keys /\ inbox'[i].version \in Version
    <2>1. PICK r \in Request : inbox[f[i]] = r /\ f[i] \in DOMAIN inbox
      BY DEF CarriedBy, TypeOK
    <2>2. inbox'[i].key = r.key /\ inbox'[i].version = r.version
      BY <2>1 DEF CarriedBy
    <2> QED
      BY <2>1, <2>2 DEF Request
  <1>2. ASSUME NEW i \in D PROVE RequestSound(inbox[i])'
    <2>1. PICK r \in Request : inbox[f[i]] = r /\ RequestSound(r)
      BY <1>1 DEF TypeOK, RequestsSound
    <2>2. /\ inbox'[i].key = r.key /\ inbox'[i].version = r.version /\ inbox'[i].kind = r.kind
          /\ inbox'[i].pid = r.pid \/ (r.kind = "save" => ~Sure(r.key, r.version)')
      BY <1>2, <2>1 DEF CarriedBy, Sure
    <2>3. r.key \in Keys /\ r.version \in Version
      BY DEF Request
    <2>4. PICK k \in Keys, v \in Version : r.key = k /\ r.version = v
      BY <2>3
    <2>5. ASSUME Sure(k, v)'
          PROVE  /\ account'[k].refresh # None
                 /\ r.kind = "save" => inbox'[i].pid # None
                 /\ r.kind = "mark" => account'[k].refresh # valid'[v] \/ k \in misjudged'
      BY <2>1, <2>2, <2>4, <2>5 DEF BindingsKeep, RequestSound, TakenForSpent
    <2> QED
      BY <2>2, <2>4, <2>5 DEF RequestSound, TakenForSpent, Sure
  <1>3. ASSUME NEW i \in D, NEW j \in D, i < j, SaveThenMark(inbox'[i], inbox'[j])
        PROVE  ~Sure(inbox[i].key, inbox[i].version)'
    <2>1. f[i] < f[j] /\ f[i] \in DOMAIN inbox /\ f[j] \in DOMAIN inbox
      BY <1>3 DEF CarriedBy
    <2>2. SaveThenMark(inbox[f[i]], inbox[f[j]])
      BY <1>3 DEF CarriedBy, SaveThenMark
    <2>3. ~Sure(inbox[f[i]].key, inbox[f[i]].version)
      BY <2>1, <2>2 DEF RequestsSound
    <2>4. PICK k \in Keys, v \in Version : inbox'[i].key = k /\ inbox'[i].version = v
      BY <1>1, <1>3
    <2>5. ~Sure(k, v)
      BY <1>3, <2>3, <2>4 DEF CarriedBy
    <2>6. ~Sure(k, v)'
      BY <2>5 DEF BindingsKeep
    <2> QED
      BY <2>4, <2>6 DEF Sure
  <1> QED
    BY <1>2, <1>3

\* Nothing new comes in.
LEMMA RequestsFewer ==
    ASSUME TypeOK, RequestsSound, BindingsKeep, NEW f, CarriedBy(DOMAIN inbox', f)
    PROVE  RequestsSound'
  BY RequestsCarried DEF RequestsSound

LEMMA RequestsSame ==
    ASSUME TypeOK, RequestsSound, BindingsKeep, inbox' = inbox
    PROVE  RequestsSound'
  <1> DEFINE f == [i \in DOMAIN inbox |-> i]
  <1>1. CarriedBy(DOMAIN inbox', f)
    BY DEF CarriedBy
  <1> HIDE DEF f
  <1> QED
    BY <1>1, RequestsFewer

LEMMA RequestsServed ==
    ASSUME TypeOK, RequestsSound, BindingsKeep, inbox # <<>>, inbox' = Tail(inbox)
    PROVE  RequestsSound'
  <1> DEFINE f == [i \in DOMAIN inbox' |-> i + 1]
  <1>1. \A i \in DOMAIN inbox' : i \in Int /\ i + 1 \in DOMAIN inbox /\ inbox'[i] = inbox[i + 1]
    BY Served
  <1>2. CarriedBy(DOMAIN inbox', f)
    BY <1>1 DEF CarriedBy
  <1> HIDE DEF f
  <1> QED
    BY <1>2, RequestsFewer

\* The workers of P are killed, and what they wanted to save is recorded.
LEMMA RequestsKilled ==
    ASSUME TypeOK, InboxOwned, RequestsSound, BindingsKeep, NEW P \in SUBSET Pids,
           inbox' = Orphaned(P), account' = account, Saving(P) \subseteq unsure' \cup cut'
    PROVE  RequestsSound'
  <1> DEFINE f == [i \in DOMAIN inbox |-> i]
  <1>1. /\ DOMAIN inbox' = DOMAIN inbox
        /\ \A i \in DOMAIN inbox :
              /\ inbox'[i].pid = IF inbox[i].pid \in P THEN None ELSE inbox[i].pid
              /\ inbox'[i].kind = inbox[i].kind /\ inbox'[i].key = inbox[i].key
              /\ inbox'[i].version = inbox[i].version
    BY OrphanedRequests
  <1>2. ASSUME NEW i \in DOMAIN inbox, inbox[i].pid \in P, inbox[i].kind = "save",
               account[inbox[i].key] # None,
               account[inbox[i].key].version = inbox[i].version
        PROVE  inbox[i].key \in unsure' \cup cut'
    <2>1. inbox[i].key \in Keys /\ inbox[i].pid # None
      <3>1. inbox[i] \in Request
        BY <1>2 DEF TypeOK
      <3> QED
        BY <1>2, <3>1, TokensAssumption DEF Request
    <2>2. /\ job[inbox[i].pid] \in Job /\ job[inbox[i].pid].at = "save"
          /\ job[inbox[i].pid].version = inbox[i].version
          /\ job[inbox[i].pid].key = inbox[i].key
      BY <1>2, <2>1 DEF InboxOwned
    <2>3. inbox[i].key \in Saving(P)
      BY <1>2, <2>1, <2>2, JobIsRecord DEF Saving
    <2> QED
      BY <2>3
  <1>3. CarriedBy(DOMAIN inbox', f)
    BY <1>1, <1>2 DEF CarriedBy
  <1> HIDE DEF f
  <1> QED
    BY <1>3, RequestsFewer

\* One request r comes in last.
LEMMA RequestsAdded ==
    ASSUME TypeOK, RequestsSound, BindingsKeep, NEW n \in Nat, NEW f,
           CarriedBy(1 .. n, f), DOMAIN inbox' = 1 .. n + 1,
           NEW r, inbox'[n + 1] = r, RequestSound(r)',
           \A i \in 1 .. n : SaveThenMark(inbox'[i], r) => ~Sure(r.key, r.version)'
    PROVE  RequestsSound'
  <1>1. /\ \A i \in 1 .. n : RequestSound(inbox[i])'
        /\ \A i, j \in 1 .. n : i < j /\ SaveThenMark(inbox'[i], inbox'[j]) =>
                 ~Sure(inbox[i].key, inbox[i].version)'
    BY RequestsCarried
  <1>2. ASSUME NEW i \in DOMAIN inbox' PROVE RequestSound(inbox[i])'
    <2>1. CASE i \in 1 .. n
      BY <1>1, <2>1 DEF RequestSound
    <2>2. CASE i = n + 1
      BY <2>2 DEF RequestSound
    <2> QED
      BY <2>1, <2>2
  <1>3. ASSUME NEW i \in DOMAIN inbox', NEW j \in DOMAIN inbox', i < j,
               SaveThenMark(inbox'[i], inbox'[j])
        PROVE  ~Sure(inbox[i].key, inbox[i].version)'
    <2>1. CASE i \in 1 .. n /\ j \in 1 .. n
      BY <1>1, <1>3, <2>1
    <2>2. CASE i \in 1 .. n /\ j = n + 1
      <3>1. inbox'[i].key = r.key /\ inbox'[i].version = r.version
        BY <1>3, <2>2 DEF SaveThenMark
      <3>2. ~Sure(r.key, r.version)'
        BY <1>3, <2>2
      <3> QED
        BY <3>1, <3>2 DEF Sure
    <2> QED
      BY <1>3, <2>1, <2>2
  <1> QED
    BY <1>2, <1>3 DEF RequestsSound, SaveThenMark

\* The request an answered worker sends comes in last.
LEMMA RequestsSent ==
    ASSUME TypeOK, TypeOK', InboxOwned, WaitsAreWorked, HealthInv, BindingsKeep,
           NEW p \in Pids, Granted(p) \/ Refused(p)
    PROVE  RequestsSound'
  <1> DEFINE n == Len(inbox)
             f == [i \in 1 .. n |-> i]
  <1>1. job[p] # None /\ job[p] \in Job /\ job[p].at = "ask" /\ p # None
    BY AskingIsJob, TokensAssumption DEF Granted, Refused, Asking
  <1>2. PICK k \in Keys, v \in Version : job[p].key = k /\ job[p].version = v
    BY <1>1 DEF Job
  <1>3. PICK kind \in {"save", "mark"}, t \in {NextGrant, None} :
           /\ inbox' = Append(inbox, [pid |-> p, kind |-> kind, key |-> k, version |-> v,
                                      token |-> t])
           /\ kind = "mark" => /\ valid' = valid
                               /\ misjudged' = IF Healthy(p) THEN misjudged \cup {k}
                                                            ELSE misjudged
    BY <1>2 DEF Granted, Refused, Send, providerVars
  <1> DEFINE r == [pid |-> p, kind |-> kind, key |-> k, version |-> v, token |-> t]
  <1>4. r.pid = p /\ r.kind = kind /\ r.key = k /\ r.version = v
    OBVIOUS
  <1>5. inbox' = Append(inbox, r)
    BY <1>3
  <1> HIDE DEF r
  <1>6. /\ DOMAIN inbox' = 1 .. n + 1 /\ n \in Nat /\ inbox'[n + 1] = r
        /\ DOMAIN inbox = 1 .. n /\ \A i \in 1 .. n : inbox'[i] = inbox[i]
    BY <1>5, AppendProperties DEF TypeOK
  <1>7. CarriedBy(1 .. n, f)
    BY <1>6 DEF CarriedBy
  <1>8. ASSUME Sure(k, v)'
        PROVE  /\ Sure(k, v) /\ account'[k].refresh = account[k].refresh
               /\ account[k].refresh # None /\ job[p].refresh = account[k].refresh
    BY <1>1, <1>2, <1>8 DEF BindingsKeep, HealthInv, AskingWithStored
  <1>9. RequestSound(r)'
    <2>1. ASSUME Sure(k, v)', kind = "mark", account[k].refresh = valid[v]
          PROVE  k \in misjudged'
      <3>1. Healthy(p)
        BY <1>2, <1>8, <2>1 DEF Healthy, Sure
      <3> QED
        BY <1>3, <2>1, <3>1
    <2> QED
      BY <1>1, <1>3, <1>4, <1>8, <2>1 DEF RequestSound, TakenForSpent
  <1>10. ASSUME NEW i \in 1 .. n, SaveThenMark(inbox'[i], r), Sure(k, v)'
         PROVE  FALSE
    <2>1. /\ i \in DOMAIN inbox /\ inbox[i].kind = "save" /\ inbox[i].key = k
          /\ inbox[i].version = v
      BY <1>4, <1>6, <1>10 DEF SaveThenMark
    <2>2. Sure(k, v)
      BY <1>8, <1>10
    <2>3. inbox[i].pid # None
      BY <2>1, <2>2 DEF HealthInv, RequestsSound, RequestSound
    <2>4. PICK q \in Pids : inbox[i].pid = q
      <3>1. inbox[i] \in Request
        BY <2>1 DEF TypeOK
      <3> QED
        BY <2>3, <3>1 DEF Request
    <2>5. job[q] \in Job /\ job[q].at = "save" /\ job[q].key = k
      BY <2>1, <2>3, <2>4 DEF InboxOwned
    <2>6. p = q
      BY <1>1, <1>2, <2>5, OneJob, JobIsRecord DEF HealthInv
    <2> QED
      BY <1>1, <2>5, <2>6
  <1>11. \A i \in 1 .. n : SaveThenMark(inbox'[i], r) => ~Sure(r.key, r.version)'
    BY <1>4, <1>10 DEF Sure
  <1> HIDE DEF f, n
  <1> QED
    BY <1>6, <1>7, <1>9, <1>11, RequestsAdded DEF HealthInv

\* A worker whose tokens were not saved asks to mark the account instead.
LEMMA RequestsAgain ==
    ASSUME TypeOK, RequestsSound, BindingsKeep, SaveFails
    PROVE  RequestsSound'
  <1>1. inbox # <<>> /\ inbox \in Seq(Request) /\ unsure' = unsure \cup {Head(inbox).key}
    BY DEF SaveFails, Serving, TypeOK
  <1>2. CASE Head(inbox).pid = None
    BY <1>1, <1>2, RequestsServed DEF SaveFails
  <1>3. CASE Head(inbox).pid # None
    <2>1. PICK r : /\ r = [Head(inbox) EXCEPT !.kind = "mark", !.token = None]
                   /\ r.key = Head(inbox).key
      <3>1. PICK h \in Request : Head(inbox) = h
        BY <1>1, Served
      <3>2. [h EXCEPT !.kind = "mark", !.token = None].key = h.key
        BY DEF Request
      <3> QED
        BY <3>1, <3>2
    <2>2. inbox' = Append(Tail(inbox), r)
      BY <1>3, <2>1 DEF SaveFails
    <2>3. /\ Tail(inbox) \in Seq(Request)
          /\ \A i \in DOMAIN Tail(inbox) :
                 i + 1 \in DOMAIN inbox /\ Tail(inbox)[i] = inbox[i + 1]
      BY <1>1, Served
    <2>4. PICK t : t = Tail(inbox)
      OBVIOUS
    <2>5. PICK n \in Nat : n = Len(t) /\ DOMAIN t = 1 .. n
      BY <2>3, <2>4
    <2>6. /\ DOMAIN inbox' = 1 .. n + 1 /\ inbox'[n + 1] = r
          /\ \A i \in 1 .. n : inbox'[i] = t[i]
      BY <2>2, <2>3, <2>4, <2>5, AppendProperties
    <2>7. \A i \in 1 .. n : i + 1 \in DOMAIN inbox /\ inbox'[i] = inbox[i + 1]
      BY <2>3, <2>4, <2>5, <2>6
    <2> DEFINE f == [i \in 1 .. n |-> i + 1]
    <2>8. \A i \in 1 .. n : i \in Nat /\ f[i] = i + 1
      OBVIOUS
    <2> HIDE DEF f
    <2>9. CarriedBy(1 .. n, f)
      BY <2>7, <2>8 DEF CarriedBy
    <2>10. ~Sure(r.key, r.version)'
      BY <1>1, <2>1 DEF Sure
    <2>11. RequestSound(r)'
      BY <2>10 DEF RequestSound, Sure
    <2> QED
      BY <2>6, <2>9, <2>10, <2>11, RequestsAdded
  <1> QED
    BY <1>2, <1>3

\* When tokens are saved no mark of the same binding waits behind them.
LEMMA RequestsSaved ==
    ASSUME TypeOK, InboxOwned, TokensOfBindings, RequestsSound, SaveTokens
    PROVE  RequestsSound'
  <1>1. inbox # <<>> /\ Head(inbox).kind = "save" /\ inbox' = Tail(inbox)
    BY DEF SaveTokens, Serving
  <1>2. /\ Head(inbox) = inbox[1] /\ 1 \in DOMAIN inbox
        /\ \A i \in DOMAIN inbox' :
              i \in Nat /\ i + 1 \in DOMAIN inbox /\ 1 < i + 1 /\ inbox'[i] = inbox[i + 1]
    BY <1>1, Served DEF TypeOK
  <1>3. Head(inbox).token # None
    BY <1>1, <1>2, TokensAssumption DEF TokensOfBindings, SentOfBindings, Grants
  <1>4. ASSUME NEW i \in DOMAIN inbox' PROVE RequestSound(inbox[i])'
    <2>1. PICK r \in Request : inbox[i + 1] = r
      BY <1>2, <1>4 DEF TypeOK
    <2>2. PICK k \in Keys, v \in Version : r.key = k /\ r.version = v
      BY DEF Request
    <2>3. RequestSound(r)
      BY <1>2, <1>4, <2>1 DEF RequestsSound
    <2>4. ASSUME Sure(k, v)'
          PROVE  /\ account'[k].refresh # None
                 /\ r.kind = "save" => r.pid # None
                 /\ r.kind = "mark" => account'[k].refresh # valid'[v] \/ k \in misjudged'
      <3>1. Sure(k, v) /\ valid' = valid
        BY <2>4, SavesFor
      <3>2. CASE k # Head(inbox).key
        BY <2>2, <2>3, <2>4, <3>1, <3>2, SavesFor DEF RequestSound, TakenForSpent
      <3>3. CASE k = Head(inbox).key
        <4>1. /\ v = Head(inbox).version /\ account[k].refresh # None
              /\ account'[k].refresh = account[k].refresh \/ account'[k].refresh = Head(inbox).token
          BY <2>4, <3>3, SavesFor
        <4>2. ASSUME r.kind = "mark" PROVE FALSE
          <5>1. SaveThenMark(inbox[1], inbox[i + 1])
            BY <1>1, <1>2, <2>1, <2>2, <3>3, <4>1, <4>2 DEF SaveThenMark
          <5> QED
            BY <1>2, <1>4, <3>1, <3>3, <4>1, <5>1 DEF RequestsSound
        <4> QED
          BY <1>3, <2>2, <2>3, <3>1, <4>1, <4>2 DEF RequestSound
      <3> QED
        BY <3>2, <3>3
    <2> QED
      BY <1>2, <1>4, <2>1, <2>2, <2>4 DEF RequestSound, TakenForSpent, Sure
  <1>5. ASSUME NEW i \in DOMAIN inbox', NEW j \in DOMAIN inbox', i < j,
               SaveThenMark(inbox'[i], inbox'[j])
        PROVE  ~Sure(inbox[i].key, inbox[i].version)'
    <2>1. i + 1 < j + 1 /\ SaveThenMark(inbox[i + 1], inbox[j + 1])
      BY <1>2, <1>5
    <2>2. ~Sure(inbox[i + 1].key, inbox[i + 1].version)
      BY <1>2, <1>5, <2>1 DEF RequestsSound
    <2>3. PICK k \in Keys, v \in Version : inbox'[i].key = k /\ inbox'[i].version = v
      <3>1. inbox[i + 1] \in Request
        BY <1>2, <1>5 DEF TypeOK
      <3> QED
        BY <1>2, <1>5, <3>1 DEF Request
    <2>4. ~Sure(k, v)
      BY <1>2, <1>5, <2>2, <2>3
    <2>5. ~Sure(k, v)'
      BY <2>4, SavesFor
    <2> QED
      BY <2>3, <2>5 DEF Sure
  <1> QED
    BY <1>4, <1>5 DEF RequestsSound, SaveThenMark

LEMMA RequestsKept ==
    ASSUME TypeOK, TypeOK', InboxOwned, TokensOfBindings, WaitsAreWorked, HealthInv, [Next]_vars
    PROVE  RequestsSound'
  <1>1. RequestsSound
    BY DEF HealthInv
  <1>2. CASE SaveTokens
    BY <1>1, <1>2, RequestsSaved
  <1>3. CASE BindingsKeep
    <2>1. ASSUME inbox' = inbox PROVE RequestsSound'
      BY <1>1, <1>3, <2>1, RequestsSame
    <2>2. ASSUME NEW p \in Pids, Work(p) PROVE RequestsSound'
      BY <1>3, <2>1, <2>2, RequestsSent DEF Work, Unanswered, profileVars
    <2>3. CASE SaveFails
      BY <1>1, <1>3, <2>3, RequestsAgain
    <2>4. CASE SaveStale \/ Mark
      BY <1>1, <1>3, <2>4, RequestsServed DEF SaveStale, Mark, Serving
    <2>5. ASSUME NEW p \in Pids, WorkerDies(p) PROVE RequestsSound'
      <3>1. /\ inbox' = Orphaned({p}) /\ account' = account
            /\ Saving({p}) \subseteq unsure' \cup cut'
        BY <2>5 DEF WorkerDies, Kill
      <3> QED
        BY <1>1, <1>3, <3>1, RequestsKilled
    <2>6. ASSUME NEW k \in Keys, Invalidate(k) PROVE RequestsSound'
      <3>1. /\ inbox' = Orphaned(WorkersOf(k)) /\ account' = account
            /\ Saving(WorkersOf(k)) \subseteq unsure' \cup cut'
        BY <2>6 DEF Invalidate, Kill
      <3>2. WorkersOf(k) \in SUBSET Pids
        BY DEF WorkersOf
      <3> QED
        BY <1>1, <1>3, <3>1, <3>2, RequestsKilled
    <2>7. ASSUME NEW profilesToo \in BOOLEAN, Crash(profilesToo) PROVE RequestsSound'
      <3>1. CASE profilesToo
        BY <2>7, <3>1 DEF Crash, RequestsSound
      <3>2. CASE ~profilesToo
        <4>1. /\ inbox' = Orphaned(Pids) /\ account' = account
              /\ Saving(Pids) \subseteq unsure' \cup cut'
          BY <2>7, <3>2 DEF Crash
        <4> QED
          BY <1>1, <1>3, <4>1, RequestsKilled
      <3> QED
        BY <3>1, <3>2
    <2>8. CASE UNCHANGED vars
      BY <2>1, <2>8 DEF vars, profileVars
    <2>9. ASSUME NEW c \in Callers, Get(c) \/ Finish(c) \/ \E k \in Keys : Ask(c, k)
          PROVE  RequestsSound'
      BY <2>1, <2>9 DEF Get, GetCached, Coalesce, GetRefused, GetStored, StartWorker, Spawn,
                        Finish, Ask, profileVars
    <2>10. ASSUME NEW p \in Pids, Report(p) PROVE RequestsSound'
      BY <2>1, <2>10 DEF Report, WorkerDone, Down, profileVars
    <2>11. ASSUME NEW k \in Keys, Link(k) \/ Unlink(k) \/ Revoke(k) PROVE RequestsSound'
      BY <2>1, <2>11 DEF Link, Unlink, Revoke, profileVars
    <2>12. CASE Delete
      BY <2>1, <2>12 DEF Delete
    <2>13. ASSUME NEW t \in Grants, Expire(t) PROVE RequestsSound'
      BY <2>1, <2>13 DEF Expire, profileVars
    <2> QED
      BY <1>2, <2>2, <2>3, <2>4, <2>5, <2>6, <2>7, <2>8, <2>9, <2>10, <2>11, <2>12, <2>13
      DEF Next, Serve
  <1> QED
    BY <1>2, <1>3, StepKeepsBindings

\* An account is marked by Mark alone, and every other step that changes it makes
\* it active or ends its binding.
LEMMA MarkedKept ==
    ASSUME TypeOK, TypeOK', InboxOwned, HealthInv, [Next]_vars
    PROVE  MarkedSpent'
  <1> SUFFICES ASSUME NEW k \in Keys, NEW v, v = account'[k].version, Sure(k, v)',
                      account'[k].status = "reauth_required"
               PROVE  TakenForSpent(k, v)'
    BY DEF MarkedSpent, TakenForSpent
  <1>1. ASSUME v \in Version, BindingsKeep, account[k].status = "reauth_required"
        PROVE  TakenForSpent(k, v)'
    <2>1. /\ Sure(k, v) /\ account'[k].refresh = account[k].refresh
          /\ account[k].refresh # None =>
                valid'[v] = valid[v] \/ valid'[v] # account[k].refresh
          /\ k \in misjudged => k \in misjudged'
      BY <1>1 DEF BindingsKeep
    <2>2. account[k].version = v
      BY <2>1 DEF Sure
    <2>3. TakenForSpent(k, v)
      BY <1>1, <2>1, <2>2 DEF HealthInv, MarkedSpent
    <2> QED
      BY <2>1, <2>3 DEF TakenForSpent
  <1>2. ASSUME account'[k] = account[k] PROVE v \in Version
    BY <1>2, Shapes DEF Sure
  <1>3. CASE SaveTokens
    <2>1. k # Head(inbox).key
      BY <1>3, SavesFor DEF HealthInv
    <2>2. /\ Sure(k, v) /\ valid' = valid /\ account'[k] = account[k]
          /\ k \in misjudged => k \in misjudged'
      BY <1>3, <2>1, SavesFor DEF HealthInv
    <2> QED
      BY <2>2 DEF HealthInv, MarkedSpent, TakenForSpent
  <1>4. CASE Mark /\ BindingsKeep
    <2> DEFINE r == Head(inbox)
    <2>1. inbox # <<>> /\ r.kind = "mark" /\ valid' = valid
      BY <1>4 DEF Mark, Serving, providerVars
    <2>2. r = inbox[1] /\ 1 \in DOMAIN inbox /\ r \in Request
      BY <2>1, Served
    <2>3. CASE Current(r) /\ k = r.key
      <3>1. PICK a \in Account : account[k] = a
        BY <2>3, Shapes DEF Current
      <3>2. account' = [account EXCEPT ![k] = [a EXCEPT !.status = "reauth_required"]]
        BY <1>4, <2>3, <3>1 DEF Mark
      <3>3. account'[k].version = a.version
        BY <3>2 DEF TypeOK, Account
      <3>4. v = r.version /\ v \in Version
        BY <2>3, <3>1, <3>3 DEF Current, Account
      <3>5. /\ Sure(k, v) /\ account'[k].refresh = account[k].refresh
            /\ k \in misjudged => k \in misjudged'
        BY <1>4, <3>4 DEF BindingsKeep
      <3>6. TakenForSpent(k, v)
        BY <2>1, <2>2, <2>3, <3>4, <3>5 DEF HealthInv, RequestsSound, RequestSound
      <3> QED
        BY <2>1, <3>5, <3>6 DEF TakenForSpent
    <2>4. CASE ~(Current(r) /\ k = r.key)
      <3>1. account'[k] = account[k]
        BY <1>4, <2>4 DEF Mark, TypeOK
      <3> QED
        BY <1>1, <1>2, <1>4, <3>1
    <2> QED
      BY <2>3, <2>4
  <1>5. ASSUME NEW l \in Keys, Link(l), BindingsKeep
        PROVE  TakenForSpent(k, v)'
    <2>1. account'[l].status = "active" /\ \A m \in Keys : m # l => account'[m] = account[m]
      BY <1>5 DEF Link, TypeOK
    <2>2. account'[k] = account[k]
      BY <2>1
    <2> QED
      BY <1>1, <1>2, <1>5, <2>2
  <1>6. ASSUME BindingsKeep, ~SaveTokens, ~Mark, \A l \in Keys : ~Link(l)
        PROVE  TakenForSpent(k, v)'
    <2>1. account'[k] = account[k] \/ account'[k] = None
      <3>1. CASE UNCHANGED vars
        BY <3>1 DEF vars, profileVars
      <3>2. ASSUME NEW c \in Callers, Get(c) \/ Finish(c) \/ \E l \in Keys : Ask(c, l)
            PROVE  account' = account
        BY <3>2 DEF Get, GetCached, Coalesce, GetRefused, GetStored, StartWorker, Spawn,
                    Finish, Ask, profileVars
      <3>3. ASSUME NEW p \in Pids, Work(p) \/ Report(p) \/ WorkerDies(p)
            PROVE  account' = account
        BY <3>3 DEF Work, Granted, Refused, Unanswered, Report, WorkerDone, Down, WorkerDies,
                    profileVars
      <3>4. ASSUME NEW l \in Keys, Unlink(l) \/ Invalidate(l) \/ Revoke(l)
            PROVE  account'[k] = account[k] \/ account'[k] = None
        BY <3>4 DEF Unlink, Invalidate, Revoke, profileVars, TypeOK
      <3>5. CASE Delete
        BY <3>5 DEF Delete
      <3>6. CASE Serve
        BY <1>6, <3>6 DEF Serve, SaveStale, SaveFails
      <3>7. ASSUME NEW t \in Grants, Expire(t) PROVE account' = account
        BY <3>7 DEF Expire, profileVars
      <3>8. ASSUME NEW profilesToo \in BOOLEAN, Crash(profilesToo) PROVE account' = account
        BY <3>8 DEF Crash
      <3> QED
        BY <1>6, <3>1, <3>2, <3>3, <3>4, <3>5, <3>6, <3>7, <3>8 DEF Next
    <2>2. account'[k] = account[k]
      BY <2>1 DEF Sure
    <2> QED
      BY <1>1, <1>2, <1>6, <2>2
  <1> QED
    BY <1>3, <1>4, <1>5, <1>6, StepKeepsBindings

-----------------------------------------------------------------------------
(* The theorems.                                                             *)

\* The invariant holds at the start ...
LEMMA InitIInv == Init => IInv
  <1> SUFFICES ASSUME Init PROVE IInv
    OBVIOUS
  <1>1. Version = {} /\ Grants = {}
    BY DEF Init, Version, Grants
  <1>2. TypeOK
    BY <1>1 DEF Init, TypeOK
  <1>3. InboxOwned /\ SentOfBindings
    BY DEF Init, InboxOwned, SentOfBindings
  <1>4. WaitingAsked
    BY DEF Init, WaitingAsked, Waiting
  <1>5. StoredOfItsBinding /\ CachedOfBindings /\ HeldOfBindings /\ RepliesOfBindings
    BY DEF Init, StoredOfItsBinding, CachedOfBindings, HeldOfBindings, RepliesOfBindings,
           IdleCall
  <1> QED
    BY <1>2, <1>3, <1>4, <1>5 DEF IInv, TokensOfBindings

\* ... and every step keeps it.
LEMMA NextIInv == IInv /\ [Next]_vars => IInv'
  BY TypesKept, InboxOwnedKept, WaitingAskedKept, StoredKept, CachedKept, HeldKept, SentKept,
     RepliesKept DEF IInv, TokensOfBindings

\* The invariant from which the theorems follow: types, the requests that
\* Profiles still holds, who waits for what, and the binding of every token.
THEOREM TokensInvariant == Spec => []IInv
  BY InitIInv, NextIInv, PTL DEF Spec

\* The state of tokens.ex and of the accounts keeps its shape: in particular
\* a cached token, a refresh in flight and a caller's reply are of a grant the
\* provider made and of an account that was linked.
THEOREM TokensTypeCorrect == Spec => []TypeOK
  <1>1. IInv => TypeOK
    BY DEF IInv
  <1> QED
    BY <1>1, TokensInvariant, PTL

\* tokens.ex:13-15: however links, refreshes and crashes interleave, the tokens
\* stored with an account were granted for its current binding.
THEOREM TokensStoredOfItsBinding == Spec => []StoredOfItsBinding
  <1>1. IInv => StoredOfItsBinding
    BY DEF IInv, TokensOfBindings
  <1> QED
    BY <1>1, TokensInvariant, PTL

\* A reader that checks the binding before and after it asks (net.ex) never
\* uses a token that was granted for another binding.
THEOREM TokensAcceptedOfItsBinding == Spec => []AcceptedOfItsBinding
  <1>1. IInv => AcceptedOfItsBinding
    <2>1. ASSUME IInv, NEW c \in Callers, Accepted(c)
          PROVE  binding[call[c].got] = call[c].version
      <3>1. call[c] \in Call
        BY <2>1 DEF IInv, TypeOK, Accepted, IdleCall
      <3>2. call[c].version # None
        BY <2>1, <3>1, TokensAssumption DEF IInv, TypeOK, Call, Version
      <3>3. account[call[c].key] # None /\ account[call[c].key].version = call[c].version
        BY <2>1, <3>2 DEF Accepted, Active
      <3> QED
        BY <2>1, <3>3 DEF IInv, RepliesOfBindings, Accepted
    <2> QED
      BY <2>1 DEF AcceptedOfItsBinding
  <1> QED
    BY <1>1, TokensInvariant, PTL

\* Once Profiles is done with an account, however the coordinator, its workers
\* and their crashes interleave, nothing cached is of a binding it replaced.
THEOREM TokensCacheIsCurrent == Spec => []CacheIsCurrent
  <1>1. Init => CacheIsCurrent
    BY DEF Init, CacheIsCurrent
  <1>2. IInv /\ CacheIsCurrent /\ [Next]_vars => CacheIsCurrent'
    BY CurrentKept DEF IInv
  <1> QED
    BY <1>1, <1>2, TokensInvariant, PTL DEF Spec

\* tokens.ex:6: while callers of an account wait there is exactly one worker for
\* it, everyone who waits is registered for its reply, and no worker runs for
\* nobody, also after workers and processes crashed.
THEOREM TokensWaitersHaveWorker == Spec => []WaitersHaveWorker
  <1>1. Init => WaitsAreWorked /\ WaitsAreRegistered
    BY DEF Init, WaitsAreWorked, WaitsAreRegistered, IdleCall
  <1>2. IInv /\ WaitsAreWorked /\ WaitsAreRegistered /\ [Next]_vars =>
            WaitsAreWorked' /\ WaitsAreRegistered'
    BY WorkedKept, RegisteredKept DEF IInv
  <1>3. IInv /\ WaitsAreWorked /\ WaitsAreRegistered => WaitersHaveWorker
    <2> SUFFICES ASSUME IInv, WaitsAreWorked, WaitsAreRegistered PROVE WaitersHaveWorker
      OBVIOUS
    <2>1. ASSUME NEW k \in Keys
          PROVE  Cardinality(WorkersOf(k)) = IF in_flight[k] = None THEN 0 ELSE 1
      <3>1. k # None
        BY TokensAssumption
      <3>2. CASE in_flight[k] = None
        <4>1. WorkersOf(k) = {}
          BY <3>1, <3>2 DEF WaitsAreWorked, WorkersOf
        <4> QED
          BY <3>2, <4>1, FS_EmptySet
      <3>3. CASE in_flight[k] # None
        <4>1. PICK p \in Pids : tasks[p] = k
          BY <3>3 DEF WaitsAreWorked
        <4>2. WorkersOf(k) = {p}
          BY <3>1, <4>1 DEF WaitsAreWorked, WorkersOf
        <4> QED
          BY <3>3, <4>2, FS_Singleton
      <3> QED
        BY <3>2, <3>3
    <2>2. WaitingIsRegistered
      BY WaitingCallers DEF IInv, WaitingAsked, WaitsAreRegistered, WaitingIsRegistered
    <2> QED
      BY <2>1, <2>2 DEF WaitersHaveWorker, OneWorkerPerWait
  <1> QED
    BY <1>1, <1>2, <1>3, TokensInvariant, PTL DEF Spec

\* The coordinator spends no refresh token twice: an account whose stored
\* refresh token the provider accepts is marked only if an answer about that very
\* token was misjudged (a 401, or a 400 that mentions an expiry or revocation),
\* or a granted refresh failed to be saved, or the worker that brought it was gone
\* by then.  Neither two workers of one account, nor a late answer of an earlier
\* binding, nor the order in which Profiles serves its requests can do it.
THEOREM TokensHealthyStaysActive == Spec => []HealthyStaysActive
  <1>1. Init => WaitsAreWorked /\ HealthInv
    BY DEF Init, WaitsAreWorked, HealthInv, JobsKeyed, AskingWithStored, RequestsSound,
           MarkedSpent, Sure
  <1>2. IInv /\ WaitsAreWorked /\ HealthInv /\ [Next]_vars => WaitsAreWorked' /\ HealthInv'
    <2> SUFFICES ASSUME IInv, WaitsAreWorked, HealthInv, [Next]_vars
                 PROVE  WaitsAreWorked' /\ HealthInv'
      OBVIOUS
    <2>1. TypeOK /\ TypeOK' /\ InboxOwned /\ TokensOfBindings
      BY NextIInv DEF IInv
    <2>2. WaitsAreWorked'
      BY <2>1, WorkedKept
    <2>3. JobsKeyed'
      BY <2>1, JobsKeyedKept DEF HealthInv
    <2>4. AskingWithStored' /\ RequestsSound' /\ MarkedSpent'
      BY <2>1, AskingKept, RequestsKept, MarkedKept
    <2> QED
      BY <2>2, <2>3, <2>4 DEF HealthInv
  <1>3. HealthInv => HealthyStaysActive
    BY DEF HealthInv, MarkedSpent, Sure, TakenForSpent, HealthyStaysActive, MarkedHealthy
  <1> QED
    BY <1>1, <1>2, <1>3, TokensInvariant, PTL DEF Spec
=============================================================================
