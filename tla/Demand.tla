------------------------------- MODULE Demand -------------------------------
(***************************************************************************)
(* Who is watching and which connectors run: the viewer leases of          *)
(* lib/chat_overlay/admission.ex, the source processes of                  *)
(* lib/chat_overlay/source.ex with their worker, retry timer and viewer    *)
(* grace, and the part of lib/chat_overlay/profiles.ex that starts and     *)
(* stops sources when a profile is saved or deleted.                       *)
(*                                                                         *)
(* Admission only ever casts to a source; a source calls Admission back    *)
(* while it handles the cast, so it counts the demand of that later        *)
(* moment.  A timer that has fired is a message in the mailbox and can no  *)
(* longer be cancelled.  Clock time is left out: a timer fires any time    *)
(* after it was armed, and a due time is a token with the number of timer  *)
(* periods still to wait for it.                                           *)
(***************************************************************************)
EXTENDS Integers, Sequences, FiniteSets

CONSTANTS
    Handles, Sources, Viewers,
    None,
    Kick,           \* the sources of the platform that pushes by webhook
    StartProfiles,  \* what the profiles may be at the start; {} is no profile
    Saves,          \* profile saves <<handle, sources>>; {} deletes the profile
    MoveShared,     \* may a save touch a source that another profile has too?
    Capacity,       \* 100 viewers
    MaxPeriods,     \* bound: timer periods a retry waits
    MaxDues,        \* bound: due times a source has set
    MaxMail,        \* bound: messages and timers a source has when a viewer comes or goes
    MaxCrashes      \* bound: crashes of a source or of Admission

ASSUME DemandAssumption ==
    /\ Kick \subseteq Sources
    /\ StartProfiles \subseteq [Handles -> SUBSET Sources]
    /\ Saves \subseteq Handles \X SUBSET Sources
    /\ MoveShared \in BOOLEAN
    /\ {Capacity, MaxPeriods, MaxDues, MaxMail, MaxCrashes} \subseteq Nat
    /\ IsFiniteSet(Handles) /\ IsFiniteSet(Viewers)
    /\ None \notin Handles /\ None \notin Nat
    /\ None \notin [msg : {"idle", "retry"} \X Nat, n : Nat]
    /\ None \notin [start : SUBSET Sources, stop : SUBSET Sources]

VARIABLES
    profiles,   \* Config: the sources of each profile
    sync,       \* what a save still has to tell the supervisor, or None
    lease,      \* Admission: the profile each viewer reserved, or None
    counts,     \* Admission: viewers per profile
    running,    \* supervised sources
    mail,       \* mailbox of each source
    live,       \* timers of each source that have not fired
    demand,     \* s.demand
    worker,     \* s.worker: is a connector task running?
    timer,      \* s.timer: the retry timer, or None
    grace,      \* s.grace: the idle timer, or None
    next,       \* s.next_attempt: a token, or None
    periods,    \* timer periods until next_attempt
    dues,       \* tokens used so far
    gap,        \* s.gap
    held,       \* the profiles whose store holds messages of the source ...
    stale,      \* ... one of them deleted upstream, which the store has not heard
    inHand,     \* is a webhook past its check and about to publish?
    crashes

configVars == <<profiles, sync>>
leaseVars == <<lease, counts>>
timeVars == <<timer, grace, next, periods, dues>>
contentVars == <<held, stale>>
sourceVars == <<running, mail, live, demand, worker, timeVars, gap>>
vars == <<configVars, leaseVars, sourceVars, contentVars, inHand, crashes>>

-----------------------------------------------------------------------------
Configured == UNION {profiles[h] : h \in Handles}

\* Config.handles/1
HandlesOf(s) == {h \in Handles : s \in profiles[h]}

\* {:demand, source}: the profiles with this source that somebody watches.
DemandCount(s) == Cardinality({h \in HandlesOf(s) : counts[h] > 0})
Watched(s) == DemandCount(s) > 0

Wake == <<"demand", 0>>
IdleMsg == <<"idle", 0>>
RetryMsg(due) == <<"retry", due>>

\* Source.demand/2 on every source of S: a cast to no process is lost.
Cast(S) ==
    mail' = [s \in Sources |->
                IF s \in S \cap running THEN Append(mail[s], Wake) ELSE mail[s]]

\* Process.send_after: a timer with this message, new to the source.
Timer(s, msg) ==
    [msg |-> msg,
     n |-> CHOOSE n \in 0 .. Cardinality(live[s]) + 2 :
              [msg |-> msg, n |-> n] \notin live[s] \cup {timer[s], grace[s]}]

-----------------------------------------------------------------------------
(* Admission.                                                              *)

Leases(h) == Cardinality({v \in Viewers : lease[v] = h})
MailFits(S) ==
    \A s \in S \cap running : Len(mail[s]) + Cardinality(live[s]) < MaxMail

\* Mutant: looks at the counter after the change.
ToldAfter(h, edge) == IF counts[h] = 1 - edge THEN profiles[h] ELSE {}

\* The sources a change of the viewers of h between 0 and 1 is told to.
Told(h, edge) == IF counts[h] = edge THEN profiles[h] ELSE {}

Acquire(v, h) ==
    /\ lease[v] = None
    /\ profiles[h] # {}
    /\ Cardinality({w \in Viewers : lease[w] # None}) < Capacity
    /\ MailFits(profiles[h])
    /\ Cast(Told(h, 0))
    /\ lease' = [lease EXCEPT ![v] = h]
    /\ counts' = [counts EXCEPT ![h] = @ + 1]
    /\ UNCHANGED <<configVars, running, live, demand, worker, timeVars, gap,
                   contentVars, inHand, crashes>>

\* Mutant: a viewer that leaves is still counted.
LeaveCounted(v) ==
    /\ lease[v] # None
    /\ lease' = [lease EXCEPT ![v] = None]
    /\ UNCHANGED <<configVars, counts, sourceVars, contentVars, inHand, crashes>>

\* release/0 at the end of a stream, or the :DOWN of a viewer that died.
Leave(v) ==
    /\ lease[v] # None
    /\ MailFits(profiles[lease[v]])
    /\ Cast(Told(lease[v], 1))
    /\ lease' = [lease EXCEPT ![v] = None]
    /\ counts' = [counts EXCEPT ![lease[v]] = @ - 1]
    /\ UNCHANGED <<configVars, running, live, demand, worker, timeVars, gap,
                   contentVars, inHand, crashes>>

-----------------------------------------------------------------------------
(* Source.                                                                 *)

\* Source s is handling msg; casts and timers are handled in their order.
Handling(s, msg) ==
    /\ s \in running
    /\ mail[s] # <<>>
    /\ Head(mail[s]) = msg
    /\ mail' = [mail EXCEPT ![s] = Tail(@)]
    /\ UNCHANGED <<configVars, leaseVars, running, inHand, crashes>>

\* Publishing clear_channel: the messages of the source leave the stores of
\* the profiles that have it.
ClearIf(s, cond) ==
    LET kept(H) == IF cond THEN H \ HandlesOf(s) ELSE H
    IN /\ held' = [held EXCEPT ![s] = kept(@)]
       /\ stale' = [stale EXCEPT ![s] = kept(@)]

\* Mutants: the grace starts once and is cancelled all the same; the idle timer
\* lands in the field of the retry timer.
RestOnce(s) ==
    /\ Handling(s, Wake)
    /\ ~Watched(s)
    /\ LET t == Timer(s, IdleMsg)
       IN IF grace[s] = None
          THEN grace' = [grace EXCEPT ![s] = t] /\ live' = [live EXCEPT ![s] = @ \cup {t}]
          ELSE UNCHANGED grace /\ live' = [live EXCEPT ![s] = @ \ {grace[s]}]
    /\ demand' = [demand EXCEPT ![s] = 0]
    /\ UNCHANGED <<worker, timer, next, periods, dues, gap, contentVars>>

RestInTimer(s) ==
    /\ Handling(s, Wake)
    /\ ~Watched(s)
    /\ LET t == Timer(s, IdleMsg)
       IN /\ timer' = [timer EXCEPT ![s] = t]
          /\ live' = [live EXCEPT ![s] = (@ \ {grace[s]}) \cup {t}]
    /\ demand' = [demand EXCEPT ![s] = 0]
    /\ UNCHANGED <<worker, grace, next, periods, dues, gap, contentVars>>

\* :acquire or :release with nobody watching: the viewer grace begins (again).
Rest(s) ==
    /\ Handling(s, Wake)
    /\ ~Watched(s)
    /\ LET t == Timer(s, IdleMsg)
       IN /\ grace' = [grace EXCEPT ![s] = t]
          /\ live' = [live EXCEPT ![s] = (@ \ {grace[s]}) \cup {t}]
    /\ demand' = [demand EXCEPT ![s] = 0]
    /\ UNCHANGED <<worker, timer, next, periods, dues, gap, contentVars>>

\* :acquire or :release with somebody watching: no grace any more; a kick
\* source that went idle clears the old messages first.
Wanted(s) ==
    /\ Handling(s, Wake)
    /\ Watched(s)
    /\ demand' = [demand EXCEPT ![s] = DemandCount(s)]
    /\ grace' = [grace EXCEPT ![s] = None]
    /\ gap' = [gap EXCEPT ![s] = @ /\ s \notin Kick]

\* ... which changes nothing else when a worker or a retry is under way.
WantedAlready(s) ==
    /\ Wanted(s)
    /\ worker[s] \/ timer[s] # None
    /\ live' = [live EXCEPT ![s] = @ \ {grace[s]}]
    /\ ClearIf(s, s \in Kick /\ gap[s])
    /\ UNCHANGED <<worker, timer, next, periods, dues>>

\* ... starts the retry timer when the upstream wants us to wait ...
WantedLater(s) ==
    /\ Wanted(s)
    /\ ~worker[s] /\ timer[s] = None
    /\ next[s] # None /\ periods[s] > 0
    /\ LET t == Timer(s, RetryMsg(next[s]))
       IN /\ timer' = [timer EXCEPT ![s] = t]
          /\ live' = [live EXCEPT ![s] = (@ \ {grace[s]}) \cup {t}]
    /\ ClearIf(s, s \in Kick /\ gap[s])
    /\ UNCHANGED <<worker, next, periods, dues>>

\* launch/1
Launch(s) ==
    /\ worker' = [worker EXCEPT ![s] = TRUE]
    /\ next' = [next EXCEPT ![s] = None]
    /\ UNCHANGED <<periods, dues>>

\* ... or launches the worker at once.
WantedNow(s) ==
    /\ Wanted(s)
    /\ ~worker[s] /\ timer[s] = None
    /\ next[s] = None \/ periods[s] = 0
    /\ Launch(s)
    /\ live' = [live EXCEPT ![s] = @ \ {grace[s]}]
    /\ ClearIf(s, s \notin Kick \/ gap[s])
    /\ UNCHANGED timer

\* Mutants: the idle timer does not look at the demand; it keeps s.timer.
IdleRegardless(s) ==
    /\ Handling(s, IdleMsg)
    /\ worker' = [worker EXCEPT ![s] = FALSE]
    /\ live' = [live EXCEPT ![s] = @ \ {timer[s]}]
    /\ timer' = [timer EXCEPT ![s] = None]
    /\ grace' = [grace EXCEPT ![s] = None]
    /\ gap' = [gap EXCEPT ![s] = TRUE]
    /\ UNCHANGED <<demand, next, periods, dues, contentVars>>

IdleKeepingTimer(s) ==
    /\ Handling(s, IdleMsg)
    /\ demand[s] = 0
    /\ worker' = [worker EXCEPT ![s] = FALSE]
    /\ live' = [live EXCEPT ![s] = @ \ {timer[s]}]
    /\ grace' = [grace EXCEPT ![s] = None]
    /\ gap' = [gap EXCEPT ![s] = TRUE]
    /\ UNCHANGED <<demand, timer, next, periods, dues, contentVars>>

\* :idle without demand stops the worker and the retry timer, not the due time.
Idle(s) ==
    /\ Handling(s, IdleMsg)
    /\ demand[s] = 0
    /\ worker' = [worker EXCEPT ![s] = FALSE]
    /\ live' = [live EXCEPT ![s] = @ \ {timer[s]}]
    /\ timer' = [timer EXCEPT ![s] = None]
    /\ grace' = [grace EXCEPT ![s] = None]
    /\ gap' = [gap EXCEPT ![s] = TRUE]
    /\ UNCHANGED <<demand, next, periods, dues, contentVars>>

\* {:retry, due} counts only for the current due time and without a worker.
Due(s) == next[s] # None /\ Handling(s, RetryMsg(next[s])) /\ ~worker[s]

RetryUnwanted(s) ==
    /\ Due(s)
    /\ demand[s] = 0
    /\ timer' = [timer EXCEPT ![s] = None]
    /\ UNCHANGED <<live, demand, worker, grace, next, periods, dues, gap, contentVars>>

RetryLater(s) ==
    /\ Due(s)
    /\ demand[s] > 0
    /\ periods[s] > 0
    /\ LET t == Timer(s, RetryMsg(next[s]))
       IN /\ timer' = [timer EXCEPT ![s] = t]
          /\ live' = [live EXCEPT ![s] = @ \cup {t}]
    /\ UNCHANGED <<demand, worker, grace, next, periods, dues, gap, contentVars>>

\* Mutant: a retry goes on where the last worker stopped.
RetryKeepingContent(s) ==
    /\ Due(s)
    /\ demand[s] > 0
    /\ periods[s] = 0
    /\ Launch(s)
    /\ timer' = [timer EXCEPT ![s] = None]
    /\ UNCHANGED <<live, demand, grace, gap, contentVars>>

RetryNow(s) ==
    /\ Due(s)
    /\ demand[s] > 0
    /\ periods[s] = 0
    /\ Launch(s)
    /\ timer' = [timer EXCEPT ![s] = None]
    /\ ClearIf(s, s \notin Kick)
    /\ UNCHANGED <<live, demand, grace, gap>>

\* A timer message that came too late.
Ignore(s) ==
    /\ \/ Handling(s, IdleMsg) /\ demand[s] > 0
       \/ \E d \in 1 .. MaxDues :
             Handling(s, RetryMsg(d)) /\ (worker[s] \/ next[s] # d)
    /\ UNCHANGED <<live, demand, worker, timeVars, gap, contentVars>>

Handle(s) ==
    \/ Rest(s) \/ WantedAlready(s) \/ WantedLater(s) \/ WantedNow(s)
    \/ Idle(s) \/ RetryUnwanted(s) \/ RetryLater(s) \/ RetryNow(s) \/ Ignore(s)

\* The worker ends, in whatever way: the source waits before the next attempt.
Result(s, wait) ==
    /\ worker[s]
    /\ dues[s] < MaxDues
    /\ worker' = [worker EXCEPT ![s] = FALSE]
    /\ dues' = [dues EXCEPT ![s] = @ + 1]
    /\ next' = [next EXCEPT ![s] = dues[s] + 1]
    /\ periods' = [periods EXCEPT ![s] = wait]
    /\ IF demand[s] > 0
       THEN LET t == Timer(s, RetryMsg(dues[s] + 1))
            IN timer' = [timer EXCEPT ![s] = t] /\ live' = [live EXCEPT ![s] = @ \cup {t}]
       ELSE timer' = [timer EXCEPT ![s] = None] /\ UNCHANGED live
    /\ UNCHANGED <<configVars, leaseVars, running, mail, demand, grace, gap,
                   contentVars, inHand, crashes>>

\* {:defer, ms} from the worker: the next attempt is not before that.
Defer(s, wait) ==
    /\ worker[s]
    /\ dues[s] < MaxDues
    /\ next[s] = None \/ wait > periods[s]
    /\ dues' = [dues EXCEPT ![s] = @ + 1]
    /\ next' = [next EXCEPT ![s] = dues[s] + 1]
    /\ periods' = [periods EXCEPT ![s] = wait]
    /\ UNCHANGED <<configVars, leaseVars, running, mail, live, demand, worker,
                   timer, grace, gap, contentVars, inHand, crashes>>

Elapse(s) ==
    /\ periods[s] > 0
    /\ periods' = [periods EXCEPT ![s] = @ - 1]
    /\ UNCHANGED <<configVars, leaseVars, running, mail, live, demand, worker,
                   timer, grace, next, dues, gap, contentVars, inHand, crashes>>

Fire(s) ==
    /\ \E t \in live[s] :
          /\ live' = [live EXCEPT ![s] = @ \ {t}]
          /\ mail' = [mail EXCEPT ![s] = Append(@, t.msg)]
    /\ UNCHANGED <<configVars, leaseVars, running, demand, worker, timeVars, gap,
                   contentVars, inHand, crashes>>

\* Processes S end and are forgotten, or start with init/1 and its :restore.
Fresh(started, stopped) ==
    /\ mail' = [s \in Sources |-> IF s \in started THEN <<Wake>>
                                  ELSE IF s \in stopped THEN <<>> ELSE mail[s]]
    /\ live' = [s \in Sources |-> IF s \in started \cup stopped THEN {} ELSE live[s]]
    /\ demand' = [s \in Sources |-> IF s \in started \cup stopped THEN 0 ELSE demand[s]]
    /\ worker' = [s \in Sources |-> worker[s] /\ s \notin started \cup stopped]
    /\ timer' = [s \in Sources |-> IF s \in started \cup stopped THEN None ELSE timer[s]]
    /\ grace' = [s \in Sources |-> IF s \in started \cup stopped THEN None ELSE grace[s]]
    /\ next' = [s \in Sources |-> IF s \in started \cup stopped THEN None ELSE next[s]]
    /\ periods' = [s \in Sources |-> IF s \in started \cup stopped THEN 0 ELSE periods[s]]
    /\ gap' = [s \in Sources |-> gap[s] \/ s \in started \cup stopped]
    /\ dues' = [s \in Sources |-> IF s \in started \cup stopped THEN 0 ELSE dues[s]]

-----------------------------------------------------------------------------
(* Profile saves, one at a time, and the supervisors.                      *)

\* The new profiles are visible at once, the sources follow.  The store of a
\* deleted profile ends.
Save(h, S) ==
    /\ sync = None
    /\ S = {} => profiles[h] # {}
    /\ MoveShared \/ \A s \in Sources :
                        (s \in S) # (s \in profiles[h]) => HandlesOf(s) \subseteq {h}
    /\ profiles' = [profiles EXCEPT ![h] = S]
    /\ sync' = [start |-> S, stop |-> profiles[h] \ S]
    /\ held' = [s \in Sources |-> IF S = {} THEN held[s] \ {h} ELSE held[s]]
    /\ stale' = [s \in Sources |-> IF S = {} THEN stale[s] \ {h} ELSE stale[s]]
    /\ UNCHANGED <<leaseVars, sourceVars, inHand, crashes>>

\* start_child: nothing happens when the source is already there.
StartSource(s) ==
    /\ sync # None
    /\ s \in sync.start
    /\ sync' = [sync EXCEPT !.start = @ \ {s}]
    /\ Fresh({s} \ running, {})
    /\ running' = running \cup {s}
    /\ UNCHANGED <<profiles, leaseVars, contentVars, inHand, crashes>>

\* cleanup_removed_sources/2
StopSources ==
    /\ sync # None
    /\ sync.start = {}
    /\ sync' = None
    /\ Fresh({}, sync.stop \ Configured)
    /\ running' = running \ (sync.stop \ Configured)
    /\ UNCHANGED <<profiles, leaseVars, contentVars, inHand, crashes>>

\* A source is started again by its supervisor; its worker was linked to it.
CrashSource(s) ==
    /\ s \in running
    /\ crashes < MaxCrashes
    /\ crashes' = crashes + 1
    /\ Fresh({s}, {})
    /\ UNCHANGED <<configVars, leaseVars, running, contentVars, inHand>>

\* rest_for_one: with Admission everything started after it starts again, the
\* sources of the current profiles and the HTTP listener with its streams.
CrashAdmission ==
    /\ crashes < MaxCrashes
    /\ crashes' = crashes + 1
    /\ lease' = [v \in Viewers |-> None]
    /\ counts' = [h \in Handles |-> 0]
    /\ Fresh(Configured, running \ Configured)
    /\ running' = Configured
    /\ inHand' = [s \in Sources |-> FALSE]
    /\ UNCHANGED <<configVars, contentVars>>

-----------------------------------------------------------------------------
(* The chat upstream.                                                      *)

Publish(s) == held' = [held EXCEPT ![s] = @ \cup HandlesOf(s)]

\* A worker delivers a message.
Hear(s) ==
    /\ s \notin Kick
    /\ worker[s]
    /\ Publish(s)
    /\ UNCHANGED <<configVars, leaseVars, sourceVars, stale, inHand, crashes>>

\* A webhook of a source nobody watches is answered and dropped.
WebhookCheck(s) ==
    /\ s \in Kick \cap Configured
    /\ Watched(s)
    /\ inHand' = [inHand EXCEPT ![s] = TRUE]
    /\ UNCHANGED <<configVars, leaseVars, sourceVars, contentVars, crashes>>

WebhookPublish(s) ==
    /\ inHand[s]
    /\ inHand' = [inHand EXCEPT ![s] = FALSE]
    /\ Publish(s)
    /\ UNCHANGED <<configVars, leaseVars, sourceVars, stale, crashes>>

\* The stores that would hear of a deletion now.
Hearing(s) ==
    IF (s \in Kick /\ Watched(s)) \/ (s \notin Kick /\ worker[s]) THEN HandlesOf(s) ELSE {}

MissDeletion(s) ==
    /\ held[s] \ Hearing(s) # {}
    /\ stale' = [stale EXCEPT ![s] = @ \cup (held[s] \ Hearing(s))]
    /\ UNCHANGED <<configVars, leaseVars, sourceVars, held, inHand, crashes>>

-----------------------------------------------------------------------------
Init ==
    /\ profiles \in StartProfiles
    /\ sync = None
    /\ lease = [v \in Viewers |-> None]
    /\ counts = [h \in Handles |-> 0]
    /\ running = Configured
    /\ mail = [s \in Sources |-> IF s \in running THEN <<Wake>> ELSE <<>>]
    /\ live = [s \in Sources |-> {}]
    /\ demand = [s \in Sources |-> 0]
    /\ worker = [s \in Sources |-> FALSE]
    /\ timer = [s \in Sources |-> None]
    /\ grace = [s \in Sources |-> None]
    /\ next = [s \in Sources |-> None]
    /\ periods = [s \in Sources |-> 0]
    /\ dues = [s \in Sources |-> 0]
    /\ gap = [s \in Sources |-> TRUE]
    /\ held = [s \in Sources |-> {}]
    /\ stale = [s \in Sources |-> {}]
    /\ inHand = [s \in Sources |-> FALSE]
    /\ crashes = 0

Waits == 1 .. MaxPeriods

Next ==
    \/ \E v \in Viewers : Leave(v) \/ \E h \in Handles : Acquire(v, h)
    \/ \E save \in Saves : Save(save[1], save[2])
    \/ StopSources
    \/ CrashAdmission
    \/ \E s \in Sources :
          \/ Handle(s) \/ Fire(s) \/ Elapse(s)
          \/ \E wait \in Waits : Result(s, wait) \/ Defer(s, wait)
          \/ StartSource(s) \/ CrashSource(s)
          \/ Hear(s) \/ WebhookCheck(s) \/ WebhookPublish(s) \/ MissDeletion(s)

Spec == Init /\ [][Next]_vars

\* A process handles its mailbox, a timer fires, time goes on, a save is
\* carried through.  Viewers, workers and the upstream owe nothing.
Fairness ==
    /\ WF_vars(StopSources)
    /\ \A s \in Sources : /\ WF_vars(Handle(s))
                          /\ WF_vars(Fire(s))
                          /\ WF_vars(Elapse(s))
                          /\ WF_vars(StartSource(s))
FairSpec == Spec /\ Fairness

-----------------------------------------------------------------------------
(* Properties.                                                             *)

RetryMsgs == {RetryMsg(d) : d \in 1 .. MaxDues}
MessageSet == {Wake, IdleMsg} \cup RetryMsgs
RetryTimer == [msg : RetryMsgs, n : Nat]
IdleTimer == [msg : {IdleMsg}, n : Nat]
Mailed(s) == {mail[s][i] : i \in DOMAIN mail[s]}

\* Every variable keeps its shape, and the timer fields hold the timers their
\* handlers expect: retries in s.timer, the idle message in s.grace.
TypeOK ==
    /\ profiles \in [Handles -> SUBSET Sources]
    /\ sync \in {None} \cup [start : SUBSET Sources, stop : SUBSET Sources]
    /\ lease \in [Viewers -> Handles \cup {None}]
    /\ counts \in [Handles -> Nat]
    /\ running \subseteq Sources
    /\ mail \in [Sources -> Seq(MessageSet)]
    /\ demand \in [Sources -> Nat]
    /\ worker \in [Sources -> BOOLEAN]
    /\ live \in [Sources -> SUBSET (RetryTimer \cup IdleTimer)]
    /\ timer \in [Sources -> RetryTimer \cup {None}]
    /\ grace \in [Sources -> IdleTimer \cup {None}]
    /\ next \in [Sources -> (1 .. MaxDues) \cup {None}]
    /\ periods \in [Sources -> Nat] /\ dues \in [Sources -> 0 .. MaxDues]
    /\ gap \in [Sources -> BOOLEAN] /\ inHand \in [Sources -> BOOLEAN]
    /\ held \in [Sources -> SUBSET Handles] /\ stale \in [Sources -> SUBSET Handles]
    /\ crashes \in Nat

\* Admission's counters are the leases it holds, whoever crashed or left.
CountsMatchLeases == \A h \in Handles : counts[h] = Leases(h)

\* No change of demand is lost: a source that does not know whether it is
\* watched has a message waiting that makes it look.  Holds as long as
\* no save touches a source that another profile has too.
DemandIsCurrent ==
    \A s \in running \cap Configured :
        (Watched(s) <=> demand[s] > 0) \/ Wake \in Mailed(s)

WaitingHasTimer ==
    \A s \in Sources : timer[s] # None =>
        /\ ~worker[s]
        /\ next[s] # None
        /\ \/ timer[s] \in live[s] /\ timer[s].msg = RetryMsg(next[s])
           \/ RetryMsg(next[s]) \in Mailed(s)

RestingHasGrace ==
    \A s \in running : worker[s] /\ demand[s] = 0 =>
        grace[s] \in live[s] \/ IdleMsg \in Mailed(s) \/ Wake \in Mailed(s)

\* A source that waits for a retry will be woken, by the timer it believes in
\* or by the message it has sent, for the due time it waits for; a worker
\* without demand has a grace timer or a message ahead that ends it or finds
\* new demand.  (A source that believes in a timer nobody set never starts a
\* worker again, or never stops one: source.ex:61-64, 87-130.)
TimersArmed == WaitingHasTimer /\ RestingHasGrace

\* docs/event-contract.md "Una reconexión upstream vacía el contenido
\* antiguo": no store shows a message of a connected source that was deleted
\* while the source was not connected.
ConnectedShowsNoStale ==
    \A s \in Sources \ Kick : worker[s] => stale[s] \cap HandlesOf(s) = {}

\* docs/architecture.md:19 "La primera vista activa la fuente": a source that
\* somebody keeps watching gets its worker, and gets it back after failures.
\* Violated when a save gives a watched profile a source that is there already
\* for another profile: nobody tells the source.
WatchedRuns == \A s \in Sources : []<>(worker[s] \/ ~Watched(s))

\* docs/architecture.md:19 "Los conectores no siguen leyendo indefinidamente sin
\* lectores": a source nobody watches any more stops its worker.
UnwatchedStops == \A s \in Sources : []<>(~worker[s] \/ Watched(s))
=============================================================================
