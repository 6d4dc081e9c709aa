---------------------------- MODULE DemandProofs ----------------------------
(***************************************************************************)
(* What holds of viewers and sources for every number of profiles, sources *)
(* and viewers, of timer periods, due times and crashes, and however long  *)
(* the mailboxes grow: no change of demand is lost, every source that      *)
(* waits is woken, and a connected source shows nothing that was deleted   *)
(* while it was away.                                                      *)
(***************************************************************************)
EXTENDS Demand, TLAPS, FiniteSetTheorems, SequenceTheorems

-----------------------------------------------------------------------------
(* The inductive invariant.                                                *)

\* WaitingHasTimer, RestingHasGrace, DemandIsCurrent and ConnectedShowsNoStale
\* for one source.
Waiting(s) ==
    timer[s] # None =>
        /\ ~worker[s]
        /\ next[s] # None
        /\ \/ timer[s] \in live[s] /\ timer[s].msg = RetryMsg(next[s])
           \/ RetryMsg(next[s]) \in Mailed(s)

Resting(s) ==
    s \in running /\ worker[s] /\ demand[s] = 0 =>
        grace[s] \in live[s] \/ IdleMsg \in Mailed(s) \/ Wake \in Mailed(s)

Aware(s) ==
    s \in running \cap Configured =>
        (Watched(s) <=> demand[s] > 0) \/ Wake \in Mailed(s)

Clean(s) == s \notin Kick /\ worker[s] => stale[s] \cap HandlesOf(s) = {}

\* A worker dies with its source, and a source has finitely many timers.
Supervised(s) == (worker[s] => s \in running) /\ IsFiniteSet(live[s])

SourceOK(s) ==
    /\ Waiting(s) /\ Resting(s) /\ Supervised(s)
    /\ MoveShared \/ (Aware(s) /\ Clean(s))

\* Between two saves every running source is configured; during one the
\* sources that the save is about to stop may run on.
SyncOK ==
    /\ sync = None => running \subseteq Configured
    /\ sync # None => /\ sync.start \subseteq Configured
                      /\ running \subseteq Configured \cup sync.stop

IInv == TypeOK /\ CountsMatchLeases /\ SyncOK /\ \A s \in Sources : SourceOK(s)

-----------------------------------------------------------------------------
(* Mailboxes, timers and counters.                                         *)

Elements(q) == {q[i] : i \in DOMAIN q}

\* A message put into a mailbox joins those that are there.
LEMMA AppendElements ==
    ASSUME NEW T, NEW q \in Seq(T), NEW m \in T
    PROVE  Append(q, m) \in Seq(T) /\ Elements(Append(q, m)) = Elements(q) \cup {m}
  <1>1. /\ Append(q, m) \in Seq(T)
        /\ Len(Append(q, m)) = Len(q) + 1
        /\ \A i \in 1 .. Len(q) : Append(q, m)[i] = q[i]
        /\ Append(q, m)[Len(q) + 1] = m
    BY AppendProperties
  <1>2. DOMAIN q = 1 .. Len(q) /\ Len(q) \in Nat /\ DOMAIN Append(q, m) = 1 .. Len(q) + 1
    BY <1>1, LenProperties
  <1>3. 1 .. Len(q) + 1 = (1 .. Len(q)) \cup {Len(q) + 1}
    BY <1>2
  <1>4. QED
    BY <1>1, <1>2, <1>3 DEF Elements

\* Taking the first message out leaves all the others.
LEMMA TailElements ==
    ASSUME NEW T, NEW q \in Seq(T), q # <<>>
    PROVE  /\ Tail(q) \in Seq(T)
           /\ Head(q) \in T
           /\ \A m \in Elements(q) : m # Head(q) => m \in Elements(Tail(q))
  <1>1. /\ Tail(q) \in Seq(T) /\ Head(q) \in T /\ Head(q) = q[1]
        /\ Len(Tail(q)) = Len(q) - 1
        /\ \A i \in 1 .. Len(q) - 1 : Tail(q)[i] = q[i + 1]
    BY HeadTailProperties
  <1>2. /\ DOMAIN q = 1 .. Len(q) /\ Len(q) \in Nat
        /\ DOMAIN Tail(q) = 1 .. Len(q) - 1
    BY <1>1, LenProperties
  <1>3. ASSUME NEW i \in DOMAIN q, q[i] # Head(q) PROVE q[i] \in Elements(Tail(q))
    <2>1. i - 1 \in 1 .. Len(q) - 1 /\ (i - 1) + 1 = i
      BY <1>1, <1>2, <1>3
    <2>2. Tail(q)[i - 1] = q[i]
      BY <1>1, <2>1
    <2>3. QED
      BY <1>2, <2>1, <2>2 DEF Elements
  <1>4. QED
    BY <1>1, <1>3 DEF Elements

\* The timers of a source are finitely many, so a new one always has a number.
LEMMA TimerIsNew ==
    ASSUME NEW s \in Sources, IsFiniteSet(live[s]), NEW msg
    PROVE  \E n \in Nat : Timer(s, msg) = [msg |-> msg, n |-> n]
  <1> DEFINE c == Cardinality(live[s])
             U == live[s] \cup {timer[s], grace[s]}
             R == 0 .. c + 2
             f == [n \in R |-> [msg |-> msg, n |-> n]]
  <1>1. c \in Nat
    BY FS_CardinalityType
  <1>2. IsFiniteSet(U) /\ Cardinality(U) \in Nat /\ Cardinality(U) <= c + 2
    <2>1. /\ IsFiniteSet(live[s] \cup {timer[s]})
          /\ Cardinality(live[s] \cup {timer[s]}) \in Nat
          /\ Cardinality(live[s] \cup {timer[s]}) <= c + 1
      <3> HIDE DEF c
      <3>1. /\ IsFiniteSet(live[s] \cup {timer[s]})
            /\ Cardinality(live[s] \cup {timer[s]}) = IF timer[s] \in live[s] THEN c ELSE c + 1
        BY FS_AddElement DEF c
      <3>2. QED
        BY <3>1, <1>1
    <2> DEFINE V == live[s] \cup {timer[s]}
    <2>2. U = V \cup {grace[s]}
      OBVIOUS
    <2>3. /\ IsFiniteSet(U)
          /\ Cardinality(U) = IF grace[s] \in V THEN Cardinality(V) ELSE Cardinality(V) + 1
      BY <2>1, <2>2, FS_AddElement
    <2> HIDE DEF c, U, V
    <2>4. Cardinality(V) \in Nat /\ Cardinality(V) <= c + 1
      BY <2>1 DEF V
    <2>5. QED
      BY <2>3, <2>4, <1>1
  <1>3. IsFiniteSet(R) /\ Cardinality(R) = c + 3
    <2> HIDE DEF c
    <2>1. 0 \in Int /\ c + 2 \in Int /\ ~(0 > c + 2) /\ (c + 2) - 0 + 1 = c + 3
      BY <1>1
    <2>2. QED
      BY <2>1, FS_Interval
  <1>4. \E n \in R : [msg |-> msg, n |-> n] \notin U
    <2>1. SUFFICES ASSUME \A n \in R : [msg |-> msg, n |-> n] \in U PROVE FALSE
      OBVIOUS
    <2>2. f \in [R -> U]
      BY <2>1
    <2>3. Cardinality(U) < Cardinality(R)
      <3> HIDE DEF c, U, R
      <3>1. QED
        BY <1>1, <1>2, <1>3
    <2>4. \E x, y \in R : x # y /\ f[x] = f[y]
      <3> HIDE DEF c, U, R, f
      <3>1. QED
        BY <1>2, <1>3, <2>2, <2>3, FS_PigeonHole
    <2>5. QED
      BY <2>4
  <1>5. PICK k \in R : Timer(s, msg) = [msg |-> msg, n |-> k]
    BY <1>4 DEF Timer
  <1>6. k \in Nat
    <2> HIDE DEF c
    <2>1. QED
      BY <1>1
  <1>7. QED
    BY <1>5, <1>6

\* What a source starts is a timer with its message, and none of the other kind.
LEMMA TimerShape ==
    ASSUME DemandAssumption, NEW s \in Sources, IsFiniteSet(live[s])
    PROVE  /\ Timer(s, IdleMsg) \in IdleTimer
           /\ \A d \in 1 .. MaxDues :
                 /\ Timer(s, RetryMsg(d)) \in RetryTimer
                 /\ Timer(s, RetryMsg(d)).msg = RetryMsg(d)
           /\ None \notin RetryTimer \cup IdleTimer
           /\ RetryTimer \cap IdleTimer = {}
  <1>1. /\ IdleMsg \in {"idle", "retry"} \X Nat
        /\ \A d \in 1 .. MaxDues : RetryMsg(d) \in {"idle", "retry"} \X Nat
    <2>1. MaxDues \in Nat
      BY DEF DemandAssumption
    <2>2. QED
      BY <2>1 DEF IdleMsg, RetryMsg
  <1>2. \A d \in 1 .. MaxDues : RetryMsg(d) # IdleMsg /\ RetryMsg(d) # Wake
    BY DEF RetryMsg, IdleMsg, Wake
  <1>3. None \notin RetryTimer \cup IdleTimer
    BY <1>1 DEF DemandAssumption, RetryTimer, IdleTimer, RetryMsgs
  <1>4. RetryTimer \cap IdleTimer = {}
    BY <1>2 DEF RetryTimer, IdleTimer, RetryMsgs
  <1>5. Timer(s, IdleMsg) \in IdleTimer
    BY TimerIsNew DEF IdleTimer
  <1>6. ASSUME NEW d \in 1 .. MaxDues
        PROVE  Timer(s, RetryMsg(d)) \in RetryTimer /\ Timer(s, RetryMsg(d)).msg = RetryMsg(d)
    BY TimerIsNew DEF RetryTimer, RetryMsgs
  <1>7. QED
    BY <1>3, <1>4, <1>5, <1>6

CountOf(s, p, c) == Cardinality({h \in {g \in Handles : s \in p[g]} : c[h] > 0})

\* A count of watched profiles is above zero exactly when there is one.
LEMMA CountIffSome ==
    ASSUME DemandAssumption, NEW s, NEW p, NEW c
    PROVE  /\ CountOf(s, p, c) \in Nat
           /\ CountOf(s, p, c) > 0 <=> \E h \in Handles : s \in p[h] /\ c[h] > 0
  <1> DEFINE W == {h \in {g \in Handles : s \in p[g]} : c[h] > 0}
  <1>1. W \in SUBSET Handles /\ IsFiniteSet(Handles)
    BY DEF DemandAssumption
  <1>2. IsFiniteSet(W) /\ Cardinality(W) \in Nat /\ (Cardinality(W) = 0 <=> W = {})
    <2> HIDE DEF W
    <2>1. QED
      BY <1>1, FS_Subset, FS_CardinalityType, FS_EmptySet
  <1>3. W = {} <=> ~\E h \in Handles : s \in p[h] /\ c[h] > 0
    OBVIOUS
  <1>4. CountOf(s, p, c) = Cardinality(W)
    BY DEF CountOf
  <1> HIDE DEF W
  <1>5. QED
    BY <1>2, <1>3, <1>4

\* {:demand, source} is above zero exactly when one of its profiles is watched.
LEMMA WatchedIffSome ==
    ASSUME DemandAssumption, NEW s \in Sources
    PROVE  /\ DemandCount(s) \in Nat
           /\ Watched(s) <=> \E h \in Handles : s \in profiles[h] /\ counts[h] > 0
           /\ Watched(s)' <=> \E h \in Handles : s \in profiles'[h] /\ counts'[h] > 0
  <1>1. DemandCount(s) = CountOf(s, profiles, counts)
    BY DEF DemandCount, HandlesOf, CountOf
  <1>2. DemandCount(s)' = CountOf(s, profiles', counts')
    BY DEF DemandCount, HandlesOf, CountOf
  <1>3. Watched(s) <=> DemandCount(s) > 0
    BY DEF Watched
  <1>4. Watched(s)' <=> DemandCount(s)' > 0
    BY DEF Watched
  <1>5. QED
    BY <1>1, <1>2, <1>3, <1>4, CountIffSome

-----------------------------------------------------------------------------
(* Steps of one source.                                                    *)

\* Who watches what depends on the profiles and the counters only.
LEMMA DemandSame ==
    ASSUME UNCHANGED <<profiles, counts>>
    PROVE  /\ Configured' = Configured
           /\ \A z \in Sources : /\ HandlesOf(z)' = HandlesOf(z)
                                 /\ DemandCount(z)' = DemandCount(z)
                                 /\ (Watched(z)' <=> Watched(z))
  BY DEF Configured, HandlesOf, DemandCount, Watched

\* What SourceOK(z) reads, profiles and counters apart.
Untouched(z) ==
    /\ mail'[z] = mail[z] /\ live'[z] = live[z] /\ demand'[z] = demand[z]
    /\ worker'[z] = worker[z] /\ timer'[z] = timer[z] /\ grace'[z] = grace[z]
    /\ next'[z] = next[z] /\ stale'[z] = stale[z]
    /\ z \in running' <=> z \in running

\* A step that does not touch a source keeps what is true of it.
LEMMA UntouchedOK ==
    ASSUME UNCHANGED <<profiles, counts>>, NEW z \in Sources, Untouched(z), SourceOK(z)
    PROVE  SourceOK(z)'
  <1>1. Mailed(z)' = Mailed(z)
    BY DEF Mailed, Untouched
  <1>2. Waiting(z)' /\ Resting(z)' /\ Supervised(z)'
    BY <1>1 DEF SourceOK, Waiting, Resting, Supervised, Untouched
  <1>3. MoveShared \/ (Aware(z)' /\ Clean(z)')
    BY <1>1, DemandSame DEF SourceOK, Aware, Clean, Untouched
  <1>4. QED
    BY <1>2, <1>3 DEF SourceOK

\* A step of one source keeps the invariant if it keeps what is true of it.
LEMMA StepOfSource ==
    ASSUME IInv, NEW s \in Sources,
           UNCHANGED <<profiles, sync, lease, counts, running>>,
           TypeOK', SourceOK(s)', \A z \in Sources \ {s} : Untouched(z)
    PROVE  IInv'
  <1>1. CountsMatchLeases'
    BY DEF IInv, CountsMatchLeases, Leases
  <1>2. SyncOK'
    BY DemandSame DEF IInv, SyncOK
  <1>3. \A z \in Sources : SourceOK(z)'
    BY UntouchedOK DEF IInv
  <1>4. QED
    BY <1>1, <1>2, <1>3 DEF IInv

\* Handling a message takes that one out of the mailbox, and no other.
LEMMA HandlingTakes ==
    ASSUME TypeOK, NEW s \in Sources, NEW msg, Handling(s, msg)
    PROVE  /\ mail' \in [Sources -> Seq(MessageSet)]
           /\ \A z \in Sources \ {s} : mail'[z] = mail[z]
           /\ \A m \in Mailed(s) : m # msg => m \in Mailed(s)'
           /\ s \in running
  <1>1. mail \in [Sources -> Seq(MessageSet)] /\ mail[s] # <<>> /\ Head(mail[s]) = msg
        /\ mail' = [mail EXCEPT ![s] = Tail(@)] /\ s \in running
    BY DEF TypeOK, Handling
  <1>2. /\ Tail(mail[s]) \in Seq(MessageSet)
        /\ \A m \in Elements(mail[s]) : m # Head(mail[s]) => m \in Elements(Tail(mail[s]))
    BY <1>1, TailElements
  <1>3. Mailed(s) = Elements(mail[s]) /\ Mailed(s)' = Elements(Tail(mail[s]))
    BY <1>1 DEF Mailed, Elements
  <1>4. QED
    BY <1>1, <1>2, <1>3

\* Clearing a channel only shrinks what the stores hold.
LEMMA ClearShrinks ==
    ASSUME TypeOK, NEW s \in Sources, NEW cond, ClearIf(s, cond)
    PROVE  /\ held' \in [Sources -> SUBSET Handles] /\ stale' \in [Sources -> SUBSET Handles]
           /\ stale'[s] \subseteq stale[s]
           /\ cond => stale'[s] \cap HandlesOf(s) = {}
           /\ \A z \in Sources \ {s} : stale'[z] = stale[z]
  BY DEF ClearIf, TypeOK

\* A source that takes a timer message, and has the demand it had, is as aware
\* of its viewers as before.
LEMMA AwareKept ==
    ASSUME TypeOK, NEW s \in Sources, NEW msg, msg # Wake, Handling(s, msg),
           demand'[s] = demand[s], Aware(s)
    PROVE  Aware(s)'
  <1>1. UNCHANGED <<profiles, counts, running>>
    BY DEF Handling, configVars, leaseVars
  <1>2. Wake \in Mailed(s) => Wake \in Mailed(s)'
    BY HandlingTakes
  <1>3. QED
    BY <1>1, <1>2, DemandSame DEF Aware

\* The same for a connection that keeps to the same stores.
LEMMA CleanKept ==
    ASSUME UNCHANGED <<profiles, counts>>, NEW s \in Sources,
           worker'[s] => worker[s], stale'[s] \subseteq stale[s], Clean(s)
    PROVE  Clean(s)'
  BY DemandSame DEF Clean

-----------------------------------------------------------------------------
(* A source handles a message.                                             *)

\* The three messages of a source, and retries of different due times, differ.
LEMMA MessagesDiffer ==
    /\ Wake # IdleMsg
    /\ \A d : RetryMsg(d) # Wake /\ RetryMsg(d) # IdleMsg
    /\ \A d, e : RetryMsg(d) = RetryMsg(e) => d = e
  BY DEF Wake, IdleMsg, RetryMsg

\* The retry timer a source believes in is another one than its idle timer.
LEMMA TimersApart ==
    ASSUME DemandAssumption, TypeOK, NEW s \in Sources, timer[s] # None
    PROVE  timer[s] # grace[s]
  <1>1. timer[s] \in RetryTimer /\ grace[s] \in IdleTimer \cup {None}
    BY DEF TypeOK
  <1>2. timer[s].msg \in RetryMsgs /\ (grace[s] # None => grace[s].msg = IdleMsg)
    BY <1>1 DEF RetryTimer, IdleTimer
  <1>3. QED
    BY <1>2, MessagesDiffer DEF RetryMsgs

LEMMA RestKeeps ==
    ASSUME DemandAssumption, IInv, NEW s \in Sources, Rest(s)
    PROVE  IInv'
  <1> DEFINE t == Timer(s, IdleMsg)
  <1>1. TypeOK /\ SourceOK(s) /\ IsFiniteSet(live[s])
    BY DEF IInv, SourceOK, Supervised
  <1>2. /\ UNCHANGED <<configVars, leaseVars, running, inHand, crashes>>
        /\ UNCHANGED <<worker, timer, next, periods, dues, gap, contentVars>>
        /\ grace' = [grace EXCEPT ![s] = t]
        /\ live' = [live EXCEPT ![s] = (@ \ {grace[s]}) \cup {t}]
        /\ demand' = [demand EXCEPT ![s] = 0]
        /\ Handling(s, Wake) /\ ~Watched(s)
    BY DEF Rest, Handling
  <1>3. t \in IdleTimer
    BY <1>1, TimerShape
  <1>4. /\ mail' \in [Sources -> Seq(MessageSet)]
        /\ \A z \in Sources \ {s} : mail'[z] = mail[z]
        /\ \A m \in Mailed(s) : m # Wake => m \in Mailed(s)'
    BY <1>1, <1>2, HandlingTakes
  <1> HIDE DEF t
  <1>5. live' \in [Sources -> SUBSET (RetryTimer \cup IdleTimer)]
    BY <1>1, <1>2, <1>3 DEF TypeOK
  <1>6. TypeOK'
    BY <1>1, <1>2, <1>3, <1>4, <1>5 DEF TypeOK, configVars, leaseVars, contentVars
  <1>7. grace'[s] = t /\ live'[s] = (live[s] \ {grace[s]}) \cup {t} /\ demand'[s] = 0
    BY <1>1, <1>2 DEF TypeOK
  <1>8. Waiting(s)'
    BY <1>1, <1>2, <1>4, <1>7, TimersApart, MessagesDiffer DEF SourceOK, Waiting
  <1>9. Resting(s)'
    BY <1>7 DEF Resting
  <1>10. Supervised(s)'
    <2>1. IsFiniteSet(live[s] \ {grace[s]})
      BY <1>1, FS_RemoveElement
    <2>2. QED
      BY <1>1, <1>2, <1>7, <2>1, FS_AddElement DEF SourceOK, Supervised
  <1>11. Aware(s)'
    BY <1>2, <1>7, DemandSame DEF Aware, configVars, leaseVars
  <1>12. MoveShared \/ Clean(s)'
    BY <1>1, <1>2, CleanKept DEF SourceOK, configVars, leaseVars, contentVars
  <1>13. \A z \in Sources \ {s} : Untouched(z)
    BY <1>1, <1>2, <1>4 DEF TypeOK, Untouched, contentVars
  <1>14. SourceOK(s)'
    BY <1>8, <1>9, <1>10, <1>11, <1>12 DEF SourceOK
  <1>15. QED
    BY <1>2, <1>6, <1>13, <1>14, StepOfSource DEF configVars, leaseVars

\* What the three ways to answer new demand have in common.
LEMMA WantedKnows ==
    ASSUME DemandAssumption, IInv, NEW s \in Sources, Wanted(s)
    PROVE  /\ UNCHANGED <<profiles, sync, lease, counts, running, inHand, crashes>>
           /\ mail' \in [Sources -> Seq(MessageSet)] /\ demand' \in [Sources -> Nat]
           /\ grace' \in [Sources -> IdleTimer \cup {None}] /\ gap' \in [Sources -> BOOLEAN]
           /\ \A z \in Sources \ {s} :
                 mail'[z] = mail[z] /\ demand'[z] = demand[z] /\ grace'[z] = grace[z]
           /\ \A m \in Mailed(s) : m # Wake => m \in Mailed(s)'
           /\ s \in running
           /\ Aware(s)' /\ Resting(s)'
  <1>1. TypeOK
    BY DEF IInv
  <1>2. /\ UNCHANGED <<profiles, sync, lease, counts, running, inHand, crashes>>
        /\ Handling(s, Wake) /\ Watched(s)
        /\ demand' = [demand EXCEPT ![s] = DemandCount(s)]
        /\ grace' = [grace EXCEPT ![s] = None]
        /\ gap' = [gap EXCEPT ![s] = @ /\ s \notin Kick]
    BY DEF Wanted, Handling, configVars, leaseVars
  <1>3. DemandCount(s) \in Nat /\ DemandCount(s) > 0
    BY <1>2, WatchedIffSome DEF Watched
  <1>4. demand'[s] = DemandCount(s)
    BY <1>1, <1>2 DEF TypeOK
  <1>5. Aware(s)'
    BY <1>2, <1>3, <1>4, DemandSame DEF Aware
  <1>6. Resting(s)'
    BY <1>3, <1>4 DEF Resting
  <1>7. /\ demand' \in [Sources -> Nat]
        /\ grace' \in [Sources -> IdleTimer \cup {None}] /\ gap' \in [Sources -> BOOLEAN]
        /\ \A z \in Sources \ {s} : demand'[z] = demand[z] /\ grace'[z] = grace[z]
    BY <1>1, <1>2, <1>3 DEF TypeOK
  <1>8. QED
    BY <1>1, <1>2, <1>5, <1>6, <1>7, HandlingTakes

\* However timers come and go, they stay finitely many.
LEMMA FinitelyManyTimers ==
    ASSUME NEW S, IsFiniteSet(S), NEW x, NEW t
    PROVE  /\ IsFiniteSet(S \ {x}) /\ IsFiniteSet(S \cup {t})
           /\ IsFiniteSet((S \ {x}) \cup {t})
  BY FS_AddElement, FS_RemoveElement

LEMMA WantedAlreadyKeeps ==
    ASSUME DemandAssumption, IInv, NEW s \in Sources, WantedAlready(s)
    PROVE  IInv'
  <1>1. TypeOK /\ SourceOK(s) /\ IsFiniteSet(live[s])
    BY DEF IInv, SourceOK, Supervised
  <1>2. /\ Wanted(s)
        /\ live' = [live EXCEPT ![s] = @ \ {grace[s]}]
        /\ ClearIf(s, s \in Kick /\ gap[s])
        /\ UNCHANGED <<worker, timer, next, periods, dues>>
    BY DEF WantedAlready
  <1>3. /\ held' \in [Sources -> SUBSET Handles] /\ stale' \in [Sources -> SUBSET Handles]
        /\ stale'[s] \subseteq stale[s]
        /\ \A z \in Sources \ {s} : stale'[z] = stale[z]
    BY <1>1, <1>2, ClearShrinks
  <1>4. /\ live' \in [Sources -> SUBSET (RetryTimer \cup IdleTimer)]
        /\ live'[s] = live[s] \ {grace[s]}
        /\ \A z \in Sources \ {s} : live'[z] = live[z]
    BY <1>1, <1>2 DEF TypeOK
  <1>5. TypeOK'
    <2>1. /\ UNCHANGED <<profiles, sync, lease, counts, running, inHand, crashes>>
          /\ mail' \in [Sources -> Seq(MessageSet)] /\ demand' \in [Sources -> Nat]
          /\ grace' \in [Sources -> IdleTimer \cup {None}] /\ gap' \in [Sources -> BOOLEAN]
      BY <1>2, WantedKnows
    <2>2. QED
      BY <1>1, <1>2, <1>3, <1>4, <2>1 DEF TypeOK
  <1>6. Waiting(s)'
    BY <1>1, <1>2, <1>4, WantedKnows, TimersApart, MessagesDiffer DEF SourceOK, Waiting
  <1>7. Supervised(s)'
    BY <1>1, <1>2, <1>4, WantedKnows, FinitelyManyTimers DEF SourceOK, Supervised
  <1>8. MoveShared \/ Clean(s)'
    BY <1>1, <1>2, <1>3, WantedKnows, CleanKept DEF SourceOK
  <1>9. \A z \in Sources \ {s} : Untouched(z)
    BY <1>2, <1>3, <1>4, WantedKnows DEF Untouched
  <1>10. QED
    BY <1>2, <1>5, <1>6, <1>7, <1>8, <1>9, WantedKnows, StepOfSource DEF SourceOK

LEMMA WantedLaterKeeps ==
    ASSUME DemandAssumption, IInv, NEW s \in Sources, WantedLater(s)
    PROVE  IInv'
  <1> DEFINE t == Timer(s, RetryMsg(next[s]))
  <1>1. TypeOK /\ SourceOK(s) /\ IsFiniteSet(live[s])
    BY DEF IInv, SourceOK, Supervised
  <1>2. /\ Wanted(s)
        /\ ~worker[s] /\ next[s] # None
        /\ timer' = [timer EXCEPT ![s] = t]
        /\ live' = [live EXCEPT ![s] = (@ \ {grace[s]}) \cup {t}]
        /\ ClearIf(s, s \in Kick /\ gap[s])
        /\ UNCHANGED <<worker, next, periods, dues>>
    BY DEF WantedLater
  <1>3. /\ held' \in [Sources -> SUBSET Handles] /\ stale' \in [Sources -> SUBSET Handles]
        /\ stale'[s] \subseteq stale[s]
        /\ \A z \in Sources \ {s} : stale'[z] = stale[z]
    BY <1>1, <1>2, ClearShrinks
  <1>4. t \in RetryTimer /\ t.msg = RetryMsg(next[s])
    BY <1>1, <1>2, TimerShape DEF TypeOK
  <1> HIDE DEF t
  <1>5. /\ live' \in [Sources -> SUBSET (RetryTimer \cup IdleTimer)]
        /\ live'[s] = (live[s] \ {grace[s]}) \cup {t} /\ timer'[s] = t
        /\ timer' \in [Sources -> RetryTimer \cup {None}]
        /\ \A z \in Sources \ {s} : live'[z] = live[z] /\ timer'[z] = timer[z]
    BY <1>1, <1>2, <1>4 DEF TypeOK
  <1>6. TypeOK'
    <2>1. /\ UNCHANGED <<profiles, sync, lease, counts, running, inHand, crashes>>
          /\ mail' \in [Sources -> Seq(MessageSet)] /\ demand' \in [Sources -> Nat]
          /\ grace' \in [Sources -> IdleTimer \cup {None}] /\ gap' \in [Sources -> BOOLEAN]
      BY <1>2, WantedKnows
    <2>2. QED
      BY <1>1, <1>2, <1>3, <1>5, <2>1 DEF TypeOK
  <1>7. Waiting(s)'
    BY <1>2, <1>4, <1>5 DEF Waiting
  <1>8. Supervised(s)'
    BY <1>1, <1>2, <1>5, WantedKnows, FinitelyManyTimers DEF SourceOK, Supervised
  <1>9. MoveShared \/ Clean(s)'
    BY <1>1, <1>2, <1>3, WantedKnows, CleanKept DEF SourceOK
  <1>10. \A z \in Sources \ {s} : Untouched(z)
    BY <1>2, <1>3, <1>5, WantedKnows DEF Untouched
  <1>11. QED
    BY <1>2, <1>6, <1>7, <1>8, <1>9, <1>10, WantedKnows, StepOfSource DEF SourceOK

LEMMA WantedNowKeeps ==
    ASSUME DemandAssumption, IInv, NEW s \in Sources, WantedNow(s)
    PROVE  IInv'
  <1>1. TypeOK /\ SourceOK(s) /\ IsFiniteSet(live[s])
    BY DEF IInv, SourceOK, Supervised
  <1>2. /\ Wanted(s)
        /\ timer[s] = None
        /\ live' = [live EXCEPT ![s] = @ \ {grace[s]}]
        /\ ClearIf(s, s \notin Kick \/ gap[s])
        /\ worker' = [worker EXCEPT ![s] = TRUE]
        /\ next' = [next EXCEPT ![s] = None]
        /\ UNCHANGED <<timer, periods, dues>>
    BY DEF WantedNow, Launch
  <1>3. /\ held' \in [Sources -> SUBSET Handles] /\ stale' \in [Sources -> SUBSET Handles]
        /\ stale'[s] \subseteq stale[s]
        /\ s \notin Kick => stale'[s] \cap HandlesOf(s) = {}
        /\ \A z \in Sources \ {s} : stale'[z] = stale[z]
    BY <1>1, <1>2, ClearShrinks
  <1>4. /\ live' \in [Sources -> SUBSET (RetryTimer \cup IdleTimer)]
        /\ live'[s] = live[s] \ {grace[s]}
        /\ worker' \in [Sources -> BOOLEAN] /\ next' \in [Sources -> (1 .. MaxDues) \cup {None}]
        /\ \A z \in Sources \ {s} :
              live'[z] = live[z] /\ worker'[z] = worker[z] /\ next'[z] = next[z]
    BY <1>1, <1>2 DEF TypeOK
  <1>5. TypeOK'
    <2>1. /\ UNCHANGED <<profiles, sync, lease, counts, running, inHand, crashes>>
          /\ mail' \in [Sources -> Seq(MessageSet)] /\ demand' \in [Sources -> Nat]
          /\ grace' \in [Sources -> IdleTimer \cup {None}] /\ gap' \in [Sources -> BOOLEAN]
      BY <1>2, WantedKnows
    <2>2. QED
      BY <1>1, <1>2, <1>3, <1>4, <2>1 DEF TypeOK
  <1>6. Waiting(s)'
    BY <1>2 DEF Waiting
  <1>7. Supervised(s)'
    BY <1>1, <1>4, WantedKnows, <1>2, FinitelyManyTimers DEF Supervised
  <1>8. Clean(s)'
    BY <1>2, <1>3, WantedKnows, DemandSame DEF Clean
  <1>9. \A z \in Sources \ {s} : Untouched(z)
    BY <1>2, <1>3, <1>4, WantedKnows DEF Untouched
  <1>10. QED
    BY <1>2, <1>5, <1>6, <1>7, <1>8, <1>9, WantedKnows, StepOfSource DEF SourceOK

\* What the messages of the timers have in common: they tell nothing about demand.
LEMMA TimerMessage ==
    ASSUME IInv, NEW s \in Sources, NEW msg, msg # Wake, Handling(s, msg)
    PROVE  /\ UNCHANGED <<profiles, sync, lease, counts, running, inHand, crashes>>
           /\ mail' \in [Sources -> Seq(MessageSet)]
           /\ \A z \in Sources \ {s} : mail'[z] = mail[z]
           /\ \A m \in Mailed(s) : m # msg => m \in Mailed(s)'
           /\ s \in running
           /\ UNCHANGED demand => MoveShared \/ Aware(s)'
  BY HandlingTakes, AwareKept DEF Handling, configVars, leaseVars, IInv, SourceOK

LEMMA IdleKeeps ==
    ASSUME DemandAssumption, IInv, NEW s \in Sources, Idle(s)
    PROVE  IInv'
  <1>1. TypeOK /\ SourceOK(s) /\ IsFiniteSet(live[s])
    BY DEF IInv, SourceOK, Supervised
  <1>2. /\ Handling(s, IdleMsg)
        /\ worker' = [worker EXCEPT ![s] = FALSE]
        /\ live' = [live EXCEPT ![s] = @ \ {timer[s]}]
        /\ timer' = [timer EXCEPT ![s] = None]
        /\ grace' = [grace EXCEPT ![s] = None]
        /\ gap' = [gap EXCEPT ![s] = TRUE]
        /\ UNCHANGED <<demand, next, periods, dues, contentVars>>
    BY DEF Idle
  <1>3. /\ UNCHANGED <<profiles, sync, lease, counts, running, inHand, crashes>>
        /\ mail' \in [Sources -> Seq(MessageSet)]
        /\ \A z \in Sources \ {s} : mail'[z] = mail[z]
        /\ MoveShared \/ Aware(s)'
    BY <1>2, TimerMessage, MessagesDiffer
  <1>4. /\ live' \in [Sources -> SUBSET (RetryTimer \cup IdleTimer)]
        /\ live'[s] = live[s] \ {timer[s]} /\ timer'[s] = None /\ worker'[s] = FALSE
        /\ \A z \in Sources \ {s} :
              /\ live'[z] = live[z] /\ worker'[z] = worker[z]
              /\ timer'[z] = timer[z] /\ grace'[z] = grace[z]
    BY <1>1, <1>2 DEF TypeOK
  <1>5. TypeOK'
    BY <1>1, <1>2, <1>3, <1>4 DEF TypeOK, contentVars
  <1>6. Waiting(s)' /\ Resting(s)' /\ Clean(s)'
    BY <1>4 DEF Waiting, Resting, Clean
  <1>7. Supervised(s)'
    <2>1. IsFiniteSet(live[s] \ {timer[s]})
      BY <1>1, FinitelyManyTimers
    <2>2. QED
      BY <1>4, <2>1 DEF Supervised
  <1>8. \A z \in Sources \ {s} : Untouched(z)
    BY <1>2, <1>3, <1>4 DEF Untouched, contentVars
  <1>9. QED
    BY <1>3, <1>5, <1>6, <1>7, <1>8, StepOfSource DEF SourceOK

LEMMA RetryUnwantedKeeps ==
    ASSUME DemandAssumption, IInv, NEW s \in Sources, RetryUnwanted(s)
    PROVE  IInv'
  <1>1. TypeOK /\ SourceOK(s)
    BY DEF IInv
  <1>2. /\ Handling(s, RetryMsg(next[s])) /\ ~worker[s]
        /\ timer' = [timer EXCEPT ![s] = None]
        /\ UNCHANGED <<live, demand, worker, grace, next, periods, dues, gap, contentVars>>
    BY DEF RetryUnwanted, Due
  <1>3. /\ UNCHANGED <<profiles, sync, lease, counts, running, inHand, crashes>>
        /\ mail' \in [Sources -> Seq(MessageSet)]
        /\ \A z \in Sources \ {s} : mail'[z] = mail[z]
        /\ MoveShared \/ Aware(s)'
    BY <1>2, TimerMessage, MessagesDiffer
  <1>4. /\ timer'[s] = None /\ \A z \in Sources \ {s} : timer'[z] = timer[z]
        /\ timer' \in [Sources -> RetryTimer \cup {None}]
    BY <1>1, <1>2 DEF TypeOK
  <1>5. TypeOK'
    BY <1>1, <1>2, <1>3, <1>4 DEF TypeOK, contentVars
  <1>6. Waiting(s)' /\ Resting(s)' /\ Clean(s)'
    BY <1>2, <1>4 DEF Waiting, Resting, Clean
  <1>7. Supervised(s)'
    BY <1>1, <1>2, <1>3 DEF SourceOK, Supervised
  <1>8. \A z \in Sources \ {s} : Untouched(z)
    BY <1>2, <1>3, <1>4 DEF Untouched, contentVars
  <1>9. QED
    BY <1>3, <1>5, <1>6, <1>7, <1>8, StepOfSource DEF SourceOK

LEMMA RetryLaterKeeps ==
    ASSUME DemandAssumption, IInv, NEW s \in Sources, RetryLater(s)
    PROVE  IInv'
  <1> DEFINE t == Timer(s, RetryMsg(next[s]))
  <1>1. TypeOK /\ SourceOK(s) /\ IsFiniteSet(live[s])
    BY DEF IInv, SourceOK, Supervised
  <1>2. /\ Handling(s, RetryMsg(next[s])) /\ ~worker[s] /\ next[s] # None
        /\ timer' = [timer EXCEPT ![s] = t]
        /\ live' = [live EXCEPT ![s] = @ \cup {t}]
        /\ UNCHANGED <<demand, worker, grace, next, periods, dues, gap, contentVars>>
    BY DEF RetryLater, Due
  <1>3. /\ UNCHANGED <<profiles, sync, lease, counts, running, inHand, crashes>>
        /\ mail' \in [Sources -> Seq(MessageSet)]
        /\ \A z \in Sources \ {s} : mail'[z] = mail[z]
        /\ MoveShared \/ Aware(s)'
    BY <1>2, TimerMessage, MessagesDiffer
  <1>4. t \in RetryTimer /\ t.msg = RetryMsg(next[s])
    BY <1>1, <1>2, TimerShape DEF TypeOK
  <1> HIDE DEF t
  <1>5. /\ live' \in [Sources -> SUBSET (RetryTimer \cup IdleTimer)]
        /\ timer' \in [Sources -> RetryTimer \cup {None}]
        /\ live'[s] = live[s] \cup {t} /\ timer'[s] = t
        /\ \A z \in Sources \ {s} : live'[z] = live[z] /\ timer'[z] = timer[z]
    BY <1>1, <1>2, <1>4 DEF TypeOK
  <1>6. TypeOK'
    BY <1>1, <1>2, <1>3, <1>5 DEF TypeOK, contentVars
  <1>7. Waiting(s)' /\ Resting(s)' /\ Clean(s)'
    BY <1>2, <1>4, <1>5 DEF Waiting, Resting, Clean
  <1>8. Supervised(s)'
    BY <1>1, <1>2, <1>3, <1>5, FinitelyManyTimers DEF SourceOK, Supervised
  <1>9. \A z \in Sources \ {s} : Untouched(z)
    BY <1>2, <1>3, <1>5 DEF Untouched, contentVars
  <1>10. QED
    BY <1>3, <1>6, <1>7, <1>8, <1>9, StepOfSource DEF SourceOK

LEMMA RetryNowKeeps ==
    ASSUME DemandAssumption, IInv, NEW s \in Sources, RetryNow(s)
    PROVE  IInv'
  <1>1. TypeOK /\ SourceOK(s) /\ IsFiniteSet(live[s])
    BY DEF IInv, SourceOK, Supervised
  <1>2. /\ Handling(s, RetryMsg(next[s]))
        /\ demand[s] > 0
        /\ worker' = [worker EXCEPT ![s] = TRUE]
        /\ next' = [next EXCEPT ![s] = None]
        /\ timer' = [timer EXCEPT ![s] = None]
        /\ ClearIf(s, s \notin Kick)
        /\ UNCHANGED <<live, demand, grace, gap, periods, dues>>
    BY DEF RetryNow, Due, Launch
  <1>3. /\ UNCHANGED <<profiles, sync, lease, counts, running, inHand, crashes>>
        /\ mail' \in [Sources -> Seq(MessageSet)]
        /\ \A z \in Sources \ {s} : mail'[z] = mail[z]
        /\ MoveShared \/ Aware(s)'
        /\ s \in running
    BY <1>2, TimerMessage, MessagesDiffer
  <1>4. /\ held' \in [Sources -> SUBSET Handles] /\ stale' \in [Sources -> SUBSET Handles]
        /\ s \notin Kick => stale'[s] \cap HandlesOf(s) = {}
        /\ \A z \in Sources \ {s} : stale'[z] = stale[z]
    BY <1>1, <1>2, ClearShrinks
  <1>5. /\ worker' \in [Sources -> BOOLEAN] /\ next' \in [Sources -> (1 .. MaxDues) \cup {None}]
        /\ timer' \in [Sources -> RetryTimer \cup {None}] /\ timer'[s] = None
        /\ \A z \in Sources \ {s} :
              worker'[z] = worker[z] /\ next'[z] = next[z] /\ timer'[z] = timer[z]
    BY <1>1, <1>2 DEF TypeOK
  <1>6. TypeOK'
    BY <1>1, <1>2, <1>3, <1>4, <1>5 DEF TypeOK
  <1>7. Waiting(s)'
    BY <1>5 DEF Waiting
  <1>8. Resting(s)'
    BY <1>1, <1>2 DEF Resting, TypeOK
  <1>9. Supervised(s)'
    BY <1>1, <1>2, <1>3 DEF Supervised
  <1>10. Clean(s)'
    BY <1>3, <1>4, DemandSame DEF Clean
  <1>11. \A z \in Sources \ {s} : Untouched(z)
    BY <1>2, <1>3, <1>4, <1>5 DEF Untouched
  <1>12. QED
    BY <1>3, <1>6, <1>7, <1>8, <1>9, <1>10, <1>11, StepOfSource DEF SourceOK

LEMMA IgnoreKeeps ==
    ASSUME DemandAssumption, IInv, NEW s \in Sources, Ignore(s)
    PROVE  IInv'
  <1>1. TypeOK /\ SourceOK(s)
    BY DEF IInv
  <1>2. PICK msg : /\ Handling(s, msg) /\ msg # Wake
                   /\ msg = IdleMsg => demand[s] > 0
                   /\ ~worker[s] => msg # RetryMsg(next[s])
    BY MessagesDiffer DEF Ignore
  <1>3. UNCHANGED <<live, demand, worker, timer, grace, next, periods, dues, gap, held, stale>>
    BY DEF Ignore, timeVars, contentVars
  <1>4. /\ UNCHANGED <<profiles, sync, lease, counts, running, inHand, crashes>>
        /\ mail' \in [Sources -> Seq(MessageSet)]
        /\ \A z \in Sources \ {s} : mail'[z] = mail[z]
        /\ \A m \in Mailed(s) : m # msg => m \in Mailed(s)'
        /\ MoveShared \/ Aware(s)'
    BY <1>2, <1>3, TimerMessage
  <1>5. TypeOK'
    BY <1>1, <1>3, <1>4 DEF TypeOK
  <1>6. Waiting(s)'
    BY <1>1, <1>2, <1>3, <1>4 DEF SourceOK, Waiting
  <1>7. Resting(s)'
    BY <1>1, <1>2, <1>3, <1>4 DEF SourceOK, Resting, TypeOK
  <1>8. Supervised(s)'
    BY <1>1, <1>3, <1>4 DEF SourceOK, Supervised
  <1>9. MoveShared \/ Clean(s)'
    BY <1>1, <1>3, <1>4, CleanKept DEF SourceOK
  <1>10. \A z \in Sources \ {s} : Untouched(z)
    BY <1>3, <1>4 DEF Untouched
  <1>11. QED
    BY <1>4, <1>5, <1>6, <1>7, <1>8, <1>9, <1>10, StepOfSource DEF SourceOK

LEMMA HandleKeeps ==
    ASSUME DemandAssumption, IInv, NEW s \in Sources, Handle(s)
    PROVE  IInv'
  BY RestKeeps, WantedAlreadyKeeps, WantedLaterKeeps, WantedNowKeeps, IdleKeeps,
     RetryUnwantedKeeps, RetryLaterKeeps, RetryNowKeeps, IgnoreKeeps DEF Handle

-----------------------------------------------------------------------------
(* The worker, the timers and the upstream.                                *)

\* A step that changes neither the viewers nor the mailbox and the demand of a
\* source keeps it aware of its viewers.
LEMMA AwareStays ==
    ASSUME UNCHANGED <<profiles, counts, running, demand>>, NEW s \in Sources,
           Wake \in Mailed(s) => Wake \in Mailed(s)', Aware(s)
    PROVE  Aware(s)'
  BY DemandSame DEF Aware

LEMMA ResultKeeps ==
    ASSUME DemandAssumption, IInv, NEW s \in Sources, NEW wait \in Waits, Result(s, wait)
    PROVE  IInv'
  <1> DEFINE d == dues[s] + 1
             t == Timer(s, RetryMsg(d))
  <1>1. TypeOK /\ SourceOK(s) /\ IsFiniteSet(live[s])
    BY DEF IInv, SourceOK, Supervised
  <1>2. /\ worker[s]
        /\ worker' = [worker EXCEPT ![s] = FALSE]
        /\ dues[s] < MaxDues /\ dues' = [dues EXCEPT ![s] = d]
        /\ next' = [next EXCEPT ![s] = d]
        /\ periods' = [periods EXCEPT ![s] = wait]
        /\ UNCHANGED <<profiles, sync, lease, counts, running, mail, demand, grace, gap,
                       held, stale, inHand, crashes>>
        /\ \/ timer' = [timer EXCEPT ![s] = t] /\ live' = [live EXCEPT ![s] = @ \cup {t}]
           \/ timer' = [timer EXCEPT ![s] = None] /\ UNCHANGED live
    BY DEF Result, configVars, leaseVars, contentVars
  <1>3. d \in 1 .. MaxDues /\ wait \in Nat
    BY <1>1, <1>2 DEF TypeOK, Waits, DemandAssumption
  <1>4. t \in RetryTimer /\ t.msg = RetryMsg(d) /\ d # None
    <2>1. t \in RetryTimer /\ t.msg = RetryMsg(d)
      BY <1>1, <1>3, TimerShape
    <2>2. d # None
      BY <1>3 DEF DemandAssumption
    <2>3. QED
      BY <2>1, <2>2
  <1> HIDE DEF d, t
  <1>5. /\ worker' \in [Sources -> BOOLEAN] /\ next' \in [Sources -> (1 .. MaxDues) \cup {None}]
        /\ dues' \in [Sources -> 0 .. MaxDues] /\ periods' \in [Sources -> Nat]
        /\ ~worker'[s] /\ next'[s] = d
        /\ \A z \in Sources \ {s} : worker'[z] = worker[z] /\ next'[z] = next[z]
    BY <1>1, <1>2, <1>3 DEF TypeOK
  <1>6. /\ live' \in [Sources -> SUBSET (RetryTimer \cup IdleTimer)]
        /\ timer' \in [Sources -> RetryTimer \cup {None}]
        /\ \/ live'[s] = live[s] \cup {t} /\ timer'[s] = t
           \/ live'[s] = live[s] /\ timer'[s] = None
        /\ \A z \in Sources \ {s} : live'[z] = live[z] /\ timer'[z] = timer[z]
    <2>1. CASE timer' = [timer EXCEPT ![s] = t] /\ live' = [live EXCEPT ![s] = @ \cup {t}]
      BY <1>1, <1>4, <2>1 DEF TypeOK
    <2>2. CASE timer' = [timer EXCEPT ![s] = None] /\ UNCHANGED live
      BY <1>1, <2>2 DEF TypeOK
    <2>3. QED
      BY <1>2, <2>1, <2>2
  <1>7. TypeOK'
    BY <1>1, <1>2, <1>5, <1>6 DEF TypeOK
  <1>8. Waiting(s)'
    BY <1>4, <1>5, <1>6 DEF Waiting
  <1>9. Resting(s)' /\ Clean(s)'
    BY <1>5 DEF Resting, Clean
  <1>10. Supervised(s)'
    <2>1. IsFiniteSet(live[s] \cup {t})
      BY <1>1, FinitelyManyTimers
    <2>2. QED
      BY <1>1, <1>5, <1>6, <2>1 DEF Supervised
  <1>11. MoveShared \/ Aware(s)'
    BY <1>1, <1>2, AwareStays DEF SourceOK, Mailed
  <1>12. \A z \in Sources \ {s} : Untouched(z)
    BY <1>2, <1>5, <1>6 DEF Untouched
  <1>13. QED
    BY <1>2, <1>7, <1>8, <1>9, <1>10, <1>11, <1>12, StepOfSource DEF SourceOK

LEMMA DeferKeeps ==
    ASSUME DemandAssumption, IInv, NEW s \in Sources, NEW wait \in Waits, Defer(s, wait)
    PROVE  IInv'
  <1> DEFINE d == dues[s] + 1
  <1>1. TypeOK /\ SourceOK(s)
    BY DEF IInv
  <1>2. /\ worker[s]
        /\ dues[s] < MaxDues /\ dues' = [dues EXCEPT ![s] = d]
        /\ next' = [next EXCEPT ![s] = d]
        /\ periods' = [periods EXCEPT ![s] = wait]
        /\ UNCHANGED <<profiles, sync, lease, counts, running, mail, live, demand, worker,
                       timer, grace, gap, held, stale, inHand, crashes>>
    BY DEF Defer, configVars, leaseVars, contentVars
  <1>3. d \in 1 .. MaxDues /\ wait \in Nat
    BY <1>1, <1>2 DEF TypeOK, Waits, DemandAssumption
  <1> HIDE DEF d
  <1>4. /\ next' \in [Sources -> (1 .. MaxDues) \cup {None}]
        /\ dues' \in [Sources -> 0 .. MaxDues] /\ periods' \in [Sources -> Nat]
        /\ \A z \in Sources \ {s} : next'[z] = next[z]
    BY <1>1, <1>2, <1>3 DEF TypeOK
  <1>5. TypeOK'
    BY <1>1, <1>2, <1>4 DEF TypeOK
  <1>6. Waiting(s)'
    BY <1>1, <1>2 DEF SourceOK, Waiting
  <1>7. Resting(s)' /\ Supervised(s)'
    BY <1>1, <1>2 DEF SourceOK, Resting, Supervised, Mailed
  <1>8. MoveShared \/ (Aware(s)' /\ Clean(s)')
    BY <1>1, <1>2, AwareStays, CleanKept DEF SourceOK, Mailed
  <1>9. \A z \in Sources \ {s} : Untouched(z)
    BY <1>2, <1>4 DEF Untouched
  <1>10. QED
    BY <1>2, <1>5, <1>6, <1>7, <1>8, <1>9, StepOfSource DEF SourceOK

LEMMA ElapseKeeps ==
    ASSUME IInv, NEW s \in Sources, Elapse(s)
    PROVE  IInv'
  <1>1. TypeOK /\ \A z \in Sources : SourceOK(z)
    BY DEF IInv
  <1>2. /\ periods[s] > 0 /\ periods' = [periods EXCEPT ![s] = @ - 1]
        /\ UNCHANGED <<profiles, sync, lease, counts, running, mail, live, demand, worker,
                       timer, grace, next, dues, gap, held, stale, inHand, crashes>>
    BY DEF Elapse, configVars, leaseVars, contentVars
  <1>3. periods' \in [Sources -> Nat]
    BY <1>1, <1>2 DEF TypeOK
  <1>4. TypeOK'
    BY <1>1, <1>2, <1>3 DEF TypeOK
  <1>5. \A z \in Sources : Untouched(z)
    BY <1>2 DEF Untouched
  <1>6. SourceOK(s)'
    BY <1>1, <1>2, <1>5, UntouchedOK
  <1>7. QED
    BY <1>2, <1>4, <1>5, <1>6, StepOfSource

LEMMA FireKeeps ==
    ASSUME DemandAssumption, IInv, NEW s \in Sources, Fire(s)
    PROVE  IInv'
  <1>1. TypeOK /\ SourceOK(s) /\ IsFiniteSet(live[s])
    BY DEF IInv, SourceOK, Supervised
  <1>2. PICK t \in live[s] : /\ live' = [live EXCEPT ![s] = @ \ {t}]
                             /\ mail' = [mail EXCEPT ![s] = Append(@, t.msg)]
    BY DEF Fire
  <1>3. UNCHANGED <<profiles, sync, lease, counts, running, demand, worker, timer, grace,
                    next, periods, dues, gap, held, stale, inHand, crashes>>
    BY DEF Fire, configVars, leaseVars, timeVars, contentVars
  <1>4. t \in RetryTimer \cup IdleTimer /\ t.msg \in MessageSet
    BY <1>1 DEF TypeOK, RetryTimer, IdleTimer, MessageSet
  <1>5. /\ live' \in [Sources -> SUBSET (RetryTimer \cup IdleTimer)]
        /\ live'[s] = live[s] \ {t} /\ mail'[s] = Append(mail[s], t.msg)
        /\ \A z \in Sources \ {s} : live'[z] = live[z] /\ mail'[z] = mail[z]
    BY <1>1, <1>2 DEF TypeOK
  <1>6. /\ mail' \in [Sources -> Seq(MessageSet)]
        /\ Mailed(s)' = Mailed(s) \cup {t.msg}
    <2>1. /\ Append(mail[s], t.msg) \in Seq(MessageSet)
          /\ Elements(Append(mail[s], t.msg)) = Elements(mail[s]) \cup {t.msg}
      BY <1>1, <1>4, AppendElements DEF TypeOK
    <2>2. Mailed(s) = Elements(mail[s]) /\ Mailed(s)' = Elements(Append(mail[s], t.msg))
      BY <1>5 DEF Mailed, Elements
    <2>3. QED
      BY <1>1, <1>2, <2>1, <2>2 DEF TypeOK
  <1>7. TypeOK'
    BY <1>1, <1>3, <1>5, <1>6 DEF TypeOK
  <1>8. Waiting(s)'
    BY <1>1, <1>3, <1>5, <1>6 DEF SourceOK, Waiting
  <1>9. Resting(s)'
    <2>1. grace[s] \in live[s] => grace[s].msg = IdleMsg
      BY <1>1, TimerShape DEF TypeOK, IdleTimer
    <2>2. QED
      BY <1>1, <1>3, <1>5, <1>6, <2>1 DEF SourceOK, Resting
  <1>10. Supervised(s)'
    <2>1. IsFiniteSet(live[s] \ {t})
      BY <1>1, FinitelyManyTimers
    <2>2. QED
      BY <1>1, <1>3, <1>5, <2>1 DEF SourceOK, Supervised
  <1>11. MoveShared \/ (Aware(s)' /\ Clean(s)')
    BY <1>1, <1>3, <1>6, AwareStays, CleanKept DEF SourceOK
  <1>12. \A z \in Sources \ {s} : Untouched(z)
    BY <1>3, <1>5 DEF Untouched
  <1>13. QED
    BY <1>3, <1>7, <1>8, <1>9, <1>10, <1>11, <1>12, StepOfSource DEF SourceOK

LEMMA HearKeeps ==
    ASSUME IInv, NEW s \in Sources, Hear(s) \/ WebhookCheck(s) \/ WebhookPublish(s)
    PROVE  IInv'
  <1>1. TypeOK /\ \A z \in Sources : SourceOK(z)
    BY DEF IInv
  <1>2. /\ UNCHANGED <<profiles, sync, lease, counts, running, mail, live, demand, worker,
                       timer, grace, next, periods, dues, gap, stale, crashes>>
        /\ inHand' \in [Sources -> BOOLEAN] /\ held' \in [Sources -> SUBSET Handles]
    <2>1. CASE Hear(s)
      BY <1>1, <2>1 DEF Hear, Publish, HandlesOf, TypeOK,
                        configVars, leaseVars, sourceVars, timeVars
    <2>2. CASE WebhookCheck(s)
      BY <1>1, <2>2 DEF WebhookCheck, TypeOK,
                        configVars, leaseVars, sourceVars, timeVars, contentVars
    <2>3. CASE WebhookPublish(s)
      BY <1>1, <2>3 DEF WebhookPublish, Publish, HandlesOf, TypeOK,
                        configVars, leaseVars, sourceVars, timeVars
    <2>4. QED
      BY <2>1, <2>2, <2>3
  <1>3. TypeOK'
    BY <1>1, <1>2 DEF TypeOK
  <1>4. \A z \in Sources : Untouched(z)
    BY <1>2 DEF Untouched
  <1>5. SourceOK(s)'
    BY <1>1, <1>2, <1>4, UntouchedOK
  <1>6. QED
    BY <1>2, <1>3, <1>4, <1>5, StepOfSource

\* A deletion that a connected source hears of makes nothing stale.
LEMMA MissDeletionKeeps ==
    ASSUME IInv, NEW s \in Sources, MissDeletion(s)
    PROVE  IInv'
  <1>1. TypeOK /\ SourceOK(s)
    BY DEF IInv
  <1>2. /\ UNCHANGED <<profiles, sync, lease, counts, running, mail, live, demand, worker,
                       timer, grace, next, periods, dues, gap, held, inHand, crashes>>
        /\ stale' = [stale EXCEPT ![s] = @ \cup (held[s] \ Hearing(s))]
    BY DEF MissDeletion, configVars, leaseVars, sourceVars, timeVars
  <1>3. /\ stale' \in [Sources -> SUBSET Handles]
        /\ stale'[s] = stale[s] \cup (held[s] \ Hearing(s))
        /\ \A z \in Sources \ {s} : stale'[z] = stale[z]
    BY <1>1, <1>2 DEF TypeOK
  <1>4. TypeOK'
    BY <1>1, <1>2, <1>3 DEF TypeOK
  <1>5. Waiting(s)' /\ Resting(s)' /\ Supervised(s)'
    BY <1>1, <1>2 DEF SourceOK, Waiting, Resting, Supervised, Mailed
  <1>6. s \notin Kick /\ worker[s] => Hearing(s) = HandlesOf(s)
    BY DEF Hearing
  <1>7. Clean(s) => Clean(s)'
    BY <1>2, <1>3, <1>6, DemandSame DEF Clean
  <1>8. MoveShared \/ (Aware(s)' /\ Clean(s)')
    BY <1>1, <1>2, <1>7, AwareStays DEF SourceOK, Mailed
  <1>9. \A z \in Sources \ {s} : Untouched(z)
    BY <1>2, <1>3 DEF Untouched
  <1>10. QED
    BY <1>2, <1>4, <1>5, <1>8, <1>9, StepOfSource DEF SourceOK

-----------------------------------------------------------------------------
(* Processes start and stop.                                               *)

\* Whoever starts or stops forgets everything; nobody else notices.
LEMMA FreshShape ==
    ASSUME DemandAssumption, TypeOK, NEW S, NEW T, Fresh(S, T)
    PROVE  /\ mail' \in [Sources -> Seq(MessageSet)]
           /\ live' \in [Sources -> SUBSET (RetryTimer \cup IdleTimer)]
           /\ demand' \in [Sources -> Nat] /\ worker' \in [Sources -> BOOLEAN]
           /\ timer' \in [Sources -> RetryTimer \cup {None}]
           /\ grace' \in [Sources -> IdleTimer \cup {None}]
           /\ next' \in [Sources -> (1 .. MaxDues) \cup {None}]
           /\ periods' \in [Sources -> Nat] /\ dues' \in [Sources -> 0 .. MaxDues]
           /\ gap' \in [Sources -> BOOLEAN]
           /\ \A z \in Sources \cap S : Wake \in Mailed(z)'
           /\ \A z \in Sources \cap (S \cup T) :
                 timer'[z] = None /\ live'[z] = {} /\ ~worker'[z]
           /\ \A z \in Sources \ (S \cup T) :
                 /\ mail'[z] = mail[z] /\ live'[z] = live[z] /\ demand'[z] = demand[z]
                 /\ worker'[z] = worker[z] /\ timer'[z] = timer[z] /\ grace'[z] = grace[z]
                 /\ next'[z] = next[z]
  <1>1. <<Wake>> \in Seq(MessageSet) /\ <<>> \in Seq(MessageSet)
    BY DEF MessageSet
  <1>2. mail' \in [Sources -> Seq(MessageSet)]
    BY <1>1 DEF Fresh, TypeOK
  <1>3. ASSUME NEW z \in Sources \cap S PROVE Wake \in Mailed(z)'
    BY <1>3 DEF Fresh, Mailed
  <1>4. 0 \in 0 .. MaxDues
    BY DEF DemandAssumption
  <1>5. /\ live' \in [Sources -> SUBSET (RetryTimer \cup IdleTimer)]
        /\ demand' \in [Sources -> Nat] /\ worker' \in [Sources -> BOOLEAN]
        /\ timer' \in [Sources -> RetryTimer \cup {None}]
        /\ grace' \in [Sources -> IdleTimer \cup {None}]
        /\ next' \in [Sources -> (1 .. MaxDues) \cup {None}]
        /\ periods' \in [Sources -> Nat] /\ dues' \in [Sources -> 0 .. MaxDues]
        /\ gap' \in [Sources -> BOOLEAN]
    BY <1>4 DEF Fresh, TypeOK
  <1>6. /\ \A z \in Sources \cap (S \cup T) :
              timer'[z] = None /\ live'[z] = {} /\ ~worker'[z]
        /\ \A z \in Sources \ (S \cup T) :
              /\ mail'[z] = mail[z] /\ live'[z] = live[z] /\ demand'[z] = demand[z]
              /\ timer'[z] = timer[z] /\ grace'[z] = grace[z] /\ next'[z] = next[z]
    BY DEF Fresh
  <1>7. \A z \in Sources \ (S \cup T) : worker'[z] = worker[z]
    BY DEF Fresh, TypeOK
  <1>8. QED
    BY <1>2, <1>3, <1>5, <1>6, <1>7

\* A process that has just started looks at its demand first; one that has
\* ended has nothing left to keep.
LEMMA ReplacedOK ==
    ASSUME NEW z \in Sources, timer'[z] = None, live'[z] = {}, ~worker'[z],
           z \in running' => Wake \in Mailed(z)'
    PROVE  SourceOK(z)'
  BY FS_EmptySet DEF SourceOK, Waiting, Resting, Supervised, Aware, Clean

\* A step that starts sources S and stops T, the viewers apart.
LEMMA FreshKeeps ==
    ASSUME DemandAssumption, IInv, NEW S, NEW T, Fresh(S, T),
           UNCHANGED <<profiles, counts, stale>>,
           running' \subseteq running \cup S, running \ running' \subseteq T,
           running' \cap T \subseteq S
    PROVE  \A z \in Sources : SourceOK(z)'
  <1>1. ASSUME NEW z \in Sources \cap (S \cup T) PROVE SourceOK(z)'
    BY <1>1, FreshShape, ReplacedOK DEF IInv
  <1>2. ASSUME NEW z \in Sources \ (S \cup T) PROVE SourceOK(z)'
    <2>1. Untouched(z)
      BY <1>2, FreshShape DEF IInv, Untouched
    <2>2. QED
      BY <1>2, <2>1, UntouchedOK DEF IInv
  <1>3. QED
    BY <1>1, <1>2

LEMMA CrashSourceKeeps ==
    ASSUME DemandAssumption, IInv, NEW s \in Sources, CrashSource(s)
    PROVE  IInv'
  <1>1. TypeOK
    BY DEF IInv
  <1>2. /\ s \in running /\ Fresh({s}, {}) /\ crashes' = crashes + 1
        /\ UNCHANGED <<profiles, sync, lease, counts, running, held, stale, inHand>>
    BY DEF CrashSource, configVars, leaseVars, contentVars
  <1>3. TypeOK'
    <2>1. crashes' \in Nat
      BY <1>1, <1>2 DEF TypeOK
    <2>2. QED
      BY <1>1, <1>2, <2>1, FreshShape DEF TypeOK
  <1>4. \A z \in Sources : SourceOK(z)'
    BY <1>2, FreshKeeps
  <1>5. CountsMatchLeases' /\ SyncOK'
    BY <1>2, DemandSame DEF IInv, CountsMatchLeases, Leases, SyncOK
  <1>6. QED
    BY <1>3, <1>4, <1>5 DEF IInv

LEMMA StartSourceKeeps ==
    ASSUME DemandAssumption, IInv, NEW s \in Sources, StartSource(s)
    PROVE  IInv'
  <1>1. TypeOK /\ SyncOK
    BY DEF IInv
  <1>2. /\ sync # None /\ s \in sync.start
        /\ sync' = [sync EXCEPT !.start = @ \ {s}]
        /\ Fresh({s} \ running, {})
        /\ running' = running \cup {s}
        /\ UNCHANGED <<profiles, lease, counts, held, stale, inHand, crashes>>
    BY DEF StartSource, leaseVars, contentVars
  <1>3. /\ sync' \in [start : SUBSET Sources, stop : SUBSET Sources]
        /\ sync'.start \subseteq sync.start /\ sync'.stop = sync.stop
    BY <1>1, <1>2 DEF TypeOK
  <1>4. TypeOK'
    BY <1>1, <1>2, <1>3, FreshShape DEF TypeOK
  <1>5. \A z \in Sources : SourceOK(z)'
    BY <1>2, FreshKeeps
  <1>6. SyncOK'
    BY <1>1, <1>2, <1>3, DemandSame DEF SyncOK, DemandAssumption
  <1>7. CountsMatchLeases'
    BY <1>2 DEF IInv, CountsMatchLeases, Leases
  <1>8. QED
    BY <1>4, <1>5, <1>6, <1>7 DEF IInv

LEMMA StopSourcesKeeps ==
    ASSUME DemandAssumption, IInv, StopSources
    PROVE  IInv'
  <1> DEFINE T == sync.stop \ Configured
  <1>1. TypeOK /\ SyncOK
    BY DEF IInv
  <1>2. /\ sync # None /\ sync' = None
        /\ Fresh({}, T)
        /\ running' = running \ T
        /\ UNCHANGED <<profiles, lease, counts, held, stale, inHand, crashes>>
    BY DEF StopSources, leaseVars, contentVars
  <1>3. SyncOK'
    BY <1>1, <1>2, DemandSame DEF SyncOK
  <1> HIDE DEF T
  <1>4. TypeOK'
    BY <1>1, <1>2, FreshShape DEF TypeOK
  <1>5. \A z \in Sources : SourceOK(z)'
    BY <1>2, FreshKeeps
  <1>6. CountsMatchLeases'
    BY <1>2 DEF IInv, CountsMatchLeases, Leases
  <1>7. QED
    BY <1>3, <1>4, <1>5, <1>6 DEF IInv

\* The whole application starts again behind Admission: every source it has
\* looks at its demand first, and nobody is watching.
LEMMA CrashAdmissionKeeps ==
    ASSUME DemandAssumption, IInv, CrashAdmission
    PROVE  IInv'
  <1>1. TypeOK
    BY DEF IInv
  <1>2. /\ crashes' = crashes + 1
        /\ lease' = [v \in Viewers |-> None] /\ counts' = [h \in Handles |-> 0]
        /\ Fresh(Configured, running \ Configured) /\ running' = Configured
        /\ inHand' = [s \in Sources |-> FALSE]
        /\ UNCHANGED <<profiles, sync, held, stale>>
    BY DEF CrashAdmission, configVars, contentVars
  <1>3. Configured' = Configured /\ Configured \subseteq Sources
    BY <1>1, <1>2 DEF Configured, TypeOK
  <1>4. TypeOK'
    <2>1. crashes' \in Nat /\ running' \subseteq Sources
      BY <1>1, <1>2, <1>3 DEF TypeOK
    <2>2. /\ lease' \in [Viewers -> Handles \cup {None}] /\ counts' \in [Handles -> Nat]
          /\ inHand' \in [Sources -> BOOLEAN]
      BY <1>2
    <2>3. QED
      BY <1>1, <1>2, <2>1, <2>2, FreshShape DEF TypeOK
  <1>5. CountsMatchLeases'
    <2>1. ASSUME NEW h \in Handles PROVE counts'[h] = Leases(h)'
      <3>1. Leases(h)' = Cardinality({v \in Viewers : lease'[v] = h})
        BY DEF Leases
      <3>2. {v \in Viewers : lease'[v] = h} = {}
        BY <1>2 DEF DemandAssumption
      <3>3. QED
        BY <1>2, <3>1, <3>2, FS_EmptySet
    <2>2. QED
      BY <2>1 DEF CountsMatchLeases
  <1>6. SyncOK'
    BY <1>2, <1>3 DEF IInv, SyncOK
  <1>7. ASSUME NEW z \in Sources PROVE SourceOK(z)'
    <2>1. CASE z \in Configured \cup running
      BY <1>1, <1>2, <2>1, FreshShape, ReplacedOK
    <2>2. CASE z \notin Configured \cup running
      <3>1. /\ mail'[z] = mail[z] /\ live'[z] = live[z] /\ worker'[z] = worker[z]
            /\ timer'[z] = timer[z] /\ next'[z] = next[z]
        BY <1>1, <1>2, <2>2, FreshShape
      <3>2. ~worker[z] /\ IsFiniteSet(live[z]) /\ Waiting(z)
        BY <2>2 DEF IInv, SourceOK, Supervised
      <3>3. z \notin running'
        BY <1>2, <2>2
      <3>4. Waiting(z)'
        BY <3>1, <3>2 DEF Waiting, Mailed
      <3>5. QED
        BY <3>1, <3>2, <3>3, <3>4 DEF SourceOK, Resting, Supervised, Aware, Clean
    <2>3. QED
      BY <2>1, <2>2
  <1>8. QED
    BY <1>4, <1>5, <1>6, <1>7 DEF IInv

-----------------------------------------------------------------------------
(* Viewers come and go.                                                    *)

\* A cast reaches the running sources among S and takes nothing away.
LEMMA CastShape ==
    ASSUME TypeOK, NEW S, Cast(S)
    PROVE  /\ mail' \in [Sources -> Seq(MessageSet)]
           /\ \A z \in Sources : Mailed(z) \subseteq Mailed(z)'
           /\ \A z \in S \cap running : Wake \in Mailed(z)'
  <1>1. Wake \in MessageSet
    BY DEF MessageSet
  <1>2. ASSUME NEW z \in Sources
        PROVE  /\ mail'[z] \in Seq(MessageSet) /\ Mailed(z) \subseteq Mailed(z)'
               /\ z \in S \cap running => Wake \in Mailed(z)'
    <2>1. mail[z] \in Seq(MessageSet)
      BY DEF TypeOK
    <2>2. /\ Append(mail[z], Wake) \in Seq(MessageSet)
          /\ Elements(Append(mail[z], Wake)) = Elements(mail[z]) \cup {Wake}
      BY <1>1, <2>1, AppendElements
    <2>3. Mailed(z) = Elements(mail[z]) /\ Mailed(z)' = Elements(mail'[z])
      BY DEF Mailed, Elements
    <2>4. mail'[z] = IF z \in S \cap running THEN Append(mail[z], Wake) ELSE mail[z]
      BY DEF Cast
    <2>5. CASE z \in S \cap running
      BY <2>2, <2>3, <2>4, <2>5
    <2>6. CASE z \notin S \cap running
      BY <2>1, <2>3, <2>4, <2>6
    <2>7. QED
      BY <2>5, <2>6
  <1>3. mail' \in [Sources -> Seq(MessageSet)]
    <2>1. mail' = [z \in Sources |-> mail'[z]]
      BY DEF Cast
    <2>2. QED
      BY <1>2, <2>1
  <1>4. QED
    BY <1>2, <1>3 DEF TypeOK

\* The counter of one profile changes: its sources are told, or it was watched
\* before and is watched after.
LEMMA TellKeeps ==
    ASSUME DemandAssumption, IInv, NEW h \in Handles, NEW S, Cast(S),
           counts' \in [Handles -> Nat],
           \A g \in Handles \ {h} : counts'[g] = counts[g],
           profiles[h] \subseteq S \/ (counts[h] > 0 /\ counts'[h] > 0),
           UNCHANGED <<profiles, sync, running, live, demand, worker, timer, grace,
                       next, periods, dues, gap, held, stale, inHand, crashes>>
    PROVE  \A z \in Sources : SourceOK(z)'
  <1>1. TypeOK
    BY DEF IInv
  <1>2. SUFFICES ASSUME NEW z \in Sources PROVE SourceOK(z)'
    OBVIOUS
  <1>3. SourceOK(z)
    BY DEF IInv
  <1>4. /\ Mailed(z) \subseteq Mailed(z)'
        /\ z \in S /\ z \in running => Wake \in Mailed(z)'
    BY <1>1, CastShape
  <1>5. Waiting(z)' /\ Resting(z)' /\ Supervised(z)'
    BY <1>3, <1>4 DEF SourceOK, Waiting, Resting, Supervised
  <1>6. Clean(z) => Clean(z)'
    BY DEF Clean, HandlesOf
  <1>7. Aware(z) => Aware(z)'
    <2>1. Configured' = Configured
      BY DEF Configured
    <2>2. CASE z \in S
      BY <1>4, <2>2 DEF Aware
    <2>3. CASE z \notin profiles[h] \/ (counts[h] > 0 /\ counts'[h] > 0)
      <3>1. Watched(z)' <=> Watched(z)
        BY <2>3, WatchedIffSome
      <3>2. QED
        BY <1>4, <2>1, <3>1 DEF Aware
    <2>4. QED
      BY <2>2, <2>3
  <1>8. QED
    BY <1>3, <1>5, <1>6, <1>7 DEF SourceOK

LEMMA AcquireKeeps ==
    ASSUME DemandAssumption, IInv, NEW v \in Viewers, NEW h \in Handles, Acquire(v, h)
    PROVE  IInv'
  <1>1. TypeOK
    BY DEF IInv
  <1>2. /\ lease[v] = None
        /\ Cast(Told(h, 0))
        /\ lease' = [lease EXCEPT ![v] = h]
        /\ counts' = [counts EXCEPT ![h] = @ + 1]
        /\ UNCHANGED <<profiles, sync, running, live, demand, worker, timer, grace,
                       next, periods, dues, gap, held, stale, inHand, crashes>>
    BY DEF Acquire, configVars, timeVars, contentVars
  <1>3. /\ counts' \in [Handles -> Nat] /\ lease' \in [Viewers -> Handles \cup {None}]
        /\ counts'[h] = counts[h] + 1 /\ counts[h] \in Nat
        /\ \A g \in Handles \ {h} : counts'[g] = counts[g]
    BY <1>1, <1>2 DEF TypeOK
  <1>4. TypeOK'
    BY <1>1, <1>2, <1>3, CastShape DEF TypeOK
  <1>5. profiles[h] \subseteq Told(h, 0) \/ (counts[h] > 0 /\ counts'[h] > 0)
    BY <1>3 DEF Told
  <1>6. \A z \in Sources : SourceOK(z)'
    BY <1>2, <1>3, <1>5, TellKeeps
  <1>7. CountsMatchLeases'
    <2>1. ASSUME NEW g \in Handles PROVE counts'[g] = Leases(g)'
      <3> DEFINE W == {w \in Viewers : lease[w] = g}
      <3>1. IsFiniteSet(W) /\ counts[g] = Cardinality(W) /\ v \notin W
        BY <1>2, FS_Subset DEF IInv, CountsMatchLeases, Leases, DemandAssumption
      <3>2. Leases(g)' = Cardinality({w \in Viewers : lease'[w] = g})
        BY DEF Leases
      <3>3. {w \in Viewers : lease'[w] = g} = IF g = h THEN W \cup {v} ELSE W
        BY <1>1, <1>2 DEF TypeOK, DemandAssumption
      <3> HIDE DEF W
      <3>4. Cardinality(W \cup {v}) = Cardinality(W) + 1
        BY <3>1, FS_AddElement
      <3>5. QED
        BY <1>3, <3>1, <3>2, <3>3, <3>4
    <2>2. QED
      BY <2>1 DEF CountsMatchLeases
  <1>8. SyncOK'
    BY <1>2 DEF IInv, SyncOK, Configured
  <1>9. QED
    BY <1>4, <1>6, <1>7, <1>8 DEF IInv

LEMMA LeaveKeeps ==
    ASSUME DemandAssumption, IInv, NEW v \in Viewers, Leave(v)
    PROVE  IInv'
  <1> DEFINE h == lease[v]
  <1>1. TypeOK
    BY DEF IInv
  <1>2. /\ h # None
        /\ Cast(Told(h, 1))
        /\ lease' = [lease EXCEPT ![v] = None]
        /\ counts' = [counts EXCEPT ![h] = @ - 1]
        /\ UNCHANGED <<profiles, sync, running, live, demand, worker, timer, grace,
                       next, periods, dues, gap, held, stale, inHand, crashes>>
    BY DEF Leave, configVars, timeVars, contentVars
  <1>3. h \in Handles
    BY <1>1, <1>2 DEF TypeOK
  <1>4. ASSUME NEW g \in Handles
        PROVE  /\ counts[g] \in Nat /\ (g = h => counts[g] > 0)
               /\ Leases(g)' = IF g = h THEN counts[g] - 1 ELSE counts[g]
    <2> DEFINE W == {w \in Viewers : lease[w] = g}
    <2>1. IsFiniteSet(W) /\ counts[g] = Cardinality(W) /\ (v \in W <=> g = h)
      BY FS_Subset DEF IInv, CountsMatchLeases, Leases, DemandAssumption
    <2>2. Leases(g)' = Cardinality({w \in Viewers : lease'[w] = g})
      BY DEF Leases
    <2>3. {w \in Viewers : lease'[w] = g} = IF g = h THEN W \ {v} ELSE W
      BY <1>1, <1>2, <1>3 DEF TypeOK, DemandAssumption
    <2> HIDE DEF W
    <2>4. Cardinality(W) \in Nat /\ (Cardinality(W) = 0 <=> W = {})
      BY <2>1, FS_CardinalityType, FS_EmptySet
    <2>5. g = h => Cardinality(W) > 0 /\ Cardinality(W \ {v}) = Cardinality(W) - 1
      <3>1. g = h => v \in W /\ W # {}
        BY <2>1
      <3>2. Cardinality(W \ {v}) = IF v \in W THEN Cardinality(W) - 1 ELSE Cardinality(W)
        BY <2>1, FS_RemoveElement
      <3>3. QED
        BY <2>4, <3>1, <3>2
    <2>6. QED
      BY <2>1, <2>2, <2>3, <2>4, <2>5
  <1>5. counts[h] \in Nat /\ counts[h] > 0
    BY <1>3, <1>4
  <1> HIDE DEF h
  <1>6. /\ counts' \in [Handles -> Nat] /\ lease' \in [Viewers -> Handles \cup {None}]
        /\ counts'[h] = counts[h] - 1
        /\ \A g \in Handles \ {h} : counts'[g] = counts[g]
    BY <1>1, <1>2, <1>3, <1>5 DEF TypeOK
  <1>7. TypeOK'
    BY <1>1, <1>2, <1>6, CastShape DEF TypeOK
  <1>8. profiles[h] \subseteq Told(h, 1) \/ (counts[h] > 0 /\ counts'[h] > 0)
    BY <1>5, <1>6 DEF Told
  <1>9. \A z \in Sources : SourceOK(z)'
    BY <1>2, <1>3, <1>6, <1>8, TellKeeps
  <1>10. CountsMatchLeases'
    BY <1>4, <1>6 DEF CountsMatchLeases
  <1>11. SyncOK'
    BY <1>2 DEF IInv, SyncOK, Configured
  <1>12. QED
    BY <1>7, <1>9, <1>10, <1>11 DEF IInv

-----------------------------------------------------------------------------
(* Saves.                                                                  *)

\* A save that leaves shared sources alone gives a profile only sources nobody
\* has, which do not run yet, and takes from it only sources nobody has then.
LEMMA SaveKeeps ==
    ASSUME DemandAssumption, IInv, NEW h \in Handles, NEW S \in SUBSET Sources, Save(h, S)
    PROVE  IInv'
  <1>1. TypeOK /\ SyncOK /\ \A z \in Sources : SourceOK(z)
    BY DEF IInv
  <1>2. /\ sync = None
        /\ MoveShared \/ \A s \in Sources :
                            (s \in S) # (s \in profiles[h]) => HandlesOf(s) \subseteq {h}
        /\ profiles' = [profiles EXCEPT ![h] = S]
        /\ sync' = [start |-> S, stop |-> profiles[h] \ S]
        /\ held' = [s \in Sources |-> IF S = {} THEN held[s] \ {h} ELSE held[s]]
        /\ stale' = [s \in Sources |-> IF S = {} THEN stale[s] \ {h} ELSE stale[s]]
        /\ UNCHANGED <<lease, counts, running, mail, live, demand, worker, timer, grace,
                       next, periods, dues, gap, inHand, crashes>>
    BY DEF Save, leaseVars, sourceVars, timeVars
  <1>3. /\ profiles' \in [Handles -> SUBSET Sources]
        /\ profiles'[h] = S /\ \A g \in Handles \ {h} : profiles'[g] = profiles[g]
    BY <1>1, <1>2 DEF TypeOK
  <1>4. /\ sync' \in [start : SUBSET Sources, stop : SUBSET Sources]
        /\ sync'.start = S /\ sync'.stop = profiles[h] \ S
    BY <1>1, <1>2 DEF TypeOK
  <1>5. /\ held' \in [Sources -> SUBSET Handles] /\ stale' \in [Sources -> SUBSET Handles]
        /\ \A z \in Sources : stale'[z] \subseteq stale[z]
    BY <1>1, <1>2 DEF TypeOK
  <1>6. TypeOK'
    BY <1>1, <1>2, <1>3, <1>4, <1>5 DEF TypeOK
  <1>7. CountsMatchLeases'
    BY <1>2 DEF IInv, CountsMatchLeases, Leases
  <1>8. SyncOK'
    <2>1. S \subseteq Configured'
      BY <1>3 DEF Configured
    <2>2. Configured \subseteq Configured' \cup (profiles[h] \ S)
      BY <1>3 DEF Configured
    <2>3. sync' # None
      BY <1>4 DEF DemandAssumption
    <2>4. QED
      BY <1>1, <1>2, <1>4, <2>1, <2>2, <2>3 DEF SyncOK
  <1>9. ASSUME NEW z \in Sources PROVE SourceOK(z)'
    <2>1. Mailed(z)' = Mailed(z)
      BY <1>2 DEF Mailed
    <2>2. Waiting(z)' /\ Resting(z)' /\ Supervised(z)'
      BY <1>1, <1>2, <2>1 DEF SourceOK, Waiting, Resting, Supervised
    <2>3. ASSUME (z \in S) <=> (z \in profiles[h])
          PROVE  (Aware(z) => Aware(z)') /\ (Clean(z) => Clean(z)')
      <3>1. \A g \in Handles : z \in profiles'[g] <=> z \in profiles[g]
        BY <1>3, <2>3
      <3>2. /\ HandlesOf(z)' = HandlesOf(z)
            /\ z \in Configured' <=> z \in Configured
        BY <3>1 DEF HandlesOf, Configured
      <3>3. Watched(z)' <=> Watched(z)
        BY <1>2, <3>1, WatchedIffSome
      <3>4. QED
        BY <1>2, <1>5, <2>1, <3>2, <3>3 DEF Aware, Clean
    <2>4. ASSUME ~MoveShared, z \in S, z \notin profiles[h] PROVE Aware(z)' /\ Clean(z)'
      <3>1. HandlesOf(z) \subseteq {h}
        BY <1>2, <2>4
      <3>2. z \notin Configured
        BY <2>4, <3>1 DEF HandlesOf, Configured
      <3>3. z \notin running /\ ~worker[z]
        BY <1>1, <1>2, <3>2 DEF SyncOK, SourceOK, Supervised
      <3>4. QED
        BY <1>2, <3>3 DEF Aware, Clean
    <2>5. ASSUME ~MoveShared, z \notin S, z \in profiles[h] PROVE Aware(z)' /\ Clean(z)'
      <3>1. HandlesOf(z) \subseteq {h}
        BY <1>2, <2>5
      <3>2. z \notin Configured' /\ HandlesOf(z)' = {}
        BY <1>3, <2>5, <3>1 DEF HandlesOf, Configured
      <3>3. QED
        BY <3>2 DEF Aware, Clean
    <2>6. MoveShared \/ (Aware(z)' /\ Clean(z)')
      BY <1>1, <2>3, <2>4, <2>5 DEF SourceOK
    <2>7. QED
      BY <2>2, <2>6 DEF SourceOK
  <1>10. QED
    BY <1>6, <1>7, <1>8, <1>9 DEF IInv

-----------------------------------------------------------------------------
(* The theorems.                                                           *)

LEMMA InitHolds ==
    ASSUME DemandAssumption, Init
    PROVE  IInv
  <1>1. Configured \subseteq Sources /\ profiles \in [Handles -> SUBSET Sources]
    BY DEF Init, Configured, DemandAssumption
  <1>2. <<Wake>> \in Seq(MessageSet) /\ <<>> \in Seq(MessageSet)
    BY DEF MessageSet
  <1>3. 0 \in 0 .. MaxDues
    BY DEF DemandAssumption
  <1>4. TypeOK
    BY <1>1, <1>2, <1>3 DEF Init, TypeOK
  <1>5. CountsMatchLeases
    <2>1. ASSUME NEW h \in Handles PROVE Leases(h) = 0
      <3>1. {v \in Viewers : lease[v] = h} = {}
        BY DEF Init, DemandAssumption
      <3>2. QED
        BY <3>1, FS_EmptySet DEF Leases
    <2>2. QED
      BY <2>1 DEF Init, CountsMatchLeases
  <1>6. SyncOK
    BY DEF Init, SyncOK
  <1>7. ASSUME NEW s \in Sources PROVE SourceOK(s)
    <2>1. timer[s] = None /\ live[s] = {} /\ ~worker[s]
      BY DEF Init
    <2>2. s \in running => Wake \in Mailed(s)
      BY DEF Init, Mailed
    <2>3. QED
      BY <2>1, <2>2, FS_EmptySet DEF SourceOK, Waiting, Resting, Supervised, Aware, Clean
  <1>8. QED
    BY <1>4, <1>5, <1>6, <1>7 DEF IInv

LEMMA NextKeeps ==
    ASSUME DemandAssumption, IInv, [Next]_vars
    PROVE  IInv'
  <1>1. ASSUME NEW v \in Viewers, Leave(v) PROVE IInv'
    BY <1>1, LeaveKeeps
  <1>2. ASSUME NEW v \in Viewers, NEW h \in Handles, Acquire(v, h) PROVE IInv'
    BY <1>2, AcquireKeeps
  <1>3. ASSUME NEW save \in Saves, Save(save[1], save[2]) PROVE IInv'
    <2>1. save[1] \in Handles /\ save[2] \in SUBSET Sources
      BY DEF DemandAssumption
    <2>2. QED
      BY <1>3, <2>1, SaveKeeps
  <1>4. CASE StopSources
    BY <1>4, StopSourcesKeeps
  <1>5. CASE CrashAdmission
    BY <1>5, CrashAdmissionKeeps
  <1>6. ASSUME NEW s \in Sources, Handle(s) \/ Fire(s) \/ Elapse(s) PROVE IInv'
    BY <1>6, HandleKeeps, FireKeeps, ElapseKeeps
  <1>7. ASSUME NEW s \in Sources, NEW wait \in Waits, Result(s, wait) \/ Defer(s, wait)
        PROVE  IInv'
    BY <1>7, ResultKeeps, DeferKeeps
  <1>8. ASSUME NEW s \in Sources, StartSource(s) \/ CrashSource(s) PROVE IInv'
    BY <1>8, StartSourceKeeps, CrashSourceKeeps
  <1>9. ASSUME NEW s \in Sources, Hear(s) \/ WebhookCheck(s) \/ WebhookPublish(s) \/ MissDeletion(s)
        PROVE  IInv'
    BY <1>9, HearKeeps, MissDeletionKeeps
  <1>10. CASE UNCHANGED vars
    <2>1. UNCHANGED <<profiles, sync, lease, counts, running, mail, live, demand, worker, timer,
                      grace, next, periods, dues, gap, held, stale, inHand, crashes>>
      BY <1>10 DEF vars, configVars, leaseVars, sourceVars, timeVars, contentVars
    <2>2. TypeOK' /\ CountsMatchLeases' /\ SyncOK'
      BY <2>1, DemandSame DEF IInv, TypeOK, CountsMatchLeases, Leases, SyncOK
    <2>3. \A z \in Sources : SourceOK(z)'
      BY <2>1, UntouchedOK DEF IInv, Untouched
    <2>4. QED
      BY <2>2, <2>3 DEF IInv
  <1>11. QED
    BY <1>1, <1>2, <1>3, <1>4, <1>5, <1>6, <1>7, <1>8, <1>9, <1>10 DEF Next

\* The inductive invariant holds of every behaviour of viewers, sources and saves.
THEOREM DemandInvariant == Spec => []IInv
  <1>1. Init => IInv
    BY InitHolds, DemandAssumption
  <1>2. IInv /\ [Next]_vars => IInv'
    BY NextKeeps, DemandAssumption
  <1>3. QED
    BY <1>1, <1>2, PTL DEF Spec

\* The fields of a source hold what its handlers expect: whatever crashed or
\* fired late, s.timer holds a retry and s.grace the idle message.
THEOREM DemandTypeCorrect == Spec => []TypeOK
  <1>1. IInv => TypeOK
    BY DEF IInv
  <1>2. QED
    BY <1>1, DemandInvariant, PTL

\* Admission's counters are the leases it holds, for any number of viewers and
\* profiles: none is counted twice and none is forgotten.
THEOREM DemandCountsLeases == Spec => []CountsMatchLeases
  <1>1. IInv => CountsMatchLeases
    BY DEF IInv
  <1>2. QED
    BY <1>1, DemandInvariant, PTL

\* A source that waits for a retry will be woken for the due time it waits for,
\* and a worker without demand has something ahead that ends it.
THEOREM DemandTimersArmed == Spec => []TimersArmed
  <1>1. IInv => TimersArmed
    BY DEF IInv, TypeOK, SourceOK, Waiting, Resting, TimersArmed, WaitingHasTimer, RestingHasGrace
  <1>2. QED
    BY <1>1, DemandInvariant, PTL

\* As long as no save touches a source that another profile has too, no change
\* of demand is lost.
THEOREM DemandIsKept ==
    ASSUME ~MoveShared
    PROVE  Spec => []DemandIsCurrent
  <1>1. IInv => DemandIsCurrent
    BY DEF IInv, TypeOK, SourceOK, Aware, DemandIsCurrent
  <1>2. QED
    BY <1>1, DemandInvariant, PTL

\* ... and no store shows a message of a connected source that was deleted
\* while the source was not connected.
THEOREM DemandShowsNoStale ==
    ASSUME ~MoveShared
    PROVE  Spec => []ConnectedShowsNoStale
  <1>1. IInv => ConnectedShowsNoStale
    BY DEF IInv, SourceOK, Clean, ConnectedShowsNoStale
  <1>2. QED
    BY <1>1, DemandInvariant, PTL
=============================================================================
