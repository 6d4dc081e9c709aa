--------------------------- MODULE ChatViewProofs ---------------------------
(***************************************************************************)
(* Proofs about module ChatView, for any number of viewers, sources,       *)
(* messages and batches on the wire, and any limits.                       *)
(***************************************************************************)
EXTENDS ChatView, StoreProofs

-----------------------------------------------------------------------------
(* Loops over sequences                                                    *)

\* What holds at the start and is kept by every turn holds all the way.
LEMMA EveryTurn ==
    ASSUME NEW N \in Nat, NEW S, 0 \in S, \A n \in 1..N : n - 1 \in S => n \in S
    PROVE  \A n \in 0..N : n \in S
  <1> DEFINE Missed == {n \in 0..N : n \notin S}
  <1> SUFFICES ASSUME Missed # {} PROVE FALSE
    OBVIOUS
  <1>1. Missed \subseteq Nat
    OBVIOUS
  <1> HIDE DEF Missed
  <1>2. PICK m \in Missed : \A n \in Missed : m <= n
    BY <1>1, NatMinimum
  <1>3. m \in 1..N /\ m - 1 \in 0..N /\ ~(m <= m - 1)
    BY DEF Missed
  <1> QED
    BY <1>2, <1>3 DEF Missed

\* A loop of N turns that starts in start; its turn n takes v to turn[v, n].
Turn(start, turn, f, n) == f[n] = IF n = 0 THEN start ELSE turn[<<f[n - 1], n>>]

LEMMA LoopExists ==
    ASSUME NEW V, NEW start \in V, NEW N \in Nat,
           NEW turn, \A v \in V, n \in 1..N : turn[<<v, n>>] \in V
    PROVE  \E f \in [0..N -> V] : \A n \in 0..N : Turn(start, turn, f, n)
  <1> DEFINE UpTo(m) == \E f \in [0..N -> V] : \A n \in 0..m : Turn(start, turn, f, n)
             S == {m \in 0..N : UpTo(m)}
  <1>1. 0 \in S
    <2> DEFINE f == [n \in 0..N |-> start]
    <2>1. f \in [0..N -> V] /\ \A n \in 0..0 : Turn(start, turn, f, n)
      BY DEF Turn
    <2> HIDE DEF f
    <2>2. UpTo(0)
      BY <2>1
    <2> QED
      BY <2>2
  <1>2. ASSUME NEW m \in 1..N, m - 1 \in S PROVE m \in S
    <2>1. PICK f \in [0..N -> V] : \A n \in 0..(m - 1) : Turn(start, turn, f, n)
      BY <1>2
    <2> DEFINE g == [f EXCEPT ![m] = turn[<<f[m - 1], m>>]]
    <2>2. m - 1 \in 0..N /\ turn[<<f[m - 1], m>>] \in V
      OBVIOUS
    <2>3. g \in [0..N -> V]
      BY <2>2
    <2>4. ASSUME NEW n \in 0..m PROVE Turn(start, turn, g, n)
      <3>1. CASE n = m
        BY <2>2, <3>1 DEF Turn
      <3>2. CASE n # m
        <4>1. n \in 0..(m - 1) /\ n \in 0..N /\ (n # 0 => n - 1 \in 0..N /\ n - 1 # m)
          BY <3>2
        <4>2. g[n] = f[n] /\ (n # 0 => g[n - 1] = f[n - 1])
          BY <3>2, <4>1
        <4> QED
          BY <2>1, <4>1, <4>2 DEF Turn
      <3> QED
        BY <3>1, <3>2
    <2> HIDE DEF g
    <2>5. UpTo(m)
      BY <2>3, <2>4
    <2> QED
      BY <2>5
  <1> HIDE DEF S
  <1>3. N \in S
    BY <1>1, <1>2, EveryTurn
  <1> QED
    BY <1>3 DEF S

\* What Picked has picked after n entries.
PickTurn(s, P, v, n) == IF n \in P THEN Append(v, s[n]) ELSE v

Picks(s, P, f) ==
    /\ f[0] = <<>>
    /\ \A n \in 1 .. Len(s) : f[n] = PickTurn(s, P, f[n - 1], n)

LEMMA PickedPicks ==
    ASSUME NEW S, NEW s \in Seq(S), NEW P
    PROVE  \E f \in [0 .. Len(s) -> Seq(S)] : Picks(s, P, f) /\ Picked(s, P) = f[Len(s)]
  <1> DEFINE nil == <<>>
             N == Len(s)
             Recursion(f) == f = [n \in 0 .. N |->
                                     IF n = 0 THEN nil ELSE PickTurn(s, P, f[n - 1], n)]
             picked == CHOOSE f : Recursion(f)
             turn == [p \in Seq(S) \X (1 .. N) |-> PickTurn(s, P, p[1], p[2])]
  <1>1. N \in Nat /\ nil \in Seq(S)
    OBVIOUS
  <1>2. ASSUME NEW v \in Seq(S), NEW n \in 1 .. N
        PROVE  PickTurn(s, P, v, n) \in Seq(S)
    <2>1. s[n] \in S
      OBVIOUS
    <2>2. Append(v, s[n]) \in Seq(S)
      BY <2>1
    <2> QED
      BY <2>2 DEF PickTurn
  <1>3. \A v \in Seq(S), n \in 1 .. N : turn[<<v, n>>] = PickTurn(s, P, v, n)
    OBVIOUS
  <1>4. Picked(s, P) = picked[N]
    BY DEF Picked, PickTurn
  <1> HIDE DEF turn, N, nil
  <1>5. \A v \in Seq(S), n \in 1 .. N : turn[<<v, n>>] \in Seq(S)
    BY <1>2, <1>3
  <1>6. PICK f \in [0 .. N -> Seq(S)] : \A n \in 0 .. N : Turn(nil, turn, f, n)
    BY <1>1, <1>5, LoopExists
  <1>7. Recursion(f)
    <2>1. ASSUME NEW n \in 0 .. N
          PROVE  f[n] = IF n = 0 THEN nil ELSE PickTurn(s, P, f[n - 1], n)
      <3>1. CASE n = 0
        BY <1>6, <3>1 DEF Turn
      <3>2. CASE n # 0
        <4>1. n \in 1 .. N /\ n - 1 \in 0 .. N
          BY <1>1, <3>2
        <4>2. f[n - 1] \in Seq(S) /\ f[n] = turn[<<f[n - 1], n>>]
          BY <1>6, <3>2, <4>1 DEF Turn
        <4> QED
          BY <1>3, <3>2, <4>1, <4>2
      <3> QED
        BY <3>1, <3>2
    <2> QED
      BY <2>1
  <1>8. Recursion(picked)
    BY <1>7
  <1> HIDE DEF picked
  <1>9. picked[0] = nil
    BY <1>1, <1>8
  <1>10. \A n \in 1 .. N : picked[n] = PickTurn(s, P, picked[n - 1], n)
    BY <1>1, <1>8
  <1> DEFINE T == {n \in 0 .. N : picked[n] \in Seq(S)}
  <1>11. 0 \in T
    BY <1>1, <1>9
  <1>12. ASSUME NEW n \in 1 .. N, n - 1 \in T PROVE n \in T
    BY <1>2, <1>10, <1>12
  <1> HIDE DEF T
  <1>13. \A n \in 0 .. N : n \in T
    BY <1>1, <1>11, <1>12, EveryTurn
  <1>14. picked \in [0 .. N -> Seq(S)]
    BY <1>8, <1>13 DEF T
  <1> QED
    BY <1>4, <1>9, <1>10, <1>14 DEF Picks, N, nil

LEMMA PickedIsSeq ==
    ASSUME NEW S, NEW s \in Seq(S), NEW P
    PROVE  Picked(s, P) \in Seq(S)
  <1>1. PICK f \in [0 .. Len(s) -> Seq(S)] : Picked(s, P) = f[Len(s)]
    BY PickedPicks
  <1> QED
    BY <1>1

\* The page's list and states are lists of events and maps to events.
LEMMA ApplyToListIsList ==
    ASSUME NEW list \in Seq(Event), NEW e \in Event
    PROVE  ApplyToList(list, e) \in Seq(Event)
  <1> DEFINE edited == [e EXCEPT !.type = "message"]
             next ==
               CASE e.type = "message" -> Append(WithoutKey(list, e), e)
                 [] e.type = "replace" ->
                       [i \in DOMAIN list |-> IF Key(list[i]) = Key(e) THEN edited ELSE list[i]]
                 [] e.type = "delete_message" -> WithoutKey(list, e)
                 [] e.type = "delete_author" ->
                       Picked(list, {i \in DOMAIN list :
                                        list[i].source # e.source \/ list[i].author # e.author})
                 [] e.type = "clear_channel" ->
                       Picked(list, {i \in DOMAIN list : list[i].source # e.source})
                 [] OTHER -> list
  <1>1. WithoutKey(list, e) \in Seq(Event)
    BY PickedIsSeq DEF WithoutKey
  <1>2. edited \in Event
    BY DEF Event, MessageTypes
  <1>3. [i \in DOMAIN list |-> IF Key(list[i]) = Key(e) THEN edited ELSE list[i]] \in Seq(Event)
    <2> HIDE DEF edited
    <2>1. \A i \in 1 .. Len(list) :
             (IF Key(list[i]) = Key(e) THEN edited ELSE list[i]) \in Event
      BY <1>2
    <2>2. [i \in 1 .. Len(list) |-> IF Key(list[i]) = Key(e) THEN edited ELSE list[i]]
             \in [1 .. Len(list) -> Event]
      BY <2>1
    <2>3. DOMAIN list = 1 .. Len(list) /\ Len(list) \in Nat
      OBVIOUS
    <2> QED
      BY <2>2, <2>3, SeqDef
  <1>4. Append(WithoutKey(list, e), e) \in Seq(Event)
    BY <1>1
  <1>5. next \in Seq(Event)
    <2> HIDE DEF edited
    <2>1. \A P : Picked(list, P) \in Seq(Event)
      BY PickedIsSeq
    <2> QED
      BY <1>1, <1>3, <1>4, <2>1
  <1>6. ApplyToList(list, e) = IF Len(next) > MaxMessages
                               THEN SubSeq(next, Len(next) - MaxMessages + 1, Len(next)) ELSE next
    BY DEF ApplyToList
  <1> HIDE DEF next
  <1>7. CASE Len(next) > MaxMessages
    <2>1. Len(next) - MaxMessages + 1 \in 1 .. Len(next) /\ Len(next) \in 0 .. Len(next)
      BY <1>5, <1>7, LimitsAssumption
    <2>2. SubSeq(next, Len(next) - MaxMessages + 1, Len(next)) \in Seq(Event)
      BY <1>5, <2>1, SubSeqProperties
    <2> QED
      BY <1>6, <1>7, <2>2
  <1> QED
    BY <1>5, <1>6, <1>7

StateMaps == UNION {[S -> Event] : S \in SUBSET Sources}

LEMMA ApplyToStatesIsMap ==
    ASSUME NEW sts \in StateMaps, NEW e \in Event
    PROVE  ApplyToStates(sts, e) \in StateMaps
  <1>1. PICK S \in SUBSET Sources : sts \in [S -> Event]
    BY DEF StateMaps
  <1>2. e.source \in Sources
    BY DEF Event
  <1>3. CASE e.type = "source_state"
    <2>1. ApplyToStates(sts, e) \in [S \cup {e.source} -> Event]
      BY <1>1, <1>3 DEF ApplyToStates
    <2> QED
      BY <1>1, <1>2, <2>1 DEF StateMaps
  <1>4. CASE e.type # "source_state"
    BY <1>4 DEF ApplyToStates
  <1> QED
    BY <1>3, <1>4

\* What ListAfter has after n events.
ListRuns(list, events, f) ==
    /\ f[0] = list
    /\ \A n \in 1 .. Len(events) : f[n] = ApplyToList(f[n - 1], events[n])

LEMMA ListAfterRuns ==
    ASSUME NEW list \in Seq(Event), NEW events \in Seq(Event)
    PROVE  \E f \in [0 .. Len(events) -> Seq(Event)] :
              ListRuns(list, events, f) /\ ListAfter(list, events) = f[Len(events)]
  <1> DEFINE N == Len(events)
             Recursion(f) == f = [n \in 0 .. N |->
                                     IF n = 0 THEN list ELSE ApplyToList(f[n - 1], events[n])]
             after == CHOOSE f : Recursion(f)
             turn == [p \in Seq(Event) \X (1 .. N) |-> ApplyToList(p[1], events[p[2]])]
  <1>1. N \in Nat
    OBVIOUS
  <1>2. ASSUME NEW v \in Seq(Event), NEW n \in 1 .. N
        PROVE  ApplyToList(v, events[n]) \in Seq(Event)
    <2>1. events[n] \in Event
      OBVIOUS
    <2> QED
      BY <2>1, ApplyToListIsList
  <1>3. \A v \in Seq(Event), n \in 1 .. N : turn[<<v, n>>] = ApplyToList(v, events[n])
    OBVIOUS
  <1>4. ListAfter(list, events) = after[N]
    BY DEF ListAfter
  <1> HIDE DEF turn, N
  <1>5. \A v \in Seq(Event), n \in 1 .. N : turn[<<v, n>>] \in Seq(Event)
    BY <1>2, <1>3
  <1>6. PICK f \in [0 .. N -> Seq(Event)] : \A n \in 0 .. N : Turn(list, turn, f, n)
    BY <1>1, <1>5, LoopExists
  <1>7. Recursion(f)
    <2>1. ASSUME NEW n \in 0 .. N
          PROVE  f[n] = IF n = 0 THEN list ELSE ApplyToList(f[n - 1], events[n])
      <3>1. CASE n = 0
        BY <1>6, <3>1 DEF Turn
      <3>2. CASE n # 0
        <4>1. n \in 1 .. N /\ n - 1 \in 0 .. N
          BY <1>1, <3>2
        <4>2. f[n - 1] \in Seq(Event) /\ f[n] = turn[<<f[n - 1], n>>]
          BY <1>6, <3>2, <4>1 DEF Turn
        <4> QED
          BY <1>3, <3>2, <4>1, <4>2
      <3> QED
        BY <3>1, <3>2
    <2> QED
      BY <2>1
  <1>8. Recursion(after)
    BY <1>7
  <1> HIDE DEF after
  <1>9. after[0] = list
    BY <1>1, <1>8
  <1>10. \A n \in 1 .. N : after[n] = ApplyToList(after[n - 1], events[n])
    BY <1>1, <1>8
  <1> DEFINE T == {n \in 0 .. N : after[n] \in Seq(Event)}
  <1>11. 0 \in T
    BY <1>1, <1>9
  <1>12. ASSUME NEW n \in 1 .. N, n - 1 \in T PROVE n \in T
    BY <1>2, <1>10, <1>12
  <1> HIDE DEF T
  <1>13. \A n \in 0 .. N : n \in T
    BY <1>1, <1>11, <1>12, EveryTurn
  <1>14. after \in [0 .. N -> Seq(Event)]
    BY <1>8, <1>13 DEF T
  <1> QED
    BY <1>4, <1>9, <1>10, <1>14 DEF ListRuns, N

LEMMA ListAfterNone ==
    ASSUME NEW list \in Seq(Event)
    PROVE  ListAfter(list, <<>>) = list
  <1> DEFINE events == <<>>
  <1>1. events \in Seq(Event) /\ Len(events) = 0
    OBVIOUS
  <1> HIDE DEF events
  <1>2. PICK f \in [0 .. Len(events) -> Seq(Event)] :
           ListRuns(list, events, f) /\ ListAfter(list, events) = f[Len(events)]
    BY <1>1, ListAfterRuns
  <1>3. ListAfter(list, events) = list
    BY <1>1, <1>2 DEF ListRuns
  <1> QED
    BY <1>3 DEF events

LEMMA ListAfterOneMore ==
    ASSUME NEW list \in Seq(Event), NEW events \in Seq(Event), NEW e \in Event
    PROVE  /\ ListAfter(list, events) \in Seq(Event)
           /\ ListAfter(list, Append(events, e)) = ApplyToList(ListAfter(list, events), e)
  <1> DEFINE more == Append(events, e)
             N == Len(events)
  <1>1. /\ more \in Seq(Event) /\ Len(more) = N + 1 /\ N \in Nat
        /\ \A n \in 1 .. N : more[n] = events[n]
        /\ more[N + 1] = e
    OBVIOUS
  <1>2. PICK f \in [0 .. N -> Seq(Event)] : ListRuns(list, events, f) /\ ListAfter(list, events) = f[N]
    BY ListAfterRuns
  <1> HIDE DEF more, N
  <1>3. PICK g \in [0 .. N + 1 -> Seq(Event)] :
           ListRuns(list, more, g) /\ ListAfter(list, more) = g[N + 1]
    BY <1>1, ListAfterRuns
  <1> DEFINE T == {n \in 0 .. N : f[n] = g[n]}
  <1>4. 0 \in T
    BY <1>1, <1>2, <1>3 DEF ListRuns
  <1>5. ASSUME NEW n \in 1 .. N, n - 1 \in T PROVE n \in T
    <2>1. f[n] = ApplyToList(f[n - 1], events[n])
      BY <1>2 DEF ListRuns, N
    <2>2. n \in 1 .. Len(more) /\ g[n] = ApplyToList(g[n - 1], more[n])
      BY <1>1, <1>3 DEF ListRuns
    <2> QED
      BY <1>1, <1>5, <2>1, <2>2
  <1> HIDE DEF T
  <1>6. \A n \in 0 .. N : n \in T
    <2>1. N \in Nat
      BY <1>1
    <2> QED
      BY <1>4, <1>5, <2>1, EveryTurn
  <1>7. N \in 0 .. N /\ N + 1 \in 1 .. Len(more) /\ (N + 1) - 1 = N
    <2>1. Len(more) = N + 1 /\ N \in Nat
      BY <1>1
    <2> QED
      BY <2>1
  <1>8. g[N + 1] = ApplyToList(g[N], more[N + 1])
    BY <1>3, <1>7 DEF ListRuns
  <1>9. f[N] = g[N] /\ f[N] \in Seq(Event)
    BY <1>2, <1>6, <1>7 DEF T
  <1> QED
    BY <1>1, <1>2, <1>3, <1>8, <1>9 DEF more

\* What StatesAfter has after n events.
StatesRun(sts, events, f) ==
    /\ f[0] = sts
    /\ \A n \in 1 .. Len(events) : f[n] = ApplyToStates(f[n - 1], events[n])

LEMMA StatesAfterRuns ==
    ASSUME NEW sts \in StateMaps, NEW events \in Seq(Event)
    PROVE  \E f \in [0 .. Len(events) -> StateMaps] :
              StatesRun(sts, events, f) /\ StatesAfter(sts, events) = f[Len(events)]
  <1> DEFINE N == Len(events)
             Recursion(f) == f = [n \in 0 .. N |->
                                     IF n = 0 THEN sts ELSE ApplyToStates(f[n - 1], events[n])]
             after == CHOOSE f : Recursion(f)
             turn == [p \in StateMaps \X (1 .. N) |-> ApplyToStates(p[1], events[p[2]])]
  <1>1. N \in Nat
    OBVIOUS
  <1>2. ASSUME NEW v \in StateMaps, NEW n \in 1 .. N
        PROVE  ApplyToStates(v, events[n]) \in StateMaps
    <2>1. events[n] \in Event
      OBVIOUS
    <2> QED
      BY <2>1, ApplyToStatesIsMap
  <1>3. \A v \in StateMaps, n \in 1 .. N : turn[<<v, n>>] = ApplyToStates(v, events[n])
    OBVIOUS
  <1>4. StatesAfter(sts, events) = after[N]
    BY DEF StatesAfter
  <1> HIDE DEF turn, N
  <1>5. \A v \in StateMaps, n \in 1 .. N : turn[<<v, n>>] \in StateMaps
    BY <1>2, <1>3
  <1>6. PICK f \in [0 .. N -> StateMaps] : \A n \in 0 .. N : Turn(sts, turn, f, n)
    BY <1>1, <1>5, LoopExists
  <1>7. Recursion(f)
    <2>1. ASSUME NEW n \in 0 .. N
          PROVE  f[n] = IF n = 0 THEN sts ELSE ApplyToStates(f[n - 1], events[n])
      <3>1. CASE n = 0
        BY <1>6, <3>1 DEF Turn
      <3>2. CASE n # 0
        <4>1. n \in 1 .. N /\ n - 1 \in 0 .. N
          BY <1>1, <3>2
        <4>2. f[n - 1] \in StateMaps /\ f[n] = turn[<<f[n - 1], n>>]
          BY <1>6, <3>2, <4>1 DEF Turn
        <4> QED
          BY <1>3, <3>2, <4>1, <4>2
      <3> QED
        BY <3>1, <3>2
    <2> QED
      BY <2>1
  <1>8. Recursion(after)
    BY <1>7
  <1> HIDE DEF after
  <1>9. after[0] = sts
    BY <1>1, <1>8
  <1>10. \A n \in 1 .. N : after[n] = ApplyToStates(after[n - 1], events[n])
    BY <1>1, <1>8
  <1> DEFINE T == {n \in 0 .. N : after[n] \in StateMaps}
  <1>11. 0 \in T
    BY <1>1, <1>9
  <1>12. ASSUME NEW n \in 1 .. N, n - 1 \in T PROVE n \in T
    BY <1>2, <1>10, <1>12
  <1> HIDE DEF T
  <1>13. \A n \in 0 .. N : n \in T
    BY <1>1, <1>11, <1>12, EveryTurn
  <1>14. after \in [0 .. N -> StateMaps]
    BY <1>8, <1>13 DEF T
  <1> QED
    BY <1>4, <1>9, <1>10, <1>14 DEF StatesRun, N

LEMMA StatesAfterNone ==
    ASSUME NEW sts \in StateMaps
    PROVE  StatesAfter(sts, <<>>) = sts
  <1> DEFINE events == <<>>
  <1>1. events \in Seq(Event) /\ Len(events) = 0
    OBVIOUS
  <1> HIDE DEF events
  <1>2. PICK f \in [0 .. Len(events) -> StateMaps] :
           StatesRun(sts, events, f) /\ StatesAfter(sts, events) = f[Len(events)]
    BY <1>1, StatesAfterRuns
  <1>3. StatesAfter(sts, events) = sts
    BY <1>1, <1>2 DEF StatesRun
  <1> QED
    BY <1>3 DEF events

LEMMA StatesAfterOneMore ==
    ASSUME NEW sts \in StateMaps, NEW events \in Seq(Event), NEW e \in Event
    PROVE  /\ StatesAfter(sts, events) \in StateMaps
           /\ StatesAfter(sts, Append(events, e)) = ApplyToStates(StatesAfter(sts, events), e)
  <1> DEFINE more == Append(events, e)
             N == Len(events)
  <1>1. /\ more \in Seq(Event) /\ Len(more) = N + 1 /\ N \in Nat
        /\ \A n \in 1 .. N : more[n] = events[n]
        /\ more[N + 1] = e
    OBVIOUS
  <1>2. PICK f \in [0 .. N -> StateMaps] : StatesRun(sts, events, f) /\ StatesAfter(sts, events) = f[N]
    BY StatesAfterRuns
  <1> HIDE DEF more, N
  <1>3. PICK g \in [0 .. N + 1 -> StateMaps] :
           StatesRun(sts, more, g) /\ StatesAfter(sts, more) = g[N + 1]
    BY <1>1, StatesAfterRuns
  <1> DEFINE T == {n \in 0 .. N : f[n] = g[n]}
  <1>4. 0 \in T
    BY <1>1, <1>2, <1>3 DEF StatesRun
  <1>5. ASSUME NEW n \in 1 .. N, n - 1 \in T PROVE n \in T
    <2>1. f[n] = ApplyToStates(f[n - 1], events[n])
      BY <1>2 DEF StatesRun, N
    <2>2. n \in 1 .. Len(more) /\ g[n] = ApplyToStates(g[n - 1], more[n])
      BY <1>1, <1>3 DEF StatesRun
    <2> QED
      BY <1>1, <1>5, <2>1, <2>2
  <1> HIDE DEF T
  <1>6. \A n \in 0 .. N : n \in T
    <2>1. N \in Nat
      BY <1>1
    <2> QED
      BY <1>4, <1>5, <2>1, EveryTurn
  <1>7. N \in 0 .. N /\ N + 1 \in 1 .. Len(more) /\ (N + 1) - 1 = N
    <2>1. Len(more) = N + 1 /\ N \in Nat
      BY <1>1
    <2> QED
      BY <2>1
  <1>8. g[N + 1] = ApplyToStates(g[N], more[N + 1])
    BY <1>3, <1>7 DEF StatesRun
  <1>9. f[N] = g[N] /\ f[N] \in StateMaps
    BY <1>2, <1>6, <1>7 DEF T
  <1> QED
    BY <1>1, <1>2, <1>3, <1>8, <1>9 DEF more

-----------------------------------------------------------------------------
(* What Picked picks                                                       *)

\* r is what s has at the places P, in their order: r[i] comes from at[i].
Places(s, P, r, at) ==
    /\ \A i \in DOMAIN r : at[i] \in P /\ r[i] = s[at[i]]
    /\ \A i, j \in DOMAIN r : i < j => at[i] < at[j]
    /\ \A p \in P : \E i \in DOMAIN r : at[i] = p

LEMMA PlacesOneMore ==
    ASSUME NEW S, NEW s \in Seq(S), NEW P \in SUBSET DOMAIN s, NEW n \in DOMAIN s,
           NEW r \in Seq(S), NEW at, Places(s, P \cap 1 .. n - 1, r, at)
    PROVE  \E more : Places(s, P \cap 1 .. n, PickTurn(s, P, r, n), more)
  <1>1. n \in Nat /\ n >= 1 /\ s[n] \in S
    OBVIOUS
  <1>2. CASE n \in P
    <2> DEFINE m == Len(r)
               q == Append(r, s[n])
               more == [i \in 1 .. m + 1 |-> IF i = m + 1 THEN n ELSE at[i]]
    <2>1. /\ m \in Nat /\ DOMAIN r = 1 .. m /\ DOMAIN q = 1 .. m + 1
          /\ q[m + 1] = s[n] /\ \A i \in 1 .. m : q[i] = r[i]
      BY <1>1, AppendProperties
    <2>2. PickTurn(s, P, r, n) = q
      BY <1>2 DEF PickTurn
    <2> HIDE DEF m, q
    <2>3. more[m + 1] = n /\ \A i \in 1 .. m : more[i] = at[i]
      BY <2>1
    <2>4. \A i \in 1 .. m : at[i] \in P /\ at[i] \in 1 .. n - 1 /\ r[i] = s[at[i]]
      BY <2>1 DEF Places
    <2> HIDE DEF more
    <2>5. ASSUME NEW i \in DOMAIN q PROVE more[i] \in P \cap 1 .. n /\ q[i] = s[more[i]]
      <3>1. CASE i = m + 1
        BY <1>1, <1>2, <2>1, <2>3, <3>1
      <3>2. CASE i \in 1 .. m
        BY <1>1, <2>1, <2>3, <2>4, <3>2
      <3> QED
        BY <2>1, <3>1, <3>2
    <2>6. ASSUME NEW i \in DOMAIN q, NEW j \in DOMAIN q, i < j PROVE more[i] < more[j]
      <3>1. i \in 1 .. m
        BY <2>1, <2>6
      <3>2. CASE j = m + 1
        BY <1>1, <2>3, <2>4, <3>1, <3>2
      <3>3. CASE j \in 1 .. m
        <4>1. at[i] < at[j]
          BY <2>1, <2>6, <3>1, <3>3 DEF Places
        <4> QED
          BY <2>3, <3>1, <3>3, <4>1
      <3> QED
        BY <2>1, <3>2, <3>3
    <2>7. ASSUME NEW p \in P \cap 1 .. n PROVE \E i \in DOMAIN q : more[i] = p
      <3>1. CASE p = n
        BY <2>1, <2>3, <3>1
      <3>2. CASE p # n
        <4>1. p \in P \cap 1 .. n - 1
          BY <1>1, <3>2
        <4>2. PICK i \in DOMAIN r : at[i] = p
          BY <4>1 DEF Places
        <4> QED
          BY <2>1, <2>3, <4>2
      <3> QED
        BY <3>1, <3>2
    <2>8. Places(s, P \cap 1 .. n, q, more)
      BY <2>5, <2>6, <2>7 DEF Places
    <2> QED
      BY <2>2, <2>8
  <1>3. CASE n \notin P
    <2>1. P \cap 1 .. n = P \cap 1 .. n - 1
      BY <1>1, <1>3
    <2> QED
      BY <1>3, <2>1 DEF PickTurn
  <1> QED
    BY <1>2, <1>3

LEMMA PickedPlaces ==
    ASSUME NEW S, NEW s \in Seq(S), NEW P \in SUBSET DOMAIN s
    PROVE  /\ Picked(s, P) \in Seq(S)
           /\ \E at : Places(s, P, Picked(s, P), at)
  <1>1. PICK f \in [0 .. Len(s) -> Seq(S)] : Picks(s, P, f) /\ Picked(s, P) = f[Len(s)]
    BY PickedPicks
  <1> DEFINE N == Len(s)
             T == {n \in 0 .. N : \E at : Places(s, P \cap 1 .. n, f[n], at)}
  <1>2. N \in Nat /\ DOMAIN s = 1 .. N
    OBVIOUS
  <1>3. 0 \in T
    <2>1. P \cap 1 .. 0 = {} /\ f[0] = <<>>
      BY <1>1 DEF Picks
    <2>2. DOMAIN f[0] = {}
      BY <2>1
    <2>3. Places(s, P \cap 1 .. 0, f[0], <<>>)
      BY <2>1, <2>2 DEF Places
    <2> QED
      BY <1>2, <2>3
  <1>4. ASSUME NEW n \in 1 .. N, n - 1 \in T PROVE n \in T
    <2>1. PICK at : Places(s, P \cap 1 .. n - 1, f[n - 1], at)
      BY <1>4
    <2>2. f[n - 1] \in Seq(S) /\ n \in DOMAIN s
      BY <1>1, <1>2, <1>4
    <2>3. f[n] = PickTurn(s, P, f[n - 1], n)
      BY <1>1 DEF Picks
    <2>4. \E more : Places(s, P \cap 1 .. n, PickTurn(s, P, f[n - 1], n), more)
      BY <2>1, <2>2, PlacesOneMore
    <2> QED
      BY <2>3, <2>4
  <1> HIDE DEF T, N
  <1>5. N \in T
    <2>1. \A n \in 0 .. N : n \in T
      BY <1>2, <1>3, <1>4, EveryTurn
    <2> QED
      BY <1>2, <2>1
  <1>6. P \cap 1 .. N = P
    BY <1>2
  <1> QED
    BY <1>1, <1>5, <1>6, PickedIsSeq DEF T, N

\* The entries after the first d are a suffix: r is what n entries have of it.
SuffixUpTo(s, d, n, r) ==
    /\ Len(r) = IF n > d THEN n - d ELSE 0
    /\ \A i \in 1 .. n - d : r[i] = s[d + i]

LEMMA PickedSuffix ==
    ASSUME NEW S, NEW s \in Seq(S), NEW d \in 0 .. Len(s)
    PROVE  /\ Len(Picked(s, {i \in DOMAIN s : i > d})) = Len(s) - d
           /\ \A i \in 1 .. Len(s) - d : Picked(s, {j \in DOMAIN s : j > d})[i] = s[d + i]
  <1> DEFINE N == Len(s)
             P == {i \in DOMAIN s : i > d}
  <1>1. PICK f \in [0 .. N -> Seq(S)] : Picks(s, P, f) /\ Picked(s, P) = f[N]
    BY PickedPicks
  <1>2. N \in Nat /\ d \in Nat /\ d <= N /\ DOMAIN s = 1 .. N
    OBVIOUS
  <1> DEFINE T == {n \in 0 .. N : SuffixUpTo(s, d, n, f[n])}
  <1>3. 0 \in T
    <2>1. f[0] = <<>>
      BY <1>1 DEF Picks
    <2>2. SuffixUpTo(s, d, 0, f[0])
      BY <1>2, <2>1 DEF SuffixUpTo
    <2> QED
      BY <1>2, <2>2
  <1>4. ASSUME NEW n \in 1 .. N, n - 1 \in T PROVE n \in T
    <2>1. PICK r \in Seq(S) : r = f[n - 1]
      BY <1>2
    <2>2. f[n] = PickTurn(s, P, r, n) /\ s[n] \in S /\ n \in DOMAIN s
      <3> HIDE DEF P
      <3>1. f[n] = PickTurn(s, P, r, n)
        BY <1>1, <2>1 DEF Picks
      <3> QED
        BY <1>2, <3>1
    <2>5. SuffixUpTo(s, d, n - 1, r)
      BY <1>4, <2>1
    <2>3. CASE n > d
      <3>1. f[n] = Append(r, s[n])
        BY <1>2, <2>2, <2>3 DEF PickTurn
      <3>2. Len(r) = n - 1 - d /\ \A i \in 1 .. n - 1 - d : r[i] = s[d + i]
        BY <1>2, <2>3, <2>5 DEF SuffixUpTo
      <3> DEFINE q == Append(r, s[n])
      <3>3. Len(q) = Len(r) + 1 /\ q[Len(r) + 1] = s[n] /\ \A i \in 1 .. Len(r) : q[i] = r[i]
        BY <2>2, AppendProperties
      <3> HIDE DEF q
      <3>4. Len(q) = n - d /\ q[n - d] = s[n] /\ \A i \in 1 .. n - 1 - d : q[i] = s[d + i]
        BY <1>2, <3>2, <3>3
      <3>5. ASSUME NEW i \in 1 .. n - d PROVE q[i] = s[d + i]
        <4>1. CASE i = n - d
          BY <1>2, <3>4, <4>1
        <4>2. CASE i # n - d
          <5>1. i \in 1 .. n - 1 - d
            BY <1>2, <4>2
          <5> QED
            BY <3>4, <5>1
        <4> QED
          BY <4>1, <4>2
      <3>6. SuffixUpTo(s, d, n, q)
        BY <2>3, <3>4, <3>5 DEF SuffixUpTo
      <3>7. SuffixUpTo(s, d, n, f[n])
        BY <3>1, <3>6 DEF q
      <3> QED
        BY <1>2, <3>7
    <2>4. CASE ~(n > d)
      <3>1. f[n] = r
        BY <1>2, <2>2, <2>4 DEF PickTurn
      <3>2. SuffixUpTo(s, d, n, r)
        BY <1>2, <2>4, <2>5 DEF SuffixUpTo
      <3> QED
        BY <3>1, <3>2
    <2> QED
      BY <2>3, <2>4
  <1> HIDE DEF T
  <1>5. N \in T
    <2> HIDE DEF N
    <2>1. \A n \in 0 .. N : n \in T
      BY <1>2, <1>3, <1>4, EveryTurn
    <2> QED
      BY <1>2, <2>1
  <1>6. SuffixUpTo(s, d, N, Picked(s, P))
    BY <1>1, <1>5 DEF T
  <1> HIDE DEF P, N
  <1>7. Len(Picked(s, P)) = N - d
    BY <1>2, <1>6 DEF SuffixUpTo
  <1> QED
    BY <1>6, <1>7 DEF SuffixUpTo, P, N

-----------------------------------------------------------------------------
(* Lists of messages                                                       *)

HeldMessages(ms) ==
    /\ ms \in [DOMAIN ms -> Stored]
    /\ Bounded(DOMAIN ms, MaxMessages)
    /\ \A k \in DOMAIN ms : Key(ms[k].event) = k /\ ms[k].event.type = "message"
    /\ \A j, k \in DOMAIN ms : ms[j].pos = ms[k].pos => j = k

HeldStates(sts) ==
    /\ DOMAIN sts \subseteq Sources
    /\ sts \in [DOMAIN sts -> Event]
    /\ \A s \in DOMAIN sts : sts[s].type = "source_state" /\ sts[s].source = s

\* Content b is content a after the event e of the replay.
Follows(a, e, b) ==
    /\ e.type \in {"message", "delete_message", "source_state"}
    /\ e.type = "message" =>
          /\ DOMAIN b.messages = DOMAIN a.messages \cup {Key(e)}
          /\ b.messages[Key(e)].event = e
          /\ \A k \in DOMAIN a.messages \ {Key(e)} :
                /\ b.messages[k] = a.messages[k]
                /\ a.messages[k].pos < b.messages[Key(e)].pos
    /\ e.type = "delete_message" =>
          b.messages = Restrict(a.messages, DOMAIN a.messages \ {Key(e)})
    /\ e.type = "source_state" => b.messages = a.messages
    /\ b.states = ApplyToStates(a.states, e)

\* A list shows the messages ms of the platforms F, in order, but for some of D.
Shows(F, ms, D, list) ==
    /\ list \in Seq(Event)
    /\ \A i \in DOMAIN list :
          /\ Key(list[i]) \in DOMAIN ms
          /\ list[i] = ms[Key(list[i])].event
          /\ PlatformOf[list[i].source] \in F
    /\ \A i, j \in DOMAIN list : i < j => ms[Key(list[i])].pos < ms[Key(list[j])].pos
    /\ \A k \in DOMAIN ms :
          PlatformOf[ms[k].event.source] \in F /\ ms[k].event \notin D =>
              \E i \in DOMAIN list : list[i] = ms[k].event

\* No entry of the list is in C.
NoneOf(C, list) == \A i \in DOMAIN list : list[i] \notin C

StatesFor(F, sts) == Restrict(sts, {s \in DOMAIN sts : PlatformOf[s] \in F})

LEMMA ShownFits ==
    ASSUME NEW F, NEW ms, NEW D, NEW list, HeldMessages(ms), Shows(F, ms, D, list)
    PROVE  Len(list) <= MaxMessages
  <1> DEFINE n == Len(list)
             f == [i \in 1 .. n |-> Key(list[i])]
  <1>1. list \in Seq(Event) /\ n \in Nat /\ DOMAIN list = 1 .. n
    BY DEF Shows
  <1>2. \A k \in DOMAIN ms : ms[k].pos \in Nat
    BY DEF HeldMessages, Stored
  <1>3. f \in [1 .. n -> DOMAIN ms]
    BY <1>1 DEF Shows
  <1>4. \A i, j \in 1 .. n : i < j => ms[f[i]].pos < ms[f[j]].pos
    BY <1>1 DEF Shows
  <1> HIDE DEF f, n
  <1>5. ASSUME NEW i \in 1 .. n, NEW j \in 1 .. n, f[i] = f[j], i # j PROVE FALSE
    <2>1. i < j \/ j < i
      BY <1>1, <1>5
    <2>2. ms[f[i]].pos \in Nat /\ ms[f[j]].pos \in Nat
      BY <1>2, <1>3
    <2> QED
      BY <1>4, <1>5, <2>1, <2>2
  <1>6. f \in Injection(1 .. n, DOMAIN ms)
    BY <1>3, <1>5 DEF Injection, IsInjective
  <1>7. Cardinality(1 .. n) <= Cardinality(DOMAIN ms)
    BY <1>6, FS_Injection DEF HeldMessages, Bounded
  <1>8. Cardinality(1 .. n) = n
    BY <1>1, FS_Interval
  <1>9. Cardinality(DOMAIN ms) \in Nat /\ Cardinality(DOMAIN ms) <= MaxMessages
    BY FS_CardinalityType DEF HeldMessages, Bounded
  <1> QED
    BY <1>1, <1>7, <1>8, <1>9, LimitsAssumption DEF n

\* Of a list that shows everything but D, the entries that are not in C show
\* everything but D and C; a list for some platforms shows fewer of them too.
LEMMA PickedShows ==
    ASSUME NEW F, NEW G, NEW ms, NEW D, NEW C, NEW list, Shows(F, ms, D, list),
           \A k \in DOMAIN ms : PlatformOf[ms[k].event.source] \in G =>
                                    PlatformOf[ms[k].event.source] \in F,
           NEW P, P = {i \in DOMAIN list :
                          PlatformOf[list[i].source] \in G /\ list[i] \notin C}
    PROVE  /\ Shows(G, ms, D \cup C, Picked(list, P))
           /\ NoneOf(C, Picked(list, P))
  <1>1. list \in Seq(Event) /\ P \subseteq DOMAIN list
    BY DEF Shows
  <1>2. PICK r, at : r = Picked(list, P) /\ r \in Seq(Event) /\ Places(list, P, r, at)
    BY <1>1, PickedPlaces
  <1>3. \A i \in DOMAIN r : at[i] \in P /\ at[i] \in DOMAIN list /\ r[i] = list[at[i]]
    BY <1>1, <1>2 DEF Places
  <1>4. ASSUME NEW i \in DOMAIN r
        PROVE  /\ Key(r[i]) \in DOMAIN ms
               /\ r[i] = ms[Key(r[i])].event
               /\ PlatformOf[r[i].source] \in G
               /\ r[i] \notin C
    BY <1>3 DEF Shows
  <1>5. ASSUME NEW i \in DOMAIN r, NEW j \in DOMAIN r, i < j
        PROVE  ms[Key(r[i])].pos < ms[Key(r[j])].pos
    <2>1. at[i] < at[j]
      BY <1>2, <1>5 DEF Places
    <2> QED
      BY <1>3, <2>1 DEF Shows
  <1>6. ASSUME NEW k \in DOMAIN ms, PlatformOf[ms[k].event.source] \in G,
               ms[k].event \notin D \cup C
        PROVE  \E i \in DOMAIN r : r[i] = ms[k].event
    <2>1. PICK p \in DOMAIN list : list[p] = ms[k].event
      BY <1>6 DEF Shows
    <2>2. p \in P
      BY <1>6, <2>1
    <2>3. PICK i \in DOMAIN r : at[i] = p
      BY <1>2, <2>2 DEF Places
    <2> QED
      BY <1>3, <2>1, <2>3
  <1> QED
    BY <1>2, <1>4, <1>5, <1>6 DEF Shows, NoneOf

\* The list without a key shows the messages without it.
LEMMA WithoutKeyShows ==
    ASSUME NEW F, NEW ms, NEW D, NEW list, HeldMessages(ms), Shows(F, ms, D, list), NEW e
    PROVE  Shows(F, Restrict(ms, DOMAIN ms \ {Key(e)}), D, WithoutKey(list, e))
  <1> DEFINE P == {i \in DOMAIN list : Key(list[i]) # Key(e)}
  <1>1. list \in Seq(Event) /\ P \subseteq DOMAIN list
    BY DEF Shows
  <1>2. PICK r, at : r = Picked(list, P) /\ r \in Seq(Event) /\ Places(list, P, r, at)
    BY <1>1, PickedPlaces
  <1>3. \A i \in DOMAIN r : at[i] \in P /\ at[i] \in DOMAIN list /\ r[i] = list[at[i]]
    BY <1>1, <1>2 DEF Places
  <1>4. PICK rest : rest = Restrict(ms, DOMAIN ms \ {Key(e)})
    OBVIOUS
  <1>5. DOMAIN rest = DOMAIN ms \ {Key(e)} /\ \A k \in DOMAIN rest : rest[k] = ms[k]
    BY <1>4 DEF Restrict
  <1>6. ASSUME NEW i \in DOMAIN r
        PROVE  /\ Key(r[i]) \in DOMAIN rest
               /\ r[i] = rest[Key(r[i])].event
               /\ PlatformOf[r[i].source] \in F
    BY <1>3, <1>5 DEF Shows
  <1>7. ASSUME NEW i \in DOMAIN r, NEW j \in DOMAIN r, i < j
        PROVE  rest[Key(r[i])].pos < rest[Key(r[j])].pos
    <2>1. at[i] < at[j]
      BY <1>2, <1>7 DEF Places
    <2>2. ms[Key(r[i])].pos < ms[Key(r[j])].pos
      BY <1>3, <2>1 DEF Shows
    <2> QED
      BY <1>5, <1>6, <2>2
  <1>8. ASSUME NEW k \in DOMAIN rest, PlatformOf[rest[k].event.source] \in F,
               rest[k].event \notin D
        PROVE  \E i \in DOMAIN r : r[i] = rest[k].event
    <2>1. k \in DOMAIN ms /\ rest[k] = ms[k] /\ k # Key(e)
      BY <1>5
    <2>2. PICK p \in DOMAIN list : list[p] = ms[k].event
      BY <1>8, <2>1 DEF Shows
    <2>3. p \in P
      BY <2>1, <2>2 DEF HeldMessages
    <2>4. PICK i \in DOMAIN r : at[i] = p
      BY <1>2, <2>3 DEF Places
    <2> QED
      BY <1>3, <2>1, <2>2, <2>4
  <1> QED
    BY <1>2, <1>4, <1>6, <1>7, <1>8 DEF Shows, WithoutKey

\* A message that comes in last is shown last.
LEMMA AppendShows ==
    ASSUME NEW F, NEW ms, NEW D, NEW list, Shows(F, ms, D, list),
           NEW e \in Event, PlatformOf[e.source] \in F, Key(e) \notin DOMAIN ms,
           NEW more, DOMAIN more = DOMAIN ms \cup {Key(e)}, more[Key(e)].event = e,
           \A k \in DOMAIN ms : more[k] = ms[k] /\ ms[k].pos < more[Key(e)].pos
    PROVE  Shows(F, more, D, Append(list, e))
  <1> DEFINE n == Len(list)
             q == Append(list, e)
  <1>1. /\ list \in Seq(Event) /\ n \in Nat /\ DOMAIN list = 1 .. n
        /\ q \in Seq(Event) /\ DOMAIN q = 1 .. n + 1
        /\ q[n + 1] = e /\ \A i \in 1 .. n : q[i] = list[i]
    BY AppendProperties DEF Shows
  <1> HIDE DEF n, q
  <1>2. ASSUME NEW i \in DOMAIN q
        PROVE  /\ Key(q[i]) \in DOMAIN more
               /\ q[i] = more[Key(q[i])].event
               /\ PlatformOf[q[i].source] \in F
    <2>1. CASE i = n + 1
      BY <1>1, <2>1
    <2>2. CASE i \in 1 .. n
      <3>1. Key(list[i]) \in DOMAIN ms /\ list[i] = ms[Key(list[i])].event
            /\ PlatformOf[list[i].source] \in F
        BY <1>1, <2>2 DEF Shows
      <3> QED
        BY <1>1, <2>2, <3>1
    <2> QED
      BY <1>1, <1>2, <2>1, <2>2
  <1>3. ASSUME NEW i \in DOMAIN q, NEW j \in DOMAIN q, i < j
        PROVE  more[Key(q[i])].pos < more[Key(q[j])].pos
    <2>1. i \in 1 .. n
      BY <1>1, <1>3
    <2>2. Key(list[i]) \in DOMAIN ms /\ q[i] = list[i]
      BY <1>1, <2>1 DEF Shows
    <2>3. CASE j = n + 1
      BY <1>1, <2>2, <2>3
    <2>4. CASE j \in 1 .. n
      <3>1. ms[Key(list[i])].pos < ms[Key(list[j])].pos /\ Key(list[j]) \in DOMAIN ms
        BY <1>1, <1>3, <2>1, <2>4 DEF Shows
      <3> QED
        BY <1>1, <2>2, <2>4, <3>1
    <2> QED
      BY <1>1, <1>3, <2>3, <2>4
  <1>4. ASSUME NEW k \in DOMAIN more, PlatformOf[more[k].event.source] \in F,
               more[k].event \notin D
        PROVE  \E i \in DOMAIN q : q[i] = more[k].event
    <2>1. CASE k = Key(e)
      BY <1>1, <2>1
    <2>2. CASE k \in DOMAIN ms
      <3>1. PICK i \in DOMAIN list : list[i] = ms[k].event
        BY <1>4, <2>2 DEF Shows
      <3> QED
        BY <1>1, <2>2, <3>1
    <2> QED
      BY <1>4, <2>1, <2>2
  <1> QED
    BY <1>1, <1>2, <1>3, <1>4 DEF Shows, q

\* One event of the replay, applied by the page or kept from it by the filter.
LEMMA FollowedShows ==
    ASSUME NEW F, NEW a, NEW b, NEW D, NEW list, NEW e \in Event,
           HeldMessages(a.messages), HeldMessages(b.messages), Follows(a, e, b),
           Shows(F, a.messages, D, list)
    PROVE  Shows(F, b.messages, D,
                 IF PlatformOf[e.source] \in F THEN ApplyToList(list, e) ELSE list)
  <1> DEFINE without == Restrict(a.messages, DOMAIN a.messages \ {Key(e)})
  <1>1. list \in Seq(Event)
    BY DEF Shows
  <1>2. /\ DOMAIN without = DOMAIN a.messages \ {Key(e)}
        /\ \A k \in DOMAIN without : without[k] = a.messages[k]
    BY DEF Restrict
  <1>3. Shows(F, without, D, WithoutKey(list, e))
    BY WithoutKeyShows
  <1> HIDE DEF without
  <1>4. CASE PlatformOf[e.source] \in F
    <2> DEFINE next == IF e.type = "message" THEN Append(WithoutKey(list, e), e)
                       ELSE IF e.type = "delete_message" THEN WithoutKey(list, e) ELSE list
    <2>1. Shows(F, b.messages, D, next)
      <3>1. CASE e.type = "message"
        <4>1. /\ DOMAIN b.messages = DOMAIN without \cup {Key(e)}
              /\ b.messages[Key(e)].event = e
              /\ \A k \in DOMAIN without : /\ b.messages[k] = without[k]
                                           /\ without[k].pos < b.messages[Key(e)].pos
          BY <1>2, <3>1 DEF Follows
        <4>2. Key(e) \notin DOMAIN without
          BY <1>2
        <4>3. Shows(F, b.messages, D, Append(WithoutKey(list, e), e))
          BY <1>3, <1>4, <4>1, <4>2, AppendShows
        <4> QED
          BY <3>1, <4>3
      <3>2. CASE e.type = "delete_message"
        BY <1>3, <3>2 DEF Follows, without
      <3>3. CASE e.type = "source_state"
        BY <3>3 DEF Follows
      <3> QED
        BY <3>1, <3>2, <3>3 DEF Follows
    <2>2. Len(next) <= MaxMessages /\ next \in Seq(Event)
      <3> HIDE DEF next
      <3> QED
        BY <2>1, ShownFits DEF Shows
    <2>3. ApplyToList(list, e) = IF Len(next) > MaxMessages
             THEN SubSeq(next, Len(next) - MaxMessages + 1, Len(next)) ELSE next
      BY DEF ApplyToList, Follows
    <2>4. ~(Len(next) > MaxMessages)
      <3> HIDE DEF next
      <3> QED
        BY <2>2, LimitsAssumption
    <2> HIDE DEF next
    <2> QED
      BY <1>4, <2>1, <2>3, <2>4
  <1>5. CASE PlatformOf[e.source] \notin F
    <2>1. \A k \in DOMAIN a.messages : PlatformOf[a.messages[k].event.source] \in F =>
              k # Key(e) /\ a.messages[k].event.source # e.source
      BY <1>5 DEF HeldMessages, Key
    <2>2. ASSUME NEW k \in DOMAIN a.messages, PlatformOf[a.messages[k].event.source] \in F
          PROVE  k \in DOMAIN b.messages /\ b.messages[k] = a.messages[k]
      <3>1. k \in DOMAIN without /\ without[k] = a.messages[k]
        BY <1>2, <2>1, <2>2
      <3> QED
        BY <2>2, <2>1, <3>1 DEF Follows, without
    <2>3. ASSUME NEW k \in DOMAIN b.messages, PlatformOf[b.messages[k].event.source] \in F
          PROVE  k \in DOMAIN a.messages /\ b.messages[k] = a.messages[k]
      <3>1. k # Key(e) \/ e.type # "message"
        BY <1>5, <2>3 DEF Follows
      <3> QED
        BY <1>2, <3>1 DEF Follows, without
    <2> QED
      BY <1>5, <2>2, <2>3 DEF Shows
  <1> QED
    BY <1>4, <1>5

\* A position is the place of exactly one message in the store's list.
LEMMA PlaceOfKey ==
    ASSUME NEW ms, HeldMessages(ms), NEW n, n = Cardinality(DOMAIN ms)
    PROVE  /\ n \in Nat
           /\ \A k \in DOMAIN ms : Cardinality(Before(ms, k)) \in 0 .. n - 1
           /\ \A j, k \in DOMAIN ms :
                 ms[j].pos < ms[k].pos <=> Cardinality(Before(ms, j)) < Cardinality(Before(ms, k))
           /\ \A i \in 1 .. n : \E k \in DOMAIN ms : Cardinality(Before(ms, k)) = i - 1
           /\ \A j, k \in DOMAIN ms : Cardinality(Before(ms, j)) = Cardinality(Before(ms, k))
                                          => j = k
  <1> DEFINE K == DOMAIN ms
             place == [k \in K |-> Cardinality(Before(ms, k))]
  <1>0. \A k \in K : place[k] = Cardinality(Before(ms, k))
    OBVIOUS
  <1>10. place = [k \in K |-> place[k]]
    OBVIOUS
  <1> HIDE DEF place
  <1>1. IsFiniteSet(K) /\ n \in Nat
    BY FS_CardinalityType DEF HeldMessages, Bounded
  <1>2. \A k \in K : ms[k].pos \in Nat
    BY DEF HeldMessages, Stored
  <1>3. ASSUME NEW k \in K
        PROVE  /\ IsFiniteSet(Before(ms, k)) /\ place[k] \in Nat
               /\ IsFiniteSet(Before(ms, k) \cup {k}) /\ Before(ms, k) \cup {k} \subseteq K
               /\ Cardinality(Before(ms, k) \cup {k}) = place[k] + 1
    <2>1. Before(ms, k) \subseteq K /\ k \notin Before(ms, k)
      BY <1>2 DEF Before
    <2>2. IsFiniteSet(Before(ms, k))
      BY <1>1, <2>1, FS_Subset
    <2> QED
      BY <1>0, <1>3, <2>1, <2>2, FS_CardinalityType, FS_AddElement
  <1>4. ASSUME NEW k \in K PROVE place[k] \in 0 .. n - 1
    <2>1. Cardinality(Before(ms, k) \cup {k}) <= n
      BY <1>1, <1>3, FS_Subset
    <2>2. place[k] + 1 <= n /\ place[k] \in Nat
      BY <1>3, <2>1
    <2> QED
      BY <1>1, <2>2
  <1>5. ASSUME NEW j \in K, NEW k \in K, ms[j].pos < ms[k].pos PROVE place[j] < place[k]
    <2>1. Before(ms, j) \cup {j} \subseteq Before(ms, k)
      BY <1>2, <1>5 DEF Before
    <2>2. Cardinality(Before(ms, j) \cup {j}) <= Cardinality(Before(ms, k))
      BY <1>3, <2>1, FS_Subset
    <2>3. place[j] + 1 <= place[k] /\ place[j] \in Nat /\ place[k] \in Nat
      BY <1>0, <1>3, <2>2
    <2> QED
      BY <2>3
  <1>6. ASSUME NEW j \in K, NEW k \in K, place[j] < place[k] PROVE ms[j].pos < ms[k].pos
    <2>1. place[j] \in 0 .. n - 1 /\ place[k] \in 0 .. n - 1
      BY <1>4
    <2>2. ~(ms[k].pos < ms[j].pos)
      BY <1>1, <1>5, <1>6, <2>1
    <2>3. j # k
      BY <1>1, <1>6, <2>1
    <2>4. ms[j].pos # ms[k].pos
      BY <2>3 DEF HeldMessages
    <2> QED
      BY <1>2, <2>2, <2>4
  <1>7. ASSUME NEW j \in K, NEW k \in K, place[j] = place[k] PROVE j = k
    <2>1. place[j] \in 0 .. n - 1 /\ place[k] \in 0 .. n - 1
      BY <1>4
    <2>2. ~(ms[j].pos < ms[k].pos) /\ ~(ms[k].pos < ms[j].pos)
      BY <1>1, <1>5, <1>7, <2>1
    <2>3. ms[j].pos = ms[k].pos
      BY <1>2, <2>2
    <2> QED
      BY <2>3 DEF HeldMessages
  <1>8. place \in Injection(K, 0 .. n - 1)
    <2>1. place \in [K -> 0 .. n - 1]
      BY <1>4, <1>10
    <2> QED
      BY <1>7, <2>1 DEF Injection, IsInjective
  <1>9. ASSUME NEW i \in 1 .. n PROVE \E k \in K : place[k] = i - 1
    <2>1. IsFiniteSet(0 .. n - 1) /\ Cardinality(0 .. n - 1) = n
      <3>1. 0 \in Int /\ n - 1 \in Int
        BY <1>1
      <3>2. /\ IsFiniteSet(0 .. n - 1)
            /\ Cardinality(0 .. n - 1) = IF 0 > n - 1 THEN 0 ELSE n - 1 - 0 + 1
        BY <3>1, FS_Interval
      <3> QED
        BY <1>1, <3>2
    <2>2. place \in Surjection(K, 0 .. n - 1)
      <3> HIDE DEF K
      <3>1. Cardinality(K) = n
        BY DEF K
      <3> QED
        BY <1>8, <2>1, <3>1, FS_Injection
    <2>3. i - 1 \in 0 .. n - 1
      BY <1>1
    <2> QED
      BY <2>2, <2>3 DEF Surjection
  <1> QED
    BY <1>0, <1>1, <1>4, <1>5, <1>6, <1>7, <1>9

\* The store's list shows all it holds.
LEMMA ListedShows ==
    ASSUME NEW ms, HeldMessages(ms), NEW F, \A s \in Sources : PlatformOf[s] \in F
    PROVE  Shows(F, ms, {}, Listed(ms))
  <1> DEFINE n == Cardinality(DOMAIN ms)
             keyAt == [i \in 1 .. n |->
                          CHOOSE k \in DOMAIN ms : Cardinality(Before(ms, k)) = i - 1]
             list == [i \in 1 .. n |-> ms[keyAt[i]].event]
  <1>1. Listed(ms) = list
    BY DEF Listed
  <1>2. n \in Nat /\ \A k \in DOMAIN ms : Cardinality(Before(ms, k)) \in 0 .. n - 1
    BY PlaceOfKey
  <1>3. \A i \in 1 .. n : keyAt[i] \in DOMAIN ms /\ Cardinality(Before(ms, keyAt[i])) = i - 1
    BY PlaceOfKey
  <1>4. \A i, j \in 1 .. n : i < j => ms[keyAt[i]].pos < ms[keyAt[j]].pos
    <2> SUFFICES ASSUME NEW i \in 1 .. n, NEW j \in 1 .. n, i < j
                 PROVE  ms[keyAt[i]].pos < ms[keyAt[j]].pos
      OBVIOUS
    <2> HIDE DEF keyAt, n
    <2>1. Cardinality(Before(ms, keyAt[i])) < Cardinality(Before(ms, keyAt[j]))
      BY <1>2, <1>3
    <2> QED
      BY <1>3, <2>1, PlaceOfKey
  <1>5. \A k \in DOMAIN ms : \E i \in 1 .. n : keyAt[i] = k
    <2> SUFFICES ASSUME NEW k \in DOMAIN ms PROVE \E i \in 1 .. n : keyAt[i] = k
      OBVIOUS
    <2> HIDE DEF keyAt, n
    <2>1. PICK c \in 0 .. n - 1 : Cardinality(Before(ms, k)) = c
      BY <1>2
    <2>2. c + 1 \in 1 .. n /\ (c + 1) - 1 = c
      BY <1>2
    <2>3. keyAt[c + 1] \in DOMAIN ms /\ Cardinality(Before(ms, keyAt[c + 1])) = c
      BY <1>3, <2>2
    <2> QED
      BY <2>1, <2>2, <2>3, PlaceOfKey
  <1> HIDE DEF keyAt
  <1>6. \A k \in DOMAIN ms : /\ ms[k].event \in Event /\ Key(ms[k].event) = k
                            /\ PlatformOf[ms[k].event.source] \in F
    BY DEF HeldMessages, Stored, Event
  <1>7. list \in Seq(Event) /\ DOMAIN list = 1 .. n /\ \A i \in 1 .. n : list[i] = ms[keyAt[i]].event
    BY <1>2, <1>3, <1>6, SeqDef
  <1> HIDE DEF list, n
  <1>8. \A i \in DOMAIN list : /\ Key(list[i]) = keyAt[i]
                               /\ Key(list[i]) \in DOMAIN ms
                               /\ list[i] = ms[Key(list[i])].event
                               /\ PlatformOf[list[i].source] \in F
    BY <1>3, <1>6, <1>7
  <1>9. \A i, j \in DOMAIN list : i < j => ms[Key(list[i])].pos < ms[Key(list[j])].pos
    BY <1>4, <1>7, <1>8
  <1>10. \A k \in DOMAIN ms : \E i \in DOMAIN list : list[i] = ms[k].event
    BY <1>5, <1>7
  <1>11. Shows(F, ms, {}, list)
    BY <1>7, <1>8, <1>9, <1>10 DEF Shows
  <1> QED
    BY <1>1, <1>11

\* A list shows a message after those before it.
LEMMA ShownAfter ==
    ASSUME NEW F, NEW ms, NEW D, NEW l, HeldMessages(ms), Shows(F, ms, D, l),
           \A i \in DOMAIN l : l[i] \notin D, NEW i \in DOMAIN l
    PROVE  Cardinality({k \in DOMAIN ms : /\ PlatformOf[ms[k].event.source] \in F
                                         /\ ms[k].event \notin D
                                         /\ ms[k].pos <= ms[Key(l[i])].pos}) = i
  <1> DEFINE T == {k \in DOMAIN ms : /\ PlatformOf[ms[k].event.source] \in F
                                    /\ ms[k].event \notin D
                                    /\ ms[k].pos <= ms[Key(l[i])].pos}
             f == [p \in 1 .. i |-> Key(l[p])]
  <1>1. l \in Seq(Event) /\ i \in Nat /\ 1 .. i \subseteq DOMAIN l /\ DOMAIN l \subseteq Nat
    BY DEF Shows
  <1>2. \A k \in DOMAIN ms : ms[k].pos \in Nat
    BY DEF HeldMessages, Stored
  <1>3. \A p \in DOMAIN l : /\ Key(l[p]) \in DOMAIN ms /\ ms[Key(l[p])].event = l[p]
                           /\ PlatformOf[l[p].source] \in F /\ l[p] \notin D
    BY DEF Shows
  <1>4. \A p, q \in DOMAIN l : p < q => ms[Key(l[p])].pos < ms[Key(l[q])].pos
    BY DEF Shows
  <1>5. f \in [1 .. i -> T]
    <2> SUFFICES ASSUME NEW p \in 1 .. i PROVE Key(l[p]) \in T
      OBVIOUS
    <2>1. p \in DOMAIN l /\ (p < i \/ p = i)
      BY <1>1
    <2>2. ms[Key(l[p])].pos <= ms[Key(l[i])].pos
      BY <1>2, <1>3, <1>4, <2>1
    <2> QED
      BY <1>3, <2>1, <2>2
  <1>6. ASSUME NEW p \in 1 .. i, NEW q \in 1 .. i, f[p] = f[q] PROVE p = q
    <2>1. p \in DOMAIN l /\ q \in DOMAIN l /\ Key(l[p]) = Key(l[q])
      BY <1>1, <1>6
    <2>2. ~(p < q) /\ ~(q < p)
      BY <1>2, <1>3, <1>4, <2>1
    <2> QED
      BY <1>1, <2>2
  <1>7. ASSUME NEW k \in T PROVE \E p \in 1 .. i : f[p] = k
    <2>1. PICK p \in DOMAIN l : l[p] = ms[k].event
      BY DEF Shows
    <2>2. Key(l[p]) = k /\ k \in DOMAIN ms
      BY <2>1 DEF HeldMessages
    <2>3. ~(i < p)
      BY <1>2, <1>3, <1>4, <2>2
    <2>4. p \in 1 .. i
      BY <1>1, <2>3
    <2> QED
      BY <2>2, <2>4
  <1> HIDE DEF f, T
  <1>8. f \in Bijection(1 .. i, T)
    BY <1>5, <1>6, <1>7 DEF Bijection, Injection, Surjection, IsInjective
  <1>9. IsFiniteSet(1 .. i) /\ Cardinality(1 .. i) = i
    BY <1>1, FS_Interval
  <1>10. Cardinality(T) = i
    BY <1>8, <1>9, FS_Bijection DEF ExistsBijection
  <1> QED
    BY <1>10 DEF T

\* Two lists that show the same show it in the same order.
LEMMA ShownOnce ==
    ASSUME NEW F, NEW ms, NEW D, NEW l, NEW m, HeldMessages(ms),
           Shows(F, ms, D, l), Shows(F, ms, D, m),
           \A i \in DOMAIN l : l[i] \notin D, \A i \in DOMAIN m : m[i] \notin D
    PROVE  l = m
  <1>1. l \in Seq(Event) /\ m \in Seq(Event)
    BY DEF Shows
  <1>2. ASSUME NEW i \in DOMAIN l PROVE i \in DOMAIN m /\ m[i] = l[i]
    <2>1. /\ Key(l[i]) \in DOMAIN ms /\ ms[Key(l[i])].event = l[i]
          /\ PlatformOf[l[i].source] \in F
      BY DEF Shows
    <2>2. PICK j \in DOMAIN m : m[j] = l[i]
      BY <2>1 DEF Shows
    <2>3. i = j
      BY <2>2, ShownAfter
    <2> QED
      BY <2>2, <2>3
  <1>3. ASSUME NEW i \in DOMAIN m PROVE i \in DOMAIN l
    <2>1. /\ Key(m[i]) \in DOMAIN ms /\ ms[Key(m[i])].event = m[i]
          /\ PlatformOf[m[i].source] \in F
      BY DEF Shows
    <2>2. PICK j \in DOMAIN l : l[j] = m[i]
      BY <2>1 DEF Shows
    <2>3. i = j
      BY <2>2, ShownAfter
    <2> QED
      BY <2>2, <2>3
  <1>4. Len(l) = Len(m)
    <2>1. DOMAIN l = DOMAIN m
      BY <1>2, <1>3
    <2> QED
      BY <1>1, <2>1, LenProperties
  <1> QED
    BY <1>1, <1>2, <1>4, SeqEqual

-----------------------------------------------------------------------------
(* What a replay carries                                                    *)

\* The events take whatever shows a, of the platforms F, to what shows b.
Carries(F, a, events, b) ==
    /\ \A D, list : Shows(F, a.messages, D, list) =>
                        Shows(F, b.messages, D, ListAfter(list, events))
    /\ StatesAfter(StatesFor(F, a.states), events) = StatesFor(F, b.states)

LEMMA StatesForMaps ==
    ASSUME NEW F, NEW sts, HeldStates(sts)
    PROVE  StatesFor(F, sts) \in StateMaps
  <1> DEFINE S == {s \in DOMAIN sts : PlatformOf[s] \in F}
  <1>1. S \in SUBSET Sources /\ \A s \in S : sts[s] \in Event
    BY DEF HeldStates
  <1>2. StatesFor(F, sts) = [s \in S |-> sts[s]]
    BY DEF StatesFor, Restrict
  <1> HIDE DEF S
  <1>3. StatesFor(F, sts) \in [S -> Event]
    BY <1>1, <1>2
  <1> QED
    BY <1>1, <1>3 DEF StateMaps

\* A source state reaches the map of its platform's viewers and no other.
LEMMA FollowedStates ==
    ASSUME NEW F, NEW sts, NEW e
    PROVE  StatesFor(F, ApplyToStates(sts, e)) =
               IF PlatformOf[e.source] \in F THEN ApplyToStates(StatesFor(F, sts), e)
               ELSE StatesFor(F, sts)
  <1>1. CASE e.type # "source_state"
    BY <1>1 DEF ApplyToStates
  <1>2. CASE e.type = "source_state"
    <2> DEFINE S == {s \in DOMAIN sts : PlatformOf[s] \in F}
               next == [s \in DOMAIN sts \cup {e.source} |-> IF s = e.source THEN e ELSE sts[s]]
               T == {s \in DOMAIN next : PlatformOf[s] \in F}
    <2>1. StatesFor(F, sts) = [s \in S |-> sts[s]]
      BY DEF StatesFor, Restrict
    <2>2. StatesFor(F, ApplyToStates(sts, e)) = [s \in T |-> next[s]]
      BY <1>2 DEF StatesFor, ApplyToStates, Restrict
    <2>3. ApplyToStates(StatesFor(F, sts), e) =
             [s \in S \cup {e.source} |-> IF s = e.source THEN e ELSE sts[s]]
      BY <1>2, <2>1 DEF ApplyToStates
    <2>4. CASE PlatformOf[e.source] \in F
      <3>1. T = S \cup {e.source}
        BY <2>4
      <3> QED
        BY <2>2, <2>3, <2>4, <3>1
    <2>5. CASE PlatformOf[e.source] \notin F
      <3>1. T = S /\ e.source \notin S
        BY <2>5
      <3> QED
        BY <2>1, <2>2, <2>5, <3>1
    <2> QED
      BY <2>4, <2>5
  <1> QED
    BY <1>1, <1>2

LEMMA NothingCarries ==
    ASSUME NEW F, NEW a, HeldStates(a.states)
    PROVE  Carries(F, a, <<>>, a)
  <1>1. \A D, list : Shows(F, a.messages, D, list) => ListAfter(list, <<>>) = list
    BY ListAfterNone DEF Shows
  <1>2. StatesAfter(StatesFor(F, a.states), <<>>) = StatesFor(F, a.states)
    BY StatesForMaps, StatesAfterNone
  <1> QED
    BY <1>1, <1>2 DEF Carries

\* One more event carries one event further, whether or not the filter of the
\* viewer lets it through.
LEMMA OneMoreCarries ==
    ASSUME NEW F, NEW a, NEW b, NEW c, NEW events \in Seq(Event), NEW e \in Event,
           HeldStates(a.states), HeldMessages(b.messages), HeldMessages(c.messages),
           Carries(F, a, events, b), Follows(b, e, c)
    PROVE  Carries(F, a, IF PlatformOf[e.source] \in F THEN Append(events, e) ELSE events, c)
  <1> DEFINE more == IF PlatformOf[e.source] \in F THEN Append(events, e) ELSE events
  <1>1. ASSUME NEW D, NEW list, Shows(F, a.messages, D, list)
        PROVE  Shows(F, c.messages, D, ListAfter(list, more))
    <2>1. list \in Seq(Event) /\ Shows(F, b.messages, D, ListAfter(list, events))
      <3>1. list \in Seq(Event)
        BY <1>1 DEF Shows
      <3>2. Shows(F, b.messages, D, ListAfter(list, events))
        BY <1>1 DEF Carries
      <3> QED
        BY <3>1, <3>2
    <2>2. ListAfter(list, more) = IF PlatformOf[e.source] \in F
              THEN ApplyToList(ListAfter(list, events), e) ELSE ListAfter(list, events)
      BY <2>1, ListAfterOneMore
    <2> HIDE DEF more
    <2>3. PICK l : l = ListAfter(list, events)
      OBVIOUS
    <2>4. Shows(F, c.messages, D, IF PlatformOf[e.source] \in F THEN ApplyToList(l, e) ELSE l)
      BY <2>1, <2>3, FollowedShows
    <2> QED
      BY <2>2, <2>3, <2>4
  <1>2. StatesAfter(StatesFor(F, a.states), more) = StatesFor(F, c.states)
    <2>1. PICK sts : sts = StatesFor(F, a.states) /\ sts \in StateMaps
      BY StatesForMaps
    <2>2. StatesAfter(sts, more) = IF PlatformOf[e.source] \in F
              THEN ApplyToStates(StatesAfter(sts, events), e) ELSE StatesAfter(sts, events)
      BY <2>1, StatesAfterOneMore
    <2> HIDE DEF more
    <2>3. StatesAfter(sts, events) = StatesFor(F, b.states)
      BY <2>1 DEF Carries
    <2>4. c.states = ApplyToStates(b.states, e)
      BY DEF Follows
    <2> QED
      BY <2>1, <2>2, <2>3, <2>4, FollowedStates
  <1> HIDE DEF more
  <1>3. Carries(F, a, more, c)
    BY <1>1, <1>2 DEF Carries
  <1> QED
    BY <1>3 DEF more

\* What the store held at every cursor so far.
PastHeld(past, ep, n) ==
    \A c \in DOMAIN past :
        /\ c \in Nat \X Nat
        /\ c[1] < ep \/ (c[1] = ep /\ c[2] <= n)
        /\ HeldMessages(past[c].messages)
        /\ HeldStates(past[c].states)

\* From one of these cursors on, every entry of the ring leads to the next one.
Chained(past, ep, r) ==
    \A i \in DOMAIN r :
        <<ep, r[i].seq - 1>> \in DOMAIN past =>
            /\ <<ep, r[i].seq>> \in DOMAIN past
            /\ Follows(past[<<ep, r[i].seq - 1>>], r[i].event, past[<<ep, r[i].seq>>])

\* The replay of the ring r after the cursor c, for the platforms F.
ReplayFor(F, c, r, cur) ==
    LET events == ReplayBatch(c, r, cur).events
    IN Picked(events, {i \in DOMAIN events : PlatformOf[events[i].source] \in F})

\* The events are those of r that came after c, without a hole.
EventsAfter(events, c, ep, n, r) ==
    /\ c = <<ep, c[2]>> /\ c[2] \in 0 .. n
    /\ events \in Seq(Event) /\ Len(events) = n - c[2]
    /\ \A i \in 1 .. n - c[2] :
          \E j \in DOMAIN r : r[j].seq = c[2] + i /\ r[j].event = events[i]

LEMMA ReplaySuffix ==
    ASSUME NEW ep, NEW n \in Nat, NEW r \in Seq(RingEntry), EndsAt(r, n),
           NEW c \in Nat \X Nat, Recoverable(c, r, <<ep, n>>)
    PROVE  EventsAfter(ReplayBatch(c, r, <<ep, n>>).events, c, ep, n, r)
  <1> DEFINE N == Len(r)
             d == c[2] - (n - N)
             after == Picked(r, {i \in DOMAIN r : r[i].seq > c[2]})
             events == [i \in DOMAIN after |-> after[i].event]
  <1>1. N \in Nat /\ N >= 1 /\ DOMAIN r = 1 .. N /\ c[2] \in Nat /\ \A i \in 1 .. N : r[i] \in RingEntry
    BY DEF Recoverable
  <1>2. \A i \in 1 .. N : r[i].seq = n - N + i
    BY <1>1 DEF EndsAt
  <1>3. c[1] = ep /\ r[1].seq - 1 <= c[2] /\ c[2] <= n
    BY DEF Recoverable
  <1>4. r[1].seq = n - N + 1
    BY <1>1, <1>2
  <1> HIDE DEF N
  <1>5. d \in 0 .. N /\ c = <<ep, c[2]>> /\ c[2] \in 0 .. n /\ N - d = n - c[2]
    BY <1>1, <1>3, <1>4
  <1>6. {i \in DOMAIN r : r[i].seq > c[2]} = {i \in DOMAIN r : i > d}
    BY <1>1, <1>2
  <1> DEFINE P == {i \in DOMAIN r : i > d}
             m == n - c[2]
  <1>12. m \in Nat /\ N - d = m /\ d \in Nat /\ \A i \in 1 .. m : d + i \in 1 .. N /\ r[d + i].seq = c[2] + i
    <2> HIDE DEF d
    <2>1. PICK q \in Nat, x \in Nat : q = c[2] /\ x = d
      BY <1>1, <1>5
    <2>2. N - x = n - q /\ n - q \in Nat
      BY <1>1, <1>5, <2>1
    <2>3. ASSUME NEW i \in 1 .. n - q PROVE x + i \in 1 .. N /\ n - N + (x + i) = q + i
      BY <1>1, <2>2
    <2> QED
      BY <1>2, <2>1, <2>2, <2>3
  <1>7. Len(Picked(r, P)) = m /\ \A i \in 1 .. m : Picked(r, P)[i] = r[d + i]
    <2> HIDE DEF d, m
    <2>1. /\ Len(Picked(r, P)) = N - d
          /\ \A i \in 1 .. N - d : Picked(r, P)[i] = r[d + i]
      BY <1>5, PickedSuffix DEF N
    <2> QED
      BY <1>12, <2>1
  <1>8. after = Picked(r, P) /\ after \in Seq(RingEntry)
    <2>1. after = Picked(r, P)
      BY <1>6
    <2> QED
      BY <2>1, PickedIsSeq
  <1> HIDE DEF after, P, d, m
  <1>9. DOMAIN after = 1 .. m /\ \A i \in 1 .. m : after[i] = r[d + i]
    BY <1>7, <1>8
  <1>10. \A i \in 1 .. m : events[i] = r[d + i].event /\ events[i] \in Event
    BY <1>1, <1>9, <1>12 DEF RingEntry
  <1>11. events \in Seq(Event) /\ Len(events) = m
    <2>1. events = [i \in 1 .. m |-> events[i]]
      BY <1>9
    <2> HIDE DEF events
    <2>2. events \in [1 .. m -> Event]
      BY <1>10, <2>1
    <2>3. events \in Seq(Event)
      BY <1>12, <2>2, SeqDef
    <2> QED
      BY <1>12, <2>2, <2>3, LenProperties
  <1>13. ReplayBatch(c, r, <<ep, n>>).events = events
    BY DEF ReplayBatch, after
  <1>14. \A i \in 1 .. m : \E j \in DOMAIN r : r[j].seq = c[2] + i /\ r[j].event = events[i]
    BY <1>1, <1>10, <1>12
  <1> HIDE DEF events
  <1> QED
    BY <1>5, <1>11, <1>13, <1>14 DEF EventsAfter, m

\* A replay carries what the store held at the cursor to what it holds now.
LEMMA ReplayCarries ==
    ASSUME NEW past, NEW ep \in Nat, NEW n \in Nat, NEW r \in Seq(RingEntry),
           EndsAt(r, n), PastHeld(past, ep, n), Chained(past, ep, r),
           NEW c \in DOMAIN past, Recoverable(c, r, <<ep, n>>), NEW F
    PROVE  /\ ReplayFor(F, c, r, <<ep, n>>) \in Seq(Event)
           /\ Carries(F, past[c], ReplayFor(F, c, r, <<ep, n>>), past[<<ep, n>>])
  <1> DEFINE events == ReplayBatch(c, r, <<ep, n>>).events
             P == {i \in DOMAIN events : PlatformOf[events[i].source] \in F}
             m == n - c[2]
             at(i) == <<ep, c[2] + i>>
  <1>1. c \in Nat \X Nat
    BY DEF PastHeld
  <1>2. /\ c = <<ep, c[2]>> /\ c[2] \in 0 .. n
        /\ events \in Seq(Event) /\ Len(events) = m
        /\ \A i \in 1 .. m : \E j \in DOMAIN r : r[j].seq = c[2] + i /\ r[j].event = events[i]
    <2>1. EventsAfter(events, c, ep, n, r)
      BY <1>1, ReplaySuffix
    <2> HIDE DEF events
    <2> QED
      BY <2>1 DEF EventsAfter
  <1>3. ReplayFor(F, c, r, <<ep, n>>) = Picked(events, P)
    BY DEF ReplayFor
  <1> HIDE DEF events
  <1>4. /\ m \in Nat /\ m = Len(events) /\ c[2] + m = n /\ c[2] + 0 = c[2]
        /\ DOMAIN events = 1 .. m
        /\ \A i \in 1 .. m : (c[2] + i) - 1 = c[2] + (i - 1)
    BY <1>2
  <1> HIDE DEF m
  <1>10. \A i \in 1 .. m : i \in P <=> PlatformOf[events[i].source] \in F
    BY <1>4
  <1> HIDE DEF P
  <1>5. PICK g \in [0 .. m -> Seq(Event)] : Picks(events, P, g) /\ Picked(events, P) = g[m]
    <2>1. events \in Seq(Event)
      BY <1>2
    <2>2. \E g \in [0 .. Len(events) -> Seq(Event)] :
             Picks(events, P, g) /\ Picked(events, P) = g[Len(events)]
      BY <2>1, PickedPicks
    <2> QED
      BY <1>4, <2>2
  <1> DEFINE T == {i \in 0 .. m : at(i) \in DOMAIN past /\ Carries(F, past[c], g[i], past[at(i)])}
  <1>6. 0 \in T
    <2>1. PICK nil : nil = <<>>
      OBVIOUS
    <2>2. at(0) = c /\ g[0] = nil
      BY <1>2, <1>4, <1>5, <2>1 DEF Picks
    <2>3. Carries(F, past[c], nil, past[c])
      BY <2>1, NothingCarries DEF PastHeld
    <2>4. at(0) \in DOMAIN past /\ Carries(F, past[c], g[0], past[at(0)])
      BY <2>2, <2>3
    <2>5. 0 \in 0 .. m
      BY <1>4
    <2> HIDE DEF at
    <2> QED
      BY <2>4, <2>5
  <1>7. ASSUME NEW i \in 1 .. m, i - 1 \in T PROVE i \in T
    <2>1. PICK j \in DOMAIN r : r[j].seq = c[2] + i /\ r[j].event = events[i]
      BY <1>2
    <2>2. at(i - 1) = <<ep, r[j].seq - 1>> /\ at(i) = <<ep, r[j].seq>>
      BY <1>4, <2>1
    <2>3. /\ at(i - 1) \in DOMAIN past /\ Carries(F, past[c], g[i - 1], past[at(i - 1)])
      BY <1>7
    <2>4. at(i) \in DOMAIN past /\ Follows(past[at(i - 1)], events[i], past[at(i)])
      BY <2>1, <2>2, <2>3 DEF Chained
    <2>5. PICK e \in Event : e = events[i]
      BY <1>2, <1>4
    <2>6. PICK es \in Seq(Event) : es = g[i - 1]
      <3>1. i - 1 \in 0 .. m
        BY <1>4
      <3> QED
        BY <1>5, <3>1
    <2>7. g[i] = IF PlatformOf[e.source] \in F THEN Append(es, e) ELSE es
      <3>1. g[i] = PickTurn(events, P, es, i)
        BY <1>4, <1>5, <2>6 DEF Picks
      <3>2. i \in P <=> PlatformOf[e.source] \in F
        BY <1>10, <2>5
      <3> QED
        BY <2>5, <3>1, <3>2 DEF PickTurn
    <2> DEFINE b == past[at(i - 1)]
               d == past[at(i)]
    <2>8. /\ HeldStates(past[c].states) /\ HeldMessages(b.messages) /\ HeldMessages(d.messages)
          /\ Carries(F, past[c], es, b) /\ Follows(b, e, d)
      BY <2>3, <2>4, <2>5, <2>6 DEF PastHeld
    <2> HIDE DEF b, d
    <2>9. Carries(F, past[c], IF PlatformOf[e.source] \in F THEN Append(es, e) ELSE es, d)
      BY <2>8, OneMoreCarries
    <2> QED
      BY <2>4, <2>7, <2>9 DEF d
  <1> HIDE DEF T, at
  <1>8. m \in T
    <2>1. \A i \in 0 .. m : i \in T
      BY <1>4, <1>6, <1>7, EveryTurn
    <2> QED
      BY <1>4, <2>1
  <1>9. at(m) = <<ep, n>>
    BY <1>4 DEF at
  <1>11. g[m] \in Seq(Event)
    BY <1>4, <1>5
  <1> QED
    BY <1>3, <1>5, <1>8, <1>9, <1>11 DEF T

-----------------------------------------------------------------------------
(* The store keeps content that a replay can follow                         *)

\* No reader hands in a replacement: no adapter makes one.
NoReplacement == \A i \in Inputs : i.type # "replace"

\* What the store holds, as the lists and maps of the sections above: messages
\* under their key, in an order, not kept beyond the time they are fresh.
StoreHolds ==
    /\ TypeOK
    /\ RingContiguous
    /\ PositionsOrderMessages
    /\ Bounded(DOMAIN messages, MaxMessages)
    /\ \A k \in DOMAIN messages :
          /\ messages[k].event.type = "message"
          /\ messages[k].event.received + History <= messages[k].expires
    /\ \A s \in DOMAIN states : states[s].type = "source_state" /\ states[s].source = s

LEMMA StoreHoldsContent ==
    StoreHolds => HeldMessages(messages) /\ HeldStates(states)
  BY DEF StoreHolds, TypeOK, MessagesOK, StatesOK, PositionsOrderMessages, HeldMessages, HeldStates

LEMMA StoreHoldsContentNext ==
    StoreHolds' => HeldMessages(messages') /\ HeldStates(states')
  BY DEF StoreHolds, TypeOK, MessagesOK, StatesOK, PositionsOrderMessages, HeldMessages, HeldStates

\* An event as it reaches the store; and one of those that adapters make.
Timely(e) == e \in Event /\ e.received <= now
Handed(e) == Timely(e) /\ e.type # "replace"

LEMMA StampedIsTimely ==
    ASSUME now \in Nat, NEW i \in Inputs, NEW t \in Stamps
    PROVE  Timely(Stamped(i, t)) /\ Stamped(i, t).type = i.type
  <1>1. i \in Event /\ t \in Nat /\ t <= now
    BY InputAssumption, LimitsAssumption DEF Stamps
  <1>2. Stamped(i, t) = [i EXCEPT !.received = t]
    BY DEF Stamped
  <1>3. Stamped(i, t).type = i.type /\ Stamped(i, t).received = t
    BY <1>1, <1>2 DEF Event
  <1> QED
    BY <1>1, <1>3, StampedIsEvent DEF Timely

LEMMA StampedIsHanded ==
    ASSUME NoReplacement, now \in Nat, NEW i \in Inputs, NEW t \in Stamps
    PROVE  Handed(Stamped(i, t))
  BY StampedIsTimely DEF Handed, NoReplacement

\* A step of the store, or none.
StoreMoves ==
    \/ \E i \in Inputs, t \in Stamps : Ingest(Stamped(i, t))
    \/ \E S \in SourceSets : UpdateSources(S)
    \/ Expire
    \/ Restart
    \/ Tick
    \/ UNCHANGED vars

LEMMA StoreMovesIsNext == StoreMoves => [Next]_vars
  BY DEF StoreMoves, Next

LEMMA StoreHoldsStep ==
    ASSUME StoreHolds, StoreMoves
    PROVE  StoreHolds'
  <1>1. TypeOK' /\ RingContiguous' /\ PositionsOrderMessages'
    BY StoreMovesIsNext, TypeStep, ContiguousStep, PositionsStep DEF StoreHolds
  <1> DEFINE Fits(ms) == \A k \in DOMAIN ms :
                /\ ms[k].event.type = "message"
                /\ ms[k].event.received + History <= ms[k].expires
             Filed(sts) == \A s \in DOMAIN sts : sts[s].type = "source_state" /\ sts[s].source = s
  <1>2. TypeOK /\ Bounded(DOMAIN messages, MaxMessages) /\ Fits(messages) /\ Filed(states)
        /\ now \in Nat
    BY DEF StoreHolds, TypeOK, CountersOK
  <1> SUFFICES Bounded(DOMAIN messages', MaxMessages) /\ Fits(messages') /\ Filed(states')
    BY <1>1 DEF StoreHolds
  <1>3. ASSUME NEW e, Timely(e), Ingest(e)
        PROVE  Bounded(DOMAIN messages', MaxMessages) /\ Fits(messages') /\ Filed(states')
    <2>0. e \in Event /\ e.received \in Nat /\ e.received <= now
      BY <1>3 DEF Timely, Event
    <2>1. CASE IngestMessage(e)
      <3>1. Bounded(DOMAIN messages', MaxMessages)
        BY <1>2, <2>0, <2>1, MessagesBounded
      <3>2. states' = states
        BY <2>1 DEF IngestMessage
      <3>3. /\ messages'[Key(e)].event = [e EXCEPT !.type = "message"]
            /\ messages'[Key(e)].expires = now + History
            /\ \A k \in DOMAIN messages' :
                  k = Key(e) \/ (k \in DOMAIN messages /\ messages'[k] = messages[k])
        BY <2>1 DEF IngestMessage
      <3>4. /\ [e EXCEPT !.type = "message"].type = "message"
            /\ [e EXCEPT !.type = "message"].received = e.received
        BY <2>0 DEF Event
      <3>5. e.received + History <= now + History
        BY <1>2, <2>0, LimitsAssumption
      <3>6. /\ messages'[Key(e)].event.type = "message"
            /\ messages'[Key(e)].event.received = e.received
        BY <3>3, <3>4
      <3>7. messages'[Key(e)].event.received + History <= messages'[Key(e)].expires
        BY <3>3, <3>5, <3>6
      <3>8. ASSUME NEW k \in DOMAIN messages'
            PROVE  /\ messages'[k].event.type = "message"
                   /\ messages'[k].event.received + History <= messages'[k].expires
        <4>1. CASE k = Key(e)
          BY <3>6, <3>7, <4>1
        <4>2. CASE k # Key(e)
          <5>1. k \in DOMAIN messages /\ messages'[k] = messages[k]
            BY <3>3, <4>2
          <5> QED
            BY <1>2, <5>1
        <4> QED
          BY <4>1, <4>2
      <3> QED
        BY <1>2, <3>1, <3>2, <3>8
    <2>2. CASE IngestState(e)
      BY <1>2, <2>2 DEF IngestState
    <2>3. CASE IngestDeletion(e)
      <3>1. /\ DOMAIN messages' \subseteq DOMAIN messages
            /\ \A k \in DOMAIN messages' : messages'[k] = messages[k]
            /\ states' = states
        BY <2>3 DEF IngestDeletion, Delete, Restrict
      <3>2. Bounded(DOMAIN messages', MaxMessages)
        BY <1>2, <3>1, LimitsAssumption, SmallerStaysBounded
      <3> QED
        BY <1>2, <3>1, <3>2
    <2>4. CASE CompactBarriers(e)
      <3>1. DOMAIN messages' = {}
        BY <2>4 DEF CompactBarriers
      <3>2. Bounded(DOMAIN messages', MaxMessages)
        BY <3>1, FS_EmptySet, LimitsAssumption DEF Bounded
      <3>3. Filed(states')
        BY <2>4 DEF CompactBarriers, DegradedState
      <3> QED
        BY <3>1, <3>2, <3>3
    <2> QED
      BY <1>3, <2>1, <2>2, <2>3, <2>4 DEF Ingest
  <1>4. CASE \E i \in Inputs, t \in Stamps : Ingest(Stamped(i, t))
    BY <1>2, <1>3, <1>4, StampedIsTimely
  <1>5. CASE Expire
    <2>1. /\ DOMAIN messages' \subseteq DOMAIN messages
          /\ \A k \in DOMAIN messages' : messages'[k] = messages[k]
          /\ states' = states
      BY <1>5 DEF Expire, Prune, Restrict
    <2>2. Bounded(DOMAIN messages', MaxMessages)
      BY <1>2, <2>1, LimitsAssumption, SmallerStaysBounded
    <2> QED
      BY <1>2, <2>1, <2>2
  <1>6. CASE Restart
    <2>1. DOMAIN messages' = {} /\ DOMAIN states' = {}
      BY <1>6 DEF Restart
    <2>2. Bounded(DOMAIN messages', MaxMessages)
      BY <2>1, FS_EmptySet, LimitsAssumption DEF Bounded
    <2> QED
      BY <2>1, <2>2
  <1>7. CASE UNCHANGED <<messages, states>>
    BY <1>2, <1>7
  <1> QED
    BY <1>4, <1>5, <1>6, <1>7 DEF StoreMoves, UpdateSources, Tick, contentVars, vars

-----------------------------------------------------------------------------
(* The past of the store                                                    *)

\* What the store holds.
Content == [messages |-> messages, states |-> states]

\* The past up to the cursor <<ep, n>>, its last content a, and the ring there.
PastAt(past, ep, n, a, r) ==
    /\ <<ep, n>> \in DOMAIN past
    /\ past[<<ep, n>>] = a
    /\ PastHeld(past, ep, n)
    /\ r \in Seq(RingEntry)
    /\ EndsAt(r, n)
    /\ Chained(past, ep, r)

PastFits(past) == PastAt(past, epoch, sequence, Content, ring)

Extends(past, more) ==
    DOMAIN past \subseteq DOMAIN more /\ \A c \in DOMAIN past : more[c] = past[c]

\* The past with one more cursor.
Later(past, cur, content) ==
    [c \in DOMAIN past \cup {cur} |-> IF c = cur THEN content ELSE past[c]]

\* Past "more" is the past with the content at one cursor more.
Grown(past, cur, content, more) ==
    /\ cur \notin DOMAIN past
    /\ DOMAIN more = DOMAIN past \cup {cur}
    /\ more[cur] = content
    /\ \A c \in DOMAIN past : more[c] = past[c]

LEMMA LaterHeld ==
    ASSUME NEW past, NEW ep \in Nat, NEW n \in Nat, PastHeld(past, ep, n),
           NEW ep2 \in Nat, NEW n2 \in Nat, ep < ep2 \/ (ep = ep2 /\ n < n2), NEW content,
           HeldMessages(content.messages), HeldStates(content.states),
           NEW more, more = Later(past, <<ep2, n2>>, content)
    PROVE  Grown(past, <<ep2, n2>>, content, more) /\ PastHeld(more, ep2, n2)
  <1>1. ASSUME NEW c \in DOMAIN past
        PROVE  /\ c \in Nat \X Nat /\ c # <<ep2, n2>>
               /\ c[1] < ep2 \/ (c[1] = ep2 /\ c[2] <= n2)
    <2>1. PICK x \in Nat, y \in Nat : c = <<x, y>>
      BY DEF PastHeld
    <2>2. x < ep \/ (x = ep /\ y <= n)
      BY <2>1 DEF PastHeld
    <2>3. x < ep2 \/ (x = ep2 /\ y < n2)
      BY <2>2
    <2> QED
      BY <2>1, <2>3
  <1>2. /\ <<ep2, n2>> \notin DOMAIN past
        /\ DOMAIN more = DOMAIN past \cup {<<ep2, n2>>}
        /\ more[<<ep2, n2>>] = content
        /\ \A c \in DOMAIN past : more[c] = past[c]
    BY <1>1 DEF Later
  <1>3. ASSUME NEW c \in DOMAIN more
        PROVE  /\ c \in Nat \X Nat
               /\ c[1] < ep2 \/ (c[1] = ep2 /\ c[2] <= n2)
               /\ HeldMessages(more[c].messages)
               /\ HeldStates(more[c].states)
    <2>1. CASE c \in DOMAIN past
      BY <1>1, <1>2, <2>1 DEF PastHeld
    <2>2. CASE c = <<ep2, n2>>
      BY <1>2, <2>2
    <2> QED
      BY <1>2, <2>1, <2>2
  <1> QED
    BY <1>2, <1>3 DEF Grown, PastHeld

\* An event at the end of the ring leads from the last cursor to a new one.
LEMMA PushChained ==
    ASSUME now \in Nat, NEW past, NEW ep \in Nat, NEW n \in Nat, PastHeld(past, ep, n),
           <<ep, n>> \in DOMAIN past,
           NEW r \in Seq(RingEntry), EndsAt(r, n), Chained(past, ep, r),
           NEW e \in Event, NEW content, Follows(past[<<ep, n>>], e, content),
           HeldMessages(content.messages), HeldStates(content.states),
           NEW more, more = Later(past, <<ep, n + 1>>, content)
    PROVE  Chained(more, ep, Push(r, n + 1, e))
  <1>1. /\ <<ep, n + 1>> \notin DOMAIN past
        /\ DOMAIN more = DOMAIN past \cup {<<ep, n + 1>>}
        /\ more[<<ep, n + 1>>] = content
        /\ \A c \in DOMAIN past : more[c] = past[c]
    <2>1. PICK m \in Nat : m = n + 1 /\ n < m
      OBVIOUS
    <2>2. more = Later(past, <<ep, m>>, content)
      BY <2>1
    <2>3. Grown(past, <<ep, m>>, content, more)
      BY <2>1, <2>2, LaterHeld
    <2> QED
      BY <2>1, <2>3 DEF Grown
  <1>2. ASSUME NEW j \in DOMAIN r, <<ep, r[j].seq - 1>> \in DOMAIN more
        PROVE  /\ <<ep, r[j].seq>> \in DOMAIN more
               /\ Follows(more[<<ep, r[j].seq - 1>>], r[j].event, more[<<ep, r[j].seq>>])
    <2>1. r[j].seq = n - Len(r) + j /\ Len(r) \in Nat /\ j \in 1 .. Len(r)
      BY DEF EndsAt
    <2>2. r[j].seq - 1 # n + 1
      BY <2>1
    <2>3. <<ep, r[j].seq - 1>> \in DOMAIN past
      BY <1>1, <1>2, <2>2
    <2> QED
      BY <1>1, <2>3 DEF Chained
  <1>3. Entry(n + 1, e).seq = n + 1 /\ Entry(n + 1, e).event = e /\ (n + 1) - 1 = n
    BY DEF Entry
  <1>4. Follows(more[<<ep, n>>], e, more[<<ep, n + 1>>]) /\ <<ep, n + 1>> \in DOMAIN more
    BY <1>1
  <1>5. ASSUME NEW i \in DOMAIN Push(r, n + 1, e)
        PROVE  \/ Push(r, n + 1, e)[i] = Entry(n + 1, e)
               \/ \E j \in DOMAIN r : Push(r, n + 1, e)[i] = r[j]
    <2>1. n + 1 \in Nat
      OBVIOUS
    <2> QED
      BY <2>1, PushContents
  <1>6. PICK q : q = Push(r, n + 1, e)
    OBVIOUS
  <1> QED
    BY <1>2, <1>3, <1>4, <1>5, <1>6 DEF Chained

\* The store takes in an event: the next content follows from the last.
LEMMA PastGoesOn ==
    ASSUME now \in Nat, NEW past, NEW ep \in Nat, NEW n \in Nat, NEW a, NEW r,
           PastAt(past, ep, n, a, r), NEW e \in Event, NEW b, Follows(a, e, b),
           HeldMessages(b.messages), HeldStates(b.states)
    PROVE  \E more : Extends(past, more) /\ PastAt(more, ep, n + 1, b, Push(r, n + 1, e))
  <1>1. PICK m \in Nat : m = n + 1 /\ n < m
    OBVIOUS
  <1>2. PICK more : more = Later(past, <<ep, m>>, b)
    OBVIOUS
  <1>3. /\ <<ep, n>> \in DOMAIN past /\ past[<<ep, n>>] = a /\ PastHeld(past, ep, n)
        /\ r \in Seq(RingEntry) /\ EndsAt(r, n) /\ Chained(past, ep, r)
    BY DEF PastAt
  <1>4. Grown(past, <<ep, m>>, b, more) /\ PastHeld(more, ep, m)
    BY <1>1, <1>2, <1>3, LaterHeld
  <1>5. Chained(more, ep, Push(r, n + 1, e))
    BY <1>1, <1>2, <1>3, PushChained
  <1>6. Push(r, n + 1, e) \in Seq(RingEntry) /\ EndsAt(Push(r, n + 1, e), n + 1)
    BY <1>1, <1>3, PushIsReplay, PushEndsAt
  <1>7. PastAt(more, ep, n + 1, b, Push(r, n + 1, e))
    BY <1>1, <1>4, <1>5, <1>6 DEF PastAt, Grown
  <1>8. Extends(past, more)
    BY <1>4 DEF Grown, Extends
  <1> QED
    BY <1>7, <1>8

\* The store purges its replay, or starts again: no cursor of the past leads on.
LEMMA PastBreaks ==
    ASSUME NEW past, NEW ep \in Nat, NEW n \in Nat, NEW a, NEW r, PastAt(past, ep, n, a, r),
           NEW b, HeldMessages(b.messages), HeldStates(b.states),
           NEW ep2 \in Nat, NEW n2 \in Nat, NEW r2 \in Seq(RingEntry), EndsAt(r2, n2),
           \/ ep < ep2
           \/ ep = ep2 /\ n < n2,
           \/ Len(r2) = 0
           \/ Len(r2) = 1 /\ (ep < ep2 \/ n < n2 - 1)
    PROVE  \E more : Extends(past, more) /\ PastAt(more, ep2, n2, b, r2)
  <1>1. PICK more : more = Later(past, <<ep2, n2>>, b)
    OBVIOUS
  <1>2. PastHeld(past, ep, n)
    BY DEF PastAt
  <1>3. Grown(past, <<ep2, n2>>, b, more) /\ PastHeld(more, ep2, n2)
    BY <1>1, <1>2, LaterHeld
  <1>4. ASSUME NEW i \in DOMAIN r2, <<ep2, r2[i].seq - 1>> \in DOMAIN more
        PROVE  FALSE
    <2>1. r2[i].seq = n2 /\ (ep < ep2 \/ n < n2 - 1)
      BY DEF EndsAt
    <2>2. <<ep2, n2 - 1>> # <<ep2, n2>>
      OBVIOUS
    <2>3. <<ep2, n2 - 1>> \in DOMAIN past
      BY <1>3, <1>4, <2>1, <2>2 DEF Grown
    <2>4. ep2 < ep \/ (ep2 = ep /\ n2 - 1 <= n)
      BY <1>2, <2>3 DEF PastHeld
    <2> QED
      BY <2>1, <2>4
  <1>5. Chained(more, ep2, r2)
    BY <1>4 DEF Chained
  <1>6. PastAt(more, ep2, n2, b, r2) /\ Extends(past, more)
    BY <1>3, <1>5 DEF PastAt, Grown, Extends
  <1> QED
    BY <1>6

LEMMA RestrictHeld ==
    ASSUME NEW ms, HeldMessages(ms), NEW K \in SUBSET DOMAIN ms
    PROVE  HeldMessages(Restrict(ms, K))
  <1>1. PICK rest : rest = Restrict(ms, K)
    OBVIOUS
  <1>2. DOMAIN rest = K /\ rest = [k \in K |-> ms[k]]
    BY <1>1 DEF Restrict
  <1>3. Bounded(K, MaxMessages)
    BY SmallerStaysBounded, LimitsAssumption DEF HeldMessages
  <1>4. rest \in [DOMAIN rest -> Stored] /\ \A k \in DOMAIN rest : rest[k] = ms[k] /\ k \in DOMAIN ms
    BY <1>2 DEF HeldMessages
  <1>5. HeldMessages(rest)
    BY <1>2, <1>3, <1>4 DEF HeldMessages
  <1> QED
    BY <1>1, <1>5

\* A message that comes in follows from what was there, or from what is left
\* when the full store has announced the removal of its oldest.
LEMMA MessageFollows ==
    ASSUME StoreHolds, NEW e, Handed(e), IngestMessage(e), PositionsOrderMessages',
           NEW kept \in SUBSET DOMAIN messages,
           DOMAIN messages' = kept \cup {Key(e)},
           NEW a, a = [messages |-> Restrict(messages, kept), states |-> states]
    PROVE  Follows(a, e, Content')
  <1>1. e \in Event /\ e.type = "message"
    BY DEF Handed, Timely, IngestMessage, MessageTypes
  <1>2. /\ messages'[Key(e)].event = [e EXCEPT !.type = "message"]
        /\ messages'[Key(e)].pos = sequence'
        /\ \A k \in DOMAIN messages' : k # Key(e) => messages'[k] = messages[k]
        /\ sequence' > sequence
        /\ states' = states
    <2>1. sequence \in Nat
      BY DEF StoreHolds, TypeOK, CountersOK
    <2>2. sequence' = sequence + 1 \/ sequence' = sequence + 2
      BY DEF IngestMessage
    <2>3. /\ messages'[Key(e)].event = [e EXCEPT !.type = "message"]
          /\ messages'[Key(e)].pos = sequence'
          /\ \A k \in DOMAIN messages' : k # Key(e) => messages'[k] = messages[k]
          /\ states' = states
      BY DEF IngestMessage
    <2> QED
      BY <2>1, <2>2, <2>3
  <1>3. [e EXCEPT !.type = "message"] = e
    BY <1>1 DEF Event
  <1>4. \A k \in kept : messages[k].pos \in Nat /\ messages[k].pos <= sequence /\ sequence \in Nat
    BY DEF StoreHolds, TypeOK, CountersOK, MessagesOK, Stored, PositionsOrderMessages
  <1>5. a.messages = [k \in kept |-> messages[k]] /\ a.states = states
    BY DEF Restrict
  <1>6. Content'.messages = messages' /\ Content'.states = states
    BY <1>2 DEF Content
  <1>7. sequence' \in Nat
    <2>1. sequence \in Nat
      BY DEF StoreHolds, TypeOK, CountersOK
    <2> QED
      BY <2>1 DEF IngestMessage
  <1>8. \A k \in kept \ {Key(e)} : messages'[k] = messages[k] /\ messages[k].pos < messages'[Key(e)].pos
    <2> SUFFICES ASSUME NEW k \in kept \ {Key(e)}
                 PROVE  messages'[k] = messages[k] /\ messages[k].pos < messages'[Key(e)].pos
      OBVIOUS
    <2>1. messages[k].pos < sequence'
      BY <1>2, <1>4, <1>7
    <2> QED
      BY <1>2, <2>1
  <1>9. PICK b : b = Content'
    OBVIOUS
  <1>10. Follows(a, e, b)
    BY <1>1, <1>2, <1>3, <1>5, <1>6, <1>8, <1>9 DEF Follows, ApplyToStates
  <1> QED
    BY <1>9, <1>10

\* One step of the store adds to its past what its new cursor stands for.
LEMMA PastIngestMessage ==
    ASSUME StoreHolds, StoreHolds', NEW past, PastFits(past), NEW e, Handed(e), IngestMessage(e)
    PROVE  \E more : Extends(past, more) /\ PastFits(more)'
  <1> DEFINE others == DOMAIN messages \ {Key(e)}
             out    == Oldest(others)
  <1>1. /\ epoch \in Nat /\ sequence \in Nat /\ now \in Nat /\ e \in Event
        /\ PastAt(past, epoch, sequence, Content, ring)
        /\ HeldMessages(messages) /\ HeldStates(states)
    BY StoreHoldsContent DEF StoreHolds, TypeOK, CountersOK, PastFits, Handed, Timely
  <1>2. PICK b : b = Content'
    OBVIOUS
  <1>3. HeldMessages(b.messages) /\ HeldStates(b.states)
    <2>1. HeldMessages(messages') /\ HeldStates(states')
      BY StoreHoldsContentNext
    <2> QED
      BY <1>2, <2>1 DEF Content
  <1>4. epoch' = epoch /\ PositionsOrderMessages'
    BY DEF IngestMessage, StoreHolds
  <1>5. CASE Cardinality(others) >= MaxMessages
    <2>1. /\ sequence' = (sequence + 1) + 1
          /\ ring' = Push(Push(ring, sequence + 1, Eviction(out)), (sequence + 1) + 1, e)
          /\ DOMAIN messages' = (others \ {out}) \cup {Key(e)}
      BY <1>1, <1>5 DEF IngestMessage
    <2>2. out \in others /\ Eviction(out) \in Event /\ Eviction(out).type = "delete_message"
      BY <1>5, EvictionIsEvent DEF StoreHolds, TypeOK
    <2>3. Key(Eviction(out)) = out
      <3>1. messages[out].event \in Event /\ Key(messages[out].event) = out
        BY <1>1, <2>2 DEF HeldMessages, Stored
      <3> QED
        BY <3>1 DEF Eviction, Key, Event
    <2> HIDE DEF out
    <2>4. PICK mid : mid = [messages |-> Restrict(messages, DOMAIN messages \ {out}),
                            states |-> states]
      OBVIOUS
    <2>5. Follows(Content, Eviction(out), mid)
      BY <2>2, <2>3, <2>4 DEF Follows, Content, ApplyToStates
    <2>6. HeldMessages(mid.messages) /\ HeldStates(mid.states)
      <3>1. HeldMessages(Restrict(messages, DOMAIN messages \ {out}))
        BY <1>1, RestrictHeld
      <3> QED
        BY <1>1, <2>4, <3>1
    <2>7. PICK between : /\ Extends(past, between)
                         /\ PastAt(between, epoch, sequence + 1, mid,
                                   Push(ring, sequence + 1, Eviction(out)))
      BY <1>1, <2>2, <2>5, <2>6, PastGoesOn
    <2>8. DOMAIN messages' = (DOMAIN messages \ {out}) \cup {Key(e)}
      BY <2>1
    <2>9. Follows(mid, e, b)
      <3>1. DOMAIN messages \ {out} \in SUBSET DOMAIN messages
        OBVIOUS
      <3> QED
        BY <1>2, <1>4, <2>4, <2>8, <3>1, MessageFollows
    <2>10. PICK m, r : /\ m = sequence + 1 /\ m \in Nat
                       /\ r = Push(ring, sequence + 1, Eviction(out))
      BY <1>1
    <2>11. PastAt(between, epoch, m, mid, r)
      BY <2>7, <2>10
    <2>12. PICK more : Extends(between, more) /\ PastAt(more, epoch, m + 1, b, Push(r, m + 1, e))
      BY <1>1, <1>3, <2>9, <2>10, <2>11, PastGoesOn
    <2>13. PastFits(more)'
      BY <1>2, <1>4, <2>1, <2>10, <2>12 DEF PastFits
    <2>14. Extends(past, more)
      BY <2>7, <2>12 DEF Extends
    <2> QED
      BY <2>13, <2>14
  <1>6. CASE ~(Cardinality(others) >= MaxMessages)
    <2>1. /\ sequence' = sequence + 1
          /\ ring' = Push(ring, sequence + 1, e)
          /\ DOMAIN messages' = DOMAIN messages \cup {Key(e)}
      BY <1>6 DEF IngestMessage
    <2>2. PICK a : a = [messages |-> Restrict(messages, DOMAIN messages), states |-> states]
      OBVIOUS
    <2>3. Follows(a, e, b)
      <3>1. DOMAIN messages \in SUBSET DOMAIN messages
        OBVIOUS
      <3> QED
        BY <1>2, <1>4, <2>1, <2>2, <3>1, MessageFollows
    <2>4. a = Content
      <3>1. Restrict(messages, DOMAIN messages) = messages
        BY <1>1 DEF Restrict, HeldMessages
      <3> QED
        BY <2>2, <3>1 DEF Content
    <2>5. PICK more : Extends(past, more)
                      /\ PastAt(more, epoch, sequence + 1, b, Push(ring, sequence + 1, e))
      BY <1>1, <1>3, <2>3, <2>4, PastGoesOn
    <2>6. PastFits(more)'
      BY <1>2, <1>4, <2>1, <2>5 DEF PastFits
    <2> QED
      BY <2>5, <2>6
  <1> QED
    BY <1>5, <1>6

LEMMA PastIngestState ==
    ASSUME StoreHolds, StoreHolds', NEW past, PastFits(past), NEW e, Handed(e), IngestState(e)
    PROVE  \E more : Extends(past, more) /\ PastFits(more)'
  <1>1. /\ epoch \in Nat /\ sequence \in Nat /\ now \in Nat /\ e \in Event
        /\ PastAt(past, epoch, sequence, Content, ring)
    BY DEF StoreHolds, TypeOK, CountersOK, PastFits, Handed, Timely
  <1>2. PICK b : b = Content'
    OBVIOUS
  <1>3. HeldMessages(b.messages) /\ HeldStates(b.states)
    <2>1. HeldMessages(messages') /\ HeldStates(states')
      BY StoreHoldsContentNext
    <2> QED
      BY <1>2, <2>1 DEF Content
  <1>4. /\ epoch' = epoch /\ sequence' = sequence + 1
        /\ ring' = Push(ring, sequence + 1, e) /\ messages' = messages
        /\ e.type = "source_state" /\ states' = ApplyToStates(states, e)
    BY DEF IngestState, ApplyToStates
  <1>5. Follows(Content, e, b)
    BY <1>2, <1>4 DEF Follows, Content
  <1>6. PICK more : Extends(past, more)
                    /\ PastAt(more, epoch, sequence + 1, b, Push(ring, sequence + 1, e))
    BY <1>1, <1>3, <1>5, PastGoesOn
  <1>7. PastFits(more)'
    BY <1>2, <1>4, <1>6 DEF PastFits
  <1> QED
    BY <1>6, <1>7

\* The steps that purge the replay.
LEMMA PastPurged ==
    ASSUME StoreHolds, StoreHolds', NEW past, PastFits(past),
           \/ epoch < epoch'
           \/ epoch = epoch' /\ sequence < sequence',
           \/ Len(ring') = 0
           \/ Len(ring') = 1 /\ (epoch < epoch' \/ sequence < sequence' - 1)
    PROVE  \E more : Extends(past, more) /\ PastFits(more)'
  <1>1. epoch \in Nat /\ sequence \in Nat /\ PastAt(past, epoch, sequence, Content, ring)
    BY DEF StoreHolds, TypeOK, CountersOK, PastFits
  <1>2. PICK b, ep2, n2, r2 : b = Content' /\ ep2 = epoch' /\ n2 = sequence' /\ r2 = ring'
    OBVIOUS
  <1>3. HeldMessages(b.messages) /\ HeldStates(b.states)
    <2>1. HeldMessages(messages') /\ HeldStates(states')
      BY StoreHoldsContentNext
    <2> QED
      BY <1>2, <2>1 DEF Content
  <1>4. ep2 \in Nat /\ n2 \in Nat /\ r2 \in Seq(RingEntry) /\ EndsAt(r2, n2)
    <2>1. TypeOK' /\ RingContiguous'
      BY DEF StoreHolds
    <2> QED
      BY <1>2, <2>1 DEF TypeOK, CountersOK, ReplayOK, RingContiguous, EndsAt
  <1>5. \E more : Extends(past, more) /\ PastAt(more, ep2, n2, b, r2)
    BY <1>1, <1>2, <1>3, <1>4, PastBreaks
  <1> QED
    BY <1>2, <1>5 DEF PastFits

LEMMA PastStep ==
    ASSUME NoReplacement, StoreHolds, StoreMoves, NEW past, PastFits(past)
    PROVE  \E more : Extends(past, more) /\ PastFits(more)'
  <1>0. StoreHolds' /\ epoch \in Nat /\ sequence \in Nat /\ now \in Nat /\ ring \in Seq(RingEntry)
    BY StoreHoldsStep DEF StoreHolds, TypeOK, CountersOK, ReplayOK
  <1>1. ASSUME NEW e, Handed(e), Ingest(e)
        PROVE  \E more : Extends(past, more) /\ PastFits(more)'
    <2>1. CASE IngestDeletion(e)
      <3>1. epoch' = epoch /\ sequence' = sequence + 2 /\ ring' = <<Entry(sequence + 2, e)>>
        BY <2>1 DEF IngestDeletion, Delete
      <3> QED
        BY <1>0, <3>1, PastPurged
    <2>2. CASE CompactBarriers(e)
      <3>1. epoch' = epoch + 1 /\ ring' = <<Entry(1, e)>>
        BY <2>2 DEF CompactBarriers
      <3> QED
        BY <1>0, <3>1, PastPurged
    <2> QED
      BY <1>0, <1>1, <2>1, <2>2, PastIngestMessage, PastIngestState DEF Ingest
  <1>2. CASE \E i \in Inputs, t \in Stamps : Ingest(Stamped(i, t))
    BY <1>0, <1>1, <1>2, StampedIsHanded
  <1>3. CASE Restart
    <2>1. epoch' = epoch + 1 /\ ring' = <<>>
      BY <1>3 DEF Restart
    <2> QED
      BY <1>0, <2>1, PastPurged
  <1>4. CASE Expire /\ (MessageExpired \/ ReplayExpired)
    <2>1. epoch' = epoch /\ sequence' = sequence + 1 /\ ring' = <<>>
      BY <1>4 DEF Expire, Prune
    <2> QED
      BY <1>0, <2>1, PastPurged
  <1>5. CASE UNCHANGED <<epoch, sequence, messages, states, ring>>
    <2>1. PastFits(past)'
      BY <1>5 DEF PastFits, Content
    <2>2. Extends(past, past)
      BY DEF Extends
    <2> QED
      BY <2>1, <2>2
  <1>6. CASE Expire /\ ~(MessageExpired \/ ReplayExpired)
    <2>1. {k \in DOMAIN messages : ~Expired(messages[k].expires)} = DOMAIN messages
      BY <1>6 DEF MessageExpired
    <2>2. Restrict(messages, DOMAIN messages) = messages
      BY DEF StoreHolds, TypeOK, MessagesOK, Restrict
    <2>3. UNCHANGED <<epoch, sequence, messages, states, ring>>
      BY <1>6, <2>1, <2>2 DEF Expire, Prune
    <2> QED
      BY <1>5, <2>3
  <1> QED
    BY <1>2, <1>3, <1>4, <1>5, <1>6
    DEF StoreMoves, UpdateSources, Tick, contentVars, replayVars, vars

-----------------------------------------------------------------------------
(* The loops and the pages                                                  *)

Batch == [id : Nat \X Nat, reset : BOOLEAN, messages : Seq(Event), states : StateMaps,
          events : Seq(Event)]
Sent == [batch : Batch, upto : SUBSET Event]

ViewShape ==
    /\ conn \in [Viewers -> BOOLEAN]
    /\ cursor \in [Viewers -> (Nat \X Nat) \cup {None}]
    /\ pipe \in [Viewers -> Seq(Sent)]
    /\ lastId \in [Viewers -> (Nat \X Nat) \cup {None}]
    /\ view \in [Viewers -> Seq(Event)]
    /\ viewStates \in [Viewers -> StateMaps]

Stale == {e \in Event : ~Fresh(e)}

\* What the viewers of the platforms F may see of the content c.
Visible(F, c) ==
    {e \in {c.messages[k].event : k \in DOMAIN c.messages} \cup {c.states[s] : s \in DOMAIN c.states} :
        PlatformOf[e.source] \in F}

\* The id the page has when it gets to batch i + 1.
Id(v, i) == IF i = 0 THEN lastId[v] ELSE pipe[v][i].batch.id

\* The page shows what the store held at its last id.
PageFits(past, v) ==
    IF lastId[v] = None
    THEN view[v] = <<>> /\ viewStates[v] = <<>>
    ELSE /\ lastId[v] \in DOMAIN past
         /\ Shows(PlatformsFor(v), past[lastId[v]].messages, Stale, view[v])
         /\ viewStates[v] = StatesFor(PlatformsFor(v), past[lastId[v]].states)

\* A batch b from the id before it leads to what the store held at its own id.
BatchLeads(past, F, before, b) ==
    /\ b.id \in DOMAIN past
    /\ b.reset => /\ b.events = <<>>
                  /\ Shows(F, past[b.id].messages, {}, b.messages)
                  /\ b.states = StatesFor(F, past[b.id].states)
    /\ ~b.reset => /\ before \in DOMAIN past
                   /\ Carries(F, past[before], b.events, past[b.id])

BatchFits(past, v, i) ==
    /\ BatchLeads(past, PlatformsFor(v), Id(v, i - 1), pipe[v][i].batch)
    /\ pipe[v][i].upto = Visible(PlatformsFor(v), past[pipe[v][i].batch.id])

\* The loop of a connected viewer is where the last batch leads.
LoopFits(past, v) ==
    /\ cursor[v] = None \/ cursor[v] \in DOMAIN past
    /\ conn[v] => cursor[v] = Id(v, Len(pipe[v]))
    /\ ~conn[v] => pipe[v] = <<>>

ViewerFits(past, v) ==
    /\ PageFits(past, v)
    /\ LoopFits(past, v)
    /\ \A i \in DOMAIN pipe[v] : BatchFits(past, v, i)

\* The invariant: some past explains every page, batch and loop.
Follow(past) ==
    /\ StoreHolds
    /\ PastFits(past)
    /\ ViewShape
    /\ \A v \in Viewers : ViewerFits(past, v)

ViewersFollow == \E past : Follow(past)

SameViewer(v) ==
    UNCHANGED <<conn[v], cursor[v], pipe[v], lastId[v], view[v], viewStates[v]>>

LEMMA ShowsLess ==
    ASSUME NEW F, NEW ms, NEW D, NEW E, NEW list, Shows(F, ms, D, list), D \subseteq E
    PROVE  Shows(F, ms, E, list)
  BY DEF Shows

LEMMA StaleGrows ==
    ASSUME now \in Nat, now' \in Nat, now <= now'
    PROVE  Stale \subseteq Stale'
  BY LimitsAssumption DEF Stale, Fresh, Event

LEMMA BatchStillLeads ==
    ASSUME NEW past, NEW more, Extends(past, more), NEW F, NEW before, NEW b,
           BatchLeads(past, F, before, b)
    PROVE  BatchLeads(more, F, before, b)
  BY DEF BatchLeads, Extends

LEMMA PageStays ==
    ASSUME NEW past, NEW more, Extends(past, more), NEW v \in Viewers, PageFits(past, v),
           UNCHANGED <<lastId[v], view[v], viewStates[v]>>,
           Stale \subseteq Stale', PlatformsFor(v)' = PlatformsFor(v)
    PROVE  PageFits(more, v)'
  <1>1. CASE lastId[v] = None
    BY <1>1 DEF PageFits
  <1>2. CASE lastId[v] # None
    <2>1. PICK id, l, D, E, F : /\ id = lastId[v] /\ l = view[v] /\ F = PlatformsFor(v)
                                /\ D = Stale /\ E = Stale'
      OBVIOUS
    <2>2. /\ id \in DOMAIN more /\ more[id] = past[id]
          /\ Shows(F, past[id].messages, D, l)
          /\ viewStates[v] = StatesFor(F, past[id].states)
      BY <1>2, <2>1 DEF PageFits, Extends
    <2>3. Shows(F, past[id].messages, E, l)
      BY <2>1, <2>2, ShowsLess
    <2> QED
      BY <1>2, <2>1, <2>2, <2>3 DEF PageFits
  <1> QED
    BY <1>1, <1>2

\* A batch i that comes to stand at place j keeps its id before and after.
LEMMA BatchStays ==
    ASSUME NEW past, NEW more, Extends(past, more), NEW v \in Viewers,
           NEW i, NEW j, BatchFits(past, v, i),
           Id(v, j - 1)' = Id(v, i - 1), pipe'[v][j] = pipe[v][i],
           PlatformsFor(v)' = PlatformsFor(v)
    PROVE  BatchFits(more, v, j)'
  <1>1. PICK F, before, q : F = PlatformsFor(v) /\ before = Id(v, i - 1) /\ q = pipe[v][i]
    OBVIOUS
  <1>2. /\ BatchLeads(past, F, before, q.batch)
        /\ q.upto = Visible(F, past[q.batch.id])
    BY <1>1 DEF BatchFits
  <1>3. BatchLeads(more, F, before, q.batch)
    BY <1>2, BatchStillLeads
  <1>4. more[q.batch.id] = past[q.batch.id]
    BY <1>2 DEF BatchLeads, Extends
  <1>5. Id(v, j - 1)' = before /\ pipe'[v][j] = q /\ PlatformsFor(v)' = F
    BY <1>1
  <1> QED
    BY <1>2, <1>3, <1>4, <1>5 DEF BatchFits

LEMMA ViewerStays ==
    ASSUME NEW past, NEW more, Extends(past, more), NEW v \in Viewers, ViewerFits(past, v),
           SameViewer(v), Stale \subseteq Stale', PlatformsFor(v)' = PlatformsFor(v)
    PROVE  ViewerFits(more, v)'
  <1>1. PageFits(more, v)'
    BY PageStays DEF SameViewer, ViewerFits
  <1>2. LoopFits(more, v)'
    BY DEF SameViewer, ViewerFits, LoopFits, Extends, Id
  <1>3. ASSUME NEW i \in DOMAIN pipe[v] PROVE BatchFits(more, v, i)'
    <2>1. Id(v, i - 1)' = Id(v, i - 1) /\ pipe'[v][i] = pipe[v][i]
      BY DEF SameViewer, Id
    <2>2. BatchFits(past, v, i)
      BY DEF ViewerFits
    <2> QED
      BY <2>1, <2>2, BatchStays
  <1>4. DOMAIN pipe'[v] = DOMAIN pipe[v]
    BY DEF SameViewer
  <1> QED
    BY <1>1, <1>2, <1>3, <1>4 DEF ViewerFits

\* Nothing is a list of events and a map of states, of which nothing is picked.
Nothing(nil) ==
    /\ nil = <<>> /\ DOMAIN nil = {}
    /\ nil \in Seq(Event) /\ nil \in StateMaps
    /\ \A P : Picked(nil, P) = nil
    /\ \A P : Restrict(nil, {s \in DOMAIN nil : s \in P}) = nil

LEMMA NothingIs == Nothing(<<>>)
  <1> DEFINE nil == <<>>
  <1>1. nil \in Seq(Event) /\ Len(nil) = 0 /\ DOMAIN nil = {}
    OBVIOUS
  <1>2. nil \in StateMaps
    <2>1. nil \in [{} -> Event]
      OBVIOUS
    <2> HIDE DEF nil
    <2> QED
      BY <2>1 DEF StateMaps
  <1>3. \A P : Restrict(nil, {s \in DOMAIN nil : s \in P}) = nil
    BY DEF Restrict
  <1>4. nil = <<>>
    OBVIOUS
  <1> HIDE DEF nil
  <1>5. ASSUME NEW P PROVE Picked(nil, P) = nil
    <2>1. \E f \in [0 .. Len(nil) -> Seq(Event)] : Picks(nil, P, f) /\ Picked(nil, P) = f[Len(nil)]
      BY <1>1, PickedPicks
    <2>2. PICK f : Picks(nil, P, f) /\ Picked(nil, P) = f[0]
      BY <1>1, <2>1
    <2> QED
      BY <1>4, <2>2 DEF Picks
  <1>6. Nothing(nil)
    BY <1>1, <1>2, <1>3, <1>4, <1>5 DEF Nothing
  <1> QED
    BY <1>4, <1>6

\* The batch with what the viewers of the platforms F may see of it.
PartsFor(F, id, reset, ms, sts, es) ==
    [id |-> id, reset |-> reset,
     messages |-> Picked(ms, {i \in DOMAIN ms : PlatformOf[ms[i].source] \in F}),
     states |-> StatesFor(F, sts),
     events |-> Picked(es, {i \in DOMAIN es : PlatformOf[es[i].source] \in F})]

BatchOf(id, reset, ms, sts, es) ==
    [id |-> id, reset |-> reset, messages |-> ms, states |-> sts, events |-> es]

LEMMA FilteredParts ==
    ASSUME NEW v, NEW id, NEW reset, NEW ms, NEW sts, NEW es
    PROVE  Filtered(v, BatchOf(id, reset, ms, sts, es)) =
               PartsFor(PlatformsFor(v), id, reset, ms, sts, es)
  <1> DEFINE F == PlatformsFor(v)
  <1>0. PICK q : q = BatchOf(id, reset, ms, sts, es)
    OBVIOUS
  <1>1. q.messages = ms /\ q.states = sts /\ q.events = es
    BY <1>0 DEF BatchOf
  <1>2. PICK x, y, z :
           /\ x = Picked(ms, {i \in DOMAIN ms : PlatformOf[ms[i].source] \in F})
           /\ y = StatesFor(F, sts)
           /\ z = Picked(es, {i \in DOMAIN es : PlatformOf[es[i].source] \in F})
    OBVIOUS
  <1>3. x = Picked(q.messages, {i \in DOMAIN q.messages : Passes(v, q.messages[i])})
    BY <1>1, <1>2 DEF Passes
  <1>4. y = Restrict(q.states, {s \in DOMAIN q.states : PlatformOf[s] \in PlatformsFor(v)})
    BY <1>1, <1>2 DEF StatesFor
  <1>5. z = Picked(q.events, {i \in DOMAIN q.events : Passes(v, q.events[i])})
    BY <1>1, <1>2 DEF Passes
  <1>6. Filtered(v, q) = [q EXCEPT !.messages = x, !.states = y, !.events = z]
    BY <1>3, <1>4, <1>5 DEF Filtered
  <1>7. [q EXCEPT !.messages = x, !.states = y, !.events = z] = BatchOf(id, reset, x, y, z)
    <2>1. [q EXCEPT !.messages = x] = BatchOf(id, reset, x, sts, es)
      BY <1>0 DEF BatchOf
    <2>2. PICK p : p = BatchOf(id, reset, x, sts, es)
      OBVIOUS
    <2>3. [p EXCEPT !.states = y] = BatchOf(id, reset, x, y, es)
      BY <2>2 DEF BatchOf
    <2>4. PICK o : o = BatchOf(id, reset, x, y, es)
      OBVIOUS
    <2>5. [o EXCEPT !.events = z] = BatchOf(id, reset, x, y, z)
      BY <2>4 DEF BatchOf
    <2>6. [q EXCEPT !.messages = x, !.states = y, !.events = z] = [o EXCEPT !.events = z]
      BY <2>1, <2>2, <2>3, <2>4
    <2> QED
      BY <2>5, <2>6
  <1> QED
    BY <1>0, <1>2, <1>6, <1>7 DEF PartsFor, BatchOf

LEMMA BatchIs ==
    ASSUME NEW id \in Nat \X Nat, NEW reset \in BOOLEAN, NEW ms \in Seq(Event),
           NEW sts \in StateMaps, NEW es \in Seq(Event)
    PROVE  [id |-> id, reset |-> reset, messages |-> ms, states |-> sts, events |-> es] \in Batch
  BY DEF Batch

ReplayWritten(b, cur, events) ==
    b = [id |-> cur, reset |-> FALSE, messages |-> <<>>, states |-> <<>>, events |-> events]

SnapshotWritten(b, cur, F, ms, sts) ==
    /\ b = [id |-> cur, reset |-> TRUE, messages |-> b.messages,
            states |-> StatesFor(F, sts), events |-> <<>>]
    /\ Shows(F, ms, {}, b.messages)

\* A replay as the loop of v writes it.
LEMMA FilteredReplay ==
    ASSUME NEW v, NEW F, F = PlatformsFor(v), NEW c, NEW r, NEW cur, NEW ms, NEW sts,
           Recoverable(c, r, cur), NEW b, b = Filtered(v, ReadBatch(c, r, cur, ms, sts))
    PROVE  ReplayWritten(b, cur, ReplayFor(F, c, r, cur))
  <1>1. PICK events : events = ReplayBatch(c, r, cur).events
    OBVIOUS
  <1>2. ReplayBatch(c, r, cur) = [id |-> cur, reset |-> FALSE, messages |-> <<>>,
                                  states |-> <<>>, events |-> events]
    BY <1>1 DEF ReplayBatch
  <1>3. ReadBatch(c, r, cur, ms, sts) = [id |-> cur, reset |-> FALSE, messages |-> <<>>,
                                         states |-> <<>>, events |-> events]
    BY <1>2 DEF ReadBatch
  <1>4. Picked(events, {i \in DOMAIN events : PlatformOf[events[i].source] \in F})
           = ReplayFor(F, c, r, cur)
    BY <1>1 DEF ReplayFor
  <1>5. PICK nil : nil = <<>> /\ Nothing(nil)
    BY NothingIs
  <1>6. Picked(nil, {i \in DOMAIN nil : PlatformOf[nil[i].source] \in F}) = nil
    BY <1>5 DEF Nothing
  <1>7. StatesFor(F, nil) = nil
    BY <1>5 DEF Nothing, StatesFor, Restrict
  <1>8. b = Filtered(v, BatchOf(cur, FALSE, nil, nil, events))
    BY <1>3, <1>5 DEF BatchOf
  <1>9. b = PartsFor(F, cur, FALSE, nil, nil, events)
    BY <1>8, FilteredParts
  <1> QED
    BY <1>4, <1>5, <1>6, <1>7, <1>9 DEF PartsFor, ReplayWritten

\* A snapshot as the loop of v writes it.
LEMMA FilteredSnapshot ==
    ASSUME NEW v, NEW F, F = PlatformsFor(v), NEW c, NEW r, NEW cur, NEW ms, NEW sts,
           ~Recoverable(c, r, cur), NEW b, b = Filtered(v, ReadBatch(c, r, cur, ms, sts)),
           HeldMessages(ms)
    PROVE  SnapshotWritten(b, cur, F, ms, sts)
  <1>1. PICK list : list = Listed(ms)
    OBVIOUS
  <1>2. ReadBatch(c, r, cur, ms, sts) = [id |-> cur, reset |-> TRUE, messages |-> list,
                                         states |-> sts, events |-> <<>>]
    BY <1>1 DEF ReadBatch, SnapshotBatch
  <1>3. PICK nil : nil = <<>> /\ Nothing(nil)
    BY NothingIs
  <1>4. Picked(nil, {i \in DOMAIN nil : PlatformOf[nil[i].source] \in F}) = nil
    BY <1>3 DEF Nothing
  <1>5. PICK P : P = {i \in DOMAIN list : PlatformOf[list[i].source] \in F /\ list[i] \notin {}}
    OBVIOUS
  <1>6. P = {i \in DOMAIN list : PlatformOf[list[i].source] \in F}
    BY <1>5
  <1>8. b = [id |-> cur, reset |-> TRUE, messages |-> Picked(list, P),
             states |-> StatesFor(F, sts), events |-> nil]
    <2>1. b = Filtered(v, BatchOf(cur, TRUE, list, sts, nil))
      BY <1>2, <1>3 DEF BatchOf
    <2>2. b = PartsFor(F, cur, TRUE, list, sts, nil)
      BY <2>1, FilteredParts
    <2> QED
      BY <1>4, <1>6, <2>2 DEF PartsFor
  <1>9. PICK G : G = {PlatformOf[s] : s \in Sources}
    OBVIOUS
  <1>10. Shows(G, ms, {}, list)
    BY <1>1, <1>9, ListedShows
  <1>11. \A k \in DOMAIN ms : PlatformOf[ms[k].event.source] \in F =>
                                   PlatformOf[ms[k].event.source] \in G
    BY <1>9 DEF HeldMessages, Stored, Event
  <1>12. PICK none : none = {}
    OBVIOUS
  <1>13. Shows(F, ms, none \cup none, Picked(list, P))
    BY <1>5, <1>10, <1>11, <1>12, PickedShows
  <1>14. none \cup none = {}
    BY <1>12
  <1>15. b.messages = Picked(list, P)
    BY <1>8
  <1> QED
    BY <1>3, <1>8, <1>13, <1>14, <1>15 DEF SnapshotWritten

\* Batch b leads from the cursor c to the cursor cur.
Written(past, F, c, cur, b) == b \in Batch /\ b.id = cur /\ BatchLeads(past, F, c, b)

\* What one turn of a loop writes leads from its cursor to the store's.
LEMMA BatchWritten ==
    ASSUME NEW past, NEW ep \in Nat, NEW n \in Nat, NEW a, NEW r, PastAt(past, ep, n, a, r),
           NEW c, c = None \/ c \in DOMAIN past, NEW v, NEW F, F = PlatformsFor(v),
           NEW b, b = Filtered(v, ReadBatch(c, r, <<ep, n>>, a.messages, a.states))
    PROVE  Written(past, F, c, <<ep, n>>, b)
  <1>1. /\ <<ep, n>> \in DOMAIN past /\ past[<<ep, n>>] = a /\ PastHeld(past, ep, n)
        /\ r \in Seq(RingEntry) /\ EndsAt(r, n) /\ Chained(past, ep, r)
        /\ HeldMessages(a.messages) /\ HeldStates(a.states)
    BY DEF PastAt, PastHeld
  <1>2. PICK cur : /\ cur = <<ep, n>> /\ cur \in Nat \X Nat
                   /\ b = Filtered(v, ReadBatch(c, r, cur, a.messages, a.states))
    OBVIOUS
  <1>3. CASE Recoverable(c, r, cur)
    <2>1. PICK events : events = ReplayFor(F, c, r, cur)
      OBVIOUS
    <2>2. c \in DOMAIN past
      BY <1>3 DEF Recoverable
    <2>3. events \in Seq(Event) /\ Carries(F, past[c], events, past[cur])
      BY <1>1, <1>2, <1>3, <2>1, <2>2, ReplayCarries
    <2>4. ReplayWritten(b, cur, events)
      <3>1. b = Filtered(v, ReadBatch(c, r, cur, a.messages, a.states))
        BY <1>2
      <3>2. ReplayWritten(b, cur, ReplayFor(F, c, r, cur))
        BY <1>3, <3>1, FilteredReplay
      <3> QED
        BY <2>1, <3>2
    <2>5. <<>> \in StateMaps /\ <<>> \in Seq(Event)
      BY NothingIs DEF Nothing
    <2>6. b \in Batch
      <3>1. PICK nil : nil = <<>>
        OBVIOUS
      <3>2. nil \in StateMaps /\ nil \in Seq(Event)
        BY <2>5, <3>1
      <3>3. b = [id |-> cur, reset |-> FALSE, messages |-> nil, states |-> nil, events |-> events]
        BY <2>4, <3>1 DEF ReplayWritten
      <3>4. cur \in Nat \X Nat
        BY <1>2
      <3> QED
        BY <2>3, <3>2, <3>3, <3>4, BatchIs
    <2>7. b.id = cur /\ ~b.reset /\ b.events = events
      BY <2>4 DEF ReplayWritten
    <2>8. BatchLeads(past, F, c, b)
      BY <1>1, <1>2, <2>2, <2>3, <2>7 DEF BatchLeads
    <2> QED
      BY <1>2, <2>6, <2>7, <2>8 DEF Written
  <1>4. CASE ~Recoverable(c, r, cur)
    <2>1. /\ b = [id |-> cur, reset |-> TRUE, messages |-> b.messages,
                  states |-> StatesFor(F, a.states), events |-> <<>>]
          /\ Shows(F, a.messages, {}, b.messages)
      <3>1. b = Filtered(v, ReadBatch(c, r, cur, a.messages, a.states))
        BY <1>2
      <3>2. SnapshotWritten(b, cur, F, a.messages, a.states)
        BY <1>1, <1>4, <3>1, FilteredSnapshot
      <3> QED
        BY <3>2 DEF SnapshotWritten
    <2>2. b.id = cur /\ b.reset /\ b.events = <<>> /\ b.states = StatesFor(F, a.states)
      BY <2>1
    <2>3. b.messages \in Seq(Event) /\ StatesFor(F, a.states) \in StateMaps
      BY <1>1, <2>1, StatesForMaps DEF Shows
    <2>5. b \in Batch
      <3>1. PICK nil : nil = <<>> /\ Nothing(nil)
        BY NothingIs
      <3>2. PICK l, sts : /\ b = [id |-> cur, reset |-> TRUE, messages |-> l,
                                  states |-> sts, events |-> nil]
                          /\ l \in Seq(Event) /\ sts \in StateMaps
        BY <2>1, <2>3, <3>1
      <3>3. nil \in Seq(Event)
        BY <3>1 DEF Nothing
      <3>4. cur \in Nat \X Nat
        BY <1>2
      <3> QED
        BY <3>2, <3>3, <3>4, BatchIs
    <2>6. BatchLeads(past, F, c, b)
      BY <1>1, <1>2, <2>1, <2>2 DEF BatchLeads
    <2> QED
      BY <1>2, <2>2, <2>5, <2>6 DEF Written
  <1> QED
    BY <1>3, <1>4

-----------------------------------------------------------------------------
(* Steps of the viewers                                                     *)

\* A turn of the loop that writes a batch.
LEMMA PollWrites ==
    ASSUME NEW past, ViewShape, NEW v \in Viewers, ViewerFits(past, v), Poll(v),
           cursor[v] # Cursor', NEW more, Extends(past, more), PastFits(more)', StoreHolds'
    PROVE  ViewerFits(more, v)' /\ pipe' \in [Viewers -> Seq(Sent)]
  <1>1. PICK b, up, ep, n, a, r, F, c, old :
           /\ b = Filtered(v, ReadBatch(cursor[v], ring', Cursor', messages', states'))
           /\ up = SeenBy(v)' /\ ep = epoch' /\ n = sequence' /\ a = Content' /\ r = ring'
           /\ F = PlatformsFor(v) /\ c = cursor[v] /\ old = pipe[v]
    OBVIOUS
  <1>2. /\ conn[v] /\ conn' = conn
        /\ UNCHANGED <<configured, overlayPlatforms, now, lastId, view, viewStates>>
        /\ cursor' = [cursor EXCEPT ![v] = <<ep, n>>]
        /\ pipe' = [pipe EXCEPT ![v] = Append(old, [batch |-> b, upto |-> up])]
    BY <1>1 DEF Poll, Expire, Prune, sourceVars, pageVars, Cursor
  <1>3. PlatformsFor(v)' = F
    BY <1>1, <1>2 DEF PlatformsFor
  <1>4. ep \in Nat /\ n \in Nat /\ PastAt(more, ep, n, a, r)
    <2>1. PastAt(more, ep, n, a, r)
      BY <1>1 DEF PastFits
    <2>2. TypeOK'
      BY DEF StoreHolds
    <2> QED
      BY <1>1, <2>1, <2>2 DEF TypeOK, CountersOK
  <1>5. b = Filtered(v, ReadBatch(c, r, <<ep, n>>, a.messages, a.states))
    BY <1>1 DEF Cursor, Content
  <1>6. c = None \/ c \in DOMAIN more
    BY <1>1 DEF ViewerFits, LoopFits, Extends
  <1>7. b \in Batch /\ b.id = <<ep, n>> /\ BatchLeads(more, F, c, b)
    <2>1. F = PlatformsFor(v)
      BY <1>1
    <2>2. Written(more, F, c, <<ep, n>>, b)
      BY <1>4, <1>5, <1>6, <2>1, BatchWritten
    <2> QED
      BY <2>2 DEF Written
  <1>8. up = Visible(F, a)
    BY <1>1, <1>3 DEF SeenBy, Visible, Content, Passes
  <1>9. more[<<ep, n>>] = a /\ <<ep, n>> \in DOMAIN more
    BY <1>4 DEF PastAt
  <1>10. PICK sent : sent = [batch |-> b, upto |-> up]
    OBVIOUS
  <1>11. sent.batch = b /\ sent.upto = up
    BY <1>10
  <1>12. sent \in Sent
    <2>1. \A k \in DOMAIN a.messages : a.messages[k].event \in Event
      BY <1>4 DEF PastAt, PastHeld, HeldMessages, Stored
    <2>2. \A s \in DOMAIN a.states : a.states[s] \in Event
      BY <1>4 DEF PastAt, PastHeld, HeldStates
    <2>3. up \in SUBSET Event
      BY <1>8, <2>1, <2>2 DEF Visible
    <2> QED
      BY <1>7, <1>10, <2>3 DEF Sent
  <1>13. old \in Seq(Sent) /\ v \in DOMAIN pipe
    BY <1>1 DEF ViewShape
  <1>14. PICK m, new : m = Len(old) /\ new = Append(old, sent)
    OBVIOUS
  <1>15. /\ m \in Nat /\ DOMAIN old = 1 .. m /\ new \in Seq(Sent) /\ Len(new) = m + 1
         /\ DOMAIN new = 1 .. m + 1 /\ new[m + 1] = sent /\ \A i \in 1 .. m : new[i] = old[i]
    BY <1>12, <1>13, <1>14, AppendProperties
  <1>16. pipe'[v] = new /\ pipe' \in [Viewers -> Seq(Sent)]
    BY <1>2, <1>10, <1>14, <1>15 DEF ViewShape
  <1>17. Id(v, m)' = c
    <2>1. cursor[v] = Id(v, m)
      BY <1>1, <1>2, <1>14 DEF ViewerFits, LoopFits
    <2>2. CASE m = 0
      BY <1>1, <1>2, <2>1, <2>2 DEF Id
    <2>3. CASE m # 0
      <3>1. m \in 1 .. m
        BY <1>15, <2>3
      <3> QED
        BY <1>1, <1>15, <1>16, <2>1, <2>3, <3>1 DEF Id
    <2> QED
      BY <2>2, <2>3
  <1>18. PageFits(more, v)'
    <2>1. Stale \subseteq Stale'
      BY <1>2 DEF Stale, Fresh
    <2> QED
      BY <1>1, <1>2, <1>3, <2>1, PageStays DEF ViewerFits
  <1>19. LoopFits(more, v)'
    <2>1. cursor'[v] = <<ep, n>> /\ conn'[v]
      BY <1>2 DEF ViewShape
    <2>2. Id(v, m + 1)' = <<ep, n>>
      BY <1>7, <1>11, <1>15, <1>16 DEF Id
    <2> QED
      BY <1>9, <1>15, <1>16, <2>1, <2>2 DEF LoopFits
  <1>20. ASSUME NEW i \in 1 .. m + 1 PROVE BatchFits(more, v, i)'
    <2>1. CASE i = m + 1
      <3>1. (m + 1) - 1 = m /\ pipe'[v][i] = sent
        BY <1>15, <1>16, <2>1
      <3>2. Id(v, i - 1)' = c
        BY <1>17, <2>1, <3>1
      <3> QED
        BY <1>3, <1>7, <1>8, <1>9, <1>11, <3>1, <3>2 DEF BatchFits
    <2>2. CASE i # m + 1
      <3>1. i \in 1 .. m /\ (i - 1 # 0 => i - 1 \in 1 .. m)
        BY <1>15, <2>2
      <3>2. pipe'[v][i] = pipe[v][i]
        BY <1>1, <1>15, <1>16, <3>1
      <3>3. Id(v, i - 1)' = Id(v, i - 1)
        BY <1>1, <1>2, <1>15, <1>16, <3>1 DEF Id
      <3>4. BatchFits(past, v, i)
        BY <1>1, <1>15, <3>1 DEF ViewerFits
      <3> QED
        BY <1>1, <1>3, <3>2, <3>3, <3>4, BatchStays
    <2> QED
      BY <2>1, <2>2
  <1> QED
    BY <1>15, <1>16, <1>18, <1>19, <1>20 DEF ViewerFits

\* What the list shows, and the page still paints.
LEMMA RenderedShows ==
    ASSUME NEW F, NEW ms, NEW D, D \subseteq Stale, NEW list, Shows(F, ms, D, list)
    PROVE  /\ Shows(F, ms, Stale, Rendered(list))
           /\ NoneOf(Stale, Rendered(list))
  <1>1. \A i \in DOMAIN list : list[i] \in Event /\ PlatformOf[list[i].source] \in F
    BY DEF Shows
  <1>2. PICK E, P : E = Stale /\ P = {i \in DOMAIN list : Fresh(list[i])}
    OBVIOUS
  <1>3. P = {i \in DOMAIN list : PlatformOf[list[i].source] \in F /\ list[i] \notin E}
    BY <1>1, <1>2 DEF Stale
  <1>4. PICK r : r = Picked(list, P)
    OBVIOUS
  <1>5. Shows(F, ms, D \cup E, Picked(list, P))
    BY <1>3, PickedShows
  <1>8. NoneOf(E, Picked(list, P))
    BY <1>3, PickedShows
  <1>6. D \cup E = E
    BY <1>2
  <1>7. Rendered(list) = r
    BY <1>2, <1>4 DEF Rendered
  <1> QED
    BY <1>2, <1>4, <1>5, <1>6, <1>7, <1>8

\* The page after a batch.
NextList(v, b) == ListAfter(IF b.reset THEN b.messages ELSE view[v], b.events)
NextStates(v, b) == StatesAfter(IF b.reset THEN b.states ELSE viewStates[v], b.events)

LEMMA BatchApplied ==
    ASSUME NEW past, PastFits(past), NEW v \in Viewers, PageFits(past, v),
           NEW b \in Batch, NEW F, F = PlatformsFor(v), BatchLeads(past, F, lastId[v], b)
    PROVE  /\ b.id \in DOMAIN past
           /\ Shows(F, past[b.id].messages, Stale, Rendered(NextList(v, b)))
           /\ NextStates(v, b) = StatesFor(F, past[b.id].states)
  <1>1. b.id \in DOMAIN past /\ PastHeld(past, epoch, sequence)
    BY DEF BatchLeads, PastFits, PastAt
  <1>2. CASE b.reset
    <2>1. /\ b.events = <<>> /\ Shows(F, past[b.id].messages, {}, b.messages)
          /\ b.states = StatesFor(F, past[b.id].states)
      BY <1>2 DEF BatchLeads
    <2>2. NextList(v, b) = b.messages
      <3>1. b.messages \in Seq(Event)
        BY <2>1 DEF Shows
      <3>2. ListAfter(b.messages, <<>>) = b.messages
        BY <3>1, ListAfterNone
      <3> QED
        BY <1>2, <2>1, <3>2 DEF NextList
    <2>3. NextStates(v, b) = b.states
      <3>1. b.states \in StateMaps
        BY DEF Batch
      <3>2. StatesAfter(b.states, <<>>) = b.states
        BY <3>1, StatesAfterNone
      <3> QED
        BY <1>2, <2>1, <3>2 DEF NextStates
    <2>4. Shows(F, past[b.id].messages, Stale, Rendered(b.messages))
      <3>1. PICK D : D = {}
        OBVIOUS
      <3>2. D \subseteq Stale /\ Shows(F, past[b.id].messages, D, b.messages)
        BY <2>1, <3>1
      <3> QED
        BY <3>2, RenderedShows
    <2> QED
      BY <1>1, <2>1, <2>2, <2>3, <2>4
  <1>3. CASE ~b.reset
    <2>1. lastId[v] \in DOMAIN past /\ Carries(F, past[lastId[v]], b.events, past[b.id])
      BY <1>3 DEF BatchLeads
    <2>2. lastId[v] # None
      BY <1>1, <2>1, ViewAssumption DEF PastHeld
    <2>3. /\ Shows(F, past[lastId[v]].messages, Stale, view[v])
          /\ viewStates[v] = StatesFor(F, past[lastId[v]].states)
      BY <2>2 DEF PageFits
    <2>4. PICK id, l : id = lastId[v] /\ l = view[v]
      OBVIOUS
    <2>5. Shows(F, past[b.id].messages, Stale, ListAfter(l, b.events))
      <3>1. PICK D : D = Stale
        OBVIOUS
      <3>2. Shows(F, past[id].messages, D, l) /\ Carries(F, past[id], b.events, past[b.id])
        BY <2>1, <2>3, <2>4, <3>1
      <3>3. Shows(F, past[b.id].messages, D, ListAfter(l, b.events))
        BY <3>2 DEF Carries
      <3> QED
        BY <3>1, <3>3
    <2>6. StatesAfter(viewStates[v], b.events) = StatesFor(F, past[b.id].states)
      BY <2>1, <2>3 DEF Carries
    <2>7. NextList(v, b) = ListAfter(l, b.events)
      BY <1>3, <2>4 DEF NextList
    <2>8. NextStates(v, b) = StatesAfter(viewStates[v], b.events)
      BY <1>3 DEF NextStates
    <2>9. Shows(F, past[b.id].messages, Stale, Rendered(ListAfter(l, b.events)))
      <3>1. PICK D, list : D = Stale /\ list = ListAfter(l, b.events)
        OBVIOUS
      <3>2. D \subseteq Stale /\ Shows(F, past[b.id].messages, D, list)
        BY <2>5, <3>1
      <3>3. Shows(F, past[b.id].messages, Stale, Rendered(list))
        BY <3>2, RenderedShows
      <3> QED
        BY <3>1, <3>3
    <2> QED
      BY <1>1, <2>6, <2>7, <2>8, <2>9
  <1> QED
    BY <1>2, <1>3 DEF Batch

\* Every viewer keeps its platforms.
PlatformsStay == \A u \in Viewers : PlatformsFor(u)' = PlatformsFor(u)

\* A past that goes on with the store, and with every viewer that stands still.
Moved(past, more) ==
    /\ Extends(past, more)
    /\ PastFits(more)' /\ StoreHolds'
    /\ Stale \subseteq Stale'
    /\ \A u \in Viewers : PlatformsFor(u)' = PlatformsFor(u)
    /\ \A u \in Viewers : SameViewer(u) => ViewerFits(more, u)'

\* Time does not go back.
LEMMA TimeGoesOn ==
    ASSUME StoreHolds, StoreHolds', StoreMoves
    PROVE  now \in Nat /\ now' \in Nat /\ now <= now'
  <1>1. now \in Nat /\ now' \in Nat
    BY DEF StoreHolds, TypeOK, CountersOK
  <1>2. \A e : Ingest(e) => now' = now
    BY DEF Ingest, IngestMessage, IngestState, IngestDeletion, Delete, CompactBarriers
  <1>3. (\E S \in SourceSets : UpdateSources(S)) \/ Expire \/ Restart \/ UNCHANGED vars => now' = now
    BY DEF UpdateSources, Expire, Prune, Restart, vars
  <1>4. Tick => now' = now + 1
    BY DEF Tick
  <1> QED
    BY <1>1, <1>2, <1>3, <1>4 DEF StoreMoves

LEMMA PastMoves ==
    ASSUME NoReplacement, PlatformsStay, NEW past, Follow(past), StoreMoves
    PROVE  \E more : Moved(past, more)
  <1>1. StoreHolds /\ PastFits(past) /\ \A u \in Viewers : ViewerFits(past, u)
    BY DEF Follow
  <1>2. StoreHolds'
    BY <1>1, StoreHoldsStep
  <1>3. PICK more : Extends(past, more) /\ PastFits(more)'
    BY <1>1, PastStep
  <1>4. Stale \subseteq Stale'
    BY <1>1, <1>2, TimeGoesOn, StaleGrows
  <1>5. \A u \in Viewers : PlatformsFor(u)' = PlatformsFor(u)
    BY DEF PlatformsStay
  <1>6. ASSUME NEW u \in Viewers, SameViewer(u) PROVE ViewerFits(more, u)'
    BY <1>1, <1>3, <1>4, <1>5, <1>6, ViewerStays
  <1>7. Moved(past, more)
    BY <1>2, <1>3, <1>4, <1>5, <1>6 DEF Moved
  <1> QED
    BY <1>7

LEMMA FollowsOn ==
    ASSUME NEW past, NEW more, Moved(past, more), ViewShape', NEW v,
           \A u \in Viewers \ {v} : SameViewer(u), v \in Viewers => ViewerFits(more, v)'
    PROVE  ViewersFollow'
  <1>1. \A u \in Viewers : ViewerFits(more, u)'
    BY DEF Moved
  <1>2. Follow(more)'
    BY <1>1 DEF Follow, Moved
  <1> QED
    BY <1>2 DEF ViewersFollow

LEMMA StoreStepFollows ==
    ASSUME NoReplacement, PlatformsStay, NEW past, Follow(past), StoreMoves,
           UNCHANGED <<serverVars, pageVars>>
    PROVE  ViewersFollow'
  <1>1. PICK more : Moved(past, more)
    BY PastMoves
  <1>2. \A u \in Viewers : SameViewer(u)
    BY DEF serverVars, pageVars, SameViewer
  <1>3. ViewShape'
    BY DEF Follow, ViewShape, serverVars, pageVars
  <1>4. \A u \in Viewers : ViewerFits(more, u)'
    BY <1>1, <1>2 DEF Moved
  <1> QED
    BY <1>1, <1>2, <1>3, <1>4, FollowsOn

LEMMA ConnectFollows ==
    ASSUME NoReplacement, PlatformsStay, NEW past, Follow(past), NEW v \in Viewers, Connect(v)
    PROVE  ViewersFollow'
  <1>1. PICK more : Moved(past, more)
    BY PastMoves DEF Connect, StoreMoves
  <1>2. /\ ViewShape /\ ViewerFits(past, v) /\ ~conn[v] /\ pipe[v] = <<>>
        /\ conn' = [conn EXCEPT ![v] = TRUE] /\ cursor' = [cursor EXCEPT ![v] = lastId[v]]
        /\ UNCHANGED <<pipe, lastId, view, viewStates>>
    BY DEF Follow, Connect, ViewerFits, LoopFits, pageVars
  <1>3. ViewShape' /\ conn'[v] /\ cursor'[v] = lastId[v]
    BY <1>2 DEF ViewShape
  <1>4. \A u \in Viewers \ {v} : SameViewer(u)
    BY <1>2 DEF SameViewer, ViewShape
  <1>5. PageFits(more, v)'
    BY <1>1, <1>2, PageStays DEF Moved, ViewerFits
  <1>6. LoopFits(more, v)'
    <2>1. lastId[v] = None \/ lastId[v] \in DOMAIN more
      BY <1>1, <1>2 DEF Moved, Extends, ViewerFits, PageFits
    <2>2. Len(pipe'[v]) = 0
      BY <1>2
    <2>3. Id(v, 0)' = lastId[v]
      BY <1>2 DEF Id
    <2> QED
      BY <1>3, <2>1, <2>2, <2>3 DEF LoopFits
  <1>7. ViewerFits(more, v)'
    <2>1. DOMAIN pipe'[v] = {}
      BY <1>2
    <2> QED
      BY <1>5, <1>6, <2>1 DEF ViewerFits
  <1> QED
    BY <1>1, <1>3, <1>4, <1>7, FollowsOn

LEMMA PollFollows ==
    ASSUME NoReplacement, PlatformsStay, NEW past, Follow(past), NEW v \in Viewers, Poll(v)
    PROVE  ViewersFollow'
  <1>1. PICK more : Moved(past, more)
    BY PastMoves DEF Poll, StoreMoves
  <1>2. /\ ViewShape /\ ViewerFits(past, v) /\ StoreHolds'
        /\ UNCHANGED <<conn, lastId, view, viewStates>>
        /\ cursor' = [cursor EXCEPT ![v] = Cursor']
    BY <1>1 DEF Follow, Poll, pageVars, Moved
  <1>3. Cursor' \in Nat \X Nat
    BY <1>2 DEF StoreHolds, TypeOK, CountersOK, Cursor
  <1>4. CASE cursor[v] = Cursor'
    <2>1. UNCHANGED <<cursor, pipe>>
      BY <1>2, <1>4 DEF Poll, ViewShape
    <2>2. ViewShape' /\ \A u \in Viewers : SameViewer(u)
      BY <1>2, <2>1 DEF ViewShape, SameViewer
    <2>3. \A u \in Viewers : ViewerFits(more, u)'
      BY <1>1, <2>2 DEF Moved
    <2> QED
      BY <1>1, <2>2, <2>3, FollowsOn
  <1>5. CASE cursor[v] # Cursor'
    <2>1. ViewerFits(more, v)' /\ pipe' \in [Viewers -> Seq(Sent)]
      BY <1>1, <1>2, <1>5, PollWrites DEF Moved
    <2>2. ViewShape'
      BY <1>2, <1>3, <2>1 DEF ViewShape
    <2>3. \E new : pipe' = [pipe EXCEPT ![v] = new]
      BY <1>5 DEF Poll
    <2>4. \A u \in Viewers \ {v} : SameViewer(u)
      BY <1>2, <2>3 DEF SameViewer, ViewShape
    <2> QED
      BY <1>1, <2>1, <2>2, <2>4, FollowsOn
  <1> QED
    BY <1>4, <1>5

LEMMA DeliverFollows ==
    ASSUME NoReplacement, PlatformsStay, NEW past, Follow(past), NEW v \in Viewers, Deliver(v)
    PROVE  ViewersFollow'
  <1>1. PICK more : Moved(past, more)
    BY PastMoves DEF Deliver, StoreMoves
  <1>2. PICK b, old, F : b = Head(pipe[v]).batch /\ old = pipe[v] /\ F = PlatformsFor(v)
    OBVIOUS
  <1>3. /\ ViewShape /\ ViewerFits(past, v) /\ PastFits(past) /\ old # <<>>
        /\ UNCHANGED <<vars, overlayPlatforms, conn, cursor>>
        /\ view' = [view EXCEPT ![v] = Rendered(NextList(v, b))]
        /\ viewStates' = [viewStates EXCEPT ![v] = NextStates(v, b)]
        /\ lastId' = [lastId EXCEPT ![v] = b.id]
        /\ pipe' = [pipe EXCEPT ![v] = Tail(old)]
    BY <1>2 DEF Follow, Deliver, NextList, NextStates
  <1>4. PICK m \in Nat : m + 1 = Len(old)
    <2>1. old \in Seq(Sent) /\ Len(old) \in Nat /\ Len(old) # 0
      BY <1>2, <1>3 DEF ViewShape
    <2>2. Len(old) - 1 \in Nat /\ (Len(old) - 1) + 1 = Len(old)
      BY <2>1
    <2> QED
      BY <2>2
  <1>5. /\ old \in Seq(Sent) /\ DOMAIN old = 1 .. m + 1 /\ Head(old) = old[1] /\ old[1] \in Sent
        /\ Tail(old) \in Seq(Sent) /\ Len(Tail(old)) = m /\ DOMAIN Tail(old) = 1 .. m
        /\ \A i \in 1 .. m : Tail(old)[i] = old[i + 1]
    <2>1. old \in Seq(Sent)
      BY <1>2, <1>3 DEF ViewShape
    <2> QED
      BY <1>3, <1>4, <2>1, HeadTailProperties
  <1>6. b = pipe[v][1].batch /\ b \in Batch
    BY <1>2, <1>5 DEF Sent
  <1>7. BatchLeads(past, F, lastId[v], b)
    <2>1. BatchFits(past, v, 1)
      BY <1>2, <1>3, <1>4, <1>5 DEF ViewerFits
    <2>2. Id(v, 1 - 1) = lastId[v]
      BY DEF Id
    <2> QED
      BY <1>2, <1>6, <2>1, <2>2 DEF BatchFits
  <1>8. PICK l, sts : l = Rendered(NextList(v, b)) /\ sts = NextStates(v, b)
    OBVIOUS
  <1>9. /\ b.id \in DOMAIN past
        /\ Shows(F, past[b.id].messages, Stale, l)
        /\ sts = StatesFor(F, past[b.id].states)
    <2>1. PageFits(past, v)
      BY <1>3 DEF ViewerFits
    <2> QED
      BY <1>2, <1>3, <1>6, <1>7, <1>8, <2>1, BatchApplied
  <1>10. l \in Seq(Event) /\ sts \in StateMaps /\ b.id \in Nat \X Nat /\ b.id # None
    <2>1. HeldStates(past[b.id].states)
      BY <1>3, <1>9 DEF PastFits, PastAt, PastHeld
    <2> QED
      BY <1>6, <1>9, <2>1, StatesForMaps, ViewAssumption DEF Shows, Batch
  <1>11. /\ view'[v] = l /\ viewStates'[v] = sts /\ lastId'[v] = b.id /\ pipe'[v] = Tail(old)
         /\ ViewShape'
    BY <1>3, <1>5, <1>8, <1>10 DEF ViewShape
  <1>12. \A u \in Viewers \ {v} : SameViewer(u)
    BY <1>3 DEF SameViewer, ViewShape
  <1>13. /\ Extends(past, more) /\ Stale' = Stale /\ PlatformsFor(v)' = F
         /\ b.id \in DOMAIN more /\ more[b.id] = past[b.id]
    <2>1. Stale' = Stale
      BY <1>3 DEF Stale, Fresh, vars
    <2> QED
      BY <1>1, <1>2, <1>9, <2>1 DEF Moved, Extends
  <1>14. PageFits(more, v)'
    <2>1. PICK D : D = Stale
      OBVIOUS
    <2>2. Shows(F, more[b.id].messages, D, l) /\ sts = StatesFor(F, more[b.id].states) /\ D = Stale'
      BY <1>9, <1>13, <2>1
    <2> QED
      BY <1>10, <1>11, <1>13, <2>2 DEF PageFits
  <1>15. ASSUME NEW i \in 0 .. m PROVE Id(v, i)' = Id(v, i + 1)
    <2>1. CASE i = 0
      BY <1>6, <1>11, <2>1 DEF Id
    <2>2. CASE i # 0
      <3>1. i \in 1 .. m /\ i + 1 # 0
        BY <2>2
      <3>2. pipe'[v][i] = pipe[v][i + 1]
        BY <1>2, <1>5, <1>11, <3>1
      <3> QED
        BY <2>2, <3>1, <3>2 DEF Id
    <2> QED
      BY <2>1, <2>2
  <1>16. LoopFits(more, v)'
    <2>1. conn[v] => cursor[v] = Id(v, m + 1)
      BY <1>2, <1>3, <1>4 DEF ViewerFits, LoopFits
    <2>2. conn[v]
      BY <1>2, <1>3 DEF ViewerFits, LoopFits
    <2>3. cursor'[v] = cursor[v] /\ conn'[v] = conn[v]
      BY <1>3
    <2>4. Id(v, m)' = Id(v, m + 1)
      BY <1>15
    <2>5. cursor[v] = None \/ cursor[v] \in DOMAIN more
      BY <1>3, <1>13 DEF ViewerFits, LoopFits, Extends
    <2> QED
      BY <1>5, <1>11, <2>1, <2>2, <2>3, <2>4, <2>5 DEF LoopFits
  <1>17. ASSUME NEW i \in 1 .. m PROVE BatchFits(more, v, i)'
    <2>1. PICK k \in 0 .. m : k = i - 1 /\ k + 1 = i
      <3>1. i - 1 \in 0 .. m /\ (i - 1) + 1 = i
        OBVIOUS
      <3> QED
        BY <3>1
    <2>2. Id(v, k)' = Id(v, k + 1)
      BY <1>15
    <2>3. Id(v, i - 1)' = Id(v, (i + 1) - 1)
      <3>1. (i + 1) - 1 = i
        OBVIOUS
      <3> QED
        BY <2>1, <2>2, <3>1
    <2>4. pipe'[v][i] = pipe[v][i + 1]
      BY <1>2, <1>5, <1>11
    <2>5. BatchFits(past, v, i + 1)
      <3>1. i + 1 \in DOMAIN pipe[v]
        BY <1>2, <1>5
      <3> QED
        BY <1>3, <3>1 DEF ViewerFits
    <2>6. PlatformsFor(v)' = PlatformsFor(v)
      BY <1>2, <1>13
    <2> QED
      BY <1>13, <2>3, <2>4, <2>5, <2>6, BatchStays
  <1>18. ViewerFits(more, v)'
    BY <1>5, <1>11, <1>14, <1>16, <1>17 DEF ViewerFits
  <1> QED
    BY <1>1, <1>11, <1>12, <1>18, FollowsOn

LEMMA PageClockFollows ==
    ASSUME NoReplacement, PlatformsStay, NEW past, Follow(past), NEW v \in Viewers, PageClock(v)
    PROVE  ViewersFollow'
  <1>1. PICK more : Moved(past, more)
    BY PastMoves DEF PageClock, StoreMoves
  <1>2. PICK l, F : l = Rendered(view[v]) /\ F = PlatformsFor(v)
    OBVIOUS
  <1>3. /\ ViewShape /\ ViewerFits(past, v)
        /\ UNCHANGED <<vars, conn, cursor, pipe, lastId, viewStates>>
        /\ view' = [view EXCEPT ![v] = l]
    BY <1>2 DEF Follow, PageClock, serverVars
  <1>4. lastId[v] # None /\ PageFits(past, v)
    <2>1. view[v] # <<>>
      <3>1. PICK nil : nil = <<>> /\ Nothing(nil)
        BY NothingIs
      <3>2. Rendered(nil) = nil
        BY <3>1 DEF Rendered, Nothing
      <3> QED
        BY <3>1, <3>2 DEF PageClock
    <2> QED
      BY <1>3, <2>1 DEF ViewerFits, PageFits
  <1>5. PICK id, D : id = lastId[v] /\ D = Stale
    OBVIOUS
  <1>6. /\ id \in DOMAIN past /\ Shows(F, past[id].messages, D, view[v])
        /\ viewStates[v] = StatesFor(F, past[id].states)
    BY <1>2, <1>4, <1>5 DEF PageFits
  <1>7. Shows(F, past[id].messages, D, l)
    <2>1. D \subseteq Stale /\ Shows(F, past[id].messages, D, view[v])
      BY <1>5, <1>6
    <2> QED
      BY <1>2, <1>5, <2>1, RenderedShows
  <1>8. l \in Seq(Event)
    BY <1>7 DEF Shows
  <1>9. ViewShape' /\ view'[v] = l
    BY <1>3, <1>8 DEF ViewShape
  <1>10. \A u \in Viewers \ {v} : SameViewer(u)
    BY <1>3 DEF SameViewer, ViewShape
  <1>11. /\ Extends(past, more) /\ D = Stale' /\ PlatformsFor(v)' = F
         /\ id \in DOMAIN more /\ more[id] = past[id]
    <2>1. Stale' = Stale
      BY <1>3 DEF Stale, Fresh, vars
    <2> QED
      BY <1>1, <1>2, <1>5, <1>6, <2>1 DEF Moved, Extends
  <1>12. PageFits(more, v)'
    BY <1>3, <1>4, <1>5, <1>6, <1>7, <1>9, <1>11 DEF PageFits
  <1>13. LoopFits(more, v)'
    BY <1>3, <1>11 DEF ViewerFits, LoopFits, Extends, Id
  <1>14. ASSUME NEW i \in DOMAIN pipe[v] PROVE BatchFits(more, v, i)'
    <2>1. Id(v, i - 1)' = Id(v, i - 1) /\ pipe'[v][i] = pipe[v][i] /\ PlatformsFor(v)' = PlatformsFor(v)
      BY <1>2, <1>3, <1>11 DEF Id
    <2>2. BatchFits(past, v, i)
      BY <1>3 DEF ViewerFits
    <2> QED
      BY <1>11, <2>1, <2>2, BatchStays
  <1>15. ViewerFits(more, v)'
    BY <1>3, <1>12, <1>13, <1>14 DEF ViewerFits
  <1> QED
    BY <1>1, <1>9, <1>10, <1>15, FollowsOn

LEMMA DropFollows ==
    ASSUME NoReplacement, PlatformsStay, NEW past, Follow(past), NEW v \in Viewers, Drop(v)
    PROVE  ViewersFollow'
  <1>1. PICK more : Moved(past, more)
    BY PastMoves DEF Drop, StoreMoves
  <1>2. /\ ViewShape /\ ViewerFits(past, v)
        /\ conn' = [conn EXCEPT ![v] = FALSE] /\ pipe' = [pipe EXCEPT ![v] = <<>>]
        /\ UNCHANGED <<cursor, lastId, view, viewStates>>
    BY DEF Follow, Drop, pageVars
  <1>3. ViewShape' /\ ~conn'[v] /\ pipe'[v] = <<>>
    BY <1>2 DEF ViewShape
  <1>4. \A u \in Viewers \ {v} : SameViewer(u)
    BY <1>2 DEF SameViewer, ViewShape
  <1>5. PageFits(more, v)'
    BY <1>1, <1>2, PageStays DEF Moved, ViewerFits
  <1>6. LoopFits(more, v)'
    BY <1>1, <1>2, <1>3 DEF Moved, Extends, ViewerFits, LoopFits
  <1>7. ViewerFits(more, v)'
    <2>1. DOMAIN pipe'[v] = {}
      BY <1>3
    <2> QED
      BY <1>5, <1>6, <2>1 DEF ViewerFits
  <1> QED
    BY <1>1, <1>3, <1>4, <1>7, FollowsOn

LEMMA ReloadPageFollows ==
    ASSUME NoReplacement, PlatformsStay, NEW past, Follow(past), NEW v \in Viewers, ReloadPage(v)
    PROVE  ViewersFollow'
  <1>1. PICK more : Moved(past, more)
    BY PastMoves DEF ReloadPage, StoreMoves
  <1>2. /\ ViewShape /\ ViewerFits(past, v)
        /\ conn' = [conn EXCEPT ![v] = FALSE] /\ pipe' = [pipe EXCEPT ![v] = <<>>]
        /\ lastId' = [lastId EXCEPT ![v] = None] /\ view' = [view EXCEPT ![v] = <<>>]
        /\ viewStates' = [viewStates EXCEPT ![v] = <<>>]
        /\ UNCHANGED cursor
    BY DEF Follow, ReloadPage
  <1>3. PICK nil : nil = <<>> /\ Nothing(nil)
    BY NothingIs
  <1>4. /\ view' = [view EXCEPT ![v] = nil] /\ viewStates' = [viewStates EXCEPT ![v] = nil]
        /\ nil \in Seq(Event) /\ nil \in StateMaps
    BY <1>2, <1>3 DEF Nothing
  <1>5. ViewShape' /\ ~conn'[v] /\ pipe'[v] = <<>> /\ lastId'[v] = None /\ view'[v] = nil
        /\ viewStates'[v] = nil
    BY <1>2, <1>4 DEF ViewShape
  <1>6. \A u \in Viewers \ {v} : SameViewer(u)
    BY <1>2 DEF SameViewer, ViewShape
  <1>7. PageFits(more, v)'
    BY <1>3, <1>5 DEF PageFits
  <1>8. LoopFits(more, v)'
    BY <1>1, <1>2, <1>5 DEF Moved, Extends, ViewerFits, LoopFits
  <1>9. ViewerFits(more, v)'
    <2>1. DOMAIN pipe'[v] = {}
      BY <1>5
    <2> QED
      BY <1>7, <1>8, <2>1 DEF ViewerFits
  <1> QED
    BY <1>1, <1>5, <1>6, <1>9, FollowsOn

-----------------------------------------------------------------------------
(* The invariant, and what it says of a page                                *)

Platforms(S) == {PlatformOf[s] : s \in S}

\* A profile save does not change the platforms that a viewer sees.
SavesKeepPlatforms ==
    /\ \A O, P \in OverlayChoices : O = P
    /\ \A S \in SourceSets : Platforms(S) = Platforms(StartSources)

ProfileStands ==
    /\ overlayPlatforms \in OverlayChoices
    /\ Platforms(configured) = Platforms(StartSources)

LEMMA ProfileStandsStep ==
    ASSUME SavesKeepPlatforms, ProfileStands, [ViewNext]_<<vars, viewVars>>
    PROVE  ProfileStands' /\ PlatformsStay
  <1>1. CASE UNCHANGED <<configured, overlayPlatforms>>
    BY <1>1 DEF ProfileStands, PlatformsStay, PlatformsFor
  <1>2. CASE StoreStep
    <2>1. \A e : Ingest(e) => configured' = configured
      BY DEF Ingest, IngestMessage, IngestState, IngestDeletion, Delete, CompactBarriers, sourceVars
    <2>2. Expire \/ Restart \/ Tick => configured' = configured
      BY DEF Expire, Prune, Restart, Tick, sourceVars
    <2> QED
      BY <1>1, <1>2, <2>1, <2>2 DEF StoreStep, viewVars
  <1>3. ASSUME NEW S \in SourceSets, NEW O \in OverlayChoices, SaveProfile(S, O)
        PROVE  ProfileStands' /\ PlatformsStay
    <2>1. configured' = S /\ overlayPlatforms' = O
      BY <1>3 DEF SaveProfile, UpdateSources
    <2>2. O = overlayPlatforms /\ Platforms(S) = Platforms(configured)
      BY DEF SavesKeepPlatforms, ProfileStands
    <2> QED
      BY <2>1, <2>2 DEF ProfileStands, PlatformsStay, PlatformsFor, Platforms
  <1>4. ASSUME NEW v \in Viewers,
               Connect(v) \/ Poll(v) \/ Deliver(v) \/ PageClock(v) \/ Drop(v) \/ ReloadPage(v)
        PROVE  UNCHANGED <<configured, overlayPlatforms>>
    BY <1>4 DEF Connect, Poll, Expire, Prune, Deliver, PageClock, Drop, ReloadPage, sourceVars, vars
  <1> QED
    BY <1>1, <1>2, <1>3, <1>4 DEF ViewNext, vars, viewVars

LEMMA ViewInitFollows == ViewInit => ViewersFollow
  <1> SUFFICES ASSUME ViewInit PROVE ViewersFollow
    OBVIOUS
  <1>1. Init
    BY DEF ViewInit
  <1>2. PICK nil : nil = <<>> /\ Nothing(nil)
    BY NothingIs
  <1>3. StoreHolds
    <2>1. TypeOK /\ RingContiguous /\ PositionsOrderMessages
      BY <1>1, InitType DEF Init, RingContiguous, PositionsOrderMessages
    <2>2. messages = nil /\ states = nil
      BY <1>1, <1>2 DEF Init
    <2>3. Bounded({}, MaxMessages)
      BY FS_EmptySet, LimitsAssumption DEF Bounded
    <2> QED
      BY <1>2, <2>1, <2>2, <2>3 DEF StoreHolds, Nothing
  <1>4. PICK past : past = [c \in {<<0, 0>>} |-> Content]
    OBVIOUS
  <1>5. PastFits(past)
    BY <1>1, <1>3, <1>4, StoreHoldsContent DEF PastFits, PastAt, PastHeld, Chained, Content, EndsAt, Init
  <1>6. ViewShape
    BY <1>2 DEF ViewInit, ViewShape, Nothing
  <1>7. \A v \in Viewers : ViewerFits(past, v)
    BY DEF ViewInit, ViewerFits, PageFits, LoopFits
  <1>8. Follow(past)
    BY <1>3, <1>5, <1>6, <1>7 DEF Follow
  <1> QED
    BY <1>8 DEF ViewersFollow

LEMMA ViewersFollowStep ==
    ASSUME PlatformsStay, NoReplacement, ViewersFollow, [ViewNext]_<<vars, viewVars>>
    PROVE  ViewersFollow'
  <1>1. PICK past : Follow(past)
    BY DEF ViewersFollow
  <1>2. CASE StoreStep
    <2>1. StoreMoves /\ UNCHANGED <<serverVars, pageVars>>
      BY <1>2 DEF StoreStep, StoreMoves, viewVars, serverVars, pageVars
    <2> QED
      BY <1>1, <2>1, StoreStepFollows
  <1>3. CASE UNCHANGED <<vars, viewVars>>
    <2>1. StoreMoves /\ UNCHANGED <<serverVars, pageVars>>
      BY <1>3 DEF StoreMoves, viewVars, serverVars, pageVars
    <2> QED
      BY <1>1, <2>1, StoreStepFollows
  <1>4. ASSUME NEW v \in Viewers, Connect(v) PROVE ViewersFollow'
    BY <1>1, <1>4, ConnectFollows
  <1>5. ASSUME NEW v \in Viewers, Poll(v) PROVE ViewersFollow'
    BY <1>1, <1>5, PollFollows
  <1>6. ASSUME NEW v \in Viewers, Deliver(v) PROVE ViewersFollow'
    BY <1>1, <1>6, DeliverFollows
  <1>7. ASSUME NEW v \in Viewers, PageClock(v) PROVE ViewersFollow'
    BY <1>1, <1>7, PageClockFollows
  <1>8. ASSUME NEW v \in Viewers, Drop(v) PROVE ViewersFollow'
    BY <1>1, <1>8, DropFollows
  <1>9. ASSUME NEW v \in Viewers, ReloadPage(v) PROVE ViewersFollow'
    BY <1>1, <1>9, ReloadPageFollows
  <1>10. ASSUME NEW S \in SourceSets, NEW O \in OverlayChoices, SaveProfile(S, O)
         PROVE  ViewersFollow'
    <2>1. StoreMoves /\ UNCHANGED <<serverVars, pageVars>>
      BY <1>10 DEF SaveProfile, StoreMoves
    <2> QED
      BY <1>1, <2>1, StoreStepFollows
  <1> QED
    BY <1>2, <1>3, <1>4, <1>5, <1>6, <1>7, <1>8, <1>9, <1>10 DEF ViewNext

\* What shows some content shows what its viewer may see of it.
LEMMA ScreenShows ==
    ASSUME NEW F, NEW c, HeldMessages(c.messages), HeldStates(c.states),
           NEW list, Shows(F, c.messages, Stale, list), NEW held, held = StatesFor(F, c.states)
    PROVE  Current(Range(list) \cup {held[s] : s \in DOMAIN held}) = Current(Visible(F, c))
  <1>1. PICK ms, sts, shown, all :
           /\ ms = c.messages /\ sts = c.states
           /\ shown = Range(list) \cup {held[s] : s \in DOMAIN held}
           /\ all = Visible(F, c)
    OBVIOUS
  <1>2. \A e : e \in shown <=> \/ \E i \in DOMAIN list : e = list[i]
                               \/ \E s \in DOMAIN sts : PlatformOf[s] \in F /\ e = sts[s]
    BY <1>1 DEF Range, StatesFor, Restrict
  <1>3. \A e : e \in all <=> /\ PlatformOf[e.source] \in F
                             /\ \/ \E k \in DOMAIN ms : e = ms[k].event
                                \/ \E s \in DOMAIN sts : e = sts[s]
    BY <1>1 DEF Visible
  <1>4. \A s \in DOMAIN sts : sts[s].source = s
    BY <1>1 DEF HeldStates
  <1>5. \A i \in DOMAIN list : /\ PlatformOf[list[i].source] \in F
                               /\ \E k \in DOMAIN ms : list[i] = ms[k].event
    BY <1>1 DEF Shows
  <1>6. ASSUME NEW k \in DOMAIN ms, PlatformOf[ms[k].event.source] \in F,
               ms[k].event.type = "message" => Fresh(ms[k].event)
        PROVE  \E i \in DOMAIN list : ms[k].event = list[i]
    <2>1. ms[k].event \notin Stale
      BY <1>1, <1>6 DEF HeldMessages, Stale
    <2> QED
      BY <1>1, <1>6, <2>1 DEF Shows
  <1>7. \A e : (e.type = "message" => Fresh(e)) => (e \in shown <=> e \in all)
    BY <1>2, <1>3, <1>4, <1>5, <1>6
  <1>8. Current(shown) = Current(all)
    BY <1>7 DEF Current
  <1> QED
    BY <1>1, <1>8

LEMMA OnScreenIs ==
    ASSUME NEW v \in Viewers, NEW F, NEW c, HeldMessages(c.messages), HeldStates(c.states),
           Shows(F, c.messages, Stale, view[v]), viewStates[v] = StatesFor(F, c.states)
    PROVE  OnScreen(v) = Current(Visible(F, c))
  <1>1. PICK list, held : list = view[v] /\ held = viewStates[v]
    OBVIOUS
  <1>2. Current(Range(list) \cup {held[s] : s \in DOMAIN held}) = Current(Visible(F, c))
    BY <1>1, ScreenShows
  <1> QED
    BY <1>1, <1>2 DEF OnScreen

LEMMA PageAtCursor ==
    ASSUME ViewersFollow, NEW v \in Viewers, lastId[v] = Cursor
    PROVE  /\ HeldMessages(messages) /\ HeldStates(states)
           /\ Shows(PlatformsFor(v), messages, Stale, view[v])
           /\ viewStates[v] = StatesFor(PlatformsFor(v), states)
  <1>1. PICK past : Follow(past)
    BY DEF ViewersFollow
  <1>2. StoreHolds /\ PastFits(past) /\ PageFits(past, v)
    BY <1>1 DEF Follow, ViewerFits
  <1>3. past[Cursor] = Content /\ Cursor \in Nat \X Nat
    BY <1>2 DEF PastFits, PastAt, Cursor, StoreHolds, TypeOK, CountersOK
  <1>4. lastId[v] # None
    BY <1>3, ViewAssumption
  <1>5. past[lastId[v]].messages = messages /\ past[lastId[v]].states = states
    BY <1>3 DEF Content
  <1> QED
    BY <1>2, <1>4, <1>5, StoreHoldsContent DEF PageFits

LEMMA FollowersSeeTheStore ==
    ASSUME ViewersFollow
    PROVE  ReplayEqualsSnapshot
  <1> SUFFICES ASSUME NEW v \in Viewers, lastId[v] = Cursor
               PROVE  OnScreen(v) = Current(SeenBy(v))
    BY DEF ReplayEqualsSnapshot
  <1>1. PICK F, c : F = PlatformsFor(v) /\ c = Content
    OBVIOUS
  <1>2. c.messages = messages /\ c.states = states
    BY <1>1 DEF Content
  <1>3. /\ HeldMessages(c.messages) /\ HeldStates(c.states)
        /\ Shows(F, c.messages, Stale, view[v]) /\ viewStates[v] = StatesFor(F, c.states)
    BY <1>1, <1>2, PageAtCursor
  <1>4. OnScreen(v) = Current(Visible(F, c))
    BY <1>3, OnScreenIs
  <1>5. Visible(F, c) = SeenBy(v)
    BY <1>1, <1>2 DEF Visible, SeenBy, Passes
  <1> QED
    BY <1>4, <1>5

LEMMA FollowersKeepTheOrder ==
    ASSUME ViewersFollow
    PROVE  ReplayKeepsOrder
  <1> SUFFICES ASSUME NEW v \in Viewers, lastId[v] = Cursor,
                      NEW list, list = Listed(messages)
               PROVE  Rendered(view[v]) =
                          Picked(list, {i \in DOMAIN list : Fresh(list[i]) /\ Passes(v, list[i])})
    BY DEF ReplayKeepsOrder
  <1>1. PICK F, D, ms, l, P, G, none :
           /\ F = PlatformsFor(v) /\ D = Stale /\ ms = messages /\ l = Rendered(view[v])
           /\ P = {i \in DOMAIN list : Fresh(list[i]) /\ Passes(v, list[i])}
           /\ G = {PlatformOf[s] : s \in Sources} /\ none = {}
    OBVIOUS
  <1>2. HeldMessages(ms) /\ Shows(F, ms, D, view[v])
    BY <1>1, PageAtCursor
  <1>3. Shows(F, ms, D, l) /\ NoneOf(D, l)
    <2>1. D \subseteq Stale
      BY <1>1
    <2> QED
      BY <1>1, <1>2, <2>1, RenderedShows
  <1>4. Shows(G, ms, none, list)
    <2>1. \A s \in Sources : PlatformOf[s] \in G
      BY <1>1
    <2> QED
      BY <1>1, <1>2, <2>1, ListedShows
  <1>5. P = {i \in DOMAIN list : PlatformOf[list[i].source] \in F /\ list[i] \notin D}
    <2>1. \A i \in DOMAIN list : list[i] \in Event
      BY <1>4 DEF Shows
    <2> QED
      BY <1>1, <2>1 DEF Stale, Passes
  <1>6. \A k \in DOMAIN ms : PlatformOf[ms[k].event.source] \in F =>
                                 PlatformOf[ms[k].event.source] \in G
    BY <1>1, <1>2 DEF HeldMessages, Stored, Event
  <1>7. Shows(F, ms, none \cup D, Picked(list, P))
    BY <1>4, <1>5, <1>6, PickedShows
  <1>8. NoneOf(D, Picked(list, P))
    BY <1>4, <1>5, <1>6, PickedShows
  <1>9. none \cup D = D
    BY <1>1
  <1>10. l = Picked(list, P)
    <2>1. PICK m : m = Picked(list, P)
      OBVIOUS
    <2>2. Shows(F, ms, D, m) /\ (\A i \in DOMAIN m : m[i] \notin D) /\ (\A i \in DOMAIN l : l[i] \notin D)
      BY <1>3, <1>7, <1>8, <1>9, <2>1 DEF NoneOf
    <2>3. l = m
      BY <1>2, <1>3, <2>2, ShownOnce
    <2> QED
      BY <2>1, <2>3
  <1> QED
    BY <1>1, <1>10

LEMMA ProfileStandsAlways ==
    ASSUME SavesKeepPlatforms
    PROVE  ViewSpec => []ProfileStands
  <1>1. ViewInit => ProfileStands
    BY DEF ViewInit, Init, ProfileStands
  <1>2. ProfileStands /\ [ViewNext]_<<vars, viewVars>> => ProfileStands'
    BY ProfileStandsStep
  <1> QED
    BY <1>1, <1>2, PTL DEF ViewSpec

\* While no save changes a viewer's platforms and no adapter replaces a
\* message, some past of the store explains every page, every batch on the wire
\* and every loop: what each shows, carries or has read is what the store held
\* at one cursor.
THEOREM ViewersFollowStore ==
    ASSUME SavesKeepPlatforms, NoReplacement
    PROVE  ViewSpec => []ViewersFollow
  <1>1. ProfileStands /\ ViewersFollow /\ [ViewNext]_<<vars, viewVars>> => ViewersFollow'
    BY ProfileStandsStep, ViewersFollowStep
  <1> QED
    BY <1>1, ViewInitFollows, ProfileStandsAlways, PTL DEF ViewSpec

\* A page at the store's cursor shows what a snapshot would show it, whatever
\* batches, reconnections, crashes and reloads led it there.
THEOREM ViewReplayEqualsSnapshot ==
    ASSUME SavesKeepPlatforms, NoReplacement
    PROVE  ViewSpec => []ReplayEqualsSnapshot
  BY ViewersFollowStore, FollowersSeeTheStore, PTL

\* And it shows the messages in the order of the store's list.
THEOREM ViewReplayKeepsOrder ==
    ASSUME SavesKeepPlatforms, NoReplacement
    PROVE  ViewSpec => []ReplayKeepsOrder
  BY ViewersFollowStore, FollowersKeepTheOrder, PTL

-----------------------------------------------------------------------------
(* The promise of Feed                                                      *)

FeedContent == [v \in Viewers |-> Current(SeenBy(v))]
FeedSent == [v \in Viewers |-> [i \in DOMAIN pipe[v] |-> Current(pipe[v][i].upto)]]
FeedShown == [v \in Viewers |-> OnScreen(v)]

FeedStands == UNCHANGED <<FeedContent, FeedSent, FeedShown>>

\* The contents on the wire, without what is old.
CurrentUpto(s) == [i \in DOMAIN s |-> Current(s[i].upto)]

LEMMA UptoOfTail ==
    ASSUME NEW s \in Seq(Sent), s # <<>>
    PROVE  /\ CurrentUpto(s) # <<>>
           /\ Head(CurrentUpto(s)) = Current(Head(s).upto)
           /\ Tail(CurrentUpto(s)) = CurrentUpto(Tail(s))
  <1>1. PICK m \in Nat : m + 1 = Len(s)
    <2>1. Len(s) \in Nat /\ Len(s) # 0
      OBVIOUS
    <2>2. Len(s) - 1 \in Nat /\ (Len(s) - 1) + 1 = Len(s)
      BY <2>1
    <2> QED
      BY <2>2
  <1>2. /\ DOMAIN s = 1 .. m + 1 /\ Head(s) = s[1] /\ Tail(s) \in Seq(Sent)
        /\ DOMAIN Tail(s) = 1 .. m /\ \A i \in 1 .. m : Tail(s)[i] = s[i + 1]
    BY <1>1, HeadTailProperties
  <1>3. PICK q : q = CurrentUpto(s)
    OBVIOUS
  <1>4. q = [i \in 1 .. m + 1 |-> Current(s[i].upto)]
    BY <1>2, <1>3 DEF CurrentUpto
  <1>5. \A i \in 1 .. m + 1 : Current(s[i].upto) \in SUBSET Event
    <2>1. \A i \in 1 .. m + 1 : s[i] \in Sent
      BY <1>2
    <2> QED
      BY <2>1 DEF Current, Sent
  <1>6. q \in Seq(SUBSET Event) /\ Len(q) = m + 1 /\ q # <<>>
    BY <1>1, <1>4, <1>5
  <1>7. /\ Head(q) = q[1] /\ DOMAIN Tail(q) = 1 .. m /\ Tail(q) \in Seq(SUBSET Event)
        /\ \A i \in 1 .. m : Tail(q)[i] = q[i + 1]
    BY <1>1, <1>6, HeadTailProperties
  <1>8. Tail(q) = [i \in 1 .. m |-> Current(Tail(s)[i].upto)]
    <2>1. \A i \in 1 .. m : i + 1 \in 1 .. m + 1
      BY <1>1
    <2>2. \A i \in 1 .. m : Tail(q)[i] = Current(Tail(s)[i].upto)
      BY <1>2, <1>4, <1>7, <2>1
    <2>3. PICK rest : rest = Tail(q) /\ rest \in Seq(SUBSET Event) /\ DOMAIN rest = 1 .. m
      BY <1>7
    <2>4. rest \in Seq(SUBSET Event) /\ DOMAIN rest = 1 .. m
      BY <2>3
    <2>5. rest = [i \in 1 .. m |-> rest[i]]
      BY <2>4
    <2> QED
      BY <2>2, <2>3, <2>5
  <1>9. Head(q) = Current(Head(s).upto)
    BY <1>1, <1>2, <1>4, <1>7
  <1> QED
    BY <1>2, <1>3, <1>6, <1>8, <1>9 DEF CurrentUpto

LEMMA UptoOfAppend ==
    ASSUME NEW s \in Seq(Sent), NEW x, x.upto \in SUBSET Event
    PROVE  CurrentUpto(Append(s, x)) = Append(CurrentUpto(s), Current(x.upto))
  <1>1. PICK m, q, y, t : m = Len(s) /\ q = CurrentUpto(s) /\ y = Current(x.upto) /\ t = Append(s, x)
    OBVIOUS
  <1>2. /\ m \in Nat /\ DOMAIN s = 1 .. m /\ DOMAIN t = 1 .. m + 1
        /\ t[m + 1] = x /\ \A i \in 1 .. m : t[i] = s[i]
    <2>1. PICK T : T = Sent \cup {x}
      OBVIOUS
    <2>2. s \in Seq(T) /\ x \in T
      BY <2>1
    <2> QED
      BY <1>1, <2>2, AppendProperties
  <1>3. \A i \in 1 .. m : Current(s[i].upto) \in SUBSET Event
    <2>1. \A i \in 1 .. m : s[i] \in Sent
      BY <1>1, <1>2
    <2> QED
      BY <2>1 DEF Current, Sent
  <1>4. q = [i \in 1 .. m |-> Current(s[i].upto)]
    BY <1>1, <1>2 DEF CurrentUpto
  <1>5. q \in Seq(SUBSET Event) /\ Len(q) = m /\ y \in SUBSET Event
    BY <1>1, <1>2, <1>3, <1>4 DEF Current, Sent
  <1>6. PICK a : a = Append(q, y)
    OBVIOUS
  <1>7. /\ a \in Seq(SUBSET Event) /\ DOMAIN a = 1 .. m + 1
        /\ a[m + 1] = y /\ \A i \in 1 .. m : a[i] = q[i]
    BY <1>5, <1>6, AppendProperties
  <1>8. ASSUME NEW i \in 1 .. m + 1 PROVE a[i] = Current(t[i].upto)
    <2>1. CASE i = m + 1
      BY <1>1, <1>2, <1>7, <2>1
    <2>2. CASE i # m + 1
      <3>1. i \in 1 .. m
        BY <1>2, <2>2
      <3> QED
        BY <1>2, <1>4, <1>7, <3>1
    <2> QED
      BY <2>1, <2>2
  <1>9. a = [i \in 1 .. m + 1 |-> Current(t[i].upto)]
    <2>1. a = [i \in 1 .. m + 1 |-> a[i]]
      BY <1>7
    <2> QED
      BY <1>8, <2>1
  <1> QED
    BY <1>1, <1>2, <1>6, <1>9 DEF CurrentUpto

LEMMA FeedSentIs == \A v \in Viewers : FeedSent[v] = CurrentUpto(pipe[v])
  BY DEF FeedSent, CurrentUpto

\* What the viewers see are events.
LEMMA SeenAreEvents ==
    StoreHolds => \A v \in Viewers : SeenBy(v) \in SUBSET Event
  BY DEF SeenBy, StoreHolds, TypeOK, MessagesOK, StatesOK, Stored

LEMMA SeenAreEventsNext ==
    StoreHolds' => \A v \in Viewers : SeenBy(v)' \in SUBSET Event
  BY DEF SeenBy, StoreHolds, TypeOK, MessagesOK, StatesOK, Stored

LEMMA ShownAreEvents ==
    ASSUME ViewShape, NEW v \in Viewers
    PROVE  Range(view[v]) \cup {viewStates[v][s] : s \in DOMAIN viewStates[v]} \in SUBSET Event
  <1>1. view[v] \in Seq(Event) /\ viewStates[v] \in StateMaps
    BY DEF ViewShape
  <1>2. \A i \in DOMAIN view[v] : view[v][i] \in Event
    BY <1>1
  <1>3. \A s \in DOMAIN viewStates[v] : viewStates[v][s] \in Event
    BY <1>1 DEF StateMaps
  <1> QED
    BY <1>2, <1>3 DEF Range

\* Content that loses what expired shows the same to its viewers.
LEMMA ExpiryUnseen ==
    ASSUME StoreHolds, Expire, UNCHANGED overlayPlatforms, NEW v \in Viewers
    PROVE  Current(SeenBy(v))' = Current(SeenBy(v))
  <1>1. PICK F, ms, sts, kept :
           /\ F = PlatformsFor(v) /\ ms = messages /\ sts = states
           /\ kept = {k \in DOMAIN messages : ~Expired(messages[k].expires)}
    OBVIOUS
  <1>2. /\ PlatformsFor(v)' = F /\ states' = sts /\ now' = now
        /\ DOMAIN messages' = kept /\ kept \subseteq DOMAIN ms
        /\ \A k \in kept : messages'[k] = ms[k]
    BY <1>1 DEF Expire, Prune, sourceVars, PlatformsFor, Restrict
  <1>3. \A e : e \in SeenBy(v) <=> /\ PlatformOf[e.source] \in F
                                   /\ \/ \E k \in DOMAIN ms : e = ms[k].event
                                      \/ \E s \in DOMAIN sts : e = sts[s]
    BY <1>1 DEF SeenBy, Passes
  <1>4. \A e : e \in SeenBy(v)' <=> /\ PlatformOf[e.source] \in F
                                    /\ \/ \E k \in kept : e = ms[k].event
                                       \/ \E s \in DOMAIN sts : e = sts[s]
    BY <1>2 DEF SeenBy, Passes
  <1>5. ASSUME NEW k \in DOMAIN ms, ms[k].event.type = "message" => Fresh(ms[k].event)
        PROVE  k \in kept
    <2>1. PICK x, r, h, d : x = now /\ r = ms[k].event.received /\ h = History /\ d = ms[k].expires
      OBVIOUS
    <2>2. x \in Nat /\ h \in Nat /\ r \in Nat /\ d \in Nat
      BY <1>1, <2>1, LimitsAssumption DEF StoreHolds, TypeOK, CountersOK, MessagesOK, Stored, Event
    <2>3. r + h <= d /\ r + h > x
      BY <1>1, <1>5, <2>1 DEF StoreHolds, Fresh
    <2>4. ~(d <= x)
      BY <2>2, <2>3
    <2> QED
      BY <1>1, <2>1, <2>4 DEF Expired
  <1>6. \A e : (e.type = "message" => Fresh(e)) => (e \in SeenBy(v) <=> e \in SeenBy(v)')
    BY <1>2, <1>3, <1>4, <1>5
  <1>7. PICK a, b : a = SeenBy(v) /\ b = SeenBy(v)'
    OBVIOUS
  <1>8. Current(a) = Current(b)
    BY <1>6, <1>7 DEF Current
  <1>9. Current(SeenBy(v))' = Current(b)
    BY <1>2, <1>7 DEF Current, Fresh
  <1> QED
    BY <1>7, <1>8, <1>9

\* A turn of the loop serves the viewer what the store holds.
LEMMA PollServes ==
    ASSUME StoreHolds, StoreHolds', ViewShape, NEW v \in Viewers, Poll(v)
    PROVE  FeedView!Serve(v) \/ FeedStands
  <1>1. /\ Expire /\ UNCHANGED <<overlayPlatforms, conn, lastId, view, viewStates, now>>
    BY DEF Poll, pageVars, Expire, Prune
  <1>2. FeedContent' = FeedContent
    BY <1>1, ExpiryUnseen DEF FeedContent
  <1>3. FeedShown' = FeedShown
    BY <1>1 DEF FeedShown, OnScreen, Current, Fresh
  <1>4. CASE UNCHANGED pipe
    <2>1. FeedSent' = FeedSent
      BY <1>1, <1>4 DEF FeedSent, Current, Fresh
    <2> QED
      BY <1>2, <1>3, <2>1 DEF FeedStands
  <1>5. CASE ~UNCHANGED pipe
    <2>1. PICK x, old : /\ pipe' = [pipe EXCEPT ![v] = Append(old, x)]
                        /\ x.upto = SeenBy(v)' /\ old = pipe[v]
      BY <1>5 DEF Poll
    <2>2. PICK S : S = SeenBy(v)' /\ S \in SUBSET Event
      BY SeenAreEventsNext
    <2>3. old \in Seq(Sent) /\ v \in DOMAIN pipe
      BY <2>1 DEF ViewShape
    <2>4. PICK new : new = Append(old, x) /\ pipe' = [pipe EXCEPT ![v] = new]
      BY <2>1
    <2>5. CurrentUpto(new) = Append(CurrentUpto(old), Current(S))
      BY <2>1, <2>2, <2>3, <2>4, UptoOfAppend
    <2>6. Current(S) = FeedContent[v]
      <3>1. Current(S) = Current(SeenBy(v))'
        BY <1>1, <2>2 DEF Current, Fresh
      <3> QED
        BY <1>1, <3>1, ExpiryUnseen DEF FeedContent
    <2>7. FeedSent[v] = CurrentUpto(old)
      BY <2>1, FeedSentIs
    <2>8. FeedSent' = [FeedSent EXCEPT ![v] = Append(FeedSent[v], FeedContent[v])]
      <3>1. PICK old2, c2 : old2 = FeedSent[v] /\ c2 = FeedContent[v]
        OBVIOUS
      <3>2. \A u \in Viewers : FeedSent'[u] = CurrentUpto(pipe'[u])
        BY <1>1 DEF FeedSent, CurrentUpto, Current, Fresh
      <3>3. FeedSent'[v] = Append(old2, c2)
        BY <2>3, <2>4, <2>5, <2>6, <2>7, <3>1, <3>2
      <3>4. \A u \in Viewers \ {v} : FeedSent'[u] = FeedSent[u]
        BY <2>3, <2>4, <3>2, FeedSentIs DEF ViewShape
      <3>5. FeedSent' = [FeedSent EXCEPT ![v] = Append(old2, c2)]
        <4>1. FeedSent' = [u \in Viewers |-> FeedSent'[u]] /\ FeedSent = [u \in Viewers |-> FeedSent[u]]
          BY DEF FeedSent
        <4> QED
          BY <3>3, <3>4, <4>1
      <3> QED
        BY <3>1, <3>5
    <2> QED
      BY <1>2, <1>3, <2>8 DEF FeedView!Serve, FeedContent, FeedSent, FeedShown
  <1> QED
    BY <1>4, <1>5

\* What a batch shows when it is applied is what its viewer saw when it was read.
LEMMA DeliverShows ==
    ASSUME NEW past, Follow(past), NEW v \in Viewers, Deliver(v)
    PROVE  FeedView!Show(v)
  <1>1. PICK b, old, F : b = Head(pipe[v]).batch /\ old = pipe[v] /\ F = PlatformsFor(v)
    OBVIOUS
  <1>2. PICK l, sts : l = Rendered(NextList(v, b)) /\ sts = NextStates(v, b)
    OBVIOUS
  <1>3. /\ ViewShape /\ ViewerFits(past, v) /\ PastFits(past) /\ old # <<>>
        /\ UNCHANGED <<vars, overlayPlatforms, conn, cursor>>
        /\ view' = [view EXCEPT ![v] = l] /\ viewStates' = [viewStates EXCEPT ![v] = sts]
        /\ pipe' = [pipe EXCEPT ![v] = Tail(old)]
    BY <1>1, <1>2 DEF Follow, Deliver, NextList, NextStates
  <1>4. now' = now /\ FeedContent' = FeedContent
    BY <1>3 DEF vars, FeedContent, SeenBy, Passes, PlatformsFor, Current, Fresh
  <1>5. old \in Seq(Sent) /\ Head(old) = old[1] /\ old[1] \in Sent /\ 1 \in DOMAIN old
    BY <1>1, <1>3 DEF ViewShape
  <1>6. /\ b = pipe[v][1].batch /\ b \in Batch
        /\ BatchLeads(past, F, lastId[v], b) /\ old[1].upto = Visible(F, past[b.id])
    <2>1. BatchFits(past, v, 1)
      BY <1>1, <1>3, <1>5 DEF ViewerFits
    <2>2. Id(v, 1 - 1) = lastId[v]
      BY DEF Id
    <2> QED
      BY <1>1, <1>5, <2>1, <2>2 DEF BatchFits, Sent
  <1>7. /\ b.id \in DOMAIN past
        /\ Shows(F, past[b.id].messages, Stale, l)
        /\ sts = StatesFor(F, past[b.id].states)
    <2>1. PageFits(past, v)
      BY <1>3 DEF ViewerFits
    <2> QED
      BY <1>1, <1>2, <1>3, <1>6, <2>1, BatchApplied
  <1>8. PICK c : c = past[b.id] /\ HeldMessages(c.messages) /\ HeldStates(c.states)
    BY <1>3, <1>7 DEF PastFits, PastAt, PastHeld
  <1>9. Current(Range(l) \cup {sts[s] : s \in DOMAIN sts}) = Current(Visible(F, c))
    BY <1>7, <1>8, ScreenShows
  <1>10. view'[v] = l /\ viewStates'[v] = sts
    BY <1>3 DEF ViewShape
  <1>11. OnScreen(v)' = Current(Range(l) \cup {sts[s] : s \in DOMAIN sts})
    BY <1>4, <1>10 DEF OnScreen, Current, Fresh
  <1>12. FeedSent[v] # <<>> /\ OnScreen(v)' = Head(FeedSent[v]) /\ Tail(FeedSent[v]) = CurrentUpto(Tail(old))
    <2>1. FeedSent[v] = CurrentUpto(old)
      BY <1>1, FeedSentIs
    <2>2. /\ CurrentUpto(old) # <<>>
          /\ Head(CurrentUpto(old)) = Current(Head(old).upto)
          /\ Tail(CurrentUpto(old)) = CurrentUpto(Tail(old))
      BY <1>3, <1>5, UptoOfTail
    <2> QED
      BY <1>5, <1>6, <1>8, <1>9, <1>11, <2>1, <2>2
  <1>13. PICK first, rest : first = Head(FeedSent[v]) /\ rest = Tail(FeedSent[v])
    OBVIOUS
  <1>14. FeedShown' = [FeedShown EXCEPT ![v] = first]
    <2>1. \A u \in Viewers \ {v} : OnScreen(u)' = OnScreen(u)
      BY <1>3, <1>4 DEF OnScreen, Current, Fresh, ViewShape
    <2> QED
      BY <1>12, <1>13, <2>1 DEF FeedShown
  <1>15. FeedSent' = [FeedSent EXCEPT ![v] = rest]
    <2>1. \A u \in Viewers : FeedSent'[u] = CurrentUpto(pipe'[u])
      BY <1>4 DEF FeedSent, CurrentUpto, Current, Fresh
    <2>2. FeedSent'[v] = rest
      BY <1>3, <1>12, <1>13, <2>1 DEF ViewShape
    <2>3. \A u \in Viewers \ {v} : FeedSent'[u] = FeedSent[u]
      BY <1>3, <2>1, FeedSentIs DEF ViewShape
    <2>4. FeedSent' = [u \in Viewers |-> FeedSent'[u]] /\ FeedSent = [u \in Viewers |-> FeedSent[u]]
      BY DEF FeedSent
    <2> QED
      BY <2>2, <2>3, <2>4
  <1> QED
    BY <1>4, <1>12, <1>13, <1>14, <1>15 DEF FeedView!Show, FeedContent, FeedSent, FeedShown

\* What the page's own clock drops nobody should still see.
LEMMA PageClockUnseen ==
    ASSUME NEW past, Follow(past), NEW v \in Viewers, PageClock(v)
    PROVE  FeedStands
  <1>1. PICK list, l, F, sts :
           list = view[v] /\ l = Rendered(view[v]) /\ F = PlatformsFor(v) /\ sts = viewStates[v]
    OBVIOUS
  <1>2. /\ ViewShape /\ PageFits(past, v) /\ PastFits(past)
        /\ UNCHANGED <<vars, overlayPlatforms, pipe, viewStates>>
        /\ view' = [view EXCEPT ![v] = l]
    BY <1>1 DEF Follow, ViewerFits, PageClock, serverVars
  <1>3. now' = now /\ FeedContent' = FeedContent /\ FeedSent' = FeedSent
    BY <1>2 DEF vars, FeedContent, FeedSent, SeenBy, Passes, PlatformsFor, Current, Fresh
  <1>4. lastId[v] # None
    <2>1. view[v] # <<>>
      <3>1. PICK nil : nil = <<>> /\ Nothing(nil)
        BY NothingIs
      <3>2. Rendered(nil) = nil
        BY <3>1 DEF Rendered, Nothing
      <3> QED
        BY <3>1, <3>2 DEF PageClock
    <2> QED
      BY <1>2, <2>1 DEF PageFits
  <1>5. PICK c : c = past[lastId[v]]
    OBVIOUS
  <1>6. /\ HeldMessages(c.messages) /\ HeldStates(c.states)
        /\ Shows(F, c.messages, Stale, list) /\ sts = StatesFor(F, c.states)
    BY <1>1, <1>2, <1>4, <1>5 DEF PageFits, PastFits, PastAt, PastHeld
  <1>7. Shows(F, c.messages, Stale, l)
    <2>1. PICK D : D = Stale
      OBVIOUS
    <2>2. D \subseteq Stale /\ Shows(F, c.messages, D, list)
      BY <1>6, <2>1
    <2> QED
      BY <1>1, <2>2, RenderedShows
  <1>8. Current(Range(list) \cup {sts[s] : s \in DOMAIN sts}) = Current(Visible(F, c))
    BY <1>6, ScreenShows
  <1>9. Current(Range(l) \cup {sts[s] : s \in DOMAIN sts}) = Current(Visible(F, c))
    BY <1>6, <1>7, ScreenShows
  <1>10. OnScreen(v) = Current(Range(list) \cup {sts[s] : s \in DOMAIN sts})
    BY <1>1 DEF OnScreen
  <1>11. OnScreen(v)' = Current(Range(l) \cup {sts[s] : s \in DOMAIN sts})
    <2>1. view'[v] = l /\ viewStates'[v] = sts
      BY <1>1, <1>2 DEF ViewShape
    <2> QED
      BY <1>3, <2>1 DEF OnScreen, Current, Fresh
  <1>12. \A u \in Viewers \ {v} : OnScreen(u)' = OnScreen(u)
    BY <1>2, <1>3 DEF OnScreen, Current, Fresh, ViewShape
  <1>13. FeedShown' = FeedShown
    BY <1>8, <1>9, <1>10, <1>11, <1>12 DEF FeedShown
  <1> QED
    BY <1>3, <1>13 DEF FeedStands

\* A set of events grows older.
LEMMA CurrentAges ==
    ASSUME now \in Nat, now' = now + 1, NEW S \in SUBSET Event, NEW old,
           \A e \in Current(S) : e \in old <=> ~(e.type = "message" => Fresh(e)')
    PROVE  Current(S)' = Current(S) \ old
  <1>1. \A e \in S : Fresh(e)' => Fresh(e)
    BY LimitsAssumption DEF Fresh, Event
  <1> QED
    BY <1>1 DEF Current

LEMMA TickAges ==
    ASSUME StoreHolds, ViewShape, Tick, UNCHANGED viewVars
    PROVE  FeedView!Age
  <1>1. /\ now \in Nat /\ now' = now + 1
        /\ UNCHANGED <<messages, states, configured, overlayPlatforms, pipe, view, viewStates>>
    BY DEF StoreHolds, TypeOK, CountersOK, Tick, viewVars
  <1>2. PICK all : all = UNION ({FeedContent[v] : v \in Viewers} \cup {FeedShown[v] : v \in Viewers}
                                \cup UNION {{FeedSent[v][i] : i \in DOMAIN FeedSent[v]} : v \in Viewers})
    OBVIOUS
  <1>3. PICK old : old = {e \in all : ~(e.type = "message" => Fresh(e)')}
    OBVIOUS
  <1>4. ASSUME NEW S \in SUBSET Event, Current(S) \subseteq all
        PROVE  Current(S)' = Current(S) \ old
    <2>1. \A e \in Current(S) : e \in old <=> ~(e.type = "message" => Fresh(e)')
      BY <1>3, <1>4
    <2> QED
      BY <1>1, <2>1, CurrentAges
  <1>5. ASSUME NEW v \in Viewers PROVE FeedContent'[v] = FeedContent[v] \ old
    <2>1. PICK S : S = SeenBy(v) /\ S \in SUBSET Event
      BY SeenAreEvents
    <2>2. Current(S) \subseteq all
      BY <1>2, <2>1 DEF FeedContent
    <2>3. SeenBy(v)' = S
      BY <1>1, <2>1 DEF SeenBy, Passes, PlatformsFor
    <2>4. Current(SeenBy(v))' = Current(S)'
      BY <2>3 DEF Current
    <2> QED
      BY <1>4, <2>1, <2>2, <2>4 DEF FeedContent
  <1>6. ASSUME NEW v \in Viewers PROVE FeedShown'[v] = FeedShown[v] \ old
    <2>1. PICK S : /\ S = Range(view[v]) \cup {viewStates[v][s] : s \in DOMAIN viewStates[v]}
                   /\ S \in SUBSET Event
      BY ShownAreEvents
    <2>2. Current(S) \subseteq all
      <3>1. FeedShown[v] = Current(S)
        BY <2>1 DEF FeedShown, OnScreen
      <3>2. FeedShown[v] \subseteq all
        BY <1>2
      <3> QED
        BY <3>1, <3>2
    <2>3. OnScreen(v)' = Current(S)'
      BY <1>1, <2>1 DEF OnScreen, Current
    <2> QED
      BY <1>4, <2>1, <2>2, <2>3 DEF FeedShown, OnScreen
  <1>7. ASSUME NEW v \in Viewers
        PROVE  FeedSent'[v] = [i \in DOMAIN FeedSent[v] |-> FeedSent[v][i] \ old]
    <2>1. ASSUME NEW i \in DOMAIN pipe[v] PROVE Current(pipe[v][i].upto)' = Current(pipe[v][i].upto) \ old
      <3>0. pipe[v][i] \in Sent
        BY DEF ViewShape
      <3>1. PICK S : S = pipe[v][i].upto /\ S \in SUBSET Event
        BY <3>0 DEF Sent
      <3>2. Current(S) \subseteq all
        BY <1>2, <3>1 DEF FeedSent
      <3>3. Current(pipe[v][i].upto)' = Current(S)'
        BY <1>1, <3>1 DEF Current
      <3> QED
        BY <1>4, <3>1, <3>2, <3>3
    <2>2. FeedSent'[v] = [i \in DOMAIN pipe[v] |-> Current(pipe[v][i].upto)']
      BY <1>1 DEF FeedSent, Current
    <2> QED
      BY <2>1, <2>2 DEF FeedSent
  <1>8. old \in SUBSET all
    BY <1>3
  <1>9. /\ FeedContent' = [v \in Viewers |-> FeedContent[v] \ old]
        /\ FeedShown' = [v \in Viewers |-> FeedShown[v] \ old]
        /\ FeedSent' = [v \in Viewers |-> [i \in DOMAIN FeedSent[v] |-> FeedSent[v][i] \ old]]
    <2>1. /\ FeedContent' = [v \in Viewers |-> FeedContent'[v]]
          /\ FeedShown' = [v \in Viewers |-> FeedShown'[v]]
          /\ FeedSent' = [v \in Viewers |-> FeedSent'[v]]
      BY DEF FeedContent, FeedShown, FeedSent
    <2> QED
      BY <1>5, <1>6, <1>7, <2>1
  <1> QED
    BY <1>2, <1>8, <1>9 DEF FeedView!Age, FeedContent, FeedShown, FeedSent

\* Any other step of the store changes what a viewer would see now, no more.
LEMMA StoreChanges ==
    ASSUME StoreHolds', UNCHANGED viewVars, now' = now
    PROVE  FeedView!Change
  <1>1. FeedContent' \in [Viewers -> SUBSET Event]
    <2>1. \A v \in Viewers : Current(SeenBy(v))' \in SUBSET Event
      BY SeenAreEventsNext DEF Current
    <2> QED
      BY <2>1 DEF FeedContent
  <1>2. UNCHANGED <<FeedSent, FeedShown>>
    BY DEF viewVars, FeedSent, FeedShown, OnScreen, Current, Fresh
  <1> QED
    BY <1>1, <1>2 DEF FeedView!Change, FeedContent, FeedSent, FeedShown

LEMMA StoreStepFeeds ==
    ASSUME NoReplacement, StoreHolds, ViewShape, StoreMoves, UNCHANGED viewVars
    PROVE  FeedView!Change \/ FeedView!Age
  <1>1. CASE Tick
    BY <1>1, TickAges
  <1>2. CASE ~Tick
    <2>1. \A e : Ingest(e) => now' = now
      BY DEF Ingest, IngestMessage, IngestState, IngestDeletion, Delete, CompactBarriers
    <2>2. (\E S \in SourceSets : UpdateSources(S)) \/ Expire \/ Restart \/ UNCHANGED vars
             => now' = now
      BY DEF UpdateSources, Expire, Prune, Restart, vars
    <2>3. now' = now
      BY <1>2, <2>1, <2>2 DEF StoreMoves
    <2> QED
      BY <2>3, StoreHoldsStep, StoreChanges
  <1> QED
    BY <1>1, <1>2

LEMMA ConnectUnseen ==
    ASSUME NEW v \in Viewers, Connect(v)
    PROVE  FeedStands
  BY DEF Connect, vars, pageVars, FeedStands, FeedContent, FeedSent, FeedShown, OnScreen,
         SeenBy, Passes, PlatformsFor, Current, Fresh

LEMMA WireCut ==
    ASSUME ViewShape, NEW v \in Viewers, pipe' = [pipe EXCEPT ![v] = <<>>], now' = now
    PROVE  FeedSent' = [FeedSent EXCEPT ![v] = <<>>]
  <1>1. PICK nil : nil = <<>> /\ Nothing(nil)
    BY NothingIs
  <1>2. \A u \in Viewers : FeedSent'[u] = CurrentUpto(pipe'[u])
    BY DEF FeedSent, CurrentUpto, Current, Fresh
  <1>3. FeedSent'[v] = nil
    <2>1. pipe'[v] = nil
      BY <1>1 DEF ViewShape
    <2>2. CurrentUpto(nil) = nil
      BY <1>1 DEF CurrentUpto, Nothing
    <2> QED
      BY <1>2, <2>1, <2>2
  <1>4. \A u \in Viewers \ {v} : FeedSent'[u] = FeedSent[u]
    BY <1>2, FeedSentIs DEF ViewShape
  <1>5. FeedSent' = [FeedSent EXCEPT ![v] = nil]
    <2>1. FeedSent' = [u \in Viewers |-> FeedSent'[u]] /\ FeedSent = [u \in Viewers |-> FeedSent[u]]
      BY DEF FeedSent
    <2> QED
      BY <1>3, <1>4, <2>1
  <1> QED
    BY <1>1, <1>5

LEMMA DropLoses ==
    ASSUME ViewShape, NEW v \in Viewers, Drop(v)
    PROVE  FeedView!Lose(v)
  <1>1. /\ UNCHANGED <<vars, overlayPlatforms, view, viewStates>>
        /\ pipe' = [pipe EXCEPT ![v] = <<>>]
    BY DEF Drop, pageVars
  <1>2. now' = now /\ FeedContent' = FeedContent /\ FeedShown' = FeedShown
    BY <1>1 DEF vars, FeedContent, FeedShown, OnScreen, SeenBy, Passes, PlatformsFor, Current, Fresh
  <1>3. FeedSent' = [FeedSent EXCEPT ![v] = <<>>]
    BY <1>1, <1>2, WireCut
  <1> QED
    BY <1>2, <1>3 DEF FeedView!Lose, FeedContent, FeedSent, FeedShown

LEMMA ReloadPageReloads ==
    ASSUME ViewShape, NEW v \in Viewers, ReloadPage(v)
    PROVE  FeedView!Reload(v)
  <1>1. /\ UNCHANGED <<vars, overlayPlatforms>>
        /\ pipe' = [pipe EXCEPT ![v] = <<>>]
        /\ view' = [view EXCEPT ![v] = <<>>] /\ viewStates' = [viewStates EXCEPT ![v] = <<>>]
    BY DEF ReloadPage
  <1>2. now' = now /\ FeedContent' = FeedContent
    BY <1>1 DEF vars, FeedContent, SeenBy, Passes, PlatformsFor, Current, Fresh
  <1>3. FeedSent' = [FeedSent EXCEPT ![v] = <<>>]
    BY <1>1, <1>2, WireCut
  <1>4. PICK nil : nil = <<>> /\ Nothing(nil)
    BY NothingIs
  <1>5. OnScreen(v)' = {}
    <2>1. view'[v] = nil /\ viewStates'[v] = nil /\ DOMAIN nil = {}
      BY <1>1, <1>4 DEF ViewShape, Nothing
    <2> QED
      BY <2>1 DEF OnScreen, Current, Range
  <1>6. \A u \in Viewers \ {v} : OnScreen(u)' = OnScreen(u)
    BY <1>1, <1>2 DEF OnScreen, Current, Fresh, ViewShape
  <1>7. FeedShown' = [FeedShown EXCEPT ![v] = {}]
    BY <1>5, <1>6 DEF FeedShown
  <1> QED
    BY <1>2, <1>3, <1>7 DEF FeedView!Reload, FeedContent, FeedSent, FeedShown

LEMMA FeedStep ==
    ASSUME PlatformsStay, NoReplacement, ViewersFollow, [ViewNext]_<<vars, viewVars>>
    PROVE  FeedView!FeedNext \/ FeedStands
  <1>1. PICK past : Follow(past)
    BY DEF ViewersFollow
  <1>2. StoreHolds /\ ViewShape
    BY <1>1 DEF Follow
  <1>3. CASE StoreStep
    <2>1. StoreMoves /\ UNCHANGED viewVars
      BY <1>3 DEF StoreStep, StoreMoves
    <2> QED
      BY <1>2, <2>1, StoreStepFeeds DEF FeedView!FeedNext
  <1>4. CASE UNCHANGED <<vars, viewVars>>
    BY <1>4 DEF vars, viewVars, FeedStands, FeedContent, FeedSent, FeedShown, OnScreen,
                SeenBy, Passes, PlatformsFor, Current, Fresh
  <1>5. ASSUME NEW v \in Viewers, Connect(v) PROVE FeedStands
    BY <1>5, ConnectUnseen
  <1>6. ASSUME NEW v \in Viewers, Poll(v) PROVE FeedView!FeedNext \/ FeedStands
    <2>1. StoreHolds'
      BY <1>2, <1>6, StoreHoldsStep DEF Poll, StoreMoves
    <2> QED
      BY <1>2, <1>6, <2>1, PollServes DEF FeedView!FeedNext
  <1>7. ASSUME NEW v \in Viewers, Deliver(v) PROVE FeedView!FeedNext
    BY <1>1, <1>7, DeliverShows DEF FeedView!FeedNext
  <1>8. ASSUME NEW v \in Viewers, PageClock(v) PROVE FeedStands
    BY <1>1, <1>8, PageClockUnseen
  <1>9. ASSUME NEW v \in Viewers, Drop(v) PROVE FeedView!FeedNext
    BY <1>2, <1>9, DropLoses DEF FeedView!FeedNext
  <1>10. ASSUME NEW v \in Viewers, ReloadPage(v) PROVE FeedView!FeedNext
    BY <1>2, <1>10, ReloadPageReloads DEF FeedView!FeedNext
  <1>11. ASSUME NEW S \in SourceSets, NEW O \in OverlayChoices, SaveProfile(S, O)
         PROVE  FeedStands
    <2>1. UNCHANGED <<messages, states, now, pipe, view, viewStates>>
      BY <1>11 DEF SaveProfile, UpdateSources, contentVars, serverVars, pageVars
    <2>2. \A v \in Viewers : SeenBy(v)' = SeenBy(v)
      BY <2>1 DEF PlatformsStay, SeenBy, Passes
    <2> QED
      BY <2>1, <2>2 DEF FeedStands, FeedContent, FeedSent, FeedShown, OnScreen, Current, Fresh
  <1> QED
    BY <1>3, <1>4, <1>5, <1>6, <1>7, <1>8, <1>9, <1>10, <1>11 DEF ViewNext

LEMMA FeedStarts ==
    ViewInit => FeedView!FeedInit
  <1> SUFFICES ASSUME ViewInit PROVE FeedView!FeedInit
    OBVIOUS
  <1>1. PICK nil : nil = <<>> /\ Nothing(nil)
    BY NothingIs
  <1>2. /\ messages = nil /\ states = nil
        /\ pipe = [v \in Viewers |-> nil]
        /\ view = [v \in Viewers |-> nil] /\ viewStates = [v \in Viewers |-> nil]
    BY <1>1 DEF ViewInit, Init
  <1>3. FeedContent \in [Viewers -> SUBSET Event]
    <2>1. \A v \in Viewers : Current(SeenBy(v)) = {}
      BY <1>1, <1>2 DEF SeenBy, Current, Nothing
    <2> QED
      BY <2>1 DEF FeedContent
  <1>4. FeedSent = [v \in Viewers |-> <<>>]
    <2>1. [i \in DOMAIN nil |-> Current(nil[i].upto)] = nil
      BY <1>1 DEF Nothing
    <2> QED
      BY <1>1, <1>2, <2>1 DEF FeedSent
  <1>5. FeedShown = [v \in Viewers |-> {}]
    <2>1. \A v \in Viewers : OnScreen(v) = {}
      BY <1>1, <1>2 DEF OnScreen, Current, Range, Nothing
    <2> QED
      BY <2>1 DEF FeedShown
  <1> QED
    BY <1>3, <1>4, <1>5 DEF FeedView!FeedInit, FeedContent, FeedSent, FeedShown

\* The loops and the pages keep the promise of Feed: what a page shows is what
\* its viewer could have seen in the store at one instant, in the order of time.
THEOREM ViewImplementsFeed ==
    ASSUME SavesKeepPlatforms, NoReplacement
    PROVE  ViewSpec => ImplementsFeed
  <1>1. ProfileStands /\ ViewersFollow /\ [ViewNext]_<<vars, viewVars>>
            => [FeedView!FeedNext]_(FeedView!feedVars)
    BY ProfileStandsStep, FeedStep DEF FeedStands, FeedContent, FeedSent, FeedShown, FeedView!feedVars
  <1> QED
    BY <1>1, FeedStarts, ViewersFollowStore, ProfileStandsAlways, PTL DEF ViewSpec, ImplementsFeed, FeedView!FeedSpec

-----------------------------------------------------------------------------
(* No page keeps what a deletion took                                       *)

\* No barrier takes a message of the list, nor one that the events carry.
Stands(list) == \A i \in DOMAIN list : Standing(list[i])
Harmless(events) ==
    \A i \in DOMAIN events : events[i].type \in MessageTypes => Standing(events[i])

LEMMA EditedStands ==
    ASSUME NEW e \in Event, Standing(e)
    PROVE  Standing([e EXCEPT !.type = "message"])
  <1>1. /\ Covers([e EXCEPT !.type = "message"]) = Covers(e)
        /\ [e EXCEPT !.type = "message"].occurred = e.occurred
    BY DEF Covers, Event
  <1> QED
    BY <1>1 DEF Standing

LEMMA PickedStands ==
    ASSUME NEW list \in Seq(Event), Stands(list), NEW P \in SUBSET DOMAIN list
    PROVE  Picked(list, P) \in Seq(Event) /\ Stands(Picked(list, P))
  <1>1. PICK r, at : r = Picked(list, P) /\ r \in Seq(Event) /\ Places(list, P, r, at)
    BY PickedPlaces
  <1>2. \A i \in DOMAIN r : at[i] \in DOMAIN list /\ r[i] = list[at[i]]
    BY <1>1 DEF Places
  <1>3. Stands(r)
    BY <1>2 DEF Stands
  <1> QED
    BY <1>1, <1>3

LEMMA PickedHarmless ==
    ASSUME NEW events \in Seq(Event), Harmless(events), NEW P \in SUBSET DOMAIN events
    PROVE  Picked(events, P) \in Seq(Event) /\ Harmless(Picked(events, P))
  <1>1. PICK r, at : r = Picked(events, P) /\ r \in Seq(Event) /\ Places(events, P, r, at)
    BY PickedPlaces
  <1>2. \A i \in DOMAIN r : at[i] \in DOMAIN events /\ r[i] = events[at[i]]
    BY <1>1 DEF Places
  <1>3. Harmless(r)
    BY <1>2 DEF Harmless
  <1> QED
    BY <1>1, <1>3

\* What apply(e) makes of the list before it is cut.
EditedList(list, e) ==
    [i \in DOMAIN list |-> IF Key(list[i]) = Key(e) THEN [e EXCEPT !.type = "message"] ELSE list[i]]

NextIs(list, e, next) ==
    \/ next = list
    \/ \E P \in SUBSET DOMAIN list : next = Picked(list, P)
    \/ /\ e.type = "message"
       /\ \E P \in SUBSET DOMAIN list : next = Append(Picked(list, P), e)
    \/ e.type = "replace" /\ next = EditedList(list, e)

LEMMA AppliedIs ==
    ASSUME NEW list \in Seq(Event), NEW e \in Event
    PROVE  \E next : /\ NextIs(list, e, next)
                     /\ ApplyToList(list, e) =
                            IF Len(next) > MaxMessages
                            THEN SubSeq(next, Len(next) - MaxMessages + 1, Len(next)) ELSE next
  <1> DEFINE cut(next) == IF Len(next) > MaxMessages
                          THEN SubSeq(next, Len(next) - MaxMessages + 1, Len(next)) ELSE next
             K == {i \in DOMAIN list : Key(list[i]) # Key(e)}
             A == {i \in DOMAIN list : list[i].source # e.source \/ list[i].author # e.author}
             C == {i \in DOMAIN list : list[i].source # e.source}
  <1>1. CASE e.type = "message"
    <2>1. ApplyToList(list, e) = cut(Append(Picked(list, K), e))
      BY <1>1 DEF ApplyToList, WithoutKey
    <2>2. NextIs(list, e, Append(Picked(list, K), e))
      BY <1>1 DEF NextIs
    <2> QED
      BY <2>1, <2>2
  <1>2. CASE e.type = "replace"
    <2>1. ApplyToList(list, e) = cut(EditedList(list, e))
      BY <1>2 DEF ApplyToList, EditedList
    <2>2. NextIs(list, e, EditedList(list, e))
      BY <1>2 DEF NextIs
    <2> QED
      BY <2>1, <2>2
  <1>3. CASE e.type = "delete_message"
    <2>1. ApplyToList(list, e) = cut(Picked(list, K))
      BY <1>3 DEF ApplyToList, WithoutKey
    <2>2. NextIs(list, e, Picked(list, K))
      BY DEF NextIs
    <2> QED
      BY <2>1, <2>2
  <1>4. CASE e.type = "delete_author"
    <2>1. ApplyToList(list, e) = cut(Picked(list, A))
      BY <1>4 DEF ApplyToList
    <2>2. NextIs(list, e, Picked(list, A))
      BY DEF NextIs
    <2> QED
      BY <2>1, <2>2
  <1>5. CASE e.type = "clear_channel"
    <2>1. ApplyToList(list, e) = cut(Picked(list, C))
      BY <1>5 DEF ApplyToList
    <2>2. NextIs(list, e, Picked(list, C))
      BY DEF NextIs
    <2> QED
      BY <2>1, <2>2
  <1>6. CASE e.type \notin {"message", "replace", "delete_message", "delete_author", "clear_channel"}
    <2>1. ApplyToList(list, e) = cut(list)
      BY <1>6 DEF ApplyToList
    <2>2. NextIs(list, e, list)
      BY DEF NextIs
    <2> QED
      BY <2>1, <2>2
  <1> QED
    BY <1>1, <1>2, <1>3, <1>4, <1>5, <1>6

LEMMA AppliedStands ==
    ASSUME NEW list \in Seq(Event), Stands(list), NEW e \in Event,
           e.type \in MessageTypes => Standing(e)
    PROVE  ApplyToList(list, e) \in Seq(Event) /\ Stands(ApplyToList(list, e))
  <1>1. PICK next :
           /\ NextIs(list, e, next)
           /\ ApplyToList(list, e) = IF Len(next) > MaxMessages
                                     THEN SubSeq(next, Len(next) - MaxMessages + 1, Len(next))
                                     ELSE next
    BY AppliedIs
  <1>2. next \in Seq(Event) /\ Stands(next)
    <2>1. ASSUME NEW P \in SUBSET DOMAIN list, e.type = "message"
          PROVE  Append(Picked(list, P), e) \in Seq(Event) /\ Stands(Append(Picked(list, P), e))
      <3>1. PICK q, t : q = Picked(list, P) /\ t = Append(q, e)
        OBVIOUS
      <3>2. q \in Seq(Event) /\ Stands(q) /\ Standing(e)
        BY <2>1, <3>1, PickedStands DEF MessageTypes
      <3>3. PICK m \in Nat : m = Len(q)
        BY <3>2
      <3>4. /\ t \in Seq(Event) /\ DOMAIN q = 1 .. m /\ DOMAIN t = 1 .. m + 1
            /\ t[m + 1] = e /\ \A i \in 1 .. m : t[i] = q[i]
        BY <3>1, <3>2, <3>3, AppendProperties
      <3>5. \A i \in 1 .. m + 1 : i = m + 1 \/ i \in 1 .. m
        BY <3>3
      <3>6. Stands(t)
        BY <3>2, <3>4, <3>5 DEF Stands
      <3> QED
        BY <3>1, <3>4, <3>6
    <2>2. ASSUME e.type = "replace"
          PROVE  EditedList(list, e) \in Seq(Event) /\ Stands(EditedList(list, e))
      <3>1. PICK edited : edited = [e EXCEPT !.type = "message"]
        OBVIOUS
      <3>2. edited \in Event /\ Standing(edited)
        BY <2>2, <3>1, EditedStands DEF MessageTypes, Event
      <3>3. EditedList(list, e) = [i \in DOMAIN list |-> IF Key(list[i]) = Key(e) THEN edited ELSE list[i]]
        BY <3>1 DEF EditedList
      <3>4. EditedList(list, e) \in Seq(Event)
        BY <3>2, <3>3
      <3>5. Stands(EditedList(list, e))
        BY <3>2, <3>3 DEF Stands
      <3> QED
        BY <3>4, <3>5
    <2> QED
      BY <1>1, <2>1, <2>2, PickedStands DEF NextIs
  <1>3. CASE Len(next) > MaxMessages
    <2>1. PICK n \in Nat, m \in Nat : n = Len(next) /\ m = n - MaxMessages + 1 /\ 1 <= m /\ m <= n
      <3>1. Len(next) \in Nat /\ Len(next) - MaxMessages + 1 \in Nat
            /\ 1 <= Len(next) - MaxMessages + 1 /\ Len(next) - MaxMessages + 1 <= Len(next)
        BY <1>2, <1>3, LimitsAssumption
      <3> QED
        BY <3>1
    <2>2. PICK t : t = SubSeq(next, m, n) /\ ApplyToList(list, e) = t
      BY <1>1, <1>3, <2>1
    <2>3. /\ t \in Seq(Event) /\ DOMAIN t = 1 .. n - m + 1 /\ DOMAIN next = 1 .. n
          /\ \A i \in 1 .. n - m + 1 : t[i] = next[m + i - 1] /\ m + i - 1 \in 1 .. n
      BY <1>2, <2>1, <2>2, SubSeqProperties
    <2>4. Stands(t)
      BY <1>2, <2>3 DEF Stands
    <2> QED
      BY <2>2, <2>3, <2>4
  <1> QED
    BY <1>1, <1>2, <1>3

\* A list that no barrier takes from, after a batch of harmless events.
LEMMA ListAfterStands ==
    ASSUME NEW list \in Seq(Event), Stands(list), NEW events \in Seq(Event), Harmless(events)
    PROVE  Stands(ListAfter(list, events))
  <1>1. PICK f \in [0 .. Len(events) -> Seq(Event)] :
           ListRuns(list, events, f) /\ ListAfter(list, events) = f[Len(events)]
    BY ListAfterRuns
  <1>2. PICK N \in Nat : N = Len(events) /\ DOMAIN events = 1 .. N
    OBVIOUS
  <1> DEFINE T == {n \in 0 .. N : Stands(f[n])}
  <1>3. 0 \in T
    BY <1>1, <1>2 DEF ListRuns
  <1>4. ASSUME NEW n \in 1 .. N, n - 1 \in T PROVE n \in T
    <2>1. PICK l : l = f[n - 1] /\ l \in Seq(Event) /\ Stands(l)
      BY <1>1, <1>2, <1>4
    <2>2. events[n] \in Event /\ (events[n].type \in MessageTypes => Standing(events[n]))
      BY <1>2 DEF Harmless
    <2>3. Stands(ApplyToList(l, events[n]))
      BY <2>1, <2>2, AppliedStands
    <2>4. f[n] = ApplyToList(l, events[n])
      BY <1>1, <1>2, <2>1 DEF ListRuns
    <2> QED
      BY <2>3, <2>4
  <1> HIDE DEF T
  <1>5. \A n \in 1 .. N : n - 1 \in T => n \in T
    BY <1>4
  <1>6. \A n \in 0 .. N : n \in T
    BY <1>3, <1>5, EveryTurn
  <1>7. N \in T
    BY <1>2, <1>6
  <1> QED
    BY <1>1, <1>2, <1>7 DEF T

\* The cursor c is not ahead of the store's; it is of this epoch, since the cut.
NotAhead(c) ==
    c = None \/ (c \in Nat \X Nat /\ (c[1] < epoch \/ (c[1] = epoch /\ c[2] <= sequence)))
Since(cut, c) == c # None /\ c[1] = epoch /\ cut <= c[2]

\* The cut is where the last deletion broke the replay: the ring starts after it.
RingSince(cut) ==
    /\ cut \in Nat /\ cut <= sequence
    /\ \A i \in DOMAIN ring : cut < ring[i].seq

\* A batch since the cut carries nothing that a deletion took, and if it is a
\* replay, it goes on from a page since the cut.
BatchSwept(cut, v, i) ==
    LET b == pipe[v][i].batch
    IN /\ NotAhead(b.id)
       /\ Since(cut, b.id) => /\ Stands(b.messages)
                              /\ Harmless(b.events)
                              /\ ~b.reset => Since(cut, Id(v, i - 1))

\* A page since the cut shows nothing that a deletion took.
ViewerSwept(cut, v) ==
    /\ NotAhead(lastId[v]) /\ NotAhead(cursor[v])
    /\ conn[v] => cursor[v] = Id(v, Len(pipe[v]))
    /\ ~conn[v] => pipe[v] = <<>>
    /\ Since(cut, lastId[v]) => Stands(view[v])
    /\ \A i \in DOMAIN pipe[v] : BatchSwept(cut, v, i)

Swept(cut) ==
    /\ StoreHolds
    /\ NoDeletedText
    /\ RingSince(cut)
    /\ ViewShape
    /\ \A v \in Viewers : ViewerSwept(cut, v)

PagesSwept == \E cut : Swept(cut)

\* With a step of the store the cut stays, and no barrier is raised, or it
\* moves ahead of every cursor there is.
CutMoved(cut, new) ==
    /\ StoreHolds' /\ NoDeletedText' /\ RingSince(new)'
    /\ \A c : NotAhead(c) => NotAhead(c)'
    /\ (\E c : NotAhead(c) /\ Since(new, c)') =>
           new = cut /\ epoch' = epoch /\ \A e : Standing(e) => Standing(e)'

LEMMA CutStays ==
    ASSUME NEW cut, RingSince(cut), StoreHolds, StoreHolds', NoDeletedText',
           epoch' = epoch, sequence <= sequence',
           DOMAIN barriers' \subseteq DOMAIN barriers,
           \A b \in DOMAIN barriers' : barriers'[b] = barriers[b],
           \A i \in DOMAIN ring' : cut < ring'[i].seq
    PROVE  CutMoved(cut, cut)
  <1>1. epoch \in Nat /\ sequence \in Nat /\ sequence' \in Nat
    BY DEF StoreHolds, TypeOK, CountersOK
  <1>2. RingSince(cut)'
    BY <1>1 DEF RingSince
  <1>3. ASSUME NEW c, NotAhead(c) PROVE NotAhead(c)'
    <2>1. CASE c = None
      BY <2>1 DEF NotAhead
    <2>2. CASE c # None
      <3>1. PICK x \in Nat, y \in Nat : c = <<x, y>>
        BY <1>3, <2>2 DEF NotAhead
      <3>2. x < epoch \/ (x = epoch /\ y <= sequence)
        BY <1>3, <2>2, <3>1 DEF NotAhead
      <3>3. x < epoch' \/ (x = epoch' /\ y <= sequence')
        BY <1>1, <3>2
      <3> QED
        BY <3>1, <3>3 DEF NotAhead
    <2> QED
      BY <2>1, <2>2
  <1>4. \A e : Standing(e) => Standing(e)'
    BY DEF Standing
  <1> QED
    BY <1>2, <1>3, <1>4 DEF CutMoved

\* A new epoch, or a gap that no cursor is past.
LEMMA CutAhead ==
    ASSUME StoreHolds, StoreHolds', NoDeletedText', NEW cut, NEW new \in Nat, new <= sequence',
           \A i \in DOMAIN ring' : new < ring'[i].seq,
           epoch' = epoch + 1 \/ (epoch' = epoch /\ sequence < new)
    PROVE  CutMoved(cut, new)
  <1>1. epoch \in Nat /\ sequence \in Nat /\ sequence' \in Nat
    BY DEF StoreHolds, TypeOK, CountersOK
  <1>2. RingSince(new)'
    BY DEF RingSince
  <1>3. ASSUME NEW c, NotAhead(c) PROVE NotAhead(c)' /\ ~Since(new, c)'
    <2>1. CASE c = None
      BY <2>1 DEF NotAhead, Since
    <2>2. CASE c # None
      <3>1. PICK x \in Nat, y \in Nat : c = <<x, y>>
        BY <1>3, <2>2 DEF NotAhead
      <3>2. x < epoch \/ (x = epoch /\ y <= sequence)
        BY <1>3, <2>2, <3>1 DEF NotAhead
      <3>3. x < epoch' \/ (x = epoch' /\ y <= sequence' /\ ~(new <= y))
        BY <1>1, <3>2
      <3>4. ~(x = epoch' /\ new <= y)
        BY <1>1, <3>3
      <3> QED
        BY <3>1, <3>3, <3>4 DEF NotAhead, Since
    <2> QED
      BY <2>1, <2>2
  <1> QED
    BY <1>2, <1>3 DEF CutMoved

LEMMA CutMoves ==
    ASSUME StoreHolds, NoDeletedText, StoreMoves, NEW cut, RingSince(cut)
    PROVE  \E new : CutMoved(cut, new)
  <1>1. StoreHolds' /\ NoDeletedText'
    BY StoreHoldsStep, StoreMovesIsNext, NoDeletedTextStep DEF StoreHolds
  <1>2. /\ epoch \in Nat /\ sequence \in Nat /\ now \in Nat /\ ring \in Seq(RingEntry)
        /\ cut \in Nat /\ cut <= sequence /\ \A i \in DOMAIN ring : cut < ring[i].seq
    BY DEF StoreHolds, TypeOK, CountersOK, ReplayOK, RingSince
  <1>3. ASSUME NEW r \in Seq(RingEntry), \A i \in DOMAIN r : cut < r[i].seq,
               NEW seq \in Nat, cut < seq, NEW e \in Event
        PROVE  Push(r, seq, e) \in Seq(RingEntry) /\ \A i \in DOMAIN Push(r, seq, e) : cut < Push(r, seq, e)[i].seq
    <2>1. \A i \in DOMAIN Push(r, seq, e) : \/ Push(r, seq, e)[i] = Entry(seq, e)
                                            \/ \E j \in DOMAIN r : Push(r, seq, e)[i] = r[j]
      BY <1>2, PushContents
    <2>2. Entry(seq, e).seq = seq
      BY DEF Entry
    <2>3. Push(r, seq, e) \in Seq(RingEntry)
      BY <1>2, PushIsReplay
    <2> QED
      BY <1>3, <2>1, <2>2, <2>3
  <1>4. sequence + 1 \in Nat /\ sequence + 2 \in Nat /\ cut < sequence + 1 /\ cut < sequence + 2
        /\ sequence <= sequence + 1 /\ sequence <= sequence + 2
    BY <1>2
  <1>5. ASSUME NEW e \in Event, Ingest(e) PROVE \E new : CutMoved(cut, new)
    <2>1. CASE IngestMessage(e)
      <3>1. epoch' = epoch /\ barriers' = barriers /\ sequence <= sequence'
        BY <1>4, <2>1 DEF IngestMessage
      <3>2. \A i \in DOMAIN ring' : cut < ring'[i].seq
        <4> DEFINE others == DOMAIN messages \ {Key(e)}
                   out == Oldest(others)
        <4>1. CASE Cardinality(others) >= MaxMessages
          <5>1. PICK r, x : /\ x = Eviction(out) /\ r = Push(ring, sequence + 1, x)
                            /\ ring' = Push(r, sequence + 2, e)
            BY <2>1, <4>1 DEF IngestMessage
          <5>2. x \in Event
            BY <4>1, <5>1, EvictionIsEvent DEF StoreHolds, TypeOK
          <5>3. r \in Seq(RingEntry) /\ \A i \in DOMAIN r : cut < r[i].seq
            BY <1>2, <1>3, <1>4, <5>1, <5>2
          <5> QED
            BY <1>3, <1>4, <5>1, <5>3
        <4>2. CASE ~(Cardinality(others) >= MaxMessages)
          <5>1. ring' = Push(ring, sequence + 1, e)
            BY <2>1, <4>2 DEF IngestMessage
          <5> QED
            BY <1>2, <1>3, <1>4, <5>1
        <4> QED
          BY <4>1, <4>2
      <3> QED
        BY <1>1, <3>1, <3>2, CutStays
    <2>2. CASE IngestState(e)
      <3>1. /\ epoch' = epoch /\ barriers' = barriers /\ sequence <= sequence'
            /\ ring' = Push(ring, sequence + 1, e)
        BY <1>4, <2>2 DEF IngestState
      <3>2. \A i \in DOMAIN ring' : cut < ring'[i].seq
        BY <1>2, <1>3, <1>4, <3>1
      <3> QED
        BY <1>1, <3>1, <3>2, CutStays
    <2>3. CASE IngestDeletion(e)
      <3>1. epoch' = epoch /\ sequence' = sequence + 2 /\ ring' = <<Entry(sequence + 2, e)>>
        BY <2>3 DEF IngestDeletion, Delete
      <3>2. \A i \in DOMAIN ring' : ring'[i].seq = sequence + 2
        BY <3>1 DEF Entry
      <3>3. PICK new \in Nat : new = sequence + 1 /\ sequence < new /\ new < sequence + 2 /\ new <= sequence'
        BY <1>2, <3>1
      <3> QED
        BY <1>1, <3>1, <3>2, <3>3, CutAhead
    <2>4. CASE CompactBarriers(e)
      <3>1. epoch' = epoch + 1 /\ sequence' = 1 /\ ring' = <<Entry(1, e)>>
        BY <2>4 DEF CompactBarriers
      <3>2. \A i \in DOMAIN ring' : ring'[i].seq = 1
        BY <3>1 DEF Entry
      <3>3. PICK new \in Nat : new = 0
        OBVIOUS
      <3>4. new <= sequence' /\ \A i \in DOMAIN ring' : new < ring'[i].seq
        BY <3>1, <3>2, <3>3
      <3> QED
        BY <1>1, <3>1, <3>4, CutAhead
    <2> QED
      BY <1>5, <2>1, <2>2, <2>3, <2>4 DEF Ingest
  <1>6. CASE \E i \in Inputs, t \in Stamps : Ingest(Stamped(i, t))
    BY <1>2, <1>5, <1>6, StampedIsTimely DEF Timely
  <1>7. CASE Expire
    <2>1. /\ epoch' = epoch /\ DOMAIN barriers' \subseteq DOMAIN barriers
          /\ \A b \in DOMAIN barriers' : barriers'[b] = barriers[b]
          /\ ring' = ring \/ ring' = <<>>
          /\ sequence' = sequence \/ sequence' = sequence + 1
      BY <1>7 DEF Expire, Prune, Restrict
    <2>2. sequence <= sequence' /\ \A i \in DOMAIN ring' : cut < ring'[i].seq
      BY <1>2, <1>4, <2>1
    <2> QED
      BY <1>1, <2>1, <2>2, CutStays
  <1>8. CASE Restart
    <2>1. epoch' = epoch + 1 /\ sequence' = 0 /\ DOMAIN ring' = {}
      BY <1>8 DEF Restart
    <2>2. PICK new \in Nat : new = 0
      OBVIOUS
    <2>3. new <= sequence' /\ \A i \in DOMAIN ring' : new < ring'[i].seq
      BY <2>1, <2>2
    <2> QED
      BY <1>1, <2>1, <2>3, CutAhead
  <1>9. CASE UNCHANGED <<epoch, sequence, ring, barriers>>
    <2>1. sequence <= sequence'
      BY <1>2, <1>9
    <2> QED
      BY <1>1, <1>2, <1>9, <2>1, CutStays
  <1> QED
    BY <1>6, <1>7, <1>8, <1>9 DEF StoreMoves, UpdateSources, Tick, replayVars, vars

LEMMA SinceMoves ==
    ASSUME NEW cut, NEW new, CutMoved(cut, new), NEW c, NotAhead(c), Since(new, c)'
    PROVE  /\ Since(cut, c)
           /\ \A list : Stands(list) => Stands(list)'
           /\ \A events : Harmless(events) => Harmless(events)'
           /\ \A d : Since(cut, d) => Since(new, d)'
  <1>1. new = cut /\ epoch' = epoch /\ \A e : Standing(e) => Standing(e)'
    BY DEF CutMoved
  <1> QED
    BY <1>1 DEF Since, Stands, Harmless

\* A batch i that comes to stand at place j keeps its id before and after.
LEMMA SweptBatchStays ==
    ASSUME NEW cut, NEW new, CutMoved(cut, new), NEW v \in Viewers,
           NEW i, NEW j, BatchSwept(cut, v, i),
           Id(v, j - 1)' = Id(v, i - 1), pipe'[v][j] = pipe[v][i]
    PROVE  BatchSwept(new, v, j)'
  <1>1. PICK b, before : b = pipe[v][i].batch /\ before = Id(v, i - 1)
    OBVIOUS
  <1>2. /\ NotAhead(b.id)
        /\ Since(cut, b.id) => Stands(b.messages) /\ Harmless(b.events) /\ (~b.reset => Since(cut, before))
    BY <1>1 DEF BatchSwept
  <1>3. NotAhead(b.id)'
    BY <1>2 DEF CutMoved
  <1>4. ASSUME Since(new, b.id)'
        PROVE  Stands(b.messages)' /\ Harmless(b.events)' /\ (~b.reset => Since(new, before)')
    <2>1. Since(cut, b.id)
      BY <1>2, <1>4, SinceMoves
    <2>2. Stands(b.messages)' /\ Harmless(b.events)'
      BY <1>2, <1>4, <2>1, SinceMoves
    <2>3. ~b.reset => Since(new, before)'
      BY <1>2, <1>4, <2>1, SinceMoves
    <2> QED
      BY <2>2, <2>3
  <1>5. pipe'[v][j].batch = b /\ Id(v, j - 1)' = before
    BY <1>1
  <1> QED
    BY <1>3, <1>4, <1>5 DEF BatchSwept, Stands, Harmless, Since, NotAhead

LEMMA SweptPageStays ==
    ASSUME NEW cut, NEW new, CutMoved(cut, new), NEW c, NotAhead(c), NEW list,
           Since(cut, c) => Stands(list)
    PROVE  NotAhead(c)' /\ (Since(new, c)' => Stands(list)')
  <1>1. NotAhead(c)'
    BY DEF CutMoved
  <1>2. ASSUME Since(new, c)' PROVE Stands(list)'
    BY <1>2, SinceMoves
  <1> QED
    BY <1>1, <1>2

LEMMA SweptViewerStays ==
    ASSUME NEW cut, NEW new, CutMoved(cut, new), NEW v \in Viewers, ViewerSwept(cut, v), SameViewer(v)
    PROVE  ViewerSwept(new, v)'
  <1>1. PICK id, list, c : id = lastId[v] /\ list = view[v] /\ c = cursor[v]
    OBVIOUS
  <1>2. NotAhead(id) /\ NotAhead(c) /\ (Since(cut, id) => Stands(list))
    BY <1>1 DEF ViewerSwept
  <1>3. NotAhead(id)' /\ NotAhead(c)' /\ (Since(new, id)' => Stands(list)')
    BY <1>2, SweptPageStays DEF CutMoved
  <1>4. ASSUME NEW i \in DOMAIN pipe[v] PROVE BatchSwept(new, v, i)'
    <2>1. Id(v, i - 1)' = Id(v, i - 1) /\ pipe'[v][i] = pipe[v][i]
      BY DEF SameViewer, Id
    <2>2. BatchSwept(cut, v, i)
      BY DEF ViewerSwept
    <2> QED
      BY <2>1, <2>2, SweptBatchStays
  <1>5. lastId'[v] = id /\ view'[v] = list /\ cursor'[v] = c /\ DOMAIN pipe'[v] = DOMAIN pipe[v]
    BY <1>1 DEF SameViewer
  <1>6. NotAhead(lastId[v])' /\ NotAhead(cursor[v])' /\ (Since(new, lastId[v])' => Stands(view[v])')
    BY <1>3, <1>5 DEF NotAhead, Since, Stands
  <1>7. (conn'[v] => cursor'[v] = Id(v, Len(pipe[v]))') /\ (~conn'[v] => pipe'[v] = <<>>)
    BY DEF SameViewer, ViewerSwept, Id
  <1>8. \A i \in DOMAIN pipe'[v] : BatchSwept(new, v, i)'
    BY <1>4, <1>5
  <1> QED
    BY <1>6, <1>7, <1>8 DEF ViewerSwept

\* The events are events of the ring r.
FromRing(r, events) ==
    /\ events \in Seq(Event)
    /\ \A i \in DOMAIN events : \E j \in DOMAIN r : events[i] = r[j].event

LEMMA ReplayFromRing ==
    ASSUME NEW ep, NEW n \in Nat, NEW r \in Seq(RingEntry), EndsAt(r, n),
           NEW c \in Nat \X Nat, Recoverable(c, r, <<ep, n>>), NEW F
    PROVE  FromRing(r, ReplayFor(F, c, r, <<ep, n>>))
  <1>1. PICK all : all = ReplayBatch(c, r, <<ep, n>>).events
    OBVIOUS
  <1>2. EventsAfter(all, c, ep, n, r)
    BY <1>1, ReplaySuffix
  <1>3. all \in Seq(Event) /\ \A i \in DOMAIN all : \E j \in DOMAIN r : all[i] = r[j].event
    <2>1. PICK m : m = n - c[2]
      OBVIOUS
    <2>2. /\ all \in Seq(Event) /\ Len(all) = m
          /\ \A i \in 1 .. m : \E j \in DOMAIN r : r[j].event = all[i]
      BY <1>2, <2>1 DEF EventsAfter
    <2> QED
      BY <2>2
  <1>4. PICK P \in SUBSET DOMAIN all : P = {i \in DOMAIN all : PlatformOf[all[i].source] \in F}
    OBVIOUS
  <1>5. ReplayFor(F, c, r, <<ep, n>>) = Picked(all, P)
    BY <1>1, <1>4 DEF ReplayFor
  <1>6. PICK s, at : s = Picked(all, P) /\ s \in Seq(Event) /\ Places(all, P, s, at)
    BY <1>3, PickedPlaces
  <1>7. \A i \in DOMAIN s : at[i] \in DOMAIN all /\ s[i] = all[at[i]]
    BY <1>6 DEF Places
  <1> QED
    BY <1>3, <1>5, <1>6, <1>7 DEF FromRing

\* What a batch read with the cursor c carries: messages that the store holds,
\* or events of a ring that reaches back to c.
IsRead(b, c, r, cur, ms) ==
    /\ b \in Batch /\ b.id = cur
    /\ \/ /\ b.reset /\ b.events = <<>>
          /\ \A i \in DOMAIN b.messages : \E k \in DOMAIN ms : b.messages[i] = ms[k].event
       \/ /\ ~b.reset /\ b.messages = <<>>
          /\ c \in Nat \X Nat /\ Recoverable(c, r, cur) /\ FromRing(r, b.events)

LEMMA BatchIsRead ==
    ASSUME NEW ep \in Nat, NEW n \in Nat, NEW r \in Seq(RingEntry), EndsAt(r, n),
           NEW ms, HeldMessages(ms), NEW sts, HeldStates(sts),
           NEW c, c = None \/ c \in Nat \X Nat, NEW v,
           NEW b, b = Filtered(v, ReadBatch(c, r, <<ep, n>>, ms, sts))
    PROVE  IsRead(b, c, r, <<ep, n>>, ms)
  <1>1. PICK cur, F, nil : cur = <<ep, n>> /\ F = PlatformsFor(v) /\ nil = <<>> /\ Nothing(nil)
    BY NothingIs
  <1>2. cur \in Nat \X Nat /\ nil \in Seq(Event) /\ nil \in StateMaps
    BY <1>1 DEF Nothing
  <1>3. b = Filtered(v, ReadBatch(c, r, cur, ms, sts)) /\ F = PlatformsFor(v)
    BY <1>1
  <1>4. CASE Recoverable(c, r, cur)
    <2>1. c \in Nat \X Nat /\ Recoverable(c, r, <<ep, n>>)
      BY <1>1, <1>4 DEF Recoverable
    <2>2. PICK events : events = ReplayFor(F, c, r, cur)
      OBVIOUS
    <2>3. FromRing(r, events)
      <3>1. FromRing(r, ReplayFor(F, c, r, <<ep, n>>))
        BY <2>1, ReplayFromRing
      <3> QED
        BY <1>1, <2>2, <3>1
    <2>4. ReplayWritten(b, cur, events)
      <3>1. ReplayWritten(b, cur, ReplayFor(F, c, r, cur))
        BY <1>3, <1>4, FilteredReplay
      <3> QED
        BY <2>2, <3>1
    <2>5. b = [id |-> cur, reset |-> FALSE, messages |-> nil, states |-> nil, events |-> events]
      BY <1>1, <2>4 DEF ReplayWritten
    <2>6. b \in Batch
      BY <1>2, <2>3, <2>5, BatchIs DEF FromRing
    <2>7. b.id = cur /\ ~b.reset /\ b.messages = nil /\ b.events = events
      BY <2>5
    <2> QED
      BY <1>1, <2>1, <2>3, <2>6, <2>7 DEF IsRead
  <1>5. CASE ~Recoverable(c, r, cur)
    <2>1. SnapshotWritten(b, cur, F, ms, sts)
      BY <1>3, <1>5, FilteredSnapshot
    <2>2. PICK l, m : l = b.messages /\ m = StatesFor(F, sts)
      OBVIOUS
    <2>3. b = [id |-> cur, reset |-> TRUE, messages |-> l, states |-> m, events |-> nil]
      BY <1>1, <2>1, <2>2 DEF SnapshotWritten
    <2>4. l \in Seq(Event) /\ \A i \in DOMAIN l : \E k \in DOMAIN ms : l[i] = ms[k].event
      BY <2>1, <2>2 DEF SnapshotWritten, Shows
    <2>5. m \in StateMaps
      BY <2>2, StatesForMaps
    <2>6. b \in Batch
      <3>1. l \in Seq(Event) /\ nil \in Seq(Event) /\ cur \in Nat \X Nat
        BY <1>2, <2>4
      <3> QED
        BY <2>3, <2>5, <3>1, BatchIs
    <2>7. b.id = cur /\ b.reset /\ b.messages = l /\ b.events = nil
      BY <2>3
    <2> QED
      BY <1>1, <2>4, <2>6, <2>7 DEF IsRead
  <1> QED
    BY <1>4, <1>5

\* What a step leaves when it moves at most one viewer.
LEMMA SweptOn ==
    ASSUME NEW cut, Swept(cut), NEW new, CutMoved(cut, new), ViewShape', NEW v,
           \A u \in Viewers \ {v} : SameViewer(u), v \in Viewers => ViewerSwept(new, v)'
    PROVE  PagesSwept'
  <1>1. \A u \in Viewers : ViewerSwept(new, u)'
    BY SweptViewerStays DEF Swept
  <1>2. Swept(new)'
    BY <1>1 DEF Swept, CutMoved
  <1> QED
    BY <1>2 DEF PagesSwept

\* What the store gives out now stands, and no cursor is ahead of it.
LEMMA ReadStands ==
    ASSUME NEW new, StoreHolds', NoDeletedText', RingSince(new)', NEW b, NEW c,
           IsRead(b, c, ring', Cursor', messages')
    PROVE  /\ NotAhead(b.id)'
           /\ Stands(b.messages)' /\ Harmless(b.events)'
           /\ ~b.reset => Since(new, c)'
  <1>1. PICK ep, n, r, ms : ep = epoch' /\ n = sequence' /\ r = ring' /\ ms = messages'
    OBVIOUS
  <1>2. ep \in Nat /\ n \in Nat /\ new \in Nat /\ r \in Seq(RingEntry) /\ ms \in [DOMAIN ms -> Stored]
    BY <1>1, StoreHoldsContentNext DEF StoreHolds, TypeOK, CountersOK, ReplayOK, RingSince, HeldMessages
  <1>3. \A k \in DOMAIN ms : Standing(ms[k].event)'
    BY <1>1 DEF NoDeletedText, NoDeletedMessage
  <1>4. \A j \in DOMAIN r : r[j].event.type \in MessageTypes => Standing(r[j].event)'
    BY <1>1 DEF NoDeletedText, ReplayHoldsNoDeletedText
  <1>5. \A j \in DOMAIN r : new < r[j].seq
    BY <1>1 DEF RingSince
  <1>6. IsRead(b, c, r, <<ep, n>>, ms)
    BY <1>1 DEF Cursor
  <1>7. NotAhead(b.id)'
    <2>1. b.id = <<ep, n>>
      BY <1>6 DEF IsRead
    <2> QED
      BY <1>1, <1>2, <2>1 DEF NotAhead
  <1>8. PICK none, l, es : none = <<>> /\ l = b.messages /\ es = b.events
    OBVIOUS
  <1>9. DOMAIN none = {}
    BY <1>8
  <1>10. \A i \in DOMAIN l : Standing(l[i])'
    BY <1>3, <1>6, <1>8, <1>9 DEF IsRead
  <1>11. \A i \in DOMAIN es : es[i].type \in MessageTypes => Standing(es[i])'
    BY <1>4, <1>6, <1>8, <1>9 DEF IsRead, FromRing
  <1>12. ASSUME ~b.reset PROVE Since(new, c)'
    <2>1. c \in Nat \X Nat /\ Recoverable(c, r, <<ep, n>>)
      BY <1>6, <1>12 DEF IsRead
    <2>2. c # None /\ c[1] = ep /\ c[2] \in Nat /\ 1 \in DOMAIN r /\ r[1].seq - 1 <= c[2]
      BY <1>2, <2>1 DEF Recoverable
    <2>3. r[1].seq \in Nat /\ new < r[1].seq
      <3>1. r[1] \in RingEntry
        BY <1>2, <2>2
      <3> QED
        BY <1>5, <2>2, <3>1 DEF RingEntry
    <2>4. new <= c[2]
      BY <1>2, <2>2, <2>3
    <2> QED
      BY <1>1, <2>2, <2>4 DEF Since
  <1>13. Stands(l)' /\ Harmless(es)'
    BY <1>10, <1>11 DEF Stands, Harmless
  <1> QED
    BY <1>7, <1>8, <1>12, <1>13 DEF Stands, Harmless

\* A turn of the loop that writes a batch.
LEMMA PollWritesSwept ==
    ASSUME NEW cut, NEW new, CutMoved(cut, new), ViewShape, NEW v \in Viewers,
           ViewerSwept(cut, v), Poll(v), cursor[v] # Cursor'
    PROVE  ViewerSwept(new, v)' /\ pipe' \in [Viewers -> Seq(Sent)]
  <1>1. PICK b, up, cur, c, old, id, list :
           /\ b = Filtered(v, ReadBatch(cursor[v], ring', Cursor', messages', states'))
           /\ up = SeenBy(v)' /\ cur = Cursor' /\ c = cursor[v] /\ old = pipe[v]
           /\ id = lastId[v] /\ list = view[v]
    OBVIOUS
  <1>2. /\ conn[v] /\ conn' = conn
        /\ UNCHANGED <<lastId, view, viewStates>>
        /\ cursor' = [cursor EXCEPT ![v] = cur]
        /\ pipe' = [pipe EXCEPT ![v] = Append(old, [batch |-> b, upto |-> up])]
    BY <1>1 DEF Poll, pageVars
  <1>3. StoreHolds' /\ NoDeletedText' /\ RingSince(new)'
    BY DEF CutMoved
  <1>4. IsRead(b, c, ring', Cursor', messages')
    <2>1. PICK ep, n, r, ms, sts :
             ep = epoch' /\ n = sequence' /\ r = ring' /\ ms = messages' /\ sts = states'
      OBVIOUS
    <2>2. ep \in Nat /\ n \in Nat /\ r \in Seq(RingEntry) /\ EndsAt(r, n)
      BY <1>3, <2>1 DEF StoreHolds, TypeOK, CountersOK, ReplayOK, RingContiguous, EndsAt
    <2>3. HeldMessages(ms) /\ HeldStates(sts)
      BY <1>3, <2>1, StoreHoldsContentNext
    <2>4. c = None \/ c \in Nat \X Nat
      BY <1>1 DEF ViewShape
    <2>5. b = Filtered(v, ReadBatch(c, r, <<ep, n>>, ms, sts))
      BY <1>1, <2>1 DEF Cursor
    <2>6. IsRead(b, c, r, <<ep, n>>, ms)
      BY <2>2, <2>3, <2>4, <2>5, BatchIsRead
    <2> QED
      BY <2>1, <2>6 DEF Cursor
  <1>5. b \in Batch /\ b.id = cur
    BY <1>1, <1>4 DEF IsRead
  <1>6. /\ NotAhead(b.id)' /\ Stands(b.messages)' /\ Harmless(b.events)'
        /\ ~b.reset => Since(new, c)'
    BY <1>3, <1>4, ReadStands
  <1>7. PICK sent : sent = [batch |-> b, upto |-> up]
    OBVIOUS
  <1>8. sent \in Sent /\ sent.batch = b
    <2>1. up \in SUBSET Event
      BY <1>1, <1>3, SeenAreEventsNext
    <2> QED
      BY <1>5, <1>7, <2>1 DEF Sent
  <1>9. old \in Seq(Sent) /\ v \in DOMAIN pipe
    BY <1>1 DEF ViewShape
  <1>10. PICK m, more : m = Len(old) /\ more = Append(old, sent)
    OBVIOUS
  <1>11. /\ m \in Nat /\ DOMAIN old = 1 .. m /\ more \in Seq(Sent) /\ Len(more) = m + 1
         /\ DOMAIN more = 1 .. m + 1 /\ more[m + 1] = sent /\ \A i \in 1 .. m : more[i] = old[i]
    BY <1>8, <1>9, <1>10, AppendProperties
  <1>12. pipe'[v] = more /\ pipe' \in [Viewers -> Seq(Sent)]
    BY <1>2, <1>7, <1>10, <1>11 DEF ViewShape
  <1>13. Id(v, m)' = c
    <2>1. cursor[v] = Id(v, m)
      BY <1>1, <1>2, <1>10 DEF ViewerSwept
    <2>2. CASE m = 0
      BY <1>1, <1>2, <2>1, <2>2 DEF Id
    <2>3. CASE m # 0
      <3>1. m \in 1 .. m
        BY <1>11, <2>3
      <3> QED
        BY <1>1, <1>11, <1>12, <2>1, <2>3, <3>1 DEF Id
    <2> QED
      BY <2>2, <2>3
  <1>14. Id(v, m + 1)' = cur
    BY <1>5, <1>8, <1>11, <1>12 DEF Id
  <1>15. NotAhead(id)' /\ (Since(new, id)' => Stands(list)')
    <2>1. NotAhead(id) /\ (Since(cut, id) => Stands(list))
      BY <1>1 DEF ViewerSwept
    <2> QED
      BY <2>1, SweptPageStays
  <1>16. ASSUME NEW i \in 1 .. m + 1 PROVE BatchSwept(new, v, i)'
    <2>1. CASE i = m + 1
      <3>1. (m + 1) - 1 = m /\ pipe'[v][i] = sent
        BY <1>11, <1>12, <2>1
      <3>2. Id(v, i - 1)' = c /\ pipe'[v][i].batch = b
        BY <1>8, <1>13, <2>1, <3>1
      <3> QED
        BY <1>6, <3>2 DEF BatchSwept, NotAhead, Since, Stands, Harmless
    <2>2. CASE i # m + 1
      <3>1. i \in 1 .. m /\ (i - 1 # 0 => i - 1 \in 1 .. m)
        BY <1>11, <2>2
      <3>2. pipe'[v][i] = pipe[v][i]
        BY <1>1, <1>11, <1>12, <3>1
      <3>3. Id(v, i - 1)' = Id(v, i - 1)
        BY <1>1, <1>2, <1>11, <1>12, <3>1 DEF Id
      <3>4. BatchSwept(cut, v, i)
        BY <1>1, <1>11, <3>1 DEF ViewerSwept
      <3> QED
        BY <3>2, <3>3, <3>4, SweptBatchStays
    <2> QED
      BY <2>1, <2>2
  <1>17. NotAhead(lastId[v])' /\ (Since(new, lastId[v])' => Stands(view[v])')
    BY <1>1, <1>2, <1>15 DEF NotAhead, Since, Stands
  <1>18. NotAhead(cursor[v])' /\ cursor'[v] = cur /\ conn'[v]
    <2>1. cursor'[v] = cur
      BY <1>2 DEF ViewShape
    <2> QED
      BY <1>2, <1>5, <1>6, <2>1 DEF NotAhead
  <1>19. /\ (conn'[v] => cursor'[v] = Id(v, Len(pipe[v]))')
         /\ (~conn'[v] => pipe'[v] = <<>>)
    BY <1>11, <1>12, <1>14, <1>18
  <1>20. \A i \in DOMAIN pipe'[v] : BatchSwept(new, v, i)'
    BY <1>11, <1>12, <1>16
  <1> QED
    BY <1>12, <1>17, <1>18, <1>19, <1>20 DEF ViewerSwept

LEMMA PollSweeps ==
    ASSUME NEW cut, Swept(cut), NEW v \in Viewers, Poll(v)
    PROVE  PagesSwept'
  <1>1. PICK new : CutMoved(cut, new)
    <2>1. StoreMoves
      BY DEF Poll, StoreMoves
    <2> QED
      BY <2>1, CutMoves DEF Swept
  <1>2. /\ ViewShape /\ ViewerSwept(cut, v) /\ StoreHolds'
        /\ UNCHANGED <<conn, lastId, view, viewStates>>
        /\ cursor' = [cursor EXCEPT ![v] = Cursor']
    BY <1>1 DEF Swept, Poll, pageVars, CutMoved
  <1>3. Cursor' \in Nat \X Nat
    BY <1>2 DEF StoreHolds, TypeOK, CountersOK, Cursor
  <1>4. CASE cursor[v] = Cursor'
    <2>1. UNCHANGED <<cursor, pipe>>
      BY <1>2, <1>4 DEF Poll, ViewShape
    <2>2. ViewShape' /\ \A u \in Viewers : SameViewer(u)
      BY <1>2, <2>1 DEF ViewShape, SameViewer
    <2>3. ViewerSwept(new, v)'
      BY <1>1, <1>2, <2>2, SweptViewerStays
    <2> QED
      BY <1>1, <2>2, <2>3, SweptOn
  <1>5. CASE cursor[v] # Cursor'
    <2>1. ViewerSwept(new, v)' /\ pipe' \in [Viewers -> Seq(Sent)]
      BY <1>1, <1>2, <1>5, PollWritesSwept
    <2>2. ViewShape'
      BY <1>2, <1>3, <2>1 DEF ViewShape
    <2>3. \E more : pipe' = [pipe EXCEPT ![v] = more]
      BY <1>5 DEF Poll
    <2>4. \A u \in Viewers \ {v} : SameViewer(u)
      BY <1>2, <2>3 DEF SameViewer, ViewShape
    <2> QED
      BY <1>1, <2>1, <2>2, <2>4, SweptOn
  <1> QED
    BY <1>4, <1>5

LEMMA StoreStepSweeps ==
    ASSUME NEW cut, Swept(cut), StoreMoves, UNCHANGED <<serverVars, pageVars>>
    PROVE  PagesSwept'
  <1>1. PICK new : CutMoved(cut, new)
    BY CutMoves DEF Swept
  <1>2. \A u \in Viewers : SameViewer(u)
    BY DEF serverVars, pageVars, SameViewer
  <1>3. ViewShape'
    BY DEF Swept, ViewShape, serverVars, pageVars
  <1>4. PICK v : v \notin Viewers
    <2>1. {v \in Viewers : v \notin v} \notin Viewers
      OBVIOUS
    <2> QED
      BY <2>1
  <1> QED
    BY <1>1, <1>2, <1>3, <1>4, SweptOn

LEMMA ConnectSweeps ==
    ASSUME NEW cut, Swept(cut), NEW v \in Viewers, Connect(v)
    PROVE  PagesSwept'
  <1>1. PICK new : CutMoved(cut, new)
    <2>1. StoreMoves
      BY DEF Connect, StoreMoves
    <2> QED
      BY <2>1, CutMoves DEF Swept
  <1>2. PICK id, list : id = lastId[v] /\ list = view[v]
    OBVIOUS
  <1>3. /\ ViewShape /\ ViewerSwept(cut, v) /\ ~conn[v] /\ pipe[v] = <<>>
        /\ conn' = [conn EXCEPT ![v] = TRUE] /\ cursor' = [cursor EXCEPT ![v] = id]
        /\ UNCHANGED <<pipe, lastId, view, viewStates>>
    BY <1>2 DEF Swept, Connect, ViewerSwept, pageVars
  <1>4. ViewShape' /\ conn'[v] /\ cursor'[v] = id
    BY <1>2, <1>3 DEF ViewShape
  <1>5. \A u \in Viewers \ {v} : SameViewer(u)
    BY <1>3 DEF SameViewer, ViewShape
  <1>6. NotAhead(id)' /\ (Since(new, id)' => Stands(list)')
    <2>1. NotAhead(id) /\ (Since(cut, id) => Stands(list))
      BY <1>2, <1>3 DEF ViewerSwept
    <2> QED
      BY <1>1, <2>1, SweptPageStays
  <1>7. pipe'[v] = <<>> /\ DOMAIN pipe'[v] = {} /\ Len(pipe'[v]) = 0
    BY <1>3
  <1>8. Id(v, 0)' = id
    BY <1>2, <1>3 DEF Id
  <1>9. NotAhead(lastId[v])' /\ NotAhead(cursor[v])' /\ (Since(new, lastId[v])' => Stands(view[v])')
    BY <1>2, <1>3, <1>4, <1>6 DEF NotAhead, Since, Stands
  <1>10. ViewerSwept(new, v)'
    BY <1>4, <1>7, <1>8, <1>9 DEF ViewerSwept
  <1> QED
    BY <1>1, <1>4, <1>5, <1>10, SweptOn

LEMMA DropSweeps ==
    ASSUME NEW cut, Swept(cut), NEW v \in Viewers, Drop(v)
    PROVE  PagesSwept'
  <1>1. PICK new : CutMoved(cut, new)
    <2>1. StoreMoves
      BY DEF Drop, StoreMoves
    <2> QED
      BY <2>1, CutMoves DEF Swept
  <1>2. PICK id, list, c : id = lastId[v] /\ list = view[v] /\ c = cursor[v]
    OBVIOUS
  <1>3. /\ ViewShape /\ ViewerSwept(cut, v)
        /\ conn' = [conn EXCEPT ![v] = FALSE] /\ pipe' = [pipe EXCEPT ![v] = <<>>]
        /\ UNCHANGED <<cursor, lastId, view, viewStates>>
    BY DEF Swept, Drop, pageVars
  <1>4. ViewShape' /\ ~conn'[v] /\ pipe'[v] = <<>>
    BY <1>3 DEF ViewShape
  <1>5. \A u \in Viewers \ {v} : SameViewer(u)
    BY <1>3 DEF SameViewer, ViewShape
  <1>6. NotAhead(id)' /\ NotAhead(c)' /\ (Since(new, id)' => Stands(list)')
    <2>1. NotAhead(id) /\ NotAhead(c) /\ (Since(cut, id) => Stands(list))
      BY <1>2, <1>3 DEF ViewerSwept
    <2> QED
      BY <1>1, <2>1, SweptPageStays DEF CutMoved
  <1>7. NotAhead(lastId[v])' /\ NotAhead(cursor[v])' /\ (Since(new, lastId[v])' => Stands(view[v])')
    BY <1>2, <1>3, <1>6 DEF NotAhead, Since, Stands
  <1>8. DOMAIN pipe'[v] = {}
    BY <1>4
  <1>9. ViewerSwept(new, v)'
    BY <1>4, <1>7, <1>8 DEF ViewerSwept
  <1> QED
    BY <1>1, <1>4, <1>5, <1>9, SweptOn

LEMMA ReloadPageSweeps ==
    ASSUME NEW cut, Swept(cut), NEW v \in Viewers, ReloadPage(v)
    PROVE  PagesSwept'
  <1>1. PICK new : CutMoved(cut, new)
    <2>1. StoreMoves
      BY DEF ReloadPage, StoreMoves
    <2> QED
      BY <2>1, CutMoves DEF Swept
  <1>2. PICK nil, c : nil = <<>> /\ Nothing(nil) /\ c = cursor[v]
    BY NothingIs
  <1>3. /\ ViewShape /\ ViewerSwept(cut, v)
        /\ conn' = [conn EXCEPT ![v] = FALSE] /\ pipe' = [pipe EXCEPT ![v] = <<>>]
        /\ lastId' = [lastId EXCEPT ![v] = None] /\ view' = [view EXCEPT ![v] = nil]
        /\ viewStates' = [viewStates EXCEPT ![v] = nil]
        /\ UNCHANGED cursor
    BY <1>2 DEF Swept, ReloadPage
  <1>4. nil \in Seq(Event) /\ nil \in StateMaps /\ DOMAIN nil = {}
    BY <1>2 DEF Nothing
  <1>5. ViewShape' /\ ~conn'[v] /\ pipe'[v] = <<>> /\ lastId'[v] = None /\ view'[v] = nil
    BY <1>3, <1>4 DEF ViewShape
  <1>6. \A u \in Viewers \ {v} : SameViewer(u)
    BY <1>3 DEF SameViewer, ViewShape
  <1>7. NotAhead(c)'
    <2>1. NotAhead(c)
      BY <1>2, <1>3 DEF ViewerSwept
    <2> QED
      BY <1>1, <2>1 DEF CutMoved
  <1>8. NotAhead(lastId[v])' /\ NotAhead(cursor[v])' /\ Stands(view[v])'
    BY <1>2, <1>3, <1>4, <1>5, <1>7 DEF NotAhead, Stands
  <1>9. DOMAIN pipe'[v] = {}
    BY <1>5
  <1>10. ViewerSwept(new, v)'
    BY <1>5, <1>8, <1>9 DEF ViewerSwept
  <1> QED
    BY <1>1, <1>5, <1>6, <1>10, SweptOn

LEMMA RenderedStands ==
    ASSUME NEW list \in Seq(Event), Stands(list)
    PROVE  Stands(Rendered(list))
  <1>1. PICK P \in SUBSET DOMAIN list : P = {i \in DOMAIN list : Fresh(list[i])}
    OBVIOUS
  <1>2. Stands(Picked(list, P))
    BY PickedStands
  <1> QED
    BY <1>1, <1>2 DEF Rendered

LEMMA RenderedIsSeq ==
    ASSUME NEW list \in Seq(Event)
    PROVE  Rendered(list) \in Seq(Event)
  BY PickedIsSeq DEF Rendered

LEMMA PageClockSweeps ==
    ASSUME NEW cut, Swept(cut), NEW v \in Viewers, PageClock(v)
    PROVE  PagesSwept'
  <1>1. PICK new : CutMoved(cut, new)
    <2>1. StoreMoves
      BY DEF PageClock, StoreMoves
    <2> QED
      BY <2>1, CutMoves DEF Swept
  <1>2. PICK id, list, c : id = lastId[v] /\ list = Rendered(view[v]) /\ c = cursor[v]
    OBVIOUS
  <1>3. /\ ViewShape /\ ViewerSwept(cut, v)
        /\ UNCHANGED <<conn, cursor, pipe, lastId, viewStates>>
        /\ view' = [view EXCEPT ![v] = list]
    BY <1>2 DEF Swept, PageClock, serverVars
  <1>4. list \in Seq(Event) /\ view[v] \in Seq(Event)
    <2>1. view[v] \in Seq(Event)
      BY <1>3 DEF ViewShape
    <2> QED
      BY <1>2, <2>1, RenderedIsSeq
  <1>5. ViewShape' /\ view'[v] = list
    BY <1>3, <1>4 DEF ViewShape
  <1>6. \A u \in Viewers \ {v} : SameViewer(u)
    BY <1>3 DEF SameViewer, ViewShape
  <1>7. NotAhead(id)' /\ NotAhead(c)' /\ (Since(new, id)' => Stands(list)')
    <2>1. NotAhead(id) /\ NotAhead(c) /\ (Since(cut, id) => Stands(view[v]))
      BY <1>2, <1>3 DEF ViewerSwept
    <2>2. Since(cut, id) => Stands(list)
      BY <1>2, <1>4, <2>1, RenderedStands
    <2> QED
      BY <1>1, <2>1, <2>2, SweptPageStays DEF CutMoved
  <1>8. ASSUME NEW i \in DOMAIN pipe[v] PROVE BatchSwept(new, v, i)'
    <2>1. Id(v, i - 1)' = Id(v, i - 1) /\ pipe'[v][i] = pipe[v][i]
      BY <1>3 DEF Id
    <2>2. BatchSwept(cut, v, i)
      BY <1>3 DEF ViewerSwept
    <2> QED
      BY <1>1, <2>1, <2>2, SweptBatchStays
  <1>9. NotAhead(lastId[v])' /\ NotAhead(cursor[v])' /\ (Since(new, lastId[v])' => Stands(view[v])')
    BY <1>2, <1>3, <1>5, <1>7 DEF NotAhead, Since, Stands
  <1>10. (conn'[v] => cursor'[v] = Id(v, Len(pipe[v]))') /\ (~conn'[v] => pipe'[v] = <<>>)
    BY <1>3 DEF ViewerSwept, Id
  <1>11. \A i \in DOMAIN pipe'[v] : BatchSwept(new, v, i)'
    BY <1>3, <1>8
  <1>12. ViewerSwept(new, v)'
    BY <1>9, <1>10, <1>11 DEF ViewerSwept
  <1> QED
    BY <1>1, <1>5, <1>6, <1>12, SweptOn

\* The page after a batch since the cut shows nothing that a deletion took.
LEMMA DeliveredStands ==
    ASSUME ViewShape, NEW cut, NEW v \in Viewers, ViewerSwept(cut, v), NEW b \in Batch,
           Since(cut, b.id) => /\ Stands(b.messages) /\ Harmless(b.events)
                               /\ ~b.reset => Since(cut, lastId[v])
    PROVE  /\ NextList(v, b) \in Seq(Event)
           /\ Since(cut, b.id) => Stands(Rendered(NextList(v, b)))
  <1>1. PICK l, es : l = (IF b.reset THEN b.messages ELSE view[v]) /\ es = b.events
    OBVIOUS
  <1>2. l \in Seq(Event) /\ es \in Seq(Event) /\ b.reset \in BOOLEAN
    BY <1>1 DEF ViewShape, Batch
  <1>3. NextList(v, b) = ListAfter(l, es)
    BY <1>1 DEF NextList
  <1>4. ListAfter(l, es) \in Seq(Event)
    <2>1. PICK f \in [0 .. Len(es) -> Seq(Event)] : ListAfter(l, es) = f[Len(es)]
      BY <1>2, ListAfterRuns
    <2>2. Len(es) \in 0 .. Len(es)
      BY <1>2
    <2> QED
      BY <2>1, <2>2
  <1>5. ASSUME Since(cut, b.id) PROVE Stands(Rendered(ListAfter(l, es)))
    <2>1. Harmless(es)
      BY <1>1, <1>5
    <2>2. Stands(l)
      <3>1. CASE b.reset
        BY <1>1, <1>5, <3>1
      <3>2. CASE ~b.reset
        BY <1>1, <1>5, <3>2 DEF ViewerSwept
      <3> QED
        BY <3>1, <3>2
    <2>3. Stands(ListAfter(l, es))
      BY <1>2, <2>1, <2>2, ListAfterStands
    <2> QED
      BY <1>4, <2>3, RenderedStands
  <1> QED
    BY <1>3, <1>4, <1>5

LEMMA DeliverSweeps ==
    ASSUME NEW cut, Swept(cut), NEW v \in Viewers, Deliver(v)
    PROVE  PagesSwept'
  <1>1. PICK new : CutMoved(cut, new)
    <2>1. StoreMoves
      BY DEF Deliver, StoreMoves
    <2> QED
      BY <2>1, CutMoves DEF Swept
  <1>2. PICK b, old, l, sts, c :
           /\ b = Head(pipe[v]).batch /\ old = pipe[v] /\ c = cursor[v]
           /\ l = Rendered(NextList(v, b)) /\ sts = NextStates(v, b)
    OBVIOUS
  <1>3. /\ ViewShape /\ ViewerSwept(cut, v) /\ old # <<>>
        /\ UNCHANGED <<conn, cursor>>
        /\ view' = [view EXCEPT ![v] = l]
        /\ viewStates' = [viewStates EXCEPT ![v] = sts]
        /\ lastId' = [lastId EXCEPT ![v] = b.id]
        /\ pipe' = [pipe EXCEPT ![v] = Tail(old)]
    BY <1>2 DEF Swept, Deliver, NextList, NextStates
  <1>4. PICK m \in Nat : m + 1 = Len(old)
    <2>1. old \in Seq(Sent) /\ Len(old) \in Nat /\ Len(old) # 0
      BY <1>2, <1>3 DEF ViewShape
    <2>2. Len(old) - 1 \in Nat /\ (Len(old) - 1) + 1 = Len(old)
      BY <2>1
    <2> QED
      BY <2>2
  <1>5. /\ old \in Seq(Sent) /\ DOMAIN old = 1 .. m + 1 /\ Head(old) = old[1] /\ old[1] \in Sent
        /\ Tail(old) \in Seq(Sent) /\ Len(Tail(old)) = m /\ DOMAIN Tail(old) = 1 .. m
        /\ \A i \in 1 .. m : Tail(old)[i] = old[i + 1]
    <2>1. old \in Seq(Sent)
      BY <1>2, <1>3 DEF ViewShape
    <2> QED
      BY <1>3, <1>4, <2>1, HeadTailProperties
  <1>6. b = pipe[v][1].batch /\ b \in Batch
    BY <1>2, <1>5 DEF Sent
  <1>7. /\ NotAhead(b.id)
        /\ Since(cut, b.id) => /\ Stands(b.messages) /\ Harmless(b.events)
                               /\ ~b.reset => Since(cut, lastId[v])
    <2>1. BatchSwept(cut, v, 1)
      BY <1>2, <1>3, <1>4, <1>5 DEF ViewerSwept
    <2>2. Id(v, 1 - 1) = lastId[v]
      BY DEF Id
    <2> QED
      BY <1>6, <2>1, <2>2 DEF BatchSwept
  <1>8. l \in Seq(Event) /\ (Since(cut, b.id) => Stands(l))
    <2>1. /\ NextList(v, b) \in Seq(Event)
          /\ Since(cut, b.id) => Stands(Rendered(NextList(v, b)))
      BY <1>3, <1>6, <1>7, DeliveredStands
    <2> QED
      BY <1>2, <2>1, RenderedIsSeq
  <1>9. sts \in StateMaps
    <2>1. PICK s, es : s = (IF b.reset THEN b.states ELSE viewStates[v]) /\ es = b.events
      OBVIOUS
    <2>2. s \in StateMaps /\ es \in Seq(Event) /\ sts = StatesAfter(s, es)
      BY <1>2, <1>3, <1>6, <2>1 DEF ViewShape, Batch, NextStates
    <2>3. PICK f \in [0 .. Len(es) -> StateMaps] : StatesAfter(s, es) = f[Len(es)]
      BY <2>2, StatesAfterRuns
    <2>4. Len(es) \in 0 .. Len(es)
      BY <2>2
    <2> QED
      BY <2>2, <2>3, <2>4
  <1>10. b.id \in Nat \X Nat
    BY <1>6 DEF Batch
  <1>11. /\ view'[v] = l /\ lastId'[v] = b.id /\ pipe'[v] = Tail(old)
         /\ ViewShape'
    BY <1>3, <1>5, <1>8, <1>9, <1>10 DEF ViewShape
  <1>12. \A u \in Viewers \ {v} : SameViewer(u)
    BY <1>3 DEF SameViewer, ViewShape
  <1>13. NotAhead(b.id)' /\ NotAhead(c)' /\ (Since(new, b.id)' => Stands(l)')
    <2>1. NotAhead(c)
      BY <1>2, <1>3 DEF ViewerSwept
    <2>2. PICK id : id = b.id
      OBVIOUS
    <2>3. NotAhead(id) /\ (Since(cut, id) => Stands(l))
      BY <1>7, <1>8, <2>2
    <2>4. NotAhead(id)' /\ (Since(new, id)' => Stands(l)')
      BY <1>1, <2>3, SweptPageStays
    <2>5. NotAhead(c)'
      BY <1>1, <2>1 DEF CutMoved
    <2> QED
      BY <2>2, <2>4, <2>5 DEF NotAhead, Since
  <1>14. /\ NotAhead(lastId[v])' /\ NotAhead(cursor[v])'
         /\ Since(new, lastId[v])' => Stands(view[v])'
    BY <1>2, <1>3, <1>11, <1>13 DEF NotAhead, Since, Stands
  <1>15. ASSUME NEW i \in 0 .. m PROVE Id(v, i)' = Id(v, i + 1)
    <2>1. CASE i = 0
      BY <1>6, <1>11, <2>1 DEF Id
    <2>2. CASE i # 0
      <3>1. i \in 1 .. m /\ i + 1 # 0
        BY <2>2
      <3>2. pipe'[v][i] = pipe[v][i + 1]
        BY <1>2, <1>5, <1>11, <3>1
      <3> QED
        BY <2>2, <3>1, <3>2 DEF Id
    <2> QED
      BY <2>1, <2>2
  <1>16. (conn'[v] => cursor'[v] = Id(v, Len(pipe[v]))') /\ (~conn'[v] => pipe'[v] = <<>>)
    <2>1. conn[v] /\ cursor[v] = Id(v, m + 1)
      BY <1>2, <1>3, <1>4 DEF ViewerSwept
    <2>2. Id(v, m)' = Id(v, m + 1)
      BY <1>15
    <2> QED
      BY <1>3, <1>5, <1>11, <2>1, <2>2
  <1>17. ASSUME NEW i \in 1 .. m PROVE BatchSwept(new, v, i)'
    <2>1. PICK k \in 0 .. m : k = i - 1 /\ k + 1 = i
      <3>1. i - 1 \in 0 .. m /\ (i - 1) + 1 = i
        OBVIOUS
      <3> QED
        BY <3>1
    <2>2. Id(v, k)' = Id(v, k + 1)
      BY <1>15
    <2>3. Id(v, i - 1)' = Id(v, (i + 1) - 1)
      <3>1. (i + 1) - 1 = i
        OBVIOUS
      <3> QED
        BY <2>1, <2>2, <3>1
    <2>4. pipe'[v][i] = pipe[v][i + 1]
      BY <1>2, <1>5, <1>11
    <2>5. BatchSwept(cut, v, i + 1)
      <3>1. i + 1 \in DOMAIN pipe[v]
        BY <1>2, <1>5
      <3> QED
        BY <1>3, <3>1 DEF ViewerSwept
    <2> QED
      BY <1>1, <2>3, <2>4, <2>5, SweptBatchStays
  <1>18. \A i \in DOMAIN pipe'[v] : BatchSwept(new, v, i)'
    BY <1>5, <1>11, <1>17
  <1>19. ViewerSwept(new, v)'
    BY <1>14, <1>16, <1>18 DEF ViewerSwept
  <1> QED
    BY <1>1, <1>11, <1>12, <1>19, SweptOn

LEMMA ViewInitSweeps == ViewInit => PagesSwept
  <1> SUFFICES ASSUME ViewInit PROVE PagesSwept
    OBVIOUS
  <1>1. Init
    BY DEF ViewInit
  <1>2. PICK nil : nil = <<>> /\ Nothing(nil)
    BY NothingIs
  <1>3. StoreHolds /\ ViewShape
    BY ViewInitFollows DEF ViewersFollow, Follow
  <1>4. NoDeletedText
    BY <1>1, <1>2 DEF Init, NoDeletedText, NoDeletedMessage, ReplayHoldsNoDeletedText, Nothing
  <1>5. RingSince(0)
    BY <1>1, <1>2 DEF Init, RingSince, Nothing
  <1>6. \A v \in Viewers : ViewerSwept(0, v)
    BY <1>2 DEF ViewInit, ViewerSwept, NotAhead, Since, Nothing
  <1> QED
    BY <1>3, <1>4, <1>5, <1>6 DEF PagesSwept, Swept

LEMMA PagesSweptStep ==
    ASSUME PagesSwept, [ViewNext]_<<vars, viewVars>>
    PROVE  PagesSwept'
  <1>1. PICK cut : Swept(cut)
    BY DEF PagesSwept
  <1>2. CASE StoreStep
    <2>1. StoreMoves /\ UNCHANGED <<serverVars, pageVars>>
      BY <1>2 DEF StoreStep, StoreMoves, viewVars, serverVars, pageVars
    <2> QED
      BY <1>1, <2>1, StoreStepSweeps
  <1>3. CASE UNCHANGED <<vars, viewVars>>
    <2>1. StoreMoves /\ UNCHANGED <<serverVars, pageVars>>
      BY <1>3 DEF StoreMoves, viewVars, serverVars, pageVars
    <2> QED
      BY <1>1, <2>1, StoreStepSweeps
  <1>4. ASSUME NEW v \in Viewers, Connect(v) PROVE PagesSwept'
    BY <1>1, <1>4, ConnectSweeps
  <1>5. ASSUME NEW v \in Viewers, Poll(v) PROVE PagesSwept'
    BY <1>1, <1>5, PollSweeps
  <1>6. ASSUME NEW v \in Viewers, Deliver(v) PROVE PagesSwept'
    BY <1>1, <1>6, DeliverSweeps
  <1>7. ASSUME NEW v \in Viewers, PageClock(v) PROVE PagesSwept'
    BY <1>1, <1>7, PageClockSweeps
  <1>8. ASSUME NEW v \in Viewers, Drop(v) PROVE PagesSwept'
    BY <1>1, <1>8, DropSweeps
  <1>9. ASSUME NEW v \in Viewers, ReloadPage(v) PROVE PagesSwept'
    BY <1>1, <1>9, ReloadPageSweeps
  <1>10. ASSUME NEW S \in SourceSets, NEW O \in OverlayChoices, SaveProfile(S, O)
         PROVE  PagesSwept'
    <2>1. StoreMoves /\ UNCHANGED <<serverVars, pageVars>>
      BY <1>10 DEF SaveProfile, StoreMoves
    <2> QED
      BY <1>1, <2>1, StoreStepSweeps
  <1> QED
    BY <1>2, <1>3, <1>4, <1>5, <1>6, <1>7, <1>8, <1>9, <1>10 DEF ViewNext

LEMMA SweptPagesShowNoDeletedText == PagesSwept => DeletedLeavesScreen
  <1> SUFFICES ASSUME NEW cut, Swept(cut), NEW v \in Viewers, lastId[v] = Cursor
               PROVE  Stands(view[v])
    BY DEF PagesSwept, DeletedLeavesScreen, Stands
  <1>1. epoch \in Nat /\ sequence \in Nat /\ cut <= sequence
    BY DEF Swept, StoreHolds, TypeOK, CountersOK, RingSince
  <1>2. lastId[v] = <<epoch, sequence>> /\ lastId[v] # None
    BY <1>1, ViewAssumption DEF Cursor
  <1>3. Since(cut, lastId[v])
    BY <1>1, <1>2 DEF Since
  <1> QED
    BY <1>3 DEF Swept, ViewerSwept

\* Whatever profile saves, replacements, crashes and lost batches there were: a
\* page is stamped with the store's cursor only by batches that a deletion has
\* swept, even when the deletion itself was filtered from its replay.
THEOREM ViewPagesSwept == ViewSpec => []PagesSwept
  <1> QED
    BY ViewInitSweeps, PagesSweptStep, PTL DEF ViewSpec

\* A page at the store's cursor shows no message that a barrier of the store
\* takes: deletions leave every screen, for every value of the constants.
THEOREM ViewDeletedLeavesScreen == ViewSpec => []DeletedLeavesScreen
  <1> QED
    BY ViewPagesSwept, SweptPagesShowNoDeletedText, PTL

=============================================================================
