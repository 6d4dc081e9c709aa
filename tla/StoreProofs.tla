---------------------------- MODULE StoreProofs ----------------------------
(* What holds of the store for every number of sources, messages and       *)
(* barriers, every history length and every limit.                          *)
EXTENDS Store, TLAPS, FiniteSetTheorems, SequenceTheorems, WellFoundedInduction

-----------------------------------------------------------------------------
(* What reaches a handler, and the two sequences a handler works on.        *)

LEMMA StampedIsEvent ==
    ASSUME NEW i \in Inputs, NEW t \in Stamps
    PROVE  Stamped(i, t) \in Event
  <1>1. t \in Nat /\ i \in Event
    BY InputAssumption DEF Stamps
  <1> QED
    BY <1>1 DEF Stamped, Event

LEMMA KeepNewestSuffix ==
    ASSUME NEW S, NEW s \in Seq(S)
    PROVE  /\ KeepNewest(s) \in Seq(S)
           /\ Len(KeepNewest(s)) <= RingLimit
           /\ Len(KeepNewest(s)) <= Len(s)
           /\ s # <<>> => KeepNewest(s) # <<>>
           /\ \A i \in DOMAIN KeepNewest(s) :
                 /\ Len(s) - Len(KeepNewest(s)) + i \in DOMAIN s
                 /\ KeepNewest(s)[i] = s[Len(s) - Len(KeepNewest(s)) + i]
  <1>0. RingLimit \in Nat /\ RingLimit > 0
    BY LimitsAssumption
  <1>1. CASE Len(s) <= RingLimit
    BY <1>0, <1>1 DEF KeepNewest
  <1>2. CASE Len(s) > RingLimit
    <2> DEFINE first == Len(s) - RingLimit + 1
    <2>1. KeepNewest(s) = SubSeq(s, first, Len(s))
      BY <1>2 DEF KeepNewest
    <2>2. first \in Int /\ Len(s) \in Int /\ first >= 1 /\ first <= Len(s)
      BY <1>0, <1>2
    <2>3. \A i \in first .. Len(s) : s[i] \in S
      BY <2>2
    <2>4. /\ SubSeq(s, first, Len(s)) \in Seq(S)
          /\ Len(SubSeq(s, first, Len(s))) = RingLimit
          /\ \A i \in 1 .. RingLimit : SubSeq(s, first, Len(s))[i] = s[first + i - 1]
      <3> HIDE DEF first
      <3>1. /\ SubSeq(s, first, Len(s)) \in Seq(S)
            /\ Len(SubSeq(s, first, Len(s))) =
                  IF first <= Len(s) THEN Len(s) - first + 1 ELSE 0
            /\ \A i \in 1 .. Len(s) - first + 1 :
                  SubSeq(s, first, Len(s))[i] = s[first + i - 1]
        BY <2>2, <2>3, SubSeqProperties
      <3>2. Len(s) - first + 1 = RingLimit
        BY <1>0 DEF first
      <3> QED
        BY <2>2, <3>1, <3>2
    <2>5. KeepNewest(s) \in Seq(S) /\ Len(KeepNewest(s)) = RingLimit
      BY <2>1, <2>4
    <2>6. KeepNewest(s) # <<>>
      BY <1>0, <2>5
    <2>7. \A i \in 1 .. RingLimit : KeepNewest(s)[i] = s[Len(s) - RingLimit + i]
      BY <1>0, <2>1, <2>4
    <2>8. ASSUME NEW i \in DOMAIN KeepNewest(s)
          PROVE  /\ Len(s) - Len(KeepNewest(s)) + i \in DOMAIN s
                 /\ KeepNewest(s)[i] = s[Len(s) - Len(KeepNewest(s)) + i]
      <3>1. i \in 1 .. RingLimit
        BY <2>5
      <3>2. Len(s) - RingLimit + i \in 1 .. Len(s)
        BY <1>0, <1>2, <3>1
      <3> QED
        BY <2>5, <2>7, <3>1, <3>2
    <2> QED
      BY <1>0, <1>2, <2>5, <2>6, <2>8
  <1> QED
    BY <1>0, <1>1, <1>2

LEMMA PushIsReplay ==
    ASSUME now \in Nat, NEW r \in Seq(RingEntry), NEW seq \in Nat, NEW e \in Event
    PROVE  /\ Push(r, seq, e) \in Seq(RingEntry)
           /\ Push(r, seq, e) # <<>>
           /\ Len(Push(r, seq, e)) <= RingLimit
  <1>1. Entry(seq, e) \in RingEntry
    BY LimitsAssumption DEF Entry, RingEntry
  <1>2. Append(r, Entry(seq, e)) \in Seq(RingEntry) /\ Append(r, Entry(seq, e)) # <<>>
    BY <1>1
  <1> QED
    BY <1>2, KeepNewestSuffix DEF Push

LEMMA NatMinimum ==
    ASSUME NEW S, S \subseteq Nat, S # {}
    PROVE  \E m \in S : \A n \in S : m <= n
  <1> DEFINE less == OpToRel(<, Nat)
  <1>1. \A m, n \in Nat : <<n, m>> \in less <=> n < m
    BY DEF OpToRel
  <1>2. IsWellFoundedOn(less, Nat)
    BY NatLessThanWellFounded
  <1> HIDE DEF less
  <1>3. PICK m \in S : \A n \in S : ~ (<<n, m>> \in less)
    BY <1>2, WFMin
  <1>4. ASSUME NEW n \in S PROVE m <= n
    <2>1. m \in Nat /\ n \in Nat
      OBVIOUS
    <2>2. ~ (n < m)
      BY <1>1, <1>3, <2>1
    <2> QED
      BY <2>1, <2>2
  <1> QED
    BY <1>4

LEMMA OldestIsOldest ==
    ASSUME MessagesOK, NEW keys \in SUBSET DOMAIN messages, keys # {}
    PROVE  /\ Oldest(keys) \in keys
           /\ \A j \in keys : messages[Oldest(keys)].pos <= messages[j].pos
  <1>1. \A k \in keys : messages[k].pos \in Nat
    BY DEF MessagesOK, Stored
  <1> DEFINE positions == {messages[k].pos : k \in keys}
  <1>2. positions \subseteq Nat /\ positions # {}
    BY <1>1
  <1>3. \E k \in keys : \A j \in keys : messages[k].pos <= messages[j].pos
    <2>1. \E m \in positions : \A n \in positions : m <= n
      <3> HIDE DEF positions
      <3> QED
        BY <1>2, NatMinimum
    <2> QED
      BY <2>1
  <1> QED
    BY <1>3 DEF Oldest

\* A full store gives up one of its messages, with an event of its own.
LEMMA EvictionIsEvent ==
    ASSUME CountersOK, MessagesOK, NEW keys \in SUBSET DOMAIN messages,
           Cardinality(keys) >= MaxMessages
    PROVE  /\ Oldest(keys) \in keys
           /\ Eviction(Oldest(keys)) \in Event
           /\ Eviction(Oldest(keys)).type = "delete_message"
  <1>1. keys # {}
    BY FS_EmptySet, LimitsAssumption
  <1>2. Oldest(keys) \in keys
    BY <1>1, OldestIsOldest
  <1>3. messages[Oldest(keys)].event \in Event
    BY <1>2 DEF MessagesOK, Stored
  <1> QED
    BY <1>2, <1>3 DEF Eviction, Event, DeletionTypes, CountersOK

LEMMA RememberType ==
    ASSUME SeenOK, NEW e \in Event, Remember(e)
    PROVE  SeenOK'
  <1>1. DedupKey(e) \in DedupKeys
    BY DEF DedupKey, DedupKeys, Event
  <1> HIDE DEF DedupKeys
  <1>2. Append(seenOrder, DedupKey(e)) \in Seq(DedupKeys) /\ Append(seenOrder, DedupKey(e)) # <<>>
    <2> DEFINE k == DedupKey(e)
    <2> HIDE DEF k
    <2>1. seenOrder \in Seq(DedupKeys) /\ k \in DedupKeys
      BY <1>1 DEF SeenOK, k
    <2>2. Append(seenOrder, k) \in Seq(DedupKeys) /\ Append(seenOrder, k) # <<>>
      BY <2>1, AppendProperties
    <2> QED
      BY <2>2 DEF k
  <1>3. Tail(Append(seenOrder, DedupKey(e))) \in Seq(DedupKeys)
    BY <1>2
  <1>4. seenOrder' = Append(seenOrder, DedupKey(e)) \/ seenOrder' = Tail(Append(seenOrder, DedupKey(e)))
    BY DEF Remember
  <1> QED
    BY <1>2, <1>3, <1>4 DEF SeenOK

-----------------------------------------------------------------------------
(* Type correctness, one lemma per handler.                                 *)

LEMMA IngestMessageType ==
    ASSUME TypeOK, NEW e \in Event, IngestMessage(e)
    PROVE  TypeOK'
  <1> DEFINE others == DOMAIN messages \ {Key(e)}
             full   == Cardinality(others) >= MaxMessages
             out    == IF full THEN Oldest(others) ELSE Key(e)
             pos    == IF full THEN sequence + 2 ELSE sequence + 1
             stored == [event |-> [e EXCEPT !.type = "message"], pos |-> pos,
                        expires |-> now + History]
  <1>1. /\ messages' = [k \in (others \ {out}) \cup {Key(e)} |->
                           IF k = Key(e) THEN stored ELSE messages[k]]
        /\ ring' = Push(IF full THEN Push(ring, sequence + 1, Eviction(out)) ELSE ring, pos, e)
        /\ sequence' = pos
        /\ Remember(e)
        /\ UNCHANGED <<epoch, states, barriers, sources, configured, now>>
    BY DEF IngestMessage, sourceVars
  <1>2. pos \in Nat /\ sequence + 1 \in Nat /\ now \in Nat
    BY DEF TypeOK, CountersOK
  <1>3. [e EXCEPT !.type = "message"] \in Event /\ Key([e EXCEPT !.type = "message"]) = Key(e)
    BY DEF Event, MessageTypes, Key
  <1>4. stored \in Stored
    BY <1>2, <1>3, LimitsAssumption DEF Stored
  <1>5. MessagesOK'
    BY <1>1, <1>3, <1>4 DEF TypeOK, MessagesOK
  <1>6. ReplayOK'
    <2>1. CASE full
      <3>1. Eviction(out) \in Event
        BY <2>1, EvictionIsEvent DEF TypeOK
      <3>2. Push(ring, sequence + 1, Eviction(out)) \in Seq(RingEntry)
        BY <1>2, <3>1, PushIsReplay DEF TypeOK, ReplayOK
      <3> QED
        BY <1>1, <1>2, <2>1, <3>2, PushIsReplay DEF ReplayOK
    <2>2. CASE ~full
      BY <1>1, <1>2, <2>2, PushIsReplay DEF TypeOK, ReplayOK
    <2> QED
      BY <2>1, <2>2
  <1>7. SeenOK'
    BY <1>1, RememberType DEF TypeOK
  <1> QED
    BY <1>1, <1>2, <1>5, <1>6, <1>7 DEF TypeOK, CountersOK, StatesOK, BarriersOK, SourcesOK

LEMMA IngestStateType ==
    ASSUME TypeOK, NEW e \in Event, IngestState(e)
    PROVE  TypeOK'
  <1>1. sequence + 1 \in Nat /\ now \in Nat
    BY DEF TypeOK, CountersOK
  <1>2. StatesOK'
    BY DEF IngestState, TypeOK, StatesOK, Event
  <1>3. ReplayOK'
    BY <1>1, PushIsReplay DEF IngestState, TypeOK, ReplayOK
  <1>4. SeenOK'
    BY RememberType DEF IngestState, TypeOK
  <1> QED
    BY <1>1, <1>2, <1>3, <1>4
    DEF IngestState, sourceVars, TypeOK, CountersOK, MessagesOK, BarriersOK, SourcesOK

LEMMA RaisedIsTime ==
    ASSUME BarriersOK, NEW e \in Event
    PROVE  /\ RaisedTo(e) \in Nat
           /\ TimeOf(e) \in Nat
           /\ RaisedTo(e) >= TimeOf(e)
           /\ BarrierOf(e) \in BarrierKey
           /\ BarrierOf(e) \in DOMAIN barriers => RaisedTo(e) >= barriers[BarrierOf(e)].at
  <1>1. TimeOf(e) \in Nat
    BY DEF TimeOf, Event
  <1>2. BarrierOf(e) \in BarrierKey
    BY DEF BarrierOf, MessageBarrier, AuthorBarrier, ChannelBarrier, BarrierKey, Event
  <1>3. BarrierOf(e) \in DOMAIN barriers => barriers[BarrierOf(e)].at \in Nat
    BY DEF BarriersOK, Barrier
  <1> QED
    BY <1>1, <1>2, <1>3 DEF RaisedTo

LEMMA IngestDeletionType ==
    ASSUME TypeOK, NEW e \in Event, IngestDeletion(e)
    PROVE  TypeOK'
  <1>1. sequence + 2 \in Nat /\ now \in Nat /\ now + History \in Nat
    BY LimitsAssumption DEF TypeOK, CountersOK
  <1>2. MessagesOK'
    BY DEF IngestDeletion, Delete, Restrict, TypeOK, MessagesOK
  <1>3. BarriersOK'
    <2>1. [expires |-> now + History, at |-> RaisedTo(e)] \in Barrier
      BY <1>1, RaisedIsTime DEF TypeOK, Barrier
    <2> QED
      BY <2>1, RaisedIsTime DEF IngestDeletion, Delete, TypeOK, BarriersOK
  <1>4. ReplayOK'
    <2>1. Entry(sequence + 2, e) \in RingEntry
      BY <1>1 DEF Entry, RingEntry
    <2> QED
      BY <2>1 DEF IngestDeletion, Delete, ReplayOK
  <1>5. SeenOK'
    BY RememberType DEF IngestDeletion, Delete, TypeOK
  <1> QED
    BY <1>1, <1>2, <1>3, <1>4, <1>5
    DEF IngestDeletion, Delete, sourceVars, TypeOK, CountersOK, StatesOK, SourcesOK

LEMMA CompactBarriersType ==
    ASSUME TypeOK, NEW e \in Event, CompactBarriers(e)
    PROVE  TypeOK'
  <1>1. now \in Nat /\ now + History \in Nat /\ epoch + 1 \in Nat
    BY LimitsAssumption DEF TypeOK, CountersOK
  <1>2. MessagesOK'
    BY DEF CompactBarriers, MessagesOK
  <1>3. BarriersOK'
    <2>1. [expires |-> now + History, at |-> e.received] \in Barrier
      BY <1>1 DEF Barrier, Event
    <2>2. \A s \in sources : ChannelBarrier(s) \in BarrierKey
      BY DEF TypeOK, SourcesOK, ChannelBarrier, BarrierKey
    <2> QED
      BY <2>1, <2>2 DEF CompactBarriers, BarriersOK
  <1>4. StatesOK'
    <2>1. \A s \in sources : s \in Sources /\ DegradedState(s) \in Event
      BY <1>1 DEF TypeOK, SourcesOK, DegradedState, Event
    <2> QED
      BY <2>1 DEF CompactBarriers, StatesOK
  <1>5. ReplayOK'
    <2>1. Entry(1, e) \in RingEntry
      BY <1>1 DEF Entry, RingEntry
    <2> QED
      BY <2>1 DEF CompactBarriers, ReplayOK
  <1>6. SeenOK'
    BY RememberType DEF CompactBarriers, TypeOK
  <1> QED
    BY <1>1, <1>2, <1>3, <1>4, <1>5, <1>6
    DEF CompactBarriers, sourceVars, TypeOK, CountersOK, SourcesOK

LEMMA ExpireType ==
    ASSUME TypeOK, Expire
    PROVE  TypeOK'
  <1>1. MessagesOK' /\ BarriersOK'
    BY DEF Expire, Prune, Restrict, TypeOK, MessagesOK, BarriersOK
  <1>2. CountersOK' /\ ReplayOK'
    BY DEF Expire, Prune, TypeOK, CountersOK, ReplayOK
  <1> QED
    BY <1>1, <1>2
    DEF Expire, Prune, seenVars, sourceVars, TypeOK, StatesOK, SeenOK, SourcesOK

LEMMA OtherStepsType ==
    ASSUME TypeOK, Restart \/ Tick \/ (\E S \in SourceSets : UpdateSources(S)) \/ UNCHANGED vars
    PROVE  TypeOK'
  <1> USE DEF TypeOK, CountersOK, MessagesOK, StatesOK, ReplayOK, SeenOK, BarriersOK, SourcesOK
  <1>1. CASE Restart
    BY <1>1, InputAssumption DEF Restart
  <1>2. CASE Tick
    BY <1>2 DEF Tick
  <1>3. CASE \E S \in SourceSets : UpdateSources(S)
    BY <1>3, InputAssumption DEF UpdateSources, contentVars, replayVars, seenVars
  <1>4. CASE UNCHANGED vars
    BY <1>4 DEF vars
  <1> QED
    BY <1>1, <1>2, <1>3, <1>4

LEMMA InitType == Init => TypeOK
  BY InputAssumption
  DEF Init, TypeOK, CountersOK, MessagesOK, StatesOK, ReplayOK, SeenOK, BarriersOK, SourcesOK

LEMMA TypeStep == TypeOK /\ [Next]_vars => TypeOK'
  <1> SUFFICES ASSUME TypeOK, [Next]_vars
               PROVE  TypeOK'
    OBVIOUS
  <1>1. ASSUME NEW i \in Inputs, NEW t \in Stamps, Ingest(Stamped(i, t))
        PROVE  TypeOK'
    BY <1>1, StampedIsEvent, IngestMessageType, IngestStateType, IngestDeletionType,
       CompactBarriersType DEF Ingest
  <1> QED
    BY <1>1, ExpireType, OtherStepsType DEF Next

\* The shape of the store's state holds in every run: messages are filed under
\* their own key, the replay and the deduplication queue are sequences, every
\* barrier has a time to compare with.
THEOREM StoreTypeCorrect == Spec => []TypeOK
  BY InitType, TypeStep, PTL DEF Spec

-----------------------------------------------------------------------------
(* Replay: the ring is a suffix of the local history.                       *)

EndsAt(r, n) == \A i \in DOMAIN r : r[i].seq = n - Len(r) + i

LEMMA PushContents ==
    ASSUME now \in Nat, NEW r \in Seq(RingEntry), NEW seq \in Nat, NEW e \in Event,
           NEW i \in DOMAIN Push(r, seq, e)
    PROVE  Push(r, seq, e)[i] = Entry(seq, e) \/ \E j \in DOMAIN r : Push(r, seq, e)[i] = r[j]
  <1> DEFINE s == Append(r, Entry(seq, e))
  <1>1. s \in Seq(RingEntry)
    BY LimitsAssumption DEF Entry, RingEntry
  <1>2. \A j \in DOMAIN s : s[j] = Entry(seq, e) \/ (j \in DOMAIN r /\ s[j] = r[j])
    OBVIOUS
  <1> HIDE DEF s
  <1>3. \E j \in DOMAIN s : KeepNewest(s)[i] = s[j]
    BY <1>1, KeepNewestSuffix DEF Push, s
  <1> QED
    BY <1>2, <1>3 DEF Push, s

LEMMA PushEndsAt ==
    ASSUME now \in Nat, NEW r \in Seq(RingEntry), NEW n \in Nat, NEW e \in Event, EndsAt(r, n)
    PROVE  EndsAt(Push(r, n + 1, e), n + 1)
  <1> DEFINE s == Append(r, Entry(n + 1, e))
  <1>1. s \in Seq(RingEntry) /\ Len(s) = Len(r) + 1
    BY LimitsAssumption DEF Entry, RingEntry
  <1>2. \A j \in DOMAIN s : s[j].seq = n + 1 - Len(s) + j
    BY DEF EndsAt, Entry
  <1> HIDE DEF s
  <1>3. Push(r, n + 1, e) = KeepNewest(s)
    BY DEF Push, s
  <1>4. ASSUME NEW i \in DOMAIN KeepNewest(s)
        PROVE  KeepNewest(s)[i].seq = n + 1 - Len(KeepNewest(s)) + i
    <2> DEFINE j == Len(s) - Len(KeepNewest(s)) + i
    <2>1. KeepNewest(s) \in Seq(RingEntry) /\ i \in Nat /\ Len(KeepNewest(s)) \in Nat
      BY <1>1, KeepNewestSuffix
    <2>2. j \in DOMAIN s /\ KeepNewest(s)[i] = s[j]
      BY <1>1, KeepNewestSuffix
    <2>3. s[j].seq = n + 1 - Len(s) + j
      BY <1>2, <2>2
    <2>4. Len(s) \in Nat
      BY <1>1
    <2>5. n + 1 - Len(s) + j = n + 1 - Len(KeepNewest(s)) + i
      BY <2>1, <2>4
    <2> QED
      BY <2>2, <2>3, <2>5
  <1> QED
    BY <1>3, <1>4 DEF EndsAt

LEMMA ContiguousIngestMessage ==
    ASSUME TypeOK, RingContiguous, NEW e \in Event, IngestMessage(e)
    PROVE  RingContiguous'
  <1> DEFINE others == DOMAIN messages \ {Key(e)}
             out    == Oldest(others)
  <1>1. sequence \in Nat /\ sequence + 1 \in Nat /\ now \in Nat
    BY DEF TypeOK, CountersOK
  <1>2. ring \in Seq(RingEntry) /\ EndsAt(ring, sequence)
    BY DEF TypeOK, ReplayOK, RingContiguous, EndsAt
  <1>3. CASE Cardinality(others) >= MaxMessages
    <2>1. /\ sequence' = (sequence + 1) + 1
          /\ ring' = Push(Push(ring, sequence + 1, Eviction(out)), (sequence + 1) + 1, e)
      BY <1>1, <1>3 DEF IngestMessage
    <2>2. Eviction(out) \in Event
      BY <1>3, EvictionIsEvent DEF TypeOK
    <2> DEFINE r == Push(ring, sequence + 1, Eviction(out))
    <2>3. r \in Seq(RingEntry) /\ EndsAt(r, sequence + 1)
      BY <1>1, <1>2, <2>2, PushIsReplay, PushEndsAt
    <2> HIDE DEF r
    <2>4. EndsAt(Push(r, (sequence + 1) + 1, e), (sequence + 1) + 1)
      BY <1>1, <2>3, PushEndsAt
    <2> QED
      BY <2>1, <2>4 DEF r, RingContiguous, EndsAt
  <1>4. CASE ~(Cardinality(others) >= MaxMessages)
    <2>1. sequence' = sequence + 1 /\ ring' = Push(ring, sequence + 1, e)
      BY <1>4 DEF IngestMessage
    <2> QED
      BY <1>1, <1>2, <2>1, PushEndsAt DEF RingContiguous, EndsAt
  <1> QED
    BY <1>3, <1>4

LEMMA ContiguousStep == TypeOK /\ RingContiguous /\ [Next]_vars => RingContiguous'
  <1> SUFFICES ASSUME TypeOK, RingContiguous, [Next]_vars
               PROVE  RingContiguous'
    OBVIOUS
  <1>1. ASSUME NEW i \in Inputs, NEW t \in Stamps, Ingest(Stamped(i, t))
        PROVE  RingContiguous'
    <2> DEFINE e == Stamped(i, t)
    <2>1. e \in Event
      BY StampedIsEvent
    <2> HIDE DEF e
    <2>2. sequence \in Nat /\ now \in Nat /\ ring \in Seq(RingEntry)
      BY DEF TypeOK, CountersOK, ReplayOK
    <2>3. CASE IngestState(e)
      <3>1. EndsAt(Push(ring, sequence + 1, e), sequence + 1)
        BY <2>1, <2>2, PushEndsAt DEF RingContiguous, EndsAt
      <3> QED
        BY <2>3, <3>1 DEF IngestState, RingContiguous, EndsAt
    <2>4. CASE IngestDeletion(e)
      BY <2>2, <2>4 DEF IngestDeletion, Delete, RingContiguous, Entry
    <2>5. CASE CompactBarriers(e)
      BY <2>5 DEF CompactBarriers, RingContiguous, Entry
    <2> QED
      BY <1>1, <2>1, <2>3, <2>4, <2>5, ContiguousIngestMessage DEF Ingest, e
  <1>2. CASE Expire
    BY <1>2 DEF Expire, Prune, RingContiguous
  <1>3. CASE Restart
    BY <1>3 DEF Restart, RingContiguous
  <1>4. CASE UNCHANGED <<ring, sequence>>
    BY <1>4 DEF RingContiguous
  <1> QED
    BY <1>1, <1>2, <1>3, <1>4 DEF Next, Tick, UpdateSources, replayVars, vars

\* Events after a recoverable cursor are in the ring without a hole.
THEOREM StoreReplayIsSuffix == Spec => []RingContiguous
  <1>1. Init => RingContiguous
    BY DEF Init, RingContiguous
  <1> QED
    BY <1>1, ContiguousStep, StoreTypeCorrect, PTL DEF Spec

-----------------------------------------------------------------------------
(* Deleted content: neither visible nor in the replay.                      *)

NoDeletedText == NoDeletedMessage /\ ReplayHoldsNoDeletedText

\* What the barriers let in, no barrier takes.
LEMMA AdmittedStands ==
    ASSUME NEW e \in Event, ~Blocked(e)
    PROVE  Standing(e) /\ Standing([e EXCEPT !.type = "message"])
  <1>1. Standing(e)
    BY DEF Blocked, Standing
  <1>2. Covers([e EXCEPT !.type = "message"]) = Covers(e)
    BY DEF Covers, Event
  <1>3. [e EXCEPT !.type = "message"].occurred = e.occurred
    BY DEF Event
  <1> QED
    BY <1>1, <1>2, <1>3 DEF Standing

LEMMA NoDeletedTextIngestMessage ==
    ASSUME TypeOK, NoDeletedText, NEW e \in Event, IngestMessage(e)
    PROVE  NoDeletedText'
  <1> DEFINE others == DOMAIN messages \ {Key(e)}
             out    == Oldest(others)
  <1>1. Standing(e) /\ Standing([e EXCEPT !.type = "message"])
    BY AdmittedStands DEF IngestMessage
  <1>2. barriers' = barriers
    BY DEF IngestMessage
  <1>3. \A k \in DOMAIN messages' :
            messages'[k].event = [e EXCEPT !.type = "message"]
            \/ (k \in DOMAIN messages /\ messages'[k] = messages[k])
    BY DEF IngestMessage
  <1>4. NoDeletedMessage'
    <2>1. ASSUME NEW k \in DOMAIN messages' PROVE Standing(messages'[k].event)
      BY <1>1, <1>3 DEF NoDeletedText, NoDeletedMessage
    <2> QED
      BY <1>2, <2>1 DEF NoDeletedMessage, Standing
  <1>5. sequence \in Nat /\ sequence + 1 \in Nat /\ sequence + 2 \in Nat /\ now \in Nat
        /\ ring \in Seq(RingEntry)
    BY DEF TypeOK, CountersOK, ReplayOK
  <1>6. ASSUME NEW i \in DOMAIN ring', ring'[i].event.type \in MessageTypes
        PROVE  Standing(ring'[i].event)
    <2>1. CASE Cardinality(others) >= MaxMessages
      <3> DEFINE r == Push(ring, sequence + 1, Eviction(out))
      <3>1. ring' = Push(r, sequence + 2, e)
        BY <2>1 DEF IngestMessage
      <3>2. Eviction(out) \in Event /\ Eviction(out).type = "delete_message"
        BY <2>1, EvictionIsEvent DEF TypeOK
      <3>3. r \in Seq(RingEntry)
        BY <1>5, <3>2, PushIsReplay
      <3>4. \A j \in DOMAIN r : r[j] = Entry(sequence + 1, Eviction(out))
                                  \/ \E l \in DOMAIN ring : r[j] = ring[l]
        BY <1>5, <3>2, PushContents
      <3> HIDE DEF r
      <3>5. ring'[i] = Entry(sequence + 2, e) \/ \E j \in DOMAIN r : ring'[i] = r[j]
        BY <1>5, <3>1, <3>3, PushContents
      <3>6. ~(Eviction(out).type \in MessageTypes)
        BY <3>2 DEF MessageTypes
      <3>7. \/ ring'[i] = Entry(sequence + 2, e)
            \/ \E l \in DOMAIN ring : ring'[i] = ring[l]
        <4>1. ring'[i] # Entry(sequence + 1, Eviction(out))
          BY <1>6, <3>6 DEF Entry
        <4> QED
          BY <3>4, <3>5, <4>1
      <3>8. CASE ring'[i] = Entry(sequence + 2, e)
        BY <1>1, <3>8 DEF Entry
      <3>9. CASE \E l \in DOMAIN ring : ring'[i] = ring[l]
        BY <1>6, <3>9 DEF NoDeletedText, ReplayHoldsNoDeletedText
      <3> QED
        BY <3>7, <3>8, <3>9
    <2>2. CASE ~(Cardinality(others) >= MaxMessages)
      <3>1. ring' = Push(ring, sequence + 1, e)
        BY <2>2 DEF IngestMessage
      <3>2. ring'[i] = Entry(sequence + 1, e) \/ \E l \in DOMAIN ring : ring'[i] = ring[l]
        BY <1>5, <3>1, PushContents
      <3>3. CASE ring'[i] = Entry(sequence + 1, e)
        BY <1>1, <3>3 DEF Entry
      <3>4. CASE \E l \in DOMAIN ring : ring'[i] = ring[l]
        BY <1>6, <3>4 DEF NoDeletedText, ReplayHoldsNoDeletedText
      <3> QED
        BY <3>2, <3>3, <3>4
    <2> QED
      BY <2>1, <2>2
  <1> QED
    BY <1>2, <1>4, <1>6 DEF NoDeletedText, ReplayHoldsNoDeletedText, Standing

LEMMA NoDeletedTextIngestDeletion ==
    ASSUME TypeOK, NoDeletedText, NEW e \in Event, IngestDeletion(e)
    PROVE  NoDeletedText'
  <1>1. ASSUME NEW k \in DOMAIN messages', NEW b \in Covers(messages'[k].event) \cap DOMAIN barriers'
        PROVE  b.kind # "message" /\ ~Older(messages'[k].event.occurred, barriers'[b].at)
    <2>1. k \in DOMAIN messages /\ k \notin Taken(e) /\ messages'[k] = messages[k]
      BY DEF IngestDeletion, Delete, Restrict
    <2>2. CASE b = BarrierOf(e)
      <3>1. barriers'[b].at = RaisedTo(e)
        BY <2>2 DEF IngestDeletion, Delete
      <3>2. e.type # "delete_message" /\ ~Older(messages[k].event.occurred, RaisedTo(e))
        BY <2>1, <2>2 DEF Taken
      <3>3. b.kind # "message"
        BY <2>2, <3>2 DEF BarrierOf, AuthorBarrier, ChannelBarrier
      <3> QED
        BY <2>1, <3>1, <3>2, <3>3
    <2>3. CASE b # BarrierOf(e)
      <3>1. b \in DOMAIN barriers /\ barriers'[b] = barriers[b]
        BY <2>3 DEF IngestDeletion, Delete
      <3> QED
        BY <2>1, <3>1 DEF NoDeletedText, NoDeletedMessage, Standing
    <2> QED
      BY <2>2, <2>3
  <1>2. \A i \in DOMAIN ring' : ring'[i].event = e
    BY DEF IngestDeletion, Delete, Entry
  <1>3. ~(e.type \in MessageTypes)
    BY DEF IngestDeletion, Delete, DeletionTypes, MessageTypes
  <1> QED
    BY <1>1, <1>2, <1>3
    DEF NoDeletedText, NoDeletedMessage, ReplayHoldsNoDeletedText, Standing

LEMMA NoDeletedTextStep == TypeOK /\ NoDeletedText /\ [Next]_vars => NoDeletedText'
  <1> SUFFICES ASSUME TypeOK, NoDeletedText, [Next]_vars
               PROVE  NoDeletedText'
    OBVIOUS
  <1> USE DEF NoDeletedText
  <1>1. ASSUME NEW i \in Inputs, NEW t \in Stamps, Ingest(Stamped(i, t))
        PROVE  NoDeletedText'
    <2> DEFINE e == Stamped(i, t)
    <2>1. e \in Event
      BY StampedIsEvent
    <2> HIDE DEF e
    <2>2. CASE IngestState(e)
      <3>1. UNCHANGED <<messages, barriers>> /\ ring' = Push(ring, sequence + 1, e)
        BY <2>2 DEF IngestState
      <3>2. ~(e.type \in MessageTypes)
        BY <2>2 DEF IngestState, MessageTypes
      <3>3. now \in Nat /\ sequence + 1 \in Nat /\ ring \in Seq(RingEntry)
        BY DEF TypeOK, CountersOK, ReplayOK
      <3>4. \A n \in DOMAIN ring' : ring'[n] = Entry(sequence + 1, e)
                                    \/ \E l \in DOMAIN ring : ring'[n] = ring[l]
        BY <2>1, <3>1, <3>3, PushContents
      <3>5. \A n \in DOMAIN ring' : ring'[n].event = e
                                    \/ \E l \in DOMAIN ring : ring'[n] = ring[l]
        BY <3>4 DEF Entry
      <3> QED
        BY <3>1, <3>2, <3>5 DEF NoDeletedMessage, ReplayHoldsNoDeletedText, Standing
    <2>3. CASE CompactBarriers(e)
      <3>1. messages' = <<>> /\ \A n \in DOMAIN ring' : ring'[n].event = e
        BY <2>3 DEF CompactBarriers, Entry
      <3>2. ~(e.type \in MessageTypes)
        BY <2>3 DEF CompactBarriers, DeletionTypes, MessageTypes
      <3> QED
        BY <3>1, <3>2 DEF NoDeletedMessage, ReplayHoldsNoDeletedText
    <2> QED
      BY <1>1, <2>1, <2>2, <2>3, NoDeletedTextIngestMessage, NoDeletedTextIngestDeletion
      DEF Ingest, e
  <1>2. CASE Expire
    <2>1. /\ \A k \in DOMAIN messages' : k \in DOMAIN messages /\ messages'[k] = messages[k]
          /\ \A b \in DOMAIN barriers' : b \in DOMAIN barriers /\ barriers'[b] = barriers[b]
          /\ ring' = ring \/ ring' = <<>>
      BY <1>2 DEF Expire, Prune, Restrict
    <2> QED
      BY <2>1 DEF NoDeletedMessage, ReplayHoldsNoDeletedText, Standing
  <1>3. CASE Restart
    BY <1>3 DEF Restart, NoDeletedMessage, ReplayHoldsNoDeletedText
  <1>4. CASE UNCHANGED <<messages, barriers, ring>>
    BY <1>4 DEF NoDeletedMessage, ReplayHoldsNoDeletedText, Standing
  <1> QED
    BY <1>1, <1>2, <1>3, <1>4 DEF Next, Tick, UpdateSources, contentVars, replayVars, vars

LEMMA NoDeletedTextAlways == Spec => []NoDeletedText
  <1>1. Init => NoDeletedText
    BY DEF Init, NoDeletedText, NoDeletedMessage, ReplayHoldsNoDeletedText
  <1> QED
    BY <1>1, NoDeletedTextStep, StoreTypeCorrect, PTL DEF Spec

\* Whatever the order of messages, edits, deletions and redeliveries, no
\* message that a remembered deletion took is visible.
THEOREM StoreHidesDeleted == Spec => []NoDeletedMessage
  BY NoDeletedTextAlways, PTL DEF NoDeletedText

\* Nor does the replay ring keep its text for a viewer that reconnects.
THEOREM StoreForgetsDeletedText == Spec => []ReplayHoldsNoDeletedText
  BY NoDeletedTextAlways, PTL DEF NoDeletedText

-----------------------------------------------------------------------------
(* Deduplication window.                                                    *)

LEMMA RememberWindow ==
    ASSUME SeenOK, SeenWindow, NEW e \in Event, DedupKey(e) \notin seen, Remember(e)
    PROVE  SeenWindow'
  <1> DEFINE k     == DedupKey(e)
             order == Append(seenOrder, k)
  <1>1. k \in DedupKeys
    BY DEF DedupKey, DedupKeys, Event
  <1>2. seenOrder \in Seq(DedupKeys) /\ k \notin Range(seenOrder)
    BY DEF SeenOK, SeenWindow
  <1> HIDE DEF k
  <1>3. order \in Seq(DedupKeys) /\ Len(order) = Len(seenOrder) + 1
        /\ \A i \in DOMAIN order : order[i] = IF i = Len(order) THEN k ELSE seenOrder[i]
    BY <1>1, <1>2
  <1>4. \A i \in DOMAIN seenOrder : seenOrder[i] # k
    BY <1>2 DEF Range
  <1>5. Range(order) = seen \cup {k}
    <2>1. DOMAIN order = DOMAIN seenOrder \cup {Len(order)}
      BY <1>2, <1>3
    <2>2. Len(order) \notin DOMAIN seenOrder
      BY <1>2, <1>3
    <2>3. Range(order) = Range(seenOrder) \cup {k}
      BY <1>3, <2>1, <2>2 DEF Range
    <2> QED
      BY <2>3 DEF SeenWindow
  <1>6. \A i, j \in DOMAIN order : order[i] = order[j] => i = j
    BY <1>2, <1>3, <1>4 DEF SeenWindow, IsInjective
  <1> HIDE DEF order
  <1>7. CASE Cardinality(seen \cup {k}) > SeenLimit
    <2>1. seen' = Range(order) \ {order[1]} /\ seenOrder' = Tail(order)
      BY <1>5, <1>7 DEF Remember, k, order
    <2>2. /\ Len(Tail(order)) = Len(order) - 1
          /\ Tail(order) \in Seq(DedupKeys)
          /\ \A i \in 1 .. Len(order) - 1 : Tail(order)[i] = order[i + 1]
      BY <1>2, <1>3
    <2>3. DOMAIN Tail(order) = 1 .. Len(order) - 1 /\ DOMAIN order = 1 .. Len(order)
          /\ Len(order) \in Nat /\ Len(order) > 0
      BY <1>2, <1>3, <2>2
    <2>4. IsInjective(Tail(order))
      <3>1. ASSUME NEW i \in DOMAIN Tail(order), NEW j \in DOMAIN Tail(order),
                   Tail(order)[i] = Tail(order)[j]
            PROVE  i = j
        <4>1. i + 1 \in DOMAIN order /\ j + 1 \in DOMAIN order
          BY <2>3
        <4>2. order[i + 1] = order[j + 1]
          BY <2>2, <2>3, <3>1
        <4>3. i + 1 = j + 1
          BY <1>6, <4>1, <4>2
        <4> QED
          BY <2>3, <4>3
      <3> QED
        BY <3>1 DEF IsInjective
    <2>5. Range(Tail(order)) = Range(order) \ {order[1]}
      <3>1. ASSUME NEW x \in Range(Tail(order)) PROVE x \in Range(order) \ {order[1]}
        <4>1. PICK i \in DOMAIN Tail(order) : x = Tail(order)[i]
          BY <3>1 DEF Range
        <4>2. i + 1 \in DOMAIN order /\ i + 1 # 1 /\ 1 \in DOMAIN order /\ x = order[i + 1]
          BY <2>2, <2>3, <4>1
        <4>3. order[i + 1] # order[1]
          BY <1>6, <4>2
        <4> QED
          BY <4>2, <4>3 DEF Range
      <3>2. ASSUME NEW x \in Range(order) \ {order[1]} PROVE x \in Range(Tail(order))
        <4>1. PICK i \in DOMAIN order : x = order[i]
          BY <3>2 DEF Range
        <4>2. i # 1
          BY <3>2, <4>1
        <4>3. i - 1 \in DOMAIN Tail(order) /\ Tail(order)[i - 1] = x
          BY <2>2, <2>3, <4>1, <4>2
        <4> QED
          BY <4>3 DEF Range
      <3> QED
        BY <3>1, <3>2
    <2> QED
      BY <2>1, <2>4, <2>5 DEF SeenWindow
  <1>8. CASE ~(Cardinality(seen \cup {k}) > SeenLimit)
    <2>1. seen' = seen \cup {k} /\ seenOrder' = order
      BY <1>8 DEF Remember, k, order
    <2> QED
      BY <1>5, <1>6, <2>1 DEF SeenWindow, IsInjective
  <1> QED
    BY <1>7, <1>8

LEMMA SeenWindowStep == TypeOK /\ SeenWindow /\ [Next]_vars => SeenWindow'
  <1> SUFFICES ASSUME TypeOK, SeenWindow, [Next]_vars
               PROVE  SeenWindow'
    OBVIOUS
  <1>1. ASSUME NEW i \in Inputs, NEW t \in Stamps, Ingest(Stamped(i, t))
        PROVE  SeenWindow'
    <2>1. Remember(Stamped(i, t)) /\ DedupKey(Stamped(i, t)) \notin seen
      BY <1>1 DEF Ingest, Admitted, IngestMessage, IngestState, IngestDeletion, Delete,
                  CompactBarriers
    <2> QED
      BY <2>1, StampedIsEvent, RememberWindow DEF TypeOK
  <1>2. CASE Restart
    BY <1>2 DEF Restart, SeenWindow, Range, IsInjective
  <1>3. CASE UNCHANGED seenVars
    BY <1>3 DEF seenVars, SeenWindow, Range, IsInjective
  <1> QED
    BY <1>1, <1>2, <1>3 DEF Next, Tick, UpdateSources, Expire, Prune, seenVars, vars

\* The map that answers "seen before" and the queue that bounds it never
\* drift apart, so the queue always evicts a key the map holds.
THEOREM StoreSeenWindow == Spec => []SeenWindow
  <1>1. Init => SeenWindow
    BY DEF Init, SeenWindow, Range, IsInjective
  <1> QED
    BY <1>1, SeenWindowStep, StoreTypeCorrect, PTL DEF Spec

-----------------------------------------------------------------------------
(* Order of the visible messages.                                           *)

LEMMA PositionsStep == TypeOK /\ PositionsOrderMessages /\ [Next]_vars => PositionsOrderMessages'
  <1> SUFFICES ASSUME TypeOK, PositionsOrderMessages, [Next]_vars
               PROVE  PositionsOrderMessages'
    OBVIOUS
  <1>0. sequence \in Nat /\ \A k \in DOMAIN messages : messages[k].pos \in Nat
    BY DEF TypeOK, CountersOK, MessagesOK, Stored
  <1>1. ASSUME NEW i \in Inputs, NEW t \in Stamps, Ingest(Stamped(i, t))
        PROVE  PositionsOrderMessages'
    <2> DEFINE e == Stamped(i, t)
    <2> HIDE DEF e
    <2>1. CASE IngestMessage(e)
      <3> DEFINE new == messages'[Key(e)].pos
      <3>1. /\ sequence' = new /\ new \in Nat /\ new > sequence
            /\ \A k \in DOMAIN messages' :
                  k = Key(e) \/ (k \in DOMAIN messages /\ messages'[k] = messages[k])
        <4>1. /\ Key(e) \in DOMAIN messages'
              /\ new = sequence'
              /\ \A k \in DOMAIN messages' :
                    k = Key(e) \/ (k \in DOMAIN messages /\ messages'[k] = messages[k])
          BY <2>1 DEF IngestMessage
        <4>2. sequence' = sequence + 1 \/ sequence' = sequence + 2
          BY <2>1 DEF IngestMessage
        <4> QED
          BY <1>0, <4>1, <4>2
      <3> QED
        BY <1>0, <3>1 DEF PositionsOrderMessages
    <2>2. CASE IngestState(e)
      BY <1>0, <2>2 DEF IngestState, PositionsOrderMessages
    <2>3. CASE IngestDeletion(e)
      BY <1>0, <2>3 DEF IngestDeletion, Delete, Restrict, PositionsOrderMessages
    <2>4. CASE CompactBarriers(e)
      BY <2>4 DEF CompactBarriers, PositionsOrderMessages
    <2> QED
      BY <1>1, <2>1, <2>2, <2>3, <2>4 DEF Ingest, e
  <1>2. CASE Expire
    BY <1>0, <1>2 DEF Expire, Prune, Restrict, PositionsOrderMessages
  <1>3. CASE Restart
    BY <1>3 DEF Restart, PositionsOrderMessages
  <1>4. CASE UNCHANGED <<messages, sequence>>
    BY <1>4 DEF PositionsOrderMessages
  <1> QED
    BY <1>1, <1>2, <1>3, <1>4 DEF Next, Tick, UpdateSources, contentVars, replayVars, vars

\* The visible list is ordered by local sequence: no two messages share a
\* position and none is ahead of the cursor.
THEOREM StoreOrdersMessages == Spec => []PositionsOrderMessages
  <1>1. Init => PositionsOrderMessages
    BY DEF Init, PositionsOrderMessages
  <1> QED
    BY <1>1, PositionsStep, StoreTypeCorrect, PTL DEF Spec

-----------------------------------------------------------------------------
(* The cursor and the content.                                              *)

CursorMoves ==
    contentVars' # contentVars =>
        epoch' > epoch \/ (epoch' = epoch /\ sequence' > sequence)

LEMMA CursorStep == TypeOK /\ [Next]_vars => [CursorMoves]_vars
  <1> SUFFICES ASSUME TypeOK, Next
               PROVE  CursorMoves
    BY DEF vars
  <1>0. sequence \in Nat /\ epoch \in Nat
    BY DEF TypeOK, CountersOK
  <1>1. ASSUME NEW i \in Inputs, NEW t \in Stamps, Ingest(Stamped(i, t))
        PROVE  CursorMoves
    <2> DEFINE e == Stamped(i, t)
    <2> HIDE DEF e
    <2>1. CASE IngestMessage(e)
      BY <1>0, <2>1 DEF IngestMessage, CursorMoves
    <2>2. CASE IngestState(e)
      BY <1>0, <2>2 DEF IngestState, CursorMoves
    <2>3. CASE IngestDeletion(e)
      BY <1>0, <2>3 DEF IngestDeletion, Delete, CursorMoves
    <2>4. CASE CompactBarriers(e)
      BY <1>0, <2>4 DEF CompactBarriers, CursorMoves
    <2> QED
      BY <1>1, <2>1, <2>2, <2>3, <2>4 DEF Ingest, e
  <1>2. CASE Expire
    <2>1. CASE MessageExpired
      BY <1>0, <1>2, <2>1 DEF Expire, Prune, CursorMoves
    <2>2. CASE ~MessageExpired
      <3>1. {k \in DOMAIN messages : ~Expired(messages[k].expires)} = DOMAIN messages
        BY <2>2 DEF MessageExpired
      <3>2. Restrict(messages, DOMAIN messages) = messages
        BY DEF TypeOK, MessagesOK, Restrict
      <3> QED
        BY <1>2, <3>1, <3>2 DEF Expire, Prune, contentVars, CursorMoves
    <2> QED
      BY <2>1, <2>2
  <1>3. CASE Restart
    BY <1>0, <1>3 DEF Restart, CursorMoves
  <1>4. CASE UNCHANGED contentVars
    BY <1>4 DEF CursorMoves
  <1> QED
    BY <1>1, <1>2, <1>3, <1>4 DEF Next, Tick, UpdateSources, contentVars

\* No step changes what viewers should see behind the back of a viewer that
\* holds the current cursor.
THEOREM StoreChangesMoveCursor == Spec => ChangesMoveCursor
  BY CursorStep, StoreTypeCorrect, PTL DEF Spec, ChangesMoveCursor, CursorMoves

-----------------------------------------------------------------------------
(* Barriers.  A renewed deadline is not earlier because no deadline lies    *)
(* further ahead than the history is long.                                  *)

DeadlinesAhead == \A b \in DOMAIN barriers : barriers[b].expires <= now + History

LEMMA DeadlinesStep == TypeOK /\ DeadlinesAhead /\ [Next]_vars => DeadlinesAhead'
  <1> SUFFICES ASSUME TypeOK, DeadlinesAhead, [Next]_vars
               PROVE  DeadlinesAhead'
    OBVIOUS
  <1>0. /\ now \in Nat /\ History \in Nat
        /\ \A b \in DOMAIN barriers : barriers[b].expires \in Nat
    BY LimitsAssumption DEF TypeOK, CountersOK, BarriersOK, Barrier
  <1>1. ASSUME NEW i \in Inputs, NEW t \in Stamps, Ingest(Stamped(i, t))
        PROVE  DeadlinesAhead'
    <2> DEFINE e == Stamped(i, t)
    <2> HIDE DEF e
    <2>1. CASE IngestMessage(e) \/ IngestState(e)
      BY <2>1 DEF IngestMessage, IngestState, DeadlinesAhead
    <2>2. CASE IngestDeletion(e)
      BY <1>0, <2>2 DEF IngestDeletion, Delete, DeadlinesAhead
    <2>3. CASE CompactBarriers(e)
      BY <1>0, <2>3 DEF CompactBarriers, DeadlinesAhead
    <2> QED
      BY <1>1, <2>1, <2>2, <2>3 DEF Ingest, e
  <1>2. CASE Expire
    BY <1>2 DEF Expire, Prune, Restrict, DeadlinesAhead
  <1>3. CASE Restart
    BY <1>3 DEF Restart, DeadlinesAhead
  <1>4. CASE Tick
    BY <1>0, <1>4 DEF Tick, DeadlinesAhead
  <1>5. CASE UNCHANGED <<barriers, now>>
    BY <1>5 DEF DeadlinesAhead
  <1> QED
    BY <1>1, <1>2, <1>3, <1>4, <1>5 DEF Next, UpdateSources, sourceVars, vars

BarrierStays(b) ==
    \/ b \in DOMAIN barriers' /\ barriers'[b].at >= barriers[b].at
                              /\ barriers'[b].expires >= barriers[b].expires
    \/ Expired(barriers[b].expires)
    \/ epoch' > epoch /\ (barriers' = <<>> \/
           \A s \in sources : ChannelBarrier(s) \in DOMAIN barriers')

LEMMA BarrierStep ==
    TypeOK /\ DeadlinesAhead /\ [Next]_vars => [\A b \in DOMAIN barriers : BarrierStays(b)]_vars
  <1> SUFFICES ASSUME TypeOK, DeadlinesAhead, Next, NEW b \in DOMAIN barriers
               PROVE  BarrierStays(b)
    BY DEF vars
  <1>0. epoch \in Nat /\ barriers[b].at \in Nat /\ barriers[b].expires \in Nat
    BY DEF TypeOK, CountersOK, BarriersOK, Barrier
  <1>1. ASSUME NEW i \in Inputs, NEW t \in Stamps, Ingest(Stamped(i, t))
        PROVE  BarrierStays(b)
    <2> DEFINE e == Stamped(i, t)
    <2>0. e \in Event
      BY StampedIsEvent
    <2> HIDE DEF e
    <2>1. CASE IngestMessage(e) \/ IngestState(e)
      BY <1>0, <2>1 DEF IngestMessage, IngestState, BarrierStays
    <2>2. CASE IngestDeletion(e)
      <3>1. CASE b = BarrierOf(e)
        <4>1. /\ b \in DOMAIN barriers'
              /\ barriers'[b].at = RaisedTo(e)
              /\ barriers'[b].expires = now + History
          BY <2>2, <3>1 DEF IngestDeletion, Delete
        <4>2. RaisedTo(e) >= barriers[b].at
          BY <2>0, <3>1, RaisedIsTime DEF TypeOK
        <4>3. now + History >= barriers[b].expires
          BY <1>0, LimitsAssumption DEF DeadlinesAhead, TypeOK, CountersOK
        <4> QED
          BY <4>1, <4>2, <4>3 DEF BarrierStays
      <3>2. CASE b # BarrierOf(e)
        BY <1>0, <2>2, <3>2 DEF IngestDeletion, Delete, BarrierStays
      <3> QED
        BY <3>1, <3>2
    <2>3. CASE CompactBarriers(e)
      BY <1>0, <2>3 DEF CompactBarriers, BarrierStays
    <2> QED
      BY <1>1, <2>1, <2>2, <2>3 DEF Ingest, e
  <1>2. CASE Expire
    BY <1>0, <1>2 DEF Expire, Prune, Restrict, BarrierStays
  <1>3. CASE Restart
    BY <1>0, <1>3 DEF Restart, BarrierStays
  <1>4. CASE UNCHANGED barriers
    BY <1>0, <1>4 DEF BarrierStays
  <1> QED
    BY <1>1, <1>2, <1>3, <1>4 DEF Next, Tick, UpdateSources

\* A deletion is remembered until its deadline, through late and repeated
\* deletions, or until a flood puts a channel barrier on every source.
THEOREM StoreBarriersPersist == Spec => BarriersPersist
  <1>1. Init => DeadlinesAhead
    BY DEF Init, DeadlinesAhead
  <1> QED
    BY <1>1, DeadlinesStep, BarrierStep, StoreTypeCorrect, PTL
    DEF Spec, BarriersPersist, BarrierStays

-----------------------------------------------------------------------------
(* Limits.                                                                  *)

Bounded(S, limit) == IsFiniteSet(S) /\ Cardinality(S) <= limit

LimitsHold ==
    /\ Bounded(DOMAIN messages, MaxMessages)
    /\ Len(ring) <= RingLimit
    /\ Bounded(seen, SeenLimit)
    /\ Bounded(DOMAIN barriers, BarrierLimit)

LEMMA SmallerStaysBounded ==
    ASSUME NEW S, NEW T \in SUBSET S, NEW limit \in Nat, Bounded(S, limit)
    PROVE  Bounded(T, limit)
  BY FS_Subset, FS_CardinalityType DEF Bounded

LEMMA OneMoreBounded ==
    ASSUME NEW S, NEW x, NEW limit \in Nat, Bounded(S, limit)
    PROVE  Bounded(S \cup {x}, limit + 1)
  <1>1. /\ IsFiniteSet(S \cup {x})
        /\ Cardinality(S \cup {x}) = IF x \in S THEN Cardinality(S) ELSE Cardinality(S) + 1
    BY FS_AddElement DEF Bounded
  <1>2. Cardinality(S) \in Nat
    BY FS_CardinalityType DEF Bounded
  <1> QED
    BY <1>1, <1>2 DEF Bounded

LEMMA OneLessBounded ==
    ASSUME NEW S, NEW x \in S, NEW limit \in Nat, Bounded(S, limit + 1)
    PROVE  Bounded(S \ {x}, limit)
  <1>1. /\ IsFiniteSet(S \ {x})
        /\ Cardinality(S \ {x}) = Cardinality(S) - 1
    BY FS_RemoveElement DEF Bounded
  <1>2. Cardinality(S) \in Nat
    BY FS_CardinalityType DEF Bounded
  <1> QED
    BY <1>1, <1>2 DEF Bounded

LEMMA RememberBounded ==
    ASSUME SeenWindow, SeenOK, NEW e \in Event, Remember(e), Bounded(seen, SeenLimit)
    PROVE  Bounded(seen', SeenLimit)
  <1> DEFINE k     == DedupKey(e)
             order == Append(seenOrder, k)
             all   == seen \cup {k}
  <1>1. Bounded(all, SeenLimit + 1)
    BY OneMoreBounded, LimitsAssumption
  <1>2. CASE Cardinality(all) > SeenLimit
    <2>1. seen' = all \ {Head(order)}
      BY <1>2 DEF Remember
    <2>2. k \in DedupKeys
      BY DEF DedupKey, DedupKeys, Event
    <2>3. Head(order) \in all
      <3> HIDE DEF k
      <3>1. seenOrder \in Seq(DedupKeys)
        BY DEF SeenOK
      <3>2. CASE seenOrder = <<>>
        BY <2>2, <3>2
      <3>3. CASE seenOrder # <<>>
        <4>1. Head(order) = seenOrder[1] /\ 1 \in DOMAIN seenOrder
          BY <2>2, <3>1, <3>3
        <4> QED
          BY <4>1 DEF SeenWindow, Range
      <3> QED
        BY <3>2, <3>3
    <2> HIDE DEF all, order
    <2> QED
      BY <1>1, <2>1, <2>3, OneLessBounded, LimitsAssumption
  <1>3. CASE ~(Cardinality(all) > SeenLimit)
    <2>1. seen' = all
      BY <1>3 DEF Remember
    <2>2. Cardinality(all) \in Nat
      BY <1>1, FS_CardinalityType DEF Bounded
    <2> HIDE DEF all
    <2> QED
      BY <1>1, <1>3, <2>1, <2>2, LimitsAssumption DEF Bounded
  <1> QED
    BY <1>2, <1>3

LEMMA MessagesBounded ==
    ASSUME TypeOK, NEW e \in Event, IngestMessage(e), Bounded(DOMAIN messages, MaxMessages)
    PROVE  Bounded(DOMAIN messages', MaxMessages)
  <1> DEFINE others == DOMAIN messages \ {Key(e)}
             full   == Cardinality(others) >= MaxMessages
             out    == IF full THEN Oldest(others) ELSE Key(e)
             kept   == others \ {out}
  <1>0. MaxMessages \in Nat /\ MaxMessages > 0
    BY LimitsAssumption
  <1>1. DOMAIN messages' = kept \cup {Key(e)}
    BY DEF IngestMessage
  <1>2. Bounded(others, MaxMessages) /\ Cardinality(others) \in Nat
    BY <1>0, SmallerStaysBounded, FS_CardinalityType DEF Bounded
  <1>3. Bounded(kept, MaxMessages - 1)
    <2>1. CASE full
      <3>1. out \in others
        BY <2>1, EvictionIsEvent DEF TypeOK
      <3>2. MaxMessages - 1 \in Nat /\ (MaxMessages - 1) + 1 = MaxMessages
        BY <1>0
      <3> HIDE DEF others, out
      <3> QED
        BY <1>2, <3>1, <3>2, OneLessBounded
    <2>2. CASE ~full
      <3>1. kept = others
        BY <2>2
      <3> HIDE DEF kept, others
      <3> QED
        BY <1>0, <1>2, <2>2, <3>1 DEF Bounded
    <2> QED
      BY <2>1, <2>2
  <1>4. MaxMessages - 1 \in Nat /\ (MaxMessages - 1) + 1 = MaxMessages
    BY <1>0
  <1> HIDE DEF kept
  <1>5. Bounded(kept \cup {Key(e)}, MaxMessages)
    BY <1>3, <1>4, OneMoreBounded
  <1> QED
    BY <1>1, <1>5

LEMMA BarriersBounded ==
    ASSUME NEW e \in Event, IngestDeletion(e), Bounded(DOMAIN barriers, BarrierLimit)
    PROVE  Bounded(DOMAIN barriers', BarrierLimit)
  <1>1. DOMAIN barriers' = DOMAIN barriers \cup {BarrierOf(e)} /\ BarrierFits(e)
    BY DEF IngestDeletion, Delete
  <1>2. /\ IsFiniteSet(DOMAIN barriers \cup {BarrierOf(e)})
        /\ Cardinality(DOMAIN barriers \cup {BarrierOf(e)}) =
               IF BarrierOf(e) \in DOMAIN barriers THEN Cardinality(DOMAIN barriers)
               ELSE Cardinality(DOMAIN barriers) + 1
    BY FS_AddElement DEF Bounded
  <1>3. Cardinality(DOMAIN barriers) \in Nat
    BY FS_CardinalityType DEF Bounded
  <1> QED
    BY <1>1, <1>2, <1>3, LimitsAssumption DEF Bounded, BarrierFits

LEMMA ChannelsBounded ==
    ASSUME IsFiniteSet(Sources), Cardinality(Sources) <= BarrierLimit,
           NEW S \in SUBSET Sources
    PROVE  Bounded({ChannelBarrier(s) : s \in S}, BarrierLimit)
  <1> DEFINE T == {ChannelBarrier(s) : s \in S}
             f == [s \in S |-> ChannelBarrier(s)]
  <1>1. IsFiniteSet(S) /\ Cardinality(S) <= BarrierLimit /\ Cardinality(S) \in Nat
    BY FS_Subset, FS_CardinalityType, LimitsAssumption
  <1>2. f \in Surjection(S, T)
    BY DEF Surjection
  <1> HIDE DEF f, T
  <1>3. IsFiniteSet(T) /\ Cardinality(T) <= Cardinality(S)
    BY <1>1, <1>2, FS_Surjection
  <1>4. Cardinality(T) \in Nat
    BY <1>3, FS_CardinalityType
  <1> QED
    BY <1>1, <1>3, <1>4, LimitsAssumption DEF Bounded, T

LEMMA LimitsStep ==
    ASSUME IsFiniteSet(Sources), Cardinality(Sources) <= BarrierLimit
    PROVE  TypeOK /\ SeenWindow /\ LimitsHold /\ [Next]_vars => LimitsHold'
  <1> SUFFICES ASSUME TypeOK, SeenWindow, LimitsHold, [Next]_vars
               PROVE  LimitsHold'
    OBVIOUS
  <1>0. RingLimit \in Nat /\ RingLimit > 0 /\ {MaxMessages, SeenLimit, BarrierLimit} \subseteq Nat
    BY LimitsAssumption
  <1>1. ASSUME NEW i \in Inputs, NEW t \in Stamps, Ingest(Stamped(i, t))
        PROVE  LimitsHold'
    <2> DEFINE e == Stamped(i, t)
    <2>1. e \in Event
      BY StampedIsEvent
    <2> HIDE DEF e
    <2>2. Bounded(seen', SeenLimit)
      <3>1. Remember(e)
        BY <1>1 DEF Ingest, IngestMessage, IngestState, IngestDeletion, Delete,
                    CompactBarriers, e
      <3> QED
        BY <2>1, <3>1, RememberBounded DEF TypeOK, LimitsHold
    <2>3. sequence + 1 \in Nat /\ sequence + 2 \in Nat /\ now \in Nat /\ ring \in Seq(RingEntry)
      BY DEF TypeOK, CountersOK, ReplayOK
    <2>4. CASE IngestMessage(e)
      <3> DEFINE others == DOMAIN messages \ {Key(e)}
                 r      == Push(ring, sequence + 1, Eviction(Oldest(others)))
      <3>1. Bounded(DOMAIN messages', MaxMessages)
        BY <2>1, <2>4, MessagesBounded DEF LimitsHold
      <3>2. Len(ring') <= RingLimit
        <4>1. CASE Cardinality(others) >= MaxMessages
          <5>1. ring' = Push(r, sequence + 2, e)
            BY <2>4, <4>1 DEF IngestMessage
          <5>2. r \in Seq(RingEntry)
            BY <2>3, <4>1, EvictionIsEvent, PushIsReplay DEF TypeOK
          <5> QED
            BY <2>1, <2>3, <5>1, <5>2, PushIsReplay
        <4>2. CASE ~(Cardinality(others) >= MaxMessages)
          <5>1. ring' = Push(ring, sequence + 1, e)
            BY <2>4, <4>2 DEF IngestMessage
          <5> QED
            BY <2>1, <2>3, <5>1, PushIsReplay
        <4> QED
          BY <4>1, <4>2
      <3> QED
        BY <2>2, <2>4, <3>1, <3>2 DEF IngestMessage, LimitsHold
    <2>5. CASE IngestState(e)
      BY <2>1, <2>2, <2>3, <2>5, PushIsReplay DEF IngestState, LimitsHold
    <2>6. CASE IngestDeletion(e)
      <3>1. Bounded(DOMAIN messages', MaxMessages)
        <4>1. DOMAIN messages' \subseteq DOMAIN messages
          BY <2>6 DEF IngestDeletion, Delete, Restrict
        <4> QED
          BY <1>0, <4>1, SmallerStaysBounded DEF LimitsHold
      <3>2. Len(ring') = 1
        BY <2>6 DEF IngestDeletion, Delete
      <3> QED
        BY <1>0, <2>1, <2>2, <2>6, <3>1, <3>2, BarriersBounded DEF LimitsHold
    <2>7. CASE CompactBarriers(e)
      <3>1. DOMAIN messages' = {} /\ Len(ring') = 1
        BY <2>7 DEF CompactBarriers
      <3>2. Bounded({}, MaxMessages)
        BY <1>0, FS_EmptySet DEF Bounded
      <3>3. Bounded(DOMAIN barriers', BarrierLimit)
        BY <2>7, ChannelsBounded DEF CompactBarriers, TypeOK, SourcesOK
      <3> QED
        BY <1>0, <2>2, <3>1, <3>2, <3>3 DEF LimitsHold
    <2> QED
      BY <1>1, <2>4, <2>5, <2>6, <2>7 DEF Ingest, e
  <1>2. CASE Expire
    <2>1. DOMAIN messages' \subseteq DOMAIN messages /\ DOMAIN barriers' \subseteq DOMAIN barriers
      BY <1>2 DEF Expire, Prune, Restrict
    <2>2. Len(ring') <= RingLimit
      BY <1>0, <1>2 DEF Expire, Prune, LimitsHold
    <2> QED
      BY <1>0, <1>2, <2>1, <2>2, SmallerStaysBounded DEF Expire, Prune, seenVars, LimitsHold
  <1>3. CASE Restart
    <2>1. /\ DOMAIN messages' = {} /\ Len(ring') = 0
          /\ seen' = {} /\ DOMAIN barriers' = {}
      BY <1>3 DEF Restart
    <2> QED
      BY <1>0, <2>1, FS_EmptySet DEF LimitsHold, Bounded
  <1>4. CASE UNCHANGED <<messages, ring, seen, barriers>>
    BY <1>4 DEF LimitsHold, Bounded
  <1> QED
    BY <1>1, <1>2, <1>3, <1>4
    DEF Next, Tick, UpdateSources, contentVars, replayVars, seenVars, vars

\* Floods of messages, deletions and redeliveries never take the store past
\* its limits; a flood of deletions needs a barrier limit that is not smaller
\* than the number of sources, because it leaves one barrier for each.
THEOREM StoreWithinLimits ==
    ASSUME IsFiniteSet(Sources), Cardinality(Sources) <= BarrierLimit
    PROVE  Spec => []WithinLimits
  <1>1. Init => LimitsHold
    BY FS_EmptySet, LimitsAssumption DEF Init, LimitsHold, Bounded
  <1>2. LimitsHold => WithinLimits
    BY DEF LimitsHold, Bounded, WithinLimits
  <1> QED
    BY <1>1, <1>2, LimitsStep, StoreSeenWindow, StoreTypeCorrect, PTL DEF Spec
=============================================================================
