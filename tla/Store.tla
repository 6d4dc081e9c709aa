------------------------------- MODULE Store -------------------------------
(***************************************************************************)
(* The per-profile chat store (lib/chat_overlay/store.ex): one GenServer   *)
(* that owns the visible messages, the source states, the replay ring, the *)
(* deduplication window and the deletion barriers.  Every handler runs to  *)
(* its end before the next one, so each handler is one action.             *)
(*                                                                         *)
(* Data is abstract.  An identifier stands for the pair the code compares  *)
(* (a message id with its emission session, an upstream id with its        *)
(* session); a message text is its event.  The list of messages is a map   *)
(* from message key to message: its order is the order of "pos", the local *)
(* sequence the message was appended under, because the code rejects a     *)
(* key before it appends that key again.  Time is one integer clock; the   *)
(* provider's clock (occurred) is not tied to it.                          *)
(***************************************************************************)
EXTENDS Integers, Sequences, FiniteSets, Functions

CONSTANTS
    Sources, Ids, Authors, Uids, States, \* {platform, channel} pairs, identifiers
    None,           \* an absent field
    History,        \* @history_ms
    StateWindow,    \* the 30 s of recent_state?
    MaxMessages,    \* 100 visible messages
    RingLimit,      \* @ring
    SeenLimit,      \* @seen
    BarrierLimit,   \* @barriers
    StartSources,   \* profile["sources"] when the supervisor started the store
    SourceSets,     \* the source lists a profile save can install
    Inputs,         \* the events the readers may hand in (stamped on entry)
    MaxLag,         \* bound: how long an event waits between stamp and ingest
    MaxTime, MaxSequence, MaxEpoch  \* bounds of the model

ASSUME LimitsAssumption ==
    /\ {History, StateWindow, SeenLimit, BarrierLimit, MaxLag} \subseteq Nat
    /\ {MaxTime, MaxSequence, MaxEpoch} \subseteq Nat
    /\ MaxMessages \in Nat \ {0}
    /\ RingLimit \in Nat \ {0}

MessageTypes == {"message", "replace"}
DeletionTypes == {"delete_message", "delete_author", "clear_channel"}

Event == [type : MessageTypes \cup DeletionTypes \cup {"source_state"},
          source : Sources, uid : Uids \cup {None}, id : Ids \cup {None},
          author : Authors \cup {None}, state : States \cup {"degraded", None},
          occurred : Nat \cup {None}, received : Nat]

ASSUME InputAssumption ==
    /\ None \notin Nat
    /\ Inputs \subseteq Event
    /\ StartSources \subseteq Sources
    /\ SourceSets \subseteq SUBSET Sources

VARIABLES
    epoch,      \* the random epoch, as the number of epochs drawn so far
    sequence,   \* local sequence within the epoch
    messages,   \* visible messages by key
    states,     \* last source_state of each source that has one
    ring,       \* replay ring: local sequence, event, deadline
    seen,       \* deduplication keys ...
    seenOrder,  \* ... and the queue that evicts them
    barriers,   \* deletion barriers: deadline and time of the deletion
    sources,    \* sources whose events are admitted
    configured, \* the profile's sources as Config holds them
    now         \* the clock

contentVars == <<messages, states>>
replayVars == <<epoch, sequence, ring>>
seenVars == <<seen, seenOrder>>
sourceVars == <<sources, configured>>
vars == <<epoch, sequence, messages, states, ring, seen, seenOrder, barriers,
          sources, configured, now>>

-----------------------------------------------------------------------------
(* Keys, barriers and the order of provider times.                         *)

Key(e) == <<e.source, e.id>>
DedupKey(e) == <<e.source, e.type, e.uid>>

MessageBarrier(src, id) == [kind |-> "message", source |-> src, of |-> id]
AuthorBarrier(src, a) == [kind |-> "author", source |-> src, of |-> a]
ChannelBarrier(src) == [kind |-> "channel", source |-> src, of |-> None]

\* The barriers that concern a message event, and the one a deletion raises.
Covers(e) == {MessageBarrier(e.source, e.id), AuthorBarrier(e.source, e.author),
              ChannelBarrier(e.source)}

BarrierOf(e) ==
    CASE e.type = "delete_message" -> MessageBarrier(e.source, e.id)
      [] e.type = "delete_author"  -> AuthorBarrier(e.source, e.author)
      [] OTHER                     -> ChannelBarrier(e.source)

\* older?/2: an undated event is older than every barrier.
Older(at, barrier) == at = None \/ at <= barrier

\* The time of a deletion: the provider's, or else when it was received.
TimeOf(e) == IF e.occurred = None THEN e.received ELSE e.occurred

\* Mutant: a deleted message may come back with a later date.
BlockedByTimeOnly(e) ==
    \E b \in Covers(e) \cap DOMAIN barriers :
        e.type = "replace" \/ Older(e.occurred, barriers[b].at)

\* A message event the barriers keep out.
Blocked(e) ==
    \E b \in Covers(e) \cap DOMAIN barriers :
        \/ b.kind = "message"
        \/ e.type = "replace"
        \/ Older(e.occurred, barriers[b].at)

-----------------------------------------------------------------------------
(* Replay ring and deduplication window.                                   *)

Entry(seq, e) == [seq |-> seq, event |-> e, expires |-> now + History]

\* Enum.take(list, -@ring): the newest RingLimit entries.
KeepNewest(s) ==
    IF Len(s) > RingLimit THEN SubSeq(s, Len(s) - RingLimit + 1, Len(s)) ELSE s

Push(r, seq, e) == KeepNewest(Append(r, Entry(seq, e)))

Remember(e) ==
    IF Cardinality(seen \cup {DedupKey(e)}) > SeenLimit
    THEN LET order == Append(seenOrder, DedupKey(e))
         IN /\ seen' = (seen \cup {DedupKey(e)}) \ {Head(order)}
            /\ seenOrder' = Tail(order)
    ELSE /\ seen' = seen \cup {DedupKey(e)}
         /\ seenOrder' = Append(seenOrder, DedupKey(e))

-----------------------------------------------------------------------------
(* Handlers.                                                               *)

Init ==
    /\ epoch = 0
    /\ sequence = 0
    /\ messages = <<>>
    /\ states = <<>>
    /\ ring = <<>>
    /\ seen = {}
    /\ seenOrder = <<>>
    /\ barriers = <<>>
    /\ sources = StartSources
    /\ configured = StartSources
    /\ now = 0

\* {:ingest, e}: refused when its source is not admitted, ignored when seen.
Admitted(e) ==
    /\ e.source \in sources
    /\ DedupKey(e) \notin seen

\* Bound: an event takes at most two local sequence numbers.
Room == sequence + 2 <= MaxSequence

\* The message a full store gives up: the first of its list.
Oldest(keys) ==
    CHOOSE k \in keys : \A j \in keys : messages[k].pos <= messages[j].pos

\* The removal the store announces for an evicted message.
Eviction(k) ==
    [messages[k].event EXCEPT !.type = "delete_message", !.uid = None,
                              !.author = None, !.occurred = None, !.received = now]

\* apply_event for "message" and "replace".  A repeated key moves to the end;
\* one message enters at a time, so at most one leaves.
IngestMessage(e) ==
    LET others == DOMAIN messages \ {Key(e)}
        full   == Cardinality(others) >= MaxMessages
        out    == IF full THEN Oldest(others) ELSE Key(e)
        pos    == IF full THEN sequence + 2 ELSE sequence + 1
        stored == [event |-> [e EXCEPT !.type = "message"], pos |-> pos,
                   expires |-> now + History]
    IN /\ e.type \in MessageTypes
       /\ Room
       /\ ~Blocked(e)
       /\ e.type = "replace" => Key(e) \in DOMAIN messages
       /\ messages' = [k \in (others \ {out}) \cup {Key(e)} |->
                          IF k = Key(e) THEN stored ELSE messages[k]]
       /\ ring' = Push(IF full THEN Push(ring, sequence + 1, Eviction(out)) ELSE ring,
                       pos, e)
       /\ sequence' = pos
       /\ Remember(e)
       /\ UNCHANGED <<epoch, states, barriers, sourceVars, now>>

\* apply_event for "source_state": a repetition within the window is dropped
\* and not remembered.
IngestState(e) ==
    /\ e.type = "source_state"
    /\ Room
    /\ e.source \in DOMAIN states =>
          \/ states[e.source].state # e.state
          \/ states[e.source].received + StateWindow <= e.received
          \/ e.received + StateWindow <= states[e.source].received
    /\ states' = [s \in DOMAIN states \cup {e.source} |->
                     IF s = e.source THEN e ELSE states[s]]
    /\ ring' = Push(ring, sequence + 1, e)
    /\ sequence' = sequence + 1
    /\ Remember(e)
    /\ UNCHANGED <<epoch, messages, barriers, sourceVars, now>>

\* Mutants: no fallback for an undated deletion; the last deletion decides.
RaisedToOccurred(e) ==
    LET b == BarrierOf(e)
    IN IF b \in DOMAIN barriers /\ Older(e.occurred, barriers[b].at)
       THEN barriers[b].at ELSE e.occurred

RaisedToLast(e) == TimeOf(e)

\* The barrier of a deletion never goes back to an earlier time.
RaisedTo(e) ==
    LET b == BarrierOf(e)
    IN IF b \in DOMAIN barriers /\ TimeOf(e) <= barriers[b].at
       THEN barriers[b].at ELSE TimeOf(e)

\* The messages a deletion takes: by key whatever their time, by author or
\* channel only those not newer than the barrier.
Taken(e) ==
    {k \in DOMAIN messages :
        /\ BarrierOf(e) \in Covers(messages[k].event)
        /\ e.type = "delete_message" \/ Older(messages[k].event.occurred, RaisedTo(e))}

\* Mutant: off by one at the limit.
BarrierFitsLate(e) ==
    Cardinality(DOMAIN barriers) <= BarrierLimit \/ BarrierOf(e) \in DOMAIN barriers

BarrierFits(e) ==
    Cardinality(DOMAIN barriers) < BarrierLimit \/ BarrierOf(e) \in DOMAIN barriers

\* apply_event for a deletion: raise the barrier, take the messages; the event
\* enters what is left of the replay.
Delete(e, seq, replay) ==
    /\ e.type \in DeletionTypes
    /\ Room
    /\ BarrierFits(e)
    /\ messages' = Restrict(messages, DOMAIN messages \ Taken(e))
    /\ barriers' = [b \in DOMAIN barriers \cup {BarrierOf(e)} |->
                       IF b = BarrierOf(e)
                       THEN [expires |-> now + History, at |-> RaisedTo(e)]
                       ELSE barriers[b]]
    /\ sequence' = seq
    /\ ring' = Append(replay, Entry(seq, e))
    /\ Remember(e)
    /\ UNCHANGED <<epoch, states, sourceVars, now>>

\* Mutants: no purge; a gap without a purge; a purge without a gap.
IngestDeletionKeepingText(e) == Delete(e, sequence + 1, ring)
IngestDeletionKeepingRing(e) == Delete(e, sequence + 2, ring)
IngestDeletionWithoutGap(e) == Delete(e, sequence + 1, <<>>)

\* The replay is purged and the sequence leaves a gap, so that no earlier
\* cursor is recoverable.
IngestDeletion(e) == Delete(e, sequence + 2, <<>>)

DegradedState(src) ==
    [type |-> "source_state", source |-> src, uid |-> None, id |-> None,
     author |-> None, state |-> "degraded", occurred |-> None, received |-> now]

\* apply_event for a deletion that finds every barrier taken: one channel
\* barrier per admitted source replaces them all and a new epoch starts.
CompactBarriers(e) ==
    /\ e.type \in DeletionTypes
    /\ ~BarrierFits(e)
    /\ epoch < MaxEpoch
    /\ messages' = <<>>
    /\ barriers' = [b \in {ChannelBarrier(s) : s \in sources} |->
                       [expires |-> now + History, at |-> e.received]]
    /\ states' = [s \in sources |-> DegradedState(s)]
    /\ epoch' = epoch + 1
    /\ sequence' = 1
    /\ ring' = <<Entry(1, e)>>
    /\ Remember(e)
    /\ UNCHANGED <<sourceVars, now>>

Ingest(e) ==
    /\ Admitted(e)
    /\ \/ IngestMessage(e)
       \/ IngestState(e)
       \/ IngestDeletion(e)
       \/ CompactBarriers(e)

\* {:update_sources, list}, called when the profile has been saved.
UpdateSources(S) ==
    /\ sources' = S
    /\ configured' = S
    /\ UNCHANGED <<contentVars, replayVars, seenVars, barriers, now>>

Expired(deadline) == deadline <= now

\* The live messages and barriers stay; a stale replay goes as a whole.
Prune(stale, replay) ==
    /\ messages' = Restrict(messages,
                       {k \in DOMAIN messages : ~Expired(messages[k].expires)})
    /\ barriers' = Restrict(barriers,
                       {b \in DOMAIN barriers : ~Expired(barriers[b].expires)})
    /\ sequence' = IF stale THEN sequence + 1 ELSE sequence
    /\ ring' = IF stale THEN <<>> ELSE replay
    /\ UNCHANGED <<epoch, states, seenVars, sourceVars, now>>

MessageExpired == \E k \in DOMAIN messages : Expired(messages[k].expires)
ReplayExpired == \E i \in DOMAIN ring : Expired(ring[i].expires)

\* Mutants: the cursor does not move; an old replay entry is not noticed.
ExpireSilently == Prune(FALSE, SelectSeq(ring, LAMBDA entry : ~Expired(entry.expires)))
ExpireMessagesOnly == Prune(MessageExpired, ring)

\* expire/1: the :expire tick, and the first thing every {:read, cursor} does.
Expire == Prune(MessageExpired \/ ReplayExpired, ring)

\* The supervisor starts a crashed store again, with the arguments of its
\* child specification: nothing the store held survives.
Restart ==
    /\ epoch < MaxEpoch
    /\ epoch' = epoch + 1
    /\ sequence' = 0
    /\ messages' = <<>>
    /\ states' = <<>>
    /\ ring' = <<>>
    /\ seen' = {}
    /\ seenOrder' = <<>>
    /\ barriers' = <<>>
    /\ sources' = StartSources
    /\ UNCHANGED <<configured, now>>

Tick ==
    /\ now < MaxTime
    /\ now' = now + 1
    /\ UNCHANGED <<epoch, sequence, messages, states, ring, seen, seenOrder,
                   barriers, sources, configured>>

\* An input is stamped by its reader at most MaxLag before it is handled.
Stamps == (now - MaxLag .. now) \cap Nat
Stamped(i, t) == [i EXCEPT !.received = t]

Next ==
    \/ \E i \in Inputs : \E t \in Stamps : Ingest(Stamped(i, t))
    \/ \E S \in SourceSets : UpdateSources(S)
    \/ Expire
    \/ Restart
    \/ Tick

Spec == Init /\ [][Next]_vars

\* The :expire timer re-arms itself every second.
FairSpec == Spec /\ WF_vars(Expire) /\ WF_vars(Tick)
-----------------------------------------------------------------------------
(* Properties.                                                             *)

Stored == [event : Event, pos : Nat, expires : Nat]
RingEntry == [seq : Nat, event : Event, expires : Nat]
Barrier == [expires : Nat, at : Nat]
BarrierKey == [kind : {"message", "author", "channel"}, source : Sources,
               of : Ids \cup Authors \cup {None}]

DedupKeys == Sources \X (MessageTypes \cup DeletionTypes \cup {"source_state"})
                     \X (Uids \cup {None})

CountersOK == epoch \in Nat /\ sequence \in Nat /\ now \in Nat
MessagesOK ==
    /\ messages \in [DOMAIN messages -> Stored]
    /\ \A k \in DOMAIN messages : Key(messages[k].event) = k
StatesOK == DOMAIN states \subseteq Sources /\ states \in [DOMAIN states -> Event]
ReplayOK == ring \in Seq(RingEntry)
SeenOK == seenOrder \in Seq(DedupKeys)
BarriersOK ==
    DOMAIN barriers \subseteq BarrierKey /\ barriers \in [DOMAIN barriers -> Barrier]
SourcesOK == sources \subseteq Sources /\ configured \subseteq Sources

\* Every variable keeps the shape the handlers rely on: a message is filed
\* under its own key, a source state under its own source.
TypeOK ==
    /\ CountersOK
    /\ MessagesOK
    /\ StatesOK
    /\ ReplayOK
    /\ SeenOK
    /\ BarriersOK
    /\ SourcesOK

\* The ring always ends at the current sequence and has no hole: the suffix
\* after a recoverable cursor is every event since that cursor.
RingContiguous ==
    \A i \in DOMAIN ring : ring[i].seq = sequence - Len(ring) + i

\* Two messages never share a position and none is ahead of the sequence, so
\* the positions order the visible list.
PositionsOrderMessages ==
    \A k, j \in DOMAIN messages :
        /\ messages[k].pos <= sequence
        /\ messages[k].pos = messages[j].pos => k = j

\* No barrier of the store takes e.
Standing(e) ==
    \A b \in Covers(e) \cap DOMAIN barriers :
        b.kind # "message" /\ ~Older(e.occurred, barriers[b].at)

\* No visible message is one that a deletion still remembered has taken,
\* whatever the order in which messages, deletions and redeliveries arrived.
NoDeletedMessage == \A k \in DOMAIN messages : Standing(messages[k].event)

\* The replay ring keeps no text that a deletion still remembered has taken.
ReplayHoldsNoDeletedText ==
    \A i \in DOMAIN ring : ring[i].event.type \in MessageTypes => Standing(ring[i].event)

\* The deduplication map and its eviction queue hold the same keys, once each.
SeenWindow ==
    /\ seen = Range(seenOrder)
    /\ IsInjective(seenOrder)

\* The store never holds more than its limits, at a flood of deletions either.
WithinLimits ==
    /\ Cardinality(DOMAIN messages) <= MaxMessages
    /\ Len(ring) <= RingLimit
    /\ Cardinality(seen) <= SeenLimit
    /\ Cardinality(DOMAIN barriers) <= BarrierLimit

\* A step that changes what viewers should see moves the cursor forward, so
\* that a viewer which is up to date is never left with the old content.
ChangesMoveCursor ==
    [][contentVars' # contentVars =>
           epoch' > epoch \/ (epoch' = epoch /\ sequence' > sequence)]_vars

\* While the store lives, a barrier ends by its deadline, or by a compaction
\* that leaves a channel barrier on every admitted source; otherwise neither
\* its time nor its deadline goes back.
BarriersPersist ==
    [][\A b \in DOMAIN barriers :
          \/ b \in DOMAIN barriers' /\ barriers'[b].at >= barriers[b].at
                                    /\ barriers'[b].expires >= barriers[b].expires
          \/ Expired(barriers[b].expires)
          \/ epoch' > epoch /\ (barriers' = <<>> \/
                 \A s \in sources : ChannelBarrier(s) \in DOMAIN barriers')]_vars

\* docs/event-contract.md "El lector conserva las fuentes configuradas": what
\* the configuration names, the store admits.  Violated: a crashed store comes
\* back with the sources of the day its child specification was written.
ConfiguredSourcesAdmitted == configured \subseteq sources

\* Text past its deadline does not stay, neither visible nor in the replay.
ExpiredTextLeaves ==
    /\ \A k \in Sources \X Ids :
          (k \in DOMAIN messages /\ Expired(messages[k].expires))
              ~> ~(k \in DOMAIN messages /\ Expired(messages[k].expires))
    /\ ReplayExpired ~> ~ReplayExpired
=============================================================================
