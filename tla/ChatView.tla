------------------------------ MODULE ChatView ------------------------------
(***************************************************************************)
(* A chat store and the views that follow it: the SSE loop of              *)
(* lib/chat_overlay/stream.ex reads the store with a cursor every 50 ms    *)
(* and writes what it gets; the page (priv/static/app.js) applies the      *)
(* batches to its own list and remembers the id of the last one for the    *)
(* next connection.  A connection can be cut at any time with batches on   *)
(* the wire, the store can crash, messages expire on both sides.           *)
(***************************************************************************)
EXTENDS Store

CONSTANTS
    Viewers,
    Overlays,         \* the viewers that connected with view=overlay
    PlatformOf,       \* platform of each source
    OverlayChoices,   \* overlay_platforms of the profile: a set, or None
    MaxPipe,          \* bound: batches on the wire to one viewer
    MaxDrops          \* bound: cut connections and page loads

ASSUME ViewAssumption ==
    /\ Overlays \subseteq Viewers
    /\ MaxDrops \in Nat
    /\ MaxPipe \in Nat
    /\ None \notin Nat \X Nat

VARIABLES
    overlayPlatforms, \* the profile's overlay_platforms
    conn,             \* is the SSE loop of the viewer running?
    cursor,           \* cursor of the SSE loop
    pipe,             \* batches written and not yet applied
    lastId,           \* the page's last event id
    view,             \* the page's message list
    viewStates,       \* the page's source states
    drops

serverVars == <<conn, cursor, pipe>>
pageVars == <<lastId, view, viewStates>>
viewVars == <<overlayPlatforms, conn, cursor, pipe, lastId, view, viewStates, drops>>

-----------------------------------------------------------------------------
(* {:read, cursor}                                                         *)

Cursor == <<epoch, sequence>>

\* The entries of s at the places P, in their order (Enum.filter and the like).
Picked(s, P) ==
    LET picked[n \in 0 .. Len(s)] ==
            IF n = 0 THEN <<>>
            ELSE IF n \in P THEN Append(picked[n - 1], s[n]) ELSE picked[n - 1]
    IN picked[Len(s)]

\* The messages of ms that entered before the one under k.
Before(ms, k) == {j \in DOMAIN ms : ms[j].pos < ms[k].pos}

\* Mutant: newest first.
ListedBackwards(ms) ==
    [i \in 1 .. Cardinality(DOMAIN ms) |->
        ms[CHOOSE k \in DOMAIN ms :
               Cardinality(Before(ms, k)) = Cardinality(DOMAIN ms) - i].event]

\* The messages of the store in the order of its list.
Listed(ms) ==
    [i \in 1 .. Cardinality(DOMAIN ms) |->
        ms[CHOOSE k \in DOMAIN ms : Cardinality(Before(ms, k)) = i - 1].event]

\* Mutant: a cursor one event too old.
RecoverableTooOld(c, r, cur) ==
    r # <<>> /\ c # None /\ c[1] = cur[1] /\ r[1].seq - 2 <= c[2] /\ c[2] <= cur[2]

Recoverable(c, r, cur) ==
    /\ r # <<>>
    /\ c # None
    /\ c[1] = cur[1]
    /\ r[1].seq - 1 <= c[2]
    /\ c[2] <= cur[2]

\* What the page is told: nothing, the events after its cursor, or a reset
\* and a snapshot, which the page applies as one.
ReplayBatch(c, r, cur) ==
    [id |-> cur, reset |-> FALSE, messages |-> <<>>, states |-> <<>>,
     events |-> LET after == Picked(r, {i \in DOMAIN r : r[i].seq > c[2]})
                IN [i \in DOMAIN after |-> after[i].event]]
SnapshotBatch(cur, ms, sts) ==
    [id |-> cur, reset |-> TRUE, messages |-> Listed(ms), states |-> sts, events |-> <<>>]
ReadBatch(c, r, cur, ms, sts) ==
    IF Recoverable(c, r, cur) THEN ReplayBatch(c, r, cur) ELSE SnapshotBatch(cur, ms, sts)

\* platforms_for and filter_events
PlatformsFor(v) ==
    IF v \in Overlays /\ overlayPlatforms # None
    THEN overlayPlatforms ELSE {PlatformOf[s] : s \in configured}

Passes(v, e) == PlatformOf[e.source] \in PlatformsFor(v)

Filtered(v, b) ==
    LET OfThose(list) == Picked(list, {i \in DOMAIN list : Passes(v, list[i])})
    IN [b EXCEPT !.messages = OfThose(@),
                 !.states = Restrict(@, {s \in DOMAIN @ : PlatformOf[s] \in PlatformsFor(v)}),
                 !.events = OfThose(@)]

-----------------------------------------------------------------------------
(* The page.                                                               *)

WithoutKey(list, e) == Picked(list, {i \in DOMAIN list : Key(list[i]) # Key(e)})

\* apply(e) on the message list; the list is cut to its newest 100.
ApplyToList(list, e) ==
    LET edited == [e EXCEPT !.type = "message"]
        next ==
            CASE e.type = "message" -> Append(WithoutKey(list, e), e)
              [] e.type = "replace" ->
                    [i \in DOMAIN list |-> IF Key(list[i]) = Key(e) THEN edited ELSE list[i]]
              [] e.type = "delete_message" -> WithoutKey(list, e)
              [] e.type = "delete_author" ->
                    Picked(list, {i \in DOMAIN list :
                                     list[i].source # e.source \/ list[i].author # e.author})
              [] e.type = "clear_channel" ->
                    Picked(list, {i \in DOMAIN list : list[i].source # e.source})
              [] OTHER -> list
    IN IF Len(next) > MaxMessages
       THEN SubSeq(next, Len(next) - MaxMessages + 1, Len(next)) ELSE next

ApplyToStates(sts, e) ==
    IF e.type = "source_state"
    THEN [s \in DOMAIN sts \cup {e.source} |-> IF s = e.source THEN e ELSE sts[s]]
    ELSE sts

\* The events of a batch, one after the other.
ListAfter(list, events) ==
    LET after[n \in 0 .. Len(events)] ==
            IF n = 0 THEN list ELSE ApplyToList(after[n - 1], events[n])
    IN after[Len(events)]
StatesAfter(sts, events) ==
    LET after[n \in 0 .. Len(events)] ==
            IF n = 0 THEN sts ELSE ApplyToStates(after[n - 1], events[n])
    IN after[Len(events)]

\* render() drops what was received 30 minutes ago.
Fresh(e) == e.received + History > now
Rendered(list) == Picked(list, {i \in DOMAIN list : Fresh(list[i])})

-----------------------------------------------------------------------------
(* Steps.                                                                  *)

ViewInit ==
    /\ Init
    /\ overlayPlatforms \in OverlayChoices
    /\ conn = [v \in Viewers |-> FALSE]
    /\ cursor = [v \in Viewers |-> None]
    /\ pipe = [v \in Viewers |-> <<>>]
    /\ lastId = [v \in Viewers |-> None]
    /\ view = [v \in Viewers |-> <<>>]
    /\ viewStates = [v \in Viewers |-> <<>>]
    /\ drops = 0

\* Mutant: the loop goes on from where the last one wrote.
ConnectAtServerCursor(v) ==
    /\ ~conn[v]
    /\ conn' = [conn EXCEPT ![v] = TRUE]
    /\ UNCHANGED <<vars, overlayPlatforms, cursor, pipe, pageVars, drops>>

\* The page (re)connects: the loop starts from its Last-Event-ID.
Connect(v) ==
    /\ ~conn[v]
    /\ conn' = [conn EXCEPT ![v] = TRUE]
    /\ cursor' = [cursor EXCEPT ![v] = lastId[v]]
    /\ UNCHANGED <<vars, overlayPlatforms, pipe, pageVars, drops>>

\* What viewer v may see of the store, as a set of events.
SeenBy(v) ==
    {e \in {messages[k].event : k \in DOMAIN messages} \cup {states[s] : s \in DOMAIN states} :
        Passes(v, e)}

\* One turn of the loop.  "upto" is a history field: what the store held.
Poll(v) ==
    /\ conn[v]
    /\ Len(pipe[v]) < MaxPipe
    /\ Expire
    /\ UNCHANGED <<overlayPlatforms, conn, pageVars, drops>>
    /\ cursor' = [cursor EXCEPT ![v] = Cursor']
    /\ IF cursor[v] = Cursor'
       THEN UNCHANGED pipe
       ELSE LET b == Filtered(v, ReadBatch(cursor[v], ring', Cursor', messages', states'))
            IN pipe' = [pipe EXCEPT ![v] = Append(@, [batch |-> b, upto |-> SeenBy(v)'])]

\* The page handles a "batch" message: apply every event, then paint.
Deliver(v) ==
    /\ pipe[v] # <<>>
    /\ LET b == Head(pipe[v]).batch
       IN /\ view' = [view EXCEPT ![v] =
                 Rendered(ListAfter(IF b.reset THEN b.messages ELSE view[v], b.events))]
          /\ viewStates' = [viewStates EXCEPT ![v] =
                 StatesAfter(IF b.reset THEN b.states ELSE viewStates[v], b.events)]
          /\ lastId' = [lastId EXCEPT ![v] = b.id]
    /\ pipe' = [pipe EXCEPT ![v] = Tail(@)]
    /\ UNCHANGED <<vars, overlayPlatforms, conn, cursor, drops>>

\* The page's own clock drops old messages without waiting for the server.
PageClock(v) ==
    /\ Rendered(view[v]) # view[v]
    /\ view' = [view EXCEPT ![v] = Rendered(@)]
    /\ UNCHANGED <<vars, overlayPlatforms, serverVars, lastId, viewStates, drops>>

\* The connection breaks: what was on the wire is lost, the page stays.
Drop(v) ==
    /\ conn[v]
    /\ drops < MaxDrops
    /\ drops' = drops + 1
    /\ conn' = [conn EXCEPT ![v] = FALSE]
    /\ pipe' = [pipe EXCEPT ![v] = <<>>]
    /\ UNCHANGED <<vars, overlayPlatforms, cursor, pageVars>>

\* The page is loaded again.
ReloadPage(v) ==
    /\ drops < MaxDrops
    /\ drops' = drops + 1
    /\ conn' = [conn EXCEPT ![v] = FALSE]
    /\ pipe' = [pipe EXCEPT ![v] = <<>>]
    /\ lastId' = [lastId EXCEPT ![v] = None]
    /\ view' = [view EXCEPT ![v] = <<>>]
    /\ viewStates' = [viewStates EXCEPT ![v] = <<>>]
    /\ UNCHANGED <<vars, overlayPlatforms, cursor>>

\* A profile save: the new profile is visible, then the store is told.
SaveProfile(S, O) ==
    /\ UpdateSources(S)
    /\ overlayPlatforms' = O
    /\ UNCHANGED <<serverVars, pageVars, drops>>

StoreStep ==
    /\ \/ \E i \in Inputs : \E t \in Stamps : Ingest(Stamped(i, t))
       \/ Expire
       \/ Restart
       \/ Tick
    /\ UNCHANGED viewVars

ViewNext ==
    \/ StoreStep
    \/ \E S \in SourceSets, O \in OverlayChoices : SaveProfile(S, O)
    \/ \E v \in Viewers : Connect(v) \/ Poll(v) \/ Deliver(v) \/ PageClock(v)
                          \/ Drop(v) \/ ReloadPage(v)

ViewSpec == ViewInit /\ [][ViewNext]_<<vars, viewVars>>

\* The :expire timer re-arms itself, the loop polls every 50 ms, the browser
\* reconnects and delivers on its own.
ViewFairness ==
    /\ WF_vars(Expire)
    /\ WF_vars(Tick)
    /\ \A v \in Viewers : /\ WF_<<vars, viewVars>>(Connect(v))
                          /\ WF_<<vars, viewVars>>(Poll(v))
                          /\ WF_<<vars, viewVars>>(Deliver(v))
FairViewSpec == ViewSpec /\ ViewFairness

-----------------------------------------------------------------------------
(* Properties.                                                             *)

Current(S) == {e \in S : e.type = "message" => Fresh(e)}
OnScreen(v) == Current(Range(view[v]) \cup {viewStates[v][s] : s \in DOMAIN viewStates[v]})

\* A page that holds the store's cursor shows what a snapshot would show it:
\* replayed events and snapshots lead to the same screen, after lost batches,
\* reconnections, evictions, deletions, expiry and store crashes alike.
ReplayEqualsSnapshot ==
    \A v \in Viewers : lastId[v] = Cursor => OnScreen(v) = Current(SeenBy(v))

\* The same for the order of the messages.
ReplayKeepsOrder ==
    \A v \in Viewers : lastId[v] = Cursor =>
        LET list == Listed(messages)
        IN Rendered(view[v]) =
               Picked(list, {i \in DOMAIN list : Fresh(list[i]) /\ Passes(v, list[i])})

\* A page that holds the store's cursor shows no message under a barrier of
\* the store, even when a filter kept the deletion itself from the viewer.
DeletedLeavesScreen ==
    \A v \in Viewers : lastId[v] = Cursor => \A i \in DOMAIN view[v] : Standing(view[v][i])

\* Cursors, ring and epochs together keep the promise of Feed: a page shows
\* only what its viewer could have seen in the store at one instant.
FeedView == INSTANCE Feed WITH
    Items <- Event,
    content <- [v \in Viewers |-> Current(SeenBy(v))],
    sent <- [v \in Viewers |-> [i \in DOMAIN pipe[v] |-> Current(pipe[v][i].upto)]],
    shown <- [v \in Viewers |-> OnScreen(v)]

ImplementsFeed == FeedView!FeedSpec

\* Once the chat is quiet, every viewer ends up with the store's content.
ViewersCatchUp ==
    \A v \in Viewers : []<>(lastId[v] = Cursor /\ OnScreen(v) = Current(SeenBy(v)))
=============================================================================
