------------------------------- MODULE Feed -------------------------------
(***************************************************************************)
(* What the live chat promises a viewer, without cursors, rings or epochs: *)
(* the viewer only ever shows what the store held, as far as the viewer    *)
(* may see it, at one instant of its past, and never goes back in time     *)
(* except by reloading the page.  Items grow old for everybody at once.    *)
(***************************************************************************)
EXTENDS Sequences, Integers

CONSTANTS Viewers, Items

VARIABLES
    content,    \* what each viewer would see if it looked now
    sent,       \* per viewer, the past contents on their way to it
    shown       \* per viewer, the content on its screen

feedVars == <<content, sent, shown>>

FeedInit ==
    /\ content \in [Viewers -> SUBSET Items]
    /\ sent = [v \in Viewers |-> <<>>]
    /\ shown = [v \in Viewers |-> {}]

\* The store takes in an event.
Change ==
    /\ content' \in [Viewers -> SUBSET Items]
    /\ UNCHANGED <<sent, shown>>

Serve(v) ==
    /\ sent' = [sent EXCEPT ![v] = Append(@, content[v])]
    /\ UNCHANGED <<content, shown>>

Show(v) ==
    /\ sent[v] # <<>>
    /\ shown' = [shown EXCEPT ![v] = Head(sent[v])]
    /\ sent' = [sent EXCEPT ![v] = Tail(@)]
    /\ UNCHANGED content

Lose(v) ==
    /\ sent' = [sent EXCEPT ![v] = <<>>]
    /\ UNCHANGED <<content, shown>>

Reload(v) ==
    /\ sent' = [sent EXCEPT ![v] = <<>>]
    /\ shown' = [shown EXCEPT ![v] = {}]
    /\ UNCHANGED content

\* Items past their age disappear from the store, the wire and the screens.
Age ==
    \E old \in SUBSET UNION ({content[v] : v \in Viewers} \cup {shown[v] : v \in Viewers}
                             \cup UNION {{sent[v][i] : i \in DOMAIN sent[v]} : v \in Viewers}) :
        /\ content' = [v \in Viewers |-> content[v] \ old]
        /\ sent' = [v \in Viewers |-> [i \in DOMAIN sent[v] |-> sent[v][i] \ old]]
        /\ shown' = [v \in Viewers |-> shown[v] \ old]

FeedNext ==
    \/ Change
    \/ Age
    \/ \E v \in Viewers : Serve(v) \/ Show(v) \/ Lose(v) \/ Reload(v)

FeedSpec == FeedInit /\ [][FeedNext]_feedVars
=============================================================================
