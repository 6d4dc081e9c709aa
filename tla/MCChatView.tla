----------------------------- MODULE MCChatView -----------------------------
(* Small instances of ChatView for TLC: one viewer, two platforms.          *)
EXTENDS ChatView

CONSTANTS s1, s2, m1, m2, m3, a1, a2, u1, u2, v1

Input(type, source, uid, id, author, state, occurred) ==
    [type |-> type, source |-> source, uid |-> uid, id |-> id, author |-> author,
     state |-> state, occurred |-> occurred, received |-> 0]

MCSources == {s1, s2}
MCIds == {m1, m2, m3}
MCAuthors == {a1, a2}
MCUids == {u1, u2}
MCStates == {"available"}
MCViewers == {v1}
MCPlatformOf == [s \in MCSources |-> IF s = s1 THEN "twitch" ELSE "kick"]
NoSaves == {}
AllPlatforms == {None}
OverlayOrAll == {None, {"twitch"}}

FeedInputs ==
    {Input("message", s1, u1, m1, a1, None, 1),
     Input("message", s1, u2, m2, a1, None, None),
     Input("message", s2, u1, m3, a2, None, None),
     Input("delete_author", s1, u1, None, a1, None, 0),
     Input("clear_channel", s2, u1, None, None, None, None)}

EditInputs ==
    {Input("message", s1, u1, m1, a1, None, 1),
     Input("message", s2, u1, m3, a2, None, None),
     Input("replace", s1, u1, m1, a1, None, 2),
     Input("clear_channel", s2, u1, None, None, None, None),
     Input("source_state", s1, u1, None, None, "available", None)}

SavedSources == {MCSources}
=============================================================================
