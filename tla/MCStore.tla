------------------------------ MODULE MCStore ------------------------------
(* Small instances of Store for TLC: two sources, three messages of two     *)
(* authors.  Occurrence times run ahead of and behind the local clock.      *)
EXTENDS Store

CONSTANTS s1, s2, m1, m2, m3, a1, a2, u1, u2, u3

Input(type, source, uid, id, author, state, occurred) ==
    [type |-> type, source |-> source, uid |-> uid, id |-> id, author |-> author,
     state |-> state, occurred |-> occurred, received |-> 0]

MCSources == {s1, s2}
MCIds == {m1, m2, m3}
MCAuthors == {a1, a2}
MCUids == {u1, u2, u3}
MCStates == {"available"}
MCSourceSets == {{s1, s2}, {s1}}

\* Messages, a redelivery without date, an edit, every deletion (one of them
\* late: older than the one it repeats), a state.
MCInputs ==
    {Input("message", s1, u1, m1, a1, None, 1),
     Input("message", s1, u2, m1, a1, None, None),
     Input("message", s1, u3, m2, a1, None, 2),
     Input("message", s2, u1, m3, a2, None, 1),
     Input("replace", s1, u1, m1, a1, None, 2),
     Input("delete_message", s1, u1, m1, None, None, None),
     Input("delete_author", s1, u1, None, a1, None, 1),
     Input("delete_author", s1, u2, None, a1, None, 0),
     Input("clear_channel", s2, u1, None, None, None, None),
     Input("source_state", s1, u1, None, None, "available", None)}

OneSource == {s1}
=============================================================================
