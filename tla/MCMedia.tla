------------------------------ MODULE MCMedia ------------------------------
(* One upload, its input and its output; two artifacts a decoder may come  *)
(* to.                                                                     *)
EXTENDS Media

CONSTANTS u1, h1, h2

MCUploads == {u1}
MCOutputs == {h1, h2}
MCOrder == <<<<"input", u1>>, <<"output", u1>>>>
=============================================================================
