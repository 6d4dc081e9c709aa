----------------------------- MODULE MCSandbox -----------------------------
(* A few products for the launcher.  The check of the output is examined on *)
(* all images of up to four chunks of every kind and size that makes a      *)
(* difference, on those of five well-sized ones, and on all WAV files of up *)
(* to three chunks that end where the last one does, before it or behind.   *)
EXTENDS Sandbox, SequencesExt

CONSTANTS a, b

MCPieces == {a, b}
MCStreams == {<<a, b>>, <<b>>}

\* Room for a stream in two pieces and one resolution, and for six bytes of
\* samples although eight would not be too long a recording.
MCLimits == [image |-> 92, audio |-> 50]

Png(chunks) ==
    [signature |-> TRUE, chunks |-> chunks,
     size |-> 8 + FoldSeq(LAMBDA c, sum : c.size + sum, 0, chunks)]

Frame(payload) == Png(<<IHDR, IDAT(payload), IEND>>)

\* FFmpeg leaves a good file, one cut short, one that is too large or one of
\* another format.
MCProducts ==
    [image |-> {Frame(<<a, b>>), Png(<<IHDR, pHYs, IDAT(<<a>>), IDAT(<<b>>), IEND>>),
                Png(<<IHDR, pHYs, pHYs, IDAT(<<b>>), IEND>>), Frame(<<a>>),
                [signature |-> FALSE, chunks |-> <<>>, size |-> 60]},
     audio |-> {Recording(4), Recording(8), [Recording(4) EXCEPT !.riff = 48],
                [Recording(4) EXCEPT !.chunks[2].length = 3, !.riff = 39, !.size = 47]}]

MCSamples ==
    [image |-> {<<"still">>, <<"still", "animation">>}, audio |-> {<<>>}]

Sized == {IHDR, pHYs, IDAT(<<a>>), IDAT(<<b>>), IDAT(<<>>), IEND}
Missized == {Chunk("IHDR", 26, <<>>), Chunk("pHYs", 20, <<>>), Chunk("IEND", 13, <<>>), Bad(5)}

MCImages ==
    {Png(chunks) : chunks \in BoundedSeq(Sized, 5) \cup BoundedSeq(Sized \cup Missized, 4)}
    \cup [signature : {FALSE}, chunks : {<<>>}, size : {0, 8, 100}]

Chunked == {Riff(kind, length) : kind \in {"fmt", "data", "other"}, length \in {0, 3, 4, 8, 16}}

Ends(chunks) == FoldLeft(After, 12, chunks)

MCRecordings ==
    {f \in UNION {[signature : {TRUE}, riff : {Ends(chunks) - 8, Ends(chunks)},
                   chunks : {chunks}, size : (Ends(chunks) - 2)..(Ends(chunks) + 1)] :
                     chunks \in BoundedSeq(Chunked, 3)} :
       f \in Recordings}
    \cup [signature : {FALSE}, riff : {0}, chunks : {<<>>}, size : {0, 44}]

MCBounded == [image |-> MCImages, audio |-> MCRecordings]
=============================================================================
