------------------------------ MODULE Formats ------------------------------
(***************************************************************************)
(* validate_output of scripts/media_validator.py: which files leave the    *)
(* decoder.  A file is what a reader finds in it: whether it starts with   *)
(* the signature of its format, its chunks in order, and its size in       *)
(* bytes, all of which the chunks account for.  A chunk of an image that   *)
(* is cut short, of another kind, of another pixel format or with a wrong  *)
(* checksum is bad.  Of the pixels only the compressed stream is left, so  *)
(* that order and completeness still show.  A loop over the chunks is the  *)
(* function of its states, one for each number of chunks read; beside it   *)
(* stands what it is meant to accept.                                      *)
(***************************************************************************)
EXTENDS Naturals, Sequences

CONSTANTS
    Pieces,     \* the bytes of compressed streams
    Streams,    \* streams with all the pixels the header tells of and no more
    MaxLength,  \* the longest samples a WAV may have, 960000 bytes
    Limits      \* LIMITS: the size a file of each category may have

ASSUME FormatsAssumption ==
    /\ Streams \subseteq Seq(Pieces) /\ <<>> \notin Streams
    /\ MaxLength \in Nat
    /\ Limits \in [{"image", "audio"} -> Nat]

\* A chunk of a PNG, with the bytes it takes up and what it adds to the stream.
Chunk(kind, size, payload) == [kind |-> kind, size |-> size, payload |-> payload]

IHDR == Chunk("IHDR", 25, <<>>)
pHYs == Chunk("pHYs", 21, <<>>)
IEND == Chunk("IEND", 12, <<>>)
IDAT(payload) == Chunk("IDAT", 12 + Len(payload), payload)
Bad(size) == Chunk("bad", size, <<>>)

Chunks ==
    {c \in [kind : {"IHDR", "pHYs", "IEND", "IDAT", "bad"}, size : Nat, payload : Seq(Pieces)] :
       IF c.kind = "IDAT" THEN c.size = 12 + Len(c.payload) ELSE c.payload = <<>>}

\* Mutant: a second end is not noticed, nor what comes after the first.
PngTurnOpen(chunks, s, n) ==
    LET c == chunks[n] IN
    [ok |-> /\ s.ok
            /\ \/ c.kind = "IHDR" /\ c.size = 25 /\ ~s.dimensions /\ n = 1
               \/ c.kind = "IDAT" /\ s.dimensions /\ ~s.ended
               \/ c.kind = "IEND" /\ c.size = 12 /\ s.dimensions /\ s.compressed # <<>>
               \/ c.kind = "pHYs" /\ c.size = 21 /\ s.dimensions,
     dimensions |-> s.dimensions \/ c.kind = "IHDR",
     compressed |-> s.compressed \o c.payload,
     ended |-> s.ended \/ c.kind = "IEND"]

\* One turn of the loop, with chunk n.
PngTurn(chunks, s, n) ==
    LET c == chunks[n] IN
    [ok |-> /\ s.ok
            /\ \/ c.kind = "IHDR" /\ c.size = 25 /\ ~s.dimensions /\ n = 1
               \/ c.kind = "IDAT" /\ s.dimensions /\ ~s.ended
               \/ /\ c.kind = "IEND" /\ c.size = 12 /\ n = Len(chunks)
                  /\ s.dimensions /\ s.compressed # <<>>
               \/ c.kind = "pHYs" /\ c.size = 21 /\ s.dimensions,
     dimensions |-> s.dimensions \/ c.kind = "IHDR",
     compressed |-> s.compressed \o c.payload,
     ended |-> s.ended \/ c.kind = "IEND"]

\* The whole loop over the chunks of an image.
PngAccepts(chunks) ==
    LET read[n \in 0..Len(chunks)] ==
            IF n = 0
            THEN [ok |-> TRUE, dimensions |-> FALSE, compressed |-> <<>>, ended |-> FALSE]
            ELSE PngTurn(chunks, read[n - 1], n)
        s == read[Len(chunks)]
    IN s.ok /\ s.ended /\ s.compressed \in Streams

ValidPng(file) == file.signature /\ PngAccepts(file.chunks)

\* All the payloads, one after the other.
Joined(chunks) ==
    LET upTo[n \in 0..Len(chunks)] == IF n = 0 THEN <<>> ELSE upTo[n - 1] \o chunks[n].payload
    IN upTo[Len(chunks)]

\* A header, a whole pixel stream in any number of pieces, the end, and
\* nothing else but resolutions in between.
Canonical(chunks) ==
    /\ Len(chunks) > 2
    /\ chunks[1] = IHDR /\ chunks[Len(chunks)] = IEND
    /\ \A n \in 2..Len(chunks) - 1 : chunks[n].kind = "IDAT" \/ chunks[n] = pHYs
    /\ Joined(chunks) \in Streams

WellFormedPng(file) ==
    /\ file.signature
    /\ Canonical(file.chunks)
    /\ file.size \in 1..Limits["image"]

Images ==
    {f \in [signature : BOOLEAN, chunks : Seq(Chunks), size : Nat] :
       IF f.signature
       THEN LET upTo[n \in 0..Len(f.chunks)] ==
                    IF n = 0 THEN 8 ELSE upTo[n - 1] + f.chunks[n].size
            IN f.size = upTo[Len(f.chunks)]
       ELSE f.chunks = <<>>}

-----------------------------------------------------------------------------

\* A chunk of a WAV, read where the lengths stated before it lead.  A format
\* other than one channel of 16 bits at 48000 Hz counts as another kind.
Riff(kind, length) == [kind |-> kind, length |-> length]

Riffs == [kind : STRING, length : Nat]

After(offset, c) == offset + 8 + c.length + (c.length % 2)

\* One turn of the loop over a file of this size.
WavTurn(size, s, c) ==
    [ok |-> /\ s.ok
            /\ s.offset + 8 + c.length <= size
            /\ c.kind \in {"fmt", "data"}
            /\ c.kind = "fmt" => c.length = 16,
     chunks |-> Append(s.chunks, c.kind),
     offset |-> After(s.offset, c)]

\* wave reads whole frames of two bytes and must find as many as it was told.
WavAccepts(size, chunks) ==
    LET read[n \in 0..Len(chunks)] ==
            IF n = 0 THEN [ok |-> TRUE, chunks |-> <<>>, offset |-> 12]
            ELSE WavTurn(size, read[n - 1], chunks[n])
        s == read[Len(chunks)]
    IN /\ s.ok
       /\ s.chunks = <<"fmt", "data">>
       /\ s.offset = size
       /\ chunks[2].length % 2 = 0
       /\ chunks[2].length \in 1..MaxLength

ValidWav(file) ==
    /\ file.signature
    /\ file.size >= 44 /\ file.riff + 8 = file.size
    /\ WavAccepts(file.size, file.chunks)

\* The one WAV with so many bytes of samples.
Recording(length) ==
    [signature |-> TRUE, riff |-> 36 + length,
     chunks |-> <<Riff("fmt", 16), Riff("data", length)>>, size |-> 44 + length]

WellFormedWav(file) ==
    /\ \E length \in 1..MaxLength : length % 2 = 0 /\ file = Recording(length)
    /\ file.size \in 1..Limits["audio"]

Recordings ==
    {f \in [signature : BOOLEAN, riff : Nat, chunks : Seq(Riffs), size : Nat] :
       IF f.signature
       THEN LET upTo[n \in 0..Len(f.chunks)] ==
                    IF n = 0 THEN 12 ELSE After(upTo[n - 1], f.chunks[n])
            IN /\ 12 <= f.size /\ f.size <= upTo[Len(f.chunks)]
               /\ \A n \in 1..Len(f.chunks) : upTo[n - 1] < f.size
       ELSE f.chunks = <<>>}

-----------------------------------------------------------------------------

\* What a file may be made of, whoever wrote it.
Output(category) == IF category = "image" THEN Images ELSE Recordings

\* Mutant: a file may be as large as it likes.
ValidUnlimited(category, file) ==
    /\ file.size > 0
    /\ IF category = "image" THEN ValidPng(file) ELSE ValidWav(file)

ValidOutput(category, file) ==
    /\ file.size > 0 /\ file.size <= Limits[category]
    /\ IF category = "image" THEN ValidPng(file) ELSE ValidWav(file)

WellFormed(category, file) ==
    IF category = "image" THEN WellFormedPng(file) ELSE WellFormedWav(file)

-----------------------------------------------------------------------------

\* What the decoder looks for in an image before FFmpeg sees it: a chunk of an
\* animation, or one that is longer than the file.
Static(input) == \A n \in DOMAIN input : input[n] \notin {"animation", "overlong"}
=============================================================================
