--------------------------- MODULE SandboxProofs ---------------------------
(***************************************************************************)
(* Proofs about modules Formats and Sandbox: for files of any size the     *)
(* check of the decoder's output accepts the canonical ones within LIMITS  *)
(* and no other, and whatever the container does the launcher returns such *)
(* a file only, and tells a decoder that has spoken from one that died.  A *)
(* loop over the chunks of a file is a recursive function: that there is   *)
(* one, and what it is worth after n chunks, is proved by smallest         *)
(* counterexamples.                                                        *)
(***************************************************************************)
EXTENDS Sandbox, TLAPS, SequenceTheorems, WellFoundedInduction

-----------------------------------------------------------------------------
(* Loops                                                                   *)

\* What holds at the start and is kept by every turn holds all the way.
LEMMA EveryTurn ==
    ASSUME NEW N \in Nat, NEW S, 0 \in S, \A n \in 1..N : n - 1 \in S => n \in S
    PROVE  \A n \in 0..N : n \in S
  <1> DEFINE Missed == {n \in 0..N : n \notin S}
             less == OpToRel(<, Nat)
  <1>1. \A m, n \in Nat : <<n, m>> \in less <=> n < m
    BY DEF OpToRel
  <1>2. IsWellFoundedOn(less, Nat)
    BY NatLessThanWellFounded
  <1> HIDE DEF less
  <1> SUFFICES ASSUME Missed # {} PROVE FALSE
    OBVIOUS
  <1>3. Missed \subseteq Nat
    OBVIOUS
  <1>4. PICK m \in Missed : \A n \in Missed : ~ (<<n, m>> \in less)
    BY <1>2, <1>3, WFMin
  <1>5. m \in 1..N /\ m - 1 \in 0..N /\ m - 1 < m
    OBVIOUS
  <1>6. m - 1 \notin Missed
    <2>1. <<m - 1, m>> \in less
      BY <1>1, <1>5
    <2>2. QED
      BY <1>4, <2>1
  <1>7. QED
    BY <1>5, <1>6

\* The states, in V, of a loop of N turns that starts in start and whose turn n
\* takes state v to turn[v, n].
Loop(V, start, N, turn, f) ==
    /\ f \in [0..N -> V]
    /\ f[0] = start
    /\ \A n \in 1..N : f[n] = turn[<<f[n - 1], n>>]

LEMMA LoopExists ==
    ASSUME NEW V, NEW start \in V, NEW N \in Nat,
           NEW turn, \A v \in V, n \in 1..N : turn[<<v, n>>] \in V
    PROVE  \E f : Loop(V, start, N, turn, f)
  <1> DEFINE Runs(f, n) == f[n] = IF n = 0 THEN start ELSE turn[<<f[n - 1], n>>]
             UpTo(m) == \E f \in [0..N -> V] : \A n \in 0..m : Runs(f, n)
             S == {m \in 0..N : UpTo(m)}
  <1>1. 0 \in S
    <2> DEFINE f == [n \in 0..N |-> start]
    <2>1. f \in [0..N -> V] /\ \A n \in 0..0 : Runs(f, n)
      OBVIOUS
    <2> HIDE DEF f
    <2>2. UpTo(0)
      BY <2>1
    <2>3. QED
      BY <2>2
  <1>2. ASSUME NEW m \in 1..N, m - 1 \in S PROVE m \in S
    <2>1. PICK f \in [0..N -> V] : \A n \in 0..(m - 1) : Runs(f, n)
      BY <1>2
    <2> DEFINE g == [f EXCEPT ![m] = turn[<<f[m - 1], m>>]]
    <2>2. m - 1 \in 0..N /\ turn[<<f[m - 1], m>>] \in V
      OBVIOUS
    <2>3. g \in [0..N -> V]
      BY <2>2
    <2>4. ASSUME NEW n \in 0..m PROVE Runs(g, n)
      <3>1. CASE n = m
        BY <2>2, <3>1
      <3>2. CASE n # m
        <4>1. n \in 0..(m - 1) /\ n \in 0..N /\ (n # 0 => n - 1 \in 0..N /\ n - 1 # m)
          BY <3>2
        <4>2. g[n] = f[n] /\ (n # 0 => g[n - 1] = f[n - 1])
          BY <3>2, <4>1
        <4>3. QED
          BY <2>1, <4>1, <4>2
      <3>3. QED
        BY <3>1, <3>2
    <2> HIDE DEF g
    <2>5. UpTo(m)
      BY <2>3, <2>4
    <2>6. QED
      BY <2>5
  <1> HIDE DEF S
  <1>3. N \in S
    BY <1>1, <1>2, EveryTurn
  <1>4. PICK f \in [0..N -> V] : \A n \in 0..N : Runs(f, n)
    BY <1>3 DEF S
  <1>5. f[0] = start /\ \A n \in 1..N : f[n] = turn[<<f[n - 1], n>>]
    <2>1. 0 \in 0..N /\ \A n \in 1..N : n \in 0..N /\ n # 0
      OBVIOUS
    <2>2. QED
      BY <1>4, <2>1
  <1>6. QED
    BY <1>5 DEF Loop

-----------------------------------------------------------------------------
(* Images                                                                  *)

LEMMA ChunkFacts ==
    ASSUME NEW c \in Chunks
    PROVE  /\ c.payload \in Seq(Pieces)
           /\ c.kind # "IDAT" => c.payload = <<>>
           /\ c.kind = "IHDR" /\ c.size = 25 <=> c = IHDR
           /\ c.kind = "pHYs" /\ c.size = 21 <=> c = pHYs
           /\ c.kind = "IEND" /\ c.size = 12 <=> c = IEND
  <1>1. /\ c.payload \in Seq(Pieces)
        /\ c.kind # "IDAT" => c.payload = <<>>
    BY DEF Chunks
  <1>2. c = [kind |-> c.kind, size |-> c.size, payload |-> c.payload]
    BY DEF Chunks
  <1>3. c.kind = "IHDR" /\ c.size = 25 <=> c = IHDR
    BY <1>1, <1>2 DEF IHDR, Chunk
  <1>4. c.kind = "pHYs" /\ c.size = 21 <=> c = pHYs
    BY <1>1, <1>2 DEF pHYs, Chunk
  <1>5. c.kind = "IEND" /\ c.size = 12 <=> c = IEND
    BY <1>1, <1>2 DEF IEND, Chunk
  <1>6. QED
    BY <1>1, <1>3, <1>4, <1>5

PngStates == [ok : BOOLEAN, dimensions : BOOLEAN, compressed : Seq(Pieces), ended : BOOLEAN]

PngStart == [ok |-> TRUE, dimensions |-> FALSE, compressed |-> <<>>, ended |-> FALSE]

LEMMA PngTurnIsState ==
    ASSUME NEW img \in Seq(Chunks), NEW s \in PngStates, NEW n \in 1..Len(img)
    PROVE  PngTurn(img, s, n) \in PngStates
  <1>1. img[n] \in Chunks
    OBVIOUS
  <1>2. img[n].payload \in Seq(Pieces) /\ s.compressed \in Seq(Pieces)
    BY <1>1, ChunkFacts DEF PngStates
  <1>3. s.compressed \o img[n].payload \in Seq(Pieces)
    BY <1>2
  <1>4. s.ok \in BOOLEAN /\ s.dimensions \in BOOLEAN /\ s.ended \in BOOLEAN
    BY DEF PngStates
  <1>5. QED
    BY <1>3, <1>4 DEF PngTurn, PngStates

\* The loop of validate_output over the chunks of an image, and what it decides.
PngReads(img, read) ==
    /\ read[0] = PngStart
    /\ \A n \in 0..Len(img) : read[n] \in PngStates
    /\ \A n \in 1..Len(img) : read[n] = PngTurn(img, read[n - 1], n)

LEMMA ValidPngReads ==
    ASSUME NEW img \in Seq(Chunks)
    PROVE  \E read : /\ PngReads(img, read)
                     /\ PngAccepts(img) <=> /\ read[Len(img)].ok
                                          /\ read[Len(img)].ended
                                          /\ read[Len(img)].compressed \in Streams
  <1> DEFINE N == Len(img)
             Recursion(f) == f = [n \in 0..N |-> IF n = 0 THEN PngStart
                                                ELSE PngTurn(img, f[n - 1], n)]
             read == CHOOSE f : Recursion(f)
             turn == [p \in PngStates \X (1..N) |-> PngTurn(img, p[1], p[2])]
  <1>1. N \in Nat /\ PngStart \in PngStates
    BY DEF PngStart, PngStates
  <1>2. \A s \in PngStates, n \in 1..N : turn[<<s, n>>] = PngTurn(img, s, n)
    OBVIOUS
  <1>3. \A s \in PngStates, n \in 1..N : turn[<<s, n>>] \in PngStates
    BY <1>2, PngTurnIsState
  <1>4. PngAccepts(img) <=> read[N].ok /\ read[N].ended /\ read[N].compressed \in Streams
    BY DEF PngAccepts, PngStart
  <1> HIDE DEF turn, N
  <1>5. PICK f : Loop(PngStates, PngStart, N, turn, f)
    BY <1>1, <1>3, LoopExists
  <1>6. Recursion(f)
    <2>1. ASSUME NEW n \in 0..N
          PROVE  f[n] = IF n = 0 THEN PngStart ELSE PngTurn(img, f[n - 1], n)
      <3>1. CASE n = 0
        BY <1>5, <3>1 DEF Loop
      <3>2. CASE n # 0
        <4>1. n \in 1..N /\ n - 1 \in 0..N
          BY <1>1, <3>2
        <4>2. f[n - 1] \in PngStates
          BY <1>5, <4>1 DEF Loop
        <4>3. f[n] = turn[<<f[n - 1], n>>]
          BY <1>5, <4>1 DEF Loop
        <4>4. QED
          BY <1>2, <3>2, <4>1, <4>2, <4>3
      <3>3. QED
        BY <3>1, <3>2
    <2>2. f = [n \in 0..N |-> f[n]]
      BY <1>5 DEF Loop
    <2>3. QED
      BY <2>1, <2>2
  <1>7. Recursion(read)
    BY <1>6
  <1> HIDE DEF read
  <1>8. read[0] = PngStart
    BY <1>1, <1>7
  <1>9. \A n \in 1..N : read[n] = PngTurn(img, read[n - 1], n)
    BY <1>1, <1>7
  <1> DEFINE S == {n \in 0..N : read[n] \in PngStates}
  <1>10. 0 \in S
    BY <1>1, <1>8
  <1>11. ASSUME NEW n \in 1..N, n - 1 \in S PROVE n \in S
    BY <1>9, <1>11, PngTurnIsState DEF N
  <1> HIDE DEF S
  <1>12. \A n \in 0..N : n \in S
    BY <1>1, <1>10, <1>11, EveryTurn
  <1>13. PngReads(img, read)
    BY <1>8, <1>9, <1>12 DEF PngReads, N, S
  <1>14. QED
    BY <1>4, <1>13 DEF N

JoinedReads(img, upTo) ==
    /\ upTo[0] = <<>>
    /\ \A n \in 0..Len(img) : upTo[n] \in Seq(Pieces)
    /\ \A n \in 1..Len(img) : upTo[n] = upTo[n - 1] \o img[n].payload

LEMMA JoinedIsRead ==
    ASSUME NEW img \in Seq(Chunks)
    PROVE  \E upTo : JoinedReads(img, upTo) /\ Joined(img) = upTo[Len(img)]
  <1> DEFINE N == Len(img)
             Recursion(f) == f = [n \in 0..N |-> IF n = 0 THEN <<>>
                                                ELSE f[n - 1] \o img[n].payload]
             upTo == CHOOSE f : Recursion(f)
             turn == [p \in Seq(Pieces) \X (1..N) |-> p[1] \o img[p[2]].payload]
  <1>1. N \in Nat /\ <<>> \in Seq(Pieces)
    OBVIOUS
  <1>2. \A s \in Seq(Pieces), n \in 1..N : turn[<<s, n>>] = s \o img[n].payload
    OBVIOUS
  <1>3. ASSUME NEW s \in Seq(Pieces), NEW n \in 1..N PROVE s \o img[n].payload \in Seq(Pieces)
    <2>1. img[n].payload \in Seq(Pieces)
      BY ChunkFacts
    <2>2. QED
      BY <2>1
  <1>4. Joined(img) = upTo[N]
    BY DEF Joined
  <1> HIDE DEF turn, N
  <1>5. PICK f : Loop(Seq(Pieces), <<>>, N, turn, f)
    BY <1>1, <1>2, <1>3, LoopExists
  <1>6. Recursion(f)
    <2>1. ASSUME NEW n \in 0..N
          PROVE  f[n] = IF n = 0 THEN <<>> ELSE f[n - 1] \o img[n].payload
      <3>1. CASE n = 0
        BY <1>5, <3>1 DEF Loop
      <3>2. CASE n # 0
        <4>1. n \in 1..N /\ n - 1 \in 0..N
          BY <1>1, <3>2
        <4>2. f[n - 1] \in Seq(Pieces) /\ f[n] = turn[<<f[n - 1], n>>]
          BY <1>5, <4>1 DEF Loop
        <4>3. QED
          BY <1>2, <3>2, <4>1, <4>2
      <3>3. QED
        BY <3>1, <3>2
    <2>2. f = [n \in 0..N |-> f[n]]
      BY <1>5 DEF Loop
    <2>3. QED
      BY <2>1, <2>2
  <1>7. Recursion(upTo)
    BY <1>6
  <1> HIDE DEF upTo
  <1>8. upTo[0] = <<>>
    BY <1>1, <1>7
  <1>9. \A n \in 1..N : upTo[n] = upTo[n - 1] \o img[n].payload
    BY <1>1, <1>7
  <1> DEFINE V == Seq(Pieces)
             S == {n \in 0..N : upTo[n] \in V}
  <1> HIDE DEF V
  <1>10. 0 \in S
    <2>1. <<>> \in V
      BY <1>1 DEF V
    <2>2. QED
      BY <1>1, <1>8, <2>1
  <1>11. ASSUME NEW n \in 1..N, n - 1 \in S PROVE n \in S
    <2>1. upTo[n - 1] \o img[n].payload \in V
      BY <1>3, <1>11 DEF V
    <2>2. upTo[n] = upTo[n - 1] \o img[n].payload
      BY <1>9
    <2>3. upTo[n] \in V
      BY <2>1, <2>2
    <2>4. QED
      BY <1>1, <2>3
  <1> HIDE DEF S
  <1>12. \A n \in 0..N : n \in S
    BY <1>1, <1>10, <1>11, EveryTurn
  <1>13. JoinedReads(img, upTo)
    BY <1>8, <1>9, <1>12 DEF JoinedReads, N, S, V
  <1>14. QED
    BY <1>4, <1>13 DEF N

\* What chunk n must be in state s of the loop.
Fits(img, s, n) ==
    \/ img[n].kind = "IHDR" /\ img[n].size = 25 /\ ~s.dimensions /\ n = 1
    \/ img[n].kind = "IDAT" /\ s.dimensions /\ ~s.ended
    \/ /\ img[n].kind = "IEND" /\ img[n].size = 12 /\ n = Len(img)
       /\ s.dimensions /\ s.compressed # <<>>
    \/ img[n].kind = "pHYs" /\ img[n].size = 21 /\ s.dimensions

\* A turn, field by field.
Turns(img, s, n, t) ==
    /\ t.ok = (s.ok /\ Fits(img, s, n))
    /\ t.dimensions = (s.dimensions \/ img[n].kind = "IHDR")
    /\ t.ended = (s.ended \/ img[n].kind = "IEND")
    /\ t.compressed = s.compressed \o img[n].payload

LEMMA PngTurnFields ==
    ASSUME NEW img, NEW s, NEW n, NEW t, t = PngTurn(img, s, n)
    PROVE  Turns(img, s, n, t)
  <1>1. PngTurn(img, s, n).ok = (s.ok /\ Fits(img, s, n))
    BY Zenon DEF PngTurn, Fits
  <1>2. PngTurn(img, s, n).dimensions = (s.dimensions \/ img[n].kind = "IHDR")
    BY Zenon DEF PngTurn
  <1>3. PngTurn(img, s, n).ended = (s.ended \/ img[n].kind = "IEND")
    BY Zenon DEF PngTurn
  <1>4. PngTurn(img, s, n).compressed = s.compressed \o img[n].payload
    BY Zenon DEF PngTurn
  <1>5. QED
    BY <1>1, <1>2, <1>3, <1>4, Zenon DEF Turns

\* After n chunks: a header has been seen, an end has been seen, every chunk
\* was in its place, and what was collected is what the payloads join to.
LEMMA PngState ==
    ASSUME NEW img \in Seq(Chunks), NEW read, PngReads(img, read),
           NEW upTo, JoinedReads(img, upTo), NEW n \in 0..Len(img)
    PROVE  /\ read[n].dimensions <=> \E m \in 1..n : img[m].kind = "IHDR"
           /\ read[n].ended <=> \E m \in 1..n : img[m].kind = "IEND"
           /\ read[n].ok <=> \A m \in 1..n : Fits(img, read[m - 1], m)
           /\ read[n].compressed = upTo[n]
  <1> DEFINE N == Len(img)
             Known(k) ==
               /\ read[k].dimensions <=> \E m \in 1..k : img[m].kind = "IHDR"
               /\ read[k].ended <=> \E m \in 1..k : img[m].kind = "IEND"
               /\ read[k].ok <=> \A m \in 1..k : Fits(img, read[m - 1], m)
               /\ read[k].compressed = upTo[k]
             S == {k \in 0..N : Known(k)}
  <1>1. N \in Nat
    OBVIOUS
  <1>2. 0 \in S
    <2>1. read[0] = PngStart /\ upTo[0] = <<>>
      BY DEF PngReads, JoinedReads
    <2>2. Known(0)
      BY <2>1 DEF PngStart
    <2>3. QED
      BY <1>1, <2>2
  <1>3. ASSUME NEW k \in 1..N, k - 1 \in S PROVE k \in S
    <2>1. Known(k - 1)
      BY <1>3
    <2>2. 1..k = (1..(k - 1)) \cup {k}
      OBVIOUS
    <2>3. read[k] = PngTurn(img, read[k - 1], k)
      BY DEF PngReads
    <2>4. /\ read[k].ok <=> read[k - 1].ok /\ Fits(img, read[k - 1], k)
          /\ read[k].dimensions <=> read[k - 1].dimensions \/ img[k].kind = "IHDR"
          /\ read[k].ended <=> read[k - 1].ended \/ img[k].kind = "IEND"
          /\ read[k].compressed = read[k - 1].compressed \o img[k].payload
      <3>1. Turns(img, read[k - 1], k, read[k])
        BY <2>3, PngTurnFields
      <3>2. QED
        BY <3>1 DEF Turns
    <2>5. upTo[k] = upTo[k - 1] \o img[k].payload
      BY DEF JoinedReads
    <2>7. Known(k)
      BY <2>1, <2>2, <2>4, <2>5
    <2>8. QED
      BY <2>7
  <1> HIDE DEF S
  <1>4. n \in S
    BY <1>1, <1>2, <1>3, EveryTurn
  <1>5. QED
    BY <1>4 DEF S

\* Of any number of chunks the loop accepts the canonical ones and no other.
LEMMA ChunksCheckIsExact ==
    ASSUME FormatsAssumption, NEW img \in Seq(Chunks)
    PROVE  PngAccepts(img) <=> Canonical(img)
  <1> DEFINE N == Len(img)
  <1>1. PICK read : /\ PngReads(img, read)
                    /\ PngAccepts(img) <=> /\ read[N].ok
                                         /\ read[N].ended
                                         /\ read[N].compressed \in Streams
    BY ValidPngReads
  <1>2. PICK upTo : JoinedReads(img, upTo) /\ Joined(img) = upTo[N]
    BY JoinedIsRead
  <1>3. N \in Nat /\ \A n \in 1..N : img[n] \in Chunks
    OBVIOUS
  <1>4. \A n \in 0..N : /\ read[n].dimensions <=> \E m \in 1..n : img[m].kind = "IHDR"
                        /\ read[n].ended <=> \E m \in 1..n : img[m].kind = "IEND"
                        /\ read[n].ok <=> \A m \in 1..n : Fits(img, read[m - 1], m)
                        /\ read[n].compressed = upTo[n]
    BY <1>1, <1>2, PngState
  <1>5. \A n \in 1..N : upTo[n] = upTo[n - 1] \o img[n].payload
    BY <1>2 DEF JoinedReads
  <1>6. upTo[0] = <<>> /\ \A n \in 0..N : upTo[n] \in Seq(Pieces)
    BY <1>2 DEF JoinedReads
  <1>7. <<>> \notin Streams
    BY DEF FormatsAssumption
  <1>8. \A n \in 1..N : img[n].kind # "IDAT" => upTo[n] = upTo[n - 1]
    <2> TAKE n \in 1..N
    <2>1. img[n].kind # "IDAT" => img[n].payload = <<>>
      BY <1>3, ChunkFacts
    <2>2. n - 1 \in 0..N /\ upTo[n - 1] \in Seq(Pieces)
      BY <1>6
    <2>3. upTo[n - 1] \o <<>> = upTo[n - 1]
      BY <2>2
    <2>4. QED
      BY <1>5, <2>1, <2>3
  <1>9. \A n \in 1..N : /\ img[n].kind = "IHDR" /\ img[n].size = 25 <=> img[n] = IHDR
                        /\ img[n].kind = "pHYs" /\ img[n].size = 21 <=> img[n] = pHYs
                        /\ img[n].kind = "IEND" /\ img[n].size = 12 <=> img[n] = IEND
    BY <1>3, ChunkFacts
  <1> HIDE DEF N
  <1>10. ASSUME PngAccepts(img) PROVE Canonical(img)
    <2>1. /\ \A m \in 1..N : Fits(img, read[m - 1], m)
          /\ \E m \in 1..N : img[m].kind = "IEND"
          /\ upTo[N] \in Streams
      BY <1>1, <1>3, <1>4, <1>10
    <2>2. PICK last \in 1..N : img[last].kind = "IEND"
      BY <2>1
    <2>3. last = N /\ N >= 1 /\ read[N - 1].compressed # <<>> /\ img[N].size = 12
      BY <2>1, <2>2 DEF Fits, N
    <2>4. ~read[0].dimensions
      BY <1>3, <1>4
    <2>5. img[1].kind = "IHDR" /\ img[1].size = 25
      BY <1>3, <2>1, <2>3, <2>4 DEF Fits
    <2>6. upTo[1] = <<>> /\ upTo[0] = <<>>
      BY <1>3, <1>6, <1>8, <2>3, <2>5
    <2>7. N > 2
      <3>1. N # 1
        BY <2>2, <2>3, <2>5
      <3>2. N # 2
        BY <1>3, <1>4, <2>3, <2>6
      <3>3. QED
        BY <1>3, <2>3, <3>1, <3>2
    <2>8. \A n \in 2..(N - 1) : img[n].kind = "IDAT" \/ img[n] = pHYs
      <3> TAKE n \in 2..(N - 1)
      <3>1. n \in 1..N /\ n # 1 /\ n # N
        BY <1>3
      <3>2. Fits(img, read[n - 1], n)
        BY <2>1, <3>1
      <3>3. QED
        BY <1>9, <3>1, <3>2 DEF Fits, N
    <2>9. img[1] = IHDR /\ img[N] = IEND
      BY <1>3, <1>9, <2>2, <2>3, <2>5
    <2>10. QED
      BY <1>2, <2>1, <2>7, <2>8, <2>9 DEF Canonical, N
  <1>11. ASSUME Canonical(img) PROVE PngAccepts(img)
    <2>1. /\ N > 2
          /\ img[1] = IHDR /\ img[N] = IEND
          /\ \A n \in 2..(N - 1) : img[n].kind = "IDAT" \/ img[n] = pHYs
          /\ upTo[N] \in Streams
      BY <1>2, <1>11 DEF Canonical, N
    <2>2. /\ img[1].kind = "IHDR" /\ img[1].size = 25
          /\ img[N].kind = "IEND" /\ img[N].size = 12
          /\ \A n \in 2..(N - 1) :
                img[n].kind = "IDAT" \/ (img[n].kind = "pHYs" /\ img[n].size = 21)
      BY <2>1 DEF IHDR, pHYs, IEND, Chunk
    <2>3. 1 \in 1..N /\ N \in 1..N /\ \A n \in 1..N : n = 1 \/ n = N \/ n \in 2..(N - 1)
      BY <1>3, <2>1
    <2>4. \A n \in 1..N : read[n].dimensions
      BY <1>3, <1>4, <2>2
    <2>5. ~read[0].dimensions
      BY <1>3, <1>4
    <2>6. \A n \in 1..(N - 1) : ~read[n].ended
      <3> TAKE n \in 1..(N - 1)
      <3>1. n \in 0..N /\ \A m \in 1..n : m = 1 \/ m \in 2..(N - 1)
        BY <1>3
      <3>2. \A m \in 1..n : img[m].kind # "IEND"
        BY <2>1, <2>2, <3>1
      <3>3. QED
        BY <1>4, <3>1, <3>2
    <2>7. read[N - 1].compressed # <<>>
      <3>1. upTo[N - 1] \in Streams
        BY <1>3, <1>8, <2>1, <2>2, <2>3
      <3>2. QED
        BY <1>3, <1>4, <1>7, <2>1, <3>1
    <2>8. \A n \in 1..N : Fits(img, read[n - 1], n)
      <3> TAKE n \in 1..N
      <3>1. CASE n = 1
        BY <2>2, <2>5, <3>1 DEF Fits
      <3>2. CASE n = N
        <4>1. N - 1 \in 1..N
          BY <1>3, <2>1
        <4>2. QED
          BY <2>2, <2>4, <2>7, <3>2, <4>1 DEF Fits, N
      <3>3. CASE n \in 2..(N - 1)
        <4>1. n - 1 \in 1..N /\ n - 1 \in 1..(N - 1)
          BY <1>3, <3>3
        <4>2. QED
          BY <2>2, <2>4, <2>6, <3>3, <4>1 DEF Fits
      <3>4. QED
        BY <2>3, <3>1, <3>2, <3>3
    <2>9. N \in 0..N
      BY <1>3
    <2>10. read[N].ok /\ read[N].ended /\ read[N].compressed \in Streams
      BY <1>4, <2>1, <2>2, <2>3, <2>8, <2>9
    <2>11. QED
      BY <1>1, <2>10 DEF N
  <1>12. QED
    BY <1>10, <1>11

-----------------------------------------------------------------------------
(* Recordings                                                              *)

WavStates == [ok : BOOLEAN, chunks : Seq(STRING), offset : Nat]

WavStart == [ok |-> TRUE, chunks |-> <<>>, offset |-> 12]

LEMMA WavTurnIsState ==
    ASSUME NEW size \in Nat, NEW s \in WavStates, NEW c \in Riffs
    PROVE  WavTurn(size, s, c) \in WavStates
  <1>1. /\ s.ok \in BOOLEAN /\ s.chunks \in Seq(STRING) /\ s.offset \in Nat
        /\ c.kind \in STRING /\ c.length \in Nat
    BY DEF WavStates, Riffs
  <1>2. Append(s.chunks, c.kind) \in Seq(STRING)
    BY <1>1
  <1>3. c.length % 2 \in Nat
    BY <1>1
  <1>4. After(s.offset, c) \in Nat
    <2>1. PICK o \in Nat, l \in Nat, r \in Nat :
              o = s.offset /\ l = c.length /\ r = c.length % 2
      BY <1>1, <1>3
    <2>2. o + 8 + l + r \in Nat
      OBVIOUS
    <2>3. QED
      BY <2>1, <2>2 DEF After
  <1>5. QED
    BY <1>1, <1>2, <1>4 DEF WavTurn, WavStates

WavReads(size, wav, read) ==
    /\ read[0] = WavStart
    /\ \A n \in 0..Len(wav) : read[n] \in WavStates
    /\ \A n \in 1..Len(wav) : read[n] = WavTurn(size, read[n - 1], wav[n])

Agrees(size, wav, s) ==
    /\ s.ok
    /\ s.chunks = <<"fmt", "data">>
    /\ s.offset = size
    /\ wav[2].length % 2 = 0
    /\ wav[2].length \in 1..MaxLength

LEMMA WavAcceptsReads ==
    ASSUME NEW size \in Nat, NEW wav \in Seq(Riffs)
    PROVE  \E read : /\ WavReads(size, wav, read)
                     /\ WavAccepts(size, wav) <=> Agrees(size, wav, read[Len(wav)])
  <1> DEFINE N == Len(wav)
             Recursion(f) == f = [n \in 0..N |-> IF n = 0 THEN WavStart
                                                ELSE WavTurn(size, f[n - 1], wav[n])]
             read == CHOOSE f : Recursion(f)
             turn == [p \in WavStates \X (1..N) |-> WavTurn(size, p[1], wav[p[2]])]
  <1>1. N \in Nat /\ WavStart \in WavStates
    <2>1. <<>> \in Seq(STRING)
      OBVIOUS
    <2>2. QED
      BY <2>1 DEF WavStart, WavStates
  <1>2. \A s \in WavStates, n \in 1..N : turn[<<s, n>>] = WavTurn(size, s, wav[n])
    OBVIOUS
  <1>3. \A s \in WavStates, n \in 1..N : WavTurn(size, s, wav[n]) \in WavStates
    BY WavTurnIsState
  <1>4. WavAccepts(size, wav) <=> Agrees(size, wav, read[N])
    BY DEF WavAccepts, WavStart, Agrees
  <1> HIDE DEF turn, N
  <1>5. PICK f : Loop(WavStates, WavStart, N, turn, f)
    BY <1>1, <1>2, <1>3, LoopExists
  <1>6. Recursion(f)
    <2>1. ASSUME NEW n \in 0..N
          PROVE  f[n] = IF n = 0 THEN WavStart ELSE WavTurn(size, f[n - 1], wav[n])
      <3>1. CASE n = 0
        BY <1>5, <3>1 DEF Loop
      <3>2. CASE n # 0
        <4>1. n \in 1..N /\ n - 1 \in 0..N
          BY <1>1, <3>2
        <4>2. f[n - 1] \in WavStates /\ f[n] = turn[<<f[n - 1], n>>]
          BY <1>5, <4>1 DEF Loop
        <4>3. QED
          BY <1>2, <3>2, <4>1, <4>2
      <3>3. QED
        BY <3>1, <3>2
    <2>2. f = [n \in 0..N |-> f[n]]
      BY <1>5 DEF Loop
    <2>3. QED
      BY <2>1, <2>2
  <1>7. Recursion(read)
    BY <1>6
  <1> HIDE DEF read
  <1>8. read[0] = WavStart
    BY <1>1, <1>7
  <1>9. \A n \in 1..N : read[n] = WavTurn(size, read[n - 1], wav[n])
    BY <1>1, <1>7
  <1> DEFINE S == {n \in 0..N : read[n] \in WavStates}
  <1>10. 0 \in S
    BY <1>1, <1>8
  <1>11. ASSUME NEW n \in 1..N, n - 1 \in S PROVE n \in S
    BY <1>3, <1>9, <1>11
  <1> HIDE DEF S
  <1>12. \A n \in 0..N : n \in S
    BY <1>1, <1>10, <1>11, EveryTurn
  <1>13. WavReads(size, wav, read)
    BY <1>8, <1>9, <1>12 DEF WavReads, N, S
  <1>14. QED
    BY <1>4, <1>13 DEF N

\* A turn, field by field.
WavTurns(size, s, c, t) ==
    /\ t.ok <=> /\ s.ok
                /\ s.offset + 8 + c.length <= size
                /\ c.kind \in {"fmt", "data"}
                /\ c.kind = "fmt" => c.length = 16
    /\ t.chunks = Append(s.chunks, c.kind)
    /\ t.offset = s.offset + 8 + c.length + (c.length % 2)

LEMMA WavTurnFields ==
    ASSUME NEW size, NEW s, NEW c, NEW t, t = WavTurn(size, s, c)
    PROVE  WavTurns(size, s, c, t)
  <1>1. WavTurns(size, s, c, WavTurn(size, s, c))
    BY Zenon DEF WavTurns, WavTurn, After
  <1>2. QED
    BY <1>1

\* The loop collects one kind for each chunk.
LEMMA OneKindEach ==
    ASSUME NEW size, NEW wav \in Seq(Riffs), NEW read, WavReads(size, wav, read)
    PROVE  Len(read[Len(wav)].chunks) = Len(wav)
  <1> DEFINE N == Len(wav)
             S == {n \in 0..N : Len(read[n].chunks) = n}
  <1>1. N \in Nat
    OBVIOUS
  <1>2. 0 \in S
    <2>1. read[0].chunks = <<>>
      BY DEF WavReads, WavStart
    <2>2. QED
      BY <1>1, <2>1
  <1>3. ASSUME NEW n \in 1..N, n - 1 \in S PROVE n \in S
    <2>1. n - 1 \in 0..N /\ read[n] = WavTurn(size, read[n - 1], wav[n])
      BY DEF WavReads
    <2>2. read[n - 1].chunks \in Seq(STRING)
      BY <2>1 DEF WavReads, WavStates
    <2>3. read[n].chunks = Append(read[n - 1].chunks, wav[n].kind)
      BY <2>1, WavTurnFields DEF WavTurns
    <2>4. wav[n].kind \in STRING
      <3>1. wav[n] \in Riffs
        OBVIOUS
      <3>2. QED
        BY <3>1 DEF Riffs
    <2>5. Len(read[n].chunks) = Len(read[n - 1].chunks) + 1
      BY <2>2, <2>3, <2>4
    <2>6. QED
      BY <1>3, <2>5
  <1> HIDE DEF S
  <1>4. \A n \in 0..N : n \in S
    BY <1>1, <1>2, <1>3, EveryTurn
  <1>5. QED
    BY <1>1, <1>4 DEF S

LEMMA TwoKinds ==
    ASSUME NEW S, NEW k \in S, NEW l \in S
    PROVE  Append(<<k>>, l) = <<k, l>>
  <1>1. <<k>> \in Seq(S)
    OBVIOUS
  <1>2. Append(<<k>>, l) \in Seq(S) /\ Len(Append(<<k>>, l)) = 2
    BY <1>1
  <1>3. Append(<<k>>, l)[1] = k /\ Append(<<k>>, l)[2] = l
    BY <1>1
  <1>4. <<k, l>> \in Seq(S) /\ Len(<<k, l>>) = 2 /\ <<k, l>>[1] = k /\ <<k, l>>[2] = l
    OBVIOUS
  <1> DEFINE s == Append(<<k>>, l)
             t == <<k, l>>
  <1> HIDE DEF s, t
  <1>5. s \in Seq(S) /\ t \in Seq(S) /\ Len(s) = Len(t) /\ \A i \in 1..Len(s) : s[i] = t[i]
    <2>1. Len(s) = 2 /\ s[1] = k /\ s[2] = l /\ s \in Seq(S)
      BY <1>2, <1>3 DEF s
    <2>2. Len(t) = 2 /\ t[1] = k /\ t[2] = l /\ t \in Seq(S)
      BY <1>4 DEF t
    <2>3. QED
      BY <2>1, <2>2
  <1>6. s = t
    BY <1>5, SeqEqual
  <1>7. QED
    BY <1>6 DEF s, t

\* Of any number of chunks the loop accepts a format and whole samples that end
\* with the file, and no other.
LEMMA RiffsCheckIsExact ==
    ASSUME NEW size \in Nat, NEW wav \in Seq(Riffs)
    PROVE  WavAccepts(size, wav) <=>
               \E length \in 1..MaxLength :
                   /\ length % 2 = 0 /\ size = 44 + length
                   /\ wav = <<Riff("fmt", 16), Riff("data", length)>>
  <1> DEFINE Exact == \E length \in 1..MaxLength :
                          /\ length % 2 = 0 /\ size = 44 + length
                          /\ wav = <<Riff("fmt", 16), Riff("data", length)>>
  <1>1. PICK read : /\ WavReads(size, wav, read)
                    /\ WavAccepts(size, wav) <=> Agrees(size, wav, read[Len(wav)])
    BY WavAcceptsReads
  <1>2. Agrees(size, wav, read[Len(wav)]) => Len(wav) = 2
    BY <1>1, OneKindEach DEF Agrees
  <1>3. Exact => Len(wav) = 2
    OBVIOUS
  <1>4. ASSUME Len(wav) = 2 PROVE Agrees(size, wav, read[2]) <=> Exact
    <2>1. wav[1] \in Riffs /\ wav[2] \in Riffs
      BY <1>4
    <2>2. PICK c \in Riffs, d \in Riffs : c = wav[1] /\ d = wav[2]
      BY <2>1
    <2>3. PICK s, t : s = read[1] /\ t = read[2]
      OBVIOUS
    <2>4. s = WavTurn(size, WavStart, c) /\ t = WavTurn(size, s, d)
      BY <1>1, <1>4, <2>2, <2>3 DEF WavReads
    <2>5. WavTurns(size, WavStart, c, s) /\ WavTurns(size, s, d, t)
      BY <2>4, WavTurnFields
    <2>6. c.kind \in STRING /\ c.length \in Nat /\ d.kind \in STRING /\ d.length \in Nat
      BY DEF Riffs
    <2>7. /\ s.ok <=> /\ 20 + c.length <= size
                      /\ c.kind \in {"fmt", "data"} /\ (c.kind = "fmt" => c.length = 16)
          /\ s.chunks = <<c.kind>>
          /\ s.offset = 20 + c.length + (c.length % 2)
      BY <2>5, <2>6 DEF WavTurns, WavStart
    <2>8. t.chunks = <<c.kind, d.kind>>
      <3>1. Append(<<c.kind>>, d.kind) = <<c.kind, d.kind>>
        BY <2>6, TwoKinds
      <3>2. QED
        BY <2>5, <2>7, <3>1 DEF WavTurns
    <2>9. ASSUME Agrees(size, wav, t) PROVE Exact
      <3>1. c.kind = "fmt" /\ d.kind = "data" /\ t.ok /\ t.offset = size
        BY <2>8, <2>9 DEF Agrees
      <3>2. c.length = 16 /\ s.offset = 36
        <4>1. s.ok
          BY <2>5, <3>1 DEF WavTurns
        <4>2. c.length = 16
          BY <2>7, <3>1, <4>1
        <4>3. QED
          BY <2>7, <4>2
      <3>3. PICK l \in 1..MaxLength : l = d.length /\ l % 2 = 0
        BY <2>2, <2>9 DEF Agrees
      <3>4. size = 44 + l
        BY <2>5, <3>1, <3>2, <3>3 DEF WavTurns
      <3>5. c = Riff("fmt", 16) /\ d = Riff("data", l)
        BY <3>1, <3>2, <3>3 DEF Riffs, Riff
      <3>6. wav = <<c, d>>
        BY <1>4, <2>2
      <3>7. QED
        BY <3>3, <3>4, <3>5, <3>6
    <2>10. ASSUME Exact PROVE Agrees(size, wav, t)
      <3>1. PICK length \in 1..MaxLength :
                /\ length % 2 = 0 /\ size = 44 + length
                /\ wav = <<Riff("fmt", 16), Riff("data", length)>>
        BY <2>10
      <3>2. c = Riff("fmt", 16) /\ d = Riff("data", length)
        BY <2>2, <3>1
      <3>3. /\ c.kind = "fmt" /\ c.length = 16
            /\ d.kind = "data" /\ d.length = length
        BY <3>2 DEF Riff
      <3>4. length \in Nat
        OBVIOUS
      <3>5. s.ok /\ s.offset = 36
        BY <2>7, <3>1, <3>3, <3>4
      <3>6. t.ok /\ t.offset = size
        BY <2>5, <3>1, <3>3, <3>4, <3>5 DEF WavTurns
      <3>7. QED
        BY <2>2, <2>8, <3>1, <3>3, <3>6 DEF Agrees
    <2>11. QED
      BY <2>3, <2>9, <2>10
  <1>5. QED
    BY <1>1, <1>2, <1>3, <1>4

-----------------------------------------------------------------------------
(* Whole files                                                             *)

LEMMA ImageCheckIsExact ==
    ASSUME FormatsAssumption, NEW f \in Images
    PROVE  ValidOutput("image", f) <=> WellFormedPng(f)
  <1>1. f.chunks \in Seq(Chunks) /\ f.size \in Nat /\ Limits["image"] \in Nat
    BY DEF Images, FormatsAssumption
  <1>2. PngAccepts(f.chunks) <=> Canonical(f.chunks)
    BY <1>1, ChunksCheckIsExact
  <1>3. f.size > 0 /\ f.size <= Limits["image"] <=> f.size \in 1..Limits["image"]
    BY <1>1
  <1>4. QED
    BY <1>2, <1>3 DEF ValidOutput, ValidPng, WellFormedPng

LEMMA RecordingCheckIsExact ==
    ASSUME FormatsAssumption, NEW f \in Recordings
    PROVE  ValidOutput("audio", f) <=> WellFormedWav(f)
  <1>1. /\ f.signature \in BOOLEAN /\ f.riff \in Nat /\ f.chunks \in Seq(Riffs) /\ f.size \in Nat
        /\ Limits["audio"] \in Nat
        /\ f = [signature |-> f.signature, riff |-> f.riff, chunks |-> f.chunks, size |-> f.size]
    BY DEF Recordings, FormatsAssumption
  <1>2. WavAccepts(f.size, f.chunks) <=>
            \E length \in 1..MaxLength :
                /\ length % 2 = 0 /\ f.size = 44 + length
                /\ f.chunks = <<Riff("fmt", 16), Riff("data", length)>>
    BY <1>1, RiffsCheckIsExact
  <1>3. f.size > 0 /\ f.size <= Limits["audio"] <=> f.size \in 1..Limits["audio"]
    BY <1>1
  <1>4. ASSUME ValidWav(f)
        PROVE  \E length \in 1..MaxLength : length % 2 = 0 /\ f = Recording(length)
    <2>1. f.signature /\ f.riff + 8 = f.size /\ WavAccepts(f.size, f.chunks)
      BY <1>4 DEF ValidWav
    <2>2. PICK length \in 1..MaxLength :
                /\ length % 2 = 0 /\ f.size = 44 + length
                /\ f.chunks = <<Riff("fmt", 16), Riff("data", length)>>
      BY <1>2, <2>1
    <2>3. f.riff = 36 + length
      BY <1>1, <2>1, <2>2
    <2>4. f = Recording(length)
      BY <1>1, <2>1, <2>2, <2>3 DEF Recording
    <2>5. QED
      BY <2>2, <2>4
  <1>5. ASSUME NEW length \in 1..MaxLength, length % 2 = 0, f = Recording(length)
        PROVE  ValidWav(f)
    <2>1. /\ f.signature /\ f.riff = 36 + length /\ f.size = 44 + length
          /\ f.chunks = <<Riff("fmt", 16), Riff("data", length)>>
      BY <1>5 DEF Recording
    <2>2. WavAccepts(f.size, f.chunks)
      BY <1>2, <1>5, <2>1
    <2>3. f.size >= 44 /\ f.riff + 8 = f.size
      BY <2>1
    <2>4. QED
      BY <2>1, <2>2, <2>3 DEF ValidWav
  <1>6. QED
    BY <1>3, <1>4, <1>5 DEF ValidOutput, WellFormedWav

-----------------------------------------------------------------------------
(* The launcher                                                            *)

LEMMA CheckIsExactOn ==
    ASSUME FormatsAssumption, NEW c \in {"image", "audio"}, NEW f \in Output(c)
    PROVE  ValidOutput(c, f) <=> WellFormed(c, f)
  <1>1. CASE c = "image"
    BY <1>1, ImageCheckIsExact DEF Output, WellFormed
  <1>2. CASE c = "audio"
    BY <1>2, RecordingCheckIsExact DEF Output, WellFormed
  <1>3. QED
    BY <1>1, <1>2

\* What the model's constants may be: a file is not None, and neither is a
\* rejection or a report.
LEMMA Distinct ==
    ASSUME SandboxAssumption, category \in {"image", "audio"}
    PROVE  /\ Files \subseteq Output(category)
           /\ None \notin Files /\ Rejection # None /\ Rejection.ok = FALSE
           /\ \A f \in Files \cup {None} :
                 Report(f) # None /\ Report(f) # Rejection /\ Report(f).ok = TRUE
  <1>1. /\ Products[category] \subseteq Output(category)
        /\ None \notin Products[category]
        /\ None \notin [ok : BOOLEAN, of : Products[category] \cup {None}]
    BY DEF SandboxAssumption
  <1>2. Rejection \in [ok : BOOLEAN, of : Products[category] \cup {None}]
    BY DEF Rejection
  <1>3. \A f \in Products[category] \cup {None} :
            Report(f) \in [ok : BOOLEAN, of : Products[category] \cup {None}]
    BY DEF Report
  <1>4. Rejection.ok = FALSE /\ \A f : Report(f).ok = TRUE
    BY DEF Rejection, Report
  <1>5. QED
    BY <1>1, <1>2, <1>3, <1>4 DEF Files

\* While the launcher looks at the container there is one, and it takes the
\* last look only once the container has exited.
LookFits ==
    /\ step \in {"logs", "inspect", "again", "exec"} => container \in {"running", "exited"}
    /\ step = "again" => container = "exited"
    /\ step = "exec" => printed # None /\ printed.ok

\* A verdict rests on what the container can no longer change.
VerdictFits ==
    /\ outcome # "none" <=> step \in {"remove", "done"}
    /\ outcome = "exited" => printed = None /\ container \in {"exited", "absent"}
    /\ outcome = "rejected" => printed = Rejection
    /\ outcome = "ready" =>
          /\ file \in Files /\ ValidOutput(category, file) /\ printed = Report(file)
          /\ container # "creating" /\ (step = "done" => container = "absent")

SInv == SandboxTypeOK /\ LookFits /\ VerdictFits

LEMMA InitSInv ==
    ASSUME SandboxAssumption, Init
    PROVE  SInv
  <1>1. SandboxTypeOK
    <2>1. 0 \in 0..MaxFaults
      BY DEF SandboxAssumption
    <2>2. QED
      BY <2>1 DEF Init, SandboxTypeOK, Steps
  <1>2. LookFits /\ VerdictFits
    BY DEF Init, LookFits, VerdictFits
  <1>3. QED
    BY <1>1, <1>2 DEF SInv

\* The container prints once, and leaves its files alone once it has printed.
LEMMA ContainerStep ==
    ASSUME SandboxAssumption, SInv, printed = None, container = "running",
           UNCHANGED container, Decoder,
           file' \in Files \cup {None},
           printed' \in {Rejection} \cup {Report(f) : f \in Files \cup {None}}
    PROVE  SInv'
  <1>1. Files' = Files /\ category \in {"image", "audio"}
    BY DEF Decoder, Files, SInv, SandboxTypeOK
  <1>2. printed' # None
    BY <1>1, Distinct
  <1>3. SandboxTypeOK'
    BY <1>1 DEF SInv, SandboxTypeOK, Decoder
  <1>4. step # "exec" /\ LookFits'
    BY DEF SInv, LookFits, Decoder
  <1>5. outcome \notin {"exited", "rejected", "ready"}
    BY <1>1, Distinct DEF SInv, VerdictFits, SandboxTypeOK
  <1>6. VerdictFits'
    BY <1>5 DEF SInv, VerdictFits, Decoder
  <1>7. QED
    BY <1>3, <1>4, <1>6 DEF SInv

\* A step of the launcher that leaves the container as it is, and goes on.
LEMMA GoesOn ==
    ASSUME SInv, NEW next \in Steps \ {"remove", "done"}, step \notin {"remove", "done"},
           Goto(next), Launcher,
           next = "again" => container = "exited",
           next # "run" => container \in {"running", "exited"},
           next = "exec" => printed # None /\ printed.ok
    PROVE  SInv'
  <1>1. UNCHANGED <<category, input, honest, container, printed, file, late, outcome, faults>>
        /\ step' = next
    BY DEF Goto, Launcher, decoder
  <1>2. Files' = Files
    BY <1>1 DEF Files
  <1>3. SandboxTypeOK'
    BY <1>1, <1>2 DEF SInv, SandboxTypeOK
  <1>4. LookFits'
    BY <1>1 DEF LookFits, Steps
  <1>5. VerdictFits'
    BY <1>1, <1>2 DEF SInv, VerdictFits
  <1>6. QED
    BY <1>3, <1>4, <1>5 DEF SInv

\* A step of the launcher that ends in a verdict.
LEMMA Decides ==
    ASSUME SInv, NEW verdict \in {"ready", "rejected", "exited", "failed"},
           Leave(verdict), Launcher,
           verdict = "exited" => printed = None /\ container = "exited",
           verdict = "rejected" => printed = Rejection,
           verdict = "ready" => /\ file \in Files /\ ValidOutput(category, file)
                                /\ printed = Report(file) /\ container = "running"
    PROVE  SInv'
  <1>1. UNCHANGED <<category, input, honest, container, printed, file, late, faults>>
        /\ step' = "remove" /\ outcome' = verdict
    BY DEF Leave, Launcher, decoder
  <1>2. Files' = Files
    BY <1>1 DEF Files
  <1>3. SandboxTypeOK'
    BY <1>1, <1>2 DEF SInv, SandboxTypeOK, Steps
  <1>4. LookFits'
    BY <1>1 DEF LookFits
  <1>5. VerdictFits'
    BY <1>1, <1>2 DEF VerdictFits
  <1>6. QED
    BY <1>3, <1>4, <1>5 DEF SInv

LEMMA ReadStep ==
    ASSUME SandboxAssumption, SInv, Read, Launcher, printed # None,
           step \in {"logs", "again"}
    PROVE  SInv'
  <1>1. /\ category \in {"image", "audio"}
        /\ printed \in {Rejection} \cup {Report(f) : f \in Files \cup {None}}
        /\ container \in {"running", "exited"}
    BY DEF SInv, SandboxTypeOK, LookFits
  <1>2. CASE printed.ok
    <2>1. Goto("exec")
      BY <1>2 DEF Read
    <2>2. QED
      BY <1>1, <1>2, <2>1, GoesOn DEF Steps
  <1>3. CASE ~printed.ok
    <2>1. Leave("rejected") /\ printed = Rejection
      BY <1>1, <1>3, Distinct DEF Read
    <2>2. QED
      BY <1>1, <2>1, Decides
  <1>4. QED
    BY <1>2, <1>3

LEMMA LaunchStep ==
    ASSUME SandboxAssumption, SInv, Launch
    PROVE  SInv'
  <1>1. CASE Run
    <2>1. UNCHANGED <<category, input, honest, printed, file, late, outcome, faults>>
          /\ step = "run" /\ step' = "logs" /\ container' = "running"
      BY <1>1 DEF Run, Command, Launcher, decoder
    <2>2. Files' = Files
      BY <2>1 DEF Files
    <2>3. SandboxTypeOK'
      BY <2>1, <2>2 DEF SInv, SandboxTypeOK, Steps
    <2>4. LookFits' /\ VerdictFits'
      BY <2>1, <2>2 DEF SInv, LookFits, VerdictFits
    <2>5. QED
      BY <2>3, <2>4 DEF SInv
  <1>2. CASE Logs
    <2>1. step = "logs" /\ Launcher /\ container \in {"running", "exited"}
      BY <1>2 DEF Logs, Command, SInv, LookFits
    <2>2. CASE printed = None
      <3>1. Goto("inspect")
        BY <1>2, <2>2 DEF Logs
      <3>2. QED
        BY <2>1, <3>1, GoesOn DEF Steps
    <2>3. CASE printed # None
      BY <1>2, <2>1, <2>3, ReadStep DEF Logs
    <2>4. QED
      BY <2>2, <2>3
  <1>3. CASE Inspect
    <2>1. step = "inspect" /\ Launcher /\ container \in {"running", "exited"}
      BY <1>3 DEF Inspect, Command, SInv, LookFits
    <2>2. CASE container = "running"
      <3>1. Goto("logs")
        BY <1>3, <2>2 DEF Inspect
      <3>2. QED
        BY <2>1, <3>1, GoesOn DEF Steps
    <2>3. CASE container # "running"
      <3>1. Goto("again")
        BY <1>3, <2>3 DEF Inspect
      <3>2. QED
        BY <2>1, <2>3, <3>1, GoesOn DEF Steps
    <2>4. QED
      BY <2>2, <2>3
  <1>4. CASE LogsAgain
    <2>1. step = "again" /\ Launcher /\ container = "exited"
      BY <1>4 DEF LogsAgain, Command, SInv, LookFits
    <2>2. CASE printed = None
      <3>1. Leave("exited")
        BY <1>4, <2>2 DEF LogsAgain
      <3>2. QED
        BY <2>1, <2>2, <3>1, Decides
    <2>3. CASE printed # None
      BY <1>4, <2>1, <2>3, ReadStep DEF LogsAgain
    <2>4. QED
      BY <2>2, <2>3
  <1>5. CASE Exec
    <2>1. Launcher
      BY <1>5 DEF Exec
    <2>2. CASE Fetched /\ ValidOutput(category, file) /\ printed = Report(file)
      <3>1. Leave("ready")
        BY <1>5, <2>2 DEF Exec
      <3>2. file \in Files
        BY <2>2 DEF Fetched, SInv, SandboxTypeOK
      <3>3. QED
        BY <2>1, <2>2, <3>1, <3>2, Decides DEF Fetched
    <2>3. CASE ~ (Fetched /\ ValidOutput(category, file) /\ printed = Report(file))
      <3>1. Leave("failed")
        BY <1>5, <2>3 DEF Exec
      <3>2. QED
        BY <2>1, <3>1, Decides
    <2>4. QED
      BY <2>2, <2>3
  <1>6. CASE CommandFails
    <2>1. UNCHANGED <<category, input, honest, printed, file, late>>
          /\ step' = "remove" /\ outcome' = "failed"
      BY <1>6 DEF CommandFails, Launcher, decoder
    <2>2. Files' = Files
      BY <2>1 DEF Files
    <2>3. faults' \in 0..MaxFaults
      BY <1>6 DEF CommandFails, SInv, SandboxTypeOK, SandboxAssumption
    <2>4. container' \in {"absent", "creating", "running", "exited"}
      BY <1>6 DEF CommandFails, SInv, SandboxTypeOK
    <2>5. SandboxTypeOK'
      BY <2>1, <2>2, <2>3, <2>4 DEF SInv, SandboxTypeOK, Steps
    <2>6. LookFits' /\ VerdictFits'
      BY <2>1 DEF LookFits, VerdictFits
    <2>7. QED
      BY <2>5, <2>6 DEF SInv
  <1>7. CASE RemoveContainer
    <2>1. UNCHANGED <<category, input, honest, printed, file, late>>
          /\ step = "remove" /\ step' = "done"
      BY <1>7 DEF RemoveContainer, Launcher, decoder
    <2>2. Files' = Files
      BY <2>1 DEF Files
    <2>3. CASE /\ container' = IF container = "creating" THEN container ELSE "absent"
               /\ UNCHANGED <<outcome, faults>>
      <3>1. SandboxTypeOK'
        BY <2>1, <2>2, <2>3 DEF SInv, SandboxTypeOK, Steps
      <3>2. LookFits' /\ VerdictFits'
        BY <2>1, <2>2, <2>3 DEF SInv, LookFits, VerdictFits
      <3>3. QED
        BY <3>1, <3>2 DEF SInv
    <2>4. CASE /\ faults < MaxFaults /\ faults' = faults + 1
               /\ outcome' = "unclean" /\ UNCHANGED container
      <3>1. SandboxTypeOK'
        BY <2>1, <2>2, <2>4 DEF SInv, SandboxTypeOK, Steps, SandboxAssumption
      <3>2. LookFits' /\ VerdictFits'
        BY <2>1, <2>2, <2>4 DEF SInv, LookFits, VerdictFits
      <3>3. QED
        BY <3>1, <3>2 DEF SInv
    <2>5. QED
      BY <1>7, <2>3, <2>4 DEF RemoveContainer
  <1>8. QED
    BY <1>1, <1>2, <1>3, <1>4, <1>5, <1>6, <1>7 DEF Launch

LEMMA StepSInv ==
    ASSUME SandboxAssumption, SInv, [Next]_vars
    PROVE  SInv'
  <1>1. ASSUME NEW f \in Files, Decode(f) PROVE SInv'
    <2>1. printed' \in {Rejection, Report(f)}
      BY <1>1 DEF Decode
    <2>2. QED
      BY <1>1, <2>1, ContainerStep DEF Decode
  <1>2. ASSUME NEW f \in Files, Misbehave(f) PROVE SInv'
    BY <1>2, ContainerStep DEF Misbehave
  <1>3. CASE Reject
    <2>1. file \in Files \cup {None}
      BY DEF SInv, SandboxTypeOK
    <2>2. QED
      BY <1>3, <2>1, ContainerStep DEF Reject
  <1>4. CASE Exit
    <2>1. UNCHANGED <<category, input, honest, printed, file, step, late, outcome, faults>>
          /\ container = "running" /\ container' = "exited"
      BY <1>4 DEF Exit, Decoder, decoder
    <2>2. Files' = Files
      BY <2>1 DEF Files
    <2>3. SandboxTypeOK'
      BY <2>1, <2>2 DEF SInv, SandboxTypeOK
    <2>4. LookFits' /\ VerdictFits'
      BY <2>1, <2>2 DEF SInv, LookFits, VerdictFits
    <2>5. QED
      BY <2>3, <2>4 DEF SInv
  <1>5. CASE Appear
    <2>1. UNCHANGED <<category, input, honest, printed, file, step, late, outcome, faults>>
          /\ container = "creating" /\ container' = "running"
      BY <1>5 DEF Appear, Decoder, decoder
    <2>2. Files' = Files
      BY <2>1 DEF Files
    <2>3. SandboxTypeOK'
      BY <2>1, <2>2 DEF SInv, SandboxTypeOK
    <2>4. LookFits' /\ VerdictFits'
      BY <2>1, <2>2 DEF SInv, LookFits, VerdictFits
    <2>5. QED
      BY <2>3, <2>4 DEF SInv
  <1>6. CASE Deadline \/ UNCHANGED vars
    <2>1. UNCHANGED <<category, input, honest, container, printed, file, step, outcome, faults>>
          /\ late' \in BOOLEAN
      BY <1>6 DEF Deadline, vars, decoder, SInv, SandboxTypeOK
    <2>2. Files' = Files
      BY <2>1 DEF Files
    <2>3. SandboxTypeOK'
      BY <2>1, <2>2 DEF SInv, SandboxTypeOK
    <2>4. LookFits' /\ VerdictFits'
      BY <2>1, <2>2 DEF SInv, LookFits, VerdictFits
    <2>5. QED
      BY <2>3, <2>4 DEF SInv
  <1>7. QED
    BY <1>1, <1>2, <1>3, <1>4, <1>5, <1>6, LaunchStep DEF Next

\* The launcher's steps fit what the container can still do
\* (media_sandbox.py:29-78).
THEOREM SandboxInvariant ==
    ASSUME SandboxAssumption
    PROVE  Spec => []SInv
  <1>1. Init => SInv
    BY InitSInv
  <1>2. SInv /\ [Next]_vars => SInv'
    BY StepSInv
  <1>3. QED
    BY <1>1, <1>2, PTL DEF Spec

\* A rejection is never lost and never invented, whatever the container does
\* between docker logs and docker inspect (media_sandbox.py:50-62).
THEOREM SandboxKeepsVerdict ==
    ASSUME SandboxAssumption
    PROVE  Spec => []VerdictNotLost
  <1>1. SInv => VerdictNotLost
    BY DEF SInv, VerdictFits, VerdictNotLost
  <1>2. QED
    BY <1>1, SandboxInvariant, PTL

\* validate_output accepts the canonical images and recordings within LIMITS and
\* no other file, whatever its size and however many chunks it has
\* (media_validator.py:31-104).
THEOREM SandboxCheckIsExact ==
    ASSUME FormatsAssumption, SandboxAssumption
    PROVE  Spec => []CheckIsExact
  <1>1. CheckIsExact
    BY CheckIsExactOn DEF CheckIsExact, SandboxAssumption
  <1>2. QED
    BY <1>1, PTL

\* A decoder that may do anything gets no other file out than a canonical one
\* within LIMITS that it reported, and its container is gone by then
\* (media_sandbox.py:63-78).
THEOREM SandboxResultIsSound ==
    ASSUME FormatsAssumption, SandboxAssumption
    PROVE  Spec => []ResultIsSound
  <1>1. SInv => ResultIsSound
    <2> SUFFICES ASSUME SInv, step = "done", outcome = "ready"
                 PROVE  /\ WellFormed(category, file)
                        /\ printed = Report(file)
                        /\ container = "absent"
      BY DEF ResultIsSound
    <2>1. /\ category \in {"image", "audio"} /\ file \in Files
          /\ ValidOutput(category, file) /\ printed = Report(file) /\ container = "absent"
      BY DEF SInv, SandboxTypeOK, VerdictFits
    <2>2. file \in Output(category)
      BY <2>1, Distinct
    <2>3. WellFormed(category, file)
      BY <2>1, <2>2, CheckIsExactOn
    <2>4. QED
      BY <2>1, <2>3
  <1>2. QED
    BY <1>1, SandboxInvariant, PTL

=============================================================================
