------------------------------ MODULE Chunking ------------------------------
(***************************************************************************)
(* chunk_text: a document of so many words becomes overlapping windows of  *)
(* words. Word i is the number i; a window is an interval of words.        *)
(***************************************************************************)
EXTENDS Integers, Sequences

CONSTANTS
    Lengths,      \* words in a document
    MaxTokens,    \* ChunkConfig.max_tokens, any of these
    OverlapTokens \* ChunkConfig.overlap_tokens, any of these

ASSUME ChunkAssumption == Lengths \union MaxTokens \union OverlapTokens \subseteq Nat

VARIABLES
    words,    \* the document
    config,   \* its ChunkConfig
    start,    \* where the next window starts, or -1 when all is chunked
    windows   \* the windows pushed

chunkVars == <<words, config, start, windows>>

Lesser(x, y) == IF x < y THEN x ELSE y
WordsPerChunk(c) == IF (c.max * 3) \div 4 > 1 THEN (c.max * 3) \div 4 ELSE 1

\* Mutant: the overlap may be as long as the window.
OverlapUnclamped(c) == Lesser((c.overlap * 3) \div 4, WordsPerChunk(c))
OverlapWords(c) == Lesser((c.overlap * 3) \div 4, WordsPerChunk(c) - 1)

Stride(c) == WordsPerChunk(c) - OverlapWords(c)

ChunkInit ==
    /\ words \in Lengths
    /\ config \in [max : MaxTokens, overlap : OverlapTokens]
    /\ start = IF words = 0 THEN -1 ELSE 0
    /\ windows = <<>>

PushWindow ==
    LET end == Lesser(start + WordsPerChunk(config), words)
    IN  /\ start >= 0
        /\ windows' = Append(windows, [from |-> start, to |-> end])
        /\ start' = IF end = words THEN -1 ELSE start + Stride(config)
        /\ UNCHANGED <<words, config>>

ChunkSpec == ChunkInit /\ [][PushWindow]_chunkVars

\* The windows take in every word, none is longer than a chunk may be, each
\* starts after the one before it, and two neighbours share exactly the
\* configured overlap. (overlap_words: "clamped so every window advances".)
WindowsCoverText ==
    /\ \A i \in DOMAIN windows :
         windows[i].to - windows[i].from \in 1 .. WordsPerChunk(config)
    /\ \A i \in 2 .. Len(windows) :
         /\ windows[i].from > windows[i - 1].from
         /\ windows[i - 1].to - windows[i].from = OverlapWords(config)
    /\ start = -1 /\ words > 0 =>
         /\ windows # <<>>
         /\ windows[1].from = 0
         /\ windows[Len(windows)].to = words
============================================================================
