----------------------------- MODULE SplitBytes -----------------------------
(***************************************************************************)
(* SplitBytes, the iterator over the chunks of a packet, which keeps what is *)
(* left of the buffer and whether the last chunk has been given out.        *)
(***************************************************************************)
EXTENDS Integers, Sequences, SequencesExt

CONSTANT MaxLen   \* bound on the length of the buffer

VARIABLES input, buf, currentChunk, lastChunk,
          chunks,   \* the chunks given out, in order
          ended     \* Next has returned false

vars == <<input, buf, currentChunk, lastChunk, chunks, ended>>

Bytes == {"x", "|"}

\* NewSplitBytes
Init ==
  /\ input \in UNION {[1..n -> Bytes] : n \in 0..MaxLen}
  /\ buf = input /\ currentChunk = <<>> /\ lastChunk = FALSE
  /\ chunks = <<>> /\ ended = FALSE

\* bytes.IndexByte, 0 for none.
IndexByte(s) ==
  LET at == {i \in DOMAIN s : s[i] = "|"} IN IF at = {} THEN 0 ELSE CHOOSE i \in at : \A j \in at : i <= j

\* Next and, if it returns true, Chunk.
NextChunk ==
  /\ ~ended
  /\ IF lastChunk THEN ended' = TRUE /\ UNCHANGED <<buf, currentChunk, lastChunk, chunks>>
     ELSE /\ LET next == IndexByte(buf)
             IN  IF next = 0 THEN currentChunk' = buf /\ buf' = <<>> /\ lastChunk' = TRUE
                 ELSE /\ currentChunk' = SubSeq(buf, 1, next - 1) /\ buf' = SubSeq(buf, next + 1, Len(buf))
                      /\ UNCHANGED lastChunk
          /\ chunks' = Append(chunks, currentChunk') /\ UNCHANGED ended
  /\ UNCHANGED input

Next == NextChunk

Spec == Init /\ [][Next]_vars

-----------------------------------------------------------------------------
(* Properties *)

\* Chunks joined by the delimiter.
Join(cs) == FoldLeft(LAMBDA acc, i : acc \o (IF i = 1 THEN <<>> ELSE <<"|">>) \o cs[i], <<>>, [i \in DOMAIN cs |-> i])

\* "equivalent to calling bytes.Split": when the iterator ends, no chunk holds a delimiter and
\* joined by delimiters the chunks are the input, which determines them, also when the input is
\* empty or begins or ends with delimiters.
EquivalentToSplit ==
  ended => /\ chunks # <<>> /\ Join(chunks) = input
           /\ \A i \in DOMAIN chunks : \A j \in DOMAIN chunks[i] : chunks[i][j] # "|"
=============================================================================
