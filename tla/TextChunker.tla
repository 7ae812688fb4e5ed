---------------------------- MODULE TextChunker ----------------------------
(***************************************************************************)
(* TextChunker::chunk_text: a window moves over the lines of a file and    *)
(* leaves a chunk wherever it stops.  It takes up to max_lines lines, is   *)
(* shortened from its end while its joined text exceeds max_bytes (a       *)
(* single line is kept whatever its size), and starts again overlap_lines  *)
(* before its end.                                                         *)
(*                                                                         *)
(* A file is the sequence of the sizes of the lines split_lines yields.    *)
(* Positions count lines from 0, as in the code, and end is exclusive.     *)
(***************************************************************************)
EXTENDS Integers, Sequences

CONSTANT Input  \* the calls considered: line sizes and options

\* What validate_options lets through.
ASSUME InputAssumption ==
    \A i \in Input :
        /\ i.size \in Seq(Nat)
        /\ i.maxLines \in Nat /\ i.overlap \in Nat /\ i.maxBytes \in Nat
        /\ i.overlap < i.maxLines
        /\ i.maxBytes > 0

VARIABLES
    in,         \* the call
    pc,         \* "window", "shrink", "advance" or "done"
    start, end, \* the window
    chunks      \* the chunks so far: their first line and the one after

vars == <<in, pc, start, end, chunks>>

Lines == Len(in.size)

Init ==
    /\ in \in Input
    /\ start = 0
    /\ end = 0
    /\ chunks = << >>
    /\ pc = IF Lines = 0 THEN "done" ELSE "window"

\* content_size: the sizes of the lines and of the newlines between them.
ContentSize(size, s, e) ==
    LET upTo[i \in s..e] == IF i = s THEN 0 ELSE upTo[i - 1] + size[i]
    IN  upTo[e] + (e - s - 1)

Lesser(a, b) == IF a < b THEN a ELSE b
Greater(a, b) == IF a > b THEN a ELSE b

OpenWindow ==
    /\ pc = "window"
    /\ end' = Lesser(start + in.maxLines, Lines)
    /\ pc' = "shrink"
    /\ UNCHANGED <<in, start, chunks>>

Fits(s, e) == ContentSize(in.size, s, e) <= in.maxBytes

\* Mutant: the limit is tested on the window without its last line.
TooLargeWithoutLast == end > start + 1 /\ ~Fits(start, end - 1)

TooLarge == end > start + 1 /\ ~Fits(start, end)

Shrink ==
    /\ pc = "shrink"
    /\ TooLarge
    /\ end' = end - 1
    /\ UNCHANGED <<in, pc, start, chunks>>

Emit ==
    /\ pc = "shrink"
    /\ ~TooLarge
    /\ chunks' = Append(chunks, [first |-> start, next |-> end])
    /\ pc' = IF end = Lines THEN "done" ELSE "advance"
    /\ UNCHANGED <<in, start, end>>

\* Mutants: the window starts one line late, or does not have to move.
NextStartSkipsALine == Greater(start + 1, end + 1)
NextStartMayStay == IF end > in.overlap THEN end - in.overlap ELSE end

NextStart == Greater(start + 1, IF end > in.overlap THEN end - in.overlap ELSE end)

Advance ==
    /\ pc = "advance"
    /\ start' = NextStart
    /\ pc' = IF NextStart < Lines THEN "window" ELSE "done"
    /\ UNCHANGED <<in, end, chunks>>

Done == pc = "done" /\ UNCHANGED vars

Next == OpenWindow \/ Shrink \/ Emit \/ Advance \/ Done

Spec == Init /\ [][Next]_vars

-----------------------------------------------------------------------------
Chunk == [first : Nat, next : Nat]

TypeOK ==
    /\ in \in Input
    /\ pc \in {"window", "shrink", "advance", "done"}
    /\ start \in Nat
    /\ end \in Nat
    /\ chunks \in Seq(Chunk)

\* What chunk_text has covered so far: the lines before this one.
Reached == IF chunks = << >> THEN 0 ELSE chunks[Len(chunks)].next

\* Every chunk has a line and none leaves the file.  A chunk begins later
\* than the one before it (its id is computed from its first line, so no two
\* chunks of a file are given the same key), not behind that one's end (no
\* gap), and the two share at most overlap_lines lines.
ChunksInOrder ==
    /\ \A i \in 1..Len(chunks) :
          chunks[i].first < chunks[i].next /\ chunks[i].next <= Lines
    /\ \A i \in 2..Len(chunks) :
          /\ chunks[i - 1].first < chunks[i].first
          /\ chunks[i].first <= chunks[i - 1].next
          /\ chunks[i - 1].next - chunks[i].first <= in.overlap

\* The place of the window relative to the chunks it has left behind.
WindowInPlace ==
    /\ pc \in {"window", "shrink"} =>
          /\ start < Lines
          /\ start <= Reached
          /\ Reached - start <= in.overlap
          /\ chunks # << >> => chunks[Len(chunks)].first < start
    /\ pc = "shrink" =>
          /\ start < end
          /\ end <= Lines
          /\ end - start <= in.maxLines
          /\ \/ end = Lines
             \/ end - start = in.maxLines
             \/ ~Fits(start, end + 1)
    /\ pc = "advance" =>
          /\ chunks # << >>
          /\ chunks[Len(chunks)] = [first |-> start, next |-> end]
          /\ end < Lines
    /\ pc = "done" => Reached = Lines

CoveredSoFar ==
    \A l \in 0..(Reached - 1) :
        \E i \in 1..Len(chunks) : chunks[i].first <= l /\ l < chunks[i].next

\* A chunk may consist of these lines.
Allowed(s, e) ==
    /\ e <= Lines
    /\ e - s <= in.maxLines
    /\ e = s + 1 \/ Fits(s, e)

\* A chunk keeps to the limits, and with one line more it would not: the
\* loop that shortens the window stops at the longest chunk allowed.
ChunksAreMaximal ==
    \A i \in 1..Len(chunks) :
        /\ Allowed(chunks[i].first, chunks[i].next)
        /\ ~Allowed(chunks[i].first, chunks[i].next + 1)

\* The inductive invariant of the window.
ChunkerInv ==
    /\ TypeOK
    /\ ChunksInOrder
    /\ WindowInPlace
    /\ CoveredSoFar
    /\ ChunksAreMaximal

\* When chunk_text returns, every line of the file is in a chunk, whatever
\* the overlap and however the byte limit shortened the windows.
EveryLineIsCovered ==
    pc = "done" =>
        \A l \in 0..(Lines - 1) :
            \E i \in 1..Len(chunks) : chunks[i].first <= l /\ l < chunks[i].next
=============================================================================
