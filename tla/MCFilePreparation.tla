------------------------- MODULE MCFilePreparation -------------------------
(***************************************************************************)
(* FilePreparation for TLC: small files with small options, and texts that *)
(* leave room in a batch, fill it or exceed it.                            *)
(***************************************************************************)
EXTENDS FilePreparation

CONSTANTS MaxLines, MaxSize, MaxWindow, MaxByteLimit

Files == UNION {[1..n -> 0..MaxSize] : n \in 0..MaxLines}

MCInput ==
    {i \in [size : Files, maxLines : 1..MaxWindow, overlap : 0..(MaxWindow - 1),
            maxBytes : 1..MaxByteLimit] : i.overlap < i.maxLines}
=============================================================================
