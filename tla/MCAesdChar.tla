----------------------------- MODULE MCAesdChar -----------------------------
(* Small instances of AesdChar for TLC.                                      *)
EXTENDS AesdChar, TLC

\* Blocks and threads are interchangeable: no definition tells one from
\* another.
Symmetry == Permutations(Blocks) \cup Permutations(Threads)

\* What is written to the device in AesdCharLines.cfg: a newline every
\* LineBytes bytes, in writes that may end before it.
LineBytes == 2

\* drivertest.sh, and not what the code does: whenever a line is complete the
\* device holds the last MAX lines, however many writes each of them took.
LastLinesKept ==
    total % LineBytes = 0 =>
        total - Base >= IF total < MAX * LineBytes THEN total ELSE MAX * LineBytes
=============================================================================
