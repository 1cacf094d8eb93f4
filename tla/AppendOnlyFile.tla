--------------------------- MODULE AppendOnlyFile ---------------------------
(***************************************************************************)
(* What a file output stream promises its writer (spec section 4.7): the  *)
(* file grows only at its end.  A Write that succeeds appends the bytes it *)
(* transferred; a failed Write, a retry or a Close leaves the bytes the   *)
(* file already holds as they are, and no byte below the end is ever a    *)
(* hole.                                                                   *)
(***************************************************************************)
EXTENDS Naturals, Sequences

CONSTANT Bytes        \* the values a written byte can have

VARIABLE file         \* the file's bytes up to the stream position

Init == file = << >>

\* One successful Write: the old bytes kept, new ones after them.
Extend ==
  /\ Len(file') > Len(file)
  /\ SubSeq(file', 1, Len(file)) = file
  /\ \A i \in Len(file) + 1 .. Len(file') : file'[i] \in Bytes

Spec == Init /\ [][Extend]_file
=============================================================================
