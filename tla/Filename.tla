------------------------------- MODULE Filename -------------------------------
(***************************************************************************)
(* The path decomposition of Filename::Filename (metadata/filename.cc)    *)
(* and its hash file_hash (utils/crail_hash.cc).  A path is a sequence of *)
(* character codes; the constructor walks it once, hashing each          *)
(* component between slashes with h = 31 * h + c in a 32-bit int, and    *)
(* keeps the literal last component.  The namenode only ever sees the    *)
(* component count and the hashes.                                        *)
(*                                                                         *)
(* TLC's integers are 32-bit, so the hash state is kept as two 16-bit    *)
(* limbs and wraps exactly as the code's int does on every target.       *)
(***************************************************************************)
EXTENDS Integers, Sequences, SequencesExt

Slash == 47                                   \* '/'
Limb == 65536

(* 31 * h + c modulo 2^32, h as <<hi, lo>>; c may be negative (a signed  *)
(* char above 127).                                                        *)
HashStep(h, c) ==
  LET lo == 31 * h[2] + c
  IN  <<(31 * h[1] + lo \div Limb) % Limb, lo % Limb>>

(* The limbs read as the code's int.                                      *)
AsInt32(h) ==
  IF h[1] >= Limb \div 2 THEN (h[1] - Limb) * Limb + h[2]
                         ELSE h[1] * Limb + h[2]

(* file_hash(name, start): hash from index start (0-based) up to the     *)
(* next '/' or the end; start is left on the '/' or at the end.          *)
RECURSIVE FileHash(_, _, _)
FileHash(name, start, h) ==
  IF start < Len(name) /\ name[start + 1] # Slash
    THEN FileHash(name, start + 1, HashStep(h, name[start + 1]))
    ELSE [hash |-> AsInt32(h), stop |-> start]

RECURSIVE Decompose(_, _, _)

DecomposeStopOnSlash(name, indexName, acc) ==
  IF indexName < Len(name)
    THEN LET fh == FileHash(name, indexName, <<0, 0>>)
         IN  Decompose(name, fh.stop + 1,
                       [components |-> Append(acc.components, fh.hash),
                        nameStart  |-> indexName,
                        nameStop   |-> fh.stop])
    ELSE acc

(* The while loop of the constructor from index_name, accumulating the   *)
(* components and the bounds of the last one (name_start, name_stop).    *)
Decompose(name, indexName, acc) ==
  IF indexName < Len(name)
    THEN LET fh == FileHash(name, indexName, <<0, 0>>)
         IN  Decompose(name, fh.stop + 1,
                       [components |-> Append(acc.components, fh.hash),
                        nameStart  |-> indexName,
                        nameStop   |-> fh.stop - 1])
    ELSE acc

(* std::string::substr(pos, count), for pos <= size.                      *)
Substr(s, pos, count) ==
  SubSeq(s, pos + 1, IF pos + count < Len(s) THEN pos + count ELSE Len(s))

(* Filename::Filename(name): index_name starts at 1, past the leading    *)
(* '/'.  components_ has kDirectoryDepth entries and is not bounds-       *)
(* checked: a path of more components writes past it.                    *)
FilenameOf(name) ==
  LET r == Decompose(name, 1, [components |-> <<>>, nameStart |-> 1,
                               nameStop |-> 1])
  IN  [length     |-> Len(r.components),
       components |-> r.components,
       name       |-> Substr(name, r.nameStart,
                             r.nameStop - r.nameStart + 1)]

-----------------------------------------------------------------------------
(***************************************************************************)
(* Reference: the path after its leading '/' split at every '/', a        *)
(* trailing '/' ending the path, and each component's hash the closed    *)
(* form sum of c_i * 31^(n-i) modulo 2^32 (String.hashCode).              *)
(***************************************************************************)
RECURSIVE Split(_)
Split(s) ==
  LET k == SelectInSeq(s, LAMBDA c : c = Slash)
  IN  IF k = 0 THEN <<s>>
      ELSE <<SubSeq(s, 1, k - 1)>> \o Split(SubSeq(s, k + 1, Len(s)))

RefComponents(path) ==
  LET segs == Split(Tail(path))
  IN  IF segs[Len(segs)] = <<>> THEN Front(segs) ELSE segs

(* Limb arithmetic for the closed form: k * h for a small (possibly     *)
(* negative) k, and a sum.                                               *)
MulSmall(h, k) ==
  LET lo == k * h[2] IN <<(k * h[1] + lo \div Limb) % Limb, lo % Limb>>
AddLimbs(g, h) ==
  LET lo == g[2] + h[2] IN <<(g[1] + h[1] + lo \div Limb) % Limb, lo % Limb>>

RECURSIVE Pow31(_)
Pow31(k) == IF k = 0 THEN <<0, 1>> ELSE MulSmall(Pow31(k - 1), 31)

RefHash(seg) ==
  AsInt32(FoldLeft(AddLimbs, <<0, 0>>,
            [i \in 1 .. Len(seg) |->
               MulSmall(Pow31(Len(seg) - i), seg[i])]))

RefFilename(path) ==
  LET comps == RefComponents(path)
  IN  [length     |-> Len(comps),
       components |-> [i \in 1 .. Len(comps) |-> RefHash(comps[i])],
       name       |-> IF comps = <<>> THEN <<>> ELSE comps[Len(comps)]]
=============================================================================
