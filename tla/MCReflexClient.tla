--------------------------- MODULE MCReflexClient ---------------------------
EXTENDS ReflexClient

(* A payload of one whole sector, one of a sector and a half in a buffer  *)
(* of two (the last sector is padded from the buffer), and one of a      *)
(* sector and a half in a buffer that cannot hold the rounded size.      *)
MCPayloads ==
  {[size |-> 1024, limit |-> 512], [size |-> 1024, limit |-> 700],
   [size |-> 700, limit |-> 700]}
=============================================================================
