--------------------------------- MODULE Wire ---------------------------------
(***************************************************************************)
(* ByteBuffer (common/byte_buffer.cc) and the Write/Update methods of the *)
(* records the client puts on the wire.  A buffer is its bytes (0..255),  *)
(* position, limit and byte order.  A record's Write is the sequence of   *)
(* fields it puts, each a field of the object with a width; its Update is *)
(* the sequence of fields it gets, each assigned in turn to a field of    *)
(* the object.  Integers are two's complement of the field's width; the  *)
(* host is little-endian, so "little" stores the host representation.    *)
(***************************************************************************)
EXTENDS Integers, Sequences, SequencesExt

-----------------------------------------------------------------------------
(* The bytes of v as an n-byte two's-complement integer, most significant *)
(* first, and back.                                                        *)
RECURSIVE TwosBE(_, _)

TwosBEUnmasked(v, n) ==
  IF n = 0 THEN <<>> ELSE TwosBE(v \div 256, n - 1) \o <<v>>

TwosBE(v, n) == IF n = 0 THEN <<>> ELSE TwosBE(v \div 256, n - 1) \o <<v % 256>>

(* TLC's integers are 32-bit: a long whose bytes are not the sign         *)
(* extension of its low 4 bytes is not representable and reads as         *)
(* Unrepresentable, a value no field is ever given.                      *)
Unrepresentable == -2147483647 - 1

FromBE(bs) ==
  LET n == Len(bs)
      low == SubSeq(bs, IF n > 4 THEN n - 3 ELSE 1, n)
      sign == IF low[1] >= 128 THEN 255 ELSE 0
  IN  IF \E i \in 1 .. n - Len(low) : bs[i] # sign THEN Unrepresentable
      ELSE FoldLeft(LAMBDA acc, b : acc * 256 + b,
                    IF low[1] >= 128 THEN -1 ELSE 0, low)

(* ByteBuffer::ByteBuffer(size): zeroed, big-endian.                      *)
NewBuffer(size) ==
  [bytes |-> [i \in 1 .. size |-> 0], position |-> 0, limit |-> size,
   order |-> "big"]

Clear(b) == [b EXCEPT !.position = 0, !.limit = Len(b.bytes)]
Flip(b) == [b EXCEPT !.limit = b.position, !.position = 0]
SetOrder(b, o) == [b EXCEPT !.order = o]

WriteAt(bs, pos, s) ==
  [i \in 1 .. Len(bs) |-> IF pos < i /\ i <= pos + Len(s) THEN s[i - pos] ELSE bs[i]]

(* Field widths: 1 (PutByte/GetByte, unsigned), 2, 4, 8 (Short, Int,      *)
(* Long, signed, in the buffer's order), and Raw4: PutBytes/GetBytes of   *)
(* an int's own 4 bytes, in host order whatever the buffer's order.       *)
Raw4 == -4

EncodeField(b, v, w) ==
  CASE w = Raw4 -> Reverse(TwosBE(v, 4))
    [] w = 1      -> <<v % 256>>
    [] b.order = "big" -> TwosBE(v, w)
    [] OTHER      -> Reverse(TwosBE(v, w))

Width(w) == IF w = Raw4 THEN 4 ELSE w

DecodeFieldBigOnly(b, raw, w) ==
  CASE w = 1 -> raw[1]
    [] w = Raw4 -> FromBE(Reverse(raw))
    [] OTHER -> FromBE(raw)

DecodeField(b, raw, w) ==
  CASE w = 1 -> raw[1]
    [] w = Raw4 -> FromBE(Reverse(raw))
    [] b.order = "big" -> FromBE(raw)
    [] OTHER -> FromBE(Reverse(raw))

(* ByteBuffer::PutByte/PutShort/PutInt/PutLong/PutBytes: write at the     *)
(* position and advance it; no check against the limit or the size.      *)
PutField(b, v, w) ==
  [b EXCEPT !.bytes = WriteAt(@, b.position, EncodeField(b, v, w)),
            !.position = @ + Width(w)]

(* ByteBuffer::GetByte/GetShort/GetInt/GetLong/GetBytes.                   *)
GetField(b, w) ==
  LET raw == SubSeq(b.bytes, b.position + 1, b.position + Width(w))
  IN  [val |-> DecodeField(b, raw, w),
       buf |-> [b EXCEPT !.position = @ + Width(w)]]

(* The offset of each field from the record's start: offsets[i] is the  *)
(* width of fields 1 .. i.                                                *)
Offsets(layout) ==
  LET off[i \in 0 .. Len(layout)] ==
        IF i = 0 THEN 0 ELSE off[i - 1] + Width(layout[i].w)
  IN  off

(* A Write: the object's fields put in layout order, one PutField after  *)
(* the other, so their bytes follow each other from the position.        *)
WriteLayout(b, obj, layout) ==
  LET bytes == FlattenSeq([i \in DOMAIN layout |->
                             EncodeField(b, obj[layout[i].f], layout[i].w)])
  IN  [b EXCEPT !.bytes = WriteAt(@, b.position, bytes),
                !.position = @ + Len(bytes)]

(* An Update: each field got in layout order and assigned to its member, *)
(* so a member got twice keeps the later value.                           *)
UpdateLayout(b, obj, layout) ==
  LET off == Offsets(layout)
      val(i) == DecodeField(b, SubSeq(b.bytes, b.position + off[i - 1] + 1,
                                      b.position + off[i]), layout[i].w)
      last(f) == CHOOSE i \in DOMAIN layout :
                   layout[i].f = f /\ \A j \in DOMAIN layout :
                                        layout[j].f = f => j <= i
  IN  [buf |-> [b EXCEPT !.position = @ + off[Len(layout)]],
       obj |-> [f \in DOMAIN obj |->
                  IF \E i \in DOMAIN layout : layout[i].f = f
                    THEN val(last(f)) ELSE obj[f]]]

F(name, w) == [f |-> name, w |-> w]
=============================================================================
