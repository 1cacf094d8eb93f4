-------------------------------- MODULE MCCodec --------------------------------
(***************************************************************************)
(* One message through the codec per behaviour.  The client either        *)
(* encodes a metadata request behind its NaRPC header (IssueRequest), or  *)
(* a record is written by its Write and read back by its Update (the      *)
(* responses the client decodes, the Reflex header, the Filename, and a   *)
(* directory record in its 512-byte slot).  Field values are taken at the *)
(* edges of each width, and each field gets a different one, so a field   *)
(* written in the wrong place, order or width is told apart.              *)
(***************************************************************************)
EXTENDS Messages, Filename, FiniteSets

VARIABLES phase, kind, path, obj, buf, got

vars == <<phase, kind, path, obj, buf, got>>

(* RpcClient's buf_, a ByteBuffer of 1024 bytes (rpc_client.cc).        *)
MaxFrame == 1024
(* CrailDirectory reads and writes one record per 512-byte slot.           *)
kDirRecord == 512

(* Paths: every '/'-led path over {'/', 'a', 'b'} of up to 4 characters,  *)
(* a long component, two colliding ones ("Aa", "BB") and a character     *)
(* above 127, which is negative as the code's char.                      *)
LongPath == <<Slash>> \o [i \in 1 .. 7 |-> 122]
Paths ==
  {<<Slash>> \o s : s \in BoundedSeq({Slash, 97, 98}, 3)}
    \cup {LongPath, <<Slash, 65, 97>>, <<Slash, 66, 66>>, <<Slash, -61, 97>>}
DirNames == {<<97>>, <<97, 98, 47>>}

(* Values of the components_ slots past length_, never initialised.       *)
Garbage == {0, -1}

Tickets == {1, 7}
Variants == {"low", "high"}

Int32Min == -2147483647 - 1
MinOf(w) == CASE w = 1 -> 0 [] w = 2 -> -32768 [] OTHER -> Int32Min
MaxOf(w) == CASE w = 1 -> 255 [] w = 2 -> 32767 [] OTHER -> 2147483647

(* The i-th field of a layout near the low or the high edge of its width. *)
EdgeValue(i, w, e) == IF e = "low" THEN MinOf(w) + i ELSE MaxOf(w) - i

FieldNames(layout) == {layout[i].f : i \in DOMAIN layout}

(* An object for a layout: a Filename's fields from the path (garbage    *)
(* past length_), the command and type of a request from the enum, the   *)
(* Reflex magic from its constructor, every other field an edge value.   *)
ObjectFor(layout, k, p, e, g) ==
  LET fn == FilenameOf(p) IN
  [f \in FieldNames(layout) |->
     LET i == CHOOSE j \in DOMAIN layout : layout[j].f = f
         w == Width(layout[i].w)
     IN  CASE f \in {"cmd", "type"} /\ k \in RequestKinds -> RpcCommand[k]
           [] f = "magic" -> ReflexHeaderSize
           [] f = "reserved" -> 0
           [] f = "close" -> IF e = "low" THEN 0 ELSE 1
           [] f = "length" /\ k \in PathKinds \cup {"filename"} -> fn.length
           [] \E j \in 1 .. kDirectoryDepth : f = CompField(j) ->
                LET c == CHOOSE m \in 1 .. kDirectoryDepth : f = CompField(m)
                IN  IF c <= fn.length THEN fn.components[c] ELSE g
           [] OTHER -> EdgeValue(i, w, e)]

-----------------------------------------------------------------------------
Init ==
  /\ phase = "idle"
  /\ kind = "none"
  /\ path = <<Slash>>
  /\ obj = <<>>
  /\ buf = NewBuffer(MaxFrame)
  /\ got = <<>>

(* RpcClient::IssueRequest for a metadata request: header, then Write.    *)
SendRequest ==
  /\ phase = "idle"
  /\ \E k \in RequestKinds, e \in Variants, t \in Tickets, p \in Paths,
        g \in Garbage :
       /\ k \notin PathKinds => p = <<Slash>> /\ g = 0
       /\ LET o == ObjectFor(RequestLayout(k), k, p, e, g) IN
          /\ obj' = o
          /\ buf' = EncodeRequest(buf, k, o, t)
       /\ kind' = k
       /\ path' = p
  /\ phase' = "sent"
  /\ UNCHANGED got

(* A record's Write on the sending side.                                  *)
WriteRecord ==
  /\ phase = "idle"
  /\ \E k \in RecordKinds, e \in Variants, p \in Paths, g \in Garbage :
       /\ k # "filename" => p = <<Slash>> /\ g = 0
       /\ LET o == ObjectFor(RecordLayout(k), k, p, e, g) IN
          /\ obj' = o
          /\ buf' = EncodeRecord(buf, k, o)
       /\ kind' = k
       /\ path' = p
  /\ phase' = "sent"
  /\ UNCHANGED got

(* CrailStore::WriteDirectoryRecord's record, in the slot Enumerate reads. *)
WriteDirRecord ==
  /\ phase = "idle"
  /\ \E v \in {0, 1}, n \in DirNames :
       /\ obj' = [valid |-> v, name |-> n]
       /\ buf' = Flip(DirectoryRecordWrite(NewBuffer(kDirRecord), v, n))
  /\ kind' = "dirRecord"
  /\ phase' = "sent"
  /\ UNCHANGED <<path, got>>

(* The receiving side's Update into a fresh object.                       *)
ReadRecord ==
  /\ phase = "sent"
  /\ kind \in RecordKinds \cup {"dirRecord"}
  /\ got' = IF kind = "dirRecord" THEN DirectoryRecordUpdate(buf)
            ELSE DecodeRecord(buf, kind, [f \in DOMAIN obj |-> 0])
  /\ phase' = "received"
  /\ UNCHANGED <<kind, path, obj, buf>>

Next == SendRequest \/ WriteRecord \/ WriteDirRecord \/ ReadRecord

Spec == Init /\ [][Next]_vars

-----------------------------------------------------------------------------
(* Every byte the buffer methods leave is a byte, and position and limit  *)
(* stay inside the buffer.                                                *)
TypeOK ==
  /\ phase \in {"idle", "sent", "received"}
  /\ \A i \in DOMAIN buf.bytes : buf.bytes[i] \in 0 .. 255
  /\ 0 <= buf.position /\ buf.position <= buf.limit
  /\ buf.limit <= Len(buf.bytes)

(* The frame IssueRequest sends has the layout of spec section 6: an      *)
(* int32 payload size equal to the bytes that follow the 12-byte header,  *)
(* the ticket, then the request whose command and type are the spec's     *)
(* code for the operation.                                                *)
SpecCode == [create |-> 1, lookup |-> 2, setfile |-> 3, remove |-> 4,
             getblock |-> 6, ioctl |-> 13]

IntAt(bs, off, w) == FromBE(SubSeq(bs, off + 1, off + w))

FrameMatchesSpec ==
  phase = "sent" /\ kind \in RequestKinds =>
    /\ IntAt(buf.bytes, 0, 4) = buf.limit - kNarpcHeader
    /\ IntAt(buf.bytes, kNarpcHeader, 2) = SpecCode[kind]
    /\ IntAt(buf.bytes, kNarpcHeader + 2, 2) = SpecCode[kind]

(* The Filename on the wire (Filename::Write after the constructor) is   *)
(* the path's components split at '/', counted and hashed as             *)
(* String.hashCode, and the name the constructor keeps is the literal    *)
(* last component.                                                        *)
FilenameOffset ==
  CASE kind = "ioctl" -> kNarpcHeader + NamenodeRequestSize + 1
    [] kind = "filename" -> 0
    [] OTHER -> kNarpcHeader + NamenodeRequestSize

FilenameMatchesSpec ==
  phase # "idle" /\ kind \in PathKinds \cup {"filename"} =>
    LET ref == RefFilename(path)
        slot(j) == IntAt(buf.bytes, FilenameOffset + 4 * j, 4)
    IN  /\ slot(0) = ref.length
        /\ \A j \in 1 .. ref.length : slot(j) = ref.components[j]
        /\ FilenameOf(path).name = ref.name

(* Update reads back exactly what Write wrote, in either byte order:      *)
(* every field of the response records, the little-endian Reflex header, *)
(* the Filename and the directory record.                                 *)
RoundTrip == phase = "received" => got = obj
=============================================================================
