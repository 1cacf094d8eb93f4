-------------------------- MODULE CrailOutputstream --------------------------
(***************************************************************************)
(* The write path of a file: CrailOutputstream::Write and ::Close, the    *)
(* per-file BlockCache and the StorageCache of storage connections, driven*)
(* by one of the client's write loops: PocketDispatcher::PutFile,       *)
(* Iobench::WriteFile (the same fread loop), Iobench::PutKey and         *)
(* Iobench::Write.                                                        *)
(*                                                                         *)
(* The file was just created (CrailStore::Create seeded the block cache   *)
(* with the file's first block at offset 0) and an output stream at       *)
(* position 0 writes the application's bytes chunk by chunk.  Each        *)
(* metadata and storage call is a synchronous round trip (issue, then     *)
(* Get), so every call of Write is one step; a round trip either succeeds *)
(* or fails, and a failed storage write may or may not have reached the   *)
(* storage server.                                                         *)
(*                                                                         *)
(* The namenode and the storage servers are the environment.  The         *)
(* namenode's block layout is fixed in Init: block b of the file lives on *)
(* a storage server at a block-aligned address, no two blocks sharing a   *)
(* region.  A storage server stores each byte it receives, tagged with the*)
(* file position the stream wrote it at and the application byte it is.   *)
(***************************************************************************)
EXTENDS Naturals, Sequences, SequencesExt, FiniteSets, TLC

CONSTANTS
  kBlockSize,    \* kBlockSize (crail_constants.h)
  kBufferSize,   \* capacity of PutFile's ByteBuffer (crail_constants.h)
  FileSize,      \* bytes in the local file PutFile copies
  Datanodes,     \* storage servers, records [ip, port]
  MaxFaults,     \* bound on failed round trips
  CloseMayFail,  \* whether the set-file-size call of Close may fail
  Drivers,       \* the write loops: "PutFile", "WriteFile", "PutKey", "Write"
  WriteLoop      \* Iobench::Write's loop count; its len is FileSize / loop

ASSUME kBlockSize \in Nat \ {0}
ASSUME kBufferSize \in Nat \ {0} /\ FileSize \in Nat \ {0}
ASSUME Datanodes # {} /\ \A d \in Datanodes : d.ip \in Nat /\ d.port \in Nat
ASSUME MaxFaults \in Nat /\ CloseMayFail \in BOOLEAN
ASSUME Drivers \subseteq {"PutFile", "WriteFile", "PutKey", "Write"}
ASSUME Drivers # {}
ASSUME WriteLoop \in Nat \ {0} /\ FileSize % WriteLoop = 0

(* The buffer each loop fills and writes out.  PutFile's fread loop      *)
(* writes a kBufferSize buffer each time it is full, and the partly      *)
(* filled last buffer after the loop.  PutKey writes one buffer of len   *)
(* bytes.  Write writes its len-byte buffer loop times, Clear before each.*)
WriteLen == FileSize \div WriteLoop
NumChunks == (FileSize + kBufferSize - 1) \div kBufferSize
ChunksOf(d) ==
  CASE d \in {"PutFile", "WriteFile"} ->
         [i \in 1 .. NumChunks |->
            IF i < NumChunks THEN kBufferSize
                             ELSE FileSize - (NumChunks - 1) * kBufferSize]
    [] d = "PutKey" -> <<FileSize>>
    [] d = "Write" -> [i \in 1 .. WriteLoop |-> WriteLen]
BufferSize(d) ==
  CASE d \in {"PutFile", "WriteFile"} -> kBufferSize
    [] d = "PutKey" -> FileSize
    [] d = "Write" -> WriteLen
Total == FileSize
NumBlocks == (Total + kBlockSize - 1) \div kBlockSize
Blocks == 0 .. NumBlocks - 1
Addrs == 0 .. NumBlocks * kBlockSize - 1           \* per storage server
Positions == 0 .. Total

BlockInfos == [dn : Datanodes, addr : Addrs]
NotConnected == [ip |-> -1, port |-> -1]
NoBlock == [dn |-> NotConnected, addr |-> -1]
Cell == [pos : 0 .. Total - 1, byte : 0 .. Total - 1]
Empty == [pos |-> -1, byte |-> -1]

\* Namenode layouts: every block on some server, no two sharing a region.
Layouts ==
  {l \in [Blocks -> [dn : Datanodes, slot : Blocks]] :
     \A b1, b2 \in Blocks : b1 # b2 => l[b1] # l[b2]}

VARIABLES
  driver,        \* the write loop running
  layout,        \* the namenode's block of each block index
  position,      \* position_ of the stream
  bufPos,        \* buf->position()
  bufLimit,      \* buf->limit()
  chunk,         \* the chunk PutFile is writing
  blockCache,    \* BlockCache::cache_ of the file: offset -> BlockInfo
  scache,        \* StorageCache::cache_: key -> endpoint the client is
                 \* connected to (NotConnected before Connect succeeds)
  store,         \* bytes held by each storage server
  nnCapacity,    \* the file capacity the namenode has recorded
  faults,        \* failed round trips so far
  pc,            \* the loop: "call", "ret", "close", "done" or "failed"
  ret            \* the value the last Write returned

vars == <<driver, layout, position, bufPos, bufLimit, chunk, blockCache, scache,
          store, nnCapacity, faults, pc, ret>>

Chunks == ChunksOf(driver)

\* The application's byte j (0-based) of chunk i: numbered across the file,
\* except that Write sends the same len bytes each time round.
AppByte(i, j) == IF driver = "Write" THEN j ELSE (i - 1) * BufferSize(driver) + j

(* The byte the file should hold at position p.                           *)
Expected(p) == IF driver = "Write" THEN p % WriteLen ELSE p

(* PutFile: fread fills the buffer with the next chunk of the file and   *)
(* returns its length, which becomes the limit after Flip.               *)
Fread(i) == Chunks[i]

BlockAt(b) == [dn |-> layout[b].dn, addr |-> layout[b].slot * kBlockSize]

(* Where the namenode put file position p: <<server, address>>.          *)
Location(p) ==
  <<BlockAt(p \div kBlockSize).dn, BlockAt(p \div kBlockSize).addr + (p % kBlockSize)>>

ReadBack(p) == store[Location(p)[1]][Location(p)[2]]

-----------------------------------------------------------------------------
(* BlockCache::GetBlock / PutBlock: an exact-offset map; PutBlock is an  *)
(* unordered_map insert, which keeps an entry already under the offset.   *)
GetBlock(cache, offset) == cache[offset]
PutBlock(cache, offset, block) ==
  IF cache[offset] = NoBlock THEN [cache EXCEPT ![offset] = block] ELSE cache

(* DatanodeInfo::Key: (ip << 32) | port, kept as its two 32-bit halves.   *)
Key(dn) == <<dn.ip, dn.port>>

(* StorageCache::ComputeKey: (position / kBlockSize) * kBlockSize on the  *)
(* 64-bit key; kBlockSize divides 2^32, so only the low half is rounded.  *)
ComputeKey(k) == <<k[1], k[2] - (k[2] % kBlockSize)>>

(* StorageCache::Get: the cached client of the key, or a new unconnected  *)
(* client put under it.                                                    *)
StorageCacheGet(sc, k) ==
  IF ComputeKey(k) \in DOMAIN sc THEN sc
  ELSE sc @@ (ComputeKey(k) :> NotConnected)

(* Write: the buffer limit lowered to the end of the block position_ is  *)
(* in, when the buffer holds more than the block has left.                *)
WriteLimitAlways(bp, bl, pos) == bp + (kBlockSize - (pos % kBlockSize))
WriteLimit(bp, bl, pos) ==
  IF kBlockSize - (pos % kBlockSize) < bl - bp
    THEN bp + (kBlockSize - (pos % kBlockSize))
    ELSE bl

(* Write: block_addr = block_info->addr() + block_offset.                *)
BlockAddrNoOffset(blk, pos) == blk.addr
BlockAddr(blk, pos) == blk.addr + (pos % kBlockSize)

(* The storage write sends the buffer's remaining bytes, from           *)
(* get_bytes() = buf_ + position(): the byte at offset k of the payload  *)
(* is the buffer's byte from + k.                                        *)
PayloadFromStart(i, from, k) == AppByte(i, k)
Payload(i, from, k) == AppByte(i, from + k)

(* Write on success: position_ and buf->position() advance by len.       *)
NoAdvance(x, len) == x
Advance(x, len) == x + len

(* Close: file_info_->set_capacity(position_) before set-file-size.      *)
FileCapacity == position

CanFail == faults < MaxFaults

(* NarpcStorageClient::WriteData(key, address, buf): a NarpcWriteRequest *)
(* of length buf->remaining() whose payload is the buffer's remaining    *)
(* bytes; the storage server stores them from the address on.            *)
WriteDataShort(conn, addr, n) ==
  [store EXCEPT ![conn] =
     [a \in Addrs |->
        IF a >= addr /\ a < addr + n - 1
          THEN [pos |-> position + a - addr,
                byte |-> Payload(chunk, bufPos, a - addr)]
          ELSE @[a]]]
WriteData(conn, addr, n) ==
  [store EXCEPT ![conn] =
     [a \in Addrs |->
        IF a >= addr /\ a < addr + n
          THEN [pos |-> position + a - addr,
                byte |-> Payload(chunk, bufPos, a - addr)]
          ELSE @[a]]]

-----------------------------------------------------------------------------
Init ==
  /\ driver \in Drivers
  /\ layout \in Layouts
  /\ position = 0
  /\ bufPos = 0
  /\ bufLimit = Fread(1)
  /\ chunk = 1
  /\ blockCache = [p \in Positions |-> IF p = 0 THEN BlockAt(0) ELSE NoBlock]
  /\ scache = << >>
  /\ store = [d \in Datanodes |-> [a \in Addrs |-> Empty]]
  /\ nnCapacity = 0
  /\ faults = 0
  /\ pc = "call"
  /\ ret = 0

(***************************************************************************)
(* CrailOutputstream::Write(buf).  The limit is lowered to the block      *)
(* boundary; the block comes from the cache or a GetBlock round trip;     *)
(* the client from the storage cache, connected if it is not; then the    *)
(* storage write.  Every failure returns -1 at once, leaving the lowered  *)
(* limit in place.                                                         *)
(***************************************************************************)
Write ==
  LET lim      == WriteLimit(bufPos, bufLimit, position)
      hit      == GetBlock(blockCache, position) # NoBlock
      blk      == IF hit THEN GetBlock(blockCache, position)
                         ELSE BlockAt(position \div kBlockSize)
      cache1   == IF hit THEN blockCache ELSE PutBlock(blockCache, position, blk)
      k        == ComputeKey(Key(blk.dn))
      sc1      == StorageCacheGet(scache, Key(blk.dn))
      conn     == IF sc1[k] = NotConnected THEN blk.dn ELSE sc1[k]
      addr     == BlockAddr(blk, position)
      n        == lim - bufPos
      written  == WriteData(conn, addr, n)
      Fail     == /\ faults' = faults + 1
                  /\ ret' = -1
                  /\ bufLimit' = lim
                  /\ UNCHANGED <<position, bufPos>>
  IN
  /\ pc = "call"
  /\ pc' = "ret"
  /\ \/ /\ ~hit /\ CanFail                              \* GetBlock fails
        /\ Fail
        /\ UNCHANGED <<blockCache, scache, store>>
     \/ /\ sc1[k] = NotConnected /\ CanFail               \* Connect fails
        /\ Fail
        /\ blockCache' = cache1
        /\ scache' = sc1
        /\ UNCHANGED store
     \/ /\ CanFail                                        \* WriteData fails
        /\ Fail
        /\ blockCache' = cache1
        /\ scache' = [sc1 EXCEPT ![k] = conn]
        /\ store' \in {store, written}
     \/ /\ blockCache' = cache1                            \* success
        /\ scache' = [sc1 EXCEPT ![k] = conn]
        /\ store' = written
        /\ ret' = n
        /\ position' = Advance(position, n)
        /\ bufPos' = Advance(bufPos, n)
        /\ UNCHANGED <<bufLimit, faults>>
  /\ UNCHANGED <<driver, layout, chunk, nnCapacity>>

(***************************************************************************)
(* The fread loop around Write: return -1 on a failed Write; write again  *)
(* while the buffer has bytes left; then read the next chunk (Clear,      *)
(* fread, Flip), or close the stream after the last one.                  *)
(***************************************************************************)
FreadLoop ==
  /\ pc = "ret"
  /\ \/ /\ ret < 0
        /\ pc' = "failed"
        /\ UNCHANGED <<chunk, bufPos, bufLimit>>
     \/ /\ ret >= 0 /\ bufLimit - bufPos > 0
        /\ pc' = "call"
        /\ UNCHANGED <<chunk, bufPos, bufLimit>>
     \/ /\ ret >= 0 /\ bufLimit - bufPos = 0 /\ chunk < Len(Chunks)
        /\ chunk' = chunk + 1
        /\ bufPos' = 0
        /\ bufLimit' = Fread(chunk + 1)
        /\ pc' = "call"
     \/ /\ ret >= 0 /\ bufLimit - bufPos = 0 /\ chunk = Len(Chunks)
        /\ pc' = "close"
        /\ UNCHANGED <<chunk, bufPos, bufLimit>>
  /\ UNCHANGED <<driver, layout, position, blockCache, scache, store,
                 nnCapacity, faults, ret>>

(* PocketDispatcher::PutFile and Iobench::WriteFile: after the file is   *)
(* created and its stream opened, the same fread loop.                    *)
PutFileStep == driver = "PutFile" /\ FreadLoop
WriteFileStep == driver = "WriteFile" /\ FreadLoop

(* Iobench::PutKey: one buffer of len bytes, written until it is empty;   *)
(* a failed Write returns -1.                                              *)
PutKeyStep ==
  /\ driver = "PutKey"
  /\ pc = "ret"
  /\ \/ ret < 0 /\ pc' = "failed"
     \/ ret >= 0 /\ bufLimit - bufPos > 0 /\ pc' = "call"
     \/ ret >= 0 /\ bufLimit - bufPos = 0 /\ pc' = "close"
  /\ UNCHANGED <<driver, layout, position, bufPos, bufLimit, chunk, blockCache,
                 scache, store, nnCapacity, faults, ret>>

(***************************************************************************)
(* Iobench::Write: loop times, Clear the len-byte buffer and write it     *)
(* until it is empty.  A failed Write only breaks the inner loop: the     *)
(* next round starts, and after the last one the stream is closed and     *)
(* Write returns 0.                                                        *)
(***************************************************************************)
WriteStep ==
  /\ driver = "Write"
  /\ pc = "ret"
  /\ \/ /\ ret >= 0 /\ bufLimit - bufPos > 0
        /\ pc' = "call"
        /\ UNCHANGED <<chunk, bufPos, bufLimit>>
     \/ /\ ret < 0 \/ bufLimit - bufPos = 0
        /\ chunk < WriteLoop
        /\ chunk' = chunk + 1
        /\ bufPos' = 0
        /\ bufLimit' = WriteLen
        /\ pc' = "call"
     \/ /\ ret < 0 \/ bufLimit - bufPos = 0
        /\ chunk = WriteLoop
        /\ pc' = "close"
        /\ UNCHANGED <<chunk, bufPos, bufLimit>>
  /\ UNCHANGED <<driver, layout, position, blockCache, scache, store,
                 nnCapacity, faults, ret>>

(***************************************************************************)
(* CrailOutputstream::Close: set-file-size with capacity = position_.  A  *)
(* failed call may or may not have reached the namenode.  Every loop     *)
(* ignores the result and returns 0.                                       *)
(***************************************************************************)
Close ==
  /\ pc = "close"
  /\ pc' = "done"
  /\ \/ /\ nnCapacity' = FileCapacity
        /\ UNCHANGED faults
     \/ /\ CloseMayFail /\ CanFail
        /\ nnCapacity' \in {nnCapacity, FileCapacity}
        /\ faults' = faults + 1
  /\ UNCHANGED <<driver, layout, position, bufPos, bufLimit, chunk,
                 blockCache, scache, store, ret>>

Next == Write \/ PutFileStep \/ WriteFileStep \/ PutKeyStep \/ WriteStep \/ Close

(* One application thread runs the loop; it does not stop mid-way.       *)
Spec == Init /\ [][Next]_vars /\ WF_vars(Next)

-----------------------------------------------------------------------------
TypeOK ==
  /\ driver \in Drivers
  /\ layout \in Layouts
  /\ position \in Positions
  /\ bufLimit \in 0 .. BufferSize(driver) /\ bufPos \in 0 .. bufLimit
  /\ chunk \in 1 .. Len(Chunks)
  /\ blockCache \in [Positions -> BlockInfos \cup {NoBlock}]
  /\ \A key \in DOMAIN scache : scache[key] \in Datanodes \cup {NotConnected}
  /\ store \in [Datanodes -> [Addrs -> Cell \cup {Empty}]]
  /\ nnCapacity \in Positions
  /\ faults \in 0 .. MaxFaults
  /\ pc \in {"call", "ret", "close", "done", "failed"}
  /\ ret \in -1 .. Total

(* Every byte a storage server holds was sent for a file position that   *)
(* the namenode placed at exactly that server and address: block offsets,*)
(* boundary clamping, cached block locations and cached connections all  *)
(* agree with the namenode's layout.                                     *)
WritesLandInAssignedBlock ==
  \A d \in Datanodes, a \in Addrs :
    store[d][a] # Empty => Location(store[d][a].pos) = <<d, a>>

(* When PutFile, WriteFile or PutKey returns 0, reading the file back    *)
(* through the namenode's layout yields the application's bytes in       *)
(* order, with no gap.  (Write returns 0 after failed writes by design;   *)
(* when every write succeeded it too has placed its len bytes loop times.)*)
DoneMeansDataPlaced ==
  pc = "done" /\ (driver # "Write" \/ faults = 0) =>
    \A p \in 0 .. Total - 1 : ReadBack(p).byte = Expected(p)

(* When PutFile returns 0, the namenode records the file's full length.  *)
DoneMeansCapacityRecorded ==
  pc = "done" => nnCapacity = Total

(* The stream implements an append-only file: the bytes read back through *)
(* the namenode's layout below position_ never change, and each advance  *)
(* of position_ in Write covers bytes the storage servers hold, however   *)
(* GetBlock, Connect and WriteData failures, cached blocks and            *)
(* connections, and Iobench::Write's retry at an unadvanced position      *)
(* interleave.                                                             *)
Committed == [i \in 1 .. position |-> ReadBack(i - 1).byte]
File == INSTANCE AppendOnlyFile WITH Bytes <- 0 .. Total - 1, file <- Committed
RefinesAppendOnlyFile == File!Spec

(* The write loop always returns: every Write makes progress or fails.   *)
PutFileTerminates == <>(pc \in {"done", "failed"})
=============================================================================
