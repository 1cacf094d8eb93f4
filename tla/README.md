# TLA+ models of the Pocket / Crail C++ client

This directory holds TLA+ models of the C++ client in `src/`. The client
resolves file metadata from a namenode over a ticket-multiplexed RPC
transport (NaRPC) and writes file data straight to storage servers. The
models are checked with TLC. Every definition is translated from the source
lines that `PROJECT.json` ("map") names for it.

## The system and how its parts interact

| Part | Source | State | Operations |
|---|---|---|---|
| RPC transport | `crailclient/client/narpc/rpc_client.cc`, `client/client/narpc/rpc_client.h` | `counter_`, `responseMap_[8]`, socket | `IssueRequest`, `PollResponse` (run once by a response's `Get`), `RecvBytes`, `SendBytes`, `Connect`, `Close` |
| Metadata client | `client/client/namenode/namenode_client.cc` | (an `RpcClient`) | Create, Lookup, GetBlock, SetFile, Remove, Ioctl: each one `IssueRequest` |
| Block location cache | `client/client/common/block_cache.cc` | offset → `BlockInfo`, per fd | `PutBlock` (insert, keeps an existing entry), `GetBlock` |
| Storage connection cache | `client/client/storage/storage_cache.cc`, `metadata/datanode_info.cc` | key → `StorageClient` | `Get` (create on miss), `Put`, `ComputeKey`, `Close` |
| NaRPC storage client | `crailclient/client/storage/narpc/narpc_storage_client.cc` | (an `RpcClient`) | `WriteData`, `ReadData` |
| Block-protocol client | `client/client/reflex/reflex_client.cc` | `counter_`, ticket → future map | `IssueOperation`, `PollResponse` |
| Output stream | `client/client/crail_outputstream.cc` | `position_` | `Write`, `Close` |
| Store facade | `client/client/crail_store.cc`, `crail_directory.cc`, `directory_record.cc` | fd → block cache | `Create`, `Lookup`, `Remove`, `Ioctl`, `WriteDirectoryRecord` |
| Dispatcher | `client/pocket/pocket_dispatcher.cc` | – | `PutFile`, `PutBuffer`, `GetFile`, `MakeDir`, ... |
| Buffer, wire records, filename hashing | `byte_buffer.cc`, request/response classes, `filename.cc`, `crail_hash.cc` | position, limit | encode/decode |

Everything is synchronous. A caller issues a request and calls `Get` on its
response. `Get` runs `PollResponse`, which reads the next frame on the
socket. A write goes through four steps:

1. `PocketDispatcher::PutFile` calls `CrailOutputstream::Write`.
2. `Write` clamps the buffer to the block boundary and asks the block cache
   for the block. On a miss it asks the namenode (`GetBlock`).
3. It takes a storage client from the storage cache and connects it.
4. It sends the bytes with `WriteData`.

`Close` records the final length with `SetFile`.

## Modules

- **RpcCall**: the abstract contract of one connection. A call is idle,
  then pending, then ok or failed. It completes ok only after the server
  has answered that very call, and then its response object holds that
  answer (`answer`), while no other call's object changes. Both transports,
  RpcClient and ReflexClient, are shown to implement it. RpcClient maps
  `answer` to `filled`, so the check covers content. ReflexClient maps it
  to the call itself, and a get's data is checked by `ReadsLatestIssued`.
- **AppendOnlyFile**: the abstract contract of an output stream (spec
  4.7). The file, up to the stream position, only grows at its end: a
  step keeps every byte it held and appends written bytes, never a hole.
  `CrailOutputstream` implements it under the mapping `Committed`: the
  bytes read back through the namenode's layout at positions below
  `position` (`RefinesAppendOnlyFile`).
- **RpcClient**: the NaRPC transport of one connection.
  - Variables:
    - `counter`, `responseMap` (`counter_`, `responseMap_`);
    - the server's pending frames `atServer`;
    - the response stream `wire`;
    - the socket state `sock` (open, broken, eof);
    - each request's status;
    - `filled` (whose answer each response object decoded);
    - `crashed` (a nullptr slot was dereferenced).
  - `IssueRequest` is the whole of `RpcClient::IssueRequest`: ticket, register,
    send, and failure on a broken socket. `SendBytes` fails only on a
    broken socket: a send to a peer that has only closed is accepted by the
    kernel, but the server never sees the frame.
  - `PollResponse(r)` is the whole of `RpcClient::PollResponse` as run by
    `Get`: header, slot taken and cleared, nullptr dereference, body receive
    that may fail.
  - `GetFails(r)` is the header receive failing.
  - The server (`ServerReply`, `ConnectionReset`, `ServerClose`) is the
    environment.
  - The module refines RpcCall through `Abs == INSTANCE RpcCall WITH ...`,
    with `filled` as the abstract `answer`.
- **CrailOutputstream** and **MCCrailOutputstream**: a write loop writing a
  new file through `CrailOutputstream`. The `driver` is chosen in `Init`:
  `PocketDispatcher::PutFile`, `Iobench::WriteFile`, `Iobench::PutKey` or
  `Iobench::Write`.
  - Variables:
    - `position`, `bufPos` and `bufLimit` (the stream cursor and the
      `ByteBuffer` cursor and limit);
    - the file's `blockCache`;
    - the storage cache `scache` (key → the endpoint its client is connected
      to);
    - each storage server's bytes `store`;
    - the namenode's recorded capacity;
    - the loop's program counter.
  - `Write` is the whole of `CrailOutputstream::Write`, with each round trip
    succeeding or failing: GetBlock fails, Connect fails, WriteData fails
    (the bytes may or may not have arrived), or success.
  - `FreadLoop` is the loop `PutFile` and `WriteFile` share: read a chunk,
    write until drained, return -1 on failure, then close. `PutFileStep`
    and `WriteFileStep` run it for their driver.
  - `PutKeyStep` is `PutKey`'s loop: one buffer of `len` bytes, written
    until drained, -1 on failure.
  - `WriteStep` is `Iobench::Write`'s loop: `loop` rounds, each a `Clear`
    of the `len`-byte buffer and writes until drained. A failed write only
    breaks the inner loop.
  - `Close` is `CrailOutputstream::Close` followed by the loop returning 0.
  - The namenode's block layout is chosen in `Init` among all injective
    placements. A datanode key is the pair (ip, port), and `ComputeKey`
    rounds its low half to a multiple of `kBlockSize`. This is exact because
    `kBlockSize` divides 2^32.

- **CrailStore**: the dispatcher's metadata calls on the children of one
  enumerable directory P (fd 0), each call one step.
  - Variables:
    - the namenode's view: `nn` (name -> fd, type, record slot), `nextFd`,
      and `nnDirCap` (P's capacity in 512-byte slots);
    - the client's `caches` (`CrailStore::block_cache_`: fd -> offsets);
    - `dir`, the decoded record at each slot of P's bytes;
    - the last call, its name argument, its return value, and `listed`
      (what the last `Enumerate` printed).
  - `MakeDir`, `PutBuffer`, `LookupNode`, `Delete` (DeleteFile and
    DeleteDir), `Enumerate` and `CountFiles` are the whole dispatcher calls
    with the `CrailStore` method each makes.
  - `GetBuffer` and `GetFile` are the dispatcher's read calls up to the
    input stream. Each is a `Lookup` whose result for a found node is
    -1 when the node is not a file (`IsFile`). Otherwise it is what the read
    loop returns. `GetBuffer` returns -1 at the first failed `Read`
    (`ReadResults`, possible only when reads may fail). `GetFile` returns
    -1 only when `fopen` fails, because its copy loop ends on any `Read`
    of 0 or less (`CopyResults`). `CrailInputstream` is not in the
    repository, so the bytes read are not modelled.
  - `Next` is the dispatch of `pshell`'s `main`: one dispatcher call per
    step. `Delete`, `CountFiles` and `Enumerate` are the store logic
    (`Remove`, `Ioctl`, `Listing`) plus the record of the call's name and
    result.
  - A namenode round trip may fail (`NnCallFails`, the `NamenodeClient`
    call returning an error), and the namenode may have applied the
    request anyway (`CreateLost`, `Remove`'s first disjunct).
  - `WriteDirectoryRecord` does nothing for a negative offset. Otherwise it
    is one `CrailOutputstream::Write` on P: GetBlock on a cache miss, which
    may fail, then a storage write, which may fail after the bytes arrived.
    Its result is ignored, as in the code.
  - `DirWrite` is `DirectoryRecord::Write` at a slot, kept as what
    `DirectoryRecord::Update` decodes from each 512-byte slot. A name in
    `LongNames` (longer than 504 bytes) decodes as `Corrupt`: `Update`
    copies the name out of the 512-byte buffer, so it gets the first 504
    bytes and then bytes from past the buffer. The record also overwrites
    the next slot's header with name bytes (`SpillRec`). `Update` then
    sizes a stack array from a length of at least 16 MB, or a negative
    one, and the process dies: `Enumerate` returns `Crash`.
  - `PutBenchmark` (`BenchStart`, `BenchCall`) is the loop `pshell` and
    `iobench` share. It puts `BenchLoop` names in turn and breaks at the
    first failed put; no other call interleaves a run. `pshell`'s
    `GetBenchmark` is the same loop over `GetBuffer`.
  - `IobenchCall` is one of `iobench`'s read calls. `ReadFile` has the
    control of the dispatcher's `GetFile`, and `GetKey` and `Read` that of
    `GetBuffer`, so they are defined as those. `IobenchGetFile` does
    `BenchLoop` lookups (the shared `-k` option), ignores their results
    and returns 0.
  - `Enumerate` reads `capacity / 512` slots. The recursive `RecordAt` gives
    what `DirectoryRecord::Update` decodes when a `Read` failed: the previous
    record's bytes, or zeroes for the first slot.

- **Wire**: `ByteBuffer`. A buffer is its bytes (0..255), position, limit
  and byte order. `PutField` and `GetField` are the `Put*` and `Get*`
  methods of each width (byte unsigned; short, int and long in two's
  complement in the buffer's order; `Raw4` for `PutBytes` of an int's own
  bytes, in host order). There is no bounds check, as in the code. A
  record's `Write` is a layout, the sequence of fields it puts.
  `WriteLayout` writes the fields' encodings one after the other from the
  position. `UpdateLayout` decodes each field at its offset and assigns it,
  a member got twice keeping the later value. Both give what a sequence of
  `Put*` or `Get*` calls gives.
- **Messages**: the layout and the hand-written `Size()` of every request
  the client sends (`Createrequest`, `LookupRequest`, `SetfileRequest`,
  `RemoveRequest`, `IoctlRequest`, `GetblockRequest`, `NarpcWriteRequest`),
  of every record it decodes (`CreateResponse` and `GetblockResponse` with
  `FileInfo`, `BlockInfo` and `DatanodeInfo`, `NarpcWriteResponse`,
  `ReflexHeader`, `Filename`), and `DirectoryRecord`.
  - `FileInfo::Write` is not in the repository. `FileInfoLayout` puts the
    members in declaration order, with the widths its `Size()` counts.
  - The header of `LookupRequest` is not in the repository either.
    `LookupRequestSize` counts what its `Write` puts. `EncodeRequest` is what
  `IssueRequest` does to its buffer: `Clear`, `AddNaRPCHeader` with
  `request.Size()`, `Write`, `Flip`.
- **Filename**: the constructor's walk over the path (`Decompose`, calling
  `FileHash`, that is `file_hash(name, start)`) as recursive operators. The
  hash is `31 * h + c` in a 32-bit int. TLC's own integers are 32-bit, so
  the hash is kept as two 16-bit limbs and wraps exactly as the code's int.
  The reference definitions (`Split`, `RefHash`, `RefFilename`) split the
  path at every `/` and compute the closed form `sum c_i * 31^(n-i)`.
- **ReflexClient** and **MCReflexClient**: the block-protocol client of
  one connection (`reflex_client.cc`).
  - Variables: `counter` (`counter_`), `responseMap` (the tickets with a
    registered future), the `futures` by ticket (type, lba, sector count,
    payload, buffer), the caller's `queue` of futures not yet resolved, the
    frames at the server `up`, the responses on the socket `down`, the
    server's `disk` of sectors, `sock`, and `killed` (a send raised
    SIGPIPE).
  - `sock` follows Linux's socket calls after a reset. It is `open`, then
    `reset` when a reset has arrived and no call has reported it yet, then
    `closed`. Bytes received before the reset stay readable. The first
    `send()`, or the first `recv()` with nothing left to read, reports the
    reset as -1 and consumes it. After that, `recv()` returns 0, and
    `RecvBytes` adds 0 and loops for ever: a `Get` then has no step. A
    `send()` gets EPIPE, and since it is called with flags 0 it raises
    SIGPIPE, which ends the process (`killed`).
  - `IssueOperation` is the whole of `Put`/`Get`/`IssueOperation`: the
    sector rounding (`CountOf`), the buffer-room check (`Fits`), the
    ticket, the sends, and the registration after them (`Registered`).
    `SendBytes` reports a pending reset, or one that happens during the
    call. The operation then returns nullptr with `counter_` already
    advanced. On a `closed` connection the send raises SIGPIPE.
    `IssueOperation` runs between `Get`s, never between the two receives of
    one.
  - `PollResponse` is the whole of `ReflexClient::PollResponse`, as its
    two receives. `PollHeader` reads the header, looks the ticket up with
    `operator[]` (a null future for an unknown get ticket is recorded as
    `crashed`) and erases it; a put is then done. For a get, `pending`
    holds the response and `PollSectors` receives its sectors into the
    future's buffer. If the server reset the connection after the header,
    it returns -1 instead. `GetFails` is the header's `RecvBytes` reporting
    a pending reset when nothing is left to read.
  - `ReflexFuture::Get` is not in the repository. As for the NaRPC
    responses, it is taken to run `PollResponse` once.
  - The server (`ServerServe`, `ServerResetMidGet`, `ConnectionReset`) is
    the environment. It serves the connection's frames in order, and it
    may reset the connection between a get's header and its sectors.
  - The module refines RpcCall through `Call == INSTANCE RpcCall WITH ...`,
    with the ticket as the call:
    - a ticket that `counter_` has not reached is idle;
    - a ticket whose send failed has failed;
    - a future's `Get` result ends its call;
    - the server has answered (`Served`) every frame it has taken off the
      connection.
    `PollResult` is `PollResponse`'s return: -1 as soon as a `RecvBytes`
    fails.
- **MCCodec**: one message per behaviour. Either `SendRequest` encodes a
  request, or `WriteRecord`/`WriteDirRecord` write a record and
  `ReadRecord` decodes it into a fresh object. Each field of a layout gets
  a distinct value near the low or the high edge of its width, so a field
  in the wrong place, order or width is told apart.

## Runs

| Run | Expect | What it shows |
|---|---|---|
| rpc_sequential | pass | With one request at a time (as every caller in `src` does), across the ticket wrap, and with the server free to reset or close the connection, no nullptr slot is read and every in-flight frame finds its own response object. The transport refines RpcCall: a `Get` reports success only once its request was answered, with that answer decoded into its own response object. |
| rpc_returns | pass | With one request at a time and connection resets, every `Get` returns, with an answer or -1. This relies on weak fairness on `Get` and on the server. A close is left to `rpc_peer_close`. |
| rpc_ticket_wrap | violation | Counters 8 and 9 both map to ticket 1, so two requests in flight collide (`SlotsHeld`). Under the same bounds `RefinesRpcCall` fails too: counter 8's answer is decoded into counter 9's object, and counter 8's `Get` reports success. |
| rpc_peer_close | violation | After a peer close, `recv` returns 0 and `RecvBytes` spins for ever (`IssuedReturns`). |
| stream_put | pass | For each of the four write loops, every stored byte sits where the namenode placed its position. When `PutFile`, `WriteFile` or `PutKey` returns 0, the whole file reads back; so does `Write` when no call failed. The stream implements `AppendOnlyFile` (`RefinesAppendOnlyFile`): a failed storage write that stored its bytes anyway, and the retry that writes over them, never touch a byte below `position`. Every loop returns. |
| stream_same_host | violation | Two datanodes on one host share a storage-cache key, and bytes land on the wrong server. The same configuration also breaks `RefinesAppendOnlyFile`, because the misdirected write overwrites committed bytes of another block; the run checks only the placement invariant. |
| putfile_close_ignored | violation | `PutFile` returns 0 after `SetFile` failed. |
| store_clean | pass | With no failures and short names, `Enumerate` prints exactly the enumerable children the namenode holds (`ListingMatches`). |
| store_faults | pass | With any round trip allowed to fail, twice in all, a call that returned 0 took effect at the namenode, or for a get read a file (`SuccessMeansApplied`). A `PutBenchmark` run that returned 0 created every one of its names, and a `GetBenchmark` run that returned 0 found every one as a file (`BenchmarkReachedAll`). |
| store_long_name | violation | A child whose name exceeds 504 bytes is listed under a corrupted name, with no failure at all. Removing it later also overwrites the next child's header, and `Enumerate` then dies on that record. |
| reflex_sequential | pass | With two block operations in flight, payloads that end inside a sector or do not fit their buffer once rounded, and resets that behave as Linux's (also between a response's header and its sectors): every response header finds its future in the ticket map (`NoNullFuture`), although futures are registered only after their sends. Every read that returned 0 holds, in each sector its payload covers, what the last earlier write put there (`ReadsLatestIssued`) and the connection refines RpcCall (`RefinesRpcCall`). No liveness is checked here: after a reset, a second `Get` spins (see the hazards). |
| codec | pass | Every metadata request frame carries the spec's size, command and type (`FrameMatchesSpec`). Every path reaches the wire as the spec's component count and hashes, and the constructor keeps the literal last component (`FilenameMatchesSpec`). Every response record, the little-endian Reflex header, the `Filename` and a directory record read back by `Update` exactly as `Write` put them (`RoundTrip`), with field values at the edges of every width. |

Four more disagreements were met while modelling and are kept as hazards
rather than runs:

- `CrailStore::WriteDirectoryRecord` ignores the result of the directory
  write. The `store_clean` configuration with `FailingCalls = {"write"}`
  and `MaxFaults = 1` shows `Create` returning the node while `Enumerate`
  then omits it.

- `CrailOutputstream::Write` looks the block cache up, and fills it, by the
  exact position rather than the block-aligned offset. A write starting
  inside a resolved block asks the namenode again. Spec 4.6 says a block
  already resolved never costs a second round trip, and it speaks of
  block-aligned offsets. The unaligned repeat returns the same block, so
  no placement property changes; it costs a round trip, and no property is
  about it.

- `CrailOutputstream::Write` returns early without restoring the buffer's
  limit (spec 4.7 says it is restored). Every caller returns -1 right
  after, so nothing observes it.
- `CrailDirectory::Enumerate` ignores a failed `Read`. The `store_clean`
  configuration with `FailingCalls = {"read"}` and `MaxFaults = 1` shows the listing repeating one child and
  missing another.

`PROJECT.json` lists these as findings, with the source line each comes from.
Every property of a passing run has a mutant: a faulty variant of a mapped
definition that TLC must catch.

## Bounds

- **RPC.**
  - `kMaxTicket = 8`, the code's value.
  - `MaxRequests = 10`, so the counter passes 8 and 9, where the wrap happens.
  - `Window` is 1 for sequential callers and 2 for pipelining.
  - The server answers in order in every run (`ServerFifo = TRUE`). With
    `Window = 1`, as the code's callers use the transport, the order
    cannot matter: `rpc_sequential` reaches the same 221 states with
    `ServerFifo = FALSE`. With two calls in flight and an out-of-order
    server, TLC breaks `RefinesRpcCall` in five steps. The first call's
    `Get` runs `PollResponse` once, which reads the second call's answer,
    and the first call then returns as if its own had come. A hazard
    records this. Spec sections 4.2 and 5 allow 8 outstanding requests, so
    this use is allowed. No caller in the repository pipelines, so no run
    checks it.
- **Stream.**
  - `kBlockSize = 4`, `kBufferSize = 8` and a 12-byte file. The buffer
    holds two blocks, as the build's buffer holds eight (512 KiB over
    64 KiB). `PutFile`'s chunks (8, 4) are each cut at block boundaries,
    and the last one is partial.
  - `Write` runs 2 rounds of 6 bytes (`WriteLoop = 2`). Its second round
    starts at offset 2 of a block, so a failed round is followed by
    another at an unaligned position. `PutKey` writes the 12 bytes from one
    buffer, over three blocks. `WriteFile` reads the same chunks as
    `PutFile`.
  - There are three blocks on two servers, with every injective layout,
    so two blocks share a server.
  - `MaxFaults = 2` in `stream_put`, so a loop can fail twice, as in a
    GetBlock failure followed by a storage write failure.
    The violation runs keep `MaxFaults = 1`.

- **Store.**
  - Two child names, at most 3 fds and 3 record slots, in `store_faults`
    and `store_long_name`. This is enough for two creates, a remove and a
    re-create in a fresh slot.
  - Three names, 4 fds and 4 slots in `store_clean` (825,473 states,
    about a minute). A tombstone can then sit between two live records,
    and all three names can be listed, one of them from a re-created slot.
  - `MaxFaults = 2` in `store_faults` (431,364 states, about 35 s). Every
    failure branch happens, and two can follow each other. For example, a
    create whose answer is lost but which the namenode applied can be
    followed by a failed record write or a failed read in `Enumerate`.
  - `BenchLoop = 2` puts both names, so a failed first put is followed by
    the second when the break is missing. A run starts only when the fd
    and slot bounds leave room for all its creates.
  - Slot indices stand for byte offsets (slot * 512). No slot is the last
    of a 64 KiB block, so a record write is never clamped.

- **Reflex.**
  - Sector addresses {0, 1}, so two operations overlap; two values; three
    operations with two in flight.
  - Payloads: 512 bytes in a 1024-byte buffer (whole sector), 700 bytes in
    a 1024-byte buffer (rounded up to two sectors, the second padded), and
    700 bytes in a 700-byte buffer (rounded size does not fit, nullptr).
- **Codec.**
  - Paths: every `/`-led path over `{/, a, b}` of up to 4 characters
    (empty components, trailing slashes, up to three components), plus a
    7-character component (the hash wraps), `/Aa` and `/BB` (they collide)
    and a character above 127 (negative as a signed char).
  - The unused `Filename` slots hold 0 or -1, standing for uninitialised
    memory.
  - Longs are checked within TLC's 32-bit range. A decoded long whose high
    bytes are not a sign extension reads as `Unrepresentable`, a value no
    field is given.
  - `MCCodec` stops after one message, so `codec.cfg` turns off deadlock
    checking.

## Fairness

- **RpcClient.** Weak fairness on `Get`: every caller in `src` calls `Get`
  right after issuing. Weak fairness on `ServerReply`: the server answers
  what it receives. There is no fairness on resets or closes.
- **CrailStore** and **MCCodec.** No fairness: only safety is checked.
- **ReflexClient.** Weak fairness on `Get` (`PollHeader`, `PollSectors`
  or `GetFails`) and on `ServerServe`: the caller resolves what it issued,
  and the server serves what it received. There is no fairness on resets.
  No liveness property is checked on this module. With two gets in flight
  and a reset, the first `Get` reports -1 and the second spins on
  `recv() = 0`; checking that every `Get` returns finds this trace in six
  steps. Spec section 5 says that at this layer a receive that never
  completes blocks forever, so no run is kept for it.
- **CrailOutputstream.** Weak fairness on `Next`: each driver is one
  thread running a loop of synchronous calls.

## Not modelled (yet), and why

- `ReflexClient`: a close by the server is not a separate action. It
  makes `recv()` return 0, as after a reset that has been reported.
  `Connect`, `Close` and `Debug` are not modelled.
- `RpcClient`: after a reset the socket fails every later call, and
  queued frames are dropped. At `Window = 1`, as the callers use it, only
  the first receive after a reset ever runs, so this matches Linux there.
  The SIGPIPE that a later `send()` raises is recorded as a hazard and
  modelled only in `ReflexClient`.
- `Iobench::Write` after a failed call. It closes the file and returns 0,
  and the next round has written its buffer from byte 0 at the unadvanced
  position. `DoneMeansDataPlaced` exempts this case, and a hazard records
  what TLC shows without the exemption. `iobench`'s read calls stop at
  the input stream, as the dispatcher's do.
- `IoctlResponse` and the storage read request and response: their
  `Write` and `Update` are not in `src`.
- A path of more than 16 components: `components_` is written past its
  end. That is undefined behaviour and is not enumerated.
- The namenode and the storage servers are the environment. The namenode
  creates an absent name, removes a present one and never reuses a slot.
- The bytes `GetFile` and `GetBuffer` read. `GetFile` reports 0 after a
  failed `Read` or `fwrite` (a hazard records this), but the model has no
  state for the copied bytes, so no property can tell a truncated copy
  from a complete one. For the same reason the model cannot reach the
  hang a hazard records: `GetBuffer`, `GetKey` and `Read` loop until
  `Read` fails, so on a file shorter than `len` they never return.
- `CrailInputstream`, `RpcResponse::Get`, `ReflexFuture::Get` and
  `ReflexStorageClient` are declared but not implemented in this repository.
  `Get` is taken to run `PollResponse` once, as the commented call in
  `namenode_response.cc` shows.
- The option parsing, timing and printing of `iobench`, and `pshell` and
  `pypocket`, which parse arguments and call the dispatcher.
  `pshell`'s `Settings` has no defaults, so an omitted `-t`, `-k` or `-s`
  leaves `main` reading uninitialised values. A hazard records this. The
  model takes each program's call and its arguments as given.
