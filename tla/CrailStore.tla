------------------------------ MODULE CrailStore ------------------------------
(***************************************************************************)
(* The store facade (CrailStore) as the dispatcher drives it: MakeDir,    *)
(* PutBuffer, Lookup, Enumerate, DeleteFile/DeleteDir and CountFiles on   *)
(* the children of one enumerable directory P, with the directory-entry   *)
(* records that Create and Remove write into P's byte stream and that     *)
(* CrailDirectory::Enumerate reads back.                                   *)
(*                                                                         *)
(* Every call is synchronous, so each dispatcher call is one step.  The   *)
(* namenode is the environment: it creates a name that is absent (a new  *)
(* fd, and for an enumerable node the next 512-byte record slot of P),    *)
(* removes a name that is present (its slot is not reused), and may have *)
(* applied a request whose answer the client never receives.  Storage     *)
(* writes and reads of P's records may fail; a failed write may or may not*)
(* have reached the storage server.                                        *)
(***************************************************************************)
EXTENDS Integers, FiniteSets

SX == INSTANCE SequencesExt

CONSTANTS
  Names,         \* child names of P
  LongNames,     \* names whose record (8 + length bytes) exceeds 512 bytes
  MaxFds,        \* bound on fds the namenode hands out (P has fd 0)
  MaxSlots,      \* bound on record slots the namenode allocates in P
  MaxFaults,     \* bound on failed round trips
  FailingCalls,  \* which round trips may fail: "nn", "write", "read"
  BenchLoop      \* settings.loop: the names PutBenchmark puts, in order,
                 \* and Iobench::GetFile's lookups

ASSUME LongNames \subseteq Names
ASSUME MaxFds \in Nat \ {0} /\ MaxSlots \in Nat \ {0} /\ MaxFaults \in Nat
ASSUME FailingCalls \subseteq {"nn", "write", "read"}
ASSUME BenchLoop \in 1 .. Cardinality(Names)

PFd == 0
Fds == 0 .. MaxFds
Slots == 0 .. MaxSlots          \* slot MaxSlots only receives spilled bytes
Types == {"file", "dir"}
Absent == [fd |-> -1, type |-> "none", slot |-> -1]
Entries == [fd : Fds, type : Types, slot : Slots \cup {-1}]
NoName == "noname"              \* the empty name of zeroed bytes
Corrupt == "corrupt"            \* a long name's first 504 bytes, then
                                \* bytes from past the 512-byte buffer
Spill == "spill"                \* a header made of a name's bytes
Recs == [valid : {0, 1}, name : Names \cup {NoName, Corrupt, Spill}]
ZeroRec == [valid |-> 0, name |-> NoName]
SpillRec == [valid |-> 1, name |-> Spill]
Crash == -2                     \* the process died in Enumerate

VARIABLES
  nn,            \* the namenode's entry of each name, or Absent
  nextFd,        \* the fd the namenode hands out next
  nnDirCap,      \* P's capacity at the namenode, in record slots
  caches,        \* CrailStore::block_cache_: fd -> offsets held (slots
                 \* for P, offset 0 for a file's first block)
  dir,           \* the record bytes at each slot of P, decoded
  faults,        \* failed round trips so far
  listed,        \* names the last Enumerate printed
  lastCall,      \* the dispatcher call that returned last
  lastName,      \* its name argument
  ret,           \* its return value
  bench          \* a PutBenchmark run: the index of its next name and
                 \* its enumerable flag, or NoBench

vars == <<nn, nextFd, nnDirCap, caches, dir, faults, listed,
          lastCall, lastName, ret, bench>>

nnVars == <<nn, nextFd, nnDirCap>>

CanFail(kind) == kind \in FailingCalls /\ faults < MaxFaults

(* NamenodeClient::Create, Lookup, GetBlock, Remove and Ioctl: build the *)
(* request, IssueRequest, and nullptr if that fails; the caller's Get()  *)
(* may fail as well.  Either way one failed round trip.                  *)
NnCallFails == CanFail("nn") /\ faults' = faults + 1

LiveEnumerable == {n \in Names : nn[n] # Absent /\ nn[n].slot >= 0}

-----------------------------------------------------------------------------
(* The namenode's side of create and remove.                             *)
NnCreate(n, type, e) ==
  /\ nn' = [nn EXCEPT ![n] = [fd |-> nextFd, type |-> type,
                              slot |-> IF e THEN nnDirCap ELSE -1]]
  /\ nextFd' = nextFd + 1
  /\ nnDirCap' = IF e THEN nnDirCap + 1 ELSE nnDirCap

NnRemove(n) ==
  /\ nn' = [nn EXCEPT ![n] = Absent]
  /\ UNCHANGED <<nextFd, nnDirCap>>

(* CrailStore::AddBlock: GetBlockCache(fd) then an insert into it.       *)
AddBlock(c, fd, off) == [c EXCEPT ![fd] = @ \cup {off}]

(* DirectoryRecord::Write of (valid, name) at a slot, as one storage      *)
(* write of 8 + length bytes, kept as what DirectoryRecord::Update makes  *)
(* of each 512-byte slot.  A record longer than 512 bytes runs into the   *)
(* next slot, whose header then holds name bytes; and its own slot's     *)
(* Update copies length bytes out of the 512-byte buffer, so the name it *)
(* decodes is the first 504 bytes followed by whatever lies past it.     *)
DirWrite(d, k, valid, n) ==
  IF n \in LongNames
    THEN [d EXCEPT ![k] = [valid |-> valid, name |-> Corrupt], ![k + 1] = SpillRec]
    ELSE [d EXCEPT ![k] = [valid |-> valid, name |-> n]]

(* CrailStore::DirectoryOuput: a stream on P at the record's offset.      *)
DirectoryOutput(off) == off

(* CrailStore::WriteDirectoryRecord(parent, name, offset, valid), given   *)
(* the block caches c0 before it: nothing for a negative offset; else one *)
(* CrailOutputstream::Write on P, whose result is ignored.                *)
WriteDirectoryRecord(c0, off, n, valid) ==
  LET pos == DirectoryOutput(off) IN
  IF off < 0 THEN caches' = c0 /\ UNCHANGED <<dir, faults>>
  ELSE
    \/ /\ pos \notin c0[PFd] /\ NnCallFails         \* GetBlock fails
       /\ caches' = c0
       /\ UNCHANGED dir
    \/ /\ CanFail("write")                         \* Connect/WriteData fails
       /\ caches' = AddBlock(c0, PFd, pos)
       /\ faults' = faults + 1
       /\ dir' \in {dir, DirWrite(dir, pos, valid, n)}
    \/ /\ caches' = AddBlock(c0, PFd, pos)
       /\ dir' = DirWrite(dir, pos, valid, n)
       /\ UNCHANGED faults

-----------------------------------------------------------------------------
(***************************************************************************)
(* CrailStore::Create(name, type, enumerable).  CreateLost: the request   *)
(* or its answer is lost (nullptr or Get() < 0).  CreateRejected: the     *)
(* answer carries an error.  CreateOk: the block caches are seeded for    *)
(* the file's first block and, for an enumerable node, for P at the       *)
(* record's offset, and the record (valid = 1) is written.               *)
(***************************************************************************)
NnCreateAllowed(e) == nextFd <= MaxFds /\ (e => nnDirCap < MaxSlots)

CreateLost(n, type, e) ==
  /\ NnCallFails
  /\ \/ UNCHANGED nnVars
     \/ nn[n] = Absent /\ NnCreateAllowed(e) /\ NnCreate(n, type, e)
  /\ UNCHANGED <<caches, dir>>

CreateRejected(n) ==
  /\ nn[n] # Absent
  /\ UNCHANGED <<nn, nextFd, nnDirCap, caches, dir, faults>>

CreateOk(n, type, e) ==
  LET c1  == AddBlock(caches, nextFd, 0)
      off == IF e THEN nnDirCap ELSE -1
      c2  == IF off >= 0 THEN AddBlock(c1, PFd, off) ELSE c1
  IN
  /\ nn[n] = Absent /\ NnCreateAllowed(e)
  /\ NnCreate(n, type, e)
  /\ WriteDirectoryRecord(c2, off, n, 1)

(* PocketDispatcher::MakeDir: an enumerable directory.                   *)
MakeDir(n) ==
  /\ \/ (CreateLost(n, "dir", TRUE) \/ CreateRejected(n)) /\ ret' = -1
     \/ CreateOk(n, "dir", TRUE) /\ ret' = 0
  /\ lastCall' = "create" /\ lastName' = n
  /\ UNCHANGED listed

(* PocketDispatcher::PutBuffer (and Iobench::PutKey, the same calls):    *)
(* create a file, write its bytes (block 0 was seeded by Create), close   *)
(* it ignoring Close's result.                                            *)
PutBufferCall(n, e) ==
  \/ (CreateLost(n, "file", e) \/ CreateRejected(n)) /\ ret' = -1
  \/ /\ CreateOk(n, "file", e)
     /\ \/ ret' = 0
        \/ "write" \in FailingCalls /\ ret' = -1

PutBuffer(n, e) ==
  /\ PutBufferCall(n, e)
  /\ lastCall' = "create" /\ lastName' = n
  /\ UNCHANGED listed

(* CrailStore::Lookup: the answer's error is checked, then the file's    *)
(* first block is seeded.                                                 *)
LookupFailedIgnored(n) == FALSE
LookupFailed(n) == nn[n] = Absent

(* The caller's result for a node found: found is the set it may return. *)
Lookup(n, found) ==
  /\ \/ /\ NnCallFails
        /\ ret' = -1
        /\ UNCHANGED caches
     \/ /\ LookupFailed(n)
        /\ ret' = -1
        /\ UNCHANGED <<caches, faults>>
     \/ /\ ~LookupFailed(n)
        /\ caches' = AddBlock(caches, nn[n].fd, 0)
        /\ ret' \in found
        /\ UNCHANGED faults
  /\ UNCHANGED <<nn, nextFd, nnDirCap, dir>>

(* PocketDispatcher::Lookup: CrailStore::Lookup, -1 for no node.         *)
LookupNode(n) ==
  /\ Lookup(n, {0})
  /\ lastCall' = "lookup" /\ lastName' = n
  /\ UNCHANGED listed

(* The read calls: "node is not a file" is -1 after a good lookup.       *)
IsFile(n) == nn[n].type = "file"

(* GetBuffer's loop over CrailInputstream::Read (not in the repository)  *)
(* returns -1 at the first failed Read and 0 once the buffer is full.    *)
ReadResults == IF "read" \in FailingCalls THEN {0, -1} ELSE {0}

(* PocketDispatcher::GetBuffer: look the file up, then read len bytes.   *)
GetBufferCall(n) == Lookup(n, IF IsFile(n) THEN ReadResults ELSE {-1})

GetBuffer(n) ==
  /\ GetBufferCall(n)
  /\ lastCall' = "get" /\ lastName' = n
  /\ UNCHANGED listed

(* PocketDispatcher::GetFile: look the file up, open the local file (-1  *)
(* if fopen fails), copy while Read returns more than 0, return 0: a     *)
(* failed Read ends the copy like the end of the file does.              *)
CopyResults == {0, -1}

GetFile(n) ==
  /\ Lookup(n, IF IsFile(n) THEN CopyResults ELSE {-1})
  /\ lastCall' = "get" /\ lastName' = n
  /\ UNCHANGED listed

(* Iobench::ReadFile copies the file to a local one exactly as           *)
(* PocketDispatcher::GetFile does; Iobench::GetKey reads len bytes, and  *)
(* Iobench::Read loop times len bytes, with GetBuffer's loop, -1 at the  *)
(* first failed Read.                                                     *)
ReadFile(n) == GetFile(n)
GetKey(n) == GetBuffer(n)
Read(n) == GetBuffer(n)

(* Iobench::GetFile: settings.loop lookups of one name for their latency; *)
(* their results are ignored and it returns 0.  k of them fail.           *)
IobenchGetFile(n) ==
  /\ \E k \in 0 .. BenchLoop :
       /\ k > 0 => CanFail("nn") /\ faults + k <= MaxFaults
       /\ faults' = faults + k
       /\ caches' = IF nn[n] # Absent /\ k < BenchLoop
                      THEN AddBlock(caches, nn[n].fd, 0) ELSE caches
  /\ ret' = 0
  /\ lastCall' = "lookups" /\ lastName' = n
  /\ UNCHANGED <<nn, nextFd, nnDirCap, dir, listed>>

(***************************************************************************)
(* PutBenchmark (pshell and iobench run the same loop): settings.loop     *)
(* names filename + i, each put in turn (PocketDispatcher::PutBuffer,     *)
(* enumerable, in pshell; Iobench::PutKey with settings.enumerable in     *)
(* iobench); the first failure breaks the loop and its result is what    *)
(* main returns.  pshell's GetBenchmark runs the same loop over          *)
(* GetBuffer.  A loop of 0 returns -1 without a call (not modelled).     *)
(***************************************************************************)
NoBench == [op |-> "put", next |-> 0, e |-> FALSE]
BenchNames == SX!SetToSeq(Names)

(* A run starts only where the namenode's fd and slot bounds leave room  *)
(* for all its creates (a bound of the model, not of the code).          *)
BenchStart ==
  /\ \/ \E e \in BOOLEAN :
          /\ nextFd + BenchLoop <= MaxFds + 1
          /\ e => nnDirCap + BenchLoop <= MaxSlots
          /\ bench' = [op |-> "put", next |-> 1, e |-> e]
     \/ bench' = [op |-> "get", next |-> 1, e |-> FALSE]
  /\ UNCHANGED <<nn, nextFd, nnDirCap, caches, dir, faults,
                 listed, lastCall, lastName, ret>>

(* if (res < 0) break;                                                    *)
BenchBreaksNever(r) == FALSE
BenchBreaks(r) == r < 0

BenchCall ==
  LET n == BenchNames[bench.next] IN
  /\ bench.next > 0
  /\ \/ bench.op = "put" /\ PutBufferCall(n, bench.e)
     \/ bench.op = "get" /\ GetBufferCall(n)
  /\ lastName' = n
  /\ \/ /\ BenchBreaks(ret') \/ bench.next = BenchLoop
        /\ bench' = NoBench
        /\ lastCall' = [put |-> "putbench", get |-> "getbench"][bench.op]
     \/ /\ ~BenchBreaks(ret') /\ bench.next < BenchLoop
        /\ bench' = [bench EXCEPT !.next = @ + 1]
        /\ lastCall' = [put |-> "create", get |-> "get"][bench.op]
  /\ UNCHANGED listed

(* CrailStore::Remove: on success the record at the removed node's slot  *)
(* is overwritten with valid = 0.                                          *)
Remove(n) ==
  \/ /\ NnCallFails
     /\ \/ UNCHANGED nnVars
        \/ nn[n] # Absent /\ NnRemove(n)
     /\ ret' = -1
     /\ UNCHANGED <<caches, dir>>
  \/ /\ nn[n] = Absent
     /\ ret' = -1
     /\ UNCHANGED <<nn, nextFd, nnDirCap, caches, dir, faults>>
  \/ /\ nn[n] # Absent
     /\ NnRemove(n)
     /\ WriteDirectoryRecord(caches, nn[n].slot, n, 0)
     /\ ret' = 0

(* PocketDispatcher::DeleteFile and DeleteDir: Remove, non-recursive or  *)
(* recursive (the children of P have no children of their own).          *)
Delete(n) ==
  /\ Remove(n)
  /\ lastCall' = "delete" /\ lastName' = n
  /\ UNCHANGED listed

(* CrailStore::Ioctl: the count the namenode answers, or -1.             *)
Ioctl ==
  \/ NnCallFails /\ ret' = -1
  \/ ret' = Cardinality({n \in Names : nn[n] # Absent}) /\ UNCHANGED faults

(* PocketDispatcher::CountFiles: Ioctl with op 5 on the directory.       *)
CountFiles ==
  /\ Ioctl
  /\ lastCall' = "count" /\ lastName' = NoName
  /\ UNCHANGED <<nn, nextFd, nnDirCap, caches, dir, listed>>

-----------------------------------------------------------------------------
(***************************************************************************)
(* CrailDirectory::Enumerate: records = capacity / 512 reads of 512 bytes *)
(* into one buffer, each decoded and printed if valid.  The result of     *)
(* Read is ignored and Clear does not zero the buffer, so a failed read   *)
(* decodes the bytes of the previous record again (the zeroed bytes of a *)
(* fresh buffer for the first).  F is the set of reads that fail.        *)
(***************************************************************************)
RECURSIVE RecordAt(_, _)
RecordAt(i, F) ==
  IF i \notin F THEN dir[i]
  ELSE IF i = 0 THEN ZeroRec
  ELSE RecordAt(i - 1, F)

ListedAll(rec) == TRUE
Listed(rec) == rec.valid # 0

ReadFailures(records) ==
  IF "read" \in FailingCalls
    THEN {F \in SUBSET (0 .. records - 1) :
            Cardinality(F) <= MaxFaults - faults}
    ELSE {{}}

(* The names CrailDirectory::Enumerate prints, reading records 0 ..     *)
(* capacity / 512 - 1 with the reads in F failing.                        *)
ListingUpTo(F, m) ==
  {RecordAt(i, F).name : i \in {j \in 0 .. m - 1 : Listed(RecordAt(j, F))}}
Listing(F) == ListingUpTo(F, nnDirCap)

(* The records whose header is made of name bytes: their length field is *)
(* at least 0x01010101 or negative (a name has no NUL byte), and Update  *)
(* sizes a stack array and a copy from it, which kills the process.      *)
SpillsAt(F) == {i \in 0 .. nnDirCap - 1 : RecordAt(i, F) = SpillRec}

(* PocketDispatcher::Enumerate of P: Lookup (which seeds P's first       *)
(* block), the check that P is a directory, then Enumerate.              *)
Enumerate ==
  /\ \/ /\ NnCallFails
        /\ ret' = -1
        /\ UNCHANGED <<caches, listed>>
     \/ /\ caches' = AddBlock(caches, PFd, 0)
        /\ \E F \in ReadFailures(nnDirCap) :
             /\ faults' = faults + Cardinality(F)
             /\ IF SpillsAt(F) = {}
                  THEN listed' = Listing(F) /\ ret' = 0
                  ELSE LET c == CHOOSE i \in SpillsAt(F) :
                                  \A j \in SpillsAt(F) : i <= j
                       IN  listed' = ListingUpTo(F, c) /\ ret' = Crash
  /\ lastCall' = "enumerate" /\ lastName' = NoName
  /\ UNCHANGED <<nn, nextFd, nnDirCap, dir>>

-----------------------------------------------------------------------------
(* P exists with fd 0, no children, and a zeroed record area.            *)
Init ==
  /\ nn = [n \in Names |-> Absent]
  /\ nextFd = 1
  /\ nnDirCap = 0
  /\ caches = [fd \in Fds |-> {}]
  /\ dir = [k \in Slots |-> ZeroRec]
  /\ faults = 0
  /\ listed = {}
  /\ lastCall = "none"
  /\ lastName = NoName
  /\ ret = 0
  /\ bench = NoBench

(* The PocketDispatcher calls a program makes, one at a time: pypocket   *)
(* exposes MakeDir, Lookup, Enumerate, DeleteFile, DeleteDir, PutBuffer   *)
(* and CountFiles (PutFile and the Get calls are modelled elsewhere or    *)
(* not at all).                                                            *)
DispatcherCall ==
  \/ \E n \in Names : MakeDir(n) \/ LookupNode(n) \/ Delete(n)
  \/ \E n \in Names : GetBuffer(n) \/ GetFile(n)
  \/ \E n \in Names, e \in BOOLEAN : PutBuffer(n, e)
  \/ Enumerate
  \/ CountFiles

(* iobench's read calls, one per run as its main makes them.             *)
IobenchCall ==
  \E n \in Names : IobenchGetFile(n) \/ ReadFile(n) \/ GetKey(n) \/ Read(n)

(* One dispatcher call per step, as pshell's main makes one per run and  *)
(* a pypocket program makes them in turn; or one put of a PutBenchmark   *)
(* run, which no other call interleaves.                                  *)
Next ==
  \/ bench = NoBench /\ DispatcherCall /\ UNCHANGED bench
  \/ bench = NoBench /\ IobenchCall /\ UNCHANGED bench
  \/ bench = NoBench /\ BenchStart
  \/ BenchCall

Spec == Init /\ [][Next]_vars

-----------------------------------------------------------------------------
TypeOK ==
  /\ nn \in [Names -> Entries \cup {Absent}]
  /\ nextFd \in 1 .. MaxFds + 1
  /\ nnDirCap \in 0 .. MaxSlots
  /\ caches \in [Fds -> SUBSET Slots]
  /\ dir \in [Slots -> Recs]
  /\ faults \in 0 .. MaxFaults
  /\ listed \subseteq Names \cup {Corrupt}
  /\ lastCall \in {"none", "create", "lookup", "delete", "enumerate", "count",
                  "get", "lookups", "putbench", "getbench"}
  /\ lastName \in Names \cup {NoName}
  /\ ret \in {Crash} \cup (-1 .. MaxFds)
  /\ bench \in [op : {"put", "get"}, next : 0 .. BenchLoop, e : BOOLEAN]

(* After an Enumerate that returned 0, the names it printed are exactly  *)
(* the enumerable children the namenode holds: every Create wrote a valid *)
(* record and every Remove a tombstone over it.                           *)
ListingMatches ==
  lastCall = "enumerate" /\ ret = 0 => listed = LiveEnumerable

(* A create, lookup or delete that returned 0 has taken effect at the    *)
(* namenode, and a get that returned 0 read a file: CrailStore checks   *)
(* the answer's Get() and error() first, the dispatcher the node type.  *)
SuccessMeansApplied ==
  ret = 0 =>
    CASE lastCall = "create" -> nn[lastName] # Absent
      [] lastCall = "lookup" -> nn[lastName] # Absent
      [] lastCall = "delete" -> nn[lastName] = Absent
      [] lastCall = "get" -> IsFile(lastName)
      [] OTHER -> TRUE

(* When a PutBenchmark run returns 0, every one of its names is a node at *)
(* the namenode, and when a GetBenchmark run returns 0, every one is a   *)
(* file: the loop stops at the first call that fails, so a run whose     *)
(* last call succeeded had every earlier call succeed as well.           *)
BenchmarkReachedAll ==
  ret = 0 =>
    /\ lastCall = "putbench" =>
         \A i \in 1 .. BenchLoop : nn[BenchNames[i]] # Absent
    /\ lastCall = "getbench" =>
         \A i \in 1 .. BenchLoop : IsFile(BenchNames[i])
=============================================================================
