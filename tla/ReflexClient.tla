---------------------------- MODULE ReflexClient ----------------------------
(***************************************************************************)
(* The block-protocol client of one connection (ReflexClient,             *)
(* reflex/reflex_client.cc).  IssueOperation rounds the payload up to     *)
(* whole 512-byte sectors, refuses a payload whose rounded size does not   *)
(* fit in the buffer after its position, numbers the operation with       *)
(* counter_++, sends the little-endian header and, for a put, the rounded *)
(* payload, and only then enters the future in responseMap.  PollResponse *)
(* reads a response header, takes responseMap[ticket] (operator[], so an  *)
(* unknown ticket yields a null future) and erases it, and for a get      *)
(* receives count sectors into that future's buffer: two receives, with   *)
(* a reset possible between them.                                         *)
(*                                                                         *)
(* ReflexFuture::Get is not in the repository; as for the NaRPC           *)
(* responses it is taken to run PollResponse once.  The caller issues up  *)
(* to Window operations and calls Get on them in the order it issued      *)
(* them.  The server (ReFlex) is the environment: it serves the frames of *)
(* the connection in order, on a disk of sectors, and may reset the       *)
(* connection, also in the middle of a get's response.  The socket calls  *)
(* after a reset behave as Linux's do: bytes already received stay        *)
(* readable; the first send() or recv() that finds nothing to read       *)
(* reports the reset (-1) and consumes it; after that recv() returns 0,  *)
(* on which RecvBytes loops for ever, and send(), called without         *)
(* MSG_NOSIGNAL, raises SIGPIPE, which terminates the process.  A close  *)
(* by the server is not modelled separately: it too makes recv() return  *)
(* 0.                                                                      *)
(*                                                                         *)
(* A sector's content is the put that wrote it, as <<value, k>> for the   *)
(* k-th sector of the payload, or Zero.                                    *)
(***************************************************************************)
EXTENDS Integers, Sequences, FiniteSets, TLC

CONSTANTS
  Lbas,          \* sector addresses the caller uses
  Values,        \* payload contents the caller writes
  Payloads,      \* payload buffers: [size, limit], position 0
  Window,        \* operations issued before Get is called on them
  MaxOps,        \* bound on the operations issued on the connection
  MayReset       \* whether the connection may be reset (sends then fail)

ASSUME Window \in Nat \ {0} /\ MaxOps \in Nat \ {0}
ASSUME MayReset \in BOOLEAN

kReflexBlockSize == 512
kCmdGet == 0
kCmdPut == 1
Zero == <<"zero", 0>>

(* Sectors an operation can reach: from an lba, as many as the largest    *)
(* buffer holds, rounded up.                                              *)
MaxCount == LET sizes == {p.size : p \in Payloads}
            IN  CHOOSE n \in 0 .. 8 :
                  \A s \in sizes : s <= n * 512
Disk == {l + k : l \in Lbas, k \in 0 .. MaxCount}

VARIABLES
  counter,       \* counter_
  responseMap,   \* responseMap: the tickets with a registered future
  futures,       \* the futures IssueOperation returned, by ticket
  queue,         \* the caller's futures not yet Get, in issue order
  up,            \* frames the server has received and not yet served
  down,          \* responses on the socket, in arrival order
  disk,          \* the server's sectors
  sock,          \* "open", "reset" (reset not yet reported) or "closed"
  pending,       \* the get response whose header PollResponse has read
  result,        \* result[t]: what Get on future t returned
  issued,        \* IssueOperation calls made
  crashed,       \* PollResponse dereferenced a null future
  killed         \* a send() raised SIGPIPE

vars == <<counter, responseMap, futures, queue, up, down, disk, sock,
          pending, result, issued, crashed, killed>>

NoPending == [ticket |-> 0, type |-> kCmdGet, data |-> << >>, whole |-> TRUE]

(* IssueOperation: count = remaining / 512, plus one for a partial sector. *)
CountNoRoundUp(remaining) == remaining \div kReflexBlockSize
CountOf(remaining) ==
  remaining \div kReflexBlockSize
    + (IF remaining % kReflexBlockSize # 0 THEN 1 ELSE 0)

(* The guard on the rounded size against size() - position().            *)
Fits(p, count) == count * kReflexBlockSize <= p.size

(* responseMap.insert({ticket, future}), after both sends succeeded.     *)
RegisteredBeforeSend(map, t, sent) == map \cup {t}
RegisteredNextTicket(map, t, sent) == IF sent THEN map \cup {t + 1} ELSE map
Registered(map, t, sent) == IF sent THEN map \cup {t} ELSE map

(* ReflexClient::SendBytes: send() until every byte is out, returning -1 *)
(* at the first send() that fails, as <<result, socket after>>: on an    *)
(* open connection it succeeds or meets a reset during the call, which   *)
(* it reports; a pending reset is reported.  (A closed one: SIGPIPE.)    *)
SendBytes ==
  CASE sock = "open"  -> {<<0, "open">>} \cup
                         (IF MayReset THEN {<<-1, "closed">>} ELSE {})
    [] sock = "reset" -> {<<-1, "closed">>}

Init ==
  /\ counter = 1
  /\ responseMap = {}
  /\ futures = << >>
  /\ queue = << >>
  /\ up = << >>
  /\ down = << >>
  /\ disk = [s \in Disk |-> Zero]
  /\ sock = "open"
  /\ pending = NoPending
  /\ result = << >>
  /\ issued = 0
  /\ crashed = FALSE
  /\ killed = FALSE

Sectors(f) == {f.lba + k : k \in 0 .. f.count - 1}
Tickets == DOMAIN futures

(***************************************************************************)
(* IssueOperation(type, lba, payload): a payload that does not fit, or a  *)
(* failed send of the header or the payload, returns nullptr.  counter_  *)
(* has already advanced when a send fails.  It is called between Gets,   *)
(* never inside one.                                                      *)
(***************************************************************************)
IssueOperation ==
  /\ ~crashed /\ ~killed
  /\ pending = NoPending
  /\ issued < MaxOps
  /\ Len(queue) < Window
  /\ \E type \in {kCmdGet, kCmdPut}, lba \in Lbas, p \in Payloads,
        v \in Values :
       LET count == CountOf(p.limit)
           f == [type |-> type, lba |-> lba, count |-> count, value |-> v,
                 size |-> p.size, limit |-> p.limit, buf |-> << >>]
           t == counter
       IN
       \/ /\ ~Fits(p, count)
          /\ UNCHANGED <<counter, responseMap, futures, queue, up, sock,
                         killed>>
       \/ /\ Fits(p, count) /\ sock = "closed"          \* SIGPIPE
          /\ counter' = counter + 1
          /\ killed' = TRUE
          /\ UNCHANGED <<responseMap, futures, queue, up, sock>>
       \/ /\ Fits(p, count) /\ sock # "closed"
          /\ counter' = counter + 1
          /\ \E sent \in SendBytes :
               LET res == sent[1] IN
               /\ responseMap' = Registered(responseMap, t, res = 0)
               /\ sock' = sent[2]
               /\ \/ /\ res = 0
                     /\ futures' = futures @@ (t :> f)
                     /\ queue' = Append(queue, t)
                     /\ up' = Append(up, [ticket |-> t] @@ f)
                  \/ /\ res < 0
                     /\ UNCHANGED <<futures, queue, up>>
          /\ UNCHANGED killed
  /\ issued' = issued + 1
  /\ UNCHANGED <<down, disk, pending, result, crashed>>

(***************************************************************************)
(* Get() on the oldest future: one PollResponse.                          *)
(***************************************************************************)
(* PollResponse's result: -1 as soon as a RecvBytes fails, else 0.       *)
PollResultUnchecked(recv) == 0
PollResult(recv) == IF recv < 0 THEN -1 ELSE 0

(* RecvBytes of the header on a connection with nothing left to read: a *)
(* pending reset is reported (-1) and consumed.  On an open connection   *)
(* recv() blocks, and once the reset is consumed it returns 0 and the    *)
(* loop spins: Get then never returns, so neither is a step.             *)
GetFails ==
  /\ ~crashed /\ ~killed
  /\ queue # << >>
  /\ pending = NoPending
  /\ down = << >>
  /\ sock = "reset"
  /\ sock' = "closed"
  /\ result' = result @@ (Head(queue) :> PollResult(-1))
  /\ queue' = Tail(queue)
  /\ UNCHANGED <<counter, responseMap, futures, up, down, disk,
                 pending, issued, crashed, killed>>

(* PollResponse, first RecvBytes: a response header is read (bytes that  *)
(* arrived before a reset are still read), the future under its ticket  *)
(* is taken with operator[] (null for an unknown ticket) and erased.  A  *)
(* put is then complete; a get goes on to its sectors, and a null future *)
(* is dereferenced there.                                                *)
PollHeader ==
  /\ ~crashed /\ ~killed
  /\ queue # << >>
  /\ pending = NoPending
  /\ down # << >>
  /\ LET r == Head(down)
         known == r.ticket \in responseMap
     IN  /\ down' = Tail(down)
         /\ responseMap' = responseMap \ {r.ticket}
         /\ \/ /\ r.type = kCmdPut
               /\ result' = result @@ (Head(queue) :> PollResult(0))
               /\ queue' = Tail(queue)
               /\ UNCHANGED <<pending, crashed>>
            \/ /\ r.type = kCmdGet /\ known
               /\ pending' = r
               /\ UNCHANGED <<result, queue, crashed>>
            \/ /\ r.type = kCmdGet /\ ~known
               /\ crashed' = TRUE
               /\ UNCHANGED <<result, queue, pending>>
  /\ UNCHANGED <<counter, futures, up, disk, sock, issued, killed>>

(* PollResponse, second RecvBytes: count sectors into the buffer of the  *)
(* future taken for the header.  When the server reset the connection    *)
(* after the header, the receive reports the reset: -1, the future       *)
(* already erased and its buffer not filled.                             *)
PollSectors ==
  /\ pending # NoPending
  /\ \/ /\ pending.whole
        /\ futures' = [futures EXCEPT ![pending.ticket].buf = pending.data]
        /\ result' = result @@ (Head(queue) :> PollResult(0))
        /\ UNCHANGED sock
     \/ /\ ~pending.whole /\ sock = "reset"
        /\ sock' = "closed"
        /\ result' = result @@ (Head(queue) :> PollResult(-1))
        /\ UNCHANGED futures
  /\ pending' = NoPending
  /\ queue' = Tail(queue)
  /\ UNCHANGED <<counter, responseMap, up, down, disk, issued, crashed,
                 killed>>

PollResponse == PollHeader \/ PollSectors

(***************************************************************************)
(* The server.                                                            *)
(***************************************************************************)
(* ReFlex serves the oldest frame: a put's sectors reach the disk and it *)
(* answers with a header; a get is answered with a header and the count  *)
(* sectors it read.                                                      *)
ServerServe ==
  /\ sock = "open"
  /\ up # << >>
  /\ LET r == Head(up)
         data == [k \in 1 .. r.count |-> disk[r.lba + k - 1]]
     IN  /\ disk' = IF r.type = kCmdPut
                      THEN [s \in Disk |-> IF s \in Sectors(r)
                                             THEN <<r.value, s - r.lba>>
                                             ELSE disk[s]]
                      ELSE disk
         /\ down' = Append(down, [ticket |-> r.ticket, type |-> r.type,
                                  data |-> IF r.type = kCmdGet THEN data
                                           ELSE << >>,
                                  whole |-> TRUE])
  /\ up' = Tail(up)
  /\ UNCHANGED <<counter, responseMap, futures, queue, sock, pending, result,
                 issued, crashed, killed>>

(* The connection is reset after the server sent a get's header and      *)
(* before its sectors.                                                   *)
ServerResetMidGet ==
  /\ MayReset
  /\ sock = "open"
  /\ up # << >> /\ Head(up).type = kCmdGet
  /\ down' = Append(down, [ticket |-> Head(up).ticket, type |-> kCmdGet,
                           data |-> << >>, whole |-> FALSE])
  /\ up' = Tail(up)
  /\ sock' = "reset"
  /\ UNCHANGED <<counter, responseMap, futures, queue, disk, pending, result,
                 issued, crashed, killed>>

(* The connection is reset; what was already received stays readable,   *)
(* the frames still on their way to the server are lost.                  *)
ConnectionReset ==
  /\ MayReset
  /\ sock = "open"
  /\ sock' = "reset"
  /\ UNCHANGED <<counter, responseMap, futures, queue, up, down, disk,
                 pending, result, issued, crashed, killed>>

Next ==
  \/ IssueOperation \/ GetFails \/ PollHeader \/ PollSectors
  \/ ServerServe \/ ServerResetMidGet \/ ConnectionReset

Fairness ==
  /\ WF_vars(GetFails \/ PollResponse)
  /\ WF_vars(ServerServe)

Spec == Init /\ [][Next]_vars /\ Fairness

-----------------------------------------------------------------------------
TypeOK ==
  /\ counter \in 1 .. MaxOps + 1
  /\ responseMap \subseteq Tickets
  /\ \A t \in Tickets : futures[t].type \in {kCmdGet, kCmdPut}
  /\ DOMAIN result \subseteq Tickets
  /\ \A t \in DOMAIN result : result[t] \in {0, -1}
  /\ sock \in {"open", "reset", "closed"}
  /\ pending = NoPending \/ pending.ticket \in Tickets
  /\ issued \in 0 .. MaxOps
  /\ crashed \in BOOLEAN /\ killed \in BOOLEAN

(* PollResponse never meets a get response whose ticket has no future in *)
(* responseMap (operator[] would yield a null future, dereferenced for   *)
(* the sectors): registration after the sends, the erase on every header *)
(* and a failed send ending the connection keep the map and the        *)
(* responses in flight in step.                                          *)
NoNullFuture == ~crashed

(* The sectors covering a payload of limit bytes (spec: the block count). *)
Covering(limit) ==
  CHOOSE n \in 0 .. 8 : n * 512 >= limit /\ (n = 0 \/ (n - 1) * 512 < limit)

(* A get whose Get returned 0 holds, for each sector its payload covers,  *)
(* what the last put issued before it wrote there (or zeroes): the bytes *)
(* of a put reach the disk whole, partial last sector included, and the  *)
(* data of each get lands in that get's own buffer.                      *)
LatestPut(t, s) ==
  LET ps == {u \in Tickets :
               /\ u < t /\ futures[u].type = kCmdPut
               /\ s - futures[u].lba \in 0 .. Covering(futures[u].limit) - 1}
  IN  IF ps = {} THEN Zero
      ELSE LET u == CHOOSE x \in ps : \A y \in ps : y <= x
           IN  <<futures[u].value, s - futures[u].lba>>

ReadsLatestIssued ==
  \A t \in DOMAIN result :
    result[t] = 0 /\ futures[t].type = kCmdGet =>
      futures[t].buf = [k \in 1 .. Covering(futures[t].limit) |->
                          LatestPut(t, futures[t].lba + k - 1)]

(* The connection implements the call contract of RpcCall (as the NaRPC  *)
(* transport does), the ticket being the call: a ticket counter_ has not *)
(* reached is idle, one whose send failed has failed, a future's Get     *)
(* result ends its call, and the server has answered every frame it has  *)
(* taken off the connection.  A Get returns 0 only once the server has   *)
(* answered that very operation.  What a get's buffer holds is checked  *)
(* by ReadsLatestIssued; here a completed call holds its own answer.     *)
CallOf(t) ==
  CASE t >= counter        -> "idle"
    [] t \notin Tickets    -> "failed"
    [] t \in DOMAIN result -> IF result[t] = 0 THEN "ok" ELSE "failed"
    [] OTHER               -> "pending"

Served == Tickets \ {up[i].ticket : i \in 1 .. Len(up)}

Call == INSTANCE RpcCall WITH Ids <- 1 .. MaxOps,
                              calls <- [t \in 1 .. MaxOps |-> CallOf(t)],
                              served <- Served,
                              answer <- [t \in 1 .. MaxOps |->
                                           IF CallOf(t) = "ok" THEN t ELSE 0]

RefinesRpcCall == Call!Spec
=============================================================================
