----------------------------- MODULE RpcClient -----------------------------
(***************************************************************************)
(* The NaRPC transport of one connection (RpcClient, narpc/rpc_client.cc),*)
(* as used by the namenode client and the NaRPC storage client.           *)
(*                                                                         *)
(* The client numbers each request with a ticket taken from counter_      *)
(* modulo kMaxTicket (skipping 0), registers the response object in the   *)
(* slot responseMap_[ticket], and sends the frame.  Get() on a response   *)
(* runs PollResponse once: it reads the next frame header on the socket,  *)
(* takes the response object registered under the frame's ticket, clears *)
(* the slot and decodes the body into that object.                        *)
(*                                                                         *)
(* The server side is the environment: it answers the requests it has    *)
(* received, in order when ServerFifo and in any order otherwise; it may  *)
(* reset the connection (every later send and receive fails) and, when    *)
(* PeerMayClose, close it (recv then returns 0, end of stream).  Requests *)
(* are identified by the counter_ value that numbered them; the identity  *)
(* also stands for the content of the server's answer, so that a response *)
(* object can be checked to hold the answer to its own request.           *)
(***************************************************************************)
EXTENDS Integers, Sequences, FiniteSets

CONSTANTS
  kMaxTicket,    \* RpcClient::kMaxTicket, the number of ticket slots (8)
  MaxRequests,   \* bound on the number of requests issued on the connection
  Window,        \* requests a caller issues before it calls Get on them
  PeerMayClose,  \* whether the server may close the connection
  ServerFifo     \* whether the server answers a connection's requests in order

ASSUME kMaxTicket \in Nat \ {0, 1}
ASSUME MaxRequests \in Nat \ {0}
ASSUME Window \in 1 .. kMaxTicket
ASSUME PeerMayClose \in BOOLEAN /\ ServerFifo \in BOOLEAN

Ids == 1 .. MaxRequests
None == 0                         \* a nullptr slot / an unfilled response

VARIABLES
  counter,       \* counter_
  responseMap,   \* responseMap_: ticket slot -> registered response object
  atServer,      \* frames the server has received and not yet answered
  wire,          \* response frames on the socket, in arrival order
  sock,          \* "open", "broken" (reset/error) or "eof" (peer closed)
  status,        \* the caller's view of each request
  filled,        \* filled[r]: whose answer response object r decoded
  crashed,       \* PollResponse dereferenced a nullptr slot
  served         \* history: requests the server has answered

vars == <<counter, responseMap, atServer, wire, sock, status, filled,
          crashed, served>>

Tickets == 0 .. kMaxTicket - 1
Frames == [ticket : Tickets, req : Ids]

(* IssueRequest: ticket = counter_++ % kMaxTicket; if (ticket == 0) ++.  *)
TicketOfWide(c) == IF c % (kMaxTicket + 1) = 0 THEN 1 ELSE c % (kMaxTicket + 1)
TicketOf(c) == IF c % kMaxTicket = 0 THEN 1 ELSE c % kMaxTicket

(* IssueRequest: responseMap_[ticket] = response, after the zero skip.   *)
RegisterBeforeSkip(map, c) == [map EXCEPT ![c % kMaxTicket] = c]
Register(map, c) == [map EXCEPT ![TicketOf(c)] = c]

Awaiting == {r \in Ids : status[r] = "issued"}

(* A pipelining caller reaps its responses in the order it issued them,  *)
(* the order their headers arrive from a server that answers in order.   *)
Oldest(r) == \A q \in Awaiting : r <= q

Init ==
  /\ counter = 1
  /\ responseMap = [t \in Tickets |-> None]
  /\ atServer = {}
  /\ wire = << >>
  /\ sock = "open"
  /\ status = [r \in Ids |-> "idle"]
  /\ filled = [r \in Ids |-> None]
  /\ crashed = FALSE
  /\ served = {}

(***************************************************************************)
(* IssueRequest: the slot is registered before the frame is sent.  On a   *)
(* broken socket send() fails and the caller gets nullptr (the slot stays *)
(* registered); after the peer closed, send() still succeeds but the      *)
(* frame is never answered.                                               *)
(***************************************************************************)
(* RpcClient::SendBytes: send() until every byte is out, returning -1 at *)
(* the first send() that fails.  It fails on a reset connection; to a    *)
(* peer that has only closed, the local stack still accepts the bytes.   *)
SendBytes == IF sock = "broken" THEN -1 ELSE 0

IssueRequest ==
  LET r == counter
      t == TicketOf(counter)
  IN
  /\ ~crashed
  /\ counter <= MaxRequests
  /\ Cardinality(Awaiting) < Window
  /\ counter' = counter + 1
  /\ responseMap' = Register(responseMap, r)
  /\ status' = [status EXCEPT ![r] = IF SendBytes < 0 THEN "failed"
                                                      ELSE "issued"]
  /\ atServer' = IF sock = "open"
                   THEN atServer \cup {[ticket |-> t, req |-> r]}
                   ELSE atServer
  /\ UNCHANGED <<wire, sock, filled, crashed, served>>

(***************************************************************************)
(* Get() of response r: one PollResponse.                                 *)
(***************************************************************************)
\* The header receive fails on a broken socket: -1.
GetRetriesAllErrors(r) == FALSE
GetIgnoresRecvError(r) ==
  /\ ~crashed
  /\ status[r] = "issued" /\ Oldest(r)
  /\ sock = "broken"
  /\ status' = [status EXCEPT ![r] = "ok"]
  /\ UNCHANGED <<counter, responseMap, atServer, wire, sock, filled,
                 crashed, served>>
GetFails(r) ==
  /\ ~crashed
  /\ status[r] = "issued" /\ Oldest(r)
  /\ sock = "broken"
  /\ status' = [status EXCEPT ![r] = "failed"]
  /\ UNCHANGED <<counter, responseMap, atServer, wire, sock, filled,
                 crashed, served>>

\* The slot cleared before the response object is taken from it.
PollResponseClearFirst(r) ==
  /\ ~crashed
  /\ status[r] = "issued" /\ Oldest(r)
  /\ wire # << >>
  /\ crashed' = TRUE
  /\ UNCHANGED <<counter, responseMap, atServer, wire, sock, status, filled,
                 served>>

\* The header is read; the slot of its ticket is taken and cleared, and
\* the body decoded into that object, which need not be r's.  A nullptr
\* slot is dereferenced (response->Payload()).  The body receive may fail
\* after the header, which leaves the slot cleared and the object unfilled.
PollResponse(r) ==
  LET f   == Head(wire)
      obj == responseMap[f.ticket]
  IN
  /\ ~crashed
  /\ status[r] = "issued" /\ Oldest(r)
  /\ wire # << >>
  /\ \/ /\ obj = None
        /\ crashed' = TRUE
        /\ UNCHANGED <<responseMap, wire, sock, status, filled, atServer>>
     \/ /\ obj # None
        /\ responseMap' = [responseMap EXCEPT ![f.ticket] = None]
        /\ \/ /\ filled' = [filled EXCEPT ![obj] = f.req]
              /\ wire' = Tail(wire)
              /\ status' = [status EXCEPT ![r] = "ok"]
              /\ UNCHANGED <<sock, atServer>>
           \/ /\ sock = "open"
              /\ sock' = "broken"
              /\ wire' = << >>
              /\ atServer' = {}
              /\ status' = [status EXCEPT ![r] = "failed"]
              /\ UNCHANGED filled
        /\ UNCHANGED crashed
  /\ UNCHANGED <<counter, served>>

(***************************************************************************)
(* The server and the network.                                            *)
(***************************************************************************)
ServerReply ==
  /\ sock = "open"
  /\ \E f \in atServer :
       /\ ServerFifo => \A g \in atServer : f.req <= g.req
       /\ atServer' = atServer \ {f}
       /\ wire' = Append(wire, f)
       /\ served' = served \cup {f.req}
  /\ UNCHANGED <<counter, responseMap, sock, status, filled, crashed>>

ConnectionReset ==
  /\ sock = "open"
  /\ sock' = "broken"
  /\ atServer' = {}
  /\ wire' = << >>
  /\ UNCHANGED <<counter, responseMap, status, filled, crashed, served>>

ServerClose ==
  /\ PeerMayClose
  /\ sock = "open"
  /\ sock' = "eof"
  /\ atServer' = {}
  /\ UNCHANGED <<counter, responseMap, wire, status, filled, crashed, served>>

Next ==
  \/ IssueRequest
  \/ \E r \in Ids : GetFails(r) \/ PollResponse(r)
  \/ ServerReply
  \/ ConnectionReset
  \/ ServerClose

(* The caller calls Get right after issuing (every caller in the code    *)
(* does), and the server answers what it receives.                       *)
Fairness ==
  /\ WF_vars(\E r \in Ids : GetFails(r) \/ PollResponse(r))
  /\ WF_vars(ServerReply)

Spec == Init /\ [][Next]_vars /\ Fairness

-----------------------------------------------------------------------------
TypeOK ==
  /\ counter \in 1 .. MaxRequests + 1
  /\ responseMap \in [Tickets -> Ids \cup {None}]
  /\ atServer \subseteq Frames
  /\ wire \in Seq(Frames)
  /\ sock \in {"open", "broken", "eof"}
  /\ status \in [Ids -> {"idle", "issued", "ok", "failed"}]
  /\ filled \in [Ids -> Ids \cup {None}]
  /\ crashed \in BOOLEAN
  /\ served \subseteq Ids

(* No frame header ever names a ticket whose slot is empty: PollResponse *)
(* never dereferences a nullptr response object.                          *)
NoNullDeref == ~crashed

(* Every frame the server has still to answer, or whose answer is on the *)
(* way back, finds its own response object in its ticket's slot: no later *)
(* IssueRequest overwrote the slot (spec: up to 8 requests in flight).    *)
InFlight == atServer \cup {wire[i] : i \in 1 .. Len(wire)}

SlotsHeld == \A f \in InFlight : responseMap[f.ticket] = f.req

(* The transport implements the abstract call contract of RpcCall: a Get *)
(* returns success only once the server has answered that very request,  *)
(* and the body it decodes is that answer, into that request's own       *)
(* response object (filled is the abstract answer).                      *)
CallOf(r) ==
  CASE status[r] = "idle"   -> "idle"
    [] status[r] = "issued" -> "pending"
    [] status[r] = "ok"     -> "ok"
    [] status[r] = "failed" -> "failed"

Abs == INSTANCE RpcCall WITH calls <- [r \in Ids |-> CallOf(r)],
                             served <- served,
                             answer <- filled

RefinesRpcCall == Abs!Spec

(* Every request that was sent is eventually returned from Get, with an  *)
(* answer or a failure: the receive loop never spins for ever.           *)
IssuedReturns ==
  \A r \in Ids : status[r] = "issued" ~> status[r] \in {"ok", "failed"}
=============================================================================
