------------------------------ MODULE RpcCall ------------------------------
(***************************************************************************)
(* What one RPC connection promises its callers (spec section 4.2): every *)
(* request that is issued either fails or completes with the answer the   *)
(* server produced for THAT request, whatever order the server answers in.*)
(* A call is idle before it is issued, pending while it waits, and ends   *)
(* ok or failed; answer[r] is whose answer the response object of r      *)
(* holds (NoAnswer until one is decoded into it).                         *)
(***************************************************************************)
EXTENDS Naturals

CONSTANT Ids          \* identities of the calls made over the connection

VARIABLES
  calls,              \* calls[r]: "idle", "pending", "ok" or "failed"
  served,             \* the calls the server has produced an answer for
  answer              \* answer[r]: the call whose answer r's object holds

vars == <<calls, served, answer>>

NoAnswer == 0
ASSUME NoAnswer \notin Ids

CallStates == {"idle", "pending", "ok", "failed"}

Init ==
  /\ calls = [r \in Ids |-> "idle"]
  /\ served = {}
  /\ answer = [r \in Ids |-> NoAnswer]

\* A call is issued; the send may already fail.
Issue(r) ==
  /\ calls[r] = "idle"
  /\ calls' \in {[calls EXCEPT ![r] = s] : s \in {"pending", "failed"}}
  /\ UNCHANGED <<served, answer>>

\* The server answers a pending call, at most once.
Serve(r) ==
  /\ calls[r] = "pending"
  /\ r \notin served
  /\ served' = served \cup {r}
  /\ UNCHANGED <<calls, answer>>

\* A pending call completes only with its own answer, which its response
\* object then holds; no other call's object changes.
Complete(r) ==
  /\ calls[r] = "pending"
  /\ r \in served
  /\ calls' = [calls EXCEPT ![r] = "ok"]
  /\ answer' = [answer EXCEPT ![r] = r]
  /\ UNCHANGED served

Fail(r) ==
  /\ calls[r] = "pending"
  /\ calls' = [calls EXCEPT ![r] = "failed"]
  /\ UNCHANGED <<served, answer>>

Next == \E r \in Ids : Issue(r) \/ Serve(r) \/ Complete(r) \/ Fail(r)

Spec == Init /\ [][Next]_vars

TypeOK ==
  /\ calls \in [Ids -> CallStates]
  /\ served \subseteq Ids
  /\ answer \in [Ids -> Ids \cup {NoAnswer}]
=============================================================================
