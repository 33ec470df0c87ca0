----------------------------- MODULE RpcService ----------------------------
(***************************************************************************)
(* What the SIF RPC services of the IOP promise a client on the EE: it has *)
(* one request at a time, each request gets one reply that suits it, and   *)
(* the client goes on only once it has the reply.                          *)
(***************************************************************************)
CONSTANTS
  Client, Request, Reply,
  Suits(_, _),     \* Suits(q, r): r is a reply to q
  None             \* no request, no reply

VARIABLE call

Idle == [request |-> None, reply |-> None]

Init == call = [c \in Client |-> Idle]

Ask(c, q) ==
  /\ call[c] = Idle
  /\ call' = [call EXCEPT ![c].request = q]

Answer(c, r) ==
  /\ call[c].request # None
  /\ call[c].reply = None
  /\ Suits(call[c].request, r)
  /\ call' = [call EXCEPT ![c].reply = r]

Resume(c) ==
  /\ call[c].reply # None
  /\ call' = [call EXCEPT ![c] = Idle]

Next ==
  \E c \in Client :
    \/ \E q \in Request : Ask(c, q)
    \/ \E r \in Reply : Answer(c, r)
    \/ Resume(c)

(* Every request is answered. *)
Fairness == \A c \in Client : WF_call(\E r \in Reply : Answer(c, r))

Spec == Init /\ [][Next]_call /\ Fairness
=============================================================================
