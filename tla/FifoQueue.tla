----------------------------- MODULE FifoQueue -----------------------------
(***************************************************************************)
(* What one shard of the FIFO policy promises its clients, with every      *)
(* request taking effect at once.  The cache is a queue of distinct keys,  *)
(* oldest first.  A key joins at the back only through an Insert of that   *)
(* key; eviction, which only an Insert does, takes the oldest key; an      *)
(* Erase takes out only its own key.  Lookups change nothing.              *)
(*                                                                         *)
(* A request runs from Call to Return; the cache may change in between by  *)
(* that request's effect or by the effects of other clients' requests.    *)
(***************************************************************************)
EXTENDS Sequences, SequencesExt

CONSTANTS
  Threads,    \* client threads
  Keys,       \* keys the clients use
  Requests    \* the request kinds: "insert", "lookup", "erase"

VARIABLES
  queue,      \* the cached keys, oldest first
  req         \* the request each client is running, or Idle

vars == <<queue, req>>

Request == [op : Requests, key : Keys]
Idle == [op |-> "none", key |-> CHOOSE k \in Keys : TRUE]

Init ==
  /\ queue \in Seq(Keys) /\ IsInjective(queue)
  /\ req = [t \in Threads |-> Idle]

Call(t) ==
  /\ req[t] = Idle
  /\ \E r \in Request : req' = [req EXCEPT ![t] = r]
  /\ UNCHANGED queue

\* The inserted key joins the queue at the back.
Admit(t) ==
  /\ req[t].op = "insert"
  /\ ~\E i \in 1..Len(queue) : queue[i] = req[t].key
  /\ queue' = Append(queue, req[t].key)
  /\ UNCHANGED req

\* An insert makes room by dropping the oldest key.
EvictOldest(t) ==
  /\ req[t].op = "insert"
  /\ queue /= <<>>
  /\ queue' = Tail(queue)
  /\ UNCHANGED req

\* An erase takes its own key out, wherever it is.
EraseKey(t) ==
  /\ req[t].op = "erase"
  /\ \E i \in 1..Len(queue) : queue[i] = req[t].key
  /\ queue' = SelectSeq(queue, LAMBDA k : k /= req[t].key)
  /\ UNCHANGED req

Return(t) ==
  /\ req[t] /= Idle
  /\ req' = [req EXCEPT ![t] = Idle]
  /\ UNCHANGED queue

Next ==
  \E t \in Threads : Call(t) \/ Admit(t) \/ EvictOldest(t) \/ EraseKey(t) \/ Return(t)

Spec == Init /\ [][Next]_vars

=============================================================================
