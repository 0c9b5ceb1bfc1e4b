------------------------------ MODULE ConnPool ------------------------------
(***************************************************************************)
(* The pool of WebSocket and SSE connections (internal/pool/pool.go) and   *)
(* the requesters that share it (websocketRequester.Do, sseRequester.Do):  *)
(* take a client or make one, connect it, exchange messages, replace a     *)
(* pooled client that turns out stale, and give it back or close it.       *)
(*                                                                         *)
(* A message stands for what a client counts: messages sent, or events     *)
(* received.  A key is a target with its headers.  The pool's size is      *)
(* cfg.Concurrency, the number of workers.                                 *)
(***************************************************************************)
EXTENDS Integers, FiniteSets, SequencesExt

CONSTANTS Workers,   \* the worker goroutines
          Keys,      \* the results of MakePoolKey
          Clients,   \* client objects; one that nobody refers to is used again
          NoKey, NoClient,
          MaxSent    \* bound: messages counted by one client

ASSUME PoolAssumption ==
    /\ IsFiniteSet(Workers) /\ NoKey \notin Keys /\ NoClient \notin Clients
    /\ MaxSent \in Nat

VARIABLES
    pools,  \* each key's channel of idle clients
    open,   \* the clients that have a connection
    sent,   \* each client's message counter (clientmetrics)
    pc,     \* each worker: "idle", "connect", "first", "more", "stale",
            \* "done", "failed"
    job     \* the local variables of each worker's Do

vars == <<pools, open, sent, pc, job>>

Size == Cardinality(Workers)

\* client came from the pool if reused; start is its counter when the operation
\* began (startMetrics).  History: mine counts the messages of this request, on
\* any client, and replaced says that it has changed its client.
NewJob(k, c, reused, start) ==
    [key |-> k, client |-> c, reused |-> reused, start |-> start,
     mine |-> 0, replaced |-> FALSE]

NoJob == NewJob(NoKey, NoClient, FALSE, 0)

Pooled == UNION {ToSet(pools[k]) : k \in Keys}
Held   == {job[w].client : w \in Workers}
Free   == Clients \ (Pooled \cup Held)

Init ==
    /\ pools = [k \in Keys |-> <<>>]
    /\ open = {}
    /\ sent = [c \in Clients |-> 0]
    /\ pc = [w \in Workers |-> "idle"]
    /\ job = [w \in Workers |-> NoJob]

Go(w, to)  == pc' = [pc EXCEPT ![w] = to]
Client(w)  == job[w].client

-----------------------------------------------------------------------------
(* ConnectionPool                                                          *)

\* Bug: Get looks at the head of the channel without removing it.
MutTake(k) == UNCHANGED pools

Take(k) == pools' = [pools EXCEPT ![k] = Tail(@)]

\* Put: back into the channel, or closed when the channel is full.
Put(k, c) ==
    IF Len(pools[k]) < Size
    THEN pools' = [pools EXCEPT ![k] = Append(@, c)] /\ UNCHANGED open
    ELSE open' = open \ {c} /\ UNCHANGED pools

-----------------------------------------------------------------------------
(* Do                                                                      *)

\* Bug: the client's counter is not read before the operation.
MutGetReused(w, k) ==
    /\ pc[w] = "idle"
    /\ pools[k] # <<>>
    /\ job' = [job EXCEPT ![w] = NewJob(k, Head(pools[k]), TRUE, 0)]
    /\ Take(k)
    /\ Go(w, "first")
    /\ UNCHANGED <<open, sent>>

\* Get takes an idle client: it is taken to be connected.
GetReused(w, k) ==
    /\ pc[w] = "idle"
    /\ pools[k] # <<>>
    /\ LET c == Head(pools[k])
       IN  job' = [job EXCEPT ![w] = NewJob(k, c, TRUE, sent[c])]
    /\ Take(k)
    /\ Go(w, "first")
    /\ UNCHANGED <<open, sent>>

\* Bug: Get makes a client although one is idle.
MutGetNew(w, k) ==
    /\ pc[w] = "idle"
    /\ \E c \in Free : job' = [job EXCEPT ![w] = NewJob(k, c, FALSE, 0)]
    /\ Go(w, "connect")
    /\ UNCHANGED <<pools, open, sent>>

GetNew(w, k) ==
    /\ pc[w] = "idle"
    /\ pools[k] = <<>>
    /\ \E c \in Free : job' = [job EXCEPT ![w] = NewJob(k, c, FALSE, 0)]
    /\ Go(w, "connect")
    /\ UNCHANGED <<pools, open, sent>>

\* A new client's counter is 0, and so is the start that is read after Connect.
Connect(w) ==
    /\ pc[w] = "connect"
    /\ open' = open \cup {Client(w)}
    /\ Go(w, "first")
    /\ UNCHANGED <<pools, sent, job>>

ConnectFails(w) ==
    /\ pc[w] = "connect"
    /\ job' = [job EXCEPT ![w] = NoJob]
    /\ Go(w, "idle")
    /\ UNCHANGED <<pools, open, sent>>

\* A message is sent, or an event received.
Exchange(w) ==
    /\ pc[w] \in {"first", "more"}
    /\ sent[Client(w)] < MaxSent
    /\ sent' = [sent EXCEPT ![Client(w)] = @ + 1]
    /\ job' = [job EXCEPT ![w].mine = @ + 1]
    /\ Go(w, "more")
    /\ UNCHANGED <<pools, open>>

\* Bug: the stale client is given up without being closed.
MutExchangeStale(w) ==
    /\ pc[w] = "first"
    /\ job[w].reused
    /\ Go(w, "stale")
    /\ UNCHANGED <<pools, open, sent, job>>

\* The first exchange on a reused client fails: RetryStaleConnection closes it.
ExchangeStale(w) ==
    /\ pc[w] = "first"
    /\ job[w].reused
    /\ open' = open \ {Client(w)}
    /\ Go(w, "stale")
    /\ UNCHANGED <<pools, sent, job>>

\* The rest of request j, on client c.
Continued(j, c) == [key |-> j.key, client |-> c, reused |-> FALSE, start |-> j.start,
                    mine |-> j.mine, replaced |-> TRUE]

\* RetryStaleConnection makes a new client and connects it; Do goes on with it
\* and keeps the counter it read from the old one, which is dropped.
Reconnect(w) ==
    /\ pc[w] = "stale"
    /\ \E c \in Free :
        /\ open' = open \cup {c}
        /\ job' = [job EXCEPT ![w] = Continued(@, c)]
    /\ sent' = [sent EXCEPT ![Client(w)] = 0]
    /\ Go(w, "first")
    /\ UNCHANGED pools

ReconnectFails(w) ==
    /\ pc[w] = "stale"
    /\ Go(w, "failed")
    /\ UNCHANGED <<pools, open, sent, job>>

\* Any other failure of an exchange, or the context done before it.
ExchangeFails(w) ==
    /\ pc[w] \in {"first", "more"}
    /\ Go(w, "failed")
    /\ UNCHANGED <<pools, open, sent, job>>

\* All messages sent, or enough events read, or the read timeout reached.
ExchangesEnd(w) ==
    /\ pc[w] \in {"first", "more"}
    /\ Go(w, "done")
    /\ UNCHANGED <<pools, open, sent, job>>

\* The number of messages the request is recorded with.
Delta(w) == sent[Client(w)] - job[w].start

GiveBack(w) ==
    /\ pc[w] = "done"
    /\ Put(job[w].key, Client(w))
    /\ job' = [job EXCEPT ![w] = NoJob]
    /\ Go(w, "idle")
    /\ UNCHANGED sent

\* The client is closed and dropped.
CloseFailed(w) ==
    /\ pc[w] = "failed"
    /\ open' = open \ {Client(w)}
    /\ sent' = [sent EXCEPT ![Client(w)] = 0]
    /\ job' = [job EXCEPT ![w] = NoJob]
    /\ Go(w, "idle")
    /\ UNCHANGED pools

Next ==
    \E w \in Workers :
        \/ \E k \in Keys : GetReused(w, k) \/ GetNew(w, k)
        \/ Connect(w)
        \/ ConnectFails(w)
        \/ Exchange(w)
        \/ ExchangeStale(w)
        \/ Reconnect(w)
        \/ ReconnectFails(w)
        \/ ExchangeFails(w)
        \/ ExchangesEnd(w)
        \/ GiveBack(w)
        \/ CloseFailed(w)

Spec == Init /\ [][Next]_vars

-----------------------------------------------------------------------------
(* Properties.                                                             *)

TypeOK ==
    /\ pools \in [Keys -> Seq(Clients)]
    /\ open \subseteq Clients
    /\ sent \in [Clients -> 0 .. MaxSent]
    /\ pc \in [Workers -> {"idle", "connect", "first", "more", "stale", "done", "failed"}]
    /\ job \in [Workers -> [key : Keys \cup {NoKey}, client : Clients \cup {NoClient},
                            reused : BOOLEAN, start : 0 .. MaxSent, mine : Nat,
                            replaced : BOOLEAN]]

\* A client belongs to one worker or sits once in one channel (pool.go:42-75):
\* two workers never write to the same connection.
Exclusive ==
    /\ \A v, w \in Workers : Client(v) = Client(w) /\ Client(v) # NoClient => v = w
    /\ \A k \in Keys : IsInjective(pools[k]) /\ ToSet(pools[k]) \cap Held = {}
    /\ \A j, k \in Keys : j # k => ToSet(pools[j]) \cap ToSet(pools[k]) = {}

\* An open connection can always still be reached: a request holds it or it is
\* idle in the pool; and what is idle in the pool is connected (pool.go:58-90).
NoLeak ==
    /\ open \subseteq Pooled \cup Held
    /\ Pooled \subseteq open

Holders(k) == {w \in Workers : job[w].key = k}

\* With as many places as workers a channel never overflows, so Put never closes
\* a good connection (pool.go:67-74): what is idle and what is out under a key
\* fit together.
AlwaysRoom == \A k \in Keys : Len(pools[k]) + Cardinality(Holders(k)) <= Size

\* The messages a request reports are the ones it sent, although its client also
\* served others before (websocket_requester.go:104-202): as long as the client
\* is not replaced on the way.
DeltaExact ==
    \A w \in Workers :
        pc[w] \in {"done", "failed"} /\ ~job[w].replaced => Delta(w) = job[w].mine

\* "messages_sent: Total messages sent" (docs/USAGE.md:735), by every request.
DeltaAlwaysExact ==
    \A w \in Workers : pc[w] \in {"done", "failed"} => Delta(w) = job[w].mine
=============================================================================
