--------------------------- MODULE ConnPool_proofs ---------------------------
(***************************************************************************)
(* For any finite set of workers and any keys and clients: a connection    *)
(* has one user, none is lost, the pool never overflows, and a request     *)
(* that keeps its client counts its own messages.                          *)
(***************************************************************************)
EXTENDS ConnPool, FiniteSetTheorems, TLAPS

PCs     == {"idle", "connect", "first", "more", "stale", "done", "failed"}
JobType == [key : Keys \cup {NoKey}, client : Clients \cup {NoClient},
            reused : BOOLEAN, start : 0 .. MaxSent, mine : Nat, replaced : BOOLEAN]
Idle(k) == ToSet(pools[k])

\* Exclusive, one client at a time.
OwnInv ==
    /\ \A v, w \in Workers : Client(v) = Client(w) /\ Client(v) # NoClient => v = w
    /\ \A k \in Keys : IsInjective(pools[k])
    /\ \A k \in Keys, w \in Workers : Client(w) \notin Idle(k)
    /\ \A j, k \in Keys : \A c \in Idle(j) : c \in Idle(k) => j = k

\* NoLeak, one client at a time.
LeakInv ==
    /\ \A c \in open : (\E k \in Keys : c \in Idle(k)) \/ (\E w \in Workers : Client(w) = c)
    /\ \A k \in Keys : Idle(k) \subseteq open

\* What a worker has in hand at each place of Do.
JobInv ==
    \A w \in Workers :
        /\ pc[w] = "idle" => job[w] = NoJob
        /\ pc[w] # "idle" => job[w].key \in Keys /\ Client(w) \in Clients
        /\ pc[w] \in {"first", "more", "done"} => Client(w) \in open
        /\ pc[w] \in {"connect", "stale"} => Client(w) \notin open
        /\ pc[w] = "connect" => job[w].start = 0 /\ job[w].mine = 0 /\ ~job[w].replaced

\* A worker's client has counted what it had counted at the start, and this
\* request's messages; a client that nobody has, nothing.
CountInv ==
    /\ \A w \in Workers :
           pc[w] # "idle" /\ ~job[w].replaced => sent[Client(w)] = job[w].start + job[w].mine
    /\ \A c \in Clients :
           (\A k \in Keys : c \notin Idle(k)) /\ (\A w \in Workers : Client(w) # c) => sent[c] = 0

IInv == TypeOK /\ OwnInv /\ LeakInv /\ JobInv /\ CountInv /\ AlwaysRoom

-----------------------------------------------------------------------------
(* Sequences without repetition                                            *)

\* What receiving from a channel leaves in it.
LEMMA TailFacts ==
    ASSUME NEW S, NEW s \in Seq(S), s # <<>>, IsInjective(s)
    PROVE  /\ Head(s) \in S /\ Head(s) \in ToSet(s)
           /\ Tail(s) \in Seq(S) /\ IsInjective(Tail(s))
           /\ ToSet(Tail(s)) = ToSet(s) \ {Head(s)}
           /\ Len(Tail(s)) = Len(s) - 1
<1>1. Len(s) \in Nat \ {0} /\ DOMAIN s = 1 .. Len(s) /\ Head(s) = s[1] /\ Head(s) \in S
  OBVIOUS
<1>2. /\ Tail(s) \in Seq(S) /\ Len(Tail(s)) = Len(s) - 1
      /\ DOMAIN Tail(s) = 1 .. Len(s) - 1
      /\ \A i \in 1 .. Len(s) - 1 : Tail(s)[i] = s[i + 1]
  BY <1>1
<1>3. IsInjective(Tail(s))
  <2> SUFFICES ASSUME NEW a \in 1 .. Len(s) - 1, NEW b \in 1 .. Len(s) - 1,
                      Tail(s)[a] = Tail(s)[b]
               PROVE  a = b
    BY <1>2 DEF IsInjective
  <2>1. s[a + 1] = s[b + 1] /\ a + 1 \in 1 .. Len(s) /\ b + 1 \in 1 .. Len(s)
    BY <1>1, <1>2
  <2>2. a + 1 = b + 1
    BY <1>1, <2>1 DEF IsInjective
  <2> QED
    BY <2>2
<1>4. Head(s) \in ToSet(s)
  BY <1>1 DEF ToSet
<1>5. ASSUME NEW x \in ToSet(Tail(s)) PROVE x \in ToSet(s) \ {Head(s)}
  <2>1. PICK i \in 1 .. Len(s) - 1 : x = s[i + 1]
    BY <1>2 DEF ToSet
  <2>2. i + 1 \in 1 .. Len(s) /\ i + 1 # 1
    BY <1>1
  <2> QED
    BY <1>1, <2>1, <2>2 DEF ToSet, IsInjective
<1>6. ASSUME NEW x \in ToSet(s) \ {Head(s)} PROVE x \in ToSet(Tail(s))
  <2>1. PICK i \in 1 .. Len(s) : x = s[i]
    BY <1>1 DEF ToSet
  <2>2. i - 1 \in 1 .. Len(s) - 1 /\ (i - 1) + 1 = i
    BY <1>1, <2>1
  <2>3. x = Tail(s)[i - 1]
    BY <1>2, <2>1, <2>2
  <2> QED
    BY <1>2, <2>2, <2>3 DEF ToSet
<1> QED
  BY <1>1, <1>2, <1>3, <1>4, <1>5, <1>6

\* What sending to a channel makes of it.
LEMMA AppendFacts ==
    ASSUME NEW S, NEW s \in Seq(S), NEW c \in S, IsInjective(s), c \notin ToSet(s)
    PROVE  /\ Append(s, c) \in Seq(S) /\ IsInjective(Append(s, c))
           /\ ToSet(Append(s, c)) = ToSet(s) \cup {c}
           /\ Len(Append(s, c)) = Len(s) + 1
<1>1. /\ Len(s) \in Nat /\ DOMAIN s = 1 .. Len(s)
      /\ Append(s, c) \in Seq(S) /\ Len(Append(s, c)) = Len(s) + 1
      /\ DOMAIN Append(s, c) = 1 .. Len(s) + 1
      /\ \A i \in 1 .. Len(s) : Append(s, c)[i] = s[i]
      /\ Append(s, c)[Len(s) + 1] = c
  OBVIOUS
<1>2. \A i \in 1 .. Len(s) + 1 : i \in 1 .. Len(s) \/ i = Len(s) + 1
  BY <1>1
<1>3. \A i \in 1 .. Len(s) : s[i] \in ToSet(s) /\ s[i] # c
  BY <1>1 DEF ToSet
<1>4. IsInjective(Append(s, c))
  <2> SUFFICES ASSUME NEW a \in 1 .. Len(s) + 1, NEW b \in 1 .. Len(s) + 1,
                      Append(s, c)[a] = Append(s, c)[b]
               PROVE  a = b
    BY <1>1 DEF IsInjective
  <2> QED
    BY <1>1, <1>2, <1>3 DEF IsInjective
<1>5. ToSet(Append(s, c)) = ToSet(s) \cup {c}
  <2>1. \A x \in ToSet(Append(s, c)) : x \in ToSet(s) \cup {c}
    BY <1>1, <1>2, <1>3 DEF ToSet
  <2>2. \A i \in 1 .. Len(s) : i \in 1 .. Len(s) + 1
    BY <1>1
  <2>3. \A x \in ToSet(s) : x \in ToSet(Append(s, c))
    BY <1>1, <2>2 DEF ToSet
  <2>4. c \in ToSet(Append(s, c))
    <3>1. Len(s) + 1 \in 1 .. Len(s) + 1
      BY <1>1
    <3> QED
      BY <1>1, <3>1 DEF ToSet
  <2> QED
    BY <2>1, <2>3, <2>4
<1> QED
  BY <1>1, <1>4, <1>5

-----------------------------------------------------------------------------
(* The invariant in the terms of the properties                            *)

LEMMA HeldAndPooled ==
    /\ \A c : c \in Held <=> \E w \in Workers : Client(w) = c
    /\ \A c : c \in Pooled <=> \E k \in Keys : c \in Idle(k)
BY DEF Held, Pooled, Idle, Client

LEMMA FreeFacts ==
    ASSUME IInv, NEW c \in Free
    PROVE  /\ c \in Clients /\ c # NoClient /\ sent[c] = 0 /\ c \notin open
           /\ \A k \in Keys : c \notin Idle(k)
           /\ \A w \in Workers : Client(w) # c
<1>1. /\ c \in Clients /\ c # NoClient
      /\ \A k \in Keys : c \notin Idle(k)
      /\ \A w \in Workers : Client(w) # c
  BY HeldAndPooled, PoolAssumption DEF Free
<1> QED
  BY <1>1 DEF IInv, CountInv, LeakInv

LEMMA InvImplies == IInv => Exclusive /\ NoLeak /\ DeltaExact
<1> SUFFICES ASSUME IInv PROVE Exclusive /\ NoLeak /\ DeltaExact
  OBVIOUS
<1>1. Exclusive
  <2>1. \A k \in Keys : ToSet(pools[k]) \cap Held = {}
    BY HeldAndPooled DEF IInv, OwnInv, Idle
  <2>2. \A j, k \in Keys : j # k => ToSet(pools[j]) \cap ToSet(pools[k]) = {}
    BY DEF IInv, OwnInv, Idle
  <2> QED
    BY <2>1, <2>2 DEF Exclusive, IInv, OwnInv
<1>2. NoLeak
  BY HeldAndPooled DEF NoLeak, IInv, LeakInv
<1>3. DeltaExact
  <2> SUFFICES ASSUME NEW w \in Workers, pc[w] \in {"done", "failed"}, ~job[w].replaced
               PROVE  Delta(w) = job[w].mine
    BY DEF DeltaExact
  <2>1. job[w].start \in Int /\ job[w].mine \in Int
    <3>1. job[w] \in JobType
      BY DEF IInv, TypeOK, JobType
    <3> QED
      BY <3>1, PoolAssumption DEF JobType
  <2>2. sent[Client(w)] = job[w].start + job[w].mine
    BY DEF IInv, CountInv
  <2> QED
    BY <2>1, <2>2 DEF Delta
<1> QED
  BY <1>1, <1>2, <1>3

-----------------------------------------------------------------------------
LEMMA NoJobType == NoJob \in JobType
BY PoolAssumption DEF NoJob, NewJob, JobType

LEMMA InitInv == Init => IInv
<1> SUFFICES ASSUME Init PROVE IInv
  OBVIOUS
<1>1. TypeOK
  BY NoJobType, PoolAssumption DEF Init, TypeOK, JobType
<1>2. /\ \A k \in Keys : pools[k] = <<>> /\ Idle(k) = {} /\ IsInjective(pools[k])
      /\ \A w \in Workers : job[w] = NoJob /\ Client(w) = NoClient /\ pc[w] = "idle"
  BY DEF Init, Idle, ToSet, IsInjective, Client, NoJob, NewJob
<1>3. OwnInv /\ LeakInv /\ JobInv
  BY <1>2 DEF Init, OwnInv, LeakInv, JobInv
<1>4. CountInv
  BY <1>2 DEF Init, CountInv
<1>5. AlwaysRoom
  <2> SUFFICES ASSUME NEW k \in Keys
               PROVE  Len(pools[k]) + Cardinality(Holders(k)) <= Size
    BY DEF AlwaysRoom
  <2>1. Holders(k) = {}
    BY <1>2, PoolAssumption DEF Holders, NoJob, NewJob
  <2>2. Cardinality(Holders(k)) = 0 /\ Len(pools[k]) = 0 /\ Size \in Nat
    BY <1>2, <2>1, FS_EmptySet, FS_CardinalityType, PoolAssumption DEF Size
  <2> QED
    BY <2>2
<1> QED
  BY <1>1, <1>3, <1>4, <1>5 DEF IInv
-----------------------------------------------------------------------------
(* Steps of one worker                                                     *)

LEMMA Frame ==
    ASSUME TypeOK, NEW w \in Workers, NEW f \in PCs, NEW r \in JobType,
           Go(w, f), job' = [job EXCEPT ![w] = r]
    PROVE  /\ pc' \in [Workers -> PCs] /\ job' \in [Workers -> JobType]
           /\ pc'[w] = f /\ job'[w] = r /\ Client(w)' = r.client
           /\ \A v \in Workers \ {w} :
                  pc'[v] = pc[v] /\ job'[v] = job[v] /\ Client(v)' = Client(v)
<1>1. /\ pc \in [Workers -> PCs] /\ job \in [Workers -> JobType]
      /\ pc' = [pc EXCEPT ![w] = f]
  BY DEF TypeOK, PCs, JobType, Go
<1>2. pc' \in [Workers -> PCs] /\ pc'[w] = f /\ \A v \in Workers \ {w} : pc'[v] = pc[v]
  BY <1>1
<1>3. job' \in [Workers -> JobType] /\ job'[w] = r /\ \A v \in Workers \ {w} : job'[v] = job[v]
  BY <1>1
<1> QED
  BY <1>2, <1>3 DEF Client

\* The same for a step that leaves the local variables alone.
LEMMA FramePC ==
    ASSUME TypeOK, NEW w \in Workers, NEW f \in PCs, Go(w, f), UNCHANGED job
    PROVE  /\ pc' \in [Workers -> PCs] /\ pc'[w] = f
           /\ \A v \in Workers \ {w} : pc'[v] = pc[v]
           /\ \A v \in Workers : Client(v)' = Client(v)
BY DEF TypeOK, PCs, Go, Client

\* A worker's client, its own.
LEMMA BusyFacts ==
    ASSUME IInv, NEW w \in Workers, pc[w] # "idle"
    PROVE  /\ Client(w) \in Clients /\ Client(w) # NoClient /\ job[w].key \in Keys
           /\ job[w] \in JobType /\ sent[Client(w)] \in 0 .. MaxSent
           /\ \A v \in Workers \ {w} : Client(v) # Client(w)
           /\ \A k \in Keys : Client(w) \notin Idle(k)
<1>1. Client(w) \in Clients /\ Client(w) # NoClient /\ job[w].key \in Keys
  BY PoolAssumption DEF IInv, JobInv
<1>2. job[w] \in JobType /\ sent[Client(w)] \in 0 .. MaxSent
  BY <1>1 DEF IInv, TypeOK, JobType
<1> QED
  BY <1>1, <1>2 DEF IInv, OwnInv

\* A worker that holds no client has none of a key either.
LEMMA NoJobFields == /\ NoJob.client = NoClient /\ NoJob.key = NoKey
                     /\ NoJob \in JobType
BY NoJobType DEF NoJob, NewJob

LEMMA IdleClients == TypeOK => \A k \in Keys : Idle(k) \subseteq Clients /\ NoClient \notin Idle(k)
<1> SUFFICES ASSUME TypeOK, NEW k \in Keys, NEW c \in Idle(k) PROVE c \in Clients
  BY PoolAssumption
<1>1. PICK i \in DOMAIN pools[k] : c = pools[k][i]
  BY DEF Idle, ToSet
<1>2. pools[k] \in Seq(Clients)
  BY DEF TypeOK
<1> QED
  BY <1>1, <1>2

LEMMA IdleFacts ==
    ASSUME IInv, NEW w \in Workers, pc[w] = "idle"
    PROVE  job[w] = NoJob /\ Client(w) = NoClient /\ \A k \in Keys : w \notin Holders(k)
BY PoolAssumption, NoJobFields DEF IInv, JobInv, Client, Holders

-----------------------------------------------------------------------------
(* Room in the channels                                                    *)

LEMMA HoldersFinite ==
    ASSUME NEW k
    PROVE  /\ IsFiniteSet(Holders(k)) /\ Cardinality(Holders(k)) \in Nat
           /\ Size \in Nat /\ Cardinality(Holders(k)) <= Size
<1>1. Holders(k) \in SUBSET Workers
  BY DEF Holders
<1> QED
  BY <1>1, PoolAssumption, FS_Subset, FS_CardinalityType DEF Size

\* No step that leaves the keys and the channels alone takes room.
LEMMA SameRoom ==
    ASSUME IInv, UNCHANGED pools, \A v \in Workers : job'[v].key = job[v].key
    PROVE  AlwaysRoom'
<1>1. \A k \in Keys : Holders(k)' = Holders(k)
  BY DEF Holders
<1> QED
  BY <1>1 DEF IInv, AlwaysRoom

\* Neither does one that gives a key up.
LEMMA LessRoom ==
    ASSUME IInv, UNCHANGED pools, NEW w \in Workers, job'[w].key = NoKey,
           \A v \in Workers \ {w} : job'[v].key = job[v].key
    PROVE  AlwaysRoom'
<1> SUFFICES ASSUME NEW k \in Keys
             PROVE  Len(pools[k]) + Cardinality(Holders(k)') <= Size
  BY DEF AlwaysRoom, Size
<1>1. Holders(k)' \in SUBSET Holders(k)
  BY PoolAssumption DEF Holders
<1>2. Cardinality(Holders(k)') <= Cardinality(Holders(k)) /\ Cardinality(Holders(k)') \in Nat
  BY <1>1, HoldersFinite, FS_Subset, FS_CardinalityType
<1>3. Len(pools[k]) \in Nat /\ Len(pools[k]) + Cardinality(Holders(k)) <= Size
  BY DEF IInv, TypeOK, AlwaysRoom
<1> QED
  BY <1>2, <1>3, HoldersFinite

-----------------------------------------------------------------------------
(* The operations                                                          *)

LEMMA GetReusedInv ==
    ASSUME IInv, NEW w \in Workers, NEW k \in Keys, GetReused(w, k) PROVE IInv'
<1> DEFINE c == Head(pools[k])
           r == [key |-> k, client |-> c, reused |-> TRUE, start |-> sent[c],
                 mine |-> 0, replaced |-> FALSE]
<1>1. /\ pc[w] = "idle" /\ pools[k] # <<>> /\ pools[k] \in Seq(Clients) /\ IsInjective(pools[k])
      /\ pools' = [pools EXCEPT ![k] = Tail(pools[k])]
      /\ job' = [job EXCEPT ![w] = r] /\ Go(w, "first") /\ open' = open /\ sent' = sent
  BY DEF GetReused, Take, IInv, TypeOK, OwnInv, NewJob
<1>2. /\ c \in Clients /\ c \in Idle(k) /\ Tail(pools[k]) \in Seq(Clients)
      /\ IsInjective(Tail(pools[k])) /\ ToSet(Tail(pools[k])) = Idle(k) \ {c}
      /\ Len(Tail(pools[k])) = Len(pools[k]) - 1
  BY <1>1, TailFacts DEF Idle
<1>3. /\ pools'[k] = Tail(pools[k]) /\ Idle(k)' = Idle(k) \ {c}
      /\ \A j \in Keys \ {k} : pools'[j] = pools[j] /\ Idle(j)' = Idle(j)
      /\ pools' \in [Keys -> Seq(Clients)]
  BY <1>1, <1>2 DEF IInv, TypeOK, Idle
<1>4. r \in JobType
  BY <1>2 DEF IInv, TypeOK, JobType
<1>5. /\ pc' \in [Workers -> PCs] /\ job' \in [Workers -> JobType]
      /\ pc'[w] = "first" /\ job'[w] = r /\ Client(w)' = c
      /\ \A v \in Workers \ {w} :
             pc'[v] = pc[v] /\ job'[v] = job[v] /\ Client(v)' = Client(v)
  <2> HIDE DEF r
  <2>1. r.client = c
    BY DEF r
  <2> QED
    BY <1>1, <1>4, <2>1, Frame DEF IInv, PCs
<1> HIDE DEF r, c
<1>6. TypeOK'
  BY <1>1, <1>3, <1>5 DEF IInv, TypeOK, PCs, JobType
<1>7. OwnInv'
  <2>1. \A v \in Workers : Client(v) # c
    BY <1>2 DEF IInv, OwnInv
  <2>2. \A j \in Keys \ {k} : c \notin Idle(j)
    BY <1>2 DEF IInv, OwnInv
  <2>3. \A v, u \in Workers : Client(v)' = Client(u)' /\ Client(v)' # NoClient => v = u
    BY <1>5, <2>1 DEF IInv, OwnInv
  <2>4. \A j \in Keys : IsInjective(pools'[j])
    BY <1>2, <1>3 DEF IInv, OwnInv
  <2>5. \A j \in Keys, v \in Workers : Client(v)' \notin Idle(j)'
    BY <1>3, <1>5, <2>2 DEF IInv, OwnInv
  <2>6. \A i, j \in Keys : \A d \in Idle(i)' : d \in Idle(j)' => i = j
    BY <1>3 DEF IInv, OwnInv
  <2> QED
    BY <2>3, <2>4, <2>5, <2>6 DEF OwnInv
<1>8. Client(w) = NoClient /\ c # NoClient /\ NoClient \notin open
  BY <1>1, <1>2, IdleFacts, PoolAssumption DEF IInv, TypeOK
<1>9. LeakInv'
  <2>1. ASSUME NEW d \in open PROVE (\E j \in Keys : d \in Idle(j)') \/ (\E v \in Workers : Client(v)' = d)
    <3>1. CASE d = c
      BY <1>5, <3>1
    <3>2. CASE d # c
      BY <1>3, <1>5, <1>8, <3>2 DEF IInv, LeakInv
    <3> QED
      BY <3>1, <3>2
  <2> QED
    BY <1>1, <1>3, <2>1 DEF IInv, LeakInv
<1>10. JobInv'
  <2>1. c \in open /\ r.key = k
    BY <1>2 DEF IInv, LeakInv, r
  <2> QED
    BY <1>1, <1>2, <1>5, <2>1 DEF IInv, JobInv
<1>11. CountInv'
  <2>1. r.start = sent[c] /\ r.mine = 0 /\ sent[c] + 0 = sent[c]
    BY <1>2, PoolAssumption DEF r, IInv, TypeOK
  <2>2. \A v \in Workers : pc'[v] # "idle" /\ ~job'[v].replaced =>
             sent'[Client(v)'] = job'[v].start + job'[v].mine
    BY <1>1, <1>5, <2>1 DEF IInv, CountInv
  <2>3. \A d \in Clients : (\A j \in Keys : d \notin Idle(j)') /\ (\A v \in Workers : Client(v)' # d)
             => sent'[d] = 0
    BY <1>1, <1>3, <1>5, <1>8, PoolAssumption DEF IInv, CountInv
  <2> QED
    BY <2>2, <2>3 DEF CountInv
<1>12. AlwaysRoom'
  <2> SUFFICES ASSUME NEW j \in Keys
               PROVE  Len(pools'[j]) + Cardinality(Holders(j)') <= Size
    BY DEF AlwaysRoom, Size
  <2>1. Len(pools[j]) \in Nat /\ Len(pools[j]) + Cardinality(Holders(j)) <= Size
    BY DEF IInv, TypeOK, AlwaysRoom
  <2>2. CASE j = k
    <3>1. Holders(k)' = Holders(k) \cup {w} /\ w \notin Holders(k)
      <4>1. r.key = k
        BY DEF r
      <4> QED
        BY <1>1, <1>5, <4>1, IdleFacts DEF Holders
    <3>2. Cardinality(Holders(k)') = Cardinality(Holders(k)) + 1
      BY <3>1, HoldersFinite, FS_AddElement
    <3> QED
      BY <1>2, <1>3, <2>1, <2>2, <3>2, HoldersFinite
  <2>3. CASE j # k
    <3>1. Holders(j)' = Holders(j)
      <4>1. r.key = k
        BY DEF r
      <4> QED
        BY <1>1, <1>5, <2>3, <4>1, IdleFacts DEF Holders
    <3> QED
      BY <1>3, <2>1, <2>3, <3>1
  <2> QED
    BY <2>2, <2>3
<1> QED
  BY <1>6, <1>7, <1>9, <1>10, <1>11, <1>12 DEF IInv

LEMMA GetNewInv ==
    ASSUME IInv, NEW w \in Workers, NEW k \in Keys, GetNew(w, k) PROVE IInv'
<1>1. PICK c \in Free : job' = [job EXCEPT ![w] = NewJob(k, c, FALSE, 0)]
  BY DEF GetNew
<1> DEFINE r == NewJob(k, c, FALSE, 0)
<1>2. /\ pc[w] = "idle" /\ pools[k] = <<>> /\ Go(w, "connect")
      /\ UNCHANGED <<pools, open, sent>>
  BY DEF GetNew
<1>3. /\ c \in Clients /\ c # NoClient /\ sent[c] = 0 /\ c \notin open
      /\ \A j \in Keys : c \notin Idle(j)
      /\ \A v \in Workers : Client(v) # c
  BY FreeFacts
<1>4. /\ r.key = k /\ r.client = c /\ r.start = 0 /\ r.mine = 0 /\ r.replaced = FALSE
      /\ r \in JobType
  BY <1>3, PoolAssumption DEF NewJob, JobType
<1> HIDE DEF r
<1>5. job' = [job EXCEPT ![w] = r]
  BY <1>1 DEF r
<1>6. /\ pc' \in [Workers -> PCs] /\ job' \in [Workers -> JobType]
      /\ pc'[w] = "connect" /\ job'[w] = r /\ Client(w)' = c
      /\ \A v \in Workers \ {w} :
             pc'[v] = pc[v] /\ job'[v] = job[v] /\ Client(v)' = Client(v)
  BY <1>2, <1>4, <1>5, Frame DEF IInv, PCs
<1>7. \A j \in Keys : Idle(j)' = Idle(j)
  BY <1>2 DEF Idle
<1>8. TypeOK'
  BY <1>2, <1>6 DEF IInv, TypeOK, PCs, JobType
<1>9. OwnInv'
  BY <1>2, <1>3, <1>6, <1>7 DEF IInv, OwnInv
<1>10. Client(w) = NoClient /\ NoClient \notin open
  BY <1>2, IdleFacts, PoolAssumption DEF IInv, TypeOK
<1>11. LeakInv'
  BY <1>2, <1>6, <1>7, <1>10 DEF IInv, LeakInv
<1>12. JobInv'
  BY <1>2, <1>3, <1>4, <1>6 DEF IInv, JobInv
<1>13. CountInv'
  <2>1. \A v \in Workers : pc'[v] # "idle" /\ ~job'[v].replaced =>
             sent'[Client(v)'] = job'[v].start + job'[v].mine
    BY <1>2, <1>3, <1>4, <1>6 DEF IInv, CountInv
  <2>2. \A d \in Clients : (\A j \in Keys : d \notin Idle(j)') /\ (\A v \in Workers : Client(v)' # d)
             => sent'[d] = 0
    BY <1>2, <1>6, <1>7, <1>10, PoolAssumption DEF IInv, CountInv
  <2> QED
    BY <2>1, <2>2 DEF CountInv
<1>14. AlwaysRoom'
  <2> SUFFICES ASSUME NEW j \in Keys
               PROVE  Len(pools[j]) + Cardinality(Holders(j)') <= Size
    BY <1>2 DEF AlwaysRoom, Size
  <2>1. CASE j = k
    <3>1. Holders(j)' \in SUBSET Workers
      BY DEF Holders
    <3>2. Cardinality(Holders(j)') <= Size /\ Cardinality(Holders(j)') \in Nat
      BY <3>1, PoolAssumption, FS_Subset, FS_CardinalityType DEF Size
    <3>3. Len(pools[j]) = 0
      BY <1>2, <2>1
    <3> QED
      BY <3>2, <3>3, HoldersFinite
  <2>2. CASE j # k
    <3>1. Holders(j)' = Holders(j)
      BY <1>2, <1>4, <1>6, <2>2, IdleFacts DEF Holders
    <3> QED
      BY <3>1 DEF IInv, AlwaysRoom
  <2> QED
    BY <2>1, <2>2
<1> QED
  BY <1>8, <1>9, <1>11, <1>12, <1>13, <1>14 DEF IInv

\* A step that moves a worker on, and at most opens or closes its own client.
LEMMA MovesOn ==
    ASSUME IInv, NEW w \in Workers, pc[w] # "idle", NEW f \in PCs \ {"idle", "connect"}, Go(w, f),
           UNCHANGED <<pools, sent, job>>,
           open' \in {open, open \cup {Client(w)}, open \ {Client(w)}},
           f \in {"first", "more", "done"} => Client(w) \in open',
           f = "stale" => Client(w) \notin open'
    PROVE  IInv'
<1>1. /\ pc' \in [Workers -> PCs] /\ pc'[w] = f
      /\ \A v \in Workers \ {w} : pc'[v] = pc[v]
      /\ \A v \in Workers : Client(v)' = Client(v)
      /\ \A k \in Keys : Idle(k)' = Idle(k)
  BY FramePC DEF IInv, Idle
<1>2. /\ Client(w) \in Clients
      /\ \A v \in Workers \ {w} : Client(v) # Client(w)
      /\ \A k \in Keys : Client(w) \notin Idle(k)
  BY BusyFacts
<1>3. TypeOK'
  BY <1>1, <1>2 DEF IInv, TypeOK, PCs
<1>4. OwnInv'
  BY <1>1 DEF IInv, OwnInv
<1>5. LeakInv'
  BY <1>1, <1>2 DEF IInv, LeakInv
<1>6. JobInv'
  BY <1>1, <1>2 DEF IInv, JobInv, PCs
<1>7. CountInv'
  BY <1>1 DEF IInv, CountInv
<1>8. AlwaysRoom'
  BY SameRoom
<1> QED
  BY <1>3, <1>4, <1>5, <1>6, <1>7, <1>8 DEF IInv

LEMMA ConnectInv == ASSUME IInv, NEW w \in Workers, Connect(w) PROVE IInv'
BY MovesOn DEF Connect, PCs

LEMMA ExchangeStaleInv == ASSUME IInv, NEW w \in Workers, ExchangeStale(w) PROVE IInv'
BY MovesOn DEF ExchangeStale, PCs

LEMMA EndsInv ==
    ASSUME IInv, NEW w \in Workers, ReconnectFails(w) \/ ExchangeFails(w) \/ ExchangesEnd(w)
    PROVE  IInv'
<1>1. CASE ReconnectFails(w) \/ ExchangeFails(w)
  BY <1>1, MovesOn DEF ReconnectFails, ExchangeFails, PCs
<1>2. CASE ExchangesEnd(w)
  <2>1. Client(w) \in open
    BY <1>2 DEF ExchangesEnd, IInv, JobInv
  <2> QED
    BY <1>2, <2>1, MovesOn DEF ExchangesEnd, PCs
<1> QED
  BY <1>1, <1>2

LEMMA ExchangeInv == ASSUME IInv, NEW w \in Workers, Exchange(w) PROVE IInv'
<1> DEFINE c == Client(w)
           r == [job[w] EXCEPT !.mine = @ + 1]
<1>1. /\ pc[w] \in {"first", "more"} /\ sent[c] < MaxSent /\ Go(w, "more")
      /\ sent' = [sent EXCEPT ![c] = sent[c] + 1] /\ job' = [job EXCEPT ![w] = r]
      /\ UNCHANGED <<pools, open>>
  BY DEF Exchange
<1>2. /\ c \in Clients /\ c # NoClient /\ c \in open
      /\ job[w] \in JobType /\ sent[c] \in 0 .. MaxSent /\ sent \in [Clients -> 0 .. MaxSent]
      /\ \A v \in Workers \ {w} : Client(v) # c
      /\ \A k \in Keys : c \notin Idle(k)
  BY <1>1, BusyFacts DEF IInv, JobInv, TypeOK
<1>3. /\ r \in JobType /\ r.key = job[w].key /\ r.client = c /\ r.start = job[w].start
      /\ r.mine = job[w].mine + 1 /\ r.replaced = job[w].replaced
      /\ r.mine \in Nat /\ job[w].mine \in Nat /\ r.start \in Nat
  BY <1>2, PoolAssumption DEF JobType, Client
<1> HIDE DEF r, c
<1>4. /\ pc' \in [Workers -> PCs] /\ job' \in [Workers -> JobType]
      /\ pc'[w] = "more" /\ job'[w] = r /\ Client(w)' = c
      /\ \A v \in Workers \ {w} :
             pc'[v] = pc[v] /\ job'[v] = job[v] /\ Client(v)' = Client(v)
  BY <1>1, <1>3, Frame DEF IInv, PCs
<1>5. /\ \A k \in Keys : Idle(k)' = Idle(k)
      /\ \A v \in Workers : Client(v)' = Client(v)
  BY <1>1, <1>4 DEF Idle, c
<1>6. /\ sent'[c] = sent[c] + 1 /\ \A d \in Clients \ {c} : sent'[d] = sent[d]
      /\ sent' \in [Clients -> 0 .. MaxSent]
  <2>1. sent[c] + 1 \in 0 .. MaxSent
    BY <1>1, <1>2, PoolAssumption
  <2> QED
    BY <1>1, <1>2, <2>1
<1>7. TypeOK'
  BY <1>1, <1>4, <1>6 DEF IInv, TypeOK, PCs, JobType
<1>8. OwnInv' /\ LeakInv'
  BY <1>1, <1>5 DEF IInv, OwnInv, LeakInv
<1>9. JobInv'
  BY <1>1, <1>2, <1>3, <1>4, <1>5 DEF IInv, JobInv, c
<1>10. CountInv'
  <2>1. ~job[w].replaced => sent'[c] = r.start + r.mine
    BY <1>1, <1>3, <1>6 DEF IInv, CountInv, c
  <2>2. \A v \in Workers \ {w} : pc[v] # "idle" => Client(v) \in Clients \ {c}
    BY <1>2 DEF IInv, JobInv
  <2>3. \A v \in Workers : pc'[v] # "idle" /\ ~job'[v].replaced =>
             sent'[Client(v)'] = job'[v].start + job'[v].mine
    BY <1>3, <1>4, <1>6, <2>1, <2>2 DEF IInv, CountInv
  <2>4. \A d \in Clients : (\A k \in Keys : d \notin Idle(k)') /\ (\A v \in Workers : Client(v)' # d)
             => sent'[d] = 0
    BY <1>4, <1>5, <1>6 DEF IInv, CountInv
  <2> QED
    BY <2>3, <2>4 DEF CountInv
<1>11. AlwaysRoom'
  BY <1>1, <1>3, <1>4, SameRoom
<1> QED
  BY <1>7, <1>8, <1>9, <1>10, <1>11 DEF IInv

LEMMA ReconnectInv == ASSUME IInv, NEW w \in Workers, Reconnect(w) PROVE IInv'
<1> DEFINE b == Client(w)
<1>1. PICK c \in Free : open' = open \cup {c} /\ job' = [job EXCEPT ![w] = Continued(job[w], c)]
  BY DEF Reconnect
<1> DEFINE r == Continued(job[w], c)
<1>2. /\ pc[w] = "stale" /\ Go(w, "first") /\ pools' = pools
      /\ sent' = [sent EXCEPT ![b] = 0]
  BY DEF Reconnect
<1>3. /\ c \in Clients /\ c # NoClient /\ sent[c] = 0 /\ c \notin open
      /\ \A j \in Keys : c \notin Idle(j)
      /\ \A v \in Workers : Client(v) # c
  BY FreeFacts
<1>4. /\ b \in Clients /\ b # NoClient /\ b \notin open /\ job[w].key \in Keys /\ job[w] \in JobType
      /\ \A v \in Workers \ {w} : Client(v) # b
      /\ \A k \in Keys : b \notin Idle(k)
  BY <1>2, BusyFacts DEF IInv, JobInv
<1>5. r \in JobType /\ r.key = job[w].key /\ r.client = c /\ r.replaced = TRUE
  BY <1>3, <1>4 DEF Continued, JobType
<1> HIDE DEF r, b
<1>6. job' = [job EXCEPT ![w] = r]
  BY <1>1 DEF r
<1>7. /\ pc' \in [Workers -> PCs] /\ job' \in [Workers -> JobType]
      /\ pc'[w] = "first" /\ job'[w] = r /\ Client(w)' = c
      /\ \A v \in Workers \ {w} :
             pc'[v] = pc[v] /\ job'[v] = job[v] /\ Client(v)' = Client(v)
  BY <1>2, <1>5, <1>6, Frame DEF IInv, PCs
<1>8. \A k \in Keys : Idle(k)' = Idle(k)
  BY <1>2 DEF Idle
<1>9. /\ sent'[b] = 0 /\ \A d \in Clients \ {b} : sent'[d] = sent[d]
      /\ sent' \in [Clients -> 0 .. MaxSent]
  BY <1>2, <1>4, PoolAssumption DEF IInv, TypeOK
<1>10. TypeOK'
  BY <1>1, <1>2, <1>3, <1>7, <1>9 DEF IInv, TypeOK, PCs, JobType
<1>11. OwnInv'
  BY <1>2, <1>3, <1>7, <1>8 DEF IInv, OwnInv
<1>12. LeakInv'
  BY <1>1, <1>4, <1>7, <1>8 DEF IInv, LeakInv, b
<1>13. JobInv'
  BY <1>1, <1>2, <1>3, <1>4, <1>5, <1>7 DEF IInv, JobInv
<1>14. CountInv'
  <2>1. \A v \in Workers \ {w} : pc[v] # "idle" => Client(v) \in Clients \ {b}
    BY <1>4 DEF IInv, JobInv
  <2>2. \A v \in Workers : pc'[v] # "idle" /\ ~job'[v].replaced =>
             sent'[Client(v)'] = job'[v].start + job'[v].mine
    BY <1>5, <1>7, <1>9, <2>1 DEF IInv, CountInv
  <2>3. \A d \in Clients : (\A k \in Keys : d \notin Idle(k)') /\ (\A v \in Workers : Client(v)' # d)
             => sent'[d] = 0
    BY <1>7, <1>8, <1>9 DEF IInv, CountInv, b
  <2> QED
    BY <2>2, <2>3 DEF CountInv
<1>15. AlwaysRoom'
  BY <1>2, <1>5, <1>7, SameRoom
<1> QED
  BY <1>10, <1>11, <1>12, <1>13, <1>14, <1>15 DEF IInv

\* A step that drops a client, closed and with a counter that starts again.
LEMMA Drops ==
    ASSUME IInv, NEW w \in Workers, pc[w] # "idle", Go(w, "idle"),
           job' = [job EXCEPT ![w] = NoJob], pools' = pools,
           open' = open \ {Client(w)}, sent' = [sent EXCEPT ![Client(w)] = 0]
    PROVE  IInv'
<1> DEFINE c == Client(w)
<1>1. /\ c \in Clients /\ c # NoClient
      /\ \A v \in Workers \ {w} : Client(v) # c
      /\ \A k \in Keys : c \notin Idle(k)
  BY BusyFacts
<1>2. /\ pc' \in [Workers -> PCs] /\ job' \in [Workers -> JobType]
      /\ pc'[w] = "idle" /\ job'[w] = NoJob /\ Client(w)' = NoClient
      /\ \A v \in Workers \ {w} :
             pc'[v] = pc[v] /\ job'[v] = job[v] /\ Client(v)' = Client(v)
  BY Frame, NoJobFields DEF IInv, PCs
<1>3. \A k \in Keys : Idle(k)' = Idle(k)
  BY DEF Idle
<1> HIDE DEF c
<1>4. /\ sent'[c] = 0 /\ \A d \in Clients \ {c} : sent'[d] = sent[d]
      /\ sent' \in [Clients -> 0 .. MaxSent]
  BY <1>1, PoolAssumption DEF IInv, TypeOK, c
<1>5. TypeOK'
  BY <1>2, <1>4 DEF IInv, TypeOK, PCs, JobType
<1>6. OwnInv'
  BY <1>2, <1>3, IdleClients DEF IInv, OwnInv
<1>7. LeakInv'
  BY <1>1, <1>2, <1>3 DEF IInv, LeakInv, c
<1>8. JobInv'
  BY <1>1, <1>2 DEF IInv, JobInv, c
<1>9. CountInv'
  <2>1. \A v \in Workers \ {w} : pc[v] # "idle" => Client(v) \in Clients \ {c}
    BY <1>1 DEF IInv, JobInv
  <2>2. \A v \in Workers : pc'[v] # "idle" /\ ~job'[v].replaced =>
             sent'[Client(v)'] = job'[v].start + job'[v].mine
    BY <1>2, <1>4, <2>1 DEF IInv, CountInv
  <2>3. \A d \in Clients : (\A k \in Keys : d \notin Idle(k)') /\ (\A v \in Workers : Client(v)' # d)
             => sent'[d] = 0
    BY <1>2, <1>3, <1>4 DEF IInv, CountInv, c
  <2> QED
    BY <2>2, <2>3 DEF CountInv
<1>10. AlwaysRoom'
  BY <1>2, NoJobFields, LessRoom
<1> QED
  BY <1>5, <1>6, <1>7, <1>8, <1>9, <1>10 DEF IInv

LEMMA CloseFailedInv == ASSUME IInv, NEW w \in Workers, CloseFailed(w) PROVE IInv'
BY Drops DEF CloseFailed

\* A client that did not connect is dropped as it was made.
LEMMA ConnectFailsInv == ASSUME IInv, NEW w \in Workers, ConnectFails(w) PROVE IInv'
<1>1. /\ pc[w] = "connect" /\ Go(w, "idle") /\ job' = [job EXCEPT ![w] = NoJob]
      /\ UNCHANGED <<pools, open, sent>>
  BY DEF ConnectFails
<1>2. Client(w) \notin open /\ Client(w) \in Clients
  BY <1>1 DEF IInv, JobInv
<1>3. sent[Client(w)] = 0
  <2>1. job[w].start = 0 /\ job[w].mine = 0 /\ ~job[w].replaced
    BY <1>1 DEF IInv, JobInv
  <2>2. sent[Client(w)] = job[w].start + job[w].mine
    BY <1>1, <2>1 DEF IInv, CountInv
  <2> QED
    BY <2>1, <2>2
<1>4. open' = open \ {Client(w)} /\ sent' = [sent EXCEPT ![Client(w)] = 0]
  BY <1>1, <1>2, <1>3 DEF IInv, TypeOK
<1> QED
  BY <1>1, <1>4, Drops

\* Put never finds the channel full: AlwaysRoom counts the worker itself.
LEMMA PutHasRoom ==
    ASSUME IInv, NEW w \in Workers, pc[w] # "idle"
    PROVE  Len(pools[job[w].key]) < Size
<1> DEFINE k == job[w].key
<1>1. k \in Keys /\ w \in Holders(k)
  BY BusyFacts DEF Holders
<1>2. Cardinality(Holders(k)) # 0
  BY <1>1, HoldersFinite, FS_EmptySet
<1>3. Len(pools[k]) \in Nat /\ Len(pools[k]) + Cardinality(Holders(k)) <= Size
  BY <1>1 DEF IInv, TypeOK, AlwaysRoom
<1> QED
  BY <1>2, <1>3, HoldersFinite

LEMMA GiveBackInv == ASSUME IInv, NEW w \in Workers, GiveBack(w) PROVE IInv'
<1> DEFINE c == Client(w)
<1>k. PICK k \in Keys : k = job[w].key
  BY BusyFacts DEF GiveBack
<1>1. /\ pc[w] = "done" /\ Go(w, "idle") /\ sent' = sent /\ job' = [job EXCEPT ![w] = NoJob]
      /\ pools' = [pools EXCEPT ![k] = Append(pools[k], c)] /\ open' = open
  BY <1>k, PutHasRoom DEF GiveBack, Put
<1>2. /\ c \in Clients /\ c # NoClient /\ c \in open /\ k \in Keys
      /\ \A v \in Workers \ {w} : Client(v) # c
      /\ \A j \in Keys : c \notin Idle(j)
  BY <1>1, BusyFacts DEF IInv, JobInv
<1>3. /\ Append(pools[k], c) \in Seq(Clients) /\ IsInjective(Append(pools[k], c))
      /\ ToSet(Append(pools[k], c)) = Idle(k) \cup {c}
      /\ Len(Append(pools[k], c)) = Len(pools[k]) + 1
  <2>1. pools[k] \in Seq(Clients) /\ IsInjective(pools[k]) /\ c \notin ToSet(pools[k])
    BY <1>2 DEF IInv, TypeOK, OwnInv, Idle
  <2> QED
    BY <1>2, <2>1, AppendFacts DEF Idle
<1>4. /\ pools'[k] = Append(pools[k], c) /\ Idle(k)' = Idle(k) \cup {c}
      /\ \A j \in Keys \ {k} : pools'[j] = pools[j] /\ Idle(j)' = Idle(j)
      /\ pools' \in [Keys -> Seq(Clients)]
  <2> DEFINE s == Append(pools[k], c)
  <2>1. s \in Seq(Clients) /\ ToSet(s) = Idle(k) \cup {c} /\ pools' = [pools EXCEPT ![k] = s]
    BY <1>1, <1>3
  <2>2. k \in Keys /\ pools \in [Keys -> Seq(Clients)]
    BY <1>2 DEF IInv, TypeOK
  <2> HIDE DEF s
  <2>3. pools'[k] = s /\ (\A j \in Keys \ {k} : pools'[j] = pools[j])
        /\ pools' \in [Keys -> Seq(Clients)]
    BY <2>1, <2>2
  <2>4. ToSet(pools'[k]) = Idle(k) \cup {c}
    BY <2>1, <2>3
  <2> QED
    BY <2>3, <2>4 DEF s, Idle
<1>5. /\ pc' \in [Workers -> PCs] /\ job' \in [Workers -> JobType]
      /\ pc'[w] = "idle" /\ job'[w] = NoJob /\ Client(w)' = NoClient
      /\ \A v \in Workers \ {w} :
             pc'[v] = pc[v] /\ job'[v] = job[v] /\ Client(v)' = Client(v)
  BY <1>1, Frame, NoJobFields DEF IInv, PCs
<1>6. NoClient \notin Idle(k)' /\ \A j \in Keys : NoClient \notin Idle(j)
  BY <1>2, <1>4, IdleClients DEF IInv
<1> HIDE DEF c
<1>7. TypeOK'
  BY <1>1, <1>4, <1>5 DEF IInv, TypeOK, PCs, JobType
<1>8. OwnInv'
  <2>1. \A v, u \in Workers : Client(v)' = Client(u)' /\ Client(v)' # NoClient => v = u
    BY <1>5 DEF IInv, OwnInv
  <2>2. \A j \in Keys : IsInjective(pools'[j])
    BY <1>3, <1>4 DEF IInv, OwnInv
  <2>3. \A j \in Keys, v \in Workers : Client(v)' \notin Idle(j)'
    BY <1>2, <1>4, <1>5, <1>6 DEF IInv, OwnInv
  <2>4. \A i, j \in Keys : \A d \in Idle(i)' : d \in Idle(j)' => i = j
    BY <1>2, <1>4 DEF IInv, OwnInv
  <2> QED
    BY <2>1, <2>2, <2>3, <2>4 DEF OwnInv
<1>9. LeakInv'
  <2>1. ASSUME NEW d \in open PROVE (\E j \in Keys : d \in Idle(j)') \/ (\E v \in Workers : Client(v)' = d)
    <3>1. CASE d = c
      BY <1>2, <1>4, <3>1
    <3>2. CASE d # c
      BY <1>2, <1>4, <1>5, <3>2 DEF IInv, LeakInv, c
    <3> QED
      BY <3>1, <3>2
  <2>2. \A j \in Keys : Idle(j)' \subseteq open
    BY <1>2, <1>4 DEF IInv, LeakInv
  <2> QED
    BY <1>1, <2>1, <2>2 DEF LeakInv
<1>10. JobInv'
  BY <1>1, <1>5 DEF IInv, JobInv
<1>11. CountInv'
  <2>1. \A v \in Workers : pc'[v] # "idle" /\ ~job'[v].replaced =>
             sent'[Client(v)'] = job'[v].start + job'[v].mine
    BY <1>1, <1>5 DEF IInv, CountInv
  <2>2. ASSUME NEW d \in Clients, \A j \in Keys : d \notin Idle(j)', \A v \in Workers : Client(v)' # d
        PROVE  sent'[d] = 0
    <3>1. d # c
      BY <1>2, <1>4, <2>2
    <3>2. (\A j \in Keys : d \notin Idle(j)) /\ (\A v \in Workers : Client(v) # d)
      BY <1>2, <1>4, <1>5, <2>2, <3>1 DEF c
    <3> QED
      BY <1>1, <3>2 DEF IInv, CountInv
  <2> QED
    BY <2>1, <2>2 DEF CountInv
<1>12. AlwaysRoom'
  <2> SUFFICES ASSUME NEW j \in Keys
               PROVE  Len(pools'[j]) + Cardinality(Holders(j)') <= Size
    BY DEF AlwaysRoom, Size
  <2>1. Len(pools[j]) \in Nat /\ Len(pools[j]) + Cardinality(Holders(j)) <= Size
    BY DEF IInv, TypeOK, AlwaysRoom
  <2>2. CASE j = k
    <3>1. Holders(k)' = Holders(k) \ {w} /\ w \in Holders(k)
      BY <1>k, <1>5, NoJobFields, PoolAssumption DEF Holders
    <3>2. Cardinality(Holders(k)') = Cardinality(Holders(k)) - 1
      BY <3>1, HoldersFinite, FS_RemoveElement
    <3> QED
      BY <1>3, <1>4, <2>1, <2>2, <3>2, HoldersFinite
  <2>3. CASE j # k
    <3>1. Holders(j)' = Holders(j)
      BY <1>k, <1>5, <2>3, NoJobFields, PoolAssumption DEF Holders
    <3> QED
      BY <1>4, <2>1, <2>3, <3>1
  <2> QED
    BY <2>2, <2>3
<1> QED
  BY <1>7, <1>8, <1>9, <1>10, <1>11, <1>12 DEF IInv

-----------------------------------------------------------------------------
LEMMA NextInv == IInv /\ [Next]_vars => IInv'
<1> SUFFICES ASSUME IInv, [Next]_vars PROVE IInv'
  OBVIOUS
<1>1. CASE UNCHANGED vars
  <2>1. /\ \A k \in Keys : Idle(k)' = Idle(k)
        /\ \A w \in Workers : Client(w)' = Client(w)
    BY <1>1 DEF vars, Idle, Client
  <2>2. AlwaysRoom'
    BY <1>1, SameRoom DEF vars
  <2>3. TypeOK' /\ JobInv'
    BY <1>1, <2>1 DEF vars, IInv, TypeOK, JobInv
  <2> QED
    BY <1>1, <2>1, <2>2, <2>3 DEF vars, IInv, OwnInv, LeakInv, CountInv
<1>2. CASE Next
  <2>1. PICK w \in Workers :
            \/ \E k \in Keys : GetReused(w, k) \/ GetNew(w, k)
            \/ Connect(w) \/ ConnectFails(w) \/ Exchange(w) \/ ExchangeStale(w)
            \/ Reconnect(w) \/ ReconnectFails(w) \/ ExchangeFails(w) \/ ExchangesEnd(w)
            \/ GiveBack(w) \/ CloseFailed(w)
    BY <1>2 DEF Next
  <2> QED
    BY <2>1, GetReusedInv, GetNewInv, ConnectInv, ConnectFailsInv, ExchangeInv, ExchangeStaleInv,
       ReconnectInv, EndsInv, GiveBackInv, CloseFailedInv
<1> QED
  BY <1>1, <1>2

LEMMA Inductive == Spec => []IInv
BY InitInv, NextInv, PTL DEF Spec

-----------------------------------------------------------------------------
\* The pool's channels, the counters and the workers keep their types.
THEOREM TypeCorrect == Spec => []TypeOK
<1>1. IInv => TypeOK
  BY DEF IInv
<1> QED
  BY Inductive, <1>1, PTL

\* Two requests never use the same connection, and none sits twice in the
\* pool (Get, Put).
THEOREM OneUser == Spec => []Exclusive
BY Inductive, InvImplies, PTL

\* No open connection is lost, and an idle one is open (Do, Put,
\* RetryStaleConnection).
THEOREM NoneLost == Spec => []NoLeak
BY Inductive, InvImplies, PTL

\* A channel with a place for each worker never overflows (Put).
THEOREM NeverFull == Spec => []AlwaysRoom
<1>1. IInv => AlwaysRoom
  BY DEF IInv
<1> QED
  BY Inductive, <1>1, PTL

\* The counts that a request reports are its own as long as it keeps its
\* client (Do's startMetrics).
THEOREM CountsAreOwn == Spec => []DeltaExact
BY Inductive, InvImplies, PTL
=============================================================================
