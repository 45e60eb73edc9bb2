---------------------------- MODULE NnPool_proofs ----------------------------
(***************************************************************************)
(* Theorems about NnPool for any number of threads and starting nodes, any *)
(* thread that may not be created and any interruption.  The strengthening *)
(* says what a recorder holds at every moment: the nodes of its worker's   *)
(* chunk from the first to the one under way, in order and without a gap.  *)
(***************************************************************************)
EXTENDS NnPool, TLAPS, SequenceTheorems

Labels == {"absent", "loop", "submit", "exit"}

TypeInv ==
  /\ sol \in [tour : Tours, cost : Nat]
  /\ mainPc \in {"create", "join", "done", "undefined"}
  /\ next \in Workers
  /\ recorder \in Seq(Entry)
  /\ local \in [Workers -> Seq(Entry) \cup {None}]
  /\ pc \in [Workers -> Labels]
  /\ s \in [Workers -> Nat]
  /\ cur \in [Workers -> Tours \cup {None}]
  /\ over \in [Workers -> BOOLEAN]

\* What a worker has and where it is in its chunk.
WorkerOf(w) ==
  /\ StartNode(w) <= s[w] /\ s[w] <= EndNode(w)
  /\ pc[w] = "submit" => cur[w] \in Tours /\ s[w] < EndNode(w)
  /\ pc[w] \in {"loop", "submit"} => local[w] # None
  /\ pc[w] = "absent" => s[w] = StartNode(w) /\ local[w] = None
  /\ pc[w] = "exit" /\ ~over[w] => s[w] = EndNode(w)

\* The starting nodes behind worker w, and the one it has recorded already but not submitted.
Behind(w) == s[w] - StartNode(w)
Recorded(w) == IF pc[w] = "submit" THEN Behind(w) + 1 ELSE Behind(w)

RecordOf(w) ==
  local[w] # None =>
    /\ Len(local[w]) = Recorded(w)
    /\ \A i \in 1 .. Recorded(w) : local[w][i].start = StartNode(w) + i - 1
    /\ \A i \in 1 .. Behind(w) : sol.cost <= local[w][i].cost + Eps
    /\ pc[w] = "submit" => local[w][Recorded(w)].cost = TrueCost[cur[w]]

WorkersInv == \A w \in Workers : WorkerOf(w) /\ RecordOf(w)

Joined(w) == mainPc = "done" \/ (mainPc = "join" /\ w < next)

\* Threads that are still to be created, and the recorders that are still to be
\* merged; a joined worker has ended.
PhaseInv ==
  /\ mainPc = "create" => \A w \in Workers : w >= next => pc[w] = "absent"
  /\ \A w \in Workers : Joined(w) => pc[w] \in {"absent", "exit"}
  /\ mainPc \in {"create", "join"} =>
       \A w \in Workers : pc[w] # "absent" /\ ~Joined(w) => local[w] # None

\* A record in the order of the nodes, all of them before node n; the record of the nodes
\* from n on; a record with no cost below c; a record with an entry for node n.
AscendsBelow(rec, n) ==
  /\ \A i, j \in 1 .. Len(rec) : i < j => rec[i].start < rec[j].start
  /\ \A i \in 1 .. Len(rec) : rec[i].start < n
ListsFrom(rec, n) == \A i \in 1 .. Len(rec) : rec[i].start = n + i - 1
NoneBelow(rec, c) == \A i \in 1 .. Len(rec) : c <= rec[i].cost + Eps
Has(rec, n) == \E i \in 1 .. Len(rec) : rec[i].start = n

Ascending == \A i, j \in 1 .. Len(recorder) : i < j => recorder[i].start < recorder[j].start
ListedOf(w) ==
  \A n \in StartNode(w) .. EndNode(w) - 1 : \E i \in 1 .. Len(recorder) : recorder[i].start = n
MergedInv ==
  /\ Ascending
  /\ mainPc = "create" => recorder = <<>>
  /\ mainPc = "join" => \A i \in 1 .. Len(recorder) : recorder[i].start < StartNode(next)
  /\ \A i \in 1 .. Len(recorder) : sol.cost <= recorder[i].cost + Eps
  /\ \A w \in Workers : Joined(w) /\ pc[w] = "exit" /\ ~over[w] => ListedOf(w)

IInv == TypeInv /\ WorkersInv /\ PhaseInv /\ MergedInv

-----------------------------------------------------------------------------
\* Whole division: the chunks fit, one node more per thread would not.
LEMMA Quotient ==
  ASSUME NEW a \in Nat, NEW b \in Nat \ {0}
  PROVE  /\ a \div b \in Nat
         /\ (a \div b) * b <= a
         /\ a < (a \div b) * b + b
OBVIOUS

\* There is at least one thread and no more threads than starting nodes.
LEMMA Threads == NumThreads \in Nat \ {0} /\ NumThreads <= NumNodes /\ NumNodes \in Nat \ {0}
BY PoolAssumption DEF NumThreads

\* No chunk is empty, and together they do not exceed the starting nodes.
LEMMA Chunk == ChunkSize \in Nat \ {0} /\ ChunkSize * NumThreads <= NumNodes
<1>1. /\ NumNodes \div NumThreads \in Nat
      /\ (NumNodes \div NumThreads) * NumThreads <= NumNodes
      /\ NumNodes < (NumNodes \div NumThreads) * NumThreads + NumThreads
  BY Threads, Quotient
<1>2. NumNodes \div NumThreads # 0
  BY <1>1, Threads
<1> QED
  BY <1>1, <1>2 DEF ChunkSize

\* A product grows with its factor: the chunks lie one behind the other.
LEMMA Monotone ==
  ASSUME NEW a \in Nat, NEW b \in Nat, NEW c \in Nat, a <= b
  PROVE  a * c <= b * c
<1>1. PICK d \in Nat : b = a + d
  BY b - a \in Nat, b = a + (b - a)
<1>2. b * c = a * c + d * c /\ d * c \in Nat /\ a * c \in Nat
  BY <1>1
<1> QED
  BY <1>2

\* The chunks lie one after the other and end with the last node.
LEMMA Chunks ==
  ASSUME NEW w \in Workers
  PROVE  /\ StartNode(w) \in Nat /\ EndNode(w) \in Nat
         /\ StartNode(w) <= EndNode(w) /\ EndNode(w) <= NumNodes
         /\ w + 1 \in Workers => EndNode(w) = StartNode(w + 1)
         /\ w + 1 \notin Workers => EndNode(w) = NumNodes
<1> DEFINE C == ChunkSize
<1>1. C \in Nat \ {0} /\ NumThreads * C <= NumNodes /\ NumNodes \in Nat /\ NumThreads \in Nat
  BY Chunk, Threads
<1>2. w \in Nat /\ w + 1 <= NumThreads
  BY <1>1 DEF Workers
<1>3. (w + 1) * C <= NumThreads * C
  BY <1>1, <1>2, Monotone
<1>4. w * C \in Nat /\ (w + 1) * C \in Nat /\ w * C <= (w + 1) * C
  BY <1>1, <1>2, Monotone
<1> HIDE DEF C
<1>5. StartNode(w) = w * C /\ StartNode(w + 1) = (w + 1) * C
  BY DEF StartNode, C
<1>6. EndNode(w) = IF w = NumThreads - 1 THEN NumNodes ELSE (w + 1) * C
  BY DEF EndNode, C
<1>7. w + 1 \in Workers <=> w # NumThreads - 1
  BY <1>1, <1>2 DEF Workers
<1> QED
  BY <1>1, <1>3, <1>4, <1>5, <1>6, <1>7

\* Every starting node lies in a chunk.
LEMMA Cover ==
  ASSUME NEW n \in Starts
  PROVE  \E w \in Workers : n \in StartNode(w) .. EndNode(w) - 1
<1>1. ChunkSize \in Nat \ {0} /\ NumThreads \in Nat \ {0} /\ NumNodes \in Nat /\ n \in Nat /\ n < NumNodes
  BY Chunk, Threads DEF Starts
<1> DEFINE q == n \div ChunkSize
<1>2. q \in Nat /\ q * ChunkSize <= n /\ n < q * ChunkSize + ChunkSize
  BY <1>1, Quotient
<1> HIDE DEF q
<1>3. CASE q < NumThreads - 1
  <2>1. q \in Workers /\ q # NumThreads - 1
    BY <1>1, <1>2, <1>3 DEF Workers
  <2>2. (q + 1) * ChunkSize = q * ChunkSize + ChunkSize /\ q * ChunkSize \in Nat
    BY <1>1, <1>2
  <2>3. StartNode(q) <= n /\ n < EndNode(q) /\ StartNode(q) \in Nat /\ EndNode(q) \in Nat
    BY <1>1, <1>2, <2>1, <2>2, Chunks DEF StartNode, EndNode
  <2> QED
    BY <1>1, <2>1, <2>3
<1>4. CASE q >= NumThreads - 1
  <2> DEFINE w == NumThreads - 1
  <2>1. w \in Workers /\ w \in Nat
    BY <1>1 DEF Workers
  <2>2. w * ChunkSize <= q * ChunkSize /\ w * ChunkSize \in Nat /\ q * ChunkSize \in Nat
    BY <1>1, <1>2, <1>4, <2>1, Monotone
  <2>3. StartNode(w) <= n /\ n < EndNode(w) /\ StartNode(w) \in Nat /\ EndNode(w) \in Nat
    BY <1>1, <1>2, <2>1, <2>2, Chunks DEF StartNode, EndNode
  <2> QED
    BY <1>1, <2>1, <2>3
<1> QED
  BY <1>1, <1>2, <1>3, <1>4

-----------------------------------------------------------------------------
\* The invariant holds when run_nn starts its loops.
LEMMA InitIInv == Init => IInv
<1> SUFFICES ASSUME Init PROVE IInv
  OBVIOUS
<1>1. TypeInv
  <2>1. 0 \in Workers
    BY Threads DEF Workers
  <2>2. s \in [Workers -> Nat]
    BY Chunks DEF Init
  <2>3. recorder \in Seq(Entry)
    BY EmptySeq DEF Init
  <2> QED
    BY <2>1, <2>2, <2>3, PoolAssumption DEF Init, TypeInv, Labels
<1>2. WorkersInv
  BY Chunks DEF Init, WorkersInv, WorkerOf, RecordOf
<1>3. PhaseInv /\ MergedInv
  BY EmptySeq DEF Init, PhaseInv, MergedInv, Ascending, Joined
<1> QED
  BY <1>1, <1>2, <1>3 DEF IInv

\* A loop of main goes on to its next worker or hands over to the next loop.
LEMMA AdvanceStays ==
  ASSUME next \in Workers, NEW from, NEW to, Advance(from, to)
  PROVE  /\ next' \in Workers
         /\ \/ mainPc' = from /\ next' = next + 1 /\ next + 1 \in Workers
            \/ mainPc' = to /\ next' = 0 /\ next + 1 \notin Workers
<1>1. CASE next + 1 < NumThreads
  BY <1>1, Threads DEF Advance, Workers
<1>2. CASE ~(next + 1 < NumThreads)
  BY <1>2, Threads DEF Advance, Workers
<1> QED
  BY <1>1, <1>2

\* The chunks are the same in every state.
LEMMA ChunksStay ==
  ASSUME NEW w \in Workers
  PROVE  StartNode(w)' = StartNode(w) /\ EndNode(w)' = EndNode(w)
BY DEF StartNode, EndNode

\* A cheaper incumbent is still at least as good as what a record holds.
LEMMA CheaperStays ==
  ASSUME NEW rec \in Seq(Entry), NEW n \in 0 .. Len(rec), NEW c \in Nat, NEW d \in Nat, d <= c,
         \A i \in 1 .. n : c <= rec[i].cost + Eps
  PROVE  \A i \in 1 .. n : d <= rec[i].cost + Eps
<1> SUFFICES ASSUME NEW i \in 1 .. n PROVE d <= rec[i].cost + Eps
  OBVIOUS
<1>1. Len(rec) \in Nat /\ i \in 1 .. Len(rec)
  BY LenProperties
<1>2. rec[i] \in Entry
  BY <1>1, ElementOfSeq
<1>3. rec[i].cost \in Nat
  BY <1>2 DEF Entry
<1> QED
  BY <1>3, PoolAssumption

\* A step of worker w that leaves the solution alone, or makes it cheaper,
\* leaves the other workers alone.
LEMMA OthersKeep ==
  ASSUME TypeInv, WorkersInv, NEW w \in Workers, sol'.cost \in Nat, sol'.cost <= sol.cost,
         \A v \in Workers \ {w} : /\ pc'[v] = pc[v] /\ local'[v] = local[v] /\ s'[v] = s[v]
                                  /\ cur'[v] = cur[v] /\ over'[v] = over[v],
         WorkerOf(w)', RecordOf(w)'
  PROVE  WorkersInv'
<1>1. ASSUME NEW v \in Workers, v # w
      PROVE  WorkerOf(v)' /\ RecordOf(v)'
  <2>1. WorkerOf(v) /\ RecordOf(v)
    BY DEF WorkersInv
  <2>2. /\ pc'[v] = pc[v] /\ local'[v] = local[v] /\ s'[v] = s[v] /\ cur'[v] = cur[v]
        /\ over'[v] = over[v] /\ StartNode(v)' = StartNode(v) /\ EndNode(v)' = EndNode(v)
    BY <1>1, ChunksStay
  <2>3. Behind(v)' = Behind(v) /\ Recorded(v)' = Recorded(v)
    BY <2>2 DEF Recorded, Behind
  <2>4. Behind(v) \in Nat /\ Behind(v) <= Recorded(v)
    BY <2>1, Chunks DEF WorkerOf, Recorded, Behind, TypeInv
  <2>5. local[v] # None => \A i \in 1 .. Behind(v) : sol'.cost <= local[v][i].cost + Eps
    <3> SUFFICES ASSUME local[v] # None
                 PROVE  \A i \in 1 .. Behind(v) : sol'.cost <= local[v][i].cost + Eps
      OBVIOUS
    <3>1. local[v] \in Seq(Entry) /\ sol.cost \in Nat
      BY DEF TypeInv
    <3>2. Behind(v) \in 0 .. Len(local[v]) /\ \A i \in 1 .. Behind(v) : sol.cost <= local[v][i].cost + Eps
      BY <2>1, <2>4, <3>1, LenProperties DEF RecordOf
    <3> QED
      BY <3>1, <3>2, CheaperStays
  <2> QED
    BY <2>1, <2>2, <2>3, <2>5 DEF WorkerOf, RecordOf
<1> QED
  BY <1>1 DEF WorkersInv

\* A worker that still runs is not joined, so its steps disturb neither the phases nor what
\* the merged record lists.
LEMMA MainKeeps ==
  ASSUME IInv, NEW w \in Workers, pc[w] \in {"loop", "submit"},
         UNCHANGED <<mainPc, next, recorder>>, sol'.cost \in Nat, sol'.cost <= sol.cost,
         local'[w] # None, pc'[w] \in {"loop", "submit", "exit"},
         \A v \in Workers \ {w} : pc'[v] = pc[v] /\ local'[v] = local[v] /\ over'[v] = over[v]
  PROVE  PhaseInv' /\ MergedInv'
<1> USE DEF IInv
<1>1. ~Joined(w) /\ \A v \in Workers : Joined(v)' <=> Joined(v)
  BY DEF PhaseInv, Joined
<1>2. PhaseInv'
  BY <1>1 DEF PhaseInv, Joined
<1>3. \A i \in 1 .. Len(recorder) : sol'.cost <= recorder[i].cost + Eps
  <2>1. recorder \in Seq(Entry) /\ sol.cost \in Nat /\ Len(recorder) \in 0 .. Len(recorder)
    BY LenProperties DEF TypeInv
  <2> QED
    BY <2>1, CheaperStays DEF MergedInv
<1>4. MergedInv'
  BY <1>1, <1>3 DEF MergedInv, Ascending, ListedOf, StartNode, EndNode
<1> QED
  BY <1>2, <1>4

-----------------------------------------------------------------------------
\* Creating a thread, or failing to, keeps the invariant.
LEMMA CreateKeeps == IInv /\ Create => IInv'
<1> SUFFICES ASSUME IInv, Create PROVE IInv'
  OBVIOUS
<1> USE DEF IInv
<1>1. /\ next \in Workers /\ mainPc = "create" /\ recorder = <<>> /\ recorder' = <<>>
      /\ next' \in Workers
      /\ \/ mainPc' = "create" /\ next' = next + 1
         \/ mainPc' = "join" /\ next' = 0 /\ next + 1 \notin Workers
  BY AdvanceStays DEF Create, TypeInv, MergedInv
<1>2. /\ pc' \in [Workers -> Labels] /\ local' \in [Workers -> Seq(Entry) \cup {None}]
      /\ \A w \in Workers : w # next => pc'[w] = pc[w] /\ local'[w] = local[w]
      /\ \/ pc'[next] = "loop" /\ local'[next] = <<>>
         \/ pc'[next] = "absent" /\ pc'[next] = pc[next] /\ local'[next] = local[next]
  <2>1. pc[next] = "absent" /\ <<>> \in Seq(Entry)
    BY <1>1, EmptySeq DEF PhaseInv, Workers
  <2>2. CASE pc' = [pc EXCEPT ![next] = "loop"] /\ local' = [local EXCEPT ![next] = <<>>]
    BY <1>1, <2>1, <2>2 DEF TypeInv, Labels
  <2>3. CASE UNCHANGED <<pc, local>>
    BY <1>1, <2>1, <2>3 DEF TypeInv
  <2> QED
    BY <2>2, <2>3 DEF Create
<1>3. TypeInv'
  BY <1>1, <1>2 DEF Create, TypeInv
<1>4. <<>> # None
  BY EmptySeq, PoolAssumption
<1>5. ASSUME NEW w \in Workers
      PROVE  WorkerOf(w)' /\ RecordOf(w)'
  <2>1. WorkerOf(w) /\ RecordOf(w) /\ UNCHANGED <<sol, s, cur, over>>
    BY DEF WorkersInv, Create
  <2>2. StartNode(w)' = StartNode(w) /\ EndNode(w)' = EndNode(w)
    BY ChunksStay
  <2>3. CASE pc'[w] = pc[w] /\ local'[w] = local[w]
    BY <2>1, <2>2, <2>3 DEF WorkerOf, RecordOf, Recorded, Behind
  <2>4. CASE w = next /\ pc'[w] = "loop" /\ local'[w] = <<>>
    <3>1. pc[w] = "absent"
      BY <1>1, <2>4 DEF PhaseInv, Workers
    <3>2. s[w] = StartNode(w) /\ StartNode(w) \in Nat /\ EndNode(w) \in Nat /\ StartNode(w) <= EndNode(w)
      BY <2>1, <3>1, Chunks DEF WorkerOf
    <3>3. WorkerOf(w)'
      BY <1>4, <2>1, <2>2, <2>4, <3>2 DEF WorkerOf
    <3>4. Recorded(w)' = 0 /\ Behind(w)' = 0 /\ Len(local'[w]) = 0
      BY <2>1, <2>2, <2>4, <3>2 DEF Recorded, Behind
    <3>5. RecordOf(w)'
      BY <2>4, <3>4 DEF RecordOf
    <3> QED
      BY <3>3, <3>5
  <2> QED
    BY <1>2, <2>3, <2>4
<1>7. WorkersInv'
  BY <1>5 DEF WorkersInv
<1>8. \A w \in Workers : ~Joined(w) /\ ~Joined(w)'
  BY <1>1, Threads DEF Joined, Workers
<1>9. PhaseInv'
  <2>1. mainPc' = "create" => \A w \in Workers : w >= next' => pc'[w] = "absent"
    BY <1>1, <1>2 DEF PhaseInv, Workers
  <2>2. \A w \in Workers : pc'[w] # "absent" => local'[w] # None
    BY <1>1, <1>2, <1>4, <1>8 DEF PhaseInv
  <2> QED
    BY <1>8, <2>1, <2>2 DEF PhaseInv
<1>10. MergedInv'
  <2>1. Len(<<>>) = 0
    OBVIOUS
  <2> QED
    BY <1>1, <1>8, <2>1 DEF MergedInv, Ascending
<1> QED
  BY <1>3, <1>7, <1>9, <1>10

\* A record that ends before node n, followed by the record of the nodes from n
\* to n + Len(l) - 1: it stays in order and nothing is missing from either.
LEMMA Appended ==
  ASSUME NEW rec \in Seq(Entry), NEW l \in Seq(Entry), NEW n \in Nat, NEW c,
         AscendsBelow(rec, n), ListsFrom(l, n), NoneBelow(rec, c), NoneBelow(l, c)
  PROVE  /\ rec \o l \in Seq(Entry)
         /\ AscendsBelow(rec \o l, n + Len(l))
         /\ NoneBelow(rec \o l, c)
         /\ \A m \in n .. n + Len(l) - 1 : Has(rec \o l, m)
         /\ \A m : Has(rec, m) => Has(rec \o l, m)
<1> DEFINE r == Len(rec)
           b == Len(l)
           both == rec \o l
<1>1. r \in Nat /\ b \in Nat /\ both \in Seq(Entry) /\ Len(both) = r + b
  BY ConcatProperties, LenProperties
<1>2. \A i \in 1 .. r + b : both[i] = IF i <= r THEN rec[i] ELSE l[i - r]
  BY ConcatProperties
<1>3. /\ \A i \in 1 .. r : rec[i].start < n /\ c <= rec[i].cost + Eps
      /\ \A i, j \in 1 .. r : i < j => rec[i].start < rec[j].start
      /\ \A i \in 1 .. b : l[i].start = n + i - 1 /\ c <= l[i].cost + Eps
  BY DEF AscendsBelow, ListsFrom, NoneBelow
<1>4. ASSUME NEW i \in 1 .. r
      PROVE  rec[i].start \in Nat /\ rec[i].start < n /\ both[i] = rec[i] /\ i \in 1 .. r + b
  <2>1. rec[i] \in Entry
    BY ElementOfSeq
  <2>2. rec[i].start \in Nat
    BY <2>1 DEF Entry, Starts
  <2> HIDE DEF both
  <2> QED
    BY <1>1, <1>2, <1>3, <2>2
<1>5. ASSUME NEW i \in 1 .. b
      PROVE  /\ both[r + i] = l[i] /\ r + i \in 1 .. r + b
             /\ both[r + i].start = n + i - 1
  <2> HIDE DEF r, b, both
  <2>1. r + i \in 1 .. r + b /\ ~(r + i <= r) /\ r + i - r = i
    BY <1>1
  <2>2. both[r + i] = l[r + i - r]
    BY <1>1, <1>2, <2>1
  <2>3. both[r + i] = l[i]
    BY <2>1, <2>2
  <2> QED
    BY <1>3, <2>1, <2>3
<1>6. ASSUME NEW i \in 1 .. r + b
      PROVE  i \in 1 .. r \/ (\E k \in 1 .. b : i = r + k)
  <2> HIDE DEF r, b
  <2>1. i > r => i - r \in 1 .. b /\ i = r + (i - r)
    BY <1>1
  <2> QED
    BY <1>1, <2>1
<1>7. \A i, j \in 1 .. r + b : i < j => both[i].start < both[j].start
  <2> SUFFICES ASSUME NEW i \in 1 .. r + b, NEW j \in 1 .. r + b, i < j
               PROVE  both[i].start < both[j].start
    OBVIOUS
  <2>1. CASE i \in 1 .. r /\ j \in 1 .. r
    BY <1>4, <1>3, <2>1
  <2>2. ASSUME i \in 1 .. r, NEW k \in 1 .. b, j = r + k
        PROVE  both[i].start < both[j].start
    <3>1. both[i] = rec[i] /\ rec[i].start \in Nat /\ rec[i].start < n /\ both[j].start = n + k - 1
      BY <1>4, <1>5, <2>2
    <3> QED
      BY <3>1
  <2>3. ASSUME NEW k \in 1 .. b, i = r + k, NEW k2 \in 1 .. b, j = r + k2
        PROVE  both[i].start < both[j].start
    <3>1. both[i].start = n + k - 1 /\ both[j].start = n + k2 - 1
      BY <1>5, <2>3
    <3> HIDE DEF r, b, both
    <3> QED
      BY <1>1, <2>3, <3>1
  <2>4. ~(j \in 1 .. r /\ \E k \in 1 .. b : i = r + k)
    <3> HIDE DEF r, b
    <3> QED
      BY <1>1
  <2> QED
    BY <1>6, <2>1, <2>2, <2>3, <2>4
<1>8. \A i \in 1 .. r + b : both[i].start < n + b /\ c <= both[i].cost + Eps
  <2> SUFFICES ASSUME NEW i \in 1 .. r + b
               PROVE  both[i].start < n + b /\ c <= both[i].cost + Eps
    OBVIOUS
  <2>1. CASE i \in 1 .. r
    <3>1. both[i] = rec[i] /\ rec[i].start \in Nat /\ rec[i].start < n /\ c <= rec[i].cost + Eps
      BY <1>4, <1>3, <2>1
    <3> HIDE DEF r, b, both
    <3> QED
      BY <1>1, <3>1
  <2>2. ASSUME NEW k \in 1 .. b, i = r + k
        PROVE  both[i].start < n + b /\ c <= both[i].cost + Eps
    <3>1. both[i] = l[k] /\ both[i].start = n + k - 1 /\ c <= l[k].cost + Eps
      BY <1>5, <1>3, <2>2
    <3> HIDE DEF r, b, both
    <3> QED
      BY <1>1, <3>1
  <2> QED
    BY <1>6, <2>1, <2>2
<1>9. ASSUME NEW m \in n .. n + b - 1
      PROVE  \E i \in 1 .. r + b : both[i].start = m
  <2> HIDE DEF r, b, both
  <2>1. m - n + 1 \in 1 .. b /\ n + (m - n + 1) - 1 = m
    BY <1>1
  <2> QED
    BY <1>5, <2>1
<1>10. \A i \in 1 .. r : \E j \in 1 .. r + b : both[j].start = rec[i].start
  BY <1>4
<1> QED
  BY <1>1, <1>7, <1>8, <1>9, <1>10 DEF AscendsBelow, NoneBelow, Has

\* What the merged record lists when a worker's record is appended to it: the
\* entries it had, then the nodes behind the worker.
LEMMA JoinKeeps == IInv /\ Join => IInv'
<1> SUFFICES ASSUME IInv, Join PROVE IInv'
  OBVIOUS
<1> USE DEF IInv
<1>1. /\ next \in Workers /\ mainPc = "join"
      /\ UNCHANGED <<sol, pc, s, cur, over>>
  BY DEF Join, TypeInv
<1>2. \A w \in Workers : StartNode(w)' = StartNode(w) /\ EndNode(w)' = EndNode(w)
  BY ChunksStay
<1>3. CASE pc[next] = "exit"
  <2>1. /\ recorder' = recorder \o local[next]
        /\ local' = [local EXCEPT ![next] = None]
        /\ next' \in Workers
        /\ \/ mainPc' = "join" /\ next' = next + 1
           \/ mainPc' = "done" /\ next' = 0 /\ next + 1 \notin Workers
    BY <1>1, <1>3, AdvanceStays DEF Join
  <2> DEFINE b == Behind(next)
             l == local[next]
             EndBehind == StartNode(next) + b
  <2>2. ~Joined(next) /\ l # None /\ l \in Seq(Entry) /\ recorder \in Seq(Entry)
    BY <1>1, <1>3, Threads DEF Joined, PhaseInv, TypeInv, Workers
  <2>3. WorkerOf(next) /\ RecordOf(next)
    BY <1>1 DEF WorkersInv
  <2>4. StartNode(next) \in Nat /\ EndNode(next) \in Nat /\ s[next] \in Nat
    BY <1>1, Chunks DEF TypeInv
  <2>5. /\ b \in Nat /\ StartNode(next) + b <= EndNode(next) /\ Len(l) = b
        /\ \A i \in 1 .. b : l[i].start = StartNode(next) + i - 1 /\ sol.cost <= l[i].cost + Eps
        /\ ~over[next] => StartNode(next) + b = EndNode(next)
    BY <1>3, <2>2, <2>3, <2>4 DEF WorkerOf, RecordOf, Recorded, Behind
  <2> HIDE DEF b, l
  <2>6. /\ recorder' \in Seq(Entry)
        /\ AscendsBelow(recorder', EndBehind)
        /\ NoneBelow(recorder', sol.cost)
        /\ \A m \in StartNode(next) .. EndBehind - 1 : Has(recorder', m)
        /\ \A m : Has(recorder, m) => Has(recorder', m)
    <3>1. AscendsBelow(recorder, StartNode(next)) /\ NoneBelow(recorder, sol.cost)
      BY <1>1 DEF MergedInv, Ascending, AscendsBelow, NoneBelow
    <3>2. ListsFrom(l, StartNode(next)) /\ NoneBelow(l, sol.cost)
      BY <2>5 DEF ListsFrom, NoneBelow
    <3>3. recorder' = recorder \o l /\ EndBehind = StartNode(next) + Len(l)
      BY <2>1, <2>5 DEF l
    <3> QED
      BY <2>2, <2>4, <3>1, <3>2, <3>3, Appended
  <2>8. TypeInv'
    BY <1>1, <2>1, <2>6 DEF TypeInv
  <2>9. WorkersInv'
    <3> SUFFICES ASSUME NEW w \in Workers PROVE WorkerOf(w)' /\ RecordOf(w)'
      BY DEF WorkersInv
    <3>1. CASE w = next
      BY <1>1, <1>2, <1>3, <2>1, <2>3, <3>1 DEF WorkerOf, RecordOf, TypeInv
    <3>2. CASE w # next
      <4>1. WorkerOf(w) /\ RecordOf(w) /\ local'[w] = local[w]
        BY <2>1, <3>2 DEF WorkersInv, TypeInv
      <4> QED
        BY <1>1, <1>2, <4>1 DEF WorkerOf, RecordOf, Recorded, Behind
    <3> QED
      BY <3>1, <3>2
  <2>10. \A w \in Workers : Joined(w)' => Joined(w) \/ w = next
    BY <1>1, <2>1, Threads DEF Joined, Workers
  <2>11. PhaseInv'
    <3>1. \A w \in Workers : Joined(w)' => pc'[w] \in {"absent", "exit"}
      BY <1>1, <1>3, <2>10 DEF PhaseInv
    <3>2. ASSUME NEW w \in Workers, mainPc' = "join", ~Joined(w)'
          PROVE  ~Joined(w) /\ w # next
      <4>1. next' = next + 1 /\ next \in Nat /\ w \in Nat /\ ~(w < next')
        BY <1>1, <2>1, <3>2, Threads DEF Joined, Workers
      <4> QED
        BY <1>1, <4>1 DEF Joined
    <3>3. \A w \in Workers : mainPc' = "join" /\ pc'[w] # "absent" /\ ~Joined(w)' => local'[w] # None
      BY <1>1, <2>1, <3>2 DEF PhaseInv, TypeInv
    <3> QED
      BY <2>1, <3>1, <3>3 DEF PhaseInv
  <2>13. mainPc' = "join" => \A i \in 1 .. Len(recorder') : recorder'[i].start < StartNode(next')
    <3> SUFFICES ASSUME mainPc' = "join", NEW i \in 1 .. Len(recorder')
                 PROVE  recorder'[i].start < StartNode(next')
      OBVIOUS
    <3>1. next' = next + 1 /\ EndNode(next) = StartNode(next')
      BY <1>1, <2>1, Chunks
    <3>2. recorder'[i] \in Entry
      BY <2>6, ElementOfSeq
    <3>3. recorder'[i].start \in Nat /\ recorder'[i].start < EndBehind
      BY <2>6, <3>2 DEF Entry, Starts, AscendsBelow
    <3> QED
      BY <2>4, <2>5, <3>1, <3>3
  <2>15. ASSUME NEW w \in Workers, Joined(w)', pc'[w] = "exit", ~over'[w]
         PROVE  ListedOf(w)'
    <3> SUFFICES ASSUME NEW n \in StartNode(w) .. EndNode(w) - 1
                 PROVE  \E i \in 1 .. Len(recorder') : recorder'[i].start = n
      BY <1>2 DEF ListedOf
    <3>1. CASE w = next
      <4>1. StartNode(next) + b = EndNode(next)
        BY <1>1, <2>5, <2>15, <3>1
      <4>2. n \in StartNode(next) .. StartNode(next) + b - 1
        BY <2>4, <2>5, <3>1, <4>1
      <4>3. Has(recorder', n)
        BY <2>4, <2>5, <2>6, <4>2
      <4> QED
        BY <4>3 DEF Has
    <3>2. CASE w # next
      <4>1. Joined(w) /\ pc[w] = "exit" /\ ~over[w]
        BY <1>1, <2>10, <2>15, <3>2
      <4>2. PICK i \in 1 .. Len(recorder) : recorder[i].start = n
        BY <4>1 DEF MergedInv, ListedOf
      <4> QED
        BY <2>6, <4>2 DEF Has
    <3> QED
      BY <3>1, <3>2
  <2>16. MergedInv'
    BY <1>1, <2>1, <2>6, <2>13, <2>15 DEF MergedInv, Ascending, AscendsBelow, NoneBelow
  <2> QED
    BY <2>8, <2>9, <2>11, <2>16
<1>4. CASE pc[next] = "absent"
  <2>1. /\ UNCHANGED <<recorder, local>> /\ next' \in Workers
        /\ \/ mainPc' = "join" /\ next' = next + 1 /\ next + 1 \in Workers
           \/ mainPc' = "done" /\ next' = 0 /\ next + 1 \notin Workers
           \/ mainPc' = "undefined"
    BY <1>1, <1>4, AdvanceStays DEF Join
  <2>2. TypeInv'
    BY <1>1, <2>1 DEF TypeInv
  <2>3. WorkersInv'
    <3> SUFFICES ASSUME NEW w \in Workers PROVE WorkerOf(w)' /\ RecordOf(w)'
      BY DEF WorkersInv
    <3>1. WorkerOf(w) /\ RecordOf(w)
      BY DEF WorkersInv
    <3> QED
      BY <1>1, <1>2, <2>1, <3>1 DEF WorkerOf, RecordOf, Recorded, Behind
  <2>4. \A w \in Workers : Joined(w)' => Joined(w) \/ w = next
    BY <1>1, <2>1, Threads DEF Joined, Workers
  <2>5. PhaseInv'
    BY <1>1, <1>4, <2>1, <2>4, Threads DEF PhaseInv, Joined, Workers
  <2>6. mainPc' = "join" => \A i \in 1 .. Len(recorder) : recorder[i].start < StartNode(next')
    <3> SUFFICES ASSUME mainPc' = "join", NEW i \in 1 .. Len(recorder)
                 PROVE  recorder[i].start < StartNode(next')
      OBVIOUS
    <3>1. /\ StartNode(next) \in Nat /\ EndNode(next) \in Nat
          /\ StartNode(next) <= EndNode(next) /\ EndNode(next) = StartNode(next')
      BY <1>1, <2>1, Chunks
    <3>2. recorder[i].start < StartNode(next) /\ recorder[i].start \in Nat
      <4>1. recorder[i] \in Entry
        BY ElementOfSeq DEF TypeInv
      <4> QED
        BY <1>1, <4>1 DEF MergedInv, Entry, Starts
    <3> QED
      BY <3>1, <3>2
  <2>7. \A w \in Workers : Joined(w)' /\ pc'[w] = "exit" /\ ~over'[w] => ListedOf(w)'
    <3> SUFFICES ASSUME NEW w \in Workers, Joined(w)', pc[w] = "exit", ~over[w]
                 PROVE  ListedOf(w)'
      BY <1>1
    <3>1. ListedOf(w)
      BY <1>4, <2>4 DEF MergedInv
    <3> QED
      BY <1>2, <2>1, <3>1 DEF ListedOf
  <2>8. MergedInv'
    BY <1>1, <2>1, <2>6, <2>7 DEF MergedInv, Ascending
  <2> QED
    BY <2>2, <2>3, <2>5, <2>8
<1> QED
  BY <1>3, <1>4 DEF Join

\* A tour from the next starting node goes to the worker's own recorder.
LEMMA BuildKeeps == ASSUME NEW w \in Workers PROVE IInv /\ Build(w) => IInv'
<1> SUFFICES ASSUME IInv, Build(w) PROVE IInv'
  OBVIOUS
<1> USE DEF IInv
<1>1. PICK t \in Found[s[w]] : cur' = [cur EXCEPT ![w] = t]
                              /\ local' = [local EXCEPT ![w] = Append(@, [start |-> s[w], cost |-> TrueCost[t]])]
  BY DEF Build
<1>2. /\ pc[w] = "loop" /\ s[w] < EndNode(w) /\ pc' = [pc EXCEPT ![w] = "submit"]
      /\ UNCHANGED <<sol, mainPc, next, recorder, s, over>>
  BY DEF Build, Goto
<1>3. /\ StartNode(w) \in Nat /\ EndNode(w) \in Nat /\ EndNode(w) <= NumNodes /\ s[w] \in Nat
      /\ sol.cost \in Nat /\ local[w] # None /\ local[w] \in Seq(Entry)
      /\ WorkerOf(w) /\ RecordOf(w)
  BY <1>2, Chunks DEF TypeInv, WorkersInv, WorkerOf
<1>4. s[w] \in Starts /\ t \in Tours
  BY <1>2, <1>3, Threads, PoolAssumption DEF Starts
<1> DEFINE e == [start |-> s[w], cost |-> TrueCost[t]]
           l == Append(local[w], e)
<1>5. e \in Entry /\ e.start = s[w] /\ e.cost = TrueCost[t]
  BY <1>4, PoolAssumption DEF Entry
<1>6. /\ l \in Seq(Entry) /\ l # None /\ Len(l) = Len(local[w]) + 1
      /\ \A i \in 1 .. Len(local[w]) : l[i] = local[w][i]
      /\ l[Len(local[w]) + 1] = e
  <2> HIDE DEF e
  <2>1. l \in Seq(Entry) /\ Len(l) = Len(local[w]) + 1
        /\ (\A i \in 1 .. Len(local[w]) : l[i] = local[w][i]) /\ l[Len(local[w]) + 1] = e
    BY <1>3, <1>5, AppendProperties
  <2> QED
    BY <2>1, PoolAssumption
<1> HIDE DEF l, e
<1>7. /\ local' = [local EXCEPT ![w] = l] /\ local'[w] = l /\ cur'[w] = t /\ pc'[w] = "submit" /\ s'[w] = s[w]
      /\ \A v \in Workers \ {w} : /\ pc'[v] = pc[v] /\ local'[v] = local[v] /\ s'[v] = s[v]
                                  /\ cur'[v] = cur[v] /\ over'[v] = over[v]
  BY <1>1, <1>2 DEF TypeInv, l, e
<1>8. TypeInv'
  BY <1>1, <1>2, <1>4, <1>6, <1>7 DEF TypeInv, Labels
<1>9. WorkerOf(w)'
  BY <1>2, <1>3, <1>4, <1>6, <1>7, ChunksStay DEF WorkerOf
<1>10. RecordOf(w)'
  <2> DEFINE b == Behind(w)
  <2>1. b \in Nat /\ Recorded(w) = b /\ Recorded(w)' = b + 1 /\ Behind(w)' = b /\ s[w] = StartNode(w) + b
    BY <1>2, <1>3, <1>7, ChunksStay DEF WorkerOf, Recorded, Behind
  <2>2. /\ Len(local[w]) = b
        /\ \A i \in 1 .. b : local[w][i].start = StartNode(w) + i - 1 /\ sol.cost <= local[w][i].cost + Eps
    BY <1>3, <2>1 DEF RecordOf
  <2> HIDE DEF b
  <2>3. /\ \A i \in 1 .. b : l[i].start = StartNode(w) + i - 1 /\ sol.cost <= l[i].cost + Eps
        /\ l[b + 1].start = StartNode(w) + (b + 1) - 1 /\ l[b + 1].cost = TrueCost[t] /\ Len(l) = b + 1
    <3>1. /\ \A i \in 1 .. b : l[i] = local[w][i]
          /\ l[b + 1] = e /\ Len(l) = b + 1
      BY <1>6, <2>2
    <3>2. \A i \in 1 .. b : l[i].start = StartNode(w) + i - 1 /\ sol.cost <= l[i].cost + Eps
      BY <2>2, <3>1
    <3>3. e.start = StartNode(w) + (b + 1) - 1
      BY <1>3, <1>5, <2>1
    <3> QED
      BY <1>5, <3>1, <3>2, <3>3
  <2>4. \A i \in 1 .. b + 1 : l[i].start = StartNode(w) + i - 1
    <3>1. \A i \in 1 .. b + 1 : i \in 1 .. b \/ i = b + 1
      BY <2>1
    <3> QED
      BY <2>3, <3>1
  <2> QED
    BY <1>2, <1>7, <2>1, <2>3, <2>4, ChunksStay DEF RecordOf
<1>11. WorkersInv'
  BY <1>2, <1>3, <1>7, <1>9, <1>10, OthersKeep
<1>12. PhaseInv' /\ MergedInv'
  BY <1>2, <1>3, <1>6, <1>7, MainKeeps
<1> QED
  BY <1>8, <1>11, <1>12

\* After a submission the incumbent is as good as what was just recorded.
LEMMA SubmitKeeps == ASSUME NEW w \in Workers PROVE IInv /\ Submit(w) => IInv'
<1> SUFFICES ASSUME IInv, Submit(w) PROVE IInv'
  OBVIOUS
<1> USE DEF IInv
<1>1. /\ pc[w] = "submit" /\ pc' = [pc EXCEPT ![w] = "loop"] /\ s' = [s EXCEPT ![w] = @ + 1]
      /\ UNCHANGED <<mainPc, next, recorder, local, cur, over>>
  BY DEF Submit, Goto
<1>2. /\ StartNode(w) \in Nat /\ EndNode(w) \in Nat /\ s[w] \in Nat /\ sol.cost \in Nat
      /\ local[w] # None /\ local[w] \in Seq(Entry) /\ cur[w] \in Tours /\ TrueCost[cur[w]] \in Nat
      /\ WorkerOf(w) /\ RecordOf(w)
  BY <1>1, Chunks, PoolAssumption DEF TypeInv, WorkersInv, WorkerOf
<1>3. /\ sol' \in [tour : Tours, cost : Nat] /\ sol'.cost \in Nat
      /\ sol'.cost <= sol.cost /\ sol'.cost <= TrueCost[cur[w]] + Eps
  <2>1. CASE TrueCost[cur[w]] < sol.cost - Eps
    BY <1>2, <2>1, PoolAssumption DEF Submit
  <2>2. CASE ~(TrueCost[cur[w]] < sol.cost - Eps)
    BY <1>2, <2>2, PoolAssumption DEF Submit, TypeInv
  <2> QED
    BY <2>1, <2>2
<1>4. /\ pc'[w] = "loop" /\ s'[w] = s[w] + 1 /\ local'[w] = local[w]
      /\ \A v \in Workers \ {w} : /\ pc'[v] = pc[v] /\ local'[v] = local[v] /\ s'[v] = s[v]
                                  /\ cur'[v] = cur[v] /\ over'[v] = over[v]
  BY <1>1 DEF TypeInv
<1>5. TypeInv'
  BY <1>1, <1>2, <1>3 DEF TypeInv, Labels
<1>6. WorkerOf(w)'
  BY <1>1, <1>2, <1>4, ChunksStay DEF WorkerOf
<1>7. RecordOf(w)'
  <2> DEFINE b == Behind(w)
  <2>1. b \in Nat /\ Recorded(w) = b + 1 /\ Recorded(w)' = b + 1 /\ Behind(w)' = b + 1
    BY <1>1, <1>2, <1>4, ChunksStay DEF WorkerOf, Recorded, Behind
  <2>2. /\ Len(local[w]) = b + 1
        /\ \A i \in 1 .. b + 1 : local[w][i].start = StartNode(w) + i - 1
        /\ \A i \in 1 .. b : sol.cost <= local[w][i].cost + Eps
        /\ local[w][b + 1].cost = TrueCost[cur[w]]
    BY <1>1, <1>2, <2>1 DEF RecordOf
  <2> HIDE DEF b
  <2>3. \A i \in 1 .. b : sol'.cost <= local[w][i].cost + Eps
    <3>1. b \in 0 .. Len(local[w])
      BY <2>1, <2>2
    <3> QED
      BY <1>2, <1>3, <2>2, <3>1, CheaperStays
  <2>4. \A i \in 1 .. b + 1 : sol'.cost <= local[w][i].cost + Eps
    <3>1. \A i \in 1 .. b + 1 : i \in 1 .. b \/ i = b + 1
      BY <2>1
    <3> QED
      BY <1>3, <2>2, <2>3, <3>1
  <2> QED
    BY <1>4, <2>1, <2>2, <2>4, ChunksStay DEF RecordOf
<1>8. WorkersInv'
  BY <1>3, <1>4, <1>6, <1>7, OthersKeep
<1>9. PhaseInv' /\ MergedInv'
  BY <1>1, <1>2, <1>3, <1>4, MainKeeps
<1> QED
  BY <1>5, <1>8, <1>9

\* A worker leaves its loop at the end of its chunk or when time is over.
LEMMA LeaveKeeps == ASSUME NEW w \in Workers PROVE IInv /\ Leave(w) => IInv'
<1> SUFFICES ASSUME IInv, Leave(w) PROVE IInv'
  OBVIOUS
<1> USE DEF IInv
<1>1. /\ pc[w] = "loop" /\ (s[w] >= EndNode(w) \/ over[w]) /\ pc' = [pc EXCEPT ![w] = "exit"]
      /\ UNCHANGED <<sol, mainPc, next, recorder, local, s, cur, over>>
  BY DEF Leave, Goto
<1>2. /\ StartNode(w) \in Nat /\ EndNode(w) \in Nat /\ s[w] \in Nat /\ sol.cost \in Nat
      /\ local[w] # None /\ over[w] \in BOOLEAN /\ WorkerOf(w) /\ RecordOf(w)
  BY <1>1, Chunks DEF TypeInv, WorkersInv, WorkerOf
<1>3. /\ pc'[w] = "exit"
      /\ \A v \in Workers \ {w} : /\ pc'[v] = pc[v] /\ local'[v] = local[v] /\ s'[v] = s[v]
                                  /\ cur'[v] = cur[v] /\ over'[v] = over[v]
  BY <1>1 DEF TypeInv
<1>4. TypeInv'
  BY <1>1 DEF TypeInv, Labels
<1>5. WorkerOf(w)' /\ RecordOf(w)'
  <2>1. StartNode(w)' = StartNode(w) /\ EndNode(w)' = EndNode(w)
    BY ChunksStay
  <2>2. WorkerOf(w)'
    BY <1>1, <1>2, <1>3, <2>1 DEF WorkerOf
  <2>3. Behind(w)' = Behind(w) /\ Recorded(w)' = Recorded(w)
    BY <1>1, <1>3, <2>1 DEF Recorded, Behind
  <2> QED
    BY <1>1, <1>2, <1>3, <2>1, <2>2, <2>3 DEF RecordOf
<1>6. WorkersInv'
  BY <1>1, <1>2, <1>3, <1>5, OthersKeep
<1>7. PhaseInv' /\ MergedInv'
  BY <1>1, <1>2, <1>3, MainKeeps
<1> QED
  BY <1>4, <1>6, <1>7

\* The clock striking changes nothing but what a worker may do next.
LEMMA ExpireKeeps == ASSUME NEW w \in Workers PROVE IInv /\ Expire(w) => IInv'
<1> SUFFICES ASSUME IInv, Expire(w) PROVE IInv'
  OBVIOUS
<1> USE DEF IInv
<1>1. /\ pc[w] \in {"loop", "submit"} /\ over' = [over EXCEPT ![w] = TRUE]
      /\ UNCHANGED <<sol, mainPc, next, recorder, local, pc, s, cur>>
  BY DEF Expire
<1>2. sol.cost \in Nat /\ local[w] # None /\ WorkerOf(w) /\ RecordOf(w)
  BY <1>1 DEF TypeInv, WorkersInv, WorkerOf
<1>3. /\ sol'.cost <= sol.cost /\ sol'.cost \in Nat /\ pc'[w] = pc[w] /\ local'[w] # None
      /\ \A v \in Workers \ {w} : /\ pc'[v] = pc[v] /\ local'[v] = local[v] /\ s'[v] = s[v]
                                  /\ cur'[v] = cur[v] /\ over'[v] = over[v]
  BY <1>1, <1>2 DEF TypeInv
<1>4. TypeInv'
  BY <1>1 DEF TypeInv
<1>5. WorkerOf(w)' /\ RecordOf(w)'
  <2>1. StartNode(w)' = StartNode(w) /\ EndNode(w)' = EndNode(w)
    BY ChunksStay
  <2>2. Behind(w)' = Behind(w) /\ Recorded(w)' = Recorded(w)
    BY <1>1, <2>1 DEF Recorded, Behind
  <2> QED
    BY <1>1, <1>2, <2>1, <2>2 DEF WorkerOf, RecordOf
<1>6. WorkersInv'
  BY <1>1, <1>2, <1>3, <1>5, OthersKeep
<1>7. PhaseInv' /\ MergedInv'
  BY <1>1, <1>2, <1>3, MainKeeps
<1> QED
  BY <1>4, <1>6, <1>7

-----------------------------------------------------------------------------
\* Every step keeps the invariant.
LEMMA NextIInv == IInv /\ [Next]_vars => IInv'
<1>1. CASE UNCHANGED vars
  BY <1>1 DEF vars, IInv, TypeInv, WorkersInv, WorkerOf, RecordOf, Recorded, Behind, StartNode, EndNode,
              PhaseInv, MergedInv, Ascending, ListedOf, Joined
<1> QED
  BY <1>1, CreateKeeps, JoinKeeps, BuildKeeps, SubmitKeeps, LeaveKeeps, ExpireKeeps
     DEF Next, Main, Worker, Stop

\* In every reachable state a recorder holds exactly what its worker has done so
\* far, and the merged record what the joined workers have.
THEOREM Inductive == Spec => []IInv
BY InitIInv, NextIInv, PTL DEF Spec

\* No worker writes to a recorder that run_nn has destroyed.
THEOREM LocalsAreThere == Spec => []NoUseAfterFree
<1>1. IInv => NoUseAfterFree
  BY DEF IInv, WorkersInv, WorkerOf, NoUseAfterFree
<1> QED
  BY <1>1, Inductive, PTL

\* The merged record is in ascending order of the starting nodes, each at most
\* once.
THEOREM MergedInOrder == Spec => []RecordInStartOrder
<1>1. IInv => RecordInStartOrder
  BY DEF IInv, MergedInv, Ascending, RecordInStartOrder
<1> QED
  BY <1>1, Inductive, PTL

\* Every starting node is recorded when nothing cut the run short, the rest of
\* the division by the number of threads included.
THEOREM EveryStartRecorded == Spec => []NoStartLost
<1>1. IInv => NoStartLost
  <2> SUFFICES ASSUME IInv, mainPc = "done", \A w \in Workers : pc[w] = "exit" /\ ~over[w]
               PROVE  {recorder[i].start : i \in 1 .. Len(recorder)} = Starts
    BY DEF NoStartLost
  <2>1. ASSUME NEW i \in 1 .. Len(recorder)
        PROVE  recorder[i].start \in Starts
    <3>1. recorder[i] \in Entry
      BY ElementOfSeq DEF IInv, TypeInv
    <3> QED
      BY <3>1 DEF Entry
  <2>2. ASSUME NEW n \in Starts
        PROVE  \E i \in 1 .. Len(recorder) : recorder[i].start = n
    <3>1. PICK w \in Workers : n \in StartNode(w) .. EndNode(w) - 1
      BY Cover
    <3>2. Joined(w) /\ pc[w] = "exit" /\ ~over[w]
      BY DEF Joined
    <3>3. ListedOf(w)
      BY <3>2 DEF IInv, MergedInv
    <3> QED
      BY <3>1, <3>3 DEF ListedOf
  <2> QED
    BY <2>1, <2>2
<1> QED
  BY <1>1, Inductive, PTL

\* The incumbent run_nn leaves is at least as good as every cost it recorded.
THEOREM NothingRecordedIsBetter == Spec => []BestOfRecorded
<1>1. IInv => BestOfRecorded
  BY DEF IInv, MergedInv, BestOfRecorded
<1> QED
  BY <1>1, Inductive, PTL
=============================================================================
