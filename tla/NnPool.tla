------------------------------- MODULE NnPool -------------------------------
(***************************************************************************)
(* tsp_algo_lib/src/algorithm/nearest_neighbor.c: run_nn splits the        *)
(* starting nodes into chunks, one thread per chunk, every thread with a   *)
(* CostRecorder of its own, and merges the recorders as it joins.          *)
(*                                                                         *)
(* A recorded cost is kept together with the starting node it came from,   *)
(* so that properties can speak of the order of the record.                *)
(***************************************************************************)
EXTENDS Integers, Sequences

CONSTANTS
  NumNodes,
  CfgThreads,    \* cfg->num_threads, 0 for automatic
  MaxThreads,    \* get_max_threads()
  Tours, Identity, TrueCost, Eps,
  Found,         \* the tours two_opt can leave for each starting node
  TimeLimited,   \* can the time limit strike during the run?
  MayFail,       \* can pthread_create fail?
  None

Starts == 0 .. NumNodes - 1

\* num_threads: zero means automatic, and never more threads than nodes.
NumThreads ==
  LET t == IF CfgThreads > 0 THEN CfgThreads ELSE MaxThreads
  IN  IF t > NumNodes THEN NumNodes ELSE t

Workers == 0 .. NumThreads - 1

\* What a recorder holds for a starting node.
Entry == [start : Starts, cost : Nat]

ASSUME PoolAssumption ==
  /\ NumNodes \in Nat \ {0}
  /\ CfgThreads \in Nat
  /\ MaxThreads \in Nat \ {0}
  /\ Identity \in Tours
  /\ TrueCost \in [Tours -> Nat]
  /\ Eps \in Nat
  /\ Found \in [Starts -> (SUBSET Tours) \ {{}}]
  /\ TimeLimited \in BOOLEAN
  /\ MayFail \in BOOLEAN
  /\ None \notin Tours \cup Seq(Entry)

\* start_node and end_node of a worker's chunk; the last one takes the rest.
ChunkSize == NumNodes \div NumThreads
StartNode(w) == w * ChunkSize

\* Wrong: a chunk reaches into the next one.
EndNodeOverlaps(w) == IF w = NumThreads - 1 THEN NumNodes ELSE (w + 1) * ChunkSize + 1

\* Wrong: nobody takes the rest of the division.
EndNodeWithoutRest(w) == (w + 1) * ChunkSize

EndNode(w) == IF w = NumThreads - 1 THEN NumNodes ELSE (w + 1) * ChunkSize

VARIABLES
  sol,       \* the shared TspSolution, one atomic call per step
  mainPc,    \* run_nn
  next,      \* its loop variable i
  recorder,  \* the caller's recorder: [start, cost] entries
  local,     \* args[i].local_recorder, None once destroyed
  pc,        \* each nn_worker
  s,         \* its starting node
  cur,       \* its tour
  over       \* its timer has passed the limit

vars == <<sol, mainPc, next, recorder, local, pc, s, cur, over>>

Init ==
  /\ sol = [tour |-> Identity, cost |-> TrueCost[Identity]]
  /\ mainPc = "create"
  /\ next = 0
  /\ recorder = <<>>
  /\ local = [w \in Workers |-> None]
  /\ pc = [w \in Workers |-> "absent"]
  /\ s = [w \in Workers |-> StartNode(w)]
  /\ cur = [w \in Workers |-> None]
  /\ over = [w \in Workers |-> FALSE]

Advance(from, to) ==
  /\ next' = IF next + 1 < NumThreads THEN next + 1 ELSE 0
  /\ mainPc' = IF next + 1 < NumThreads THEN from ELSE to

\* Wrong: the recorder is destroyed whether the thread was created or not.
CreateAndDestroy ==
  /\ mainPc = "create"
  /\ \/ pc' = [pc EXCEPT ![next] = "loop"]
     \/ MayFail /\ UNCHANGED pc
  /\ Advance("create", "join")
  /\ UNCHANGED <<sol, recorder, local, s, cur, over>>

\* A fresh recorder and a thread; when the thread cannot be created, its
\* recorder is destroyed and its chunk is dropped.
Create ==
  /\ mainPc = "create"
  /\ \/ /\ pc' = [pc EXCEPT ![next] = "loop"]
        /\ local' = [local EXCEPT ![next] = <<>>]
     \/ /\ MayFail
        /\ UNCHANGED <<pc, local>>
  /\ Advance("create", "join")
  /\ UNCHANGED <<sol, recorder, s, cur, over>>

\* pthread_join, then the worker's record is appended and destroyed.  The
\* handle of a thread that was never created was not written: joining it
\* returns an error, or anything else happens.
Join ==
  /\ mainPc = "join"
  /\ \/ /\ pc[next] = "exit"
        /\ recorder' = recorder \o local[next]
        /\ local' = [local EXCEPT ![next] = None]
        /\ Advance("join", "done")
     \/ /\ pc[next] = "absent"
        /\ Advance("join", "done")
        /\ UNCHANGED <<recorder, local>>
     \/ /\ pc[next] = "absent"
        /\ mainPc' = "undefined"
        /\ UNCHANGED <<next, recorder, local>>
  /\ UNCHANGED <<sol, pc, s, cur, over>>

-----------------------------------------------------------------------------
Goto(w, label) == pc' = [pc EXCEPT ![w] = label]

\* nearest_neighbor_tour, two_opt and cost_recorder_add: all of it is local.
Build(w) ==
  /\ pc[w] = "loop"
  /\ s[w] < EndNode(w)
  /\ ~over[w]
  /\ \E t \in Found[s[w]] :
       /\ cur' = [cur EXCEPT ![w] = t]
       /\ local' = [local EXCEPT ![w] = Append(@, [start |-> s[w], cost |-> TrueCost[t]])]
  /\ Goto(w, "submit")
  /\ UNCHANGED <<sol, mainPc, next, recorder, s, over>>

\* Wrong: the operands of the comparison are exchanged.
SubmitSwapped(w) ==
  /\ pc[w] = "submit"
  /\ sol' = IF sol.cost < TrueCost[cur[w]] - Eps
            THEN [tour |-> cur[w], cost |-> TrueCost[cur[w]]] ELSE sol
  /\ s' = [s EXCEPT ![w] = @ + 1]
  /\ Goto(w, "loop")
  /\ UNCHANGED <<mainPc, next, recorder, local, cur, over>>

\* tsp_solution_update_if_better, and on to the next starting node.
Submit(w) ==
  /\ pc[w] = "submit"
  /\ sol' = IF TrueCost[cur[w]] < sol.cost - Eps
            THEN [tour |-> cur[w], cost |-> TrueCost[cur[w]]] ELSE sol
  /\ s' = [s EXCEPT ![w] = @ + 1]
  /\ Goto(w, "loop")
  /\ UNCHANGED <<mainPc, next, recorder, local, cur, over>>

\* Wrong: continue instead of break when the time is over.
LeaveContinues(w) ==
  /\ pc[w] = "loop"
  /\ s[w] >= EndNode(w) \/ over[w]
  /\ Goto(w, IF over[w] THEN "loop" ELSE "exit")
  /\ UNCHANGED <<sol, mainPc, next, recorder, local, s, cur, over>>

Leave(w) ==
  /\ pc[w] = "loop"
  /\ s[w] >= EndNode(w) \/ over[w]
  /\ Goto(w, "exit")
  /\ UNCHANGED <<sol, mainPc, next, recorder, local, s, cur, over>>

Expire(w) ==
  /\ TimeLimited
  /\ pc[w] \in {"loop", "submit"}
  /\ ~over[w]
  /\ over' = [over EXCEPT ![w] = TRUE]
  /\ UNCHANGED <<sol, mainPc, next, recorder, local, pc, s, cur>>

-----------------------------------------------------------------------------
Main == Create \/ Join
Worker(w) == Build(w) \/ Submit(w) \/ Leave(w)

Finished == mainPc \in {"done", "undefined"}
Stop == Finished /\ UNCHANGED vars

Next == Main \/ (\E w \in Workers : Worker(w) \/ Expire(w)) \/ Stop

\* The scheduler runs the calling thread and every worker.
Fairness == WF_vars(Main) /\ \A w \in Workers : WF_vars(Worker(w))

Spec == Init /\ [][Next]_vars /\ Fairness
-----------------------------------------------------------------------------
\* A worker never adds to a recorder that run_nn has destroyed, whichever
\* thread creations failed.
NoUseAfterFree == \A w \in Workers : pc[w] \in {"loop", "submit"} => local[w] # None

\* The record lists the starting nodes in ascending order, each at most once,
\* however the threads were scheduled, stopped by the clock or not created:
\* the chunks are disjoint and the joins are in the order of the chunks.
RecordInStartOrder ==
  \A i, j \in 1 .. Len(recorder) : i < j => recorder[i].start < recorder[j].start

\* Unless a thread is missing or was stopped, no starting node is left out,
\* the remainder of the division included.
NoStartLost ==
  mainPc = "done" /\ (\A w \in Workers : pc[w] = "exit" /\ ~over[w])
    => {recorder[i].start : i \in 1 .. Len(recorder)} = Starts

\* When run_nn returns, the incumbent is at least as good as every cost it
\* recorded: no candidate was recorded and then lost.
BestOfRecorded ==
  mainPc = "done" => \A i \in 1 .. Len(recorder) : sol.cost <= recorder[i].cost + Eps

\* run_nn returns, or joins a handle that was never written.
Terminates == <>Finished
=============================================================================
