--------------------------- MODULE Program_proofs ---------------------------
(***************************************************************************)
(* Theorems about the program and about the parallel run of an algorithm.  *)
(* ParallelRun, for any number of threads, any instance and any seeds: the *)
(* strengthening follows the cost a worker carries along, which is never   *)
(* above the cost of the tour it stands for, because the incumbent only    *)
(* gets cheaper between the two reads.  Solver, for any words, any lines   *)
(* and any files: a command line can be read as flags and values in one    *)
(* way only, a string of the options bears the name of the field it was    *)
(* made for, the text of every option is told from the words and the lines *)
(* read so far, and so is what was read of an instance file.               *)
(***************************************************************************)
EXTENDS Solver, ParallelRun, TLAPS, FiniteSetTheorems, SequenceTheorems, WellFoundedInduction

Labels == {"absent", "start", "read_cost", "search", "loop", "submit", "exit"}

\* What a worker holds at each of its labels.
HoldsOf(w) ==
  /\ pc[w] \in {"read_cost", "search"} => algo \in Readers /\ base[w] \in Tours
  /\ pc[w] = "loop" => algo \in Builders
  /\ pc[w] \in {"search", "submit"} => cur[w] \in [tour : Tours, cost : Int]
  /\ pc[w] = "search" => cur[w].tour = base[w]
  /\ pc[w] = "submit" /\ algo = "grasp" => iter[w] < NumNodes
  /\ stag[w] <= iter[w]

\* The cost a worker carries is at most that of the tour it carries.
CostOf(w) ==
  /\ pc[w] = "read_cost" => sol.cost <= TrueCost[base[w]]
  /\ pc[w] \in {"search", "submit"} => cur[w].cost <= TrueCost[cur[w].tour]

HoldsInv == \A w \in Workers : HoldsOf(w)
CostInv == NeverOverReported /\ \A w \in Workers : CostOf(w)

\* Threads that are still to be created, and those that are joined.
PhaseInv ==
  /\ mainPc = "create" => \A w \in Workers : w >= next => pc[w] = "absent"
  /\ mainPc = "join" => \A w \in Workers : w < next => pc[w] \in {"absent", "exit"}
  /\ mainPc \notin {"create", "join", "undefined"} => \A w \in Workers : pc[w] \in {"absent", "exit"}
  /\ freed => mainPc = "done"

IInv == TypeOK /\ HoldsInv /\ PhaseInv /\ CostInv

-----------------------------------------------------------------------------
\* The invariant holds when execute_and_report begins.
LEMMA InitIInv == Init => IInv
<1> SUFFICES ASSUME Init PROVE IInv
  OBVIOUS
<1>1. /\ sol \in [tour : Tours, cost : Int]
      /\ sol.cost = TrueCost[sol.tour] /\ TrueCost[sol.tour] \in Int
  BY RunAssumption DEF Init
<1>2. /\ next \in Workers
      /\ iter \in [Workers -> 0 .. NumNodes] /\ stag \in [Workers -> 0 .. NumNodes]
      /\ \A w \in Workers : stag[w] <= iter[w]
  BY RunAssumption DEF Init, Workers
<1>3. report \in Pair(Int \cup {None}) /\ cur \in [Workers -> Pair(Int \cup {None})]
  BY DEF Init, Pair
<1>4. TypeOK
  BY <1>1, <1>2, <1>3 DEF Init, TypeOK
<1>5. HoldsInv /\ PhaseInv
  BY <1>2 DEF Init, HoldsInv, HoldsOf, PhaseInv
<1>6. CostInv
  BY <1>1 DEF Init, CostInv, CostOf, NeverOverReported
<1> QED
  BY <1>4, <1>5, <1>6 DEF IInv

\* A loop of main goes on to its next worker or hands over to the next loop.
LEMMA AdvanceStays ==
  ASSUME next \in Workers, NEW from, NEW to, Advance(from, to)
  PROVE  /\ next' \in Workers
         /\ \/ mainPc' = from /\ next' = next + 1
            \/ mainPc' = to /\ next' = 0 /\ next = NumThreads - 1
<1>1. NumThreads \in Nat \ {0}
  BY RunAssumption
<1>2. CASE next + 1 < NumThreads
  BY <1>1, <1>2 DEF Advance, Workers
<1>3. CASE ~(next + 1 < NumThreads)
  BY <1>1, <1>3 DEF Advance, Workers
<1> QED
  BY <1>2, <1>3

\* The incumbent's cost can be compared, added and assigned.
LEMMA Costs ==
  ASSUME TypeOK
  PROVE  sol.cost \in Int /\ sol.tour \in Tours /\ Eps \in Nat /\ \A t \in Tours : TrueCost[t] \in Nat
BY RunAssumption DEF TypeOK

\* A step of worker w that leaves the solution alone leaves the others alone.
LEMMA OthersKeep ==
  ASSUME IInv, NEW w \in Workers, UNCHANGED <<sol, mainVars>>,
         \A v \in Workers \ {w} : /\ pc'[v] = pc[v] /\ base'[v] = base[v] /\ cur'[v] = cur[v]
                                  /\ iter'[v] = iter[v] /\ stag'[v] = stag[v],
         HoldsOf(w)', CostOf(w)'
  PROVE  HoldsInv' /\ CostInv'
<1>1. \A v \in Workers \ {w} : HoldsOf(v)' /\ CostOf(v)'
  BY DEF IInv, HoldsInv, CostInv, HoldsOf, CostOf, mainVars
<1> QED
  BY <1>1 DEF IInv, HoldsInv, CostInv, NeverOverReported

\* Main is past the joins only when every worker has gone, so a worker that
\* still runs does not disturb the phases.
LEMMA PhaseKept ==
  ASSUME IInv, NEW w \in Workers, UNCHANGED mainVars, Running(w),
         \A v \in Workers \ {w} : pc'[v] = pc[v]
  PROVE  PhaseInv'
BY DEF IInv, PhaseInv, Running, mainVars

-----------------------------------------------------------------------------
\* Every step keeps the invariant.
LEMMA NextIInv == IInv /\ [Next]_vars => IInv'
<1> SUFFICES ASSUME IInv, [Next]_vars PROVE IInv'
  OBVIOUS
<1> USE DEF IInv
<1>1. CASE Create
  <2>1. /\ next' \in Workers
        /\ \/ mainPc' = "create" /\ next' = next + 1
           \/ mainPc' = "join" /\ next' = 0
    <3>1. next \in Workers /\ Advance("create", "join")
      BY <1>1 DEF Create, TypeOK
    <3> QED
      BY <3>1, AdvanceStays
  <2>2. /\ pc' \in [Workers -> Labels]
        /\ \A w \in Workers : w # next => pc'[w] = pc[w]
        /\ \A w \in Workers : pc'[w] # pc[w] => pc'[w] = "start"
    BY <1>1 DEF Create, Labels, TypeOK
  <2>3. TypeOK'
    BY <1>1, <2>1, <2>2 DEF Create, TypeOK, Labels
  <2>4. HoldsInv' /\ CostInv'
    BY <1>1, <2>2 DEF Create, HoldsInv, HoldsOf, CostInv, CostOf, NeverOverReported
  <2>5. PhaseInv'
    BY <1>1, <2>1, <2>2 DEF Create, PhaseInv, Workers, TypeOK
  <2> QED
    BY <2>3, <2>4, <2>5
<1>2. CASE Join
  <2>1. /\ next' \in Workers
        /\ \/ pc[next] \in {"exit", "absent"} /\ mainPc' = "join" /\ next' = next + 1
           \/ /\ pc[next] \in {"exit", "absent"} /\ mainPc' \in {"record", "report_tour"}
              /\ next = NumThreads - 1
           \/ mainPc' = "undefined"
    <3>1. next \in Workers
      BY DEF TypeOK
    <3>2. CASE pc[next] \in {"exit", "absent"} /\ Advance("join", IF Parallel THEN "record" ELSE "report_tour")
      BY <3>1, <3>2, AdvanceStays
    <3>3. CASE mainPc' = "undefined" /\ UNCHANGED next
      BY <3>1, <3>3
    <3> QED
      BY <1>2, <3>2, <3>3 DEF Join
  <2>2. TypeOK'
    BY <1>2, <2>1 DEF Join, TypeOK, workVars
  <2>3. HoldsInv' /\ CostInv'
    BY <1>2 DEF Join, HoldsInv, HoldsOf, CostInv, CostOf, NeverOverReported, workVars
  <2>4. PhaseInv'
    <3>1. NumThreads \in Nat
      BY RunAssumption
    <3> QED
      BY <1>2, <2>1, <3>1 DEF Join, PhaseInv, workVars, Workers, TypeOK
  <2> QED
    BY <2>2, <2>3, <2>4
<1>3. CASE Record \/ ReportTour \/ ReportCost \/ Destroy
  <2>1. report' \in Pair(Int \cup {None})
    BY <1>3 DEF Record, ReportTour, ReportCost, Destroy, TypeOK, Pair
  <2>2. TypeOK'
    BY <1>3, <2>1 DEF Record, ReportTour, ReportCost, Destroy, TypeOK, workVars
  <2>3. HoldsInv' /\ CostInv'
    BY <1>3 DEF Record, ReportTour, ReportCost, Destroy, HoldsInv, HoldsOf, CostInv, CostOf,
                NeverOverReported, workVars
  <2>4. PhaseInv'
    BY <1>3 DEF Record, ReportTour, ReportCost, Destroy, PhaseInv, workVars
  <2> QED
    BY <2>2, <2>3, <2>4
<1>4. ASSUME NEW w \in Workers, ReadTour(w) PROVE IInv'
  <2> USE <1>4 DEF ReadTour, Goto
  <2>1. TypeOK'
    BY DEF TypeOK, mainVars
  <2>2. pc'[w] = "read_cost" /\ base'[w] = sol.tour /\ sol.tour \in Tours
    BY DEF TypeOK
  <2>3. HoldsOf(w)' /\ CostOf(w)'
    BY <2>2 DEF HoldsInv, HoldsOf, CostInv, CostOf, NeverOverReported, mainVars
  <2> QED
    BY <2>1, <2>3, OthersKeep, PhaseKept DEF Running
<1>5. ASSUME NEW w \in Workers, ReadCost(w) PROVE IInv'
  <2> USE <1>5 DEF ReadCost, Goto
  <2>1. base[w] \in Tours /\ sol.cost \in Int /\ sol.cost <= TrueCost[base[w]]
    BY DEF HoldsInv, HoldsOf, CostInv, CostOf, TypeOK
  <2>2. cur' \in [Workers -> Pair(Int \cup {None})]
    BY <2>1 DEF TypeOK, Pair
  <2>3. TypeOK'
    BY <2>2 DEF TypeOK, mainVars
  <2>4. pc'[w] = "search" /\ cur'[w] = [tour |-> base[w], cost |-> sol.cost]
    BY DEF TypeOK
  <2>5. HoldsOf(w)' /\ CostOf(w)'
    BY <2>1, <2>4 DEF HoldsInv, HoldsOf, CostOf, mainVars
  <2> QED
    BY <2>3, <2>5, OthersKeep, PhaseKept DEF Running
<1>6. ASSUME NEW w \in Workers, Search(w) PROVE IInv'
  <2> USE <1>6 DEF Search, Goto
  <2>1. /\ base[w] \in Tours /\ cur[w] \in [tour : Tours, cost : Int]
        /\ cur[w].cost <= TrueCost[base[w]]
    BY DEF HoldsInv, HoldsOf, CostInv, CostOf
  <2>2. Yield[<<w, 0>>] \subseteq Tours
    BY RunAssumption
  <2>3. PICK t \in Tours :
          cur' = [cur EXCEPT ![w] = [tour |-> t, cost |-> @.cost + (TrueCost[t] - TrueCost[base[w]])]]
    BY <2>1, <2>2
  <2>4. cur'[w] = [tour |-> t, cost |-> cur[w].cost + (TrueCost[t] - TrueCost[base[w]])]
    BY <2>3 DEF TypeOK
  <2>5. cur'[w] \in [tour : Tours, cost : Int] /\ cur'[w].cost <= TrueCost[t]
    BY <2>1, <2>4, Costs
  <2>6. cur' \in [Workers -> Pair(Int \cup {None})]
    BY <2>3, <2>4, <2>5 DEF TypeOK, Pair
  <2>7. TypeOK'
    BY <2>6 DEF TypeOK, mainVars
  <2>8. pc'[w] = "submit" /\ algo \in Readers
    BY DEF TypeOK, HoldsInv, HoldsOf
  <2>9. HoldsOf(w)' /\ CostOf(w)'
    BY <2>4, <2>5, <2>8 DEF HoldsInv, HoldsOf, CostOf, Readers, mainVars
  <2> QED
    BY <2>3, <2>7, <2>9, OthersKeep, PhaseKept DEF Running
<1>7. ASSUME NEW w \in Workers, Begin(w) \/ LeaveLoop(w) PROVE IInv'
  <2> USE <1>7 DEF Begin, LeaveLoop, Goto
  <2>1. TypeOK'
    BY DEF TypeOK, mainVars
  <2>2. pc'[w] \in {"loop", "exit"} /\ algo \in Builders
    BY DEF TypeOK, HoldsInv, HoldsOf
  <2>3. HoldsOf(w)' /\ CostOf(w)'
    BY <2>2 DEF HoldsInv, HoldsOf, CostOf, mainVars
  <2>4. /\ UNCHANGED <<sol, mainVars, base, cur, iter, stag>> /\ Running(w)
        /\ \A v \in Workers \ {w} : pc'[v] = pc[v]
    BY DEF TypeOK, Running
  <2>5. HoldsInv' /\ CostInv'
    BY <2>3, <2>4, OthersKeep
  <2>6. PhaseInv'
    BY <2>4, PhaseKept
  <2> QED
    BY <2>1, <2>5, <2>6
<1>8. ASSUME NEW w \in Workers, Build(w) PROVE IInv'
  <2> USE <1>8 DEF Build, Goto
  <2>1. iter[w] \in 0 .. NumNodes
    BY DEF TypeOK
  <2>2. Yield[<<w, iter[w]>>] \subseteq Tours
    BY <2>1, RunAssumption
  <2>3. PICK t \in Tours : cur' = [cur EXCEPT ![w] = [tour |-> t, cost |-> TrueCost[t]]]
    BY <2>2
  <2>4. /\ cur'[w] = [tour |-> t, cost |-> TrueCost[t]]
        /\ TrueCost[t] \in Nat
    BY <2>3, Costs DEF TypeOK
  <2>5. cur' \in [Workers -> Pair(Int \cup {None})]
    BY <2>3, <2>4 DEF TypeOK, Pair
  <2>6. TypeOK'
    BY <2>5 DEF TypeOK, mainVars
  <2>7. /\ pc'[w] = "submit" /\ algo \in Builders
        /\ algo = "grasp" => iter[w] < NumNodes
    BY DEF TypeOK, HoldsInv, HoldsOf, GoesOn
  <2>8. HoldsOf(w)' /\ CostOf(w)'
    BY <2>4, <2>7 DEF HoldsInv, HoldsOf, CostOf, mainVars
  <2> QED
    BY <2>3, <2>6, <2>8, OthersKeep, PhaseKept DEF Running
<1>9. ASSUME NEW w \in Workers, Submit(w) PROVE IInv'
  <2> USE <1>9 DEF Submit, Goto
  <2>1. /\ cur[w] \in [tour : Tours, cost : Int] /\ cur[w].cost <= TrueCost[cur[w].tour]
        /\ algo = "grasp" => iter[w] < NumNodes
        /\ stag[w] <= iter[w] /\ iter[w] \in 0 .. NumNodes /\ stag[w] \in 0 .. NumNodes
    BY DEF HoldsInv, HoldsOf, CostInv, CostOf, TypeOK
  <2>2. /\ sol' \in [tour : Tours, cost : Int] /\ sol'.cost <= TrueCost[sol'.tour]
        /\ sol'.cost <= sol.cost
    <3>1. CASE Improves(w)
      BY <2>1, <3>1, Costs DEF Improves
    <3>2. CASE ~Improves(w)
      BY <3>2, Costs DEF CostInv, NeverOverReported, TypeOK
    <3> QED
      BY <3>1, <3>2
  <2>3. /\ iter' \in [Workers -> 0 .. NumNodes] /\ stag' \in [Workers -> 0 .. NumNodes]
        /\ stag'[w] <= iter'[w]
    <3>1. NumNodes \in Nat
      BY RunAssumption
    <3>2. CASE algo = "grasp"
      <4>1. iter[w] + 1 \in 0 .. NumNodes /\ stag[w] + 1 \in 0 .. NumNodes
        BY <2>1, <3>1, <3>2
      <4>2. iter' = [iter EXCEPT ![w] = iter[w] + 1] /\ iter' \in [Workers -> 0 .. NumNodes]
        BY <3>2, <4>1 DEF TypeOK
      <4>3. /\ stag' \in [Workers -> 0 .. NumNodes]
            /\ stag'[w] \in {0, stag[w] + 1}
        BY <3>1, <3>2, <4>1 DEF TypeOK
      <4> QED
        BY <2>1, <4>2, <4>3 DEF TypeOK
    <3>3. CASE algo # "grasp"
      BY <2>1, <3>3 DEF TypeOK
    <3> QED
      BY <3>2, <3>3
  <2>4. pc' \in [Workers -> Labels] /\ pc'[w] \in {"loop", "exit"}
    BY DEF TypeOK, Labels
  <2>5. pc'[w] = "loop" => algo \in Builders
    BY DEF TypeOK, Builders
  <2>6. TypeOK'
    BY <2>2, <2>3, <2>4 DEF TypeOK, Labels, mainVars
  <2>7. \A v \in Workers \ {w} : /\ pc'[v] = pc[v] /\ base'[v] = base[v] /\ cur'[v] = cur[v]
                                 /\ iter'[v] = iter[v] /\ stag'[v] = stag[v]
    BY DEF TypeOK
  <2>8. HoldsOf(w)' /\ CostOf(w)'
    BY <2>3, <2>4, <2>5 DEF HoldsOf, CostOf, mainVars
  <2>9. ASSUME NEW v \in Workers \ {w} PROVE HoldsOf(v)' /\ CostOf(v)'
    <3>1. HoldsOf(v)'
      BY <2>7 DEF HoldsInv, HoldsOf, mainVars
    <3>2. CostOf(v)'
      <4>1. pc[v] = "read_cost" => base[v] \in Tours /\ sol.cost <= TrueCost[base[v]]
        BY DEF HoldsInv, HoldsOf, CostInv, CostOf
      <4>2. pc[v] = "read_cost" => sol'.cost <= TrueCost[base[v]]
        BY <2>2, <4>1, Costs
      <4> QED
        BY <2>7, <4>2 DEF CostInv, CostOf
    <3> QED
      BY <3>1, <3>2
  <2>10. HoldsInv' /\ CostInv'
    BY <2>2, <2>8, <2>9 DEF HoldsInv, CostInv, NeverOverReported
  <2> QED
    BY <2>6, <2>7, <2>10, PhaseKept DEF Running
<1>10. ASSUME NEW w \in Workers, Expire(w) PROVE IInv'
  BY <1>10 DEF Expire, TypeOK, HoldsInv, HoldsOf, CostInv, CostOf, NeverOverReported, PhaseInv, mainVars
<1>11. CASE UNCHANGED vars
  BY <1>11 DEF vars, TypeOK, HoldsInv, HoldsOf, CostInv, CostOf, NeverOverReported, PhaseInv,
               mainVars, workVars
<1> QED
  BY <1>1, <1>2, <1>3, <1>4, <1>5, <1>6, <1>7, <1>8, <1>9, <1>10, <1>11 DEF Next, Main, Worker, Stop

\* The inductive invariant holds throughout.
LEMMA Inductive == Spec => []IInv
BY InitIInv, NextIInv, PTL DEF Spec

-----------------------------------------------------------------------------
\* Every variable keeps its type.
THEOREM TypeCorrect == Spec => []TypeOK
<1>1. IInv => TypeOK
  BY DEF IInv
<1> QED
  BY <1>1, Inductive, PTL

\* The solution is freed only after the last call that could reach it.
THEOREM FreedLast == Spec => []NoUseAfterFree
<1>1. IInv => NoUseAfterFree
  BY DEF IInv, PhaseInv, NoUseAfterFree, Running
<1> QED
  BY <1>1, Inductive, PTL

\* The reported cost is at most the cost of the tour, whatever two reads a
\* worker's cost comes from.
THEOREM CostsAreNeverTooHigh == Spec => []NeverOverReported
<1>1. IInv => NeverOverReported
  BY DEF IInv, CostInv
<1> QED
  BY <1>1, Inductive, PTL

\* In an undisturbed run a worker's cost is the cost of its tour, and the tour
\* it has read is still the incumbent when it reads the cost.
ExactOf(w) ==
  /\ pc[w] = "read_cost" => base[w] = sol.tour
  /\ pc[w] \in {"search", "submit"} => cur[w].cost = TrueCost[cur[w].tour]

ExactInv == sol.cost = TrueCost[sol.tour] /\ \A w \in Workers : ExactOf(w)

\* A run never changes its algorithm.
LEMMA AlgoStays == [Next]_vars => algo' = algo
BY DEF Next, Main, Worker, Stop, vars, mainVars, Create, Join, Record, ReportTour, ReportCost, Destroy,
       ReadTour, ReadCost, Search, Begin, Build, LeaveLoop, Submit, Expire

\* Without a racing pair of reads every step keeps all costs exact.
LEMMA NextExact == Undisturbed /\ IInv /\ ExactInv /\ [Next]_vars => ExactInv'
<1> SUFFICES ASSUME Undisturbed, IInv, ExactInv, [Next]_vars PROVE ExactInv'
  OBVIOUS
<1> USE DEF ExactInv
<1>1. CASE Main
  <2>1. /\ UNCHANGED <<sol, base, cur>>
        /\ \A w \in Workers : pc'[w] \in {pc[w], "start"}
    BY <1>1 DEF Main, Create, Join, Record, ReportTour, ReportCost, Destroy, workVars, IInv, TypeOK
  <2> QED
    BY <2>1 DEF ExactOf
<1>2. ASSUME NEW w \in Workers, Worker(w), ~Submit(w) PROVE ExactInv'
  <2>1. \A v \in Workers \ {w} : ExactOf(v)'
    BY <1>2 DEF Worker, ReadTour, ReadCost, Search, Begin, Build, LeaveLoop, Goto, ExactOf, IInv, TypeOK
  <2>2. UNCHANGED sol
    BY <1>2 DEF Worker, ReadTour, ReadCost, Search, Begin, Build, LeaveLoop
  <2>3. CASE ReadTour(w) \/ Begin(w) \/ LeaveLoop(w)
    BY <2>3 DEF ReadTour, Begin, LeaveLoop, Goto, ExactOf, IInv, TypeOK
  <2>4. CASE ReadCost(w)
    BY <2>4 DEF ReadCost, Goto, ExactOf, IInv, TypeOK
  <2>5. CASE Search(w)
    <3>1. PICK t \in Yield[<<w, 0>>] \cup {base[w]} :
            cur' = [cur EXCEPT ![w] = [tour |-> t, cost |-> @.cost + (TrueCost[t] - TrueCost[base[w]])]]
      BY <2>5 DEF Search
    <3>2. t \in Tours /\ base[w] \in Tours /\ cur[w].tour = base[w]
      BY <2>5, RunAssumption DEF Search, IInv, HoldsInv, HoldsOf
    <3>3. cur[w].cost = TrueCost[base[w]]
      BY <2>5, <3>2 DEF Search, ExactOf
    <3>4. cur'[w] = [tour |-> t, cost |-> cur[w].cost + (TrueCost[t] - TrueCost[base[w]])]
      BY <3>1 DEF IInv, TypeOK
    <3>5. cur'[w].cost = TrueCost[cur'[w].tour]
      BY <3>2, <3>3, <3>4, Costs DEF IInv
    <3>6. pc'[w] = "submit"
      BY <2>5 DEF Search, Goto, IInv, TypeOK
    <3> QED
      BY <2>1, <2>2, <3>5, <3>6 DEF ExactOf
  <2>6. CASE Build(w)
    BY <2>6 DEF Build, Goto, ExactOf, IInv, TypeOK
  <2>7. ExactOf(w)' /\ sol'.cost = TrueCost[sol'.tour]
    BY <1>2, <2>2, <2>3, <2>4, <2>5, <2>6 DEF Worker
  <2> QED
    BY <2>1, <2>7
<1>3. ASSUME NEW w \in Workers, Submit(w) PROVE ExactInv'
  <2>1. sol'.cost = TrueCost[sol'.tour]
    BY <1>3 DEF Submit, ExactOf
  <2>2. pc'[w] \in {"loop", "exit"} /\ UNCHANGED <<base, cur>>
    BY <1>3 DEF Submit, Goto, IInv, TypeOK
  <2>3. ASSUME NEW v \in Workers \ {w} PROVE pc[v] # "read_cost"
    <3>1. CASE algo \in Builders
      BY <3>1 DEF IInv, HoldsInv, HoldsOf, Builders, Readers
    <3>2. CASE NumThreads = 1
      BY <3>2 DEF Workers
    <3> QED
      BY <3>1, <3>2 DEF Undisturbed
  <2>4. \A v \in Workers \ {w} : pc'[v] = pc[v]
    BY <1>3 DEF Submit, Goto, IInv, TypeOK
  <2>5. \A v \in Workers : ExactOf(v)'
    BY <2>2, <2>3, <2>4 DEF ExactOf
  <2> QED
    BY <2>1, <2>5
<1>4. ASSUME NEW w \in Workers, Expire(w) PROVE ExactInv'
  BY <1>4 DEF Expire, ExactOf
<1>5. CASE UNCHANGED vars
  BY <1>5 DEF vars, workVars, ExactOf
<1> QED
  BY <1>1, <1>2, <1>3, <1>4, <1>5 DEF Next, Stop

\* Those runs report the cost of the tour they report.
THEOREM ReportedCostIsTrue == Spec => []UndisturbedCostIsExact
<1> DEFINE J == Undisturbed => ExactInv
<1>1. Init => J
  BY DEF Init, ExactInv, ExactOf
<1>2. IInv /\ J => UndisturbedCostIsExact
  BY Costs DEF IInv, ExactInv, CostIsTourCost, UndisturbedCostIsExact
<1>3. IInv /\ J /\ [Next]_vars => J'
  <2> SUFFICES ASSUME IInv, J, [Next]_vars, Undisturbed' PROVE ExactInv'
    OBVIOUS
  <2>1. Undisturbed
    BY AlgoStays DEF Undisturbed
  <2> QED
    BY <2>1, NextExact
<1> QED
  BY <1>1, <1>2, <1>3, Inductive, PTL DEF Spec

-----------------------------------------------------------------------------
\* What a worker has submitted is in the incumbent, or something as good is.
SubmittedOf(w) ==
  /\ pc[w] \in {"absent", "start"} => cur[w].cost = None
  /\ pc[w] \in {"loop", "exit"} /\ cur[w].cost # None => sol.cost <= cur[w].cost + Eps

\* What main has copied so far is still the incumbent.
CopiedInv ==
  /\ Parallel /\ mainPc \in {"report_tour", "report_cost", "destroy", "done"} => recorded = sol.cost
  /\ mainPc \in {"report_cost", "destroy", "done"} => report.tour = sol.tour
  /\ mainPc \in {"destroy", "done"} => report.cost = sol.cost

FinalInv == CopiedInv /\ \A w \in Workers : SubmittedOf(w)

\* A worker that runs finds main still at the creations or the joins.
LEMMA MainWaits ==
  ASSUME IInv, NEW w \in Workers, Running(w)
  PROVE  mainPc \in {"create", "join", "undefined"}
BY DEF IInv, PhaseInv, Running

\* Every step keeps what main has copied equal to what the workers left.
LEMMA NextFinal == IInv /\ FinalInv /\ [Next]_vars => FinalInv'
<1> SUFFICES ASSUME IInv, FinalInv, [Next]_vars PROVE FinalInv'
  OBVIOUS
<1> USE DEF FinalInv
<1>1. CASE Create \/ Join
  <2>1. /\ sol' = sol /\ cur' = cur /\ recorded' = recorded /\ report' = report
        /\ \A w \in Workers : pc'[w] = pc[w] \/ (pc'[w] = "start" /\ pc[w] = "absent")
    <3>1. CASE Create
      <4>1. next \in Workers /\ pc[next] = "absent" /\ \A w \in Workers : w # next => pc'[w] = pc[w]
        BY <3>1, RunAssumption DEF Create, IInv, TypeOK, PhaseInv, Workers
      <4> QED
        BY <3>1, <4>1 DEF Create, IInv, TypeOK
    <3>2. CASE Join
      BY <3>2 DEF Join, workVars
    <3> QED
      BY <1>1, <3>1, <3>2
  <2>2. mainPc' \in {"create", "join", "undefined", "record"} \/ (~Parallel /\ mainPc' = "report_tour")
    BY <1>1 DEF Create, Join, Advance
  <2>3. CopiedInv'
    BY <2>2 DEF CopiedInv, Parallel
  <2>4. \A w \in Workers : SubmittedOf(w)'
    BY <2>1 DEF SubmittedOf
  <2> QED
    BY <2>3, <2>4
<1>2. CASE Record \/ ReportTour \/ ReportCost \/ Destroy
  <2>1. sol' = sol /\ cur' = cur /\ pc' = pc
    BY <1>2 DEF Record, ReportTour, ReportCost, Destroy, workVars
  <2>2. \A w \in Workers : SubmittedOf(w)'
    BY <2>1 DEF SubmittedOf
  <2>3. CASE Record
    BY <2>1, <2>2, <2>3 DEF Record, CopiedInv, Parallel
  <2>4. CASE ReportTour
    <3>1. report'.tour = sol.tour
      BY <2>4 DEF ReportTour, IInv, TypeOK, Pair
    <3> QED
      BY <2>1, <2>2, <2>4, <3>1 DEF ReportTour, CopiedInv, Parallel
  <2>5. CASE ReportCost
    <3>1. report'.tour = report.tour /\ report'.cost = sol.cost
      BY <2>5 DEF ReportCost, IInv, TypeOK, Pair
    <3> QED
      BY <2>1, <2>2, <2>5, <3>1 DEF ReportCost, CopiedInv, Parallel
  <2>6. CASE Destroy
    BY <2>1, <2>2, <2>6 DEF Destroy, CopiedInv, Parallel
  <2> QED
    BY <1>2, <2>2, <2>3, <2>4, <2>5, <2>6
<1>3. ASSUME NEW w \in Workers, Worker(w) \/ Expire(w)
      PROVE  FinalInv'
  <2>1. /\ Running(w) /\ mainPc' = mainPc
        /\ \A v \in Workers \ {w} : pc'[v] = pc[v] /\ cur'[v] = cur[v]
    BY <1>3 DEF Worker, Expire, ReadTour, ReadCost, Search, Begin, Build, LeaveLoop, Submit, Goto,
                mainVars, Running, IInv, TypeOK
  <2>2. CopiedInv'
    BY <2>1, MainWaits DEF CopiedInv
  <2>3. sol'.cost \in Int /\ sol.cost \in Int /\ sol'.cost <= sol.cost
    <3>1. CASE ~Submit(w)
      BY <1>3, <3>1, Costs DEF Worker, Expire, ReadTour, ReadCost, Search, Begin, Build, LeaveLoop, IInv
    <3>2. CASE Submit(w)
      <4>1. cur[w] \in [tour : Tours, cost : Int]
        BY <3>2 DEF Submit, IInv, HoldsInv, HoldsOf
      <4> QED
        BY <3>2, <4>1, Costs DEF Submit, Improves, IInv
    <3> QED
      BY <3>1, <3>2
  <2>4. ASSUME NEW v \in Workers \ {w}
        PROVE  SubmittedOf(v)'
    <3>1. cur[v].cost \in Int \cup {None}
      BY DEF IInv, TypeOK, Pair
    <3>2. cur[v].cost # None /\ sol.cost <= cur[v].cost + Eps => sol'.cost <= cur[v].cost + Eps
      BY <2>3, <3>1, RunAssumption
    <3> QED
      BY <2>1, <3>2 DEF SubmittedOf
  <2>5. SubmittedOf(w)'
    <3>1. CASE ReadTour(w) \/ ReadCost(w) \/ Search(w) \/ Build(w)
      <4>1. pc'[w] \in {"read_cost", "search", "submit"}
        BY <3>1 DEF ReadTour, ReadCost, Search, Build, Goto, IInv, TypeOK
      <4> QED
        BY <4>1 DEF SubmittedOf
    <3>2. CASE Begin(w) \/ LeaveLoop(w)
      <4>1. /\ pc'[w] \in {"loop", "exit"} /\ pc[w] \in {"start", "loop"}
            /\ cur' = cur /\ sol' = sol
        BY <3>2 DEF Begin, LeaveLoop, Goto, IInv, TypeOK
      <4> QED
        BY <4>1 DEF SubmittedOf
    <3>3. CASE Expire(w)
      BY <3>3 DEF Expire, SubmittedOf
    <3>4. CASE Submit(w)
      <4>1. /\ pc'[w] \in {"loop", "exit"} /\ cur' = cur
            /\ cur[w] \in [tour : Tours, cost : Int]
        BY <3>4 DEF Submit, Goto, IInv, HoldsInv, HoldsOf, TypeOK
      <4>2. sol'.cost <= cur[w].cost + Eps
        <5>1. CASE Improves(w)
          BY <3>4, <4>1, <5>1, Costs DEF Submit, IInv
        <5>2. CASE ~Improves(w)
          BY <3>4, <4>1, <5>2, Costs DEF Submit, Improves, IInv
        <5> QED
          BY <5>1, <5>2
      <4> QED
        BY <4>1, <4>2 DEF SubmittedOf
    <3> QED
      BY <1>3, <3>1, <3>2, <3>3, <3>4 DEF Worker
  <2> QED
    BY <2>2, <2>4, <2>5
<1>4. CASE UNCHANGED vars
  BY <1>4 DEF vars, mainVars, workVars, CopiedInv, SubmittedOf, Parallel
<1> QED
  BY <1>1, <1>2, <1>3, <1>4 DEF Next, Main, Stop

\* Whatever main records, plots and prints, in three separate reads, is the incumbent all the
\* workers finished with, and none of them finished with anything better.
THEOREM ReportHasTheLastWord == Spec => []ReportIsFinal
<1>1. Init => FinalInv
  BY DEF Init, FinalInv, CopiedInv, SubmittedOf
<1>2. IInv /\ FinalInv => ReportIsFinal
  <2> SUFFICES ASSUME IInv, FinalInv, mainPc = "done"
               PROVE  /\ report = sol
                      /\ Parallel => recorded = sol.cost
                      /\ \A w \in Workers : pc[w] = "exit" /\ cur[w].cost # None =>
                                              report.cost <= cur[w].cost + Eps
    BY DEF ReportIsFinal
  <2>1. report.tour = sol.tour /\ report.cost = sol.cost /\ (Parallel => recorded = sol.cost)
    BY DEF FinalInv, CopiedInv
  <2>2. report = sol
    BY <2>1 DEF IInv, TypeOK, Pair
  <2>3. \A w \in Workers : pc[w] = "exit" /\ cur[w].cost # None => sol.cost <= cur[w].cost + Eps
    BY DEF FinalInv, SubmittedOf
  <2> QED
    BY <2>1, <2>2, <2>3
<1> QED
  BY <1>1, <1>2, NextFinal, Inductive, PTL DEF Spec

-----------------------------------------------------------------------------
\* A set of naturals has a least member.
LEMMA Least ==
  ASSUME NEW S \in SUBSET Nat, S # {}
  PROVE  \E m \in S : \A n \in S : m <= n
<1> DEFINE Below == {p \in Nat \X Nat : p[1] < p[2]}
<1>1. OpToRel(<, Nat) = Below
  BY DEF OpToRel
<1>2. IsWellFoundedOn(Below, Nat)
  BY <1>1, NatLessThanWellFounded
<1>3. \E m \in S : \A n \in S : <<n, m>> \notin Below
  <2> HIDE DEF Below
  <2> QED
    BY <1>2, WFMin
<1>4. \A n, m \in Nat : n < m => <<n, m>> \in Below
  OBVIOUS
<1>5. \A n, m \in Nat : ~(n < m) => m <= n
  OBVIOUS
<1> HIDE DEF Below
<1> QED
  BY <1>3, <1>4, <1>5

\* Induction over the naturals, with the predicate as a set.
LEMMA Induct ==
  ASSUME NEW S, 0 \in S, \A n \in Nat : n \in S => n + 1 \in S
  PROVE  Nat \subseteq S
<1> SUFFICES ASSUME ~(Nat \subseteq S)
             PROVE  FALSE
  OBVIOUS
<1>1. PICK m \in Nat \ S : \A n \in Nat \ S : m <= n
  BY Least
<1>2. m - 1 \in Nat /\ m - 1 \notin S
  BY <1>1
<1> QED
  BY <1>1, <1>2

-----------------------------------------------------------------------------
\* The command line.  A line is a sequence of words; the parser is told by the
\* definitions d which words are flags.
Words == Tokens \cup {"--"}
IsFlag(d, t) == t \in DOMAIN Names /\ Names[t] \in d

\* The positions F are the flags of the line a as far as `last', and every
\* position that is none holds the value of the flag before it.
FlagsOf(a, d, F, last) ==
  /\ F \in SUBSET (1 .. Len(a))
  /\ \A p \in F : p <= last => IsFlag(d, a[p])
  /\ \A p, q \in F : p <= last /\ q <= last /\ p # q => Names[a[p]] # Names[a[q]]
  /\ \A p \in F : p <= last =>
       IF Type(Names[a[p]]) = "bool" THEN p + 1 \in F \/ p = Len(a)
       ELSE /\ p + 1 <= Len(a) /\ p + 1 \notin F /\ ~IsFlag(d, a[p + 1])
            /\ Type(Names[a[p]]) # "string" => Accepts(Type(Names[a[p]]), a[p + 1])
  /\ \A p \in 1 .. Len(a) : p \notin F => p - 1 \in F

LastOf(a, F) == IF a # <<>> /\ a[Len(a)] = "--" /\ Len(a) \in F THEN Len(a) - 1 ELSE Len(a)

\* What has been read of a line, flag by flag.
Read(a, d, F) == FlagsOf(a, d, F, Len(a))

Accepted(a, d) == \E F \in SUBSET (1 .. Len(a)) : FlagsOf(a, d, F, LastOf(a, F))

\* The grammar of the property is this one.
LEMMA GrammarIs ==
  ASSUME argv \in Seq(Words), NEW F \in SUBSET (1 .. Len(argv))
  PROVE  WellFormedAt(F) <=> FlagsOf(argv, defined, F, LastOf(argv, F))
<1> DEFINE last == LastOf(argv, F)
           Flag(p) == Names[argv[p]]
<1>1. Len(argv) \in Nat /\ last \in Int /\ last <= Len(argv)
  BY DEF LastOf
<1>2. \A p : p \in F \cap (1 .. last) <=> p \in F /\ p <= last
  <2>1. \A p \in F : p \in Int /\ 1 <= p
    BY <1>1
  <2> HIDE DEF last
  <2>2. \A p \in Int : p \in 1 .. last <=> 1 <= p /\ p <= last
    BY <1>1
  <2> QED
    BY <2>1, <2>2
<1>3. WellFormedAt(F) <=>
        /\ \A p \in F \cap (1 .. last) : Known(argv[p])
        /\ \A p, q \in F \cap (1 .. last) : p # q => Flag(p) # Flag(q)
        /\ \A p \in F \cap (1 .. last) :
             IF Type(Flag(p)) = "bool" THEN p + 1 \in F \/ p = Len(argv)
             ELSE /\ p + 1 \in 1 .. Len(argv) /\ p + 1 \notin F /\ ~Known(argv[p + 1])
                  /\ Type(Flag(p)) # "string" => Accepts(Type(Flag(p)), argv[p + 1])
        /\ \A p \in (1 .. Len(argv)) \ F : p - 1 \in F
  BY DEF WellFormedAt, LastOf
<1>4. \A p \in F : p \in Nat /\ (p + 1 \in 1 .. Len(argv) <=> p + 1 <= Len(argv))
  BY <1>1
<1> HIDE DEF last
<1> QED
  BY <1>2, <1>3, <1>4 DEF FlagsOf, IsFlag, Known, last

\* The line b begins with the line a.
Goes(a, b) ==
  /\ a \in Seq(Words) /\ b \in Seq(Words)
  /\ Len(a) < Len(b)
  /\ \A p \in 1 .. Len(a) : b[p] = a[p]

\* However the line goes on, the flags among what was read stay what they were, and
\* the first new word is where a flag is expected.
LEMMA OneReading ==
  ASSUME NEW d, NEW a, NEW b, Goes(a, b),
         NEW F, Read(a, d, F),
         NEW G, NEW last \in Int, Len(a) <= last, FlagsOf(b, d, G, last)
  PROVE  /\ \A p \in 1 .. Len(a) : p \in F <=> p \in G
         /\ Len(a) + 1 \in G
<1> DEFINE n == Len(a)
           Same == {m \in Nat : \A p \in 1 .. n : p <= m => (p \in F <=> p \in G)}
<1>1. n \in Nat /\ Len(b) \in Nat /\ n < Len(b)
  BY DEF Goes
<1>2. /\ F \in SUBSET (1 .. n) /\ G \in SUBSET (1 .. Len(b))
      /\ 0 \notin F /\ 0 \notin G
  BY <1>1 DEF Read, FlagsOf
<1>3. ASSUME NEW p \in 1 .. n, p \in F, p \in G
      PROVE  IF p = n THEN p + 1 \in G ELSE p + 1 \in F <=> p + 1 \in G
  <2>1. p <= last /\ p # Len(b) /\ b[p] = a[p]
    BY <1>1 DEF Goes
  <2>2. CASE Type(Names[a[p]]) = "bool"
    <3>1. p + 1 \in F \/ p = n
      BY <1>3, <2>2 DEF Read, FlagsOf
    <3>2. p + 1 \in G
      BY <1>3, <2>1, <2>2 DEF FlagsOf
    <3> QED
      BY <3>1, <3>2
  <2>3. CASE Type(Names[a[p]]) # "bool"
    <3>1. p + 1 <= n /\ p + 1 \notin F
      BY <1>3, <2>3 DEF Read, FlagsOf
    <3>2. p + 1 \notin G
      BY <1>3, <2>1, <2>3 DEF FlagsOf
    <3> QED
      BY <1>1, <3>1, <3>2
  <2> QED
    BY <2>2, <2>3
<1>4. ASSUME NEW p \in 0 .. n, p \notin F, p \notin G
      PROVE  p + 1 \in G /\ (p # n => p + 1 \in F)
  <2>1. p + 1 \in 1 .. Len(b) /\ (p # n => p + 1 \in 1 .. n) /\ (p + 1) - 1 = p
    BY <1>1
  <2>2. p + 1 \in G
    BY <1>4, <2>1 DEF FlagsOf
  <2>3. p # n => p + 1 \in F
    BY <1>4, <2>1 DEF Read, FlagsOf
  <2> QED
    BY <2>2, <2>3
<1>5. 0 \in Same
  BY <1>1
<1>6. ASSUME NEW m \in Nat, m \in Same
      PROVE  m + 1 \in Same
  <2>1. m + 1 \in 1 .. n => (m + 1 \in F <=> m + 1 \in G)
    <3>1. CASE m = 0
      BY <1>1, <1>2, <1>4, <3>1
    <3>2. CASE m # 0 /\ m < n
      <4>1. m \in 1 .. n /\ (m \in F <=> m \in G)
        BY <1>1, <1>6, <3>2
      <4> QED
        BY <1>3, <1>4, <3>2, <4>1
    <3> QED
      BY <1>1, <3>1, <3>2
  <2> QED
    BY <1>6, <2>1
<1>7. Nat \subseteq Same
  <2> HIDE DEF Same
  <2> QED
    BY <1>5, <1>6, Induct
<1>8. \A p \in 1 .. n : p \in F <=> p \in G
  BY <1>1, <1>7
<1>9. n + 1 \in G
  BY <1>1, <1>2, <1>3, <1>4, <1>8
<1> QED
  BY <1>8, <1>9

-----------------------------------------------------------------------------
\* While the parser goes on, what was read is flags and their values, and the flags
\* are the visited ones; when it has returned, it has returned what the property says.
HasRead(d, a, F, V) == Read(a, d, F) /\ V = {Names[a[p]] : p \in F}

LineInv ==
  /\ argv \in Seq(Words)
  /\ parsed = "new" => argv = <<>> /\ visited = {}
  /\ parsed = "reading" => \E F : HasRead(defined, argv, F, visited)
  /\ AcceptedIffWellFormed

\* The property, told with the grammar above.
LEMMA AcceptedIs ==
  ASSUME argv \in Seq(Words)
  PROVE  AcceptedIffWellFormed <=>
           (parsed \notin {"new", "reading", "INTERNAL_ERROR"} =>
              (parsed = "SUCCESS" <=> Accepted(argv, defined)))
BY GrammarIs DEF AcceptedIffWellFormed, Accepted

LEMMA AcceptedIsNext ==
  ASSUME argv' \in Seq(Words)
  PROVE  AcceptedIffWellFormed' <=>
           (parsed' \notin {"new", "reading", "INTERNAL_ERROR"} =>
              (parsed' = "SUCCESS" <=> Accepted(argv', defined')))
<1>1. (argv \in Seq(Words) =>
         (AcceptedIffWellFormed <=>
            (parsed \notin {"new", "reading", "INTERNAL_ERROR"} =>
               (parsed = "SUCCESS" <=> Accepted(argv, defined)))))'
  BY AcceptedIs, PTL
<1> QED
  BY <1>1 DEF Accepted

\* One word or two are read.
LEMMA WordsRead ==
  ASSUME NEW a \in Seq(Words), NEW w \in Seq(Words), Len(w) \in {1, 2}
  PROVE  /\ Goes(a, a \o w)
         /\ Len(a) \in Nat /\ Len(a \o w) = Len(a) + Len(w)
         /\ (a \o w)[Len(a) + 1] = w[1]
         /\ Len(w) = 2 => (a \o w)[Len(a) + 2] = w[2]
<1>1. Len(a) \in Nat /\ a \o w \in Seq(Words) /\ Len(a \o w) = Len(a) + Len(w)
  BY ConcatProperties
<1>2. \A p \in 1 .. Len(a \o w) : (a \o w)[p] = IF p <= Len(a) THEN a[p] ELSE w[p - Len(a)]
  BY ConcatProperties
<1>3. Len(w) = 2 \/ Len(w) = 1
  OBVIOUS
<1>4. (a \o w)[Len(a) + 1] = w[1]
  BY <1>1, <1>2, <1>3
<1>5. Len(w) = 2 => (a \o w)[Len(a) + 2] = w[2]
  BY <1>1, <1>2, <1>3
<1>6. Goes(a, a \o w)
  <2>1. PICK b : b = a \o w
    OBVIOUS
  <2>2. Len(b) \in Nat /\ Len(a) < Len(b)
    <3>1. CASE Len(w) = 1
      BY <1>1, <2>1, <3>1
    <3>2. CASE Len(w) = 2
      BY <1>1, <2>1, <3>2
    <3> QED
      BY <1>3, <3>1, <3>2
  <2>3. ASSUME NEW p \in 1 .. Len(a)
        PROVE  b[p] = a[p]
    <3>1. p \in 1 .. Len(b) /\ p <= Len(a)
      BY <1>1, <2>2
    <3> QED
      BY <1>2, <2>1, <3>1
  <2> QED
    BY <1>1, <2>1, <2>2, <2>3 DEF Goes
<1> QED
  BY <1>1, <1>4, <1>5, <1>6

\* A line with an error where a flag was expected is not well formed, however the
\* rest of it is read.
LEMMA Rejected ==
  ASSUME NEW d, NEW a, NEW b, Goes(a, b), NEW F, Read(a, d, F),
         \A G, last : last \in Int /\ Len(a) <= last /\ (b[Len(a) + 1] # "--" => Len(a) < last)
                      /\ FlagsOf(b, d, G, last)
                      /\ (\A p \in F : p \in G) /\ Len(a) + 1 \in G => FALSE
  PROVE  ~Accepted(b, d)
<1> SUFFICES ASSUME NEW G \in SUBSET (1 .. Len(b)), FlagsOf(b, d, G, LastOf(b, G))
             PROVE  FALSE
  BY DEF Accepted
<1>1. Len(a) \in Nat /\ Len(b) \in Nat /\ Len(a) < Len(b)
  BY DEF Goes
<1>2. PICK last : last = LastOf(b, G)
  OBVIOUS
<1>3. last \in Int /\ Len(a) <= last
  BY <1>1, <1>2 DEF LastOf
<1>4. b[Len(a) + 1] # "--" => Len(a) < last
  BY <1>1, <1>2 DEF LastOf
<1>5. /\ \A p \in 1 .. Len(a) : p \in F <=> p \in G
      /\ Len(a) + 1 \in G
  BY <1>2, <1>3, OneReading
<1>6. F \in SUBSET (1 .. Len(a))
  BY DEF Read, FlagsOf
<1> QED
  BY <1>2, <1>3, <1>4, <1>5, <1>6

\* A flag and its value, or a flag alone, are read: the line so far stays well formed.
LEMMA Extended ==
  ASSUME NEW d, NEW a \in Seq(Words), NEW F, NEW V, HasRead(d, a, F, V),
         NEW t, IsFlag(d, t), Names[t] \notin V,
         NEW w \in Seq(Words),
         \/ w = <<t>> /\ Type(Names[t]) = "bool"
         \/ \E v : /\ w = <<t, v>> /\ Type(Names[t]) # "bool" /\ ~IsFlag(d, v)
                   /\ Type(Names[t]) # "string" => Accepts(Type(Names[t]), v)
  PROVE  \E G : HasRead(d, a \o w, G, V \cup {Names[t]})
<1>0. Read(a, d, F) /\ V = {Names[a[p]] : p \in F} /\ \A p \in F : Names[a[p]] # Names[t]
  BY DEF HasRead
<1>1. PICK b : b = a \o w
  OBVIOUS
<1>2. PICK n : n = Len(a)
  OBVIOUS
<1>3. PICK G : G = F \cup {n + 1}
  OBVIOUS
<1>4. Len(w) \in {1, 2} /\ w[1] = t
  OBVIOUS
<1>5. /\ n \in Nat /\ Len(b) = n + Len(w) /\ Goes(a, b)
      /\ b[n + 1] = t /\ (Len(w) = 2 => b[n + 2] = w[2])
  BY <1>1, <1>2, <1>4, WordsRead
<1>6. F \in SUBSET (1 .. n) /\ \A p \in 1 .. n : b[p] = a[p]
  BY <1>0, <1>2, <1>5 DEF Read, FlagsOf, Goes
<1>7. G \in SUBSET (1 .. Len(b))
  BY <1>3, <1>4, <1>5, <1>6
<1>8. \A p \in G : IsFlag(d, b[p])
  BY <1>0, <1>2, <1>3, <1>5, <1>6 DEF Read, FlagsOf
<1>9. ASSUME NEW p \in G, NEW q \in G, p # q
      PROVE  Names[b[p]] # Names[b[q]]
  <2>1. ASSUME NEW r \in F
        PROVE  r \in 1 .. n /\ r <= Len(a) /\ b[r] = a[r] /\ Names[b[r]] # Names[t]
    BY <1>0, <1>2, <1>5, <1>6
  <2>2. CASE p \in F /\ q \in F
    BY <1>0, <1>2, <1>9, <2>1, <2>2 DEF Read, FlagsOf
  <2>3. CASE p = n + 1 /\ q \in F
    BY <1>5, <2>1, <2>3
  <2>4. CASE p \in F /\ q = n + 1
    BY <1>5, <2>1, <2>4
  <2> QED
    BY <1>3, <1>9, <2>2, <2>3, <2>4
<1>10. ASSUME NEW p \in G
       PROVE  IF Type(Names[b[p]]) = "bool" THEN p + 1 \in G \/ p = Len(b)
              ELSE /\ p + 1 <= Len(b) /\ p + 1 \notin G /\ ~IsFlag(d, b[p + 1])
                   /\ Type(Names[b[p]]) # "string" => Accepts(Type(Names[b[p]]), b[p + 1])
  <2>1. CASE p \in F
    <3>1. p \in 1 .. n /\ b[p] = a[p]
      BY <1>6, <2>1
    <3>2. CASE Type(Names[a[p]]) = "bool"
      <4>1. p + 1 \in F \/ p = n
        BY <1>0, <1>2, <2>1, <3>1, <3>2 DEF Read, FlagsOf
      <4> QED
        BY <1>3, <3>1, <3>2, <4>1
    <3>3. CASE Type(Names[a[p]]) # "bool"
      <4>1. /\ p + 1 <= n /\ p + 1 \notin F /\ ~IsFlag(d, a[p + 1])
            /\ Type(Names[a[p]]) # "string" => Accepts(Type(Names[a[p]]), a[p + 1])
        BY <1>0, <1>2, <2>1, <3>1, <3>3 DEF Read, FlagsOf
      <4>2. p + 1 \in 1 .. n /\ p + 1 # n + 1 /\ p + 1 <= Len(b)
        BY <1>4, <1>5, <3>1, <4>1
      <4> QED
        BY <1>3, <1>6, <3>1, <3>3, <4>1, <4>2
    <3> QED
      BY <3>2, <3>3
  <2>2. CASE p = n + 1
    <3>1. CASE w = <<t>> /\ Type(Names[t]) = "bool"
      BY <1>5, <2>2, <3>1
    <3>2. ASSUME NEW v, w = <<t, v>>, Type(Names[t]) # "bool", ~IsFlag(d, v),
                 Type(Names[t]) # "string" => Accepts(Type(Names[t]), v)
          PROVE  /\ p + 1 <= Len(b) /\ p + 1 \notin G /\ ~IsFlag(d, b[p + 1])
                 /\ Type(Names[b[p]]) # "string" => Accepts(Type(Names[b[p]]), b[p + 1])
      <4>1. Len(w) = 2 /\ w[2] = v
        BY <3>2
      <4>2. p + 1 = n + 2 /\ Len(b) = n + 2 /\ b[p + 1] = v /\ b[p] = t
        BY <1>5, <2>2, <4>1
      <4>3. p + 1 \notin G
        BY <1>3, <1>5, <1>6, <4>2
      <4> QED
        BY <1>5, <3>2, <4>2, <4>3
    <3> QED
      BY <1>5, <2>2, <3>1, <3>2
  <2> QED
    BY <1>3, <2>1, <2>2
<1>11. ASSUME NEW p \in 1 .. Len(b), p \notin G
       PROVE  p - 1 \in G
  <2>1. CASE p <= n
    <3>1. p \in 1 .. n /\ p \notin F
      BY <1>3, <1>5, <1>11, <2>1
    <3> QED
      BY <1>0, <1>2, <1>3, <3>1 DEF Read, FlagsOf
  <2>2. CASE n < p
    <3>1. p # n + 1 /\ p \in Int /\ p <= Len(b)
      BY <1>3, <1>5, <1>11
    <3>2. p = n + 2
      <4>1. Len(b) = n + 1 \/ Len(b) = n + 2
        BY <1>4, <1>5
      <4> QED
        BY <1>5, <2>2, <3>1, <4>1
    <3> QED
      BY <1>3, <1>5, <3>2
  <2> QED
    BY <1>5, <2>1, <2>2
<1>12. Read(b, d, G)
  BY <1>0, <1>7, <1>8, <1>9, <1>10, <1>11 DEF Read, FlagsOf
<1>13. V \cup {Names[t]} = {Names[b[p]] : p \in G}
  <2>1. \A p \in F : b[p] = a[p]
    BY <1>6
  <2>2. n + 1 \in G /\ b[n + 1] = t /\ F \subseteq G /\ \A p \in G : p \in F \/ p = n + 1
    BY <1>3, <1>5
  <2> QED
    BY <1>0, <2>1, <2>2
<1> QED
  <2>1. HasRead(d, b, G, V \cup {Names[t]})
    BY <1>12, <1>13 DEF HasRead
  <2> QED
    BY <1>1, <2>1

\* What is under way when the parser takes a step.
LEMMA UnderWay ==
  ASSUME LineInv, Parsing
  PROVE  /\ argv \in Seq(Words)
         /\ \E F : HasRead(defined, argv, F, visited)
<1>1. parsed = "reading"
  BY DEF Parsing
<1>2. /\ argv \in Seq(Words)
      /\ parsed = "reading" => \E F : HasRead(defined, argv, F, visited)
  BY DEF LineInv
<1> QED
  BY <1>1, <1>2

\* A step after which the parser goes on.
LEMMA GoesOnReading ==
  ASSUME argv' \in Seq(Words), parsed' = "reading",
         \E F : HasRead(defined', argv', F, visited')
  PROVE  LineInv'
<1>1. AcceptedIffWellFormed'
  BY AcceptedIsNext
<1> QED
  BY <1>1 DEF LineInv, HasRead, Read, FlagsOf

\* A step with which it returns.
LEMMA ReturnsNow ==
  ASSUME argv' \in Seq(Words), parsed' \notin {"new", "reading"},
         parsed' # "INTERNAL_ERROR" => (parsed' = "SUCCESS" <=> Accepted(argv', defined'))
  PROVE  LineInv'
<1>1. AcceptedIffWellFormed'
  BY AcceptedIsNext
<1> QED
  BY <1>1 DEF LineInv

LEMMA BuildParserKeeps == LineInv /\ BuildParser => LineInv'
<1> SUFFICES ASSUME LineInv, BuildParser
             PROVE  LineInv'
  OBVIOUS
<1>1. argv' = <<>> /\ visited' = {} /\ parsed' = "reading"
  BY DEF LineInv, BuildParser, Returns
<1>2. HasRead(defined', argv', {}, visited')
  BY <1>1 DEF HasRead, Read, FlagsOf
<1> QED
  BY <1>1, <1>2, GoesOnReading

LEMMA ArgsEndKeeps == LineInv /\ ArgsEnd => LineInv'
<1> SUFFICES ASSUME LineInv, ArgsEnd
             PROVE  LineInv'
  OBVIOUS
<1>1. argv \in Seq(Words) /\ argv' = argv /\ defined' = defined /\ parsed' = "SUCCESS"
  BY UnderWay DEF ArgsEnd, Returns
<1>2. PICK F : Read(argv, defined, F)
  BY UnderWay DEF ArgsEnd, HasRead
<1>3. F \in SUBSET (1 .. Len(argv)) /\ \A p \in F : argv[p] # "--"
  BY <1>2, TokenAssumption DEF Read, FlagsOf, IsFlag
<1>4. LastOf(argv, F) = Len(argv)
  BY <1>3 DEF LastOf
<1>5. Accepted(argv, defined)
  BY <1>2, <1>3, <1>4 DEF Accepted, Read
<1> QED
  BY <1>1, <1>5, ReturnsNow

LEMMA TerminatorKeeps == LineInv /\ Terminator => LineInv'
<1> SUFFICES ASSUME LineInv, Terminator
             PROVE  LineInv'
  OBVIOUS
<1>1. argv \in Seq(Words) /\ argv' = argv \o <<"--">> /\ defined' = defined /\ parsed' = "SUCCESS"
  BY UnderWay DEF Terminator, Returns, Reads
<1>2. PICK F : Read(argv, defined, F)
  BY UnderWay DEF Terminator, HasRead
<1>3. PICK b : b = argv \o <<"--">>
  OBVIOUS
<1>4. PICK n : n = Len(argv)
  OBVIOUS
<1>5. /\ n \in Nat /\ Len(b) = n + 1 /\ b[n + 1] = "--" /\ Goes(argv, b)
      /\ \A p \in 1 .. n : b[p] = argv[p]
  <2>1. <<"--">> \in Seq(Words) /\ Len(<<"--">>) = 1 /\ <<"--">>[1] = "--"
    BY DEF Words
  <2>2. PICK w : w = <<"--">>
    OBVIOUS
  <2> QED
    BY <1>1, <1>3, <1>4, <2>1, <2>2, WordsRead DEF Goes
<1>6. PICK G : G = F \cup {n + 1}
  OBVIOUS
<1>7. F \in SUBSET (1 .. n) /\ G \in SUBSET (1 .. Len(b)) /\ n + 1 \in G
  <2>1. F \in SUBSET (1 .. n)
    BY <1>2, <1>4 DEF Read, FlagsOf
  <2>2. \A p \in F : p \in 1 .. Len(b)
    BY <1>5, <2>1
  <2>3. n + 1 \in 1 .. Len(b)
    BY <1>5
  <2> QED
    BY <1>6, <2>1, <2>2, <2>3
<1>8. \A p \in G : p <= n => p \in F /\ p \in 1 .. n
  BY <1>5, <1>6, <1>7
<1>9. FlagsOf(b, defined, G, n)
  <2>1. \A p \in G : p <= n => IsFlag(defined, b[p])
    BY <1>2, <1>4, <1>5, <1>8 DEF Read, FlagsOf
  <2>2. \A p, q \in G : p <= n /\ q <= n /\ p # q => Names[b[p]] # Names[b[q]]
    BY <1>2, <1>4, <1>5, <1>8 DEF Read, FlagsOf
  <2>3. ASSUME NEW p \in G, p <= n
        PROVE  IF Type(Names[b[p]]) = "bool" THEN p + 1 \in G \/ p = Len(b)
               ELSE /\ p + 1 <= Len(b) /\ p + 1 \notin G /\ ~IsFlag(defined, b[p + 1])
                    /\ Type(Names[b[p]]) # "string" => Accepts(Type(Names[b[p]]), b[p + 1])
    <3>1. p \in F /\ p \in 1 .. n /\ b[p] = argv[p]
      BY <1>5, <1>8, <2>3
    <3>2. CASE Type(Names[argv[p]]) = "bool"
      <4>1. p + 1 \in F \/ p = n
        BY <1>2, <1>4, <3>1, <3>2 DEF Read, FlagsOf
      <4> QED
        BY <1>6, <3>1, <3>2, <4>1
    <3>3. CASE Type(Names[argv[p]]) # "bool"
      <4>1. /\ p + 1 <= n /\ p + 1 \notin F /\ ~IsFlag(defined, argv[p + 1])
            /\ Type(Names[argv[p]]) # "string" => Accepts(Type(Names[argv[p]]), argv[p + 1])
        BY <1>2, <1>4, <3>1, <3>3 DEF Read, FlagsOf
      <4>2. p + 1 \in 1 .. n /\ p + 1 # n + 1 /\ p + 1 <= Len(b)
        BY <1>5, <3>1, <4>1
      <4> QED
        BY <1>5, <1>6, <3>1, <3>3, <4>1, <4>2
    <3> QED
      BY <3>2, <3>3
  <2>4. ASSUME NEW p \in 1 .. Len(b), p \notin G
        PROVE  p - 1 \in G
    <3>1. p \in 1 .. n /\ p \notin F
      BY <1>5, <1>6, <2>4
    <3> QED
      BY <1>2, <1>4, <1>6, <3>1 DEF Read, FlagsOf
  <2> QED
    BY <1>7, <2>1, <2>2, <2>3, <2>4 DEF FlagsOf
<1>10. LastOf(b, G) = n
  BY <1>5, <1>7 DEF LastOf
<1>11. Accepted(b, defined)
  BY <1>7, <1>9, <1>10 DEF Accepted
<1>12. argv' \in Seq(Words) /\ argv' = b
  BY <1>1, <1>3, <1>5 DEF Goes
<1> QED
  BY <1>1, <1>11, <1>12, ReturnsNow

\* A word that is no flag where a flag is expected.
LEMMA UnknownKeeps == LineInv /\ Unknown => LineInv'
<1> SUFFICES ASSUME LineInv, Unknown
             PROVE  LineInv'
  OBVIOUS
<1>1. PICK t \in Tokens \ {"--"} : ~Known(t) /\ argv' = argv \o <<t>>
  BY DEF Unknown, Reads
<1>2. argv \in Seq(Words) /\ defined' = defined /\ parsed' = "UNKNOWN_ARG"
  BY UnderWay DEF Unknown, Returns
<1>3. PICK F : Read(argv, defined, F)
  BY UnderWay DEF Unknown, HasRead
<1>4. PICK w : w = <<t>>
  OBVIOUS
<1>5. w \in Seq(Words) /\ Len(w) \in {1, 2} /\ w[1] = t
  BY <1>4 DEF Words
<1>6. PICK b : b = argv \o w
  OBVIOUS
<1>7. Goes(argv, b) /\ Len(argv) \in Nat /\ b[Len(argv) + 1] = t
  BY <1>2, <1>5, <1>6, WordsRead
<1>8. ASSUME NEW G, NEW last, last \in Int, Len(argv) < last, FlagsOf(b, defined, G, last),
             Len(argv) + 1 \in G
      PROVE  FALSE
  <2>1. Len(argv) + 1 <= last
    BY <1>7, <1>8
  <2> QED
    BY <1>1, <1>7, <1>8, <2>1 DEF FlagsOf, Known, IsFlag
<1>9. ~Accepted(b, defined)
  BY <1>1, <1>3, <1>7, <1>8, Rejected
<1>10. argv' = b /\ argv' \in Seq(Words)
  BY <1>1, <1>4, <1>6, <1>7 DEF Goes
<1> QED
  BY <1>2, <1>9, <1>10, ReturnsNow

\* A flag that was met before.
LEMMA RepeatedKeeps == LineInv /\ Repeated => LineInv'
<1> SUFFICES ASSUME LineInv, Repeated
             PROVE  LineInv'
  OBVIOUS
<1>1. PICK t \in Tokens : Known(t) /\ Names[t] \in visited /\ argv' = argv \o <<t>>
  BY DEF Repeated, Reads
<1>2. argv \in Seq(Words) /\ defined' = defined /\ parsed' = "USAGE_ERROR"
  BY UnderWay DEF Repeated, Returns
<1>3. PICK F : HasRead(defined, argv, F, visited)
  BY UnderWay DEF Repeated
<1>4. PICK w : w = <<t>>
  OBVIOUS
<1>5. w \in Seq(Words) /\ Len(w) \in {1, 2} /\ w[1] = t
  BY <1>4 DEF Words
<1>6. PICK b : b = argv \o w
  OBVIOUS
<1>7. Goes(argv, b) /\ Len(argv) \in Nat /\ b[Len(argv) + 1] = t
  BY <1>2, <1>5, <1>6, WordsRead
<1>8. PICK q \in F : Names[argv[q]] = Names[t]
  BY <1>1, <1>3 DEF HasRead
<1>9. Read(argv, defined, F) /\ q \in 1 .. Len(argv) /\ b[q] = argv[q]
  BY <1>3, <1>7, <1>8 DEF HasRead, Read, FlagsOf, Goes
<1>10. t # "--"
  BY <1>1, TokenAssumption DEF Known
<1>11. ASSUME NEW G, NEW last, last \in Int, Len(argv) < last, FlagsOf(b, defined, G, last),
              \A p \in F : p \in G, Len(argv) + 1 \in G
       PROVE  FALSE
  <2>1. Len(argv) + 1 <= last /\ q <= last /\ q # Len(argv) + 1 /\ q \in G
    BY <1>7, <1>8, <1>9, <1>11
  <2> QED
    BY <1>7, <1>8, <1>9, <1>11, <2>1 DEF FlagsOf
<1>12. ~Accepted(b, defined)
  BY <1>7, <1>9, <1>10, <1>11, Rejected
<1>13. argv' = b /\ argv' \in Seq(Words)
  BY <1>1, <1>4, <1>6, <1>7 DEF Goes
<1> QED
  BY <1>2, <1>12, <1>13, ReturnsNow

\* A flag without its value.
LEMMA ValueMissingKeeps == LineInv /\ ValueMissing => LineInv'
<1> SUFFICES ASSUME LineInv, ValueMissing
             PROVE  LineInv'
  OBVIOUS
<1>1. PICK t \in Tokens :
        /\ Known(t) /\ Type(Names[t]) # "bool"
        /\ argv' = argv \o <<t>> \/ \E v \in Tokens : Known(v) /\ argv' = argv \o <<t, v>>
  BY DEF ValueMissing, Visits, Reads
<1>2. argv \in Seq(Words) /\ defined' = defined /\ parsed' = "MISSING_VALUE"
  BY UnderWay DEF ValueMissing, Returns
<1>3. PICK F : Read(argv, defined, F)
  BY UnderWay DEF ValueMissing, HasRead
<1>4. PICK w : /\ argv' = argv \o w
               /\ w = <<t>> \/ \E v \in Tokens : Known(v) /\ w = <<t, v>>
  BY <1>1
<1>5. /\ w \in Seq(Words) /\ Len(w) \in {1, 2} /\ w[1] = t
      /\ Len(w) = 2 => Known(w[2])
  BY <1>4 DEF Words
<1>6. PICK b : b = argv \o w
  OBVIOUS
<1>7. /\ Goes(argv, b) /\ Len(argv) \in Nat /\ b[Len(argv) + 1] = t
      /\ Len(b) = Len(argv) + Len(w) /\ (Len(w) = 2 => b[Len(argv) + 2] = w[2])
  BY <1>2, <1>5, <1>6, WordsRead
<1>8. t # "--"
  BY <1>1, TokenAssumption DEF Known
<1>9. ASSUME NEW G, NEW last, last \in Int, Len(argv) < last, FlagsOf(b, defined, G, last),
             Len(argv) + 1 \in G
      PROVE  FALSE
  <2>1. PICK p : p = Len(argv) + 1
    OBVIOUS
  <2>2. p <= last /\ p \in G /\ b[p] = t /\ p + 1 = Len(argv) + 2
    BY <1>7, <1>9, <2>1
  <2>3. p + 1 <= Len(b) /\ ~IsFlag(defined, b[p + 1])
    BY <1>1, <1>9, <2>2 DEF FlagsOf
  <2>4. Len(w) = 2
    <3>1. Len(w) = 1 \/ Len(w) = 2
      BY <1>5
    <3>2. Len(argv) + 2 <= Len(b) /\ Len(b) = Len(argv) + Len(w)
      BY <1>7, <2>2, <2>3
    <3>3. CASE Len(w) = 1
      BY <1>7, <3>2, <3>3
    <3> QED
      BY <3>1, <3>3
  <2> QED
    BY <1>5, <1>7, <2>2, <2>3, <2>4 DEF Known, IsFlag
<1>10. ~Accepted(b, defined)
  BY <1>3, <1>7, <1>8, <1>9, Rejected
<1>11. argv' = b /\ argv' \in Seq(Words)
  BY <1>4, <1>6, <1>7 DEF Goes
<1> QED
  BY <1>2, <1>10, <1>11, ReturnsNow

\* A switch.
LEMMA SwitchKeeps == LineInv /\ Switch => LineInv'
<1> SUFFICES ASSUME LineInv, Switch
             PROVE  LineInv'
  OBVIOUS
<1>1. PICK t \in Tokens :
        /\ Known(t) /\ Names[t] \notin visited /\ visited' = visited \cup {Names[t]}
        /\ Type(Names[t]) = "bool" /\ argv' = argv \o <<t>>
  BY DEF Switch, Visits, Reads
<1>2. argv \in Seq(Words) /\ defined' = defined /\ parsed' = "reading"
  BY UnderWay DEF Switch, Parsing
<1>3. PICK F : HasRead(defined, argv, F, visited)
  BY UnderWay DEF Switch
<1>4. PICK w : w = <<t>>
  OBVIOUS
<1>5. w \in Seq(Words) /\ IsFlag(defined, t)
  BY <1>1, <1>4 DEF Words, Known, IsFlag
<1>6. \E G : HasRead(defined, argv \o w, G, visited \cup {Names[t]})
  BY <1>1, <1>2, <1>3, <1>4, <1>5, Extended
<1>7. argv' = argv \o w /\ argv' \in Seq(Words)
  BY <1>1, <1>2, <1>4, <1>5, ConcatProperties
<1> QED
  BY <1>1, <1>2, <1>6, <1>7, GoesOnReading

\* A flag t and a word v that may be its value are read.
Takes(t, v) ==
  /\ Known(t) /\ Names[t] \notin visited /\ visited' = visited \cup {Names[t]}
  /\ Type(Names[t]) # "bool" /\ ~Known(v) /\ argv' = argv \o <<t, v>>

LEMMA ValueTaken ==
  ASSUME LineInv, Parsing, NEW t \in Tokens, NEW v \in Tokens, Takes(t, v), defined' = defined,
         Type(Names[t]) # "string" => Accepts(Type(Names[t]), v), parsed' = parsed
  PROVE  LineInv'
<1>1. argv \in Seq(Words) /\ parsed' = "reading"
  BY UnderWay DEF Parsing
<1>2. PICK F : HasRead(defined, argv, F, visited)
  BY UnderWay
<1>3. PICK w : w = <<t, v>>
  OBVIOUS
<1>4. w \in Seq(Words) /\ IsFlag(defined, t) /\ ~IsFlag(defined, v)
  BY <1>3 DEF Takes, Words, Known, IsFlag
<1>5. \E G : HasRead(defined, argv \o w, G, visited \cup {Names[t]})
  BY <1>1, <1>2, <1>3, <1>4, Extended DEF Takes
<1>6. argv' = argv \o w /\ argv' \in Seq(Words)
  BY <1>1, <1>3, <1>4, ConcatProperties DEF Takes
<1> QED
  BY <1>1, <1>5, <1>6, GoesOnReading DEF Takes

LEMMA ValueRefused ==
  ASSUME LineInv, Parsing, NEW t \in Tokens, NEW v \in Tokens, Takes(t, v), defined' = defined,
         Type(Names[t]) # "string", ~Accepts(Type(Names[t]), v), parsed' = "WRONG_VALUE_TYPE"
  PROVE  LineInv'
<1>1. PICK F : argv \in Seq(Words) /\ Read(argv, defined, F)
  BY UnderWay DEF HasRead
<1>2. PICK w : w = <<t, v>>
  OBVIOUS
<1>3. w \in Seq(Words) /\ Len(w) \in {1, 2} /\ w[1] = t /\ Len(w) = 2 /\ w[2] = v
  BY <1>2 DEF Words
<1>4. PICK b : b = argv \o w
  OBVIOUS
<1>5. /\ Goes(argv, b) /\ Len(argv) \in Nat
      /\ b[Len(argv) + 1] = t /\ b[Len(argv) + 2] = v
  BY <1>1, <1>3, <1>4, WordsRead
<1>6. t # "--"
  BY TokenAssumption DEF Takes, Known
<1>7. ASSUME NEW G, NEW last, last \in Int, Len(argv) < last, FlagsOf(b, defined, G, last),
             Len(argv) + 1 \in G
      PROVE  FALSE
  <2>1. PICK p : p = Len(argv) + 1
    OBVIOUS
  <2>2. p <= last /\ p \in G /\ b[p] = t /\ b[p + 1] = v
    BY <1>5, <1>7, <2>1
  <2> QED
    BY <1>7, <2>2 DEF FlagsOf, Takes
<1>8. ~Accepted(b, defined)
  BY <1>1, <1>5, <1>6, <1>7, Rejected
<1>9. argv' = b /\ argv' \in Seq(Words)
  BY <1>2, <1>4, <1>5 DEF Goes, Takes
<1> QED
  BY <1>8, <1>9, ReturnsNow

LEMMA TakeNumberKeeps == LineInv /\ TakeNumber => LineInv'
<1> SUFFICES ASSUME LineInv, TakeNumber
             PROVE  LineInv'
  OBVIOUS
<1>1. PICK t \in Tokens, v \in Tokens :
        /\ Takes(t, v) /\ Type(Names[t]) # "string"
        /\ IF Accepts(Type(Names[t]), v) THEN parsed' = parsed ELSE parsed' = "WRONG_VALUE_TYPE"
  BY DEF TakeNumber, Takes, Visits, Reads, Returns
<1>2. Parsing /\ defined' = defined
  BY DEF TakeNumber
<1> QED
  BY <1>1, <1>2, ValueTaken, ValueRefused

LEMMA TakeStringKeeps == LineInv /\ TakeString => LineInv'
<1> SUFFICES ASSUME LineInv, TakeString
             PROVE  LineInv'
  OBVIOUS
<1>1. PICK t \in Tokens, v \in Tokens :
        /\ Takes(t, v) /\ Type(Names[t]) = "string"
        /\ parsed' = parsed \/ parsed' = "INTERNAL_ERROR"
  BY DEF TakeString, Takes, Visits, Reads, Returns
<1>2. Parsing /\ defined' = defined
  BY DEF TakeString
<1>3. CASE parsed' = parsed
  BY <1>1, <1>2, <1>3, ValueTaken
<1>4. CASE parsed' = "INTERNAL_ERROR"
  <2>1. argv \in Seq(Words) /\ <<t, v>> \in Seq(Words)
    BY UnderWay, <1>2 DEF Words
  <2>2. argv' \in Seq(Words)
    BY <1>1, <2>1, ConcatProperties DEF Takes
  <2> QED
    BY <1>4, <2>2, ReturnsNow
<1> QED
  BY <1>1, <1>3, <1>4

LEMMA LineStays ==
  LineInv /\ UNCHANGED <<argv, defined, visited, parsed>> => LineInv'
BY DEF LineInv, AcceptedIffWellFormed, WellFormedAt, Known

LEMMA ParserNextKeeps == LineInv /\ ParserNext => LineInv'
BY ArgsEndKeeps, TerminatorKeeps, UnknownKeeps, RepeatedKeeps, SwitchKeeps, ValueMissingKeeps,
   TakeNumberKeeps, TakeStringKeeps DEF ParserNext

\* What the rest of the program does to the line and the definitions: nothing.
LEMMA OnlyTheParserReads ==
  ProgramNext \/ UNCHANGED programVars =>
    BuildParser \/ ParserNext \/ UNCHANGED <<argv, defined, visited, parsed>>
<1>1. Load => BuildParser \/ ParserNext \/ UNCHANGED <<argv, defined, visited, parsed>>
  BY DEF Load, LoadNext, ParserUnavailable, ReadArguments, ArgumentsFail, OpenIni, ReadLine,
         MergeIni, Validate, parserVars
<1>2. Refused \/ CreateRandom \/ InstanceUnreadable \/ LoadInstance \/ NoMode \/ Launch \/ Finish
        => UNCHANGED <<argv, defined, visited, parsed>>
  BY DEF Refused, CreateRandom, InstanceUnreadable, LoadInstance, NoMode, Launch, Finish,
         Creates, Failed, CleanUp, settled, loadVars, parserVars
<1>3. UNCHANGED programVars => UNCHANGED <<argv, defined, visited, parsed>>
  BY DEF programVars, loadVars, parserVars
<1> QED
  BY <1>1, <1>2, <1>3 DEF ProgramNext

LEMMA LineInvInit == ProgramInit => LineInv
<1> SUFFICES ASSUME ProgramInit
             PROVE  LineInv
  OBVIOUS
<1>1. argv = <<>> /\ visited = {} /\ parsed = "new"
  BY DEF ProgramInit, LoadInit, ParserInit
<1> QED
  BY <1>1 DEF LineInv, AcceptedIffWellFormed

LEMMA LineInvStep == LineInv /\ [ProgramNext]_programVars => LineInv'
BY OnlyTheParserReads, BuildParserKeeps, ParserNextKeeps, LineStays

\* The parser accepts a command line exactly when it is well formed, whatever the
\* words, the names and the types of the flags.
THEOREM ParserDecidesTheGrammar == ProgramSpec => []AcceptedIffWellFormed
<1>1. LineInv => AcceptedIffWellFormed
  BY DEF LineInv
<1> QED
  BY <1>1, LineInvInit, LineInvStep, PTL DEF ProgramSpec

-----------------------------------------------------------------------------
\* The options: a structure has a member for every option and no other.
Structured(opts) ==
  /\ opts = [s \in DOMAIN Defaults |-> opts[s]]
  /\ \A s \in DOMAIN Defaults : opts[s] = [f \in DOMAIN Defaults[s] |-> opts[s][f]]

LEMMA FlagIs ==
  /\ \A o \in Flags : /\ o = <<o[1], o[2]>>
                      /\ o[1] \in DOMAIN Defaults /\ o[2] \in DOMAIN Defaults[o[1]]
  /\ \A s \in DOMAIN Defaults : \A f \in DOMAIN Defaults[s] : <<s, f>> \in Flags
BY DEF Flags

\* A member is written.
IsPut(r, opts, o, v) ==
  /\ Structured(r)
  /\ Get(r, o) = v
  /\ \A q \in Flags : q # o => Get(r, q) = Get(opts, q)

LEMMA PutIs ==
  ASSUME NEW opts, Structured(opts), NEW o \in Flags, NEW v
  PROVE  IsPut([opts EXCEPT ![o[1]][o[2]] = v], opts, o, v)
<1> DEFINE r == [opts EXCEPT ![o[1]][o[2]] = v]
<1>1. /\ o = <<o[1], o[2]>> /\ o[1] \in DOMAIN Defaults /\ o[2] \in DOMAIN Defaults[o[1]]
  BY FlagIs
<1>2. /\ DOMAIN opts = DOMAIN Defaults
      /\ \A s \in DOMAIN Defaults : DOMAIN opts[s] = DOMAIN Defaults[s]
  BY DEF Structured
<1>3. /\ r = [s \in DOMAIN Defaults |-> r[s]]
      /\ \A s \in DOMAIN Defaults : s # o[1] => r[s] = opts[s]
      /\ r[o[1]] = [opts[o[1]] EXCEPT ![o[2]] = v]
  BY <1>1, <1>2
<1>4. /\ r[o[1]] = [f \in DOMAIN Defaults[o[1]] |-> r[o[1]][f]]
      /\ \A f \in DOMAIN Defaults[o[1]] : r[o[1]][f] = IF f = o[2] THEN v ELSE opts[o[1]][f]
  BY <1>1, <1>2, <1>3
<1>5. Structured(r)
  <2>1. ASSUME NEW s \in DOMAIN Defaults
        PROVE  r[s] = [f \in DOMAIN Defaults[s] |-> r[s][f]]
    <3>1. CASE s = o[1]
      BY <1>4, <3>1
    <3>2. CASE s # o[1]
      BY <1>3, <3>2 DEF Structured
    <3> QED
      BY <3>1, <3>2
  <2> HIDE DEF r
  <2> QED
    BY <1>3, <2>1 DEF Structured
<1>6. Get(r, o) = v
  BY <1>1, <1>4 DEF Get
<1>7. ASSUME NEW q \in Flags, q # o
      PROVE  Get(r, q) = Get(opts, q)
  <2>1. /\ q = <<q[1], q[2]>> /\ q[1] \in DOMAIN Defaults /\ q[2] \in DOMAIN Defaults[q[1]]
    BY FlagIs
  <2>2. CASE q[1] # o[1]
    BY <1>3, <2>1, <2>2 DEF Get
  <2>3. CASE q[1] = o[1] /\ q[2] # o[2]
    BY <1>4, <2>1, <2>3 DEF Get
  <2> QED
    BY <1>1, <1>7, <2>1, <2>2, <2>3
<1> QED
  BY <1>5, <1>6, <1>7 DEF IsPut

-----------------------------------------------------------------------------
\* The values: an option that is no string has one of its type.
Sort(o) == IF Type(o) = "bool" THEN BOOLEAN ELSE IF Type(o) = "uint" THEN Nat ELSE Int

Valued(opts) ==
  /\ Structured(opts)
  /\ \A o \in Flags : Type(o) # "string" => Get(opts, o) \in Sort(o)

LEMMA SortIs ==
  ASSUME NEW o
  PROVE  /\ o[2] \in Bools => Type(o) = "bool" /\ Sort(o) = BOOLEAN
         /\ o[2] \in Strings => Type(o) = "string"
         /\ o[2] \notin Bools \cup Strings =>
              /\ Type(o) \notin {"string", "bool"} /\ Nat \subseteq Sort(o)
              /\ Sort(o) \subseteq Int
BY DEF Sort, Type, Bools, Strings, Ints, Udoubles

\* One section of the defaults.
Fits(p) ==
  \A f \in DOMAIN p :
    /\ f \in Bools => p[f] \in BOOLEAN
    /\ f \notin Bools \cup Strings => p[f] \in Nat

LEMMA AlgorithmFits ==
  ASSUME NEW limit \in Nat
  PROVE  Fits(Algorithm(limit))
<1> DEFINE p == Algorithm(limit)
<1>1. /\ DOMAIN p = {"enable", "time_limit", "plot_file", "cost_file"}
      /\ p["enable"] = FALSE /\ p["time_limit"] = limit
  BY DEF Algorithm
<1>2. /\ "enable" \in Bools /\ "time_limit" \notin Bools /\ "plot_file" \notin Bools
      /\ "cost_file" \notin Bools /\ {"plot_file", "cost_file"} \subseteq Strings
  BY DEF Bools, Strings
<1> HIDE DEF p
<1>3. \A f \in DOMAIN p : /\ f \in Bools => p[f] \in BOOLEAN
                          /\ f \notin Bools \cup Strings => p[f] \in Nat
  BY <1>1, <1>2
<1> QED
  BY <1>3 DEF Fits, p

LEMMA WithFits ==
  ASSUME NEW p, NEW q, Fits(p), Fits(q)
  PROVE  Fits(With(p, q))
BY DEF Fits, With

LEMMA DefaultsFit ==
  ASSUME NEW s \in DOMAIN Defaults
  PROVE  Fits(Defaults[s])
<1>1. Fits(Algorithm(1000)) /\ Fits(Algorithm(2000)) /\ Fits(Algorithm(6000))
  BY AlgorithmFits
<1>2. CASE s = "cli"
  <2>1. Defaults[s] = [help |-> FALSE, config_file |-> NoText]
    BY <1>2 DEF Defaults
  <2>2. DOMAIN Defaults[s] = {"help", "config_file"} /\ Defaults[s]["help"] = FALSE
    BY <2>1
  <2>3. "config_file" \in Strings /\ "config_file" \notin Bools /\ "help" \in Bools
    BY DEF Strings, Bools
  <2>4. ASSUME NEW f \in DOMAIN Defaults[s]
        PROVE  (f \in Bools => f = "help") /\ (f \notin Bools \cup Strings => FALSE)
    BY <2>2, <2>3
  <2> QED
    BY <2>2, <2>4 DEF Fits
<1>3. CASE s = "general"
  <2>1. Defaults[s] = GeneralDefaults
    BY <1>3 DEF Defaults
  <2>2. /\ DOMAIN GeneralDefaults = {"verbosity", "plots_path", "plots_enable", "num_threads"}
        /\ GeneralDefaults["verbosity"] = 1 /\ GeneralDefaults["num_threads"] = 1
        /\ GeneralDefaults["plots_enable"] = TRUE
    BY DEF GeneralDefaults
  <2>3. "plots_path" \in Strings /\ "plots_path" \notin Bools /\ "plots_enable" \in Bools
        /\ "verbosity" \notin Bools /\ "num_threads" \notin Bools
    BY DEF Strings, Bools
  <2>4. ASSUME NEW f \in DOMAIN GeneralDefaults
        PROVE  /\ f \in Bools => f = "plots_enable"
               /\ f \notin Bools \cup Strings => f \in {"verbosity", "num_threads"}
    BY <2>2, <2>3
  <2>5. ASSUME NEW f \in DOMAIN GeneralDefaults
        PROVE  f \in Bools => GeneralDefaults[f] \in BOOLEAN
    BY <2>2, <2>4
  <2>6. ASSUME NEW f \in DOMAIN GeneralDefaults
        PROVE  f \notin Bools \cup Strings => GeneralDefaults[f] \in Nat
    BY <2>2, <2>4
  <2>7. Fits(GeneralDefaults)
    BY <2>5, <2>6 DEF Fits
  <2> QED
    BY <2>1, <2>7
<1>4. CASE s = "inst"
  BY <1>4 DEF Defaults, InstDefaults, Fits, Bools, Strings, RANDOM
<1>5. CASE s = "sol"
  BY <1>5 DEF Defaults, SolDefaults, Fits, Bools, Strings
<1>6. CASE s = "nn"
  <2>1. Fits([num_threads |-> 1])
    BY DEF Fits, Bools, Strings
  <2> QED
    BY <1>1, <1>6, <2>1, WithFits DEF Defaults, NnDefaults
<1>7. CASE s = "vns"
  <2>1. Fits([min_k |-> 3, max_k |-> 5, kick_repetitions |-> 1, max_stagnation |-> 200])
    BY DEF Fits, Bools, Strings
  <2> QED
    BY <1>1, <1>7, <2>1, WithFits DEF Defaults, VnsDefaults
<1>8. CASE s = "tabu"
  <2>1. Fits([min_tenure |-> 5, max_tenure |-> 30, max_stagnation |-> 200])
    BY DEF Fits, Bools, Strings
  <2> QED
    BY <1>1, <1>8, <2>1, WithFits DEF Defaults, TabuDefaults
<1>9. CASE s = "grasp"
  <2>1. Fits([rcl_size |-> 10, probability |-> 30, max_stagnation |-> 200])
    BY DEF Fits, Bools, Strings
  <2> QED
    BY <1>1, <1>9, <2>1, WithFits DEF Defaults, GraspDefaults
<1>10. CASE s = "em"
  BY <1>1, <1>10 DEF Defaults
<1>11. CASE s = "genetic"
  <2>1. Fits([population_size |-> 1000, elite_count |-> 1, mutation_rate |-> 10,
              crossover_cut_min_ratio |-> 25, crossover_cut_max_ratio |-> 75,
              tournament_size |-> 5, init_grasp_rcl_size |-> 5,
              init_grasp_prob |-> 20, init_grasp_percent |-> 90])
    BY DEF Fits, Bools, Strings
  <2> QED
    BY <1>1, <1>11, <2>1, WithFits DEF Defaults, GeneticDefaults
<1>12. CASE s = "benders"
  <2>1. Fits([max_iterations |-> 200])
    BY DEF Fits, Bools, Strings
  <2> QED
    BY <1>1, <1>12, <2>1, WithFits DEF Defaults, BendersDefaults
<1>13. CASE s = "bc"
  <2>1. Fits([num_threads |-> 0])
    BY DEF Fits, Bools, Strings
  <2> QED
    BY <1>1, <1>13, <2>1, WithFits DEF Defaults, BcDefaults
<1>14. CASE s = "hf"
  <2>1. Fits([fixing_rate |-> 90, heuristic_ratio |-> 20, time_slice_factor |-> 10,
              min_time_slice |-> 500, heuristic_name |-> "vns"])
    BY DEF Fits, Bools, Strings
  <2> QED
    BY <1>1, <1>14, <2>1, WithFits DEF Defaults, HfDefaults
<1>15. CASE s = "lb"
  <2>1. Fits([k |-> 20, heuristic_ratio |-> 20, heuristic_name |-> "vns"])
    BY DEF Fits, Bools, Strings
  <2> QED
    BY <1>1, <1>15, <2>1, WithFits DEF Defaults, LbDefaults
<1>16. s \in {"cli", "general", "inst", "sol", "nn", "vns", "tabu", "grasp", "em", "genetic",
              "benders", "bc", "hf", "lb"}
  BY DEF Defaults
<1> QED
  BY <1>2, <1>3, <1>4, <1>5, <1>6, <1>7, <1>8, <1>9, <1>10, <1>11, <1>12, <1>13, <1>14, <1>15, <1>16

LEMMA CreatedIs ==
  ASSUME NEW who, NEW lost
  PROVE  /\ Valued(Created(who, lost))
         /\ \A o \in StringOptions :
              Get(Created(who, lost), o) =
                IF Get(Defaults, o) = NoText \/ o \in lost THEN Null ELSE <<who, o[1], o[2]>>
<1> DEFINE r == Created(who, lost)
<1>1. /\ DOMAIN r = DOMAIN Defaults
      /\ \A s \in DOMAIN Defaults :
           r[s] = [f \in DOMAIN Defaults[s] |->
                     IF f \notin Strings THEN Defaults[s][f]
                     ELSE IF Defaults[s][f] = NoText \/ <<s, f>> \in lost THEN Null
                     ELSE <<who, s, f>>]
      /\ r = [s \in DOMAIN Defaults |-> r[s]]
  BY DEF Created
<1>2. Structured(r)
  BY <1>1 DEF Structured
<1>3. ASSUME NEW o \in Flags
      PROVE  Get(r, o) = IF o[2] \notin Strings THEN Get(Defaults, o)
                         ELSE IF Get(Defaults, o) = NoText \/ o \in lost THEN Null
                         ELSE <<who, o[1], o[2]>>
  BY <1>1, FlagIs DEF Get
<1>4. ASSUME NEW o \in Flags, Type(o) # "string"
      PROVE  Get(r, o) \in Sort(o)
  <2>1. o[2] \notin Strings /\ Get(r, o) = Get(Defaults, o)
    BY <1>3, <1>4, SortIs
  <2>2. Fits(Defaults[o[1]]) /\ o[2] \in DOMAIN Defaults[o[1]]
    BY FlagIs, DefaultsFit
  <2> QED
    BY <2>1, <2>2, SortIs DEF Get, Fits
<1>5. ASSUME NEW o \in StringOptions
      PROVE  o \in Flags /\ o[2] \in Strings
  BY DEF StringOptions, Type
<1> QED
  BY <1>2, <1>3, <1>4, <1>5 DEF Valued

\* Who may own a string of the structure: the field holds nothing or a block that was
\* made for it by one of W.
Tagged(opts, W) ==
  \A o \in StringOptions : Get(opts, o) = Null \/ \E w \in W : Get(opts, o) = <<w, o[1], o[2]>>

LEMMA PutKeeps ==
  ASSUME NEW opts, Valued(opts), NEW W, Tagged(opts, W), NEW o \in Flags, NEW v,
         Type(o) # "string" => v \in Sort(o),
         Type(o) = "string" => v = Null \/ \E w \in W : v = <<w, o[1], o[2]>>
  PROVE  /\ Valued([opts EXCEPT ![o[1]][o[2]] = v])
         /\ Tagged([opts EXCEPT ![o[1]][o[2]] = v], W)
<1>1. PICK r : r = [opts EXCEPT ![o[1]][o[2]] = v]
  OBVIOUS
<1>2. Structured(r) /\ Get(r, o) = v /\ \A q \in Flags : q # o => Get(r, q) = Get(opts, q)
  <2>1. Structured(opts)
    BY DEF Valued
  <2>2. IsPut(r, opts, o, v)
    BY <1>1, <2>1, PutIs
  <2> QED
    BY <2>2 DEF IsPut
<1>3. Valued(r)
  BY <1>2 DEF Valued
<1>4. Tagged(r, W)
  BY <1>2 DEF Tagged, StringOptions
<1> QED
  BY <1>1, <1>3, <1>4

LEMMA TypeIs ==
  ASSUME NEW o
  PROVE  /\ Type(o) = "string" <=> o[2] \in Strings
         /\ Type(o) = "bool" <=> o[2] \in Bools
         /\ Type(o) = "int" <=> o[2] \in Ints
         /\ Type(o) = "udouble" <=> o[2] \in Udoubles
         /\ Type(o) = "uint" <=> o[2] \notin Strings \cup Bools \cup Ints \cup Udoubles
BY DEF Type, Bools, Strings, Ints, Udoubles

LEMMA StoredIs ==
  ASSUME NEW o \in Flags, NEW t, Type(o) \notin {"bool", "string"}, Stores(Type(o), t)
  PROVE  Value(Type(o), t) \in Sort(o)
<1>1. Type(o) \in {"int", "uint", "udouble"}
  BY DEF Type
<1>2. UintMax \in Nat
  BY WidthAssumption DEF UintMax
<1>3. CASE Type(o) = "udouble"
  BY <1>3, TokenAssumption DEF Stores, Value, Sort
<1>4. CASE Type(o) = "int"
  BY <1>4, TokenAssumption DEF Stores, Value, Sort
<1>5. CASE Type(o) = "uint"
  BY <1>2, <1>5, TokenAssumption DEF Stores, Value, Sort
<1> QED
  BY <1>1, <1>3, <1>4, <1>5

\* The owners of the strings in the options, before and after the merge, and in the
\* structure of the ini file.
Early == {"cli", "arg"}
Late  == {"cli", "arg", "copy"}
FileOwners == {"ini", "file"}

OptionsInv ==
  /\ Valued(options) /\ Tagged(options, Late)
  /\ status = "loading" => Tagged(options, Early)
  /\ ini # NoOptions => /\ Valued(ini) /\ Tagged(ini, FileOwners)
                       /\ status = "loading" /\ parsed = "SUCCESS"

LEMMA NamedFlag ==
  ASSUME NEW t, Known(t)
  PROVE  Names[t] \in Flags
BY TokenAssumption DEF Known

LEMMA CreatedTagged ==
  ASSUME NEW who, NEW lost, NEW W, who \in W
  PROVE  Valued(Created(who, lost)) /\ Tagged(Created(who, lost), W)
BY CreatedIs DEF Tagged

LEMMA MoreOwners ==
  ASSUME NEW opts, NEW W, NEW V, W \subseteq V, Tagged(opts, W)
  PROVE  Tagged(opts, V)
BY DEF Tagged

\* What the command line writes.
LEMMA ParserWrites ==
  ASSUME OptionsInv, status = "loading", ParserNext
  PROVE  Valued(options') /\ Tagged(options', Early)
<1>1. Valued(options) /\ Tagged(options, Early)
  BY DEF OptionsInv
<1>2. CASE Switch
  <2>1. PICK t \in Tokens : Known(t) /\ Type(Names[t]) = "bool" /\ Put(Names[t], TRUE)
    BY <1>2 DEF Switch, Visits
  <2>2. PICK o \in Flags : o = Names[t]
    BY <2>1, NamedFlag
  <2>3. TRUE \in Sort(o) /\ Type(o) # "string"
    BY <2>1, <2>2 DEF Sort
  <2> QED
    BY <1>1, <2>1, <2>2, <2>3, PutKeeps DEF Put
<1>3. CASE TakeNumber
  <2>1. PICK t \in Tokens, v \in Tokens :
          /\ Known(t) /\ Type(Names[t]) \notin {"bool", "string"}
          /\ IF Stores(Type(Names[t]), v) THEN Put(Names[t], Value(Type(Names[t]), v))
             ELSE UNCHANGED options
    BY <1>3 DEF TakeNumber, Visits
  <2>2. PICK o \in Flags : o = Names[t]
    BY <2>1, NamedFlag
  <2>3. CASE Stores(Type(o), v)
    <3>1. PICK x : x = Value(Type(o), v)
      OBVIOUS
    <3>2. x \in Sort(o) /\ Type(o) # "string"
      BY <2>1, <2>2, <2>3, <3>1, StoredIs
    <3>3. options' = [options EXCEPT ![o[1]][o[2]] = x]
      BY <2>1, <2>2, <2>3, <3>1 DEF Put
    <3> QED
      BY <1>1, <3>2, <3>3, PutKeeps
  <2>4. CASE ~Stores(Type(o), v)
    BY <1>1, <2>1, <2>2, <2>4
  <2> QED
    BY <2>3, <2>4
<1>4. CASE TakeString
  <2>1. PICK t \in Tokens :
          /\ Known(t) /\ Type(Names[t]) = "string"
          /\ \/ Put(Names[t], <<"arg", Names[t][1], Names[t][2]>>)
             \/ UNCHANGED options
    BY <1>4 DEF TakeString, Visits
  <2>2. PICK o \in Flags : o = Names[t]
    BY <2>1, NamedFlag
  <2>3. PICK x : x = <<"arg", o[1], o[2]>>
    OBVIOUS
  <2>4. \E w \in Early : x = <<w, o[1], o[2]>>
    BY <2>3 DEF Early
  <2> QED
    BY <1>1, <2>1, <2>2, <2>3, <2>4, PutKeeps DEF Put
<1>5. CASE ArgsEnd \/ Terminator \/ Unknown \/ Repeated \/ ValueMissing
  BY <1>1, <1>5 DEF ArgsEnd, Terminator, Unknown, Repeated, ValueMissing
<1> QED
  BY <1>2, <1>3, <1>4, <1>5 DEF ParserNext

\* What a line of the ini file writes.
LEMMA HandleWrites ==
  ASSUME Valued(ini), Tagged(ini, FileOwners), NEW name, NEW text, Handle(name, text)
  PROVE  Valued(ini') /\ Tagged(ini', FileOwners)
<1>1. PICK o : o = <<section, name>>
  OBVIOUS
<1>2. Registry \subseteq Flags
  BY DEF Registry
<1>3. CASE o \in Registry /\ Type(o) = "string" /\ SetString(o, text)
  <2>1. PICK x : x = <<"file", o[1], o[2]>>
    OBVIOUS
  <2>2. ini' = [ini EXCEPT ![o[1]][o[2]] = x] \/ ini' = [ini EXCEPT ![o[1]][o[2]] = Null]
    BY <1>3, <2>1 DEF SetString
  <2>3. \E w \in FileOwners : x = <<w, o[1], o[2]>>
    BY <2>1 DEF FileOwners
  <2> QED
    BY <1>2, <1>3, <2>2, <2>3, PutKeeps
<1>4. CASE o \in Registry /\ Type(o) # "string" /\ SetNumber(o, text)
  <2>1. CASE o[2] = "mode"
    <3>1. Type(o) = "int" /\ IniMode(text) \in Int
      <4>1. "mode" \notin Strings /\ "mode" \notin Bools /\ "mode" \in Ints
        BY DEF Strings, Bools, Ints
      <4>2. Type(o) = "int"
        BY <2>1, <4>1, TypeIs
      <4> QED
        BY <4>2 DEF IniMode, RANDOM, FILE
    <3>2. PICK x : x = IniMode(text)
      OBVIOUS
    <3>3. x \in Sort(o) /\ ini' = [ini EXCEPT ![o[1]][o[2]] = x]
      BY <1>4, <2>1, <3>1, <3>2 DEF SetNumber, Sort
    <3> QED
      BY <1>2, <1>4, <3>3, PutKeeps
  <2>2. CASE o[2] # "mode" /\ Type(o) = "bool"
    <3>1. PICK x : x = (text \in {"true", "1"})
      OBVIOUS
    <3>2. x \in Sort(o) /\ ini' = [ini EXCEPT ![o[1]][o[2]] = x]
      BY <1>4, <2>2, <3>1 DEF SetNumber, Sort
    <3> QED
      BY <1>2, <1>4, <3>2, PutKeeps
  <2>3. CASE o[2] # "mode" /\ Type(o) # "bool" /\ Stores(Type(o), text)
    <3>1. PICK x : x = Value(Type(o), text)
      OBVIOUS
    <3>2. x \in Sort(o)
      BY <1>2, <1>4, <2>3, <3>1, StoredIs
    <3>3. ini' = [ini EXCEPT ![o[1]][o[2]] = x]
      BY <1>4, <2>3, <3>1 DEF SetNumber
    <3> QED
      BY <1>2, <1>4, <3>2, <3>3, PutKeeps
  <2>4. CASE o[2] # "mode" /\ Type(o) # "bool" /\ ~Stores(Type(o), text)
    BY <1>4, <2>4 DEF SetNumber
  <2> QED
    BY <2>1, <2>2, <2>3, <2>4
<1>5. CASE o \notin Registry /\ UNCHANGED ini
  BY <1>5
<1> QED
  BY <1>1, <1>3, <1>4, <1>5 DEF Handle

-----------------------------------------------------------------------------
\* The number of threads is filled in.
ThreadsOption == <<"general", "num_threads">>

LEMMA ThreadsIs ==
  ASSUME NEW opts, Valued(opts)
  PROVE  /\ ThreadsOption \in Flags /\ Type(ThreadsOption) = "uint"
         /\ WithThreads(opts) =
              [opts EXCEPT ![ThreadsOption[1]][ThreadsOption[2]] =
                 IF Get(opts, ThreadsOption) = 0 THEN MaxThreads ELSE Get(opts, ThreadsOption)]
<1>1. "general" \in DOMAIN Defaults /\ Defaults["general"] = GeneralDefaults
  BY DEF Defaults
<1>2. "num_threads" \in DOMAIN GeneralDefaults
  BY DEF GeneralDefaults
<1>3. ThreadsOption \in Flags
  BY <1>1, <1>2, FlagIs DEF ThreadsOption
<1>4. Type(ThreadsOption) = "uint"
  BY DEF Type, ThreadsOption, Strings, Bools, Ints, Udoubles
<1>5. opts["general"] = opts.general /\ Get(opts, ThreadsOption) = opts["general"]["num_threads"]
  BY DEF Get, ThreadsOption
<1>6. ThreadsOption[1] = "general" /\ ThreadsOption[2] = "num_threads"
  BY DEF ThreadsOption
<1> QED
  BY <1>3, <1>4, <1>5, <1>6 DEF WithThreads

LEMMA ThreadsKeep ==
  ASSUME NEW opts, Valued(opts), NEW W, Tagged(opts, W)
  PROVE  Valued(WithThreads(opts)) /\ Tagged(WithThreads(opts), W)
         /\ \A q \in Flags : q # ThreadsOption => Get(WithThreads(opts), q) = Get(opts, q)
<1>1. PICK o \in Flags : o = ThreadsOption
  BY ThreadsIs
<1>2. PICK v : v = IF Get(opts, o) = 0 THEN MaxThreads ELSE Get(opts, o)
  OBVIOUS
<1>3. Type(o) = "uint" /\ WithThreads(opts) = [opts EXCEPT ![o[1]][o[2]] = v]
  BY <1>1, <1>2, ThreadsIs
<1>4. v \in Sort(o)
  <2>1. Get(opts, o) \in Sort(o) /\ Sort(o) = Nat
    BY <1>3 DEF Valued, Sort
  <2> QED
    BY <1>2, <2>1, IniAssumption
<1>5. Valued(WithThreads(opts)) /\ Tagged(WithThreads(opts), W)
  <2>1. PICK r : r = [opts EXCEPT ![o[1]][o[2]] = v]
    OBVIOUS
  <2>2. Type(o) # "string"
    BY <1>3
  <2>3. Valued(r) /\ Tagged(r, W)
    BY <1>4, <2>1, <2>2, PutKeeps
  <2> QED
    BY <1>3, <2>1, <2>3
<1>6. IsPut(WithThreads(opts), opts, o, v)
  <2>1. Structured(opts)
    BY DEF Valued
  <2>2. PICK r : r = [opts EXCEPT ![o[1]][o[2]] = v]
    OBVIOUS
  <2>3. IsPut(r, opts, o, v)
    BY <2>1, <2>2, PutIs
  <2> QED
    BY <1>3, <2>2, <2>3
<1> QED
  BY <1>1, <1>5, <1>6 DEF IsPut

\* The merge takes what the command line did not visit from the ini file.
LEMMA MergedIs ==
  ASSUME Valued(options), Tagged(options, Early), Valued(ini), NEW lost
  PROVE  /\ Valued(Merged(lost)) /\ Tagged(Merged(lost), Late)
         /\ \A o \in Flags :
              Get(Merged(lost), o) =
                IF o \notin Unvisited THEN Get(options, o)
                ELSE IF Type(o) # "string" THEN Get(ini, o)
                ELSE IF Get(ini, o) = Null \/ o \in lost THEN Null
                ELSE <<"copy", o[1], o[2]>>
<1> DEFINE r == Merged(lost)
<1>1. /\ DOMAIN options = DOMAIN Defaults
      /\ \A s \in DOMAIN Defaults : DOMAIN options[s] = DOMAIN Defaults[s]
  BY DEF Valued, Structured
<1>2. /\ DOMAIN r = DOMAIN Defaults
      /\ r = [s \in DOMAIN Defaults |-> r[s]]
      /\ \A s \in DOMAIN Defaults :
           r[s] = [f \in DOMAIN Defaults[s] |->
                     IF <<s, f>> \notin Unvisited THEN options[s][f]
                     ELSE IF f \notin Strings THEN ini[s][f]
                     ELSE IF ini[s][f] = Null \/ <<s, f>> \in lost THEN Null
                     ELSE <<"copy", s, f>>]
  BY <1>1 DEF Merged
<1>3. Structured(r)
  BY <1>2 DEF Structured
<1>4. ASSUME NEW o \in Flags
      PROVE  Get(r, o) = IF o \notin Unvisited THEN Get(options, o)
                         ELSE IF Type(o) # "string" THEN Get(ini, o)
                         ELSE IF Get(ini, o) = Null \/ o \in lost THEN Null
                         ELSE <<"copy", o[1], o[2]>>
  <2>1. Type(o) = "string" <=> o[2] \in Strings
    BY TypeIs
  <2> QED
    BY <1>2, <2>1, FlagIs DEF Get
<1> HIDE DEF r
<1>5. Valued(r)
  BY <1>3, <1>4 DEF Valued
<1>6. Tagged(r, Late)
  <2>1. ASSUME NEW o \in StringOptions
        PROVE  Get(r, o) = Null \/ \E w \in Late : Get(r, o) = <<w, o[1], o[2]>>
    <3>1. o \in Flags /\ Type(o) = "string"
      BY DEF StringOptions
    <3>2. CASE Get(r, o) = Get(options, o)
      BY <3>2 DEF Tagged, Early, Late
    <3>3. CASE Get(r, o) = Null
      BY <3>3
    <3>4. CASE Get(r, o) = <<"copy", o[1], o[2]>>
      BY <3>4 DEF Late
    <3> QED
      BY <1>4, <3>1, <3>2, <3>3, <3>4
  <2> QED
    BY <2>1 DEF Tagged
<1> QED
  BY <1>4, <1>5, <1>6 DEF r

-----------------------------------------------------------------------------
\* The steps that write neither structure.
LEMMA OptionsStay ==
  ASSUME OptionsInv, options' = options, ini' = ini,
         ini # NoOptions => status' = "loading" /\ parsed' = "SUCCESS",
         status' = "loading" => status = "loading"
  PROVE  OptionsInv'
BY DEF OptionsInv, Tagged, Valued, Structured

LEMMA OptionsInvInit == ProgramInit => OptionsInv
<1> SUFFICES ASSUME ProgramInit
             PROVE  OptionsInv
  OBVIOUS
<1>1. PICK lost : options = Created("cli", lost)
  BY DEF ProgramInit, LoadInit, ParserInit
<1>2. Valued(options) /\ Tagged(options, Early) /\ Tagged(options, Late)
  BY <1>1, CreatedTagged DEF Early, Late
<1>3. ini = NoOptions
  BY DEF ProgramInit, LoadInit
<1> QED
  BY <1>2, <1>3 DEF OptionsInv

\* The verdict on the options ends the load.
LEMMA VerdictIs ==
  ASSUME NEW opts
  PROVE  /\ Verdict(opts) \in {"MISSING_MANDATORY_FLAG", "WRONG_VALUE_TYPE", "SUCCESS"}
         /\ Verdict(opts) = "SUCCESS" =>
              /\ AlgorithmsValid(opts)
              /\ opts.inst.mode # FILE => ~(opts.inst.number_of_nodes < 2)
<1> DEFINE noFile == opts.inst.mode = FILE /\ (IF opts.inst.input_file = Null THEN TRUE
                                               ELSE heap'[opts.inst.input_file] = "")
           badArea == opts.inst.mode # FILE /\ (opts.inst.number_of_nodes < 2 \/ opts.inst.square_side = 0)
<1>1. Verdict(opts) = CASE noFile -> "MISSING_MANDATORY_FLAG"
                        [] badArea \/ (~noFile /\ ~AlgorithmsValid(opts)) -> "WRONG_VALUE_TYPE"
                        [] OTHER -> "SUCCESS"
  BY DEF Verdict
<1>2. ~(noFile /\ badArea)
  OBVIOUS
<1>3. CASE noFile
  BY <1>1, <1>2, <1>3
<1>4. CASE ~noFile /\ (badArea \/ ~AlgorithmsValid(opts))
  BY <1>1, <1>4
<1>5. CASE ~noFile /\ ~badArea /\ AlgorithmsValid(opts)
  BY <1>1, <1>5
<1> QED
  BY <1>3, <1>4, <1>5

LEMMA OptionsInvLoad == OptionsInv /\ LoadNext => OptionsInv'
<1> SUFFICES ASSUME OptionsInv, LoadNext
             PROVE  OptionsInv'
  OBVIOUS
<1>0. /\ Valued(options) /\ Tagged(options, Late)
      /\ status = "loading" => Tagged(options, Early)
      /\ ini # NoOptions => /\ Valued(ini) /\ Tagged(ini, FileOwners)
                            /\ status = "loading" /\ parsed = "SUCCESS"
  BY DEF OptionsInv
<1>1. CASE ParserUnavailable
  <2>1. status' = "INTERNAL_ERROR" /\ options' = options /\ ini' = ini /\ parsed = "new"
    BY <1>1 DEF ParserUnavailable
  <2> QED
    BY <1>0, <2>1, OptionsStay
<1>2. CASE ReadArguments
  <2>1. status = "loading" /\ status' = status /\ ini' = ini /\ (BuildParser \/ ParserNext)
    BY <1>2 DEF ReadArguments
  <2>2. parsed \in {"new", "reading"}
    BY <2>1 DEF BuildParser, ParserNext, Parsing, ArgsEnd, Terminator, Unknown, Repeated, Switch,
                ValueMissing, TakeNumber, TakeString
  <2>3. ini = NoOptions
    BY <1>0, <2>2
  <2>4. Valued(options') /\ Tagged(options', Early)
    <3>1. CASE BuildParser
      BY <1>0, <2>1, <3>1 DEF BuildParser
    <3> QED
      BY <2>1, <3>1, ParserWrites
  <2>5. Tagged(options', Late)
    BY <2>4, MoreOwners DEF Early, Late
  <2> QED
    BY <2>1, <2>3, <2>4, <2>5 DEF OptionsInv, Valued, Structured, Tagged
<1>3. CASE ArgumentsFail
  <2>1. options' = options /\ ini' = ini /\ ini = NoOptions /\ status = "loading"
    BY <1>3 DEF ArgumentsFail, Returned, parserVars
  <2> QED
    BY <2>1, OptionsStay
<1>4. CASE OpenIni
  <2>1. PICK lost : ini' = Created("ini", lost)
    BY <1>4 DEF OpenIni
  <2>2. options' = options /\ status = "loading" /\ status' = "loading" /\ parsed' = "SUCCESS"
    BY <1>4 DEF OpenIni, Returned
  <2>3. Valued(ini') /\ Tagged(ini', FileOwners)
    BY <2>1, CreatedTagged DEF FileOwners
  <2> QED
    BY <1>0, <2>2, <2>3 DEF OptionsInv, Valued, Structured, Tagged
<1>5. CASE ReadLine
  <2>1. /\ options' = options /\ status = "loading" /\ status' = "loading" /\ parsed' = parsed
        /\ ini # NoOptions
    BY <1>5 DEF ReadLine, Reading
  <2>2. Valued(ini) /\ Tagged(ini, FileOwners) /\ parsed = "SUCCESS"
    BY <1>0, <2>1
  <2>3. PICK l \in IniLines : Comment(l) \/ Continuation(l) \/ SectionLine(l) \/ PairLine(l) \/ Malformed(l)
    BY <1>5 DEF ReadLine
  <2>4. UNCHANGED ini \/ \E name, text : Handle(name, text)
    BY <2>3 DEF Comment, Continuation, SectionLine, PairLine, Malformed
  <2>5. Valued(ini') /\ Tagged(ini', FileOwners)
    BY <2>2, <2>4, HandleWrites
  <2> QED
    BY <1>0, <2>1, <2>2, <2>5 DEF OptionsInv, Valued, Structured, Tagged
<1>6. CASE MergeIni
  <2>1. PICK lost : options' = WithThreads(Merged(lost))
    BY <1>6 DEF MergeIni
  <2>2. /\ ini' = NoOptions /\ status' = Verdict(options') /\ status = "loading"
        /\ ini # NoOptions
    BY <1>6 DEF MergeIni, Reading
  <2>3. Valued(Merged(lost)) /\ Tagged(Merged(lost), Late)
    BY <1>0, <2>2, MergedIs
  <2>4. Valued(options') /\ Tagged(options', Late)
    BY <2>1, <2>3, ThreadsKeep
  <2>5. status' # "loading"
    BY <2>2, VerdictIs
  <2> QED
    BY <2>2, <2>4, <2>5 DEF OptionsInv, Valued, Structured, Tagged
<1>7. CASE Validate
  <2>1. /\ options' = WithThreads(options) /\ status' = Verdict(options') /\ ini' = ini
        /\ ini = NoOptions
    BY <1>7 DEF Validate, Returned
  <2>2. Valued(options') /\ Tagged(options', Late)
    BY <1>0, <2>1, ThreadsKeep
  <2>3. status' # "loading"
    BY <2>1, VerdictIs
  <2> QED
    BY <2>1, <2>2, <2>3 DEF OptionsInv, Valued, Structured, Tagged
<1> QED
  BY <1>1, <1>2, <1>3, <1>4, <1>5, <1>6, <1>7 DEF LoadNext

LEMMA OptionsInvStep == OptionsInv /\ [ProgramNext]_programVars => OptionsInv'
<1> SUFFICES ASSUME OptionsInv, ProgramNext \/ UNCHANGED programVars
             PROVE  OptionsInv'
  OBVIOUS
<1>1. CASE Load
  BY <1>1, OptionsInvLoad DEF Load
<1>2. CASE ~Load
  <2>1. UNCHANGED <<options, ini, status, parsed>>
    BY <1>2 DEF ProgramNext, Refused, CreateRandom, InstanceUnreadable, LoadInstance, NoMode, Launch,
                Finish, Creates, Failed, CleanUp, settled, programVars, loadVars, parserVars
  <2> QED
    BY <2>1, OptionsStay DEF OptionsInv
<1> QED
  BY <1>1, <1>2

-----------------------------------------------------------------------------
\* The string fields are finitely many, and so are the allocations that fail at a step.
LEMMA FewStrings == IsFiniteSet(StringOptions)
<1>1. \A a, b : IsFiniteSet({a, b})
  <2>1. ASSUME NEW a, NEW b
        PROVE  IsFiniteSet({a, b})
    <3>1. IsFiniteSet({a} \cup {b})
      BY FS_Singleton, FS_Union
    <3>2. {a} \cup {b} = {a, b}
      OBVIOUS
    <3> QED
      BY <3>1, <3>2
  <2> QED
    BY <2>1
<1>2. IsFiniteSet(Strings)
  <2>1. PICK S1 : S1 = {"config_file", "plots_path"}
    OBVIOUS
  <2>2. PICK S2 : S2 = {"input_file", "load_file"}
    OBVIOUS
  <2>3. PICK S3 : S3 = {"save_file", "plot_file"}
    OBVIOUS
  <2>4. PICK S4 : S4 = {"cost_file", "heuristic_name"}
    OBVIOUS
  <2>5. IsFiniteSet(S1) /\ IsFiniteSet(S2) /\ IsFiniteSet(S3) /\ IsFiniteSet(S4)
    BY <1>1, <2>1, <2>2, <2>3, <2>4
  <2>6. IsFiniteSet((S1 \cup S2) \cup (S3 \cup S4))
    BY <2>5, FS_Union
  <2>7. Strings = (S1 \cup S2) \cup (S3 \cup S4)
    BY <2>1, <2>2, <2>3, <2>4 DEF Strings
  <2> QED
    BY <2>6, <2>7
<1>3. IsFiniteSet(DOMAIN Defaults)
  <2>1. PICK S1 : S1 = {"cli", "general"}
    OBVIOUS
  <2>2. PICK S2 : S2 = {"inst", "sol"}
    OBVIOUS
  <2>3. PICK S3 : S3 = {"nn", "vns"}
    OBVIOUS
  <2>4. PICK S4 : S4 = {"tabu", "grasp"}
    OBVIOUS
  <2>5. PICK S5 : S5 = {"em", "genetic"}
    OBVIOUS
  <2>6. PICK S6 : S6 = {"benders", "bc"}
    OBVIOUS
  <2>7. PICK S7 : S7 = {"hf", "lb"}
    OBVIOUS
  <2>8. /\ IsFiniteSet(S1) /\ IsFiniteSet(S2) /\ IsFiniteSet(S3) /\ IsFiniteSet(S4)
        /\ IsFiniteSet(S5) /\ IsFiniteSet(S6) /\ IsFiniteSet(S7)
    BY <1>1, <2>1, <2>2, <2>3, <2>4, <2>5, <2>6, <2>7
  <2>9. PICK A : A = S1 \cup S2
    OBVIOUS
  <2>10. PICK B : B = S3 \cup S4
    OBVIOUS
  <2>11. PICK C : C = S5 \cup S6
    OBVIOUS
  <2>12. IsFiniteSet(A) /\ IsFiniteSet(B) /\ IsFiniteSet(C)
    BY <2>8, <2>9, <2>10, <2>11, FS_Union
  <2>13. PICK D : D = A \cup B
    OBVIOUS
  <2>14. PICK E : E = C \cup S7
    OBVIOUS
  <2>15. IsFiniteSet(D \cup E)
    BY <2>8, <2>12, <2>13, <2>14, FS_Union
  <2>16. DOMAIN Defaults = D \cup E
    <3>1. DOMAIN Defaults = {"cli", "general", "inst", "sol", "nn", "vns", "tabu", "grasp", "em",
                             "genetic", "benders", "bc", "hf", "lb"}
      BY DEF Defaults
    <3> QED
      BY <3>1, <2>1, <2>2, <2>3, <2>4, <2>5, <2>6, <2>7, <2>9, <2>10, <2>11, <2>13, <2>14
  <2> QED
    BY <2>15, <2>16
<1>4. IsFiniteSet((DOMAIN Defaults) \X Strings)
  BY <1>2, <1>3, FS_Product
<1>5. StringOptions \subseteq (DOMAIN Defaults) \X Strings
  <2>1. ASSUME NEW o \in StringOptions
        PROVE  o \in (DOMAIN Defaults) \X Strings
    <3>1. o \in Flags /\ o[2] \in Strings
      BY TypeIs DEF StringOptions
    <3>2. PICK s, f : s = o[1] /\ f = o[2]
      OBVIOUS
    <3>3. o = <<s, f>> /\ s \in DOMAIN Defaults /\ f \in Strings
      BY <3>1, <3>2, FlagIs
    <3> QED
      BY <3>3
  <2> QED
    BY <2>1
<1> QED
  BY <1>4, <1>5, FS_Subset

LEMMA LossesCount ==
  ASSUME failures \in Nat, NEW S, NEW L \in Losses(S)
  PROVE  failures + Cardinality(L) \in Nat
<1>1. L \subseteq Fallible /\ IsFiniteSet(Fallible)
  BY TokenAssumption DEF Losses
<1>2. IsFiniteSet(L)
  BY <1>1, FS_Subset
<1> QED
  BY <1>2, FS_CardinalityType

-----------------------------------------------------------------------------
\* The blocks of a structure.  No two fields share one, because each was made for its field.
LEMMA OwnedIs ==
  ASSUME NEW opts, NEW b
  PROVE  b \in Owned(opts) <=> b # Null /\ \E o \in StringOptions : b = Get(opts, o)
BY DEF Owned

LEMMA Distinct ==
  ASSUME NEW opts, NEW W, Tagged(opts, W), NEW p \in StringOptions, NEW q \in StringOptions,
         Get(opts, p) = Get(opts, q), Get(opts, p) # Null
  PROVE  p = q
<1>1. p = <<p[1], p[2]>> /\ q = <<q[1], q[2]>>
  BY FlagIs DEF StringOptions
<1>2. PICK v \in W : Get(opts, p) = <<v, p[1], p[2]>>
  BY DEF Tagged
<1>3. PICK w \in W : Get(opts, q) = <<w, q[1], q[2]>>
  BY DEF Tagged
<1>4. <<v, p[1], p[2]>> = <<w, q[1], q[2]>>
  BY <1>2, <1>3
<1>5. p[1] = q[1] /\ p[2] = q[2]
  BY <1>4
<1> QED
  BY <1>1, <1>5

LEMMA Apart ==
  ASSUME NEW opts, NEW more, NEW V, NEW W, Tagged(opts, V), Tagged(more, W), V \cap W = {}
  PROVE  Owned(opts) \cap Owned(more) = {}
<1> SUFFICES ASSUME NEW b, b \in Owned(opts), b \in Owned(more)
             PROVE  FALSE
  OBVIOUS
<1>1. PICK p \in StringOptions : b = Get(opts, p) /\ b # Null
  BY OwnedIs
<1>2. PICK q \in StringOptions : b = Get(more, q)
  BY OwnedIs
<1>3. PICK v \in V : b = <<v, p[1], p[2]>>
  BY <1>1 DEF Tagged
<1>4. PICK w \in W : b = <<w, q[1], q[2]>>
  BY <1>1, <1>2 DEF Tagged
<1>5. v = w
  BY <1>3, <1>4
<1> QED
  BY <1>5

LEMMA OneBlockEach ==
  ASSUME NEW opts, NEW W, Tagged(opts, W), opts # NoOptions
  PROVE  /\ IsFiniteSet(Owned(opts)) /\ Cardinality(Owned(opts)) \in Nat
         /\ Cardinality(Owned(opts)) = Cardinality(Holders(opts))
<1> DEFINE f == [o \in Holders(opts) |-> Get(opts, o)]
<1>1. Holders(opts) = {o \in StringOptions : Get(opts, o) # Null}
  BY DEF Holders
<1>2. f \in [Holders(opts) -> Owned(opts)]
  BY <1>1, OwnedIs
<1>3. \A p, q \in Holders(opts) : f[p] = f[q] => p = q
  BY <1>1, Distinct
<1>4. \A b \in Owned(opts) : \E o \in Holders(opts) : f[o] = b
  BY <1>1, OwnedIs
<1>5. f \in Bijection(Holders(opts), Owned(opts))
  <2> HIDE DEF f
  <2>1. DOMAIN f = Holders(opts)
    BY <1>2
  <2> QED
    BY <1>2, <1>3, <1>4, <2>1 DEF Bijection, Injection, Surjection, IsInjective
<1>6. IsFiniteSet(Holders(opts))
  BY <1>1, FewStrings, FS_Subset
<1>7. ExistsBijection(Holders(opts), Owned(opts))
  BY <1>5 DEF ExistsBijection
<1>8. IsFiniteSet(Owned(opts)) /\ Cardinality(Owned(opts)) = Cardinality(Holders(opts))
  BY <1>6, <1>7, FS_Bijection
<1> QED
  BY <1>8, FS_CardinalityType

\* What a write does to the blocks of a structure.
LEMMA PutOther ==
  ASSUME NEW opts, NEW r, NEW o \in Flags, NEW v, IsPut(r, opts, o, v), Type(o) # "string"
  PROVE  Owned(r) = Owned(opts)
<1>1. \A q \in StringOptions : q \in Flags /\ q # o
  BY DEF StringOptions
<1>2. \A q \in StringOptions : Get(r, q) = Get(opts, q)
  BY <1>1 DEF IsPut
<1> QED
  BY <1>2 DEF Owned

LEMMA PutString ==
  ASSUME NEW opts, NEW W, Tagged(opts, W), NEW r, NEW o \in StringOptions, NEW v,
         IsPut(r, opts, o, v)
  PROVE  Owned(r) = (Owned(opts) \ {Get(opts, o)}) \cup ({v} \ {Null})
<1>1. Get(r, o) = v /\ \A q \in StringOptions : q # o => Get(r, q) = Get(opts, q)
  BY DEF IsPut, StringOptions
<1>2. ASSUME NEW b, b \in Owned(r)
      PROVE  b \in (Owned(opts) \ {Get(opts, o)}) \cup ({v} \ {Null})
  <2>1. PICK q \in StringOptions : b = Get(r, q) /\ b # Null
    BY <1>2, OwnedIs
  <2>2. CASE q = o
    BY <1>1, <2>1, <2>2
  <2>3. CASE q # o
    <3>1. b = Get(opts, q) /\ b \in Owned(opts)
      BY <1>1, <2>1, <2>3, OwnedIs
    <3>2. b # Get(opts, o)
      BY <2>1, <2>3, <3>1, Distinct
    <3> QED
      BY <3>1, <3>2
  <2> QED
    BY <2>2, <2>3
<1>3. ASSUME NEW b, b \in Owned(opts), b # Get(opts, o)
      PROVE  b \in Owned(r)
  <2>1. PICK q \in StringOptions : b = Get(opts, q) /\ b # Null
    BY <1>3, OwnedIs
  <2>2. q # o /\ b = Get(r, q)
    BY <1>1, <1>3, <2>1
  <2> QED
    BY <2>1, <2>2, OwnedIs
<1>4. v # Null => v \in Owned(r)
  BY <1>1, OwnedIs
<1> QED
  BY <1>2, <1>3, <1>4

LEMMA ThreadsOwned ==
  ASSUME NEW opts, Valued(opts)
  PROVE  Owned(WithThreads(opts)) = Owned(opts)
<1>1. PICK o \in Flags : o = ThreadsOption
  BY ThreadsIs
<1>2. PICK v : v = IF Get(opts, o) = 0 THEN MaxThreads ELSE Get(opts, o)
  OBVIOUS
<1>3. Type(o) = "uint" /\ WithThreads(opts) = [opts EXCEPT ![o[1]][o[2]] = v]
  BY <1>1, <1>2, ThreadsIs
<1>4. Structured(opts)
  BY DEF Valued
<1>5. PICK r : r = [opts EXCEPT ![o[1]][o[2]] = v]
  OBVIOUS
<1>6. IsPut(r, opts, o, v) /\ Type(o) # "string"
  BY <1>3, <1>4, <1>5, PutIs
<1>7. Owned(r) = Owned(opts)
  BY <1>6, PutOther
<1> QED
  BY <1>3, <1>5, <1>7

LEMMA StructureIsOne ==
  ASSUME NEW opts, Structured(opts)
  PROVE  opts # NoOptions
<1>1. "cli" \in DOMAIN Defaults
  BY DEF Defaults
<1>2. "cli" \in DOMAIN opts
  BY <1>1 DEF Structured
<1>3. DOMAIN NoOptions = {}
  BY DEF NoOptions
<1> QED
  BY <1>2, <1>3

-----------------------------------------------------------------------------
(* The blocks: what is live is held, and what is held is live, but for the one block whose
   copy failed on the command line. *)
Blocks ==
  /\ DOMAIN heap \subseteq Held
  /\ \/ Held \subseteq DOMAIN heap
     \/ parsed = "INTERNAL_ERROR" /\ failures > 0 /\ \E b : Held \ DOMAIN heap \subseteq {b}

OwnershipInv ==
  /\ failures \in Nat
  /\ stage \in {"load", "run", "exited", "undefined"}
  /\ stage # "load" => status # "loading"
  /\ stage \in {"load", "run"} => Blocks
  /\ stage \in {"exited", "undefined"} => heap = <<>>
  /\ stage = "undefined" => parsed = "INTERNAL_ERROR" /\ failures > 0

LEMMA OwnershipInit == ProgramInit => OwnershipInv
<1> SUFFICES ASSUME ProgramInit
             PROVE  OwnershipInv
  OBVIOUS
<1>1. PICK lost \in SUBSET (WithText \cap Fallible) :
        /\ options = Created("cli", lost) /\ heap = CreatedTexts("cli", lost)
        /\ failures = Cardinality(lost)
  BY DEF ProgramInit, LoadInit, ParserInit
<1>2. failures \in Nat
  <2>1. IsFiniteSet(Fallible) /\ lost \subseteq Fallible
    BY TokenAssumption
  <2> QED
    BY <1>1, <2>1, FS_Subset, FS_CardinalityType
<1>3. stage = "load" /\ status = "loading" /\ ini = NoOptions
  BY DEF ProgramInit, LoadInit
<1>4. DOMAIN heap = Held
  BY <1>1, <1>3 DEF Held, CreatedTexts
<1> QED
  BY <1>2, <1>3, <1>4 DEF OwnershipInv, Blocks

\* What the command line does to the blocks.
LEMMA ParserBlocks ==
  ASSUME OptionsInv, Blocks, failures \in Nat, status = "loading", ini = NoOptions, ParserNext,
         UNCHANGED ini
  PROVE  Blocks' /\ failures' \in Nat
<1>1. Valued(options) /\ Tagged(options, Early) /\ Structured(options)
  BY DEF OptionsInv, Valued
<1>2. Held = Owned(options) /\ Held' = Owned(options')
  BY DEF Held, Owned
<1>3. DOMAIN heap = Owned(options)
  <2>1. parsed = "reading"
    BY DEF ParserNext, Parsing, ArgsEnd, Terminator, Unknown, Repeated, Switch, ValueMissing,
           TakeNumber, TakeString
  <2> QED
    BY <1>2, <2>1 DEF Blocks
<1>4. CASE heap' = heap /\ failures' = failures /\ Owned(options') = Owned(options)
  BY <1>2, <1>3, <1>4 DEF Blocks
<1>5. CASE Switch
  <2>1. PICK t \in Tokens : Known(t) /\ Type(Names[t]) = "bool" /\ Put(Names[t], TRUE)
    BY <1>5 DEF Switch, Visits
  <2>2. PICK o \in Flags : o = Names[t]
    BY <2>1, NamedFlag
  <2>3. options' = [options EXCEPT ![o[1]][o[2]] = TRUE]
    BY <2>1, <2>2 DEF Put
  <2>4. PICK r : r = [options EXCEPT ![o[1]][o[2]] = TRUE]
    OBVIOUS
  <2>5. IsPut(r, options, o, TRUE) /\ Type(o) # "string"
    BY <1>1, <2>1, <2>2, <2>4, PutIs
  <2>6. Owned(r) = Owned(options)
    BY <2>5, PutOther
  <2>7. Owned(options') = Owned(options)
    BY <2>3, <2>4, <2>6
  <2> QED
    BY <1>4, <1>5, <2>7 DEF Switch
<1>6. CASE TakeNumber
  <2>1. PICK t \in Tokens, v \in Tokens :
          /\ Known(t) /\ Type(Names[t]) \notin {"bool", "string"}
          /\ IF Stores(Type(Names[t]), v) THEN Put(Names[t], Value(Type(Names[t]), v))
             ELSE UNCHANGED options
    BY <1>6 DEF TakeNumber, Visits
  <2>2. PICK o \in Flags : o = Names[t]
    BY <2>1, NamedFlag
  <2>3. CASE Stores(Type(o), v)
    <3>1. PICK x : x = Value(Type(o), v)
      OBVIOUS
    <3>2. options' = [options EXCEPT ![o[1]][o[2]] = x]
      BY <2>1, <2>2, <2>3, <3>1 DEF Put
    <3>3. PICK r : r = [options EXCEPT ![o[1]][o[2]] = x]
      OBVIOUS
    <3>4. IsPut(r, options, o, x) /\ Type(o) # "string"
      BY <1>1, <2>1, <2>2, <3>3, PutIs
    <3>5. Owned(r) = Owned(options)
      BY <3>4, PutOther
    <3>6. Owned(options') = Owned(options)
      BY <3>2, <3>3, <3>5
    <3> QED
      BY <1>4, <1>6, <3>6 DEF TakeNumber
  <2>4. CASE ~Stores(Type(o), v)
    <3>1. options' = options
      BY <2>1, <2>2, <2>4
    <3>2. Owned(options') = Owned(options)
      BY <3>1 DEF Owned
    <3> QED
      BY <1>4, <1>6, <3>2 DEF TakeNumber
  <2> QED
    BY <2>3, <2>4
<1>7. CASE TakeString
  <2>1. PICK t \in Tokens, v \in Tokens :
          /\ Known(t) /\ Type(Names[t]) = "string"
          /\ \/ /\ heap' = Allocated(Freed(heap, {Get(options, Names[t])}),
                                     <<"arg", Names[t][1], Names[t][2]>>, v)
                /\ Put(Names[t], <<"arg", Names[t][1], Names[t][2]>>)
                /\ UNCHANGED <<failures, parsed>>
             \/ /\ failures' = failures + 1
                /\ heap' = Freed(heap, {Get(options, Names[t])}) /\ Returns("INTERNAL_ERROR")
                /\ UNCHANGED options
    BY <1>7 DEF TakeString, Visits
  <2>2. PICK o \in Flags : o = Names[t]
    BY <2>1, NamedFlag
  <2>3. o \in StringOptions
    BY <2>1, <2>2 DEF StringOptions
  <2>4. PICK x, b : x = Get(options, o) /\ b = <<"arg", o[1], o[2]>>
    OBVIOUS
  <2>5. b # Null
    BY <2>4 DEF Null
  <2>6. CASE /\ heap' = Allocated(Freed(heap, {x}), b, v) /\ Put(o, b)
             /\ UNCHANGED <<failures, parsed>>
    <3>1. PICK r : r = [options EXCEPT ![o[1]][o[2]] = b]
      OBVIOUS
    <3>2. IsPut(r, options, o, b)
      BY <1>1, <3>1, PutIs
    <3>3. Owned(r) = (Owned(options) \ {Get(options, o)}) \cup ({b} \ {Null})
      BY <1>1, <2>3, <3>2, PutString
    <3>4. options' = r
      BY <2>6, <3>1 DEF Put
    <3>5. Held' = (DOMAIN heap \ {x}) \cup {b}
      BY <1>2, <1>3, <2>4, <2>5, <3>3, <3>4
    <3>6. DOMAIN heap' = (DOMAIN heap \ {x}) \cup {b}
      BY <2>6 DEF Allocated, Freed
    <3> QED
      BY <2>6, <3>5, <3>6 DEF Blocks
  <2>7. CASE /\ failures' = failures + 1 /\ heap' = Freed(heap, {x})
             /\ parsed' = "INTERNAL_ERROR" /\ options' = options
    <3>1. Held' = DOMAIN heap
      BY <1>2, <1>3, <2>7 DEF Owned
    <3>2. DOMAIN heap' = DOMAIN heap \ {x}
      BY <2>7 DEF Freed
    <3>3. DOMAIN heap' \subseteq Held' /\ Held' \ DOMAIN heap' \subseteq {x}
      BY <3>1, <3>2
    <3>4. failures' \in Nat /\ failures' > 0
      BY <2>7
    <3> QED
      BY <2>7, <3>3, <3>4 DEF Blocks
  <2> QED
    BY <2>1, <2>2, <2>4, <2>6, <2>7 DEF Returns
<1>8. CASE ArgsEnd \/ Terminator \/ Unknown \/ Repeated \/ ValueMissing
  <2>1. UNCHANGED <<options, heap, failures>>
    BY <1>8 DEF ArgsEnd, Terminator, Unknown, Repeated, ValueMissing
  <2>2. Owned(options') = Owned(options)
    BY <2>1 DEF Owned
  <2> QED
    BY <1>4, <2>1, <2>2
<1> QED
  BY <1>5, <1>6, <1>7, <1>8 DEF ParserNext

\* Early blocks, those of the ini file and the copies of the merge are different ones.
LEMMA FileApart ==
  ASSUME Tagged(options, Late), Tagged(ini, FileOwners)
  PROVE  Owned(options) \cap Owned(ini) = {}
<1>1. Late \cap FileOwners = {}
  BY DEF Late, FileOwners
<1> QED
  BY <1>1, Apart

\* What a line of the ini file does to the blocks.
LEMMA HandleBlocks ==
  ASSUME OptionsInv, ini # NoOptions, DOMAIN heap = Owned(options) \cup Owned(ini),
         failures \in Nat, NEW name, NEW text, Handle(name, text)
  PROVE  DOMAIN heap' = Owned(options) \cup Owned(ini') /\ failures' \in Nat
<1>1. /\ Structured(ini) /\ Valued(ini) /\ Tagged(ini, FileOwners) /\ Tagged(options, Late)
  BY DEF OptionsInv, Valued
<1>2. Owned(options) \cap Owned(ini) = {}
  BY <1>1, FileApart
<1>3. PICK o : o = <<section, name>>
  OBVIOUS
<1>4. Registry \subseteq Flags
  BY DEF Registry
<1>5. CASE o \in Registry /\ Type(o) = "string" /\ SetString(o, text)
  <2>1. o \in StringOptions /\ o \in Flags
    BY <1>4, <1>5 DEF StringOptions
  <2>2. PICK x, b : x = Get(ini, o) /\ b = <<"file", o[1], o[2]>>
    OBVIOUS
  <2>3. b # Null
    BY <2>2 DEF Null
  <2>4. x \notin Owned(options)
    <3>1. CASE x = Null
      BY <3>1, OwnedIs
    <3>2. CASE x # Null
      BY <1>2, <2>1, <2>2, <3>2, OwnedIs
    <3> QED
      BY <3>1, <3>2
  <2>5. CASE /\ heap' = Allocated(Freed(heap, {x}), b, text)
             /\ ini' = [ini EXCEPT ![o[1]][o[2]] = b] /\ UNCHANGED failures
    <3>1. PICK r : r = [ini EXCEPT ![o[1]][o[2]] = b]
      OBVIOUS
    <3>2. IsPut(r, ini, o, b)
      BY <1>1, <2>1, <3>1, PutIs
    <3>3. Owned(r) = (Owned(ini) \ {Get(ini, o)}) \cup ({b} \ {Null})
      BY <1>1, <2>1, <3>2, PutString
    <3>4. Owned(ini') = (Owned(ini) \ {x}) \cup {b}
      BY <2>2, <2>3, <2>5, <3>1, <3>3
    <3>5. DOMAIN heap' = (DOMAIN heap \ {x}) \cup {b}
      BY <2>5 DEF Allocated, Freed
    <3> QED
      BY <2>4, <2>5, <3>4, <3>5
  <2>6. CASE /\ failures' = failures + 1 /\ heap' = Freed(heap, {x})
             /\ ini' = [ini EXCEPT ![o[1]][o[2]] = Null]
    <3>1. PICK r : r = [ini EXCEPT ![o[1]][o[2]] = Null]
      OBVIOUS
    <3>2. IsPut(r, ini, o, Null)
      BY <1>1, <2>1, <3>1, PutIs
    <3>3. Owned(r) = (Owned(ini) \ {Get(ini, o)}) \cup ({Null} \ {Null})
      BY <1>1, <2>1, <3>2, PutString
    <3>4. Owned(ini') = Owned(ini) \ {x}
      BY <2>2, <2>6, <3>1, <3>3
    <3>5. DOMAIN heap' = DOMAIN heap \ {x}
      BY <2>6 DEF Freed
    <3>6. failures' \in Nat
      BY <2>6
    <3>7. DOMAIN heap' = Owned(options) \cup Owned(ini')
      BY <2>4, <3>4, <3>5
    <3> QED
      BY <3>6, <3>7
  <2> QED
    BY <1>5, <2>2, <2>5, <2>6 DEF SetString
<1>6. CASE o \in Registry /\ Type(o) # "string" /\ SetNumber(o, text)
  <2>1. heap' = heap /\ failures' = failures
    BY <1>6 DEF SetNumber
  <2>2. ini' = ini \/ \E v : ini' = [ini EXCEPT ![o[1]][o[2]] = v]
    BY <1>6 DEF SetNumber
  <2>3. ASSUME NEW v, ini' = [ini EXCEPT ![o[1]][o[2]] = v]
        PROVE  Owned(ini') = Owned(ini)
    <3>1. PICK r : r = [ini EXCEPT ![o[1]][o[2]] = v]
      OBVIOUS
    <3>2. o \in Flags /\ Type(o) # "string"
      BY <1>4, <1>6
    <3>3. IsPut(r, ini, o, v)
      BY <1>1, <3>1, <3>2, PutIs
    <3>4. Owned(r) = Owned(ini)
      BY <3>2, <3>3, PutOther
    <3> QED
      BY <2>3, <3>1, <3>4
  <2>4. Owned(ini') = Owned(ini)
    BY <2>2, <2>3 DEF Owned
  <2> QED
    BY <2>1, <2>4
<1>7. CASE o \notin Registry /\ UNCHANGED <<ini, heap, failures>>
  BY <1>7 DEF Owned
<1> QED
  BY <1>3, <1>5, <1>6, <1>7 DEF Handle

(* The merge frees the strings of the fields it replaces and those of the ini structure, and
   every copy it makes is a new block. *)
LEMMA MergeBlocks ==
  ASSUME OptionsInv, status = "loading", ini # NoOptions,
         DOMAIN heap = Owned(options) \cup Owned(ini), NEW lost
  PROVE  LET replaced == {Get(options, o) : o \in Unvisited \cap StringOptions}
             rest == DOMAIN heap \ (replaced \cup Owned(ini))
         IN rest \cup (Owned(Merged(lost)) \ DOMAIN heap) = Owned(Merged(lost))
<1> DEFINE replaced == {Get(options, o) : o \in Unvisited \cap StringOptions}
           rest == DOMAIN heap \ (replaced \cup Owned(ini))
<1>1. /\ Valued(options) /\ Tagged(options, Early) /\ Tagged(options, Late)
      /\ Valued(ini) /\ Tagged(ini, FileOwners)
  BY DEF OptionsInv
<1>2. PICK m : m = Merged(lost)
  OBVIOUS
<1>3. \A o \in StringOptions :
        Get(m, o) = IF o \notin Unvisited THEN Get(options, o)
                    ELSE IF Get(ini, o) = Null \/ o \in lost THEN Null
                    ELSE <<"copy", o[1], o[2]>>
  <2>1. \A o \in StringOptions : o \in Flags /\ Type(o) = "string"
    BY DEF StringOptions
  <2> QED
    BY <1>1, <1>2, <2>1, MergedIs
<1>4. Owned(options) \cap Owned(ini) = {}
  BY <1>1, FileApart
<1>5. ASSUME NEW b, b \in rest
      PROVE  b \in Owned(m)
  <2>1. b \in Owned(options) /\ b \notin replaced
    BY <1>5
  <2>2. PICK o \in StringOptions : b = Get(options, o) /\ b # Null
    BY <2>1, OwnedIs
  <2>3. o \notin Unvisited
    BY <2>1, <2>2
  <2>4. b = Get(m, o)
    BY <1>3, <2>2, <2>3
  <2> QED
    BY <2>2, <2>4, OwnedIs
<1>6. ASSUME NEW b, b \in Owned(m), b \in DOMAIN heap
      PROVE  b \in rest
  <2>1. PICK o \in StringOptions : b = Get(m, o) /\ b # Null
    BY <1>6, OwnedIs
  <2>2. o \notin Unvisited
    <3> SUFFICES ASSUME o \in Unvisited
                 PROVE  FALSE
      OBVIOUS
    <3>1. b = <<"copy", o[1], o[2]>>
      BY <1>3, <2>1
    <3>2. CASE b \in Owned(options)
      <4>1. PICK q \in StringOptions : b = Get(options, q)
        BY <3>2, OwnedIs
      <4>2. PICK w \in Early : b = <<w, q[1], q[2]>>
        BY <1>1, <2>1, <4>1 DEF Tagged
      <4>3. w = "copy"
        BY <3>1, <4>2
      <4> QED
        BY <4>3 DEF Early
    <3>3. CASE b \in Owned(ini)
      <4>1. PICK q \in StringOptions : b = Get(ini, q)
        BY <3>3, OwnedIs
      <4>2. PICK w \in FileOwners : b = <<w, q[1], q[2]>>
        BY <1>1, <2>1, <4>1 DEF Tagged
      <4>3. w = "copy"
        BY <3>1, <4>2
      <4> QED
        BY <4>3 DEF FileOwners
    <3> QED
      BY <1>6, <3>2, <3>3
  <2>3. b = Get(options, o) /\ b \in Owned(options)
    BY <1>3, <2>1, <2>2, OwnedIs
  <2>4. b \notin Owned(ini)
    BY <1>4, <2>3
  <2>5. b \notin replaced
    <3> SUFFICES ASSUME b \in replaced
                 PROVE  FALSE
      OBVIOUS
    <3>1. PICK q \in StringOptions : q \in Unvisited /\ b = Get(options, q)
      OBVIOUS
    <3>2. q = o
      BY <1>1, <2>1, <2>3, <3>1, Distinct
    <3> QED
      BY <2>2, <3>1, <3>2
  <2> QED
    BY <1>6, <2>4, <2>5
<1> QED
  BY <1>2, <1>5, <1>6

LEMMA LoadBlocks ==
  ASSUME OptionsInv, OptionsInv', Blocks, failures \in Nat, LoadNext
  PROVE  Blocks' /\ failures' \in Nat
<1>1. /\ Valued(options) /\ Tagged(options, Late)
      /\ status = "loading" => Tagged(options, Early)
      /\ ini # NoOptions => /\ Valued(ini) /\ Tagged(ini, FileOwners)
                            /\ status = "loading" /\ parsed = "SUCCESS"
  BY DEF OptionsInv
<1>2. /\ ini = NoOptions => Held = Owned(options)
      /\ ini # NoOptions => Held = Owned(options) \cup Owned(ini)
  BY DEF Held
<1>3. CASE ParserUnavailable
  <2>1. /\ heap' = heap /\ options' = options /\ ini' = ini /\ parsed' = parsed /\ parsed = "new"
        /\ failures' = failures + 1
    BY <1>3 DEF ParserUnavailable
  <2>2. Held' = Held
    BY <2>1 DEF Held, Owned
  <2>3. Blocks'
    BY <2>1, <2>2 DEF Blocks
  <2> QED
    BY <2>1, <2>3
<1>4. CASE ReadArguments
  <2>1. status = "loading" /\ UNCHANGED ini /\ (BuildParser \/ ParserNext)
    BY <1>4 DEF ReadArguments
  <2>2. parsed \in {"new", "reading"}
    BY <2>1 DEF BuildParser, ParserNext, Parsing, ArgsEnd, Terminator, Unknown, Repeated, Switch,
                ValueMissing, TakeNumber, TakeString
  <2>3. ini = NoOptions
    BY <1>1, <2>2
  <2>4. CASE BuildParser
    <3>1. PICK lost \in Losses(Flags) : failures' = failures + Cardinality(lost)
      BY <2>4 DEF BuildParser
    <3>2. failures' \in Nat
      BY <3>1, LossesCount
    <3>3. heap' = heap /\ options' = options /\ parsed = "new"
      BY <2>4 DEF BuildParser
    <3>4. Held' = Held
      BY <2>1, <3>3 DEF Held, Owned
    <3>5. Blocks'
      BY <3>3, <3>4 DEF Blocks
    <3> QED
      BY <3>2, <3>5
  <2> QED
    BY <2>1, <2>3, <2>4, ParserBlocks
<1>5. CASE ArgumentsFail
  <2>1. UNCHANGED <<heap, options, ini, parsed, failures>>
    BY <1>5 DEF ArgumentsFail, parserVars
  <2>2. Held' = Held
    BY <2>1 DEF Held, Owned
  <2> QED
    BY <2>1, <2>2 DEF Blocks
<1>6. CASE OpenIni
  <2>1. PICK lost \in Losses(WithText) :
          /\ ini' = Created("ini", lost)
          /\ heap' = [b \in DOMAIN heap \cup Owned(Created("ini", lost)) |->
                        IF b \in DOMAIN heap THEN heap[b] ELSE CreatedTexts("ini", lost)[b]]
          /\ failures' = failures + Cardinality(lost)
    BY <1>6 DEF OpenIni
  <2>2. options' = options /\ parsed = "SUCCESS" /\ ini = NoOptions
    BY <1>6 DEF OpenIni, Returned
  <2>3. failures' \in Nat
    BY <2>1, LossesCount
  <2>4. DOMAIN heap = Owned(options)
    BY <1>2, <2>2 DEF Blocks
  <2>5. DOMAIN heap' = Owned(options) \cup Owned(ini')
    BY <2>1, <2>4
  <2>6. ini' # NoOptions
    BY <2>1, CreatedIs, StructureIsOne DEF Valued
  <2>7. Held' = Owned(options) \cup Owned(ini')
    BY <2>2, <2>6 DEF Held, Owned
  <2>8. Blocks'
    BY <2>5, <2>7 DEF Blocks
  <2> QED
    BY <2>3, <2>8
<1>7. CASE ReadLine
  <2>1. options' = options /\ status = "loading" /\ ini # NoOptions
    BY <1>7 DEF ReadLine, Reading
  <2>2. DOMAIN heap = Owned(options) \cup Owned(ini)
    BY <1>1, <1>2, <2>1 DEF Blocks
  <2>3. PICK l \in IniLines :
          Comment(l) \/ Continuation(l) \/ SectionLine(l) \/ PairLine(l) \/ Malformed(l)
    BY <1>7 DEF ReadLine
  <2>4. UNCHANGED <<ini, heap, failures>> \/ \E name, text : Handle(name, text)
    BY <2>3 DEF Comment, Continuation, SectionLine, PairLine, Malformed
  <2>5. CASE UNCHANGED <<ini, heap, failures>>
    <3>1. Held' = Held
      BY <2>1, <2>5 DEF Held, Owned
    <3>2. Held \subseteq DOMAIN heap /\ DOMAIN heap \subseteq Held
      BY <1>2, <2>1, <2>2
    <3> QED
      BY <2>5, <3>1, <3>2 DEF Blocks
  <2>6. CASE \E name, text : Handle(name, text)
    <3>1. PICK name, text : Handle(name, text)
      BY <2>6
    <3>2. DOMAIN heap' = Owned(options) \cup Owned(ini') /\ failures' \in Nat
      BY <2>1, <2>2, <3>1, HandleBlocks
    <3>3. ini' # NoOptions
      <4>1. Valued(ini) /\ Tagged(ini, FileOwners)
        BY <1>1, <2>1
      <4>2. Valued(ini')
        BY <3>1, <4>1, HandleWrites
      <4> QED
        BY <4>2, StructureIsOne DEF Valued
    <3>4. Held' = Owned(options) \cup Owned(ini')
      BY <2>1, <3>3 DEF Held, Owned
    <3> QED
      BY <3>2, <3>4 DEF Blocks
  <2> QED
    BY <2>4, <2>5, <2>6
<1>8. CASE MergeIni
  <2>1. status = "loading" /\ ini # NoOptions /\ ini' = NoOptions
    BY <1>8 DEF MergeIni, Reading
  <2>2. DOMAIN heap = Owned(options) \cup Owned(ini)
    BY <1>1, <1>2, <2>1 DEF Blocks
  <2>3. PICK lost \in Losses({o \in Unvisited \cap StringOptions : Get(ini, o) # Null}) :
          /\ options' = WithThreads(Merged(lost))
          /\ DOMAIN heap' = (DOMAIN heap \ ({Get(options, o) : o \in Unvisited \cap StringOptions}
                                            \cup Owned(ini)))
                            \cup (Owned(Merged(lost)) \ DOMAIN heap)
          /\ failures' = failures + Cardinality(lost)
    BY <1>8 DEF MergeIni
  <2>4. failures' \in Nat
    BY <2>3, LossesCount
  <2>5. DOMAIN heap' = Owned(Merged(lost))
    BY <2>1, <2>2, <2>3, MergeBlocks
  <2>6. Valued(Merged(lost))
    BY <1>1, <2>1, MergedIs
  <2>7. Owned(options') = Owned(Merged(lost))
    BY <2>3, <2>6, ThreadsOwned
  <2>8. Held' = Owned(options')
    BY <2>1 DEF Held, Owned
  <2>9. Blocks'
    BY <2>5, <2>7, <2>8 DEF Blocks
  <2> QED
    BY <2>4, <2>9
<1>9. CASE Validate
  <2>1. /\ options' = WithThreads(options) /\ heap' = heap /\ UNCHANGED <<failures, parsed, ini>>
        /\ ini = NoOptions /\ parsed = "SUCCESS"
    BY <1>9 DEF Validate, Returned
  <2>2. Owned(options') = Owned(options)
    BY <1>1, <2>1, ThreadsOwned
  <2>3. Held' = Owned(options')
    BY <2>1 DEF Held, Owned
  <2> QED
    BY <1>2, <2>1, <2>2, <2>3 DEF Blocks
<1> QED
  BY <1>3, <1>4, <1>5, <1>6, <1>7, <1>8, <1>9 DEF LoadNext

LEMMA OwnershipStep ==
  OptionsInv /\ OptionsInv' /\ OwnershipInv /\ [ProgramNext]_programVars => OwnershipInv'
<1> SUFFICES ASSUME OptionsInv, OptionsInv', OwnershipInv, ProgramNext \/ UNCHANGED programVars
             PROVE  OwnershipInv'
  OBVIOUS
<1>1. CASE Load
  <2>1. stage = "load" /\ stage' = "load" /\ LoadNext
    BY <1>1 DEF Load
  <2>2. Blocks /\ failures \in Nat
    BY <2>1 DEF OwnershipInv
  <2>3. Blocks' /\ failures' \in Nat
    BY <2>1, <2>2, LoadBlocks
  <2> QED
    BY <2>1, <2>3 DEF OwnershipInv
<1>2. CASE CreateRandom \/ Launch \/ UNCHANGED programVars
  <2>1. UNCHANGED <<failures, status, heap, options, ini, parsed>>
    BY <1>2 DEF CreateRandom, Creates, Launch, programVars, loadVars, parserVars
  <2>2. Held' = Held
    BY <2>1 DEF Held, Owned
  <2>3. Blocks => Blocks'
    BY <2>1, <2>2 DEF Blocks
  <2>4. \/ stage' = stage
        \/ stage = "load" /\ stage' = "run" /\ status = "SUCCESS"
    BY <1>2 DEF CreateRandom, Creates, Proceeds, Launch, programVars
  <2> QED
    BY <2>1, <2>3, <2>4 DEF OwnershipInv
<1>3. ASSUME NEW code, CleanUp(code), stage \in {"load", "run"}, status # "loading"
      PROVE  OwnershipInv'
  <2>1. ini = NoOptions
    BY <1>3 DEF OptionsInv
  <2>2. Held = Owned(options) /\ Blocks /\ failures \in Nat
    BY <1>3, <2>1 DEF Held, OwnershipInv
  <2>3. DOMAIN heap \ Owned(options) = {}
    BY <2>2 DEF Blocks
  <2>4. heap' = [b \in {} |-> heap[b]]
    BY <1>3, <2>3 DEF CleanUp, Freed
  <2>5. heap' = <<>>
    BY <2>4
  <2>6. UNCHANGED <<failures, parsed, status>>
    BY <1>3 DEF CleanUp, settled
  <2>7. stage' \in {"exited", "undefined"}
    BY <1>3 DEF CleanUp
  <2>8. stage' = "undefined" => parsed = "INTERNAL_ERROR" /\ failures > 0
    BY <1>3, <2>2 DEF CleanUp, Blocks
  <2> QED
    BY <1>3, <2>2, <2>5, <2>6, <2>7, <2>8 DEF OwnershipInv
<1>4. CASE Refused \/ InstanceUnreadable \/ NoMode \/ Finish
  <2>1. \E code : CleanUp(code)
    BY <1>4 DEF Refused, InstanceUnreadable, NoMode, Finish, Failed
  <2>2. stage \in {"load", "run"} /\ status # "loading"
    BY <1>4 DEF Refused, InstanceUnreadable, NoMode, Finish, Proceeds, OwnershipInv
  <2> QED
    BY <1>3, <2>1, <2>2
<1>5. CASE LoadInstance
  <2>1. stage = "load" /\ status = "SUCCESS"
    BY <1>5 DEF LoadInstance, Proceeds
  <2>2. CleanUp(1) \/ \E i : Creates(i)
    BY <1>5 DEF LoadInstance, Failed
  <2>3. CASE \E i : Creates(i)
    <3>1. stage' = "run" /\ UNCHANGED <<failures, status, heap, options, ini, parsed>>
      BY <2>3 DEF Creates, loadVars, parserVars
    <3>2. Held' = Held
      BY <3>1 DEF Held, Owned
    <3>3. Blocks => Blocks'
      BY <3>1, <3>2 DEF Blocks
    <3> QED
      BY <2>1, <3>1, <3>3 DEF OwnershipInv
  <2> QED
    BY <1>3, <2>1, <2>2, <2>3
<1> QED
  BY <1>1, <1>2, <1>4, <1>5 DEF ProgramNext

LEMMA OwnershipIsInductive == ProgramSpec => [](OptionsInv /\ OwnershipInv)
<1>1. ProgramInit => OptionsInv /\ OwnershipInv
  BY OptionsInvInit, OwnershipInit
<1>2. OptionsInv /\ OwnershipInv /\ [ProgramNext]_programVars => (OptionsInv /\ OwnershipInv)'
  BY OptionsInvStep, OwnershipStep
<1> QED
  BY <1>1, <1>2, PTL DEF ProgramSpec

\* Every live string has one owner, and the exit frees every one of them once.
THEOREM StringsHaveOneOwner == ProgramSpec => []OneOwnerPerString
<1>1. OptionsInv /\ OwnershipInv => OneOwnerPerString
  <2> SUFFICES ASSUME OptionsInv, OwnershipInv
               PROVE  OneOwnerPerString
    OBVIOUS
  <2>1. Cardinality(Held) = Cardinality(Holders(options)) + Cardinality(Holders(ini))
    <3>1. /\ Valued(options) /\ Tagged(options, Late)
          /\ ini # NoOptions => Valued(ini) /\ Tagged(ini, FileOwners)
      BY DEF OptionsInv
    <3>2. options # NoOptions
      BY <3>1, StructureIsOne DEF Valued
    <3>3. /\ IsFiniteSet(Owned(options)) /\ Cardinality(Owned(options)) \in Nat
          /\ Cardinality(Owned(options)) = Cardinality(Holders(options))
      BY <3>1, <3>2, OneBlockEach
    <3>4. CASE ini = NoOptions
      <4>1. Held = Owned(options) /\ Holders(ini) = {}
        BY <3>4 DEF Held, Holders
      <4> QED
        BY <3>3, <4>1, FS_EmptySet
    <3>5. CASE ini # NoOptions
      <4>1. /\ IsFiniteSet(Owned(ini)) /\ Cardinality(Owned(ini)) \in Nat
            /\ Cardinality(Owned(ini)) = Cardinality(Holders(ini))
        BY <3>1, <3>5, OneBlockEach
      <4>2. Held = Owned(options) \cup Owned(ini)
        BY <3>5 DEF Held
      <4>3. Owned(options) \cap Owned(ini) = {}
        BY <3>1, <3>5, FileApart
      <4>4. Cardinality(Held) = Cardinality(Owned(options)) + Cardinality(Owned(ini))
                                - Cardinality({})
        BY <3>3, <4>1, <4>2, <4>3, FS_Union
      <4>5. Cardinality({}) = 0
        BY FS_EmptySet
      <4> QED
        BY <3>3, <4>1, <4>4, <4>5
    <3> QED
      BY <3>4, <3>5
  <2>2. ASSUME stage \in {"load", "run"}
        PROVE  /\ DOMAIN heap \subseteq Held
               /\ Cardinality(Held \ DOMAIN heap) <= (IF parsed = "INTERNAL_ERROR" THEN 1 ELSE 0)
    <3>1. Blocks
      BY <2>2 DEF OwnershipInv
    <3>2. CASE Held \subseteq DOMAIN heap
      <4>1. Held \ DOMAIN heap = {}
        BY <3>2
      <4>2. Cardinality(Held \ DOMAIN heap) = 0
        BY <4>1, FS_EmptySet
      <4> QED
        BY <3>1, <4>2 DEF Blocks
    <3>3. CASE parsed = "INTERNAL_ERROR" /\ \E b : Held \ DOMAIN heap \subseteq {b}
      <4>1. PICK b : Held \ DOMAIN heap \subseteq {b}
        BY <3>3
      <4>2. IsFiniteSet({b}) /\ Cardinality({b}) = 1
        BY FS_Singleton
      <4>3. Cardinality(Held \ DOMAIN heap) <= 1
        BY <4>1, <4>2, FS_Subset
      <4> QED
        BY <3>1, <3>3, <4>3 DEF Blocks
    <3> QED
      BY <3>1, <3>2, <3>3 DEF Blocks
  <2>3. /\ stage \in {"exited", "undefined"} => heap = <<>>
        /\ stage = "undefined" => parsed = "INTERNAL_ERROR" /\ failures > 0
    BY DEF OwnershipInv
  <2> QED
    BY <2>1, <2>2, <2>3 DEF OneOwnerPerString
<1> QED
  BY <1>1, OwnershipIsInductive, PTL

-----------------------------------------------------------------------------
(* The parameters p carry those fields of the section a that are in `seen' as the options have
   them: no decimal is NaN, no unsigned value was cast to a negative one, none is left out by
   the validation, and k has no sign. *)
Carries(p, a, seen) ==
  \A f \in seen \ (Bools \cup Strings) :
    /\ <<a, f>> \notin Unvalidated
    /\ p[f] = options[a][f] /\ p[f] \in Int
    /\ f \in Udoubles => p[f] # NaN
    /\ f \notin Ints \cup Udoubles => p[f] \in Nat
    /\ <<a, f>> = <<"lb", "k">> => p[f] \in Nat

LEMMA ParameterIs ==
  ASSUME Valued(options), NEW a \in DOMAIN Defaults, NEW f \in Seen(a) \ (Bools \cup Strings)
  PROVE  /\ f \in DOMAIN Parameters(a) /\ Parameters(a)[f] = options[a][f]
         /\ <<a, f>> \notin Unvalidated
         /\ options[a][f] \in Int
         /\ f \in Udoubles => options[a][f] # NaN
         /\ f \notin Ints \cup Udoubles => options[a][f] \in Nat
         /\ <<a, f>> = <<"lb", "k">> => options[a][f] \in Nat
<1>1. PICK o : o = <<a, f>>
  OBVIOUS
<1>2. f \in DOMAIN options[a] /\ f \in DOMAIN Defaults[a] /\ ~Unseen(a, f)
  BY DEF Seen, Valued, Structured
<1>3. o \in Flags /\ o[1] = a /\ o[2] = f
  BY <1>1, <1>2, FlagIs
<1>4. Type(o) \notin {"string", "bool"}
  BY <1>3, TypeIs
<1>5. options[a][f] \in Sort(o)
  BY <1>3, <1>4 DEF Valued, Get
<1>6. /\ <<a, f>> \notin Unvalidated
      /\ <<a, f>> = <<"lb", "k">> => ~(options[a][f] < 0)
      /\ Type(o) = "udouble" => options[a][f] # NaN
      /\ Type(o) = "uint" => ~(options[a][f] > IntMax)
  BY <1>1, <1>2 DEF Unseen
<1>7. f \in DOMAIN Parameters(a) /\ Parameters(a)[f] = options[a][f]
  BY <1>1, <1>2, <1>6 DEF Parameters, AsInt
<1>8. options[a][f] \in Int
  BY <1>4, <1>5 DEF Sort
<1>9. f \in Udoubles => options[a][f] # NaN
  BY <1>3, <1>6, TypeIs
<1>10. f \notin Ints \cup Udoubles => options[a][f] \in Nat
  <2>1. f \notin Ints \cup Udoubles => Type(o) = "uint"
    BY <1>3, TypeIs
  <2> QED
    BY <1>5, <2>1 DEF Sort
<1>11. <<a, f>> = <<"lb", "k">> => options[a][f] \in Nat
  BY <1>6, <1>8
<1> QED
  BY <1>6, <1>7, <1>8, <1>9, <1>10, <1>11

LEMMA ConfigCarries ==
  ASSUME Valued(options), NEW a \in DOMAIN Defaults
  PROVE  Carries(Parameters(a), a, Seen(a))
BY ParameterIs DEF Carries

LEMMA StartCarries ==
  ASSUME Valued(options), NEW a \in DOMAIN Defaults, a \notin {"nn", "em", NoHeuristic}
  PROVE  Carries(HeuristicConfig(a), a, Seen(a) \cap DOMAIN HeuristicConfig(a))
<1>1. HeuristicConfig(a) = [f \in DOMAIN Parameters(a) \ {"time_limit"} |-> Parameters(a)[f]]
  BY DEF HeuristicConfig
<1>2. ASSUME NEW f \in DOMAIN HeuristicConfig(a)
      PROVE  HeuristicConfig(a)[f] = Parameters(a)[f]
  BY <1>1
<1> QED
  BY <1>2, ParameterIs DEF Carries

\* What the checks of the validation say of numbers.
LEMMA NotLess ==
  ASSUME NEW x \in Int, x # NaN
  PROVE  /\ ~Less(x, 0) => x >= 0
         /\ InUnit(x) => x \in 0 .. 100
<1>1. 0 # NaN /\ 100 # NaN
  BY WidthAssumption
<1> QED
  BY <1>1 DEF Less, InUnit

LEMMA CarriedCount ==
  ASSUME NEW p, NEW a, NEW seen, Carries(p, a, seen),
         NEW f \in seen, f \notin Bools \cup Strings \cup Ints \cup Udoubles
  PROVE  p[f] = options[a][f] /\ p[f] \in Nat
BY DEF Carries

LEMMA CarriedDecimal ==
  ASSUME NEW p, NEW a, NEW seen, Carries(p, a, seen), NEW f \in seen, f \in Udoubles
  PROVE  /\ ~Less(options[a][f], 0) => p[f] >= 0
         /\ InUnit(options[a][f]) => p[f] \in 0 .. 100
<1>1. f \notin Bools \cup Strings
  BY DEF Bools, Strings, Udoubles
<1>2. p[f] = options[a][f] /\ p[f] \in Int /\ p[f] # NaN
  BY <1>1 DEF Carries
<1> QED
  BY <1>2, NotLess

\* The parameters that are counted, and those that are decimals.
Counts ==
  {"min_k", "max_k", "kick_repetitions", "max_stagnation", "min_tenure", "max_tenure", "rcl_size",
   "population_size", "elite_count", "crossover_cut_min_ratio", "crossover_cut_max_ratio",
   "max_iterations"}

LEMMA CountsAreCounts ==
  ASSUME NEW f \in Counts
  PROVE  f \notin Bools \cup Strings \cup Ints \cup Udoubles
BY DEF Counts, Bools, Strings, Ints, Udoubles

LEMMA CarriedCounts ==
  ASSUME NEW p, NEW a, NEW seen, Carries(p, a, seen)
  PROVE  \A f \in Counts : f \in seen => p[f] = options[a][f] /\ p[f] \in Nat
BY CarriedCount, CountsAreCounts

LEMMA CarriedDecimals ==
  ASSUME NEW p, NEW a, NEW seen, Carries(p, a, seen)
  PROVE  \A f \in Udoubles :
           /\ ~Less(options[a][f], 0) => AtLeast(0, p, f, seen)
           /\ InUnit(options[a][f]) => Percent(p, f, seen)
BY CarriedDecimal DEF AtLeast, Percent

LEMMA SoundVns ==
  ASSUME NEW p, NEW seen, Carries(p, "vns", seen), AtLeast(0, p, "time_limit", seen),
         ValidVns(options.vns)
  PROVE  Sound("vns", p, seen)
<1>1. \A f \in Counts : f \in seen => p[f] = options["vns"][f] /\ p[f] \in Nat
  BY CarriedCounts
<1>2. /\ options["vns"]["min_k"] >= 2 /\ options["vns"]["min_k"] <= options["vns"]["max_k"]
      /\ options["vns"]["kick_repetitions"] # 0 /\ options["vns"]["max_stagnation"] # 0
  BY DEF ValidVns
<1>3. {"min_k", "max_k", "kick_repetitions", "max_stagnation"} \subseteq Counts
  BY DEF Counts
<1>4. AtLeast(2, p, "min_k", seen) /\ NotAbove(p, "min_k", "max_k", seen)
  BY <1>1, <1>2, <1>3 DEF AtLeast, NotAbove
<1>5. AtLeast(1, p, "kick_repetitions", seen) /\ AtLeast(1, p, "max_stagnation", seen)
  BY <1>1, <1>2, <1>3 DEF AtLeast
<1> QED
  BY <1>4, <1>5 DEF Sound

LEMMA SoundTabu ==
  ASSUME NEW p, NEW seen, Carries(p, "tabu", seen), AtLeast(0, p, "time_limit", seen),
         ValidTabu(options.tabu)
  PROVE  Sound("tabu", p, seen)
<1>1. \A f \in Counts : f \in seen => p[f] = options["tabu"][f] /\ p[f] \in Nat
  BY CarriedCounts
<1>2. /\ options["tabu"]["min_tenure"] # 0 /\ options["tabu"]["max_stagnation"] # 0
      /\ options["tabu"]["min_tenure"] <= options["tabu"]["max_tenure"]
  BY DEF ValidTabu
<1>3. {"min_tenure", "max_tenure", "max_stagnation"} \subseteq Counts
  BY DEF Counts
<1>4. NotAbove(p, "min_tenure", "max_tenure", seen)
  BY <1>1, <1>2, <1>3 DEF NotAbove
<1>5. AtLeast(1, p, "min_tenure", seen) /\ AtLeast(1, p, "max_stagnation", seen)
  BY <1>1, <1>2, <1>3 DEF AtLeast
<1> QED
  BY <1>4, <1>5 DEF Sound

LEMMA SoundGrasp ==
  ASSUME NEW p, NEW seen, Carries(p, "grasp", seen), AtLeast(0, p, "time_limit", seen),
         ValidGrasp(options.grasp)
  PROVE  Sound("grasp", p, seen)
<1>1. \A f \in Counts : f \in seen => p[f] = options["grasp"][f] /\ p[f] \in Nat
  BY CarriedCounts
<1>2. /\ options["grasp"]["rcl_size"] >= 1 /\ options["grasp"]["max_stagnation"] > 0
      /\ InUnit(options["grasp"]["probability"])
  BY DEF ValidGrasp
<1>3. {"rcl_size", "max_stagnation"} \subseteq Counts /\ "probability" \in Udoubles
  BY DEF Counts, Udoubles
<1>4. AtLeast(1, p, "rcl_size", seen) /\ AtLeast(1, p, "max_stagnation", seen)
  BY <1>1, <1>2, <1>3 DEF AtLeast
<1>5. Percent(p, "probability", seen)
  BY <1>2, <1>3, CarriedDecimals
<1> QED
  BY <1>4, <1>5 DEF Sound

LEMMA SoundGenetic ==
  ASSUME NEW p, NEW seen, Carries(p, "genetic", seen), AtLeast(0, p, "time_limit", seen),
         ValidGenetic(options.genetic), options["genetic"]["crossover_cut_max_ratio"] \in Int
  PROVE  Sound("genetic", p, seen)
<1>1. \A f \in Counts : f \in seen => p[f] = options["genetic"][f] /\ p[f] \in Nat
  BY CarriedCounts
<1>2. /\ options["genetic"]["population_size"] >= 2
      /\ options["genetic"]["elite_count"] < options["genetic"]["population_size"]
      /\ options["genetic"]["crossover_cut_min_ratio"] <= options["genetic"]["crossover_cut_max_ratio"]
      /\ options["genetic"]["crossover_cut_max_ratio"] <= 100
      /\ InUnit(options["genetic"]["mutation_rate"])
  BY DEF ValidGenetic
<1>3. /\ {"population_size", "elite_count", "crossover_cut_min_ratio", "crossover_cut_max_ratio"}
           \subseteq Counts
      /\ "mutation_rate" \in Udoubles
  BY DEF Counts, Udoubles
<1>4. AtLeast(2, p, "population_size", seen) /\ AtLeast(0, p, "elite_count", seen)
  BY <1>1, <1>2, <1>3 DEF AtLeast
<1>5. {"elite_count", "population_size"} \subseteq seen => p.elite_count < p.population_size
  <2>1. {"elite_count", "population_size"} \subseteq seen => p["elite_count"] < p["population_size"]
    BY <1>1, <1>2, <1>3
  <2> QED
    BY <2>1
<1>6. NotAbove(p, "crossover_cut_min_ratio", "crossover_cut_max_ratio", seen)
  BY <1>1, <1>2, <1>3 DEF NotAbove
<1>7. Percent(p, "crossover_cut_max_ratio", seen)
  BY <1>1, <1>2, <1>3 DEF Percent
<1>8. Percent(p, "crossover_cut_min_ratio", seen)
  BY <1>1, <1>2, <1>3 DEF Percent
<1>9. Percent(p, "mutation_rate", seen)
  BY <1>2, <1>3, CarriedDecimals
<1>10. {"tournament_size", "init_grasp_rcl_size", "init_grasp_prob", "init_grasp_percent"} \cap seen = {}
  BY DEF Carries, Unvalidated, Bools, Strings
<1>11. /\ Percent(p, "init_grasp_prob", seen) /\ Percent(p, "init_grasp_percent", seen)
       /\ AtLeast(1, p, "tournament_size", seen) /\ AtLeast(1, p, "init_grasp_rcl_size", seen)
  BY <1>10 DEF Percent, AtLeast
<1> QED
  BY <1>4, <1>5, <1>6, <1>7, <1>8, <1>9, <1>11 DEF Sound

LEMMA SoundBenders ==
  ASSUME NEW p, NEW seen, Carries(p, "benders", seen), AtLeast(0, p, "time_limit", seen),
         ValidBenders(options.benders)
  PROVE  Sound("benders", p, seen)
<1>1. \A f \in Counts : f \in seen => p[f] = options["benders"][f] /\ p[f] \in Nat
  BY CarriedCounts
<1>2. options["benders"]["max_iterations"] # 0 /\ "max_iterations" \in Counts
  BY DEF ValidBenders, Counts
<1>3. AtLeast(1, p, "max_iterations", seen)
  BY <1>1, <1>2 DEF AtLeast
<1> QED
  BY <1>3 DEF Sound

LEMMA SoundHf ==
  ASSUME NEW p, NEW seen, Carries(p, "hf", seen), AtLeast(0, p, "time_limit", seen),
         ValidHf(options.hf)
  PROVE  Sound("hf", p, seen)
<1>1. /\ InUnit(options["hf"]["fixing_rate"]) /\ InUnit(options["hf"]["heuristic_ratio"])
      /\ InUnit(options["hf"]["time_slice_factor"]) /\ ~Less(options["hf"]["min_time_slice"], 0)
  BY DEF ValidHf
<1>2. {"fixing_rate", "heuristic_ratio", "time_slice_factor", "min_time_slice"} \subseteq Udoubles
  BY DEF Udoubles
<1>3. /\ Percent(p, "fixing_rate", seen) /\ Percent(p, "heuristic_ratio", seen)
      /\ Percent(p, "time_slice_factor", seen) /\ AtLeast(0, p, "min_time_slice", seen)
  BY <1>1, <1>2, CarriedDecimals
<1> QED
  BY <1>3 DEF Sound

\* The validation refuses a k of zero, and one below zero is not seen.
LEMMA SoundLb ==
  ASSUME NEW p, NEW seen, Carries(p, "lb", seen), AtLeast(0, p, "time_limit", seen),
         ValidLb(options.lb)
  PROVE  Sound("lb", p, seen)
<1>1. options["lb"]["k"] # 0 /\ InUnit(options["lb"]["heuristic_ratio"])
  BY DEF ValidLb
<1>2. "k" \notin Bools \cup Strings /\ "heuristic_ratio" \in Udoubles
  BY DEF Bools, Strings, Udoubles
<1>3. "k" \in seen => p["k"] = options["lb"]["k"] /\ p["k"] \in Nat
  BY <1>2 DEF Carries
<1>4. AtLeast(1, p, "k", seen)
  BY <1>1, <1>3 DEF AtLeast
<1>5. Percent(p, "heuristic_ratio", seen)
  BY <1>1, <1>2, CarriedDecimals
<1> QED
  BY <1>4, <1>5 DEF Sound

Algorithms == {"nn", "vns", "tabu", "grasp", "em", "genetic", "benders", "bc", "hf", "lb"}

LEMMA EnabledHasTime ==
  ASSUME AlgorithmsValid(options), NEW a \in Algorithms, options[a].enable,
         NEW p, NEW seen, Carries(p, a, seen)
  PROVE  AtLeast(0, p, "time_limit", seen)
<1>1. CASE a = "vns"
  <2>1. "time_limit" \notin seen
    BY <1>1 DEF Carries, Unvalidated, Bools, Strings
  <2> QED
    BY <2>1 DEF AtLeast
<1>2. CASE a # "vns"
  <2>1. ~Less(options[a]["time_limit"], 0)
    BY <1>2 DEF Algorithms, AlgorithmsValid, ValidNn, ValidTabu, ValidGrasp, ValidEm, ValidGenetic,
                ValidBenders, ValidBc, ValidHf, ValidLb
  <2>2. "time_limit" \in Udoubles
    BY DEF Udoubles
  <2> QED
    BY <2>1, <2>2, CarriedDecimals
<1> QED
  BY <1>1, <1>2

LEMMA EnabledIsSound ==
  ASSUME Valued(options), AlgorithmsValid(options), NEW a \in Algorithms, options[a].enable,
         NEW p, NEW seen, Carries(p, a, seen)
  PROVE  Sound(a, p, seen)
<1> USE EnabledHasTime
<1>1. CASE a = "vns"
  BY <1>1, SoundVns DEF AlgorithmsValid
<1>2. CASE a = "tabu"
  BY <1>2, SoundTabu DEF AlgorithmsValid
<1>3. CASE a = "grasp"
  BY <1>3, SoundGrasp DEF AlgorithmsValid
<1>4. CASE a = "genetic"
  <2>1. PICK o : o = <<"genetic", "crossover_cut_max_ratio">>
    OBVIOUS
  <2>2. "crossover_cut_max_ratio" \in DOMAIN Defaults["genetic"] /\ "genetic" \in DOMAIN Defaults
    BY DEF Defaults, GeneticDefaults, With
  <2>3. o \in Flags /\ o[1] = "genetic" /\ o[2] = "crossover_cut_max_ratio"
    BY <2>1, <2>2, FlagIs
  <2>4. Type(o) \notin {"string", "bool"}
    BY <2>3, TypeIs DEF Strings, Bools
  <2>5. options["genetic"]["crossover_cut_max_ratio"] \in Int
    BY <2>3, <2>4 DEF Valued, Get, Sort
  <2> QED
    BY <1>4, <2>5, SoundGenetic DEF AlgorithmsValid
<1>5. CASE a = "benders"
  BY <1>5, SoundBenders DEF AlgorithmsValid
<1>6. CASE a = "hf"
  BY <1>6, SoundHf DEF AlgorithmsValid
<1>7. CASE a = "lb"
  BY <1>7, SoundLb DEF AlgorithmsValid
<1>8. CASE a \in {"nn", "em", "bc"}
  BY <1>8 DEF Sound
<1> QED
  BY <1>1, <1>2, <1>3, <1>4, <1>5, <1>6, <1>7, <1>8 DEF Algorithms

(* What is run was enabled when the options were validated, and since then the options have
   not changed. *)
LaunchedWell(r) ==
  /\ r.algorithm \in Algorithms /\ options[r.algorithm].enable
  /\ r.config = Parameters(r.algorithm)
  /\ r.heuristic \in Algorithms \cup {NoHeuristic}
  /\ r.start = HeuristicConfig(r.heuristic)

LaunchInv ==
  /\ turn \in Nat \ {0}
  /\ \E S : launched \in Seq(S)
  /\ stage = "load" => launched = <<>>
  /\ status = "SUCCESS" => AlgorithmsValid(options)
  /\ stage = "run" => status = "SUCCESS"
  /\ launched # <<>> => AlgorithmsValid(options)
  /\ \A i \in DOMAIN launched : LaunchedWell(launched[i])

LEMMA LaunchStays ==
  ASSUME LaunchInv, options' = options, launched' = launched, turn' = turn, status' = status,
         stage' = "load" => stage = "load", stage' = "run" => status = "SUCCESS"
  PROVE  LaunchInv'
<1>1. \A a : Parameters(a)' = Parameters(a)
  BY DEF Parameters
<1>2. \A h : HeuristicConfig(h)' = HeuristicConfig(h)
  BY <1>1 DEF HeuristicConfig
<1>3. AlgorithmsValid(options)' = AlgorithmsValid(options)
  BY DEF AlgorithmsValid
<1>4. ASSUME NEW i \in DOMAIN launched
      PROVE  LaunchedWell(launched[i])'
  BY <1>1, <1>2 DEF LaunchInv, LaunchedWell
<1> QED
  BY <1>3, <1>4 DEF LaunchInv

LEMMA WarmStartIs ==
  ASSUME NEW a
  PROVE  WarmStart(a) \in Algorithms \cup {NoHeuristic}
BY DEF WarmStart, Heuristic, Algorithms

LEMMA LaunchStep ==
  OptionsInv /\ LaunchInv /\ [ProgramNext]_programVars => LaunchInv'
<1> SUFFICES ASSUME OptionsInv, LaunchInv, ProgramNext \/ UNCHANGED programVars
             PROVE  LaunchInv'
  OBVIOUS
<1>1. CASE Load
  <2>1. stage = "load" /\ launched = <<>> /\ UNCHANGED <<stage, turn, launched>> /\ LoadNext
    BY <1>1 DEF Load, LaunchInv
  <2>2. status' = "SUCCESS" => AlgorithmsValid(options')
    <3>1. CASE MergeIni \/ Validate
      <4>1. status' = Verdict(options')
        BY <3>1 DEF MergeIni, Validate
      <4>2. PICK o : o = options'
        OBVIOUS
      <4> QED
        BY <4>1, <4>2, VerdictIs
    <3>2. CASE ParserUnavailable \/ ReadArguments \/ ArgumentsFail \/ OpenIni \/ ReadLine
      <4>1. status' # "SUCCESS"
        BY <3>2 DEF ParserUnavailable, ReadArguments, ArgumentsFail, OpenIni, ReadLine, Returned,
                    Reading
      <4> QED
        BY <4>1
    <3> QED
      BY <2>1, <3>1, <3>2 DEF LoadNext
  <2> QED
    BY <2>1, <2>2 DEF LaunchInv
<1>2. CASE Launch
  <2>1. PICK i \in Enabled :
          /\ launched' = Append(launched,
               [algorithm |-> Order[i], config |-> Parameters(Order[i]),
                heuristic |-> WarmStart(Order[i]), start |-> HeuristicConfig(WarmStart(Order[i]))])
          /\ turn' = i + 1
    BY <1>2 DEF Launch
  <2>2. stage = "run" /\ UNCHANGED <<stage, status, options, heap>>
    BY <1>2 DEF Launch, loadVars, parserVars
  <2>3. i \in 1 .. 10 /\ options[Order[i]].enable
    <3>1. i \in turn .. Len(Order) /\ options[Order[i]].enable
      BY DEF Enabled
    <3>2. Len(Order) = 10
      BY DEF Order
    <3> QED
      BY <3>1, <3>2 DEF LaunchInv
  <2>4. PICK a : a = Order[i]
    OBVIOUS
  <2>5. a \in Algorithms
    BY <2>3, <2>4 DEF Order, Algorithms
  <2>6. PICK r : r = [algorithm |-> a, config |-> Parameters(a), heuristic |-> WarmStart(a),
                      start |-> HeuristicConfig(WarmStart(a))]
    OBVIOUS
  <2>7. LaunchedWell(r)
    <3>1. r.algorithm = a /\ r.config = Parameters(a) /\ r.heuristic = WarmStart(a)
      BY <2>6
    <3>2. r.start = HeuristicConfig(r.heuristic)
      BY <2>6
    <3> QED
      BY <2>3, <2>4, <2>5, <3>1, <3>2, WarmStartIs DEF LaunchedWell
  <2>8. launched' = Append(launched, r)
    BY <2>1, <2>4, <2>6
  <2>9. /\ \A x : Parameters(x)' = Parameters(x)
        /\ \A h : HeuristicConfig(h)' = HeuristicConfig(h)
    BY <2>2 DEF Parameters, HeuristicConfig
  <2>10. AlgorithmsValid(options) /\ status = "SUCCESS"
    BY <2>2 DEF LaunchInv
  <2>11. AlgorithmsValid(options)'
    BY <2>2, <2>10 DEF AlgorithmsValid
  <2>12. ASSUME NEW x, LaunchedWell(x)
         PROVE  LaunchedWell(x)'
    BY <2>2, <2>9, <2>12 DEF LaunchedWell
  <2>13. ASSUME NEW j \in DOMAIN launched'
         PROVE  LaunchedWell(launched[j])'
    <3>1. PICK S, l, x : launched \in Seq(S) /\ l = launched /\ x = launched'[j]
      BY DEF LaunchInv
    <3>2. x = r \/ (j \in DOMAIN l /\ x = l[j])
      <4>1. launched' = Append(l, r) /\ l \in Seq(S)
        BY <2>8, <3>1
      <4> QED
        BY <2>13, <3>1, <4>1
    <3>3. LaunchedWell(x)
      BY <2>7, <3>1, <3>2 DEF LaunchInv
    <3>4. LaunchedWell(x)'
      BY <2>12, <3>3
    <3> QED
      BY <3>1, <3>4 DEF LaunchedWell
  <2>14. turn' \in Nat \ {0}
    BY <2>1, <2>3
  <2>15. \E S : launched' \in Seq(S)
    <3>1. PICK S : launched \in Seq(S)
      BY DEF LaunchInv
    <3>2. PICK T : T = S \cup {r}
      OBVIOUS
    <3>3. launched \in Seq(T) /\ r \in T
      BY <3>1, <3>2
    <3>4. launched' \in Seq(T)
      BY <2>8, <3>3
    <3> QED
      BY <3>4
  <2> QED
    BY <2>2, <2>10, <2>11, <2>13, <2>14, <2>15 DEF LaunchInv
<1>3. CASE ~Load /\ ~Launch
  <2>1. UNCHANGED <<options, launched, turn, status>>
    BY <1>3 DEF ProgramNext, Refused, CreateRandom, InstanceUnreadable, LoadInstance, NoMode, Finish,
                Creates, Failed, CleanUp, settled, programVars, loadVars, parserVars
  <2>2. \/ stage' = stage \/ stage' \in {"exited", "undefined"}
        \/ stage' = "run" /\ status = "SUCCESS"
    BY <1>3 DEF ProgramNext, Refused, CreateRandom, InstanceUnreadable, LoadInstance, NoMode, Finish,
                Creates, Failed, CleanUp, Proceeds, programVars
  <2>3. (stage' = "load" => stage = "load") /\ (stage' = "run" => status = "SUCCESS")
    BY <2>2 DEF LaunchInv
  <2> QED
    BY <2>1, <2>3, LaunchStays
<1> QED
  BY <1>1, <1>2, <1>3

LEMMA LaunchInit == ProgramInit => LaunchInv
<1> SUFFICES ASSUME ProgramInit
             PROVE  LaunchInv
  OBVIOUS
<1>1. launched = <<>> /\ turn = 1 /\ stage = "load" /\ status = "loading"
  BY DEF ProgramInit, LoadInit
<1>2. launched \in Seq({})
  BY <1>1
<1> QED
  BY <1>1, <1>2 DEF LaunchInv

(* What is run was validated with the options as the merge left them, and they have not changed
   since: its parameters are in their ranges as far as validate_options sees them. *)
THEOREM ConfigurationsAreChecked == ProgramSpec => []OnlyCheckedConfigurationsRun
<1>1. ProgramInit => OptionsInv /\ LaunchInv
  BY OptionsInvInit, LaunchInit
<1>2. OptionsInv /\ LaunchInv /\ [ProgramNext]_programVars => (OptionsInv /\ LaunchInv)'
  BY OptionsInvStep, LaunchStep
<1>3. OptionsInv /\ LaunchInv => OnlyCheckedConfigurationsRun
  <2> SUFFICES ASSUME OptionsInv, LaunchInv, NEW i \in DOMAIN launched
               PROVE  LET r == launched[i]
                          a == r.algorithm
                          h == r.heuristic
                      IN /\ Sound(a, r.config, Seen(a))
                         /\ r.start # NoParameters /\ options[h].enable =>
                              Sound(h, r.start, Seen(h) \cap DOMAIN r.start)
    BY DEF OnlyCheckedConfigurationsRun
  <2>1. PICK a, h : a = launched[i].algorithm /\ h = launched[i].heuristic
    OBVIOUS
  <2>2. /\ a \in Algorithms /\ options[a].enable /\ launched[i].config = Parameters(a)
        /\ h \in Algorithms \cup {NoHeuristic} /\ launched[i].start = HeuristicConfig(h)
    BY <2>1 DEF LaunchInv, LaunchedWell
  <2>3. AlgorithmsValid(options)
    BY DEF LaunchInv
  <2>4. Valued(options)
    BY DEF OptionsInv
  <2>5. Algorithms \subseteq DOMAIN Defaults
    BY DEF Algorithms, Defaults
  <2>6. Sound(a, Parameters(a), Seen(a))
    <3>1. Carries(Parameters(a), a, Seen(a))
      BY <2>2, <2>4, <2>5, ConfigCarries
    <3> QED
      BY <2>2, <2>3, <2>4, <3>1, EnabledIsSound
  <2>7. ASSUME HeuristicConfig(h) # NoParameters, options[h].enable
        PROVE  Sound(h, HeuristicConfig(h), Seen(h) \cap DOMAIN HeuristicConfig(h))
    <3>1. h \notin {"nn", "em", NoHeuristic}
      BY <2>7 DEF HeuristicConfig
    <3>2. h \in Algorithms
      BY <2>2, <3>1
    <3>3. Carries(HeuristicConfig(h), h, Seen(h) \cap DOMAIN HeuristicConfig(h))
      BY <2>4, <2>5, <3>1, <3>2, StartCarries
    <3> QED
      BY <2>3, <2>4, <2>7, <3>2, <3>3, EnabledIsSound
  <2> QED
    BY <2>1, <2>2, <2>6, <2>7
<1> QED
  BY <1>1, <1>2, <1>3, PTL DEF ProgramSpec

-----------------------------------------------------------------------------
\* The two recursions of the reading: the reader word by word, and the words that count.
ReadingIs(text, r) ==
  r = [i \in 0 .. Len(text) |-> IF i = 0 THEN Start ELSE NextToken(r[i - 1], text[i])]

LEMMA Readings ==
  ASSUME NEW text, Len(text) \in Nat
  PROVE  \E r : ReadingIs(text, r) /\ Parse(text) = EndOfFile(r[Len(text)])
<1> DEFINE F(r, m) == r = [i \in 0 .. m |-> IF i = 0 THEN Start ELSE NextToken(r[i - 1], text[i])]
           S == {m \in Nat : \E r : F(r, m)}
<1>1. 0 \in S
  <2>1. PICK r : r = [i \in 0 .. 0 |-> Start]
    OBVIOUS
  <2>2. F(r, 0)
    BY <2>1
  <2> QED
    BY <2>2
<1>2. ASSUME NEW m \in Nat, m \in S
      PROVE  m + 1 \in S
  <2>1. PICK r : F(r, m)
    BY <1>2
  <2>2. PICK v : v = NextToken(r[m], text[m + 1])
    OBVIOUS
  <2>3. PICK q : q = [i \in 0 .. (m + 1) |-> IF i = m + 1 THEN v ELSE r[i]]
    OBVIOUS
  <2>4. \A i \in 0 .. m : q[i] = r[i]
    BY <2>3
  <2>5. ASSUME NEW i \in 0 .. (m + 1)
        PROVE  q[i] = IF i = 0 THEN Start ELSE NextToken(q[i - 1], text[i])
    <3>1. CASE i = 0
      BY <2>1, <2>4, <3>1
    <3>2. CASE i \in 1 .. m
      BY <2>1, <2>4, <3>2
    <3>3. CASE i = m + 1
      BY <2>2, <2>3, <2>4, <3>3
    <3> QED
      BY <3>1, <3>2, <3>3
  <2>6. F(q, m + 1)
    BY <2>3, <2>5
  <2> QED
    BY <2>6
<1>3. Len(text) \in S
  <2> HIDE DEF S
  <2> QED
    BY <1>1, <1>2, Induct
<1>4. PICK r : r = CHOOSE q : ReadingIs(text, q)
  OBVIOUS
<1>5. ReadingIs(text, r)
  BY <1>3, <1>4 DEF ReadingIs
<1>6. Parse(text) = EndOfFile(r[Len(text)])
  BY <1>4 DEF Parse, ReadingIs
<1> QED
  BY <1>5, <1>6

\* b[q] are the words that count between p and q.
CountsAre(text, p, b) ==
  b = [q \in 0 .. Len(text) |-> IF q <= p THEN <<>> ELSE Joined(b[q - 1], text[q])]

LEMMA Counting ==
  ASSUME NEW text, Len(text) \in Nat, NEW p \in Nat
  PROVE  CountsAre(text, p, WordsBehind(text, p))
<1> DEFINE F(r, m) == r = [q \in 0 .. m |-> IF q <= p THEN <<>> ELSE Joined(r[q - 1], text[q])]
           S == {m \in Nat : \E r : F(r, m)}
<1>1. 0 \in S
  <2>1. PICK r : r = [q \in 0 .. 0 |-> <<>>]
    OBVIOUS
  <2>2. F(r, 0)
    BY <2>1
  <2> QED
    BY <2>2
<1>2. ASSUME NEW m \in Nat, m \in S
      PROVE  m + 1 \in S
  <2>1. PICK r : F(r, m)
    BY <1>2
  <2>2. PICK v : v = IF m + 1 <= p THEN <<>> ELSE Joined(r[m], text[m + 1])
    OBVIOUS
  <2>3. PICK b : b = [q \in 0 .. (m + 1) |-> IF q = m + 1 THEN v ELSE r[q]]
    OBVIOUS
  <2>4. \A q \in 0 .. m : b[q] = r[q]
    BY <2>3
  <2>5. ASSUME NEW q \in 0 .. (m + 1)
        PROVE  b[q] = IF q <= p THEN <<>> ELSE Joined(b[q - 1], text[q])
    <3>1. CASE q = 0
      <4>1. b[q] = r[q] /\ q <= p
        BY <2>4, <3>1
      <4> QED
        BY <2>1, <3>1, <4>1
    <3>2. CASE q \in 1 .. m
      <4>1. b[q] = r[q] /\ b[q - 1] = r[q - 1]
        BY <2>4, <3>2
      <4> QED
        BY <2>1, <3>2, <4>1
    <3>3. CASE q = m + 1
      <4>1. b[q] = v /\ b[q - 1] = r[m]
        BY <2>3, <2>4, <3>3
      <4> QED
        BY <2>2, <3>3, <4>1
    <3> QED
      BY <3>1, <3>2, <3>3
  <2>6. F(b, m + 1)
    BY <2>3, <2>5
  <2> HIDE DEF F
  <2> QED
    BY <2>6
<1>3. Len(text) \in S
  <2> HIDE DEF S
  <2> QED
    BY <1>1, <1>2, Induct
<1>4. WordsBehind(text, p) = CHOOSE b : CountsAre(text, p, b)
  BY DEF WordsBehind, CountsAre
<1> QED
  BY <1>3, <1>4 DEF CountsAre

-----------------------------------------------------------------------------
\* The reader in the header, after the first i words.
Reader(r) == r = [expects |-> r.expects, n |-> r.n, id |-> r.id, nodes |-> r.nodes]

Behind(text, p, n) ==
  /\ n \in Nat \ {0}
  /\ Dimensions(text, p) # {} /\ n = NumberBehind(text, Greatest(Dimensions(text, p)))

InHeader(text, i, r) ==
  /\ r.expects = "keyword" => r.n = 0 \/ Behind(text, i + 1, r.n)
  /\ r.expects = "dimension" => i \in 1 .. Len(text) /\ Cut(text[i]) = "DIMENSION"
  /\ r.expects = "colon" => /\ i - 1 \in 1 .. Len(text) /\ Cut(text[i - 1]) = "DIMENSION"
                            /\ text[i] = ":"

LEMMA GreatestIs ==
  ASSUME NEW S \in SUBSET Int, NEW m \in S, \A k \in S : k <= m
  PROVE  Greatest(S) = m
<1>1. \A k \in S : (\A j \in S : j <= k) => k = m
  OBVIOUS
<1> QED
  BY <1>1 DEF Greatest

LEMMA Keywords ==
  ASSUME NEW r, Reader(r), NEW t
  PROVE  \/ t = "DIMENSION" /\ Keyword(r, t) = [r EXCEPT !.expects = "dimension"]
         \/ /\ t = "NODE_COORD_SECTION" /\ r.n > 0
            /\ Keyword(r, t) = [r EXCEPT !.expects = "id",
                                         !.nodes = [i \in 1 .. r.n |-> [x |-> Unset, y |-> Unset]]]
         \/ Keyword(r, t) = Ends(r, "PARSE_ERR_FORMAT")
         \/ t # "DIMENSION" /\ Keyword(r, t) = r
BY DEF Keyword

\* What a word of the header does.
LEMMA HeaderStep ==
  ASSUME NEW text, Len(text) \in Nat, NEW i \in 0 .. (Len(text) - 1), NEW r, Reader(r),
         r.expects \in {"keyword", "dimension", "colon"}, InHeader(text, i, r), NEW q,
         q = NextToken(r, text[i + 1])
  PROVE  /\ Reader(q)
         /\ \/ q.expects \in {"keyword", "dimension", "colon"} /\ InHeader(text, i + 1, q)
            \/ q.expects = "PARSE_ERR_FORMAT"
            \/ /\ q.expects = "id" /\ Cut(text[i + 1]) = "NODE_COORD_SECTION"
               /\ Behind(text, i + 1, q.n)
               /\ q.nodes = [j \in 1 .. q.n |-> [x |-> Unset, y |-> Unset]]
<1>1. PICK t : t = text[i + 1]
  OBVIOUS
<1>2. Dimensions(text, i + 2) = Dimensions(text, i + 1)
                                \cup (IF Cut(t) = "DIMENSION" THEN {i + 1} ELSE {})
  <2>1. \A d : d \in 1 .. (i + 1) <=> d \in 1 .. i \/ d = i + 1
    OBVIOUS
  <2>2. Dimensions(text, i + 2) = {d \in 1 .. (i + 1) : Cut(text[d]) = "DIMENSION"}
    BY DEF Dimensions
  <2>3. Dimensions(text, i + 1) = {d \in 1 .. i : Cut(text[d]) = "DIMENSION"}
    BY DEF Dimensions
  <2> QED
    BY <1>1, <2>1, <2>2, <2>3
\* A number behind the DIMENSION at d.
<1>3. ASSUME NEW d \in 1 .. i, Cut(text[d]) = "DIMENSION", q = Dimension(r, t),
             \A e \in (d + 1) .. i : Cut(text[e]) # "DIMENSION",
             IF text[d + 1] = ":" THEN d + 2 = i + 1 ELSE d + 1 = i + 1
      PROVE  /\ Reader(q)
             /\ \/ q.expects = "keyword" /\ InHeader(text, i + 1, q)
                \/ q.expects = "PARSE_ERR_FORMAT"
  <2>1. CASE t \in DOMAIN WholeNumber /\ WholeNumber[t] > 0
    <3>1. q = [r EXCEPT !.n = WholeNumber[t], !.expects = "keyword"]
      BY <1>3, <2>1 DEF Dimension
    <3>2. q.n = WholeNumber[t] /\ q.expects = "keyword" /\ Reader(q)
      BY <3>1 DEF Reader
    <3>3. WholeNumber[t] \in Int /\ Cut(t) # "DIMENSION"
      BY <2>1, FileAssumption
    <3>4. Dimensions(text, i + 2) = Dimensions(text, i + 1)
      BY <1>2, <3>3
    <3>5. /\ Dimensions(text, i + 1) \in SUBSET Int /\ d \in Dimensions(text, i + 1)
          /\ \A e \in Dimensions(text, i + 1) : e <= d
      BY <1>3 DEF Dimensions
    <3>6. Greatest(Dimensions(text, i + 2)) = d
      BY <3>4, <3>5, GreatestIs
    <3>7. NumberBehind(text, d) = WholeNumber[t]
      BY <1>1, <1>3 DEF NumberBehind
    <3>8. Behind(text, i + 2, q.n)
      BY <2>1, <3>2, <3>3, <3>4, <3>5, <3>6, <3>7 DEF Behind
    <3>9. (i + 1) + 1 = i + 2
      OBVIOUS
    <3> QED
      BY <3>2, <3>8, <3>9 DEF InHeader
  <2>2. CASE ~(t \in DOMAIN WholeNumber /\ WholeNumber[t] > 0)
    BY <1>3, <2>2 DEF Dimension, Ends, Reader
  <2> QED
    BY <2>1, <2>2
<1>4. CASE r.expects = "keyword"
  <2>1. q = IF Cut(t) = "" THEN r ELSE Keyword(r, Cut(t))
    BY <1>1, <1>4 DEF NextToken
  <2>2. ASSUME q = r, Cut(t) # "DIMENSION"
        PROVE  InHeader(text, i + 1, q)
    <3>1. Dimensions(text, i + 2) = Dimensions(text, i + 1)
      BY <1>2, <2>2
    <3>2. (i + 1) + 1 = i + 2
      OBVIOUS
    <3> QED
      BY <1>4, <2>2, <3>1, <3>2 DEF InHeader, Behind
  <2>3. CASE Cut(t) = ""
    BY <1>4, <2>1, <2>2, <2>3
  <2>4. CASE Cut(t) = "DIMENSION" /\ q = [r EXCEPT !.expects = "dimension"]
    <3>1. q.expects = "dimension" /\ Reader(q)
      BY <2>4 DEF Reader
    <3> QED
      BY <1>1, <2>4, <3>1 DEF InHeader
  <2>5. CASE /\ Cut(t) = "NODE_COORD_SECTION" /\ r.n > 0
             /\ q = [r EXCEPT !.expects = "id",
                              !.nodes = [j \in 1 .. r.n |-> [x |-> Unset, y |-> Unset]]]
    <3>1. /\ q.expects = "id" /\ Reader(q) /\ q.n = r.n
          /\ q.nodes = [j \in 1 .. r.n |-> [x |-> Unset, y |-> Unset]]
      BY <2>5 DEF Reader
    <3>2. Behind(text, i + 1, r.n)
      BY <1>4, <2>5 DEF InHeader
    <3> QED
      BY <1>1, <2>5, <3>1, <3>2
  <2>6. CASE q = Ends(r, "PARSE_ERR_FORMAT")
    BY <2>6 DEF Ends, Reader
  <2>7. CASE Cut(t) # "DIMENSION" /\ q = r
    BY <1>4, <2>2, <2>7
  <2> QED
    BY <2>1, <2>3, <2>4, <2>5, <2>6, <2>7, Keywords
<1>5. CASE r.expects = "dimension" /\ t = ":"
  <2>1. q = [r EXCEPT !.expects = "colon"]
    BY <1>1, <1>5 DEF NextToken
  <2>2. q.expects = "colon" /\ Reader(q)
    BY <2>1 DEF Reader
  <2>3. i \in 1 .. Len(text) /\ Cut(text[i]) = "DIMENSION" /\ (i + 1) - 1 = i
    BY <1>5 DEF InHeader
  <2> QED
    BY <1>1, <1>5, <2>2, <2>3 DEF InHeader
<1>6. CASE r.expects = "dimension" /\ t # ":"
  <2>1. q = Dimension(r, t)
    BY <1>1, <1>6 DEF NextToken
  <2>2. i \in 1 .. i /\ Cut(text[i]) = "DIMENSION" /\ text[i + 1] # ":"
    BY <1>1, <1>6 DEF InHeader
  <2> QED
    BY <1>3, <2>1, <2>2
<1>7. CASE r.expects = "colon"
  <2>1. q = Dimension(r, t)
    BY <1>1, <1>7 DEF NextToken
  <2>2. PICK d : d = i - 1
    OBVIOUS
  <2>3. d \in 1 .. i /\ Cut(text[d]) = "DIMENSION" /\ text[d + 1] = ":" /\ d + 2 = i + 1
    BY <1>7, <2>2 DEF InHeader
  <2>4. \A e \in (d + 1) .. i : e = d + 1
    BY <2>2
  <2>5. Cut(text[d + 1]) # "DIMENSION"
    BY <2>3, FileAssumption
  <2> QED
    BY <1>3, <2>1, <2>3, <2>4, <2>5
<1> QED
  BY <1>4, <1>5, <1>6, <1>7

LEMMA GreatestBelow ==
  ASSUME NEW c \in Nat, NEW K \in SUBSET (0 .. (c - 1)), K # {}
  PROVE  Greatest(K) \in K
<1> DEFINE S == {c - k : k \in K}
<1>1. S \in SUBSET Nat /\ S # {}
  <2>1. \A k \in K : c - k \in Nat
    OBVIOUS
  <2> QED
    BY <2>1
<1>2. PICK m \in S : \A n \in S : m <= n
  BY <1>1, Least
<1>3. PICK k \in K : m = c - k
  BY <1>2
<1>4. \A j \in K : j <= k
  BY <1>2, <1>3
<1>5. K \in SUBSET Int
  OBVIOUS
<1>6. Greatest(K) = k
  BY <1>4, <1>5, GreatestIs
<1> QED
  BY <1>3, <1>6

\* A word more changes nothing in the triples before it.
LEMMA ListingStays ==
  ASSUME NEW b \in Seq(STRING), NEW t \in STRING, NEW c \in Nat, 3 * c <= Len(b), NEW n \in Nat
  PROVE  /\ \A k \in 0 .. (c - 1) : Append(b, t)[3 * k + 1] = b[3 * k + 1]
         /\ Listing(Append(b, t), c, n) = Listing(b, c, n)
<1>1. PICK d : d = Append(b, t)
  OBVIOUS
<1>2. ASSUME NEW k \in 0 .. (c - 1)
      PROVE  d[3 * k + 1] = b[3 * k + 1] /\ d[3 * k + 2] = b[3 * k + 2] /\ d[3 * k + 3] = b[3 * k + 3]
  <2>1. 3 * k + 1 \in 1 .. Len(b) /\ 3 * k + 2 \in 1 .. Len(b) /\ 3 * k + 3 \in 1 .. Len(b)
    OBVIOUS
  <2>2. \A j \in 1 .. Len(b) : d[j] = b[j]
    BY <1>1
  <2> QED
    BY <2>1, <2>2
<1>3. \A i : Listed(d, c, i) = Listed(b, c, i)
  BY <1>2 DEF Listed
<1>4. ASSUME NEW i \in 1 .. n, Listed(b, c, i) # {}
      PROVE  Greatest(Listed(b, c, i)) \in 0 .. (c - 1)
  BY <1>4, GreatestBelow DEF Listed
<1>5. Listing(d, c, n) = Listing(b, c, n)
  BY <1>2, <1>3, <1>4 DEF Listing
<1> QED
  BY <1>1, <1>2, <1>5

\* A whole triple more is the node with its id.
LEMMA ListingGrows ==
  ASSUME NEW b, NEW c \in Nat, NEW n \in Nat, NEW i \in 1 .. n,
         i = WholeNumber[Cut(b[3 * c + 1])]
  PROVE  Listing(b, c + 1, n) =
           [Listing(b, c, n) EXCEPT ![i] = [x |-> b[3 * c + 2], y |-> b[3 * c + 3]]]
<1>1. \A k : k \in 0 .. ((c + 1) - 1) <=> k \in 0 .. (c - 1) \/ k = c
  OBVIOUS
<1>2. \A j : Listed(b, c + 1, j) = Listed(b, c, j) \cup (IF j = i THEN {c} ELSE {})
  BY <1>1 DEF Listed
<1>3. Greatest(Listed(b, c + 1, i)) = c /\ Listed(b, c + 1, i) # {}
  <2>1. Listed(b, c + 1, i) \in SUBSET Int /\ c \in Listed(b, c + 1, i)
    BY <1>2 DEF Listed
  <2>2. \A k \in Listed(b, c + 1, i) : k <= c
    BY DEF Listed
  <2> QED
    BY <2>1, <2>2, GreatestIs
<1>4. \A j : j # i => Listed(b, c + 1, j) = Listed(b, c, j)
  BY <1>2
<1> QED
  BY <1>3, <1>4 DEF Listing

-----------------------------------------------------------------------------
\* The reader behind the section: the words b that count make c triples, and a part of one.
Triples(b, c, r) ==
  /\ b \in Seq(STRING) /\ c \in Nat
  /\ \A k \in 0 .. (c - 1) : Cut(b[3 * k + 1]) \in Ids(r.n)

UnderId(b, c, r) == Cut(b[3 * c + 1]) \in Ids(r.n) /\ r.id = WholeNumber[Cut(b[3 * c + 1])]

InBody(b, c, r) ==
  /\ Triples(b, c, r)
  /\ r.expects = "id" => Len(b) = 3 * c /\ r.nodes = Listing(b, c, r.n)
  /\ r.expects = "x" => Len(b) = 3 * c + 1 /\ UnderId(b, c, r) /\ r.nodes = Listing(b, c, r.n)
  /\ r.expects = "y" => /\ Len(b) = 3 * c + 2 /\ UnderId(b, c, r)
                        /\ r.nodes = [Listing(b, c, r.n) EXCEPT ![r.id].x = b[3 * c + 2]]
  /\ r.expects = "parsed" => /\ 3 * c < Len(b) /\ Cut(b[3 * c + 1]) = "EOF"
                             /\ r.nodes = Listing(b, c, r.n)

LEMMA AnId ==
  ASSUME NEW n \in Nat, NEW t
  PROVE  t \in Ids(n) <=> t \in DOMAIN WholeNumber /\ WholeNumber[t] \in 1 .. n
BY DEF Ids

\* What a word of the body does.
LEMMA BodyStep ==
  ASSUME NEW b, NEW c, NEW r, InBody(b, c, r), Reader(r), r.n \in Nat,
         r.expects \in {"id", "x", "y", "parsed"}, NEW t \in STRING, NEW q, q = NextToken(r, t)
  PROVE  /\ Reader(q) /\ q.n = r.n
         /\ \/ q.expects \in {"id", "x", "y", "parsed"} /\ \E d : InBody(Joined(b, t), d, q)
            \/ q.expects = "PARSE_ERR_INV"
<1>1. b \in Seq(STRING) /\ c \in Nat /\ Triples(b, c, r) /\ Len(b) \in Nat
  BY DEF InBody, Triples
<1>2. CASE q = r /\ Joined(b, t) = b
  BY <1>2
<1>3. PICK a : a = Append(b, t)
  OBVIOUS
<1>4. /\ a \in Seq(STRING) /\ Len(a) = Len(b) + 1 /\ a[Len(b) + 1] = t
      /\ \A j \in 1 .. Len(b) : a[j] = b[j]
  BY <1>1, <1>3
<1>5. ASSUME 3 * c <= Len(b)
      PROVE  /\ \A k \in 0 .. (c - 1) : a[3 * k + 1] = b[3 * k + 1]
             /\ Listing(a, c, r.n) = Listing(b, c, r.n)
  BY <1>1, <1>3, <1>5, ListingStays
<1>6. ASSUME 3 * c <= Len(b), NEW s, s.n = r.n
      PROVE  Triples(a, c, s)
  BY <1>1, <1>4, <1>5, <1>6 DEF Triples
<1>7. CASE r.expects = "id"
  <2>1. Len(b) = 3 * c /\ r.nodes = Listing(b, c, r.n) /\ 3 * c <= Len(b)
    BY <1>1, <1>7 DEF InBody
  <2>2. CASE Cut(t) = ""
    BY <1>2, <1>7, <2>2 DEF NextToken, Joined
  <2>3. CASE Cut(t) = "EOF"
    <3>1. q = [r EXCEPT !.expects = "parsed"] /\ Joined(b, t) = a
      BY <1>3, <1>7, <2>3 DEF NextToken, Joined, Id, Ends
    <3>2. q.expects = "parsed" /\ q.n = r.n /\ q.nodes = r.nodes /\ Reader(q)
      BY <3>1 DEF Reader
    <3>3. 3 * c < Len(a) /\ a[3 * c + 1] = t
      BY <1>4, <2>1
    <3>4. InBody(a, c, q)
      BY <1>5, <1>6, <2>1, <2>3, <3>2, <3>3 DEF InBody
    <3> QED
      BY <3>1, <3>2, <3>4
  <2>4. CASE Cut(t) \notin {"", "EOF"} /\ Cut(t) \in Ids(r.n)
    <3>1. q = [r EXCEPT !.id = WholeNumber[Cut(t)], !.expects = "x"] /\ Joined(b, t) = a
      BY <1>3, <1>7, <2>4, AnId DEF NextToken, Joined, Id
    <3>2. /\ q.expects = "x" /\ q.n = r.n /\ q.nodes = r.nodes /\ q.id = WholeNumber[Cut(t)]
          /\ Reader(q)
      BY <3>1 DEF Reader
    <3>3. Len(a) = 3 * c + 1 /\ a[3 * c + 1] = t
      BY <1>4, <2>1
    <3>4. InBody(a, c, q)
      BY <1>5, <1>6, <2>1, <2>4, <3>2, <3>3 DEF InBody, UnderId
    <3> QED
      BY <3>1, <3>2, <3>4
  <2>5. CASE Cut(t) \notin {"", "EOF"} /\ Cut(t) \notin Ids(r.n)
    <3>1. q = [r EXCEPT !.expects = "PARSE_ERR_INV"]
      BY <1>7, <2>5, AnId DEF NextToken, Id, Ends
    <3> QED
      BY <3>1 DEF Reader
  <2> QED
    BY <2>2, <2>3, <2>4, <2>5
<1>8. ASSUME r.expects \in {"x", "y"}, t \notin Coordinates
      PROVE  Reader(q) /\ q.n = r.n /\ q.expects = "PARSE_ERR_INV"
  <2>1. q = [r EXCEPT !.expects = "PARSE_ERR_INV"]
    BY <1>8 DEF NextToken, Coordinate, Ends
  <2> QED
    BY <2>1 DEF Reader
<1>9. ASSUME t \in Coordinates
      PROVE  Joined(b, t) = a
  BY <1>3, <1>9, FileAssumption DEF Joined
<1>10. ASSUME UnderId(b, c, r)
       PROVE  r.id \in 1 .. r.n
  BY <1>10, AnId DEF UnderId
<1>11. CASE r.expects = "x" /\ t \in Coordinates
  <2>1. /\ Len(b) = 3 * c + 1 /\ UnderId(b, c, r) /\ r.nodes = Listing(b, c, r.n)
        /\ 3 * c <= Len(b)
    BY <1>1, <1>11 DEF InBody
  <2>2. q = [r EXCEPT !.nodes[r.id]["x"] = t, !.expects = "y"]
    BY <1>11 DEF NextToken, Coordinate
  <2>3. /\ q.expects = "y" /\ q.n = r.n /\ q.id = r.id /\ Reader(q)
        /\ q.nodes = [r.nodes EXCEPT ![r.id]["x"] = t]
    BY <2>2 DEF Reader
  <2>4. Len(a) = 3 * c + 2 /\ a[3 * c + 2] = t /\ a[3 * c + 1] = b[3 * c + 1]
    BY <1>1, <1>4, <2>1
  <2>5. UnderId(a, c, q)
    BY <2>1, <2>3, <2>4 DEF UnderId
  <2>6. InBody(a, c, q)
    BY <1>5, <1>6, <2>1, <2>3, <2>4, <2>5 DEF InBody
  <2> QED
    BY <1>9, <1>11, <2>3, <2>6
<1>12. CASE r.expects = "y" /\ t \in Coordinates
  <2>1. /\ Len(b) = 3 * c + 2 /\ UnderId(b, c, r) /\ 3 * c <= Len(b)
        /\ r.nodes = [Listing(b, c, r.n) EXCEPT ![r.id].x = b[3 * c + 2]]
    BY <1>1, <1>12 DEF InBody
  <2>2. q = [r EXCEPT !.nodes[r.id]["y"] = t, !.expects = "id"]
    BY <1>12 DEF NextToken, Coordinate
  <2>3. /\ q.expects = "id" /\ q.n = r.n /\ q.id = r.id /\ Reader(q)
        /\ q.nodes = [r.nodes EXCEPT ![r.id]["y"] = t]
    BY <2>2 DEF Reader
  <2>4. /\ Len(a) = 3 * (c + 1) /\ a[3 * c + 3] = t /\ a[3 * c + 2] = b[3 * c + 2]
        /\ a[3 * c + 1] = b[3 * c + 1]
    BY <1>1, <1>4, <2>1
  <2>5. r.id \in 1 .. r.n /\ r.id = WholeNumber[Cut(a[3 * c + 1])]
    BY <1>10, <2>1, <2>4 DEF UnderId
  <2>6. Listing(a, c + 1, r.n) =
          [Listing(a, c, r.n) EXCEPT ![r.id] = [x |-> a[3 * c + 2], y |-> a[3 * c + 3]]]
    <3>1. PICK i, n : i = r.id /\ n = r.n
      OBVIOUS
    <3>2. n \in Nat /\ i \in 1 .. n /\ i = WholeNumber[Cut(a[3 * c + 1])]
      BY <2>5, <3>1
    <3>3. Listing(a, c + 1, n) =
            [Listing(a, c, n) EXCEPT ![i] = [x |-> a[3 * c + 2], y |-> a[3 * c + 3]]]
      BY <1>1, <3>2, ListingGrows
    <3> QED
      BY <3>1, <3>3
  <2>7. q.nodes = Listing(a, c + 1, r.n)
    <3>1. PICK L, i : L = Listing(b, c, r.n) /\ i = r.id
      OBVIOUS
    <3>2. L = [j \in 1 .. r.n |-> L[j]] /\ L[i] = [x |-> L[i].x, y |-> L[i].y] /\ i \in 1 .. r.n
      BY <2>5, <3>1 DEF Listing
    <3>3. PICK M, v : v = b[3 * c + 2] /\ M = [L EXCEPT ![i] = [L[i] EXCEPT !.x = v]]
      OBVIOUS
    <3>4. r.nodes = M
      BY <2>1, <3>1, <3>3
    <3>5. M[i] = [x |-> v, y |-> L[i].y]
      BY <3>2, <3>3
    <3>6. q.nodes = [M EXCEPT ![i] = [M[i] EXCEPT !["y"] = t]]
      BY <2>3, <3>1, <3>4
    <3>7. [M[i] EXCEPT !["y"] = t] = [x |-> v, y |-> t]
      BY <3>5
    <3>8. [M EXCEPT ![i] = [x |-> v, y |-> t]] = [L EXCEPT ![i] = [x |-> v, y |-> t]]
      BY <3>2, <3>3
    <3>9. q.nodes = [L EXCEPT ![i] = [x |-> v, y |-> t]]
      BY <3>6, <3>7, <3>8
    <3> QED
      BY <1>5, <2>1, <2>4, <2>6, <3>1, <3>3, <3>9
  <2>8. Triples(a, c + 1, q)
    <3>1. Triples(a, c, q)
      BY <1>6, <2>1, <2>3
    <3>2. \A k \in 0 .. ((c + 1) - 1) : k \in 0 .. (c - 1) \/ k = c
      BY <1>1
    <3>3. Cut(a[3 * c + 1]) \in Ids(q.n)
      BY <2>1, <2>3, <2>4 DEF UnderId
    <3>4. /\ a \in Seq(STRING)
          /\ \A k \in 0 .. (c - 1) : Cut(a[3 * k + 1]) \in Ids(q.n)
      BY <3>1 DEF Triples
    <3>5. ASSUME NEW k \in 0 .. ((c + 1) - 1)
          PROVE  Cut(a[3 * k + 1]) \in Ids(q.n)
      BY <3>2, <3>3, <3>4
    <3> QED
      BY <1>1, <3>4, <3>5 DEF Triples
  <2>9. InBody(a, c + 1, q)
    BY <2>3, <2>4, <2>7, <2>8 DEF InBody
  <2> QED
    BY <1>9, <1>12, <2>3, <2>9
<1>13. CASE r.expects = "parsed"
  <2>1. q = r
    BY <1>13 DEF NextToken
  <2>2. CASE Cut(t) = ""
    BY <1>2, <2>1, <2>2 DEF Joined
  <2>3. CASE Cut(t) # ""
    <3>1. /\ 3 * c < Len(b) /\ Cut(b[3 * c + 1]) = "EOF" /\ r.nodes = Listing(b, c, r.n)
      BY <1>13 DEF InBody
    <3>2. 3 * c <= Len(b) /\ 3 * c < Len(a) /\ a[3 * c + 1] = b[3 * c + 1]
      BY <1>1, <1>4, <3>1
    <3>3. InBody(a, c, r)
      BY <1>5, <1>6, <1>13, <3>1, <3>2 DEF InBody
    <3> QED
      BY <1>3, <1>13, <2>1, <2>3, <3>3 DEF Joined
  <2> QED
    BY <2>2, <2>3
<1> QED
  BY <1>7, <1>8, <1>11, <1>12, <1>13

\* The section of the nodes is at p and the dimension before it is n.
Section(text, p, n) ==
  p \in 1 .. Len(text) /\ Cut(text[p]) = "NODE_COORD_SECTION" /\ Behind(text, p, n)

ReadSoFar(text, i, r) ==
  /\ Reader(r)
  /\ \/ r.expects \in {"keyword", "dimension", "colon"} /\ InHeader(text, i, r)
     \/ /\ r.expects \in {"id", "x", "y", "parsed"}
        /\ \E p \in 1 .. i : /\ Section(text, p, r.n)
                             /\ \E c : InBody(WordsBehind(text, p)[i], c, r)
     \/ r.expects \in {"PARSE_ERR_FORMAT", "PARSE_ERR_INV"}

LEMMA SectionStarts ==
  ASSUME NEW r, r.n \in Nat, r.expects = "id",
         r.nodes = [j \in 1 .. r.n |-> [x |-> Unset, y |-> Unset]]
  PROVE  InBody(<<>>, 0, r)
<1>1. 0 .. (0 - 1) = {}
  OBVIOUS
<1>2. \A j : Listed(<<>>, 0, j) = {}
  BY <1>1 DEF Listed
<1>3. Listing(<<>>, 0, r.n) = r.nodes
  BY <1>2 DEF Listing
<1>4. Triples(<<>>, 0, r)
  BY <1>1 DEF Triples
<1>5. Len(<<>>) = 3 * 0
  OBVIOUS
<1> QED
  BY <1>3, <1>4, <1>5 DEF InBody

LEMMA ReadOn ==
  ASSUME NEW text \in Seq(STRING), NEW i \in 0 .. (Len(text) - 1), NEW r, ReadSoFar(text, i, r),
         NEW q, q = NextToken(r, text[i + 1])
  PROVE  ReadSoFar(text, i + 1, q)
<1>1. Len(text) \in Nat /\ i + 1 \in 1 .. Len(text) /\ text[i + 1] \in STRING
  OBVIOUS
<1>2. Reader(r)
  BY DEF ReadSoFar
<1>3. CASE r.expects \in {"keyword", "dimension", "colon"} /\ InHeader(text, i, r)
  <2>1. /\ Reader(q)
        /\ \/ q.expects \in {"keyword", "dimension", "colon"} /\ InHeader(text, i + 1, q)
           \/ q.expects = "PARSE_ERR_FORMAT"
           \/ /\ q.expects = "id" /\ Cut(text[i + 1]) = "NODE_COORD_SECTION"
              /\ Behind(text, i + 1, q.n)
              /\ q.nodes = [j \in 1 .. q.n |-> [x |-> Unset, y |-> Unset]]
    BY <1>1, <1>2, <1>3, HeaderStep
  <2>2. CASE /\ q.expects = "id" /\ Cut(text[i + 1]) = "NODE_COORD_SECTION"
             /\ Behind(text, i + 1, q.n)
             /\ q.nodes = [j \in 1 .. q.n |-> [x |-> Unset, y |-> Unset]]
    <3>1. PICK p : p = i + 1
      OBVIOUS
    <3>2. Section(text, p, q.n) /\ p \in 1 .. (i + 1) /\ q.n \in Nat
      BY <1>1, <2>2, <3>1 DEF Section, Behind
    <3>3. WordsBehind(text, p)[i + 1] = <<>>
      <4>1. CountsAre(text, p, WordsBehind(text, p))
        BY <1>1, <3>1, Counting
      <4>2. p \in 0 .. Len(text) /\ p <= p
        BY <1>1, <3>1
      <4> QED
        BY <3>1, <4>1, <4>2 DEF CountsAre
    <3>4. InBody(WordsBehind(text, p)[i + 1], 0, q)
      BY <2>2, <3>2, <3>3, SectionStarts
    <3> QED
      BY <2>1, <2>2, <3>2, <3>4 DEF ReadSoFar
  <2> QED
    BY <2>1, <2>2 DEF ReadSoFar
<1>4. CASE /\ r.expects \in {"id", "x", "y", "parsed"}
           /\ \E p \in 1 .. i : /\ Section(text, p, r.n)
                                /\ \E c : InBody(WordsBehind(text, p)[i], c, r)
  <2>0. PICK p \in 1 .. i : Section(text, p, r.n) /\ \E c : InBody(WordsBehind(text, p)[i], c, r)
    BY <1>4
  <2>1. PICK c : Section(text, p, r.n) /\ InBody(WordsBehind(text, p)[i], c, r)
    BY <2>0
  <2>2. PICK b, t : b = WordsBehind(text, p)[i] /\ t = text[i + 1]
    OBVIOUS
  <2>3. r.n \in Nat /\ p \in 1 .. (i + 1) /\ p \in Nat
    BY <2>1 DEF Section, Behind
  <2>4. WordsBehind(text, p)[i + 1] = Joined(b, t)
    <3>1. CountsAre(text, p, WordsBehind(text, p))
      BY <1>1, <2>3, Counting
    <3>2. i + 1 \in 0 .. Len(text) /\ ~(i + 1 <= p) /\ (i + 1) - 1 = i
      BY <1>1
    <3> QED
      BY <2>2, <3>1, <3>2 DEF CountsAre
  <2>5. /\ Reader(q) /\ q.n = r.n
        /\ \/ q.expects \in {"id", "x", "y", "parsed"} /\ \E d : InBody(Joined(b, t), d, q)
           \/ q.expects = "PARSE_ERR_INV"
    <3>1. InBody(b, c, r) /\ t \in STRING /\ q = NextToken(r, t)
      BY <1>1, <2>1, <2>2
    <3> QED
      BY <1>2, <1>4, <2>3, <3>1, BodyStep
  <2> QED
    BY <2>1, <2>3, <2>4, <2>5 DEF ReadSoFar
<1>5. CASE r.expects \in {"PARSE_ERR_FORMAT", "PARSE_ERR_INV"}
  <2>1. q = r
    BY <1>5 DEF NextToken
  <2> QED
    BY <1>2, <1>5, <2>1 DEF ReadSoFar
<1> QED
  BY <1>3, <1>4, <1>5 DEF ReadSoFar

(* What is parsed is what the file says. *)
LEMMA ParsedIsSaid ==
  ASSUME NEW text \in Seq(STRING), Parse(text).expects = "parsed"
  PROVE  /\ Says(text, Parse(text).n, Parse(text).nodes)
         /\ Parse(text).nodes # <<>>
<1>1. Len(text) \in Nat
  OBVIOUS
<1>2. PICK r : ReadingIs(text, r) /\ Parse(text) = EndOfFile(r[Len(text)])
  BY <1>1, Readings
<1>3. /\ r[0] = Start
      /\ \A i \in 0 .. (Len(text) - 1) : r[i + 1] = NextToken(r[i], text[i + 1])
  BY <1>1, <1>2 DEF ReadingIs
<1>4. ReadSoFar(text, Len(text), r[Len(text)])
  <2> DEFINE S == {i \in Nat : i <= Len(text) => ReadSoFar(text, i, r[i])}
  <2>1. 0 \in S
    <3>1. ReadSoFar(text, 0, Start)
      BY DEF Start, ReadSoFar, Reader, InHeader
    <3> QED
      BY <1>3, <3>1
  <2>2. ASSUME NEW i \in Nat, i \in S
        PROVE  i + 1 \in S
    <3>1. CASE i + 1 <= Len(text)
      <4>1. i \in 0 .. (Len(text) - 1) /\ ReadSoFar(text, i, r[i])
        BY <1>1, <2>2, <3>1
      <4>2. r[i + 1] = NextToken(r[i], text[i + 1])
        BY <1>3, <4>1
      <4>3. ReadSoFar(text, i + 1, r[i + 1])
        BY <4>1, <4>2, ReadOn
      <4> QED
        BY <4>3
    <3>2. CASE ~(i + 1 <= Len(text))
      BY <3>2
    <3> QED
      BY <3>1, <3>2
  <2>3. Nat \subseteq S
    <3> HIDE DEF S
    <3> QED
      BY <2>1, <2>2, Induct
  <2> QED
    BY <1>1, <2>3
<1>5. PICK u, m : u = r[Len(text)] /\ m = Len(text)
  OBVIOUS
<1>6. /\ u.expects \in {"id", "parsed"} /\ Reader(u)
      /\ Parse(text).n = u.n /\ Parse(text).nodes = u.nodes
  <2>1. Reader(u)
    BY <1>4, <1>5 DEF ReadSoFar
  <2>2. Parse(text) = EndOfFile(u)
    BY <1>2, <1>5
  <2>3. EndOfFile(u) \in {u} \cup {[u EXCEPT !.expects = s] :
                              s \in {"parsed", "PARSE_ERR_INV", "PARSE_ERR_FORMAT"}}
    BY DEF EndOfFile, Ends
  <2>4. Parse(text).n = u.n /\ Parse(text).nodes = u.nodes
    BY <2>1, <2>2, <2>3 DEF Reader
  <2>5. u.expects \in {"id", "parsed"}
    <3>1. CASE u.expects \in {"x", "y"}
      <4>1. Parse(text) = [u EXCEPT !.expects = "PARSE_ERR_INV"]
        BY <2>2, <3>1 DEF EndOfFile, Ends
      <4> QED
        BY <2>1, <4>1 DEF Reader
    <3>2. CASE u.expects \in {"keyword", "dimension", "colon"}
      <4>1. Parse(text) = [u EXCEPT !.expects = "PARSE_ERR_FORMAT"]
        BY <2>2, <3>2 DEF EndOfFile, Ends
      <4> QED
        BY <2>1, <4>1 DEF Reader
    <3>3. CASE u.expects \notin {"x", "y", "keyword", "dimension", "colon", "id"}
      BY <2>2, <3>3 DEF EndOfFile
    <3> QED
      BY <3>1, <3>2, <3>3
  <2> QED
    BY <2>1, <2>4, <2>5
<1>7a. PICK p \in 1 .. m : Section(text, p, u.n) /\ \E c : InBody(WordsBehind(text, p)[m], c, u)
  BY <1>4, <1>5, <1>6 DEF ReadSoFar
<1>7. PICK c : Section(text, p, u.n) /\ InBody(WordsBehind(text, p)[m], c, u)
  BY <1>7a
<1>8. PICK b : b = WordsBehind(text, p)[m]
  OBVIOUS
<1>9. b \in Seq(STRING) /\ c \in Nat /\ \A k \in 0 .. (c - 1) : Cut(b[3 * k + 1]) \in Ids(u.n)
  BY <1>7, <1>8 DEF InBody, Triples
<1>10. /\ u.nodes = Listing(b, c, u.n) /\ c \in 0 .. Len(b)
       /\ IF 3 * c = Len(b) THEN TRUE ELSE 3 * c < Len(b) /\ Cut(b[3 * c + 1]) = "EOF"
  <2>1. Len(b) \in Nat
    BY <1>9
  <2>2. CASE u.expects = "id"
    <3>1. Len(b) = 3 * c /\ u.nodes = Listing(b, c, u.n)
      BY <1>7, <1>8, <2>2 DEF InBody
    <3> QED
      BY <1>9, <3>1
  <2>3. CASE u.expects = "parsed"
    <3>1. 3 * c < Len(b) /\ Cut(b[3 * c + 1]) = "EOF" /\ u.nodes = Listing(b, c, u.n)
      BY <1>7, <1>8, <2>3 DEF InBody
    <3>2. c \in 0 .. Len(b)
      BY <1>9, <2>1, <3>1
    <3> QED
      BY <3>1, <3>2
  <2> QED
    BY <1>6, <2>2, <2>3
<1>11. /\ p \in DOMAIN text /\ Cut(text[p]) = "NODE_COORD_SECTION"
       /\ Dimensions(text, p) # {} /\ u.n = NumberBehind(text, Greatest(Dimensions(text, p)))
       /\ u.n \in Nat \ {0}
  BY <1>5, <1>7 DEF Section, Behind
<1>12. Says(text, u.n, u.nodes)
  BY <1>5, <1>8, <1>9, <1>10, <1>11 DEF Says
<1>13. u.nodes # <<>>
  <2>1. DOMAIN u.nodes = 1 .. u.n
    BY <1>10 DEF Listing
  <2>2. 1 \in 1 .. u.n
    BY <1>11
  <2>3. 1 \notin DOMAIN <<>>
    OBVIOUS
  <2>4. 1 \in DOMAIN u.nodes
    BY <2>1, <2>2
  <2> QED
    BY <2>3, <2>4
<1> QED
  BY <1>6, <1>12, <1>13

-----------------------------------------------------------------------------
InstanceInv ==
  /\ InstanceIsTheFile
  /\ stage = "load" => instance = NoInstance
  /\ status = "SUCCESS" /\ options.inst.mode # FILE => ~(options.inst.number_of_nodes < 2)

LEMMA InstanceStep == OptionsInv /\ InstanceInv /\ [ProgramNext]_programVars => InstanceInv'
<1> SUFFICES ASSUME OptionsInv, InstanceInv, ProgramNext \/ UNCHANGED programVars
             PROVE  InstanceInv'
  OBVIOUS
<1>1. CASE Load
  <2>1. stage' = "load" /\ instance' = NoInstance /\ LoadNext
    BY <1>1 DEF Load, InstanceInv
  <2>2. status' = "SUCCESS" /\ options'.inst.mode # FILE => ~(options'.inst.number_of_nodes < 2)
    <3>1. CASE MergeIni \/ Validate
      <4>1. status' = Verdict(options')
        BY <3>1 DEF MergeIni, Validate
      <4>2. PICK o : o = options'
        OBVIOUS
      <4> QED
        BY <4>1, <4>2, VerdictIs
    <3>2. CASE ParserUnavailable \/ ReadArguments \/ ArgumentsFail \/ OpenIni \/ ReadLine
      BY <3>2 DEF ParserUnavailable, ReadArguments, ArgumentsFail, OpenIni, ReadLine, Returned,
                  Reading
    <3> QED
      BY <2>1, <3>1, <3>2 DEF LoadNext
  <2> QED
    BY <2>1, <2>2 DEF InstanceInv, InstanceIsTheFile
<1>2. CASE CreateRandom
  <2>1. /\ stage' = "run" /\ status = "SUCCESS" /\ status' = status /\ options' = options
        /\ options.inst.mode = RANDOM
        /\ instance' = [n |-> AsInt(options.inst.number_of_nodes), nodes |-> Drawn]
    BY <1>2 DEF CreateRandom, Creates, Proceeds, loadVars, parserVars
  <2>2. PICK u : u = options.inst.number_of_nodes
    OBVIOUS
  <2>3. u \in Nat
    <3>1. PICK o : o = <<"inst", "number_of_nodes">>
      OBVIOUS
    <3>2. o \in Flags
      <4>1. "inst" \in DOMAIN Defaults /\ "number_of_nodes" \in DOMAIN Defaults["inst"]
        BY DEF Defaults, InstDefaults
      <4> QED
        BY <3>1, <4>1, FlagIs
    <3>3. o[2] \notin Strings \cup Bools \cup Ints \cup Udoubles
      BY <3>1 DEF Strings, Bools, Ints, Udoubles
    <3>4. Type(o) = "uint"
      BY <3>3, TypeIs
    <3>5. Get(options, o) \in Nat
      BY <3>2, <3>4 DEF OptionsInv, Valued, Sort
    <3> QED
      BY <2>2, <3>1, <3>5 DEF Get
  <2>4. ~(u < 2)
    BY <2>1, <2>2 DEF InstanceInv, RANDOM, FILE
  <2>5. AsInt(u) >= 2 \/ u > IntMax
    BY <2>3, <2>4, WidthAssumption DEF AsInt
  <2>6. instance'.n = AsInt(u) /\ instance'.nodes = Drawn
    BY <2>1, <2>2
  <2>7. InstanceIsTheFile'
    BY <2>1, <2>2, <2>5, <2>6 DEF InstanceIsTheFile
  <2> QED
    BY <2>1, <2>7 DEF InstanceInv
<1>3. CASE LoadInstance /\ stage' = "run"
  <2>1. PICK f \in InstanceFiles :
          /\ file' = f
          /\ IF Parse(f).expects = "parsed"
             THEN Creates([n |-> Parse(f).n, nodes |-> Parse(f).nodes])
             ELSE Failed
    BY <1>3 DEF LoadInstance
  <2>2. Parse(f).expects = "parsed" /\ Creates([n |-> Parse(f).n, nodes |-> Parse(f).nodes])
    BY <1>3, <2>1 DEF Failed, CleanUp
  <2>3. f \in Seq(STRING)
    BY InstanceAssumption
  <2>4. Says(f, Parse(f).n, Parse(f).nodes) /\ Parse(f).nodes # <<>>
    BY <2>2, <2>3, ParsedIsSaid
  <2>5. /\ instance' = [n |-> Parse(f).n, nodes |-> Parse(f).nodes]
        /\ UNCHANGED <<status, options>>
    BY <2>2 DEF Creates, loadVars, parserVars
  <2>6. PICK i : i = instance'
    OBVIOUS
  <2>7. i.nodes # Drawn /\ Says(f, i.n, i.nodes)
    BY <2>4, <2>5, <2>6 DEF Drawn
  <2>8. InstanceIsTheFile'
    BY <2>1, <2>6, <2>7 DEF InstanceIsTheFile
  <2> QED
    BY <1>3, <2>5, <2>8 DEF InstanceInv
<1>4. ASSUME NEW code, CleanUp(code)
      PROVE  InstanceInv'
  <2>1. /\ instance' = NoInstance /\ UNCHANGED <<status, options>> /\ stage' # "load"
    BY <1>4 DEF CleanUp, settled
  <2> QED
    BY <2>1 DEF InstanceInv, InstanceIsTheFile
<1>5. CASE (LoadInstance /\ stage' # "run") \/ Refused \/ InstanceUnreadable \/ NoMode \/ Finish
  <2>1. \E code : CleanUp(code)
    BY <1>5 DEF LoadInstance, Creates, Refused, InstanceUnreadable, NoMode, Finish, Failed
  <2> QED
    BY <1>4, <2>1
<1>6. CASE Launch \/ UNCHANGED programVars
  <2>1. UNCHANGED <<stage, instance, file, status, options>>
    BY <1>6 DEF Launch, programVars, loadVars, parserVars
  <2> QED
    BY <2>1 DEF InstanceInv, InstanceIsTheFile
<1> QED
  BY <1>1, <1>2, <1>3, <1>5, <1>6 DEF ProgramNext

\* An instance that was read from a file is the one the words of the file state.
THEOREM InstanceIsFaithful == ProgramSpec => []InstanceIsTheFile
<1>1. ProgramInit => OptionsInv /\ InstanceInv
  <2>1. ProgramInit => InstanceInv
    BY DEF ProgramInit, LoadInit, InstanceInv, InstanceIsTheFile
  <2> QED
    BY <2>1, OptionsInvInit
<1>2. OptionsInv /\ InstanceInv /\ [ProgramNext]_programVars => (OptionsInv /\ InstanceInv)'
  BY OptionsInvStep, InstanceStep
<1>3. InstanceInv => InstanceIsTheFile
  BY DEF InstanceInv
<1> QED
  BY <1>1, <1>2, <1>3, PTL DEF ProgramSpec

-----------------------------------------------------------------------------
(* What an option is: the value of its field, or the text of the block its field holds. *)
Text(opts, h, o) ==
  IF Type(o) # "string" THEN Get(opts, o)
  ELSE IF Get(opts, o) = Null THEN NoText ELSE h[Get(opts, o)]

LEMMA TextStays ==
  ASSUME NEW opts, NEW more, NEW h, NEW k, NEW o, Get(more, o) = Get(opts, o),
         Type(o) = "string" /\ Get(opts, o) # Null => k[Get(opts, o)] = h[Get(opts, o)]
  PROVE  Text(more, k, o) = Text(opts, h, o)
BY DEF Text

\* The structure r over the heap k has the text v for o, and the texts of opts over h else.
Wrote(r, k, opts, h, o, v) ==
  /\ Text(r, k, o) = v
  /\ \A q \in Flags : q # o => Text(r, k, q) = Text(opts, h, q)

SameTexts(r, k, opts, h) == \A q \in Flags : Text(r, k, q) = Text(opts, h, q)

\* A number or a switch is written.
LEMMA WriteOther ==
  ASSUME NEW opts, Structured(opts), NEW o \in Flags, Type(o) # "string", NEW v, NEW h,
         NEW r, r = [opts EXCEPT ![o[1]][o[2]] = v]
  PROVE  Wrote(r, h, opts, h, o, v)
<1>2. IsPut(r, opts, o, v)
  BY PutIs
<1>3. Text(r, h, o) = v
  BY <1>2 DEF IsPut, Text
<1>4. \A q \in Flags : q # o => Text(r, h, q) = Text(opts, h, q)
  BY <1>2 DEF IsPut, Text
<1> QED
  BY <1>3, <1>4 DEF Wrote

\* A string is written: the block of the field is freed and one for the text is allocated.
Replaced(h, x, b, text) == Allocated(Freed(h, {x}), b, text)

LEMMA ReplacedIs ==
  ASSUME NEW h, NEW x, NEW b, NEW text
  PROVE  /\ Replaced(h, x, b, text)[b] = text
         /\ \A c \in DOMAIN h : c # x /\ c # b => Replaced(h, x, b, text)[c] = h[c]
BY DEF Replaced, Allocated, Freed

LEMMA WriteString ==
  ASSUME NEW opts, Structured(opts), NEW W, Tagged(opts, W), NEW o \in StringOptions,
         NEW w \in W, NEW h, Owned(opts) \subseteq DOMAIN h, NEW text,
         NEW b, b = <<w, o[1], o[2]>>, NEW r, r = [opts EXCEPT ![o[1]][o[2]] = b],
         NEW x, x = Get(opts, o), NEW k, k = Replaced(h, x, b, text)
  PROVE  Wrote(r, k, opts, h, o, text)
<1>4. o \in Flags /\ Type(o) = "string" /\ b # Null
  BY DEF StringOptions, Null
<1>5. Get(r, o) = b /\ \A q \in Flags : q # o => Get(r, q) = Get(opts, q)
  <2>1. IsPut(r, opts, o, b)
    BY <1>4, PutIs
  <2> QED
    BY <2>1 DEF IsPut
<1>6. k[b] = text /\ \A c \in DOMAIN h : c # x /\ c # b => k[c] = h[c]
  BY ReplacedIs
<1>7. Text(r, k, o) = text
  BY <1>4, <1>5, <1>6 DEF Text
<1>8. ASSUME NEW q \in Flags, q # o
      PROVE  Text(r, k, q) = Text(opts, h, q)
  <2>1. ASSUME Type(q) = "string", Get(opts, q) # Null
        PROVE  k[Get(opts, q)] = h[Get(opts, q)]
    <3>1. PICK c : c = Get(opts, q)
      OBVIOUS
    <3>2. q \in StringOptions
      BY <2>1 DEF StringOptions
    <3>3. c \in DOMAIN h
      BY <2>1, <3>1, <3>2, OwnedIs
    <3>4. c # x
      BY <1>8, <2>1, <3>1, <3>2, Distinct
    <3>5. c # b
      <4>1. PICK v \in W : c = <<v, q[1], q[2]>>
        BY <2>1, <3>1, <3>2 DEF Tagged
      <4>2. q = <<q[1], q[2]>> /\ o = <<o[1], o[2]>>
        BY <1>4, FlagIs
      <4>3. q[1] # o[1] \/ q[2] # o[2]
        BY <1>8, <4>2
      <4> QED
        BY <4>1, <4>3
    <3> QED
      BY <1>6, <3>1, <3>3, <3>4, <3>5
  <2>2. Get(r, q) = Get(opts, q)
    BY <1>5, <1>8
  <2> QED
    BY <2>1, <2>2, TextStays
<1> QED
  BY <1>7, <1>8 DEF Wrote

\* The strings of another structure stay what they were.
LEMMA OthersStay ==
  ASSUME NEW opts, NEW V, Tagged(opts, V), NEW more, NEW W, Tagged(more, W), V \cap W = {},
         NEW o \in StringOptions, NEW w \in W, NEW h, Owned(opts) \subseteq DOMAIN h, NEW text,
         NEW b, b = <<w, o[1], o[2]>>, NEW x, x = Get(more, o), NEW k, k = Replaced(h, x, b, text)
  PROVE  SameTexts(opts, k, opts, h)
<1>3. k[b] = text /\ \A c \in DOMAIN h : c # x /\ c # b => k[c] = h[c]
  BY ReplacedIs
<1>4. ASSUME NEW q \in Flags
      PROVE  Text(opts, k, q) = Text(opts, h, q)
  <2>1. ASSUME Type(q) = "string", Get(opts, q) # Null
        PROVE  k[Get(opts, q)] = h[Get(opts, q)]
    <3>1. PICK c : c = Get(opts, q)
      OBVIOUS
    <3>2. q \in StringOptions
      BY <2>1 DEF StringOptions
    <3>3. c \in Owned(opts) /\ c # Null
      BY <2>1, <3>1, <3>2, OwnedIs
    <3>4. c # x
      <4>1. Owned(opts) \cap Owned(more) = {}
        BY Apart
      <4>2. x # Null => x \in Owned(more)
        BY OwnedIs
      <4> QED
        BY <3>3, <4>1, <4>2
    <3>5. c # b
      <4>1. PICK v \in V : c = <<v, q[1], q[2]>>
        BY <2>1, <3>1, <3>2 DEF Tagged
      <4>2. v # w
        OBVIOUS
      <4> QED
        BY <4>1, <4>2
    <3> QED
      BY <1>3, <3>1, <3>3, <3>4, <3>5
  <2> QED
    BY <2>1, TextStays
<1> QED
  BY <1>4 DEF SameTexts

-----------------------------------------------------------------------------
\* The lines of an ini file, one more at a time.
UnderName(L) ==
  \E j \in 1 .. Len(L) :
    /\ L[j].form = "pair" /\ L[j].name # ""
    /\ \A m \in (j + 1) .. Len(L) : EndsName(L[m]) => L[m].indented

SectionOf(L) == IF Headings(L) = {} THEN "" ELSE L[Greatest(Headings(L))].section

\* The section and the name that ini_parse_stream has in hand are those of the lines so far.
LinesAre(L, sec, prev) ==
  /\ sec = SectionOf(L)
  /\ prev # "" <=> UnderName(L)
  /\ prev # "" => Openers(L) # {} /\ prev = L[Greatest(Openers(L))].name

\* A line more changes nothing for the lines before it.
LEMMA LinesBefore ==
  ASSUME NEW L \in Seq(IniLines), NEW l \in IniLines
  PROVE  LET M == Append(L, l)
             n == Len(L)
         IN /\ M \in Seq(IniLines) /\ Len(M) = n + 1 /\ n \in Nat /\ M[n + 1] = l
            /\ \A i \in 1 .. n : M[i] = L[i]
            /\ \A i \in 1 .. n : i \in Continued(M) <=> i \in Continued(L)
            /\ n + 1 \in Continued(M) <=> l.indented /\ l.form # "comment" /\ UnderName(L)
<1>1. PICK M : M = Append(L, l)
  OBVIOUS
<1>2. PICK n : n = Len(L)
  OBVIOUS
<1>3. /\ n \in Nat /\ M \in Seq(IniLines) /\ Len(M) = n + 1 /\ M[n + 1] = l
      /\ \A i \in 1 .. n : M[i] = L[i]
      /\ DOMAIN L = 1 .. n /\ DOMAIN M = 1 .. (n + 1)
  BY <1>1, <1>2
<1>4. ASSUME NEW i \in 1 .. n
      PROVE  i \in Continued(M) <=> i \in Continued(L)
  <2>1. /\ i \in DOMAIN M /\ i \in DOMAIN L /\ M[i] = L[i]
        /\ \A j \in 1 .. (i - 1) : M[j] = L[j]
    BY <1>3
  <2>2. \A j \in 1 .. (i - 1) : \A m \in (j + 1) .. (i - 1) : M[m] = L[m]
    BY <1>3
  <2> QED
    BY <2>1, <2>2 DEF Continued
<1>5. n + 1 \in Continued(M) <=> l.indented /\ l.form # "comment" /\ UnderName(L)
  <2>1. n + 1 \in DOMAIN M /\ (n + 1) - 1 = n
    BY <1>3
  <2>2. n + 1 \in Continued(M) <=>
          /\ l.indented /\ l.form # "comment"
          /\ \E j \in 1 .. n : /\ M[j].form = "pair" /\ M[j].name # ""
                               /\ \A m \in (j + 1) .. n : EndsName(M[m]) => M[m].indented
    BY <1>3, <2>1 DEF Continued
  <2>3. \A j \in 1 .. n : M[j] = L[j] /\ \A m \in (j + 1) .. n : M[m] = L[m]
    BY <1>3
  <2>4. UnderName(L) <=>
          \E j \in 1 .. n : /\ L[j].form = "pair" /\ L[j].name # ""
                           /\ \A m \in (j + 1) .. n : EndsName(L[m]) => L[m].indented
    BY <1>2 DEF UnderName
  <2> QED
    BY <2>2, <2>3, <2>4
<1> QED
  BY <1>1, <1>2, <1>3, <1>4, <1>5

Last(K, n) == K # {} => Greatest(K) \in 1 .. n

LEMMA LastIs ==
  ASSUME NEW n \in Nat, NEW K \in SUBSET (1 .. n)
  PROVE  /\ Last(K, n)
         /\ n \in K => Greatest(K) = n
<1>1. ASSUME K # {}
      PROVE  Greatest(K) \in 1 .. n
  <2>1. PICK c : c = n + 1
    OBVIOUS
  <2>2. c \in Nat /\ K \in SUBSET (0 .. (c - 1))
    BY <2>1
  <2> QED
    BY <1>1, <2>2, GreatestBelow
<1>2. ASSUME n \in K
      PROVE  Greatest(K) = n
  <2>1. K \in SUBSET Int /\ \A k \in K : k <= n
    OBVIOUS
  <2> QED
    BY <1>2, <2>1, GreatestIs
<1> QED
  BY <1>1, <1>2 DEF Last

\* What a line more changes in the sets the settings are told from.
Grows(L, l, M, n) ==
  /\ n \in Nat /\ M \in Seq(IniLines) /\ Len(M) = n + 1 /\ M[n + 1] = l
  /\ \A i \in 1 .. n : M[i] = L[i] /\ (i \in Continued(M) <=> i \in Continued(L))
  /\ n + 1 \in Continued(M) <=> l.indented /\ l.form # "comment" /\ UnderName(L)
  /\ Openers(M) = Openers(L) \cup
        (IF l.form = "pair" /\ n + 1 \notin Continued(M) THEN {n + 1} ELSE {})
  /\ Headings(M) = Headings(L) \cup
        (IF l.form = "section" /\ n + 1 \notin Continued(M) THEN {n + 1} ELSE {})
  /\ Continued(M) = Continued(L) \cup (IF n + 1 \in Continued(M) THEN {n + 1} ELSE {})
  /\ Openers(L) \subseteq 1 .. n /\ Headings(L) \subseteq 1 .. n /\ Continued(L) \subseteq 1 .. n

LEMMA LinesGrow ==
  ASSUME NEW L \in Seq(IniLines), NEW l \in IniLines, NEW M, M = Append(L, l), NEW n, n = Len(L)
  PROVE  Grows(L, l, M, n)
<1>1. /\ n \in Nat /\ M \in Seq(IniLines) /\ Len(M) = n + 1 /\ M[n + 1] = l
      /\ \A i \in 1 .. n : M[i] = L[i] /\ (i \in Continued(M) <=> i \in Continued(L))
      /\ n + 1 \in Continued(M) <=> l.indented /\ l.form # "comment" /\ UnderName(L)
  BY LinesBefore
<1>2. DOMAIN L = 1 .. n /\ DOMAIN M = 1 .. (n + 1)
  BY <1>1
<1>3. \A i : i \in 1 .. (n + 1) <=> i \in 1 .. n \/ i = n + 1
  BY <1>1
<1>4. n + 1 \notin 1 .. n
  BY <1>1
<1>5. Continued(L) \subseteq 1 .. n /\ Continued(M) \subseteq 1 .. (n + 1)
  BY <1>2 DEF Continued
<1>6. Continued(M) = Continued(L) \cup (IF n + 1 \in Continued(M) THEN {n + 1} ELSE {})
  BY <1>1, <1>3, <1>4, <1>5
<1>7. Openers(L) \subseteq 1 .. n /\ Headings(L) \subseteq 1 .. n
  BY <1>2 DEF Openers, Headings
<1>8. Openers(M) = Openers(L) \cup
                 (IF l.form = "pair" /\ n + 1 \notin Continued(M) THEN {n + 1} ELSE {})
  BY <1>1, <1>2, <1>3, <1>4 DEF Openers
<1>9. Headings(M) = Headings(L) \cup
                 (IF l.form = "section" /\ n + 1 \notin Continued(M) THEN {n + 1} ELSE {})
  BY <1>1, <1>2, <1>3, <1>4 DEF Headings
<1> QED
  BY <1>1, <1>5, <1>6, <1>7, <1>8, <1>9 DEF Grows

\* A continued line has an opener above it: the first pair with a name.
Named(l) == l.form = "pair" /\ l.name # ""

LEMMA OpenerAbove ==
  ASSUME NEW L \in Seq(IniLines), NEW i \in Nat, NEW k \in 1 .. Len(L), k < i, Named(L[k])
  PROVE  Before(i, Openers(L)) # {}
<1>1. PICK n : n = Len(L)
  OBVIOUS
<1>2. n \in Nat /\ DOMAIN L = 1 .. n /\ k \in 1 .. n
  BY <1>1
<1>3. PICK P : P = {j \in 1 .. n : j < i /\ Named(L[j])}
  OBVIOUS
<1>4. P \in SUBSET Nat /\ k \in P
  BY <1>2, <1>3
<1>5. PICK j \in P : \A m \in P : j <= m
  BY <1>4, Least
<1>6. j \in 1 .. n /\ j < i /\ Named(L[j])
  BY <1>3
<1>7. j \notin Continued(L)
  <2> SUFFICES ASSUME j \in Continued(L)
               PROVE  FALSE
    OBVIOUS
  <2>1. PICK m \in 1 .. (j - 1) : Named(L[m])
    BY DEF Continued, Named
  <2>2. m \in 1 .. n /\ m < i /\ ~(j <= m)
    BY <1>2, <1>6
  <2>3. m \in P
    BY <1>3, <2>1, <2>2
  <2> QED
    BY <1>5, <2>2, <2>3
<1>8. j \in Openers(L)
  BY <1>2, <1>6, <1>7 DEF Openers, Named
<1> QED
  BY <1>6, <1>8 DEF Before

\* What the lines before the new one set.
LEMMA SettingStays ==
  ASSUME NEW L \in Seq(IniLines), NEW l \in IniLines, NEW M, M = Append(L, l), NEW i \in 1 .. Len(L)
  PROVE  SectionAt(M, i) = SectionAt(L, i) /\ NameAt(M, i) = NameAt(L, i) /\ TextAt(M, i) = TextAt(L, i)
<1>1. PICK n : n = Len(L)
  OBVIOUS
<1>2. /\ n \in Nat /\ i \in 1 .. n
      /\ \A k \in 1 .. n : M[k] = L[k] /\ (k \in Continued(M) <=> k \in Continued(L))
  BY <1>1, LinesBefore
<1>3. /\ Openers(M) = Openers(L) \/ Openers(M) = Openers(L) \cup {n + 1}
      /\ Headings(M) = Headings(L) \/ Headings(M) = Headings(L) \cup {n + 1}
      /\ Openers(L) \subseteq 1 .. n /\ Headings(L) \subseteq 1 .. n
  <2>1. Grows(L, l, M, n)
    BY <1>1, LinesGrow
  <2> QED
    BY <2>1 DEF Grows
<1>4. Before(i, Headings(M)) = Before(i, Headings(L)) /\ Before(i, Openers(M)) = Before(i, Openers(L))
  <2>1. ~(n + 1 < i)
    BY <1>2
  <2> QED
    BY <1>3, <2>1 DEF Before
<1>5. PICK A, B : A = Before(i, Headings(L)) /\ B = Before(i, Openers(L))
  OBVIOUS
<1>6. A \in SUBSET (1 .. n) /\ B \in SUBSET (1 .. n)
  BY <1>3, <1>5 DEF Before
<1>7. (A # {} => Greatest(A) \in 1 .. n) /\ (B # {} => Greatest(B) \in 1 .. n)
  BY <1>2, <1>6, LastIs DEF Last
<1>8. SectionAt(M, i) = SectionAt(L, i)
  BY <1>2, <1>4, <1>5, <1>7 DEF SectionAt
<1>9. i \in Continued(L) => B # {}
  <2> SUFFICES ASSUME i \in Continued(L)
               PROVE  B # {}
    OBVIOUS
  <2>1. PICK j \in 1 .. (i - 1) : Named(L[j])
    BY DEF Continued, Named
  <2>2. j \in 1 .. Len(L) /\ j < i /\ i \in Nat
    BY <1>1, <1>2
  <2> QED
    BY <1>5, <2>1, <2>2, OpenerAbove
<1>10. NameAt(M, i) = NameAt(L, i)
  BY <1>2, <1>4, <1>5, <1>7, <1>9 DEF NameAt
<1>11. TextAt(M, i) = TextAt(L, i)
  BY <1>2 DEF TextAt
<1> QED
  BY <1>8, <1>10, <1>11

Setting(i, o, t) == [at |-> i, option |-> o, text |-> t]
SettingAt(L, i) == Setting(i, <<SectionAt(L, i), NameAt(L, i)>>, TextAt(L, i))
UpTo(S, n) == \A x \in S : x.at \in 1 .. n

LEMMA SettingsGrow ==
  ASSUME NEW L \in Seq(IniLines), NEW l \in IniLines, NEW M, M = Append(L, l), NEW n, n = Len(L)
  PROVE  /\ Settings(M) = Settings(L) \cup
                 (IF n + 1 \in Openers(M) \cup Continued(M) THEN {SettingAt(M, n + 1)} ELSE {})
         /\ UpTo(Settings(L), n)
<1>1. PICK K, J : K = Openers(L) \cup Continued(L) /\ J = Openers(M) \cup Continued(M)
  OBVIOUS
<1>2. Settings(L) = {SettingAt(L, i) : i \in K} /\ Settings(M) = {SettingAt(M, i) : i \in J}
  BY <1>1 DEF Settings, SettingAt, Setting
<1>3. /\ Openers(M) = Openers(L) \cup
                 (IF l.form = "pair" /\ n + 1 \notin Continued(M) THEN {n + 1} ELSE {})
      /\ Continued(M) = Continued(L) \cup (IF n + 1 \in Continued(M) THEN {n + 1} ELSE {})
      /\ Openers(L) \subseteq 1 .. n /\ Continued(L) \subseteq 1 .. n
  <2>1. Grows(L, l, M, n)
    BY LinesGrow
  <2> QED
    BY <2>1 DEF Grows
<1>4. K \subseteq 1 .. n
  BY <1>1, <1>3
<1>5. n \in Nat /\ n + 1 \notin 1 .. n
  OBVIOUS
<1>6. J = K \cup (IF n + 1 \in J THEN {n + 1} ELSE {})
  BY <1>1, <1>3
<1>7. \A i \in K : SettingAt(M, i) = SettingAt(L, i)
  BY <1>4, SettingStays DEF SettingAt
<1>8. Settings(M) = Settings(L) \cup (IF n + 1 \in J THEN {SettingAt(M, n + 1)} ELSE {})
  <2>1. ASSUME NEW x
        PROVE  x \in Settings(M) <=> x \in Settings(L) \/ (n + 1 \in J /\ x = SettingAt(M, n + 1))
    <3>1. \A i : i \in J <=> i \in K \/ (n + 1 \in J /\ i = n + 1)
      BY <1>6
    <3> QED
      BY <1>2, <1>7, <3>1
  <2> QED
    BY <2>1
<1>9. UpTo(Settings(L), n)
  BY <1>2, <1>4 DEF SettingAt, Setting, UpTo
<1> QED
  BY <1>1, <1>8, <1>9

\* The last setting that can be converted counts.
LEMMA FromIniGrows ==
  ASSUME NEW S, NEW n \in Nat, UpTo(S, n), NEW p, NEW t, NEW o,
         NEW T, T = S \cup {Setting(n + 1, p, t)}
  PROVE  FromIni(o, T) =
           IF p = o /\ Convertible(o, t) THEN Converted(o, t) ELSE FromIni(o, S)
<1>1. PICK z : z = Setting(n + 1, p, t)
  OBVIOUS
<1>0. T = S \cup {z}
  BY <1>1
<1>2. z.at = n + 1 /\ z.option = p /\ z.text = t
  BY <1>1 DEF Setting
<1>3. PICK A, B : /\ A = {x \in S : x.option = o /\ Convertible(o, x.text)}
                  /\ B = {x \in T : x.option = o /\ Convertible(o, x.text)}
  OBVIOUS
<1>4. /\ FromIni(o, S) = IF A = {} THEN Get(Defaults, o)
                         ELSE Converted(o, (CHOOSE x \in A : \A y \in A : y.at <= x.at).text)
      /\ FromIni(o, T) = IF B = {} THEN Get(Defaults, o)
                         ELSE Converted(o, (CHOOSE x \in B : \A y \in B : y.at <= x.at).text)
  BY <1>3 DEF FromIni
<1>5. CASE p = o /\ Convertible(o, t)
  <2>1. z \in B /\ \A y \in B : y = z \/ y \in S
    BY <1>0, <1>2, <1>3, <1>5
  <2>2. \A y \in B : y.at <= z.at /\ (z.at <= y.at => y = z)
    BY <1>2, <2>1 DEF UpTo
  <2>3. (CHOOSE x \in B : \A y \in B : y.at <= x.at) = z
    BY <2>1, <2>2
  <2>4. FromIni(o, T) = Converted(o, z.text)
    BY <1>4, <2>1, <2>3
  <2> QED
    BY <1>2, <1>5, <2>4
<1>6. CASE ~(p = o /\ Convertible(o, t))
  <2>1. B = A
    BY <1>0, <1>2, <1>3, <1>6
  <2> QED
    BY <1>4, <1>6, <2>1
<1> QED
  BY <1>5, <1>6

LEMMA NothingSet == \A o : FromIni(o, Settings(<<>>)) = Get(Defaults, o)
<1>1. Settings(<<>>) = {}
  <2>1. DOMAIN <<>> = {}
    OBVIOUS
  <2> QED
    BY <2>1 DEF Settings, Openers, Continued
<1> QED
  BY <1>1 DEF FromIni

LEMMA UnderGrows ==
  ASSUME NEW L, NEW l, NEW M, NEW n, n = Len(L), Grows(L, l, M, n)
  PROVE  UnderName(M) <=> Named(l) \/ (UnderName(L) /\ (EndsName(l) => l.indented))
<1>1. n \in Nat /\ Len(M) = n + 1 /\ M[n + 1] = l /\ \A i \in 1 .. n : M[i] = L[i]
  BY DEF Grows
<1> DEFINE Clear(K, j, m) == \A i \in (j + 1) .. m : EndsName(K[i]) => K[i].indented
<1>2. /\ UnderName(M) <=> \E j \in 1 .. (n + 1) : Named(M[j]) /\ Clear(M, j, n + 1)
      /\ UnderName(L) <=> \E j \in 1 .. n : Named(L[j]) /\ Clear(L, j, n)
  BY <1>1 DEF UnderName, Named
<1>3. Clear(M, n + 1, n + 1)
  BY <1>1
<1>4. ASSUME NEW j \in 1 .. n
      PROVE  Clear(M, j, n + 1) <=> Clear(L, j, n) /\ (EndsName(l) => l.indented)
  <2>1. \A i : i \in (j + 1) .. (n + 1) <=> i \in (j + 1) .. n \/ i = n + 1
    BY <1>1
  <2>2. \A i \in (j + 1) .. n : M[i] = L[i]
    BY <1>1
  <2> QED
    BY <1>1, <2>1, <2>2
<1>5. \A j : j \in 1 .. (n + 1) <=> j \in 1 .. n \/ j = n + 1
  BY <1>1
<1> HIDE DEF Clear
<1> QED
  BY <1>1, <1>2, <1>3, <1>4, <1>5

\* What ini_parse_stream makes of a line, with the section and the name it has in hand.
IsComment(l) == l.form = "comment"
AddsLine(l, prev) == l.form # "comment" /\ prev # "" /\ l.indented

LineTaken(l, sec, prev, newSec, newPrev) ==
  \/ IsComment(l) /\ newSec = sec /\ newPrev = prev
  \/ AddsLine(l, prev) /\ newSec = sec /\ newPrev = prev
  \/ l.form = "section" /\ ~AddsLine(l, prev) /\ newSec = l.section /\ newPrev = ""
  \/ l.form = "pair" /\ ~AddsLine(l, prev) /\ newSec = sec /\ newPrev = l.name
  \/ l.form = "bare" /\ ~AddsLine(l, prev) /\ newSec = sec /\ newPrev = prev

\* The setting of a line, if it makes one.
SettingOf(l, at, sec, prev) ==
  IF AddsLine(l, prev) THEN {Setting(at, <<sec, prev>>, l.text)}
  ELSE IF l.form = "pair" THEN {Setting(at, <<sec, l.name>>, l.value)}
  ELSE {}

\* What a line more does to the settings, and what is in hand after it.
Advanced(L, M, n, l, sec, prev, newSec, newPrev) ==
  /\ LinesAre(M, newSec, newPrev)
  /\ Settings(M) = Settings(L) \cup SettingOf(l, n + 1, sec, prev)

LEMMA LineStep ==
  ASSUME NEW L \in Seq(IniLines), NEW l \in IniLines, NEW M, M = Append(L, l), NEW n, n = Len(L),
         NEW sec, NEW prev, LinesAre(L, sec, prev), NEW newSec, NEW newPrev,
         LineTaken(l, sec, prev, newSec, newPrev)
  PROVE  Advanced(L, M, n, l, sec, prev, newSec, newPrev)
<1>1. Grows(L, l, M, n)
  BY LinesGrow
<1>2. /\ n \in Nat /\ M[n + 1] = l /\ \A i \in 1 .. n : M[i] = L[i]
      /\ Openers(L) \subseteq 1 .. n /\ Headings(L) \subseteq 1 .. n
  BY <1>1 DEF Grows
<1>3. n + 1 \in Continued(M) <=> AddsLine(l, prev)
  BY <1>1 DEF Grows, LinesAre, AddsLine
<1>4. UnderName(M) <=> Named(l) \/ (UnderName(L) /\ (EndsName(l) => l.indented))
  BY <1>1, UnderGrows
<1>5. /\ Openers(M) = Openers(L) \cup (IF l.form = "pair" /\ ~AddsLine(l, prev) THEN {n + 1} ELSE {})
      /\ Headings(M) = Headings(L) \cup (IF l.form = "section" /\ ~AddsLine(l, prev) THEN {n + 1} ELSE {})
  BY <1>1, <1>3 DEF Grows
<1>6. /\ prev # "" <=> UnderName(L)
      /\ prev # "" => Openers(L) # {} /\ prev = L[Greatest(Openers(L))].name
      /\ sec = SectionOf(L)
  BY DEF LinesAre
<1>7. /\ Openers(L) # {} => Greatest(Openers(L)) \in 1 .. n
      /\ Headings(L) # {} => Greatest(Headings(L)) \in 1 .. n
  BY <1>2, LastIs DEF Last
<1>8. /\ n + 1 \in Openers(M) => Greatest(Openers(M)) = n + 1
      /\ n + 1 \in Headings(M) => Greatest(Headings(M)) = n + 1
  <2>1. PICK m : m = n + 1
    OBVIOUS
  <2>2. m \in Nat /\ Openers(M) \in SUBSET (1 .. m) /\ Headings(M) \in SUBSET (1 .. m)
    BY <1>2, <1>5, <2>1
  <2> QED
    BY <2>1, <2>2, LastIs
<1>9. n + 1 \notin Openers(L) /\ n + 1 \notin Headings(L)
  BY <1>2
<1>10. newSec = SectionOf(M)
  <2>1. CASE l.form = "section" /\ ~AddsLine(l, prev)
    <3>1. n + 1 \in Headings(M)
      BY <1>5, <2>1
    <3>2. SectionOf(M) = l.section
      BY <1>2, <1>8, <3>1 DEF SectionOf
    <3> QED
      BY <2>1, <3>2 DEF LineTaken, IsComment
  <2>2. CASE ~(l.form = "section" /\ ~AddsLine(l, prev))
    <3>1. Headings(M) = Headings(L)
      BY <1>5, <2>2
    <3>2. SectionOf(M) = SectionOf(L)
      BY <1>2, <1>7, <3>1 DEF SectionOf
    <3> QED
      BY <1>6, <2>2, <3>2 DEF LineTaken
  <2> QED
    BY <2>1, <2>2
<1>11. /\ newPrev # "" <=> UnderName(M)
       /\ newPrev # "" => Openers(M) # {} /\ newPrev = M[Greatest(Openers(M))].name
  <2>1. CASE l.form = "section" /\ ~AddsLine(l, prev)
    <3>1. newPrev = ""
      BY <2>1 DEF LineTaken, IsComment
    <3>2. ~UnderName(M)
      BY <1>4, <1>6, <2>1 DEF Named, EndsName, AddsLine
    <3> QED
      BY <3>1, <3>2
  <2>2. CASE l.form = "pair" /\ ~AddsLine(l, prev)
    <3>1. newPrev = l.name
      BY <2>2 DEF LineTaken, IsComment
    <3>2. UnderName(M) <=> l.name # ""
      BY <1>4, <1>6, <2>2 DEF Named, EndsName, AddsLine
    <3>3. n + 1 \in Openers(M)
      BY <1>5, <2>2
    <3>4. Openers(M) # {} /\ M[Greatest(Openers(M))].name = l.name
      BY <1>2, <1>8, <3>3
    <3> QED
      BY <3>1, <3>2, <3>4
  <2>3. CASE AddsLine(l, prev) \/ l.form \notin {"section", "pair"}
    <3>1. newPrev = prev /\ Openers(M) = Openers(L)
      BY <1>5, <2>3 DEF LineTaken
    <3>2. UnderName(M) <=> UnderName(L)
      BY <1>4, <1>6, <2>3 DEF Named, EndsName, AddsLine
    <3>3. Openers(L) # {} => M[Greatest(Openers(M))].name = L[Greatest(Openers(L))].name
      BY <1>2, <1>7, <3>1
    <3> QED
      BY <1>6, <3>1, <3>2, <3>3
  <2> QED
    BY <2>1, <2>2, <2>3
<1>12. LinesAre(M, newSec, newPrev)
  BY <1>10, <1>11 DEF LinesAre
<1>13. SectionAt(M, n + 1) = sec
  <2>1. Before(n + 1, Headings(M)) = Headings(L)
    BY <1>2, <1>5 DEF Before
  <2> QED
    BY <1>2, <1>6, <1>7, <2>1 DEF SectionAt, SectionOf
<1>14. AddsLine(l, prev) => NameAt(M, n + 1) = prev /\ TextAt(M, n + 1) = l.text
  <2> SUFFICES ASSUME AddsLine(l, prev)
               PROVE  NameAt(M, n + 1) = prev /\ TextAt(M, n + 1) = l.text
    OBVIOUS
  <2>1. Before(n + 1, Openers(M)) = Openers(L)
    BY <1>2, <1>5 DEF Before
  <2>2. n + 1 \in Continued(M) /\ prev # ""
    BY <1>3 DEF AddsLine
  <2> QED
    BY <1>2, <1>6, <1>7, <2>1, <2>2 DEF NameAt, TextAt
<1>15. ~AddsLine(l, prev) => NameAt(M, n + 1) = l.name /\ TextAt(M, n + 1) = l.value
  BY <1>2, <1>3 DEF NameAt, TextAt
<1>16. n + 1 \in Openers(M) \cup Continued(M) <=> AddsLine(l, prev) \/ l.form = "pair"
  BY <1>3, <1>5, <1>9
<1>17. Settings(M) = Settings(L) \cup
          (IF n + 1 \in Openers(M) \cup Continued(M) THEN {SettingAt(M, n + 1)} ELSE {})
  BY SettingsGrow
<1>18. (IF n + 1 \in Openers(M) \cup Continued(M) THEN {SettingAt(M, n + 1)} ELSE {})
          = SettingOf(l, n + 1, sec, prev)
  BY <1>13, <1>14, <1>15, <1>16 DEF SettingAt, SettingOf
<1> QED
  BY <1>12, <1>17, <1>18 DEF Advanced

\* What a setting does to the texts of the ini structure, and not to those of the options.
LEMMA HandleTexts ==
  ASSUME OptionsInv, ini # NoOptions, DOMAIN heap = Owned(options) \cup Owned(ini),
         failures = 0, failures' = 0, NEW name, NEW text, Handle(name, text)
  PROVE  /\ \A q \in Registry :
              Text(ini', heap', q) = IF <<section, name>> = q /\ Convertible(q, text)
                                     THEN Converted(q, text) ELSE Text(ini, heap, q)
         /\ \A q \in Flags : Text(options, heap', q) = Text(options, heap, q)
<1>1. /\ Structured(ini) /\ Tagged(ini, FileOwners) /\ Tagged(options, Late)
  BY DEF OptionsInv, Valued
<1>2. PICK o : o = <<section, name>>
  OBVIOUS
<1>3. PICK r, k : r = ini' /\ k = heap'
  OBVIOUS
<1>4. Registry \subseteq Flags
  BY DEF Registry
<1>5. CASE o \in Registry /\ Type(o) = "string" /\ SetString(o, text)
  <2>1. o \in StringOptions
    BY <1>4, <1>5 DEF StringOptions
  <2>2. PICK b : b = <<"file", o[1], o[2]>>
    OBVIOUS
  <2>8. PICK x : x = Get(ini, o)
    OBVIOUS
  <2>3. k = Replaced(heap, x, b, text) /\ r = [ini EXCEPT ![o[1]][o[2]] = b]
    BY <1>3, <1>5, <2>2, <2>8 DEF SetString, Replaced
  <2>4. "file" \in FileOwners /\ Late \cap FileOwners = {}
    BY DEF FileOwners, Late
  <2>5. Wrote(r, k, ini, heap, o, text)
    <3>1. Owned(ini) \subseteq DOMAIN heap
      OBVIOUS
    <3> QED
      BY <1>1, <2>1, <2>2, <2>3, <2>4, <2>8, <3>1, WriteString
  <2>6. SameTexts(options, k, options, heap)
    <3>1. Owned(options) \subseteq DOMAIN heap
      OBVIOUS
    <3>2. PICK opts, more, h : opts = options /\ more = ini /\ h = heap
      OBVIOUS
    <3>3. SameTexts(opts, k, opts, h)
      BY <1>1, <2>1, <2>2, <2>3, <2>4, <2>8, <3>1, <3>2, OthersStay
    <3> QED
      BY <3>2, <3>3
  <2>7. Convertible(o, text) /\ Converted(o, text) = text
    <3>1. ~(o[2] = "mode") /\ Type(o) # "bool"
      BY <1>5, TypeIs DEF Strings
    <3> QED
      BY <1>5, <3>1 DEF Convertible, Converted
  <2> QED
    BY <1>2, <1>3, <1>4, <2>5, <2>6, <2>7 DEF Wrote, SameTexts
<1>6. CASE o \in Registry /\ Type(o) # "string" /\ SetNumber(o, text)
  <2>1. k = heap /\ o \in Flags
    BY <1>3, <1>4, <1>6 DEF SetNumber
  <2>2. ASSUME Convertible(o, text)
        PROVE  r = [ini EXCEPT ![o[1]][o[2]] = Converted(o, text)]
    <3>1. CASE o[2] = "mode"
      <4>1. Type(o) # "bool"
        BY <3>1, TypeIs DEF Bools
      <4>2. Converted(o, text) = IniMode(text)
        BY <1>6, <3>1, <4>1 DEF Converted
      <4> QED
        BY <1>3, <1>6, <3>1, <4>2 DEF SetNumber
    <3>2. CASE o[2] # "mode" /\ Type(o) = "bool"
      <4>1. Converted(o, text) = (text \in {"true", "1"})
        BY <3>2 DEF Converted
      <4> QED
        BY <1>3, <1>6, <3>2, <4>1 DEF SetNumber
    <3>3. CASE o[2] # "mode" /\ Type(o) # "bool"
      <4>1. Stores(Type(o), text) /\ Converted(o, text) = Value(Type(o), text)
        BY <1>6, <2>2, <3>3 DEF Convertible, Converted
      <4> QED
        BY <1>3, <1>6, <3>3, <4>1 DEF SetNumber
    <3> QED
      BY <3>1, <3>2, <3>3
  <2>3. ASSUME ~Convertible(o, text)
        PROVE  r = ini
    BY <1>3, <1>6, <2>3 DEF Convertible, SetNumber
  <2>4. CASE Convertible(o, text)
    <3>1. PICK v : v = Converted(o, text)
      OBVIOUS
    <3>2. r = [ini EXCEPT ![o[1]][o[2]] = v]
      BY <2>2, <2>4, <3>1
    <3>3. Wrote(r, heap, ini, heap, o, v)
      <4>1. Structured(ini)
        BY <1>1
      <4> QED
        BY <1>6, <2>1, <3>2, <4>1, WriteOther
    <3> QED
      BY <1>2, <1>3, <1>4, <2>1, <2>4, <3>1, <3>3 DEF Wrote
  <2>5. CASE ~Convertible(o, text)
    BY <1>2, <1>3, <2>1, <2>3, <2>5
  <2> QED
    BY <2>4, <2>5
<1>7. CASE o \notin Registry /\ UNCHANGED <<ini, heap, failures>>
  BY <1>2, <1>3, <1>7
<1>8. \/ o \in Registry /\ Type(o) = "string" /\ SetString(o, text)
      \/ o \in Registry /\ Type(o) # "string" /\ SetNumber(o, text)
      \/ o \notin Registry /\ UNCHANGED <<ini, heap, failures>>
  BY <1>2 DEF Handle
<1> QED
  BY <1>5, <1>6, <1>7, <1>8

-----------------------------------------------------------------------------
\* The ini structure has, of every option, the value of the last line that sets it.
IniSet(opts, h, L) == \A q \in Registry : Text(opts, h, q) = FromIni(q, Settings(L))

\* Without an ini file there are no lines; an option's value is told from the lines so far.
LinesInv ==
  /\ lines \in Seq(IniLines) /\ LinesAre(lines, section, prevName)
  /\ status = "loading" /\ ini = NoOptions => lines = <<>>
  /\ ini # NoOptions /\ failures = 0 => IniSet(ini, heap, lines)

LEMMA ReadLineStep ==
  ASSUME OptionsInv, LinesInv, DOMAIN heap = Owned(options) \cup Owned(ini), failures \in Nat,
         ReadLine
  PROVE  /\ lines' \in Seq(IniLines) /\ LinesAre(lines', section', prevName')
         /\ failures' = 0 =>
              /\ IniSet(ini', heap', lines')
              /\ \A q \in Flags : Text(options', heap', q) = Text(options, heap, q)
<1>1. PICK l \in IniLines :
        /\ Comment(l) \/ Continuation(l) \/ SectionLine(l) \/ PairLine(l) \/ Malformed(l)
        /\ lines' = Append(lines, l)
  BY DEF ReadLine
<1>2. options' = options /\ ini # NoOptions /\ lines \in Seq(IniLines)
  BY DEF ReadLine, Reading, LinesInv
<1>3. PICK M, n, S : M = Append(lines, l) /\ n = Len(lines) /\ S = Settings(lines)
  OBVIOUS
<1>4. /\ n \in Nat /\ UpTo(S, n)
  BY <1>2, <1>3, SettingsGrow
<1>9. PICK newSec, newPrev : newSec = section' /\ newPrev = prevName'
  OBVIOUS
<1>5. LineTaken(l, section, prevName, newSec, newPrev)
  BY <1>1, <1>9 DEF LineTaken, IsComment, AddsLine, Continues, Comment, Continuation, SectionLine, PairLine,
              Malformed
<1>6. /\ LinesAre(M, newSec, newPrev)
      /\ Settings(M) = S \cup SettingOf(l, n + 1, section, prevName)
  <2>1. LinesAre(lines, section, prevName)
    BY DEF LinesInv
  <2>2. PICK L, sec, prev : L = lines /\ sec = section /\ prev = prevName
    OBVIOUS
  <2>3. Advanced(L, M, n, l, sec, prev, newSec, newPrev)
    <3>1. L \in Seq(IniLines) /\ M = Append(L, l) /\ n = Len(L)
      BY <1>2, <1>3, <2>2
    <3>2. LinesAre(L, sec, prev)
      BY <2>1, <2>2
    <3>3. LineTaken(l, sec, prev, newSec, newPrev)
      BY <1>5, <2>2
    <3> QED
      BY <3>1, <3>2, <3>3, LineStep
  <2> QED
    BY <1>3, <2>2, <2>3 DEF Advanced
<1>7. M \in Seq(IniLines) /\ lines' = M
  BY <1>1, <1>2, <1>3
<1>8. ASSUME failures' = 0
      PROVE  /\ IniSet(ini', heap', M)
             /\ \A q \in Flags : Text(options, heap', q) = Text(options, heap, q)
  <2>1. failures = 0
    <3>1. failures' = failures \/ failures' = failures + 1
      <4>1. \A name, text : Handle(name, text) => failures' = failures \/ failures' = failures + 1
        BY DEF Handle, SetString, SetNumber
      <4> QED
        BY <1>1, <4>1 DEF Comment, Continuation, SectionLine, PairLine, Malformed
    <3> QED
      BY <1>8, <3>1
  <2>2. \A q \in Registry : Text(ini, heap, q) = FromIni(q, S)
    BY <1>2, <1>3, <2>1 DEF LinesInv, IniSet
  \* A line that sets something.
  <2>3. ASSUME NEW name, NEW text, Handle(name, text),
               SettingOf(l, n + 1, section, prevName) =
                 {Setting(n + 1, <<section, name>>, text)}
        PROVE  /\ IniSet(ini', heap', M)
               /\ \A q \in Flags : Text(options, heap', q) = Text(options, heap, q)
    <3>1. PICK r, k, p : r = ini' /\ k = heap' /\ p = <<section, name>>
      OBVIOUS
    <3>2. /\ \A q \in Registry :
               Text(r, k, q) = IF p = q /\ Convertible(q, text)
                               THEN Converted(q, text) ELSE Text(ini, heap, q)
          /\ \A q \in Flags : Text(options, k, q) = Text(options, heap, q)
      BY <1>2, <1>8, <2>1, <2>3, <3>1, HandleTexts
    <3>3. Settings(M) = S \cup {Setting(n + 1, p, text)}
      BY <1>6, <2>3, <3>1
    <3>4. ASSUME NEW q
          PROVE  FromIni(q, Settings(M)) = IF p = q /\ Convertible(q, text)
                                           THEN Converted(q, text) ELSE FromIni(q, S)
      <4>1. PICK T : T = Settings(M)
        OBVIOUS
      <4> QED
        BY <1>4, <3>3, <4>1, FromIniGrows
    <3>5. \A q \in Registry : Text(r, k, q) = FromIni(q, Settings(M))
      BY <2>2, <3>2, <3>4
    <3> QED
      BY <3>1, <3>2, <3>5 DEF IniSet
  <2>4. CASE Continuation(l)
    <3>1. Handle(prevName, l.text) /\ AddsLine(l, prevName)
      BY <2>4 DEF Continuation, Continues, AddsLine
    <3> QED
      BY <2>3, <3>1 DEF SettingOf
  <2>5. CASE PairLine(l)
    <3>1. Handle(l.name, l.value) /\ ~AddsLine(l, prevName) /\ l.form = "pair"
      BY <2>5 DEF PairLine, Continues, AddsLine
    <3> QED
      BY <2>3, <3>1 DEF SettingOf
  <2>6. CASE Comment(l) \/ SectionLine(l) \/ Malformed(l)
    <3>1. ini' = ini /\ heap' = heap /\ ~AddsLine(l, prevName) /\ l.form # "pair"
      BY <2>6 DEF Comment, SectionLine, Malformed, Continues, AddsLine
    <3>2. Settings(M) = S
      BY <1>6, <3>1 DEF SettingOf
    <3> QED
      BY <2>2, <3>1, <3>2 DEF IniSet
  <2> QED
    BY <1>1, <2>4, <2>5, <2>6
<1> QED
  BY <1>2, <1>6, <1>7, <1>8, <1>9

-----------------------------------------------------------------------------
\* A new structure has the default texts when no copy failed.
NewTexts(opts, h) == \A o \in Flags : Text(opts, h, o) = Get(Defaults, o)

LEMMA CreatedTextsAre ==
  ASSUME NEW who, NEW lost, lost = {}, NEW h, NEW r, r = Created(who, lost),
         \A b \in Owned(r) : h[b] = CreatedTexts(who, lost)[b]
  PROVE  NewTexts(r, h)
<1>1. /\ DOMAIN r = DOMAIN Defaults
      /\ \A s \in DOMAIN Defaults :
           r[s] = [f \in DOMAIN Defaults[s] |->
                     IF f \notin Strings THEN Defaults[s][f]
                     ELSE IF Defaults[s][f] = NoText \/ <<s, f>> \in lost THEN Null
                     ELSE <<who, s, f>>]
  BY DEF Created
<1>2. ASSUME NEW o \in Flags
      PROVE  Get(r, o) = IF o[2] \notin Strings THEN Get(Defaults, o)
                         ELSE IF Get(Defaults, o) = NoText \/ o \in lost THEN Null
                         ELSE <<who, o[1], o[2]>>
  <2>1. PICK s, f : s = o[1] /\ f = o[2]
    OBVIOUS
  <2>2. o = <<s, f>> /\ s \in DOMAIN Defaults /\ f \in DOMAIN Defaults[s]
    BY <2>1, FlagIs
  <2>3. r[s][f] = IF f \notin Strings THEN Defaults[s][f]
                  ELSE IF Defaults[s][f] = NoText \/ <<s, f>> \in lost THEN Null
                  ELSE <<who, s, f>>
    BY <1>1, <2>2
  <2>4. Get(r, o) = r[s][f] /\ Get(Defaults, o) = Defaults[s][f]
    BY <2>1 DEF Get
  <2> QED
    BY <2>1, <2>2, <2>3, <2>4
<1>3. ASSUME NEW o \in Flags
      PROVE  Text(r, h, o) = Get(Defaults, o)
  <2>1. CASE o[2] \notin Strings
    <3>1. Type(o) # "string"
      BY <2>1, TypeIs
    <3> QED
      BY <1>2, <2>1, <3>1 DEF Text
  <2>2. CASE o[2] \in Strings /\ Get(Defaults, o) = NoText
    <3>1. Type(o) = "string" /\ Get(r, o) = Null
      BY <1>2, <2>2, TypeIs
    <3> QED
      BY <2>2, <3>1 DEF Text
  <2>3. CASE o[2] \in Strings /\ Get(Defaults, o) # NoText
    <3>1. PICK b : b = <<who, o[1], o[2]>>
      OBVIOUS
    <3>2. Type(o) = "string" /\ Get(r, o) = b /\ b # Null
      BY <1>2, <2>3, <3>1, TypeIs DEF Null
    <3>3. b \in Owned(r)
      BY <3>2, OwnedIs DEF StringOptions
    <3>4. CreatedTexts(who, lost)[b] = Defaults[b[2]][b[3]]
      BY <3>3 DEF CreatedTexts
    <3>5. b[2] = o[1] /\ b[3] = o[2]
      BY <3>1
    <3>6. h[b] = Get(Defaults, o)
      BY <3>3, <3>4, <3>5 DEF Get
    <3> QED
      BY <3>2, <3>6 DEF Text
  <2> QED
    BY <2>1, <2>2, <2>3
<1> QED
  BY <1>3 DEF NewTexts

-----------------------------------------------------------------------------
\* Where an option stands on the line a, and the value it has from there.
GivenIn(a, d, o) == {i \in DOMAIN a : IsFlag(d, a[i]) /\ Names[a[i]] = o}

ValueAt(a, o, i) ==
  IF Type(o) = "bool" THEN TRUE
  ELSE IF Type(o) = "string" THEN a[i + 1] ELSE Value(Type(o), a[i + 1])

\* The option o has the value v from the line, where it is given once.
Said(a, d, o, v) ==
  \E i \in DOMAIN a :
    /\ GivenIn(a, d, o) = {i} /\ v = ValueAt(a, o, i)
    /\ Type(o) # "bool" => i + 1 \in DOMAIN a

Told(a, d, V, opts, h) ==
  \A o \in Flags : IF o \in V THEN Said(a, d, o, Text(opts, h, o))
                   ELSE GivenIn(a, d, o) = {} /\ Text(opts, h, o) = Get(Defaults, o)

\* The words of a flag are read, or one that is none.
GrownBy(a, b, d, t, n, o) ==
  GivenIn(b, d, o) = GivenIn(a, d, o) \cup (IF IsFlag(d, t) /\ Names[t] = o THEN {n + 1} ELSE {})

LEMMA GivenGrows ==
  ASSUME NEW a \in Seq(Words), NEW d, NEW t, NEW w \in Seq(Words),
         w = <<t>> \/ \E v : w = <<t, v>> /\ ~IsFlag(d, v),
         NEW b, b = a \o w, NEW n, n = Len(a), NEW o
  PROVE  GrownBy(a, b, d, t, n, o)
<1>1. Len(w) \in {1, 2} /\ w[1] = t /\ (Len(w) = 2 => ~IsFlag(d, w[2]))
  OBVIOUS
<1>2. /\ n \in Nat /\ Goes(a, b) /\ Len(b) = n + Len(w) /\ b[n + 1] = t
      /\ Len(w) = 2 => b[n + 2] = w[2]
  BY <1>1, WordsRead
<1>3. DOMAIN a = 1 .. n /\ DOMAIN b = 1 .. Len(b) /\ \A i \in 1 .. n : b[i] = a[i]
  BY <1>2 DEF Goes
<1>4. Len(w) = 1 \/ Len(w) = 2
  BY <1>1
<1>5. \A i : i \in DOMAIN b <=> i \in 1 .. n \/ i = n + 1 \/ (Len(w) = 2 /\ i = n + 2)
  <2>1. CASE Len(w) = 1
    BY <1>2, <1>3, <2>1
  <2>2. CASE Len(w) = 2
    BY <1>2, <1>3, <2>2
  <2> QED
    BY <1>4, <2>1, <2>2
<1>6. ASSUME NEW i
      PROVE  i \in GivenIn(b, d, o) <=>
               i \in GivenIn(a, d, o) \/ (i = n + 1 /\ IsFlag(d, t) /\ Names[t] = o)
  <2>1. i \in GivenIn(b, d, o) <=> i \in DOMAIN b /\ IsFlag(d, b[i]) /\ Names[b[i]] = o
    BY DEF GivenIn
  <2>2. i \in GivenIn(a, d, o) <=> i \in 1 .. n /\ IsFlag(d, a[i]) /\ Names[a[i]] = o
    BY <1>3 DEF GivenIn
  <2>3. n + 1 # n + 2
    BY <1>2
  <2> QED
    BY <1>1, <1>2, <1>3, <1>5, <2>1, <2>2
<1>7. n + 1 \notin GivenIn(a, d, o)
  BY <1>2, <1>3 DEF GivenIn
<1> QED
  BY <1>6 DEF GrownBy

\* What was said is still said when more words are read that do not name the option.
LEMMA SaidStill ==
  ASSUME NEW a \in Seq(Words), NEW b, Goes(a, b), NEW d, NEW o, NEW v, Said(a, d, o, v),
         GivenIn(b, d, o) = GivenIn(a, d, o)
  PROVE  Said(b, d, o, v)
<1>1. DOMAIN a \subseteq DOMAIN b /\ \A i \in DOMAIN a : b[i] = a[i]
  BY DEF Goes
<1>2. PICK i \in DOMAIN a : /\ GivenIn(a, d, o) = {i} /\ v = ValueAt(a, o, i)
                            /\ Type(o) # "bool" => i + 1 \in DOMAIN a
  BY DEF Said
<1>3. v = ValueAt(b, o, i)
  BY <1>1, <1>2 DEF ValueAt
<1> QED
  BY <1>1, <1>2, <1>3 DEF Said

\* A flag is read for the first time, with its value if it takes one.
LEMMA ToldGrows ==
  ASSUME NEW a \in Seq(Words), NEW d, NEW t, IsFlag(d, t), NEW w \in Seq(Words), NEW x,
         \/ w = <<t>> /\ Type(Names[t]) = "bool" /\ x = TRUE
         \/ \E v : /\ w = <<t, v>> /\ ~IsFlag(d, v) /\ Type(Names[t]) # "bool"
                   /\ x = IF Type(Names[t]) = "string" THEN v ELSE Value(Type(Names[t]), v),
         NEW b, b = a \o w, NEW V, NEW o, o = Names[t], o \notin V, o \in Flags,
         NEW opts, NEW h, Told(a, d, V, opts, h),
         NEW r, NEW k, Wrote(r, k, opts, h, o, x)
  PROVE  Told(b, d, V \cup {o}, r, k)
<1>1. PICK n : n = Len(a)
  OBVIOUS
<1>2. Len(w) \in {1, 2} /\ w[1] = t /\ (w = <<t>> \/ \E v : w = <<t, v>> /\ ~IsFlag(d, v))
  OBVIOUS
<1>3. /\ n \in Nat /\ Goes(a, b) /\ Len(b) = n + Len(w) /\ b[n + 1] = t
      /\ Len(w) = 2 => b[n + 2] = w[2]
  BY <1>1, <1>2, WordsRead
<1>4. ASSUME NEW q
      PROVE  GrownBy(a, b, d, t, n, q)
  BY <1>1, <1>2, GivenGrows
<1>5. ASSUME NEW q \in Flags, q # o
      PROVE  IF q \in V \cup {o} THEN Said(b, d, q, Text(r, k, q))
             ELSE GivenIn(b, d, q) = {} /\ Text(r, k, q) = Get(Defaults, q)
  <2>1. GivenIn(b, d, q) = GivenIn(a, d, q)
    BY <1>4, <1>5 DEF GrownBy
  <2>2. PICK v : v = Text(opts, h, q) /\ v = Text(r, k, q)
    BY <1>5 DEF Wrote
  <2>3. q \in V => Said(a, d, q, v)
    BY <2>2 DEF Told
  <2>4. q \in V => Said(b, d, q, v)
    BY <1>3, <2>1, <2>3, SaidStill
  <2>5. q \notin V => GivenIn(a, d, q) = {} /\ v = Get(Defaults, q)
    BY <2>2 DEF Told
  <2> QED
    BY <1>5, <2>1, <2>2, <2>4, <2>5
<1>6. Said(b, d, o, Text(r, k, o))
  <2>1. Text(r, k, o) = x
    BY DEF Wrote
  <2>2. GivenIn(b, d, o) = {n + 1}
    <3>1. GivenIn(a, d, o) = {}
      BY DEF Told
    <3> QED
      BY <1>4, <3>1 DEF GrownBy
  <2>3. DOMAIN b = 1 .. Len(b) /\ Len(b) = n + Len(w)
    BY <1>3 DEF Goes
  <2>4. CASE w = <<t>> /\ Type(o) = "bool" /\ x = TRUE
    <3>1. Len(w) = 1
      BY <2>4
    <3>2. n + 1 \in DOMAIN b
      BY <1>3, <2>3, <3>1
    <3> QED
      BY <2>1, <2>2, <2>4, <3>2 DEF Said, ValueAt
  <2>5. ASSUME NEW v, w = <<t, v>>, Type(o) # "bool",
               x = IF Type(o) = "string" THEN v ELSE Value(Type(o), v)
        PROVE  Said(b, d, o, x)
    <3>1. Len(w) = 2 /\ w[2] = v
      BY <2>5
    <3>2. PICK i : i = n + 1
      OBVIOUS
    <3>3. i \in DOMAIN b /\ i + 1 \in DOMAIN b /\ i + 1 = n + 2
      BY <1>3, <2>3, <3>1, <3>2
    <3>4. b[i + 1] = v
      BY <1>3, <3>1, <3>3
    <3>5. x = ValueAt(b, o, i)
      BY <2>5, <3>4 DEF ValueAt
    <3> QED
      BY <2>2, <3>2, <3>3, <3>5 DEF Said
  <2> QED
    BY <2>1, <2>4, <2>5
<1> QED
  BY <1>5, <1>6 DEF Told

-----------------------------------------------------------------------------
\* The value an option ends with, told from the line a and the ini lines L.
Chosen(a, d, L, o) ==
  IF GivenIn(a, d, o) # {} THEN ValueAt(a, o, Greatest(GivenIn(a, d, o)))
  ELSE FromIni(o, Settings(L))

Filled(o, v) == IF o = ThreadsOption /\ v = 0 THEN MaxThreads ELSE v

Ordered(a, d, L, opts, h) == \A o \in Registry : Text(opts, h, o) = Filled(o, Chosen(a, d, L, o))

LEMMA OrderedIs ==
  SourcesInOrder <=>
    (stage = "load" /\ status \notin {"loading", "HELP"} /\ parsed = "SUCCESS" /\ failures = 0 =>
       Ordered(argv, defined, lines, options, heap))
<1>1. ASSUME NEW o
      PROVE  /\ Given(o) = GivenIn(argv, defined, o)
             /\ FromArguments(o) = ValueAt(argv, o, Greatest(GivenIn(argv, defined, o)))
             /\ Shown(o) = Text(options, heap, o)
  <2>1. Given(o) = GivenIn(argv, defined, o)
    BY DEF Given, GivenIn, Known, IsFlag
  <2>2. Shown(o) = Text(options, heap, o)
    BY DEF Shown, Text
  <2> QED
    BY <2>1, <2>2 DEF FromArguments, ValueAt
<1>2. ASSUME NEW o
      PROVE  (IF Given(o) # {} THEN FromArguments(o) ELSE FromIni(o, Settings(lines)))
               = Chosen(argv, defined, lines, o)
  BY <1>1 DEF Chosen
<1> QED
  BY <1>1, <1>2 DEF SourcesInOrder, Ordered, Filled, ThreadsOption

LEMMA OrderedNext ==
  ASSUME stage' = "load" /\ status' \notin {"loading", "HELP"} /\ parsed' = "SUCCESS" /\ failures' = 0 =>
           Ordered(argv', defined', lines', options', heap')
  PROVE  SourcesInOrder'
<1>1. (SourcesInOrder <=>
        (stage = "load" /\ status \notin {"loading", "HELP"} /\ parsed = "SUCCESS" /\ failures = 0 =>
           Ordered(argv, defined, lines, options, heap)))'
  BY OrderedIs, PTL
<1> QED
  BY <1>1 DEF Ordered, Chosen, GivenIn

\* An option that was told from the line has the value that comes first.
LEMMA SaidIsChosen ==
  ASSUME NEW a \in Seq(Words), NEW d, NEW L, NEW o, NEW v, Said(a, d, o, v)
  PROVE  v = Chosen(a, d, L, o)
<1>1. PICK i \in DOMAIN a : GivenIn(a, d, o) = {i} /\ v = ValueAt(a, o, i)
  BY DEF Said
<1>2. i \in Int
  OBVIOUS
<1>3. PICK S : S = {i}
  OBVIOUS
<1>4. S \in SUBSET Int /\ i \in S /\ \A j \in S : j <= i
  BY <1>2, <1>3
<1>5. Greatest(S) = i
  BY <1>4, GreatestIs
<1> QED
  BY <1>1, <1>3, <1>5 DEF Chosen

\* The merge: the visited options keep their texts, the others get those of the ini file.
Rest == DOMAIN heap \ ({Get(options, o) : o \in Unvisited \cap StringOptions} \cup Owned(ini))

LEMMA MergedTexts ==
  ASSUME OptionsInv, status = "loading", ini # NoOptions,
         DOMAIN heap = Owned(options) \cup Owned(ini), NEW lost, lost = {},
         NEW m, m = Merged(lost), NEW k,
         k = [b \in Rest \cup (Owned(m) \ DOMAIN heap) |->
                IF b \in Rest THEN heap[b] ELSE heap[ini[b[2]][b[3]]]]
  PROVE  \A o \in Registry : Text(m, k, o) = IF o \in visited THEN Text(options, heap, o)
                                             ELSE Text(ini, heap, o)
<1>1. /\ Valued(options) /\ Tagged(options, Early) /\ Tagged(options, Late)
      /\ Valued(ini) /\ Tagged(ini, FileOwners)
  BY DEF OptionsInv
<1>2. \A o \in Flags :
        Get(m, o) = IF o \notin Unvisited THEN Get(options, o)
                    ELSE IF Type(o) # "string" THEN Get(ini, o)
                    ELSE IF Get(ini, o) = Null THEN Null
                    ELSE <<"copy", o[1], o[2]>>
  BY <1>1, MergedIs
<1>3. Owned(options) \cap Owned(ini) = {}
  BY <1>1, FileApart
<1>4. ASSUME NEW o \in Registry
      PROVE  Text(m, k, o) = IF o \in visited THEN Text(options, heap, o) ELSE Text(ini, heap, o)
  <2>1. o \in Flags /\ (o \in Unvisited <=> o \notin visited)
    BY DEF Registry, Unvisited
  <2>2. CASE o \in visited
    <3>1. Get(m, o) = Get(options, o)
      BY <1>2, <2>1, <2>2
    <3>2. ASSUME Type(o) = "string", Get(options, o) # Null
          PROVE  k[Get(options, o)] = heap[Get(options, o)]
      <4>1. PICK b : b = Get(options, o)
        OBVIOUS
      <4>2. o \in StringOptions
        BY <2>1, <3>2 DEF StringOptions
      <4>3. b \in Owned(options)
        BY <3>2, <4>1, <4>2, OwnedIs
      <4>4. b \notin {Get(options, q) : q \in Unvisited \cap StringOptions}
        <5> SUFFICES ASSUME NEW q \in Unvisited \cap StringOptions, b = Get(options, q)
                     PROVE  FALSE
          OBVIOUS
        <5>1. q = o
          BY <1>1, <3>2, <4>1, <4>2, Distinct
        <5> QED
          BY <2>1, <2>2, <5>1
      <4>5. b \in Rest
        BY <1>3, <4>3, <4>4 DEF Rest
      <4> QED
        BY <4>1, <4>5
    <3> QED
      BY <2>2, <3>1, <3>2, TextStays
  <2>3. CASE o \notin visited /\ Type(o) # "string"
    BY <1>2, <2>1, <2>3 DEF Text
  <2>4. CASE o \notin visited /\ Type(o) = "string" /\ Get(ini, o) = Null
    BY <1>2, <2>1, <2>4 DEF Text
  <2>5. CASE o \notin visited /\ Type(o) = "string" /\ Get(ini, o) # Null
    <3>1. PICK c : c = <<"copy", o[1], o[2]>>
      OBVIOUS
    <3>2. Get(m, o) = c /\ c # Null /\ o \in StringOptions
      BY <1>2, <2>1, <2>5, <3>1 DEF Null, StringOptions
    <3>3. c \notin Owned(options)
      <4> SUFFICES ASSUME c \in Owned(options)
                   PROVE  FALSE
        OBVIOUS
      <4>1. PICK q \in StringOptions : c = Get(options, q)
        BY OwnedIs
      <4>2. PICK w \in Early : c = <<w, q[1], q[2]>>
        BY <1>1, <3>2, <4>1 DEF Tagged
      <4>3. w = "copy"
        BY <3>1, <4>2
      <4> QED
        BY <4>3 DEF Early
    <3>4. c \notin Owned(ini)
      <4> SUFFICES ASSUME c \in Owned(ini)
                   PROVE  FALSE
        OBVIOUS
      <4>1. PICK q \in StringOptions : c = Get(ini, q)
        BY OwnedIs
      <4>2. PICK w \in FileOwners : c = <<w, q[1], q[2]>>
        BY <1>1, <3>2, <4>1 DEF Tagged
      <4>3. w = "copy"
        BY <3>1, <4>2
      <4> QED
        BY <4>3 DEF FileOwners
    <3>5. c \in Owned(m) \ DOMAIN heap /\ c \notin Rest
      <4>1. c \in Owned(m)
        BY <3>2, OwnedIs
      <4> QED
        BY <3>3, <3>4, <4>1 DEF Rest
    <3>6. k[c] = heap[ini[c[2]][c[3]]]
      BY <3>5
    <3>7. k[c] = heap[Get(ini, o)]
      <4>1. c[2] = o[1] /\ c[3] = o[2]
        BY <3>1
      <4> QED
        BY <3>6, <4>1 DEF Get
    <3> QED
      BY <2>5, <3>2, <3>7 DEF Text
  <2> QED
    BY <2>2, <2>3, <2>4, <2>5
<1> QED
  BY <1>4

\* The number of threads is filled in last.
LEMMA ThreadsText ==
  ASSUME NEW opts, Valued(opts), NEW W, Tagged(opts, W), NEW h, NEW o \in Flags,
         NEW r, r = WithThreads(opts)
  PROVE  Text(r, h, o) = Filled(o, Text(opts, h, o))
<1>1. CASE o # ThreadsOption
  <2>1. Get(r, o) = Get(opts, o)
    BY <1>1, ThreadsKeep
  <2> QED
    BY <1>1, <2>1 DEF Text, Filled
<1>2. CASE o = ThreadsOption
  <2>1. PICK v : v = IF Get(opts, o) = 0 THEN MaxThreads ELSE Get(opts, o)
    OBVIOUS
  <2>2. Type(o) = "uint" /\ r = [opts EXCEPT ![o[1]][o[2]] = v]
    BY <1>2, <2>1, ThreadsIs
  <2>3. IsPut(r, opts, o, v)
    <3>1. Structured(opts)
      BY DEF Valued
    <3>2. PICK p : p = [opts EXCEPT ![o[1]][o[2]] = v]
      OBVIOUS
    <3>3. IsPut(p, opts, o, v)
      BY <3>1, <3>2, PutIs
    <3> QED
      BY <2>2, <3>2, <3>3
  <2>4. Get(r, o) = v
    BY <2>3 DEF IsPut
  <2> QED
    BY <1>2, <2>1, <2>2, <2>4 DEF Text, Filled
<1> QED
  BY <1>1, <1>2

\* What the load ends with, the texts before the threads are filled in being these.
LEMMA LoadEnds ==
  ASSUME NEW a \in Seq(Words), NEW d, NEW V, NEW L, NEW opts, NEW h, Told(a, d, V, opts, h),
         NEW m, Valued(m), NEW W, Tagged(m, W), NEW k,
         \A o \in Registry : Text(m, k, o) = IF o \in V THEN Text(opts, h, o)
                                             ELSE FromIni(o, Settings(L)),
         NEW r, r = WithThreads(m)
  PROVE  Ordered(a, d, L, r, k)
<1>1. ASSUME NEW o \in Registry
      PROVE  Text(r, k, o) = Filled(o, Chosen(a, d, L, o))
  <2>1. o \in Flags
    BY DEF Registry
  <2>2. Text(r, k, o) = Filled(o, Text(m, k, o))
    BY <2>1, ThreadsText
  <2>3. Text(m, k, o) = Chosen(a, d, L, o)
    <3>1. CASE o \in V
      <4>1. PICK v : v = Text(opts, h, o)
        OBVIOUS
      <4>2. Said(a, d, o, v)
        BY <2>1, <3>1, <4>1 DEF Told
      <4>3. v = Chosen(a, d, L, o)
        BY <4>2, SaidIsChosen
      <4> QED
        BY <3>1, <4>1, <4>3
    <3>2. CASE o \notin V
      <4>1. GivenIn(a, d, o) = {}
        BY <2>1, <3>2 DEF Told
      <4> QED
        BY <3>2, <4>1 DEF Chosen
    <3> QED
      BY <3>1, <3>2
  <2> QED
    BY <2>2, <2>3
<1> QED
  BY <1>1 DEF Ordered

-----------------------------------------------------------------------------
\* While the options are loaded, the visited ones are those told from the line.
ArgsInv ==
  status = "loading" /\ failures = 0 /\ parsed \in {"new", "reading", "SUCCESS"} =>
    Told(argv, defined, visited, options, heap)

\* A flag is read with its value: what is said grows by it.
LEMMA FlagTold ==
  ASSUME LineInv, Parsing, Told(argv, defined, visited, options, heap), defined' = defined,
         NEW t \in Tokens, Known(t), Names[t] \notin visited,
         visited' = visited \cup {Names[t]}, NEW x,
         \/ argv' = argv \o <<t>> /\ Type(Names[t]) = "bool" /\ x = TRUE
         \/ \E v \in Tokens :
              /\ argv' = argv \o <<t, v>> /\ ~Known(v) /\ Type(Names[t]) # "bool"
              /\ x = IF Type(Names[t]) = "string" THEN v ELSE Value(Type(Names[t]), v),
         Wrote(options', heap', options, heap, Names[t], x)
  PROVE  Told(argv', defined', visited', options', heap')
<1>1. argv \in Seq(Words)
  BY UnderWay
<1>2. PICK w \in Seq(Words) :
        /\ argv' = argv \o w
        /\ \/ w = <<t>> /\ Type(Names[t]) = "bool" /\ x = TRUE
           \/ \E v : /\ w = <<t, v>> /\ ~IsFlag(defined, v) /\ Type(Names[t]) # "bool"
                     /\ x = IF Type(Names[t]) = "string" THEN v ELSE Value(Type(Names[t]), v)
  <2>1. CASE argv' = argv \o <<t>> /\ Type(Names[t]) = "bool" /\ x = TRUE
    <3>1. <<t>> \in Seq(Words)
      BY DEF Words
    <3> QED
      BY <2>1, <3>1
  <2>2. ASSUME NEW v \in Tokens, argv' = argv \o <<t, v>>, ~Known(v), Type(Names[t]) # "bool",
               x = IF Type(Names[t]) = "string" THEN v ELSE Value(Type(Names[t]), v)
        PROVE  \E w \in Seq(Words) :
                 /\ argv' = argv \o w
                 /\ \E u : /\ w = <<t, u>> /\ ~IsFlag(defined, u) /\ Type(Names[t]) # "bool"
                           /\ x = IF Type(Names[t]) = "string" THEN u ELSE Value(Type(Names[t]), u)
    <3>1. <<t, v>> \in Seq(Words) /\ ~IsFlag(defined, v)
      BY <2>2 DEF Words, Known, IsFlag
    <3> QED
      BY <2>2, <3>1
  <2> QED
    BY <2>1, <2>2
<1>3. PICK o \in Flags : o = Names[t]
  BY NamedFlag
<1>4. PICK a, d, V, opts, h : a = argv /\ d = defined /\ V = visited /\ opts = options /\ h = heap
  OBVIOUS
<1>5. PICK b, r, k : b = a \o w /\ r = options' /\ k = heap'
  OBVIOUS
<1>6. /\ a \in Seq(Words) /\ IsFlag(d, t) /\ o \notin V /\ Told(a, d, V, opts, h)
      /\ Wrote(r, k, opts, h, o, x)
  BY <1>1, <1>3, <1>4, <1>5 DEF Known, IsFlag
<1>7. \/ w = <<t>> /\ Type(Names[t]) = "bool" /\ x = TRUE
      \/ \E v : /\ w = <<t, v>> /\ ~IsFlag(d, v) /\ Type(Names[t]) # "bool"
                /\ x = IF Type(Names[t]) = "string" THEN v ELSE Value(Type(Names[t]), v)
  BY <1>2, <1>4
<1>8. Told(b, d, V \cup {o}, r, k)
  BY <1>3, <1>5, <1>6, <1>7, ToldGrows
<1> QED
  BY <1>2, <1>3, <1>4, <1>5, <1>8

LEMMA ParserTells ==
  ASSUME LineInv, OptionsInv, ArgsInv, status = "loading", failures \in Nat, ParserNext,
         Owned(options) \subseteq DOMAIN heap, failures' = 0, parsed' \in {"reading", "SUCCESS"}
  PROVE  Told(argv', defined', visited', options', heap')
<1>1. /\ Parsing /\ parsed = "reading"
      /\ failures' = failures \/ failures' = failures + 1
  BY DEF ParserNext, Parsing, ArgsEnd, Terminator, Unknown, Repeated, Switch, ValueMissing,
         TakeNumber, TakeString
<1>2. failures = 0
  BY <1>1
<1>3. Told(argv, defined, visited, options, heap)
  BY <1>1, <1>2 DEF ArgsInv
<1>4. Structured(options) /\ Tagged(options, Early)
  BY DEF OptionsInv, Valued
<1>5. CASE ArgsEnd
  BY <1>3, <1>5 DEF ArgsEnd
<1>6. CASE Terminator
  <2>1. /\ argv' = argv \o <<"--">> /\ UNCHANGED <<defined, visited, options, heap>>
        /\ argv \in Seq(Words)
    BY <1>1, <1>6, UnderWay DEF Terminator, Reads
  <2>2. PICK w : w = <<"--">>
    OBVIOUS
  <2>3. w \in Seq(Words) /\ Len(w) \in {1, 2} /\ w = <<"--">>
    BY <2>2 DEF Words
  <2>4. ~IsFlag(defined, "--")
    BY TokenAssumption DEF IsFlag
  <2>5. PICK a, b, d, n : a = argv /\ b = a \o w /\ d = defined /\ n = Len(a)
    OBVIOUS
  <2>6. a \in Seq(Words) /\ Goes(a, b)
    BY <2>1, <2>3, <2>5, WordsRead
  <2>7. ASSUME NEW o
        PROVE  GivenIn(b, d, o) = GivenIn(a, d, o)
    <3>1. GrownBy(a, b, d, "--", n, o)
      BY <2>3, <2>5, <2>6, GivenGrows
    <3> QED
      BY <2>4, <2>5, <3>1 DEF GrownBy
  <2>8. ASSUME NEW o, NEW v, Said(a, d, o, v)
        PROVE  Said(b, d, o, v)
    BY <2>6, <2>7, <2>8, SaidStill
  <2>9. Told(b, d, visited, options, heap)
    BY <1>3, <2>5, <2>7, <2>8 DEF Told
  <2> QED
    BY <2>1, <2>2, <2>5, <2>9
<1>7. CASE Switch
  <2>1. PICK t \in Tokens :
          /\ Known(t) /\ Names[t] \notin visited /\ visited' = visited \cup {Names[t]}
          /\ Type(Names[t]) = "bool" /\ argv' = argv \o <<t>>
          /\ options' = [options EXCEPT ![Names[t][1]][Names[t][2]] = TRUE]
          /\ defined' = defined /\ heap' = heap
    BY <1>7 DEF Switch, Visits, Reads, Put
  <2>2. PICK o \in Flags : o = Names[t]
    BY <2>1, NamedFlag
  <2>3. PICK r, v : r = options' /\ v = TRUE
    OBVIOUS
  <2>4. Wrote(r, heap, options, heap, o, v)
    <3>1. r = [options EXCEPT ![o[1]][o[2]] = v] /\ Type(o) # "string"
      BY <2>1, <2>2, <2>3
    <3> QED
      BY <1>4, <3>1, WriteOther
  <2>5. Wrote(options', heap', options, heap, Names[t], TRUE)
    BY <2>1, <2>2, <2>3, <2>4
  <2> QED
    BY <1>1, <1>3, <2>1, <2>5, FlagTold
<1>8. CASE TakeNumber
  <2>1. PICK t \in Tokens, u \in Tokens :
          /\ Known(t) /\ Names[t] \notin visited /\ visited' = visited \cup {Names[t]}
          /\ Type(Names[t]) \notin {"bool", "string"} /\ ~Known(u) /\ argv' = argv \o <<t, u>>
          /\ Accepts(Type(Names[t]), u)
          /\ Stores(Type(Names[t]), u) =>
               options' = [options EXCEPT ![Names[t][1]][Names[t][2]] = Value(Type(Names[t]), u)]
          /\ defined' = defined /\ heap' = heap
    BY <1>8 DEF TakeNumber, Visits, Reads, Put, Returns
  <2>2. PICK o \in Flags : o = Names[t]
    BY <2>1, NamedFlag
  <2>3. PICK r, v : r = options' /\ v = Value(Type(o), u)
    OBVIOUS
  <2>4. Wrote(r, heap, options, heap, o, v)
    <3>1. r = [options EXCEPT ![o[1]][o[2]] = v] /\ Type(o) # "string"
      BY <2>1, <2>2, <2>3 DEF Accepts
    <3> QED
      BY <1>4, <3>1, WriteOther
  <2>5. Wrote(options', heap', options, heap, Names[t], v)
    BY <2>1, <2>2, <2>3, <2>4
  <2> QED
    BY <1>1, <1>3, <2>1, <2>2, <2>3, <2>5, FlagTold
<1>9. CASE TakeString
  <2>1. PICK t \in Tokens, u \in Tokens :
          /\ Known(t) /\ Names[t] \notin visited /\ visited' = visited \cup {Names[t]}
          /\ Type(Names[t]) = "string" /\ ~Known(u) /\ argv' = argv \o <<t, u>>
          /\ heap' = Allocated(Freed(heap, {Get(options, Names[t])}),
                               <<"arg", Names[t][1], Names[t][2]>>, u)
          /\ options' = [options EXCEPT ![Names[t][1]][Names[t][2]] =
                           <<"arg", Names[t][1], Names[t][2]>>]
          /\ defined' = defined
    BY <1>9 DEF TakeString, Visits, Reads, Put, Returns
  <2>2. PICK o \in Flags : o = Names[t]
    BY <2>1, NamedFlag
  <2>3. PICK r, k, b, x : /\ r = options' /\ k = heap' /\ b = <<"arg", o[1], o[2]>>
                          /\ x = Get(options, o)
    OBVIOUS
  <2>4. Wrote(r, k, options, heap, o, u)
    <3>1. r = [options EXCEPT ![o[1]][o[2]] = b] /\ k = Replaced(heap, x, b, u)
      BY <2>1, <2>2, <2>3 DEF Replaced
    <3>2. o \in StringOptions /\ "arg" \in Early
      BY <2>1, <2>2 DEF StringOptions, Early
    <3> QED
      BY <1>4, <2>3, <3>1, <3>2, WriteString
  <2>5. Wrote(options', heap', options, heap, Names[t], u)
    BY <2>2, <2>3, <2>4
  <2> QED
    BY <1>1, <1>3, <2>1, <2>5, FlagTold
<1>10. CASE Unknown \/ Repeated \/ ValueMissing
  BY <1>10 DEF Unknown, Repeated, ValueMissing, Returns
<1> QED
  BY <1>5, <1>6, <1>7, <1>8, <1>9, <1>10 DEF ParserNext

-----------------------------------------------------------------------------
SourcesInv == LinesInv /\ ArgsInv /\ SourcesInOrder

\* No copy failed if no failure is counted.
LEMMA NothingLost ==
  ASSUME failures \in Nat, NEW S, NEW lost \in Losses(S), failures + Cardinality(lost) = 0
  PROVE  failures = 0 /\ lost = {}
<1>1. lost \subseteq Fallible /\ IsFiniteSet(Fallible)
  BY TokenAssumption DEF Losses
<1>2. IsFiniteSet(lost)
  BY <1>1, FS_Subset
<1>3. Cardinality(lost) \in Nat
  BY <1>2, FS_CardinalityType
<1>4. Cardinality(lost) = 0 /\ failures = 0
  BY <1>3
<1> QED
  BY <1>2, <1>4, FS_EmptySet

LEMMA EmptyLines == LinesAre(<<>>, "", "")
<1>1. Len(<<>>) = 0 /\ DOMAIN <<>> = {}
  OBVIOUS
<1>2. ~UnderName(<<>>)
  BY <1>1 DEF UnderName
<1>3. Headings(<<>>) = {}
  BY <1>1 DEF Headings
<1> QED
  BY <1>2, <1>3 DEF LinesAre, SectionOf

LEMMA SourcesInit == ProgramInit => SourcesInv
<1> SUFFICES ASSUME ProgramInit
             PROVE  SourcesInv
  OBVIOUS
<1>1. /\ argv = <<>> /\ visited = {} /\ parsed = "new" /\ status = "loading"
      /\ ini = NoOptions /\ lines = <<>> /\ section = "" /\ prevName = ""
  BY DEF ProgramInit, LoadInit, ParserInit
<1>2. PICK lost \in SUBSET (WithText \cap Fallible) :
        /\ options = Created("cli", lost) /\ heap = CreatedTexts("cli", lost)
        /\ failures = Cardinality(lost)
  BY DEF ProgramInit, LoadInit, ParserInit
<1>3. LinesInv
  <2>1. lines \in Seq(IniLines)
    <3>1. <<>> \in Seq(IniLines)
      OBVIOUS
    <3> QED
      BY <1>1, <3>1
  <2>2. LinesAre(lines, section, prevName)
    BY <1>1, EmptyLines
  <2> QED
    BY <1>1, <2>1, <2>2 DEF LinesInv
<1>4. SourcesInOrder
  BY <1>1 DEF SourcesInOrder
<1>5. ASSUME failures = 0
      PROVE  Told(argv, defined, visited, options, heap)
  <2>1. IsFiniteSet(lost)
    BY <1>2, TokenAssumption, FS_Subset
  <2>2. lost = {}
    BY <1>2, <1>5, <2>1, FS_EmptySet
  <2>3. PICK r, h, who : r = options /\ h = heap /\ who = "cli"
    OBVIOUS
  <2>4. r = Created(who, lost) /\ \A b \in Owned(r) : h[b] = CreatedTexts(who, lost)[b]
    BY <1>2, <2>3
  <2>5. NewTexts(r, h)
    BY <2>2, <2>4, CreatedTextsAre
  <2>6. \A o : GivenIn(argv, defined, o) = {}
    <3>1. DOMAIN <<>> = {}
      OBVIOUS
    <3> QED
      BY <1>1, <3>1 DEF GivenIn
  <2> QED
    BY <1>1, <2>3, <2>5, <2>6 DEF Told, NewTexts
<1>6. ArgsInv
  BY <1>5 DEF ArgsInv
<1> QED
  BY <1>3, <1>4, <1>6 DEF SourcesInv

\* The blocks while no clean-up has begun and no copy of the parser failed.
LEMMA HeapIs ==
  ASSUME OwnershipInv, stage = "load", parsed # "INTERNAL_ERROR"
  PROVE  /\ ini = NoOptions => DOMAIN heap = Owned(options)
         /\ ini # NoOptions => DOMAIN heap = Owned(options) \cup Owned(ini)
<1>1. DOMAIN heap = Held
  BY DEF OwnershipInv, Blocks
<1> QED
  BY <1>1 DEF Held

\* The ini file is opened.
LEMMA OpenIniTexts ==
  ASSUME OptionsInv, OwnershipInv, LinesInv, ArgsInv, stage = "load", OpenIni
  PROVE  LinesInv' /\ ArgsInv'
<1>1. /\ status = "loading" /\ ini = NoOptions /\ parsed = "SUCCESS"
      /\ UNCHANGED <<argv, defined, visited, options, parsed, lines, section, prevName, status>>
      /\ failures \in Nat
  BY DEF OpenIni, Returned, OwnershipInv
<1>2. PICK lost \in Losses(WithText) :
        /\ ini' = Created("ini", lost)
        /\ heap' = [b \in DOMAIN heap \cup Owned(Created("ini", lost)) |->
                      IF b \in DOMAIN heap THEN heap[b] ELSE CreatedTexts("ini", lost)[b]]
        /\ failures' = failures + Cardinality(lost)
  BY DEF OpenIni
<1>3. PICK r, k, who : r = ini' /\ k = heap' /\ who = "ini"
  OBVIOUS
<1>4. lines = <<>> /\ lines \in Seq(IniLines) /\ LinesAre(lines, section, prevName)
  BY <1>1 DEF LinesInv
<1>5. DOMAIN heap = Owned(options)
  BY <1>1, HeapIs
<1>6. r = Created(who, lost) /\ Tagged(r, FileOwners) /\ Valued(r)
  BY <1>2, <1>3, CreatedTagged DEF FileOwners
<1>7. Owned(options) \cap Owned(r) = {}
  <2>1. Late \cap FileOwners = {} /\ Tagged(options, Late)
    BY DEF Late, FileOwners, OptionsInv
  <2> QED
    BY <1>6, <2>1, Apart
<1>8. /\ \A b \in Owned(r) : k[b] = CreatedTexts(who, lost)[b]
      /\ \A b \in Owned(options) : k[b] = heap[b]
  BY <1>2, <1>3, <1>5, <1>6, <1>7
<1>9. ASSUME failures' = 0
      PROVE  /\ IniSet(r, k, lines)
             /\ Told(argv, defined, visited, options, k)
  <2>1. failures = 0 /\ lost = {}
    BY <1>1, <1>2, <1>9, NothingLost
  <2>2. NewTexts(r, k)
    BY <1>6, <1>8, <2>1, CreatedTextsAre
  <2>3. IniSet(r, k, lines)
    BY <1>4, <2>2, NothingSet DEF IniSet, NewTexts, Registry
  <2>4. ASSUME NEW o \in Flags
        PROVE  Text(options, k, o) = Text(options, heap, o)
    <3>1. ASSUME Type(o) = "string", Get(options, o) # Null
          PROVE  k[Get(options, o)] = heap[Get(options, o)]
      <4>1. PICK b : b = Get(options, o)
        OBVIOUS
      <4>2. b \in Owned(options)
        BY <3>1, <4>1, OwnedIs DEF StringOptions
      <4> QED
        BY <1>8, <4>1, <4>2
    <3> QED
      BY <3>1, TextStays
  <2>5. Told(argv, defined, visited, options, heap)
    BY <1>1, <2>1 DEF ArgsInv
  <2>6. Told(argv, defined, visited, options, k)
    BY <2>4, <2>5 DEF Told
  <2> QED
    BY <2>3, <2>6
<1>10. ini' # NoOptions
  BY <1>3, <1>6, StructureIsOne DEF Valued
<1>11. LinesInv'
  BY <1>1, <1>3, <1>4, <1>9, <1>10 DEF LinesInv
<1> QED
  BY <1>1, <1>3, <1>9, <1>11 DEF ArgsInv

\* A line is read.
LEMMA ReadLineTexts ==
  ASSUME OptionsInv, OwnershipInv, LinesInv, ArgsInv, stage = "load", ReadLine
  PROVE  LinesInv' /\ ArgsInv'
<1>1. /\ status = "loading" /\ ini # NoOptions /\ parsed = "SUCCESS" /\ failures \in Nat
      /\ UNCHANGED <<argv, defined, visited, options, parsed, status>>
  BY DEF ReadLine, Reading, OptionsInv, OwnershipInv
<1>2. DOMAIN heap = Owned(options) \cup Owned(ini)
  BY <1>1, HeapIs
<1>3. /\ lines' \in Seq(IniLines) /\ LinesAre(lines', section', prevName')
      /\ failures' = 0 =>
           /\ IniSet(ini', heap', lines')
           /\ \A q \in Flags : Text(options', heap', q) = Text(options, heap, q)
  BY <1>1, <1>2, ReadLineStep
<1>4. ini' # NoOptions /\ (failures' = 0 => failures = 0)
  <2>1. PICK l \in IniLines :
          Comment(l) \/ Continuation(l) \/ SectionLine(l) \/ PairLine(l) \/ Malformed(l)
    BY DEF ReadLine
  <2>2. Valued(ini) /\ Tagged(ini, FileOwners)
    BY <1>1 DEF OptionsInv
  <2>3. ASSUME NEW name, NEW text, Handle(name, text)
        PROVE  Valued(ini') /\ (failures' = failures \/ failures' = failures + 1)
    <3>1. Valued(ini')
      BY <2>2, <2>3, HandleWrites
    <3>2. failures' = failures \/ failures' = failures + 1
      BY <2>3 DEF Handle, SetString, SetNumber
    <3> QED
      BY <3>1, <3>2
  <2>4. Valued(ini') /\ (failures' = failures \/ failures' = failures + 1)
    <3>1. CASE Continuation(l) \/ PairLine(l)
      BY <2>3, <3>1 DEF Continuation, PairLine
    <3>2. CASE Comment(l) \/ SectionLine(l) \/ Malformed(l)
      <4>1. ini' = ini /\ failures' = failures
        BY <3>2 DEF Comment, SectionLine, Malformed
      <4> QED
        BY <2>2, <4>1
    <3> QED
      BY <2>1, <3>1, <3>2
  <2> QED
    BY <1>1, <2>4, StructureIsOne DEF Valued
<1>5. LinesInv'
  BY <1>1, <1>3, <1>4 DEF LinesInv
<1>6. ArgsInv'
  <2> SUFFICES ASSUME failures' = 0
               PROVE  Told(argv', defined', visited', options', heap')
    BY DEF ArgsInv
  <2>1. Told(argv, defined, visited, options, heap)
    BY <1>1, <1>4 DEF ArgsInv
  <2> QED
    BY <1>1, <1>3, <2>1 DEF Told
<1> QED
  BY <1>5, <1>6

\* The two ends of the load.
LEMMA MergeTexts ==
  ASSUME LineInv, OptionsInv, OwnershipInv, LinesInv, ArgsInv, stage = "load", MergeIni,
         failures' = 0
  PROVE  Ordered(argv', defined', lines', options', heap')
<1>1. /\ status = "loading" /\ ini # NoOptions /\ parsed = "SUCCESS" /\ failures \in Nat
      /\ UNCHANGED <<argv, defined, visited, lines>>
  BY DEF MergeIni, Reading, OptionsInv, OwnershipInv
<1>2. DOMAIN heap = Owned(options) \cup Owned(ini)
  BY <1>1, HeapIs
<1>3. PICK lost \in Losses({o \in Unvisited \cap StringOptions : Get(ini, o) # Null}) :
        /\ options' = WithThreads(Merged(lost))
        /\ heap' = [b \in Rest \cup (Owned(Merged(lost)) \ DOMAIN heap) |->
                      IF b \in Rest THEN heap[b] ELSE heap[ini[b[2]][b[3]]]]
        /\ failures' = failures + Cardinality(lost)
  BY DEF MergeIni, Rest
<1>4. failures = 0 /\ lost = {}
  BY <1>1, <1>3, NothingLost
<1>5. PICK m, k, r : m = Merged(lost) /\ k = heap' /\ r = options'
  OBVIOUS
<1>6. /\ r = WithThreads(m)
      /\ k = [b \in Rest \cup (Owned(m) \ DOMAIN heap) |->
                IF b \in Rest THEN heap[b] ELSE heap[ini[b[2]][b[3]]]]
  BY <1>3, <1>5
<1>7. \A o \in Registry : Text(m, k, o) = IF o \in visited THEN Text(options, heap, o)
                                          ELSE Text(ini, heap, o)
  BY <1>1, <1>2, <1>4, <1>5, <1>6, MergedTexts
<1>8. \A o \in Registry : Text(ini, heap, o) = FromIni(o, Settings(lines))
  BY <1>1, <1>4 DEF LinesInv, IniSet
<1>9. Valued(m) /\ Tagged(m, Late)
  BY <1>1, <1>5, MergedIs DEF OptionsInv
<1>10. Told(argv, defined, visited, options, heap) /\ argv \in Seq(Words)
  BY <1>1, <1>4 DEF ArgsInv, LineInv
<1>11. PICK a, d, V, L, opts, h : /\ a = argv /\ d = defined /\ V = visited /\ L = lines
                                  /\ opts = options /\ h = heap
  OBVIOUS
<1>12. /\ a \in Seq(Words) /\ Told(a, d, V, opts, h)
       /\ \A o \in Registry : Text(m, k, o) = IF o \in V THEN Text(opts, h, o)
                                              ELSE FromIni(o, Settings(L))
  BY <1>7, <1>8, <1>10, <1>11
<1>13. Ordered(a, d, L, r, k)
  BY <1>6, <1>9, <1>12, LoadEnds
<1> QED
  BY <1>1, <1>5, <1>11, <1>13

LEMMA ValidateTexts ==
  ASSUME LineInv, OptionsInv, OwnershipInv, LinesInv, ArgsInv, stage = "load", Validate,
         failures' = 0
  PROVE  Ordered(argv', defined', lines', options', heap')
<1>1. /\ status = "loading" /\ ini = NoOptions /\ parsed = "SUCCESS" /\ failures = 0
      /\ UNCHANGED <<argv, defined, visited, lines>>
      /\ options' = WithThreads(options) /\ heap' = heap
  BY DEF Validate, Returned
<1>2. PICK a, d, V, L, opts, h, r : /\ a = argv /\ d = defined /\ V = visited /\ L = lines
                                    /\ opts = options /\ h = heap /\ r = options'
  OBVIOUS
<1>3. L = <<>>
  BY <1>1, <1>2 DEF LinesInv
<1>4. a \in Seq(Words) /\ Told(a, d, V, opts, h)
  BY <1>1, <1>2 DEF ArgsInv, LineInv
<1>5. Valued(opts) /\ Tagged(opts, Late)
  BY <1>2 DEF OptionsInv
<1>6. ASSUME NEW o \in Registry
      PROVE  Text(opts, h, o) = IF o \in V THEN Text(opts, h, o) ELSE FromIni(o, Settings(L))
  <2>1. o \notin V => Text(opts, h, o) = Get(Defaults, o)
    BY <1>4 DEF Told, Registry
  <2> QED
    BY <1>3, <2>1, NothingSet
<1>7. Ordered(a, d, L, r, h)
  <2>1. r = WithThreads(opts)
    BY <1>1, <1>2
  <2> QED
    BY <1>4, <1>5, <1>6, <2>1, LoadEnds
<1> QED
  BY <1>1, <1>2, <1>7

LEMMA SourcesStay ==
  ASSUME LinesInv, ArgsInv,
         UNCHANGED <<argv, defined, visited, options, heap, failures, parsed, ini, lines, section,
                     prevName>>,
         status' = status \/ status' # "loading"
  PROVE  LinesInv' /\ ArgsInv'
BY DEF LinesInv, ArgsInv

LEMMA SourcesStep ==
  LineInv /\ OptionsInv /\ OwnershipInv /\ SourcesInv /\ [ProgramNext]_programVars => SourcesInv'
<1> SUFFICES ASSUME LineInv, OptionsInv, OwnershipInv, LinesInv, ArgsInv, SourcesInOrder,
                    ProgramNext \/ UNCHANGED programVars
             PROVE  LinesInv' /\ ArgsInv' /\ SourcesInOrder'
  BY DEF SourcesInv
<1>1. CASE Load
  <2>1. stage = "load" /\ stage' = "load" /\ LoadNext
    BY <1>1 DEF Load
  <2>2. ASSUME status' = "loading"
        PROVE  SourcesInOrder'
    BY <2>2, OrderedNext
  <2>3. CASE ReadArguments
    <3>1. /\ status = "loading" /\ UNCHANGED <<ini, lines, section, prevName, status>>
          /\ BuildParser \/ ParserNext
      BY <2>3 DEF ReadArguments
    <3>2. parsed \in {"new", "reading"} /\ ini = NoOptions
      <4>1. parsed \in {"new", "reading"}
        BY <3>1 DEF BuildParser, ParserNext, Parsing, ArgsEnd, Terminator, Unknown, Repeated, Switch,
                    ValueMissing, TakeNumber, TakeString
      <4> QED
        BY <4>1 DEF OptionsInv
    <3>3. LinesInv'
      BY <3>1, <3>2 DEF LinesInv
    <3>4. CASE BuildParser
      <4>1. /\ argv = <<>> /\ visited = {} /\ UNCHANGED <<argv, visited, options, heap>>
            /\ parsed = "new"
        BY <3>4 DEF BuildParser, LineInv
      <4>2. ASSUME failures' = 0
            PROVE  failures = 0
        <5>1. PICK lost \in Losses(Flags) : failures' = failures + Cardinality(lost)
          BY <3>4 DEF BuildParser
        <5>2. failures \in Nat
          BY DEF OwnershipInv
        <5> QED
          BY <4>2, <5>1, <5>2, NothingLost
      <4>3. \A o : GivenIn(argv, defined, o) = {} /\ GivenIn(argv, defined', o) = {}
        BY <4>1 DEF GivenIn
      <4>4. ArgsInv'
        BY <3>1, <4>1, <4>2, <4>3 DEF ArgsInv, Told
      <4> QED
        BY <2>2, <3>1, <3>3, <4>4
    <3>5. CASE ParserNext
      <4>1. failures \in Nat /\ Owned(options) \subseteq DOMAIN heap
        BY <2>1, <3>2, HeapIs DEF OwnershipInv
      <4>2. parsed' # "new"
        BY <3>5 DEF ParserNext, Parsing, ArgsEnd, Terminator, Unknown, Repeated, Switch,
                    ValueMissing, TakeNumber, TakeString, Returns
      <4>3. ArgsInv'
        BY <3>1, <3>5, <4>1, <4>2, ParserTells DEF ArgsInv
      <4> QED
        BY <2>2, <3>1, <3>3, <4>3
    <3> QED
      BY <3>1, <3>4, <3>5
  <2>4. CASE OpenIni
    <3>1. status' = "loading"
      BY <2>4 DEF OpenIni, Returned
    <3> QED
      BY <2>1, <2>2, <2>4, <3>1, OpenIniTexts
  <2>5. CASE ReadLine
    <3>1. status' = "loading"
      BY <2>5 DEF ReadLine, Reading
    <3> QED
      BY <2>1, <2>2, <2>5, <3>1, ReadLineTexts
  <2>6. CASE MergeIni \/ Validate
    <3>1. /\ status' \in {"MISSING_MANDATORY_FLAG", "WRONG_VALUE_TYPE", "SUCCESS"}
          /\ UNCHANGED <<lines, section, prevName>> /\ ini' = NoOptions
      BY <2>6, VerdictIs DEF MergeIni, Validate, Returned
    <3>2. LinesInv' /\ ArgsInv'
      BY <3>1 DEF LinesInv, ArgsInv
    <3>3. failures' = 0 => Ordered(argv', defined', lines', options', heap')
      BY <2>1, <2>6, MergeTexts, ValidateTexts
    <3> QED
      BY <3>2, <3>3, OrderedNext
  <2>7. CASE ArgumentsFail
    <3>1. /\ UNCHANGED <<argv, defined, visited, options, heap, failures, parsed, ini, lines, section,
                         prevName>>
          /\ status = "loading" /\ (status' = "HELP" \/ parsed # "SUCCESS")
      BY <2>7 DEF ArgumentsFail, Returned, parserVars
    <3>2. LinesInv' /\ ArgsInv'
      BY <3>1 DEF LinesInv, ArgsInv
    <3> QED
      BY <3>1, <3>2, OrderedNext
  <2>8. CASE ParserUnavailable
    <3>1. /\ UNCHANGED <<argv, defined, visited, options, heap, parsed, ini, lines, section, prevName>>
          /\ status' = "INTERNAL_ERROR" /\ parsed = "new"
      BY <2>8 DEF ParserUnavailable
    <3>2. ini = NoOptions
      BY <3>1 DEF OptionsInv
    <3>3. LinesInv' /\ ArgsInv'
      BY <3>1, <3>2 DEF LinesInv, ArgsInv
    <3> QED
      BY <3>1, <3>3, OrderedNext
  <2> QED
    BY <2>1, <2>3, <2>4, <2>5, <2>6, <2>7, <2>8 DEF LoadNext
\* Once loaded, nothing is written until the clean-up, which is past the load.
<1>2. CASE Launch \/ CreateRandom \/ UNCHANGED programVars
  <2>1. /\ UNCHANGED <<argv, defined, visited, options, heap, failures, parsed, ini, lines, section,
                       prevName, status>>
        /\ stage' = "load" => stage = "load"
    BY <1>2 DEF Launch, CreateRandom, Creates, programVars, loadVars, parserVars
  <2>2. LinesInv' /\ ArgsInv'
    BY <2>1, SourcesStay
  <2>3. SourcesInOrder'
    BY <2>1, OrderedIs, OrderedNext
  <2> QED
    BY <2>2, <2>3
<1>3. ASSUME NEW code, CleanUp(code), status # "loading"
      PROVE  LinesInv' /\ ArgsInv' /\ SourcesInOrder'
  <2>1. /\ UNCHANGED <<lines, section, prevName, status, ini>> /\ stage' # "load"
    BY <1>3 DEF CleanUp, settled
  <2>2. ini = NoOptions
    BY <1>3 DEF OptionsInv
  <2>3. LinesInv' /\ ArgsInv'
    BY <1>3, <2>1, <2>2 DEF LinesInv, ArgsInv
  <2> QED
    BY <2>1, <2>3, OrderedNext
<1>4. CASE Refused \/ InstanceUnreadable \/ NoMode \/ Finish
  <2>1. \E code : CleanUp(code)
    BY <1>4 DEF Refused, InstanceUnreadable, NoMode, Finish, Failed
  <2>2. status # "loading"
    BY <1>4 DEF Refused, InstanceUnreadable, NoMode, Finish, Proceeds, OwnershipInv
  <2> QED
    BY <1>3, <2>1, <2>2
<1>5. CASE LoadInstance
  <2>1. stage = "load" /\ status = "SUCCESS"
    BY <1>5 DEF LoadInstance, Proceeds
  <2>2. CleanUp(1) \/ \E i : Creates(i)
    BY <1>5 DEF LoadInstance, Failed
  <2>3. CASE \E i : Creates(i)
    <3>1. /\ stage' = "run"
          /\ UNCHANGED <<argv, defined, visited, options, heap, failures, parsed, ini, lines, section,
                         prevName, status>>
      BY <2>3 DEF Creates, loadVars, parserVars
    <3>2. LinesInv' /\ ArgsInv'
      BY <3>1, SourcesStay
    <3> QED
      BY <3>1, <3>2, OrderedNext
  <2> QED
    BY <1>3, <2>1, <2>2, <2>3
<1> QED
  BY <1>1, <1>2, <1>4, <1>5 DEF ProgramNext

\* When the options are loaded, every option has the value of the command line if it is given
\* there, else that of the last line of the ini file that sets it, else its default.
THEOREM OptionsFollowTheirSources == ProgramSpec => []SourcesInOrder
<1>1. ProgramInit => LineInv /\ OptionsInv /\ OwnershipInv /\ SourcesInv
  BY LineInvInit, OptionsInvInit, OwnershipInit, SourcesInit
<1>2. LineInv /\ OptionsInv /\ OwnershipInv /\ SourcesInv /\ [ProgramNext]_programVars
        => (LineInv /\ OptionsInv /\ OwnershipInv /\ SourcesInv)'
  BY LineInvStep, OptionsInvStep, OwnershipStep, SourcesStep
<1>3. SourcesInv => SourcesInOrder
  BY DEF SourcesInv
<1> QED
  BY <1>1, <1>2, <1>3, PTL DEF ProgramSpec
==============================================================================
