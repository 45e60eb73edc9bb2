----------------------------- MODULE TspSolution -----------------------------
(***************************************************************************)
(* tsp_algo_lib/src/api/tsp_solution.c at the grain of its mutex: the      *)
(* object's two fields, the lock that guards them, and the threads that    *)
(* call its operations.  A field write, a memcpy of the tour and a lock    *)
(* operation are one step each, so other threads run between any two.      *)
(*                                                                         *)
(* Tours are opaque: what matters here is which tour the object holds and  *)
(* whether the cost stored beside it is that tour's cost.                  *)
(***************************************************************************)
EXTENDS Integers

CONSTANTS
  Threads, Tours, Garbled, TrueCost, Eps, Offers, Unknown,
  NoThread   \* the mutex is free

Ops == {"update_if_better", "get_cost", "get_tour", "check_feasibility", "load"}

ASSUME SolutionAssumption ==
  /\ TrueCost \in [Tours -> Nat]
  /\ Eps \in Nat
  /\ Offers \subseteq [tour : Tours, cost : Int]
  /\ Tours # {}
  /\ Tours \cap Garbled = {}
  /\ NoThread \notin Threads
  /\ Unknown \notin Tours \cup Garbled \cup Int \cup Ops

VARIABLES
  cost,      \* self->cost
  tour,      \* self->tour
  mutex,     \* self->mutex: its holder
  pc,        \* where each thread is inside its call
  op,        \* the operation it called last
  arg,       \* update_if_better: new_tour, new_cost
  copy,      \* check_feasibility: tour_copy, until cost_copy joins it
  seen,      \* what the call read for its caller
  loaded     \* history: "never", "cleanly", or "broken" once a load has
             \* failed after overwriting part of the tour

vars == <<cost, tour, mutex, pc, op, arg, copy, seen, loaded>>

Blank == [tour |-> Unknown, cost |-> Unknown]

\* Inside the critical section, from the lock to the unlock.
InCS(th) == pc[th] \in {"compare", "set_tour", "copy_tour", "read_cost", "parse", "recompute", "unlock"}

FirstStep(o) ==
  CASE o = "update_if_better"                  -> "compare"
    [] o \in {"get_tour", "check_feasibility"} -> "copy_tour"
    [] o = "get_cost"                          -> "read_cost"
    [] o = "load"                              -> "parse"

\* tsp_solution_create and tsp_solution_create_with_tour.
Init ==
  /\ tour \in Tours
  /\ cost = TrueCost[tour]
  /\ mutex = NoThread
  /\ pc = [th \in Threads |-> "idle"]
  /\ op = [th \in Threads |-> Unknown]
  /\ arg = [th \in Threads |-> Blank]
  /\ copy = [th \in Threads |-> Unknown]
  /\ seen = [th \in Threads |-> Blank]
  /\ loaded = "never"

Goto(th, label) == pc' = [pc EXCEPT ![th] = label]

Call(th) ==
  /\ pc[th] = "idle"
  /\ \E o \in Ops :
       /\ op' = [op EXCEPT ![th] = o]
       /\ IF o = "update_if_better"
          THEN \E a \in Offers : arg' = [arg EXCEPT ![th] = a]
          ELSE arg' = [arg EXCEPT ![th] = Blank]
  /\ seen' = [seen EXCEPT ![th] = Blank]
  /\ Goto(th, "lock")
  /\ UNCHANGED <<cost, tour, mutex, copy, loaded>>

Lock(th) ==
  /\ pc[th] = "lock"
  /\ mutex = NoThread
  /\ mutex' = th
  /\ Goto(th, FirstStep(op[th]))
  /\ UNCHANGED <<cost, tour, op, arg, copy, seen, loaded>>

\* Wrong: the operands of the comparison are exchanged.
CompareSwapped(th) ==
  /\ pc[th] = "compare"
  /\ \/ /\ cost < arg[th].cost - Eps
        /\ cost' = arg[th].cost
        /\ Goto(th, "set_tour")
     \/ /\ ~(cost < arg[th].cost - Eps)
        /\ Goto(th, "unlock")
        /\ UNCHANGED cost
  /\ UNCHANGED <<tour, mutex, op, arg, copy, seen, loaded>>

\* update_if_better: the comparison and, if it succeeds, self->cost = new_cost.
Compare(th) ==
  /\ pc[th] = "compare"
  /\ \/ /\ arg[th].cost < cost - Eps
        /\ cost' = arg[th].cost
        /\ Goto(th, "set_tour")
     \/ /\ ~(arg[th].cost < cost - Eps)
        /\ Goto(th, "unlock")
        /\ UNCHANGED cost
  /\ UNCHANGED <<tour, mutex, op, arg, copy, seen, loaded>>

\* Wrong: forgets the memcpy.
SetTourForgotten(th) ==
  /\ pc[th] = "set_tour"
  /\ Goto(th, "unlock")
  /\ UNCHANGED <<cost, tour, mutex, op, arg, copy, seen, loaded>>

\* update_if_better: the memcpy of new_tour.
SetTour(th) ==
  /\ pc[th] = "set_tour"
  /\ tour' = arg[th].tour
  /\ Goto(th, "unlock")
  /\ UNCHANGED <<cost, mutex, op, arg, copy, seen, loaded>>

\* Wrong: check_feasibility gives the mutex back between its two reads.
CopyTourAndUnlock(th) ==
  /\ pc[th] = "copy_tour"
  /\ \/ /\ op[th] = "get_tour"
        /\ seen' = [seen EXCEPT ![th].tour = tour]
        /\ Goto(th, "unlock")
        /\ UNCHANGED <<mutex, copy>>
     \/ /\ op[th] = "check_feasibility"
        /\ copy' = [copy EXCEPT ![th] = tour]
        /\ mutex' = NoThread
        /\ Goto(th, "read_cost")
        /\ UNCHANGED seen
  /\ UNCHANGED <<cost, tour, op, arg, loaded>>

\* get_tour: the memcpy into the caller's buffer; check_feasibility: memdup.
CopyTour(th) ==
  /\ pc[th] = "copy_tour"
  /\ \/ /\ op[th] = "get_tour"
        /\ seen' = [seen EXCEPT ![th].tour = tour]
        /\ Goto(th, "unlock")
        /\ UNCHANGED copy
     \/ /\ op[th] = "check_feasibility"
        /\ copy' = [copy EXCEPT ![th] = tour]
        /\ Goto(th, "read_cost")
        /\ UNCHANGED seen
  /\ UNCHANGED <<cost, tour, mutex, op, arg, loaded>>

\* get_cost, and the second read of check_feasibility.
ReadCost(th) ==
  /\ pc[th] = "read_cost"
  /\ seen' = [seen EXCEPT ![th] = [tour |-> copy[th], cost |-> cost]]
  /\ copy' = [copy EXCEPT ![th] = Unknown]
  /\ Goto(th, "unlock")
  /\ UNCHANGED <<cost, tour, mutex, op, arg, loaded>>

\* load: the parser fills self->tour itself.  It succeeds on a tour, stops
\* before the tour section, or fails after overwriting some of the entries.
Parse(th) ==
  /\ pc[th] = "parse"
  /\ \/ /\ tour' \in Tours
        /\ loaded' = IF loaded = "broken" THEN "broken" ELSE "cleanly"
        /\ Goto(th, "recompute")
     \/ /\ tour' \in {tour} \cup Tours \cup Garbled
        /\ loaded' = IF tour' = tour THEN loaded ELSE "broken"
        /\ Goto(th, "unlock")
  /\ UNCHANGED <<cost, mutex, op, arg, copy, seen>>

\* Wrong: the cost of the replaced tour stays.
RecomputeForgotten(th) ==
  /\ pc[th] = "recompute"
  /\ Goto(th, "unlock")
  /\ UNCHANGED <<cost, tour, mutex, op, arg, copy, seen, loaded>>

\* load: self->cost is computed from the tour, the file's COST is dropped.
Recompute(th) ==
  /\ pc[th] = "recompute"
  /\ cost' = TrueCost[tour]
  /\ Goto(th, "unlock")
  /\ UNCHANGED <<tour, mutex, op, arg, copy, seen, loaded>>

Unlock(th) ==
  /\ pc[th] = "unlock"
  /\ mutex' = NoThread
  /\ Goto(th, "idle")
  /\ UNCHANGED <<cost, tour, op, arg, copy, seen, loaded>>

Step(th) ==
  \/ Compare(th) \/ SetTour(th) \/ CopyTour(th) \/ ReadCost(th)
  \/ Parse(th) \/ Recompute(th) \/ Unlock(th)

Next == \E th \in Threads : Call(th) \/ Lock(th) \/ Step(th)

Spec == Init /\ [][Next]_vars
-----------------------------------------------------------------------------
\* The abstract incumbent: an update takes effect with its comparison, before
\* the memcpy; a load when the parser is done, before the cost; a read when it
\* has all it came for.  Until then the caller waits.
Holding(label) == mutex # NoThread /\ pc[mutex] = label
AbsTour == IF Holding("set_tour") THEN arg[mutex].tour ELSE tour
AbsCost == IF Holding("recompute") THEN TrueCost[tour] ELSE cost

Waiting(th) == pc[th] \in {"lock", "compare", "copy_tour", "read_cost", "parse"}
AbsAsked ==
  [th \in Threads |-> IF Waiting(th) THEN [op |-> op[th], arg |-> arg[th]]
                      ELSE [op |-> Unknown, arg |-> Blank]]

Abs == INSTANCE Incumbent WITH best <- [tour |-> AbsTour, cost |-> AbsCost], asked <- AbsAsked

Matches(t, c) == t \in Tours /\ c - TrueCost[t] \in -Eps .. Eps

TypeOK ==
  /\ cost \in Int
  /\ tour \in Tours \cup Garbled
  /\ mutex \in Threads \cup {NoThread}
  /\ pc \in [Threads -> {"idle", "lock", "compare", "set_tour", "copy_tour",
                         "read_cost", "parse", "recompute", "unlock"}]
  /\ op \in [Threads -> Ops \cup {Unknown}]
  /\ arg \in [Threads -> Offers \cup {Blank}]
  /\ copy \in [Threads -> Tours \cup Garbled \cup {Unknown}]
  /\ seen \in [Threads -> [tour : Tours \cup Garbled \cup {Unknown},
                           cost : Int \cup {Unknown}]]
  /\ loaded \in {"never", "cleanly", "broken"}

\* Two threads are never between lock and unlock together, so the tour is
\* never copied while another thread is between its two field writes.
MutualExclusion == \A a, b \in Threads : InCS(a) /\ InCS(b) => a = b

\* check_feasibility copies tour and cost with other updates and loads going
\* on around it, and still never meets the tour of one with the cost of
\* another, as long as no load has broken the object and the callers submit
\* a tour with its own cost.
NoTornSnapshot ==
  \A th \in Threads :
    op[th] = "check_feasibility" /\ seen[th] # Blank /\ loaded # "broken"
      => Matches(seen[th].tour, seen[th].cost)

\* Once update_if_better has returned, the incumbent is at least as good as
\* the candidate up to Eps, whatever the other updates and reads that ran
\* meanwhile.  (A load may put a worse tour in its place.)
NoLostUpdate ==
  \A th \in Threads :
    op[th] = "update_if_better" /\ pc[th] = "idle" /\ loaded = "never"
      => AbsCost <= arg[th].cost + Eps

\* The stored cost stops being the cost of the stored tour in one way only:
\* a load that fails after the parser started to overwrite the tour.
ParseFails == \E th \in Threads : pc[th] = "parse" /\ pc'[th] = "unlock" /\ tour' # tour
OnlyAFailedLoadMismatches ==
  [][Matches(AbsTour, AbsCost) => Matches(AbsTour, AbsCost)' \/ ParseFails]_vars

\* Every call takes effect in one step between its start and its end, on the
\* incumbent as the calls before it have left it.
ImplementsIncumbent == Abs!ISpec
=============================================================================
