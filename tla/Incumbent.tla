------------------------------ MODULE Incumbent ------------------------------
(***************************************************************************)
(* What a TspSolution promises its callers, whatever threads share it: one *)
(* incumbent, a tour with the cost stored for it, that every operation     *)
(* reads or replaces in a single indivisible step.  There is no lock here  *)
(* and nothing half-written; TspSolution.tla has both and implements this. *)
(***************************************************************************)
EXTENDS Integers

CONSTANTS
  Threads,   \* the callers
  Tours,     \* the closed permutations of the nodes
  Garbled,   \* the tour arrays that are not one
  TrueCost,  \* the cost of a tour under the instance's cost matrix
  Eps,       \* EPSILON
  Offers,    \* the [tour, cost] pairs the callers submit
  Unknown    \* no value read yet

VARIABLES
  best,      \* the incumbent
  asked,     \* what each caller has asked for and is still waiting for
  seen       \* what each caller's last call handed back to it

ivars == <<best, asked, seen>>

Blank == [tour |-> Unknown, cost |-> Unknown]
Nothing == [op |-> Unknown, arg |-> Blank]

Requests ==
  [op : {"update_if_better"}, arg : Offers]
    \cup [op : {"get_cost", "get_tour", "check_feasibility", "load"}, arg : {Blank}]

Honest(t) == [tour |-> t, cost |-> TrueCost[t]]

IInit ==
  /\ best \in {Honest(t) : t \in Tours}
  /\ asked = [th \in Threads |-> Nothing]
  /\ seen = [th \in Threads |-> Blank]

\* A call starts: what the previous one handed back is forgotten.
Ask(th) ==
  /\ asked[th] = Nothing
  /\ \E r \in Requests : asked' = [asked EXCEPT ![th] = r]
  /\ seen' = [seen EXCEPT ![th] = Blank]
  /\ UNCHANGED best

\* A call takes effect, once, and the caller waits for nothing any more.
Answer(th) == asked' = [asked EXCEPT ![th] = Nothing]

\* A candidate replaces the incumbent when it is cheaper by more than Eps.
Offer(th) ==
  /\ asked[th].op = "update_if_better"
  /\ best' = IF asked[th].arg.cost < best.cost - Eps THEN asked[th].arg ELSE best
  /\ Answer(th)
  /\ UNCHANGED seen

\* A caller learns the tour, the cost, or both as they stand together.
Observe(th) ==
  /\ \/ /\ asked[th].op = "get_tour"
        /\ seen' = [seen EXCEPT ![th] = [Blank EXCEPT !.tour = best.tour]]
     \/ /\ asked[th].op = "get_cost"
        /\ seen' = [seen EXCEPT ![th] = [Blank EXCEPT !.cost = best.cost]]
     \/ /\ asked[th].op = "check_feasibility"
        /\ seen' = [seen EXCEPT ![th] = best]
  /\ Answer(th)
  /\ UNCHANGED best

\* A tour is read from a file, or the attempt leaves another array behind.
Reload(th) ==
  /\ asked[th].op = "load"
  /\ \/ best' \in {Honest(t) : t \in Tours}
     \/ \E t \in {best.tour} \cup Tours \cup Garbled : best' = [best EXCEPT !.tour = t]
  /\ Answer(th)
  /\ UNCHANGED seen

INext == \E th \in Threads : Ask(th) \/ Offer(th) \/ Observe(th) \/ Reload(th)

ISpec == IInit /\ [][INext]_ivars
=============================================================================
