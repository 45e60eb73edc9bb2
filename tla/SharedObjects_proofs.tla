------------------------ MODULE SharedObjects_proofs ------------------------
(***************************************************************************)
(* Theorems about the two objects that threads share behind a mutex.       *)
(*                                                                         *)
(* TspSolution, for any number of threads, any tours, any costs and any    *)
(* candidates: the mutex excludes, snapshots are never torn, updates are   *)
(* never lost, and the object implements Incumbent.                        *)
(*                                                                         *)
(* MemTracker, for any number of threads, any finite set of addresses and  *)
(* any sizes: the record of a block is there exactly as long as the block, *)
(* and the total is the sum of the records.                                *)
(***************************************************************************)
EXTENDS TspSolution, MemTracker, TLAPS, FiniteSetTheorems, WellFoundedInduction

\* Which steps belong to which operation.
OpInv ==
  \A th \in Threads :
    /\ pc[th] # "idle" => op[th] \in Ops
    /\ pc[th] \in {"compare", "set_tour"} => op[th] = "update_if_better"
    /\ pc[th] = "copy_tour" => op[th] \in {"get_tour", "check_feasibility"}
    /\ pc[th] = "read_cost" => op[th] \in {"get_cost", "check_feasibility"}
    /\ pc[th] \in {"parse", "recompute"} => op[th] = "load"
    /\ op[th] = "update_if_better" => arg[th] \in Offers
    /\ op[th] \in Ops \ {"update_if_better"} => arg[th] = Blank

\* The mutex and the critical sections say the same thing.
LockInv == \A th \in Threads : InCS(th) <=> mutex = th

\* A saved tour copy is the tour of the object for as long as it is kept.
CopyInv ==
  \A th \in Threads :
    copy[th] = IF pc[th] = "read_cost" /\ op[th] = "check_feasibility" THEN tour ELSE Unknown

\* The tour a loader computes the cost of is a tour, and is known as loaded.
LoadInv == \A th \in Threads : pc[th] = "recompute" => tour \in Tours /\ loaded # "never"

\* Nothing is handed back before the call has read what it came for.
SeenInv == \A th \in Threads : pc[th] \notin {"idle", "unlock"} => seen[th] = Blank

IInv == TypeOK /\ OpInv /\ LockInv /\ CopyInv /\ LoadInv /\ SeenInv

\* The invariant holds when the object has been created.
LEMMA InitIInv == Init => IInv
<1> SUFFICES ASSUME Init PROVE IInv
  OBVIOUS
<1>1. TypeOK
  <2>1. cost \in Int /\ tour \in Tours
    BY SolutionAssumption DEF Init
  <2>2. QED
    BY <2>1 DEF Init, TypeOK, Blank
<1>2. OpInv
  BY SolutionAssumption DEF Init, OpInv, Ops
<1>3. LockInv
  BY SolutionAssumption DEF Init, LockInv, InCS
<1>4. CopyInv /\ LoadInv /\ SeenInv
  BY DEF Init, CopyInv, LoadInv, SeenInv
<1> QED
  BY <1>1, <1>2, <1>3, <1>4 DEF IInv

\* Every step keeps the invariant.
LEMMA NextIInv == IInv /\ [Next]_vars => IInv'
<1> SUFFICES ASSUME IInv, [Next]_vars PROVE IInv'
  OBVIOUS
<1> USE SolutionAssumption DEF IInv, TypeOK, OpInv, LockInv, CopyInv, LoadInv, SeenInv, InCS, Blank, Goto, Ops
<1>1. ASSUME NEW th \in Threads, Call(th) PROVE IInv'
  <2>1. TypeOK'
    <3>1. \E o \in Ops : op' = [op EXCEPT ![th] = o]
      BY <1>1 DEF Call
    <3>2. \E a \in Offers \cup {Blank} : arg' = [arg EXCEPT ![th] = a]
      BY <1>1 DEF Call
    <3> QED
      BY <1>1, <3>1, <3>2 DEF Call
  <2>2. OpInv'
    BY <1>1 DEF Call
  <2>3. LockInv' /\ LoadInv' /\ SeenInv'
    BY <1>1 DEF Call
  <2>4. CopyInv'
    BY <1>1 DEF Call
  <2> QED
    BY <2>1, <2>2, <2>3, <2>4
<1>2. ASSUME NEW th \in Threads, Lock(th) PROVE IInv'
  BY <1>2 DEF Lock, FirstStep
<1>3. ASSUME NEW th \in Threads, Compare(th) PROVE IInv'
  <2>0. cost' \in Int
    BY <1>3 DEF Compare
  <2>1. pc' \in [Threads -> {"idle", "lock", "compare", "set_tour", "copy_tour",
                             "read_cost", "parse", "recompute", "unlock"}]
    <3>1. pc' \in {[pc EXCEPT ![th] = "set_tour"], [pc EXCEPT ![th] = "unlock"]}
      BY <1>3 DEF Compare
    <3> QED
      BY <3>1
  <2>2. TypeOK'
    BY <1>3, <2>0, <2>1 DEF Compare
  <2>3. OpInv' /\ LockInv' /\ LoadInv' /\ SeenInv' /\ CopyInv'
    BY <1>3 DEF Compare
  <2> QED
    BY <2>2, <2>3
<1>4. ASSUME NEW th \in Threads, SetTour(th) PROVE IInv'
  BY <1>4 DEF SetTour
<1>5. ASSUME NEW th \in Threads, CopyTour(th) PROVE IInv'
  <2>1. seen' \in [Threads -> [tour : Tours \cup Garbled \cup {Unknown}, cost : Int \cup {Unknown}]]
    BY <1>5 DEF CopyTour
  <2>2. pc' = [pc EXCEPT ![th] = IF op[th] = "get_tour" THEN "unlock" ELSE "read_cost"]
    BY <1>5 DEF CopyTour
  <2>3. TypeOK'
    BY <1>5, <2>1, <2>2 DEF CopyTour
  <2>4. OpInv' /\ LockInv'
    BY <1>5, <2>2 DEF CopyTour
  <2>5. CopyInv' /\ LoadInv' /\ SeenInv'
    BY <1>5, <2>2 DEF CopyTour
  <2> QED
    BY <2>3, <2>4, <2>5
<1>6. ASSUME NEW th \in Threads, ReadCost(th) PROVE IInv'
  <2>1. seen' \in [Threads -> [tour : Tours \cup Garbled \cup {Unknown}, cost : Int \cup {Unknown}]]
    BY <1>6 DEF ReadCost
  <2>2. TypeOK'
    BY <1>6, <2>1 DEF ReadCost
  <2>3. OpInv' /\ LockInv' /\ LoadInv'
    BY <1>6 DEF ReadCost
  <2>4. CopyInv' /\ SeenInv'
    BY <1>6 DEF ReadCost
  <2> QED
    BY <2>2, <2>3, <2>4
<1>7. ASSUME NEW th \in Threads, Parse(th) PROVE IInv'
  <2>1. tour' \in Tours \cup Garbled /\ loaded' \in {"never", "cleanly", "broken"}
    BY <1>7 DEF Parse
  <2>2. pc' \in {[pc EXCEPT ![th] = "recompute"], [pc EXCEPT ![th] = "unlock"]}
    BY <1>7 DEF Parse
  <2>3. TypeOK'
    BY <1>7, <2>1, <2>2 DEF Parse
  <2>4. OpInv' /\ LockInv'
    BY <1>7, <2>2 DEF Parse
  <2>5. CopyInv' /\ LoadInv' /\ SeenInv'
    BY <1>7 DEF Parse
  <2> QED
    BY <2>3, <2>4, <2>5
<1>8. ASSUME NEW th \in Threads, Recompute(th) PROVE IInv'
  BY <1>8 DEF Recompute
<1>9. ASSUME NEW th \in Threads, Unlock(th) PROVE IInv'
  BY <1>9 DEF Unlock
<1>10. CASE UNCHANGED vars
  BY <1>10 DEF vars
<1> QED
  BY <1>1, <1>2, <1>3, <1>4, <1>5, <1>6, <1>7, <1>8, <1>9, <1>10 DEF Next, Step

\* The inductive invariant holds throughout.
LEMMA Inductive == Spec => []IInv
BY InitIInv, NextIInv, PTL DEF Spec

\* Every field and local keeps its type.
THEOREM TypeCorrect == Spec => []TypeOK
<1>1. IInv => TypeOK
  BY DEF IInv
<1> QED
  BY <1>1, Inductive, PTL

\* At most one thread is between pthread_mutex_lock and pthread_mutex_unlock.
THEOREM Exclusion == Spec => []MutualExclusion
<1>1. IInv => MutualExclusion
  BY DEF IInv, LockInv, MutualExclusion
<1> QED
  BY <1>1, Inductive, PTL

-----------------------------------------------------------------------------
\* The callers the solver has: whoever submits a tour submits its cost with
\* it, up to Eps.
HonestCallers == \A o \in Offers : Matches(o.tour, o.cost)

\* Between its two writes an updater has stored the cost of the tour it is
\* about to copy; at any other time the two fields agree, unless a load has
\* broken them.
PairInv ==
  /\ loaded # "broken" => Matches(AbsTour, AbsCost)
  /\ \A th \in Threads : pc[th] = "set_tour" => cost = arg[th].cost

\* The steps that write a field keep it; nobody else touches the fields.
LEMMA NextPairInv ==
  ASSUME HonestCallers, IInv, PairInv, [Next]_vars
  PROVE  PairInv'
<1> USE SolutionAssumption DEF PairInv, AbsTour, AbsCost, Holding, Matches, IInv, TypeOK,
        OpInv, LockInv, LoadInv, InCS, Goto, HonestCallers
<1>1. ASSUME NEW th \in Threads, Call(th) \/ Lock(th) \/ CopyTour(th) \/ ReadCost(th) \/ Unlock(th)
      PROVE  PairInv'
  <2>1. CASE Call(th)
    BY <2>1 DEF Call
  <2>2. CASE Lock(th)
    <3>1. pc'[th] = FirstStep(op[th]) /\ FirstStep(op[th]) \notin {"set_tour", "recompute"}
      BY <2>2 DEF Lock, FirstStep, Ops
    <3>2. QED
      BY <2>2, <3>1 DEF Lock
  <2>3. CASE CopyTour(th)
    BY <2>3 DEF CopyTour
  <2>4. CASE ReadCost(th)
    BY <2>4 DEF ReadCost
  <2>5. CASE Unlock(th)
    <3>1. AbsTour = tour /\ AbsCost = cost /\ AbsTour' = tour /\ AbsCost' = cost
      BY <2>5 DEF Unlock
    <3>2. QED
      BY <2>5, <3>1 DEF Unlock
  <2> QED
    BY <1>1, <2>1, <2>2, <2>3, <2>4, <2>5
<1>2. ASSUME NEW th \in Threads, Compare(th) PROVE PairInv'
  BY <1>2 DEF Compare
<1>3. ASSUME NEW th \in Threads, SetTour(th) PROVE PairInv'
  BY <1>3 DEF SetTour
<1>4. ASSUME NEW th \in Threads, Parse(th) \/ Recompute(th) PROVE PairInv'
  <2>1. CASE Parse(th)
    BY <2>1 DEF Parse
  <2>2. CASE Recompute(th)
    BY <2>2 DEF Recompute
  <2> QED
    BY <1>4, <2>1, <2>2
<1>5. CASE UNCHANGED vars
  BY <1>5 DEF vars
<1> QED
  BY <1>1, <1>2, <1>3, <1>4, <1>5 DEF Next, Step

\* With honest callers no step makes a torn snapshot.
LEMMA NextNoTornSnapshot ==
  ASSUME HonestCallers, IInv, PairInv, NoTornSnapshot, [Next]_vars
  PROVE  NoTornSnapshot'
<1> USE SolutionAssumption DEF NoTornSnapshot, IInv, TypeOK, OpInv, LockInv, CopyInv, InCS, Goto, Matches, Blank
<1>1. ASSUME NEW th \in Threads, Call(th) PROVE NoTornSnapshot'
  BY <1>1 DEF Call
<1>2. ASSUME NEW th \in Threads, CopyTour(th) PROVE NoTornSnapshot'
  BY <1>2 DEF CopyTour
<1>3. ASSUME NEW th \in Threads, ReadCost(th) PROVE NoTornSnapshot'
  BY <1>3 DEF ReadCost, PairInv, AbsTour, AbsCost, Holding
<1>4. ASSUME UNCHANGED <<op, seen>>, loaded' = loaded \/ loaded' = "broken" \/ loaded # "broken"
      PROVE NoTornSnapshot'
  BY <1>4
<1>5. ASSUME NEW th \in Threads, Parse(th) PROVE NoTornSnapshot'
  BY <1>5, <1>4 DEF Parse
<1> QED
  BY <1>1, <1>2, <1>3, <1>4, <1>5 DEF Next, Step, vars, Lock, Compare, SetTour, Recompute, Unlock

\* check_feasibility never sees the tour of one update with the cost of another.
THEOREM SnapshotsAreWhole ==
  ASSUME HonestCallers
  PROVE  Spec => []NoTornSnapshot
<1>1. Init => PairInv /\ NoTornSnapshot
  BY SolutionAssumption DEF Init, PairInv, AbsTour, AbsCost, Holding, Matches, NoTornSnapshot, Blank
<1>2. IInv /\ PairInv /\ NoTornSnapshot /\ [Next]_vars => (PairInv /\ NoTornSnapshot)'
  BY NextPairInv, NextNoTornSnapshot
<1> QED
  BY <1>1, <1>2, Inductive, PTL DEF Spec

\* Each step leaves the incumbent's pair alone, or leaves a good one, or is a load that fails.
LEMMA PairAfter ==
  ASSUME HonestCallers, IInv, NEW th \in Threads, Call(th) \/ Lock(th) \/ Step(th)
  PROVE  (AbsTour' = AbsTour /\ AbsCost' = AbsCost) \/ Matches(AbsTour, AbsCost)' \/ ParseFails
<1> USE SolutionAssumption DEF AbsTour, AbsCost, Holding, IInv, TypeOK, OpInv, LockInv, LoadInv, InCS, Goto
<1>1. CASE Call(th)
  BY <1>1 DEF Call
<1>2. CASE Lock(th)
  <2>1. pc'[th] = FirstStep(op[th]) /\ FirstStep(op[th]) \notin {"set_tour", "recompute"}
    BY <1>2 DEF Lock, FirstStep, Ops
  <2> QED
    BY <1>2, <2>1 DEF Lock
<1>3. CASE Compare(th)
  <2>1. arg[th] \in Offers /\ Matches(arg[th].tour, arg[th].cost)
    BY <1>3 DEF Compare, HonestCallers
  <2>2. CASE arg[th].cost < cost - Eps
    <3>1. AbsTour' = arg[th].tour /\ AbsCost' = arg[th].cost
      BY <1>3, <2>2 DEF Compare
    <3>2. Matches(AbsTour', AbsCost')
      BY <2>1, <3>1
    <3> QED
      BY <3>2 DEF Matches
  <2>3. CASE ~(arg[th].cost < cost - Eps)
    BY <1>3, <2>3 DEF Compare
  <2> QED
    BY <2>2, <2>3
<1>4. CASE SetTour(th) \/ CopyTour(th) \/ ReadCost(th)
  BY <1>4 DEF SetTour, CopyTour, ReadCost
<1>5. CASE Parse(th)
  <2>1. CASE tour' \in Tours /\ pc' = [pc EXCEPT ![th] = "recompute"]
    <3>1. AbsTour' = tour' /\ AbsCost' = TrueCost[tour']
      BY <1>5, <2>1 DEF Parse
    <3>2. Matches(AbsTour', AbsCost')
      BY <2>1, <3>1 DEF Matches
    <3> QED
      BY <3>2 DEF Matches
  <2>2. CASE pc' = [pc EXCEPT ![th] = "unlock"]
    BY <1>5, <2>2 DEF Parse, ParseFails
  <2> QED
    BY <1>5, <2>1, <2>2 DEF Parse
<1>6. CASE Recompute(th)
  BY <1>6 DEF Recompute
<1>7. CASE Unlock(th)
  BY <1>7 DEF Unlock
<1> QED
  BY <1>1, <1>2, <1>3, <1>4, <1>5, <1>6, <1>7 DEF Step

\* The cost of the incumbent parts from its tour in one step only, a load that fails after it
\* began to overwrite the tour: neither an update between its two writes nor a load that
\* succeeds ever shows another pair.
THEOREM OnlyLoadsBreak ==
  ASSUME HonestCallers
  PROVE  Spec => OnlyAFailedLoadMismatches
<1> DEFINE Kept == Matches(AbsTour, AbsCost) => Matches(AbsTour, AbsCost)' \/ ParseFails
           Same == AbsTour' = AbsTour /\ AbsCost' = AbsCost
<1>1. IInv /\ [Next]_vars => [Kept]_vars
  <2> SUFFICES ASSUME IInv, Next
               PROVE  Kept
    OBVIOUS
  <2>1. Same \/ Matches(AbsTour, AbsCost)' \/ ParseFails
    BY PairAfter DEF Next
  <2>2. Same /\ Matches(AbsTour, AbsCost) => Matches(AbsTour, AbsCost)'
    BY DEF Matches
  <2> QED
    BY <2>1, <2>2
<1> QED
  BY <1>1, Inductive, PTL DEF Spec, OnlyAFailedLoadMismatches

-----------------------------------------------------------------------------
\* What an update in progress knows: it has been refused, or its own cost is
\* the stored one, and from then on the stored cost only falls while nobody
\* loads.
OfferInv ==
  /\ \A th \in Threads : pc[th] = "set_tour" => cost = arg[th].cost
  /\ \A th \in Threads :
       op[th] = "update_if_better" /\ pc[th] \in {"idle", "unlock", "set_tour"} /\ loaded = "never"
         => cost <= arg[th].cost + Eps

\* A candidate that was submitted is never worse than the incumbent by more
\* than Eps afterwards.
THEOREM UpdatesAreNotLost == Spec => []NoLostUpdate
<1> USE SolutionAssumption
<1>1. Init => OfferInv
  BY DEF Init, OfferInv, Ops
<1>2. IInv /\ OfferInv /\ [Next]_vars => OfferInv'
  <2> SUFFICES ASSUME IInv, OfferInv, [Next]_vars PROVE OfferInv'
    OBVIOUS
  <2> USE DEF OfferInv, IInv, TypeOK, OpInv, Goto, Ops
  <2>1. ASSUME NEW th \in Threads, Call(th) PROVE OfferInv'
    BY <2>1 DEF Call
  <2>2. ASSUME NEW th \in Threads, Lock(th) PROVE OfferInv'
    <3>1. pc'[th] \in {"compare", "copy_tour", "read_cost", "parse"}
      BY <2>2 DEF Lock, FirstStep
    <3>2. QED
      BY <2>2, <3>1 DEF Lock
  <2>3. ASSUME NEW th \in Threads, Compare(th) PROVE OfferInv'
    BY <2>3 DEF Compare, LockInv, InCS
  <2>4. ASSUME NEW th \in Threads, SetTour(th) PROVE OfferInv'
    BY <2>4 DEF SetTour
  <2>5. ASSUME NEW th \in Threads, CopyTour(th) \/ ReadCost(th) PROVE OfferInv'
    BY <2>5 DEF CopyTour, ReadCost
  <2>8. ASSUME NEW th \in Threads, Parse(th) \/ Recompute(th) PROVE OfferInv'
    BY <2>8 DEF Parse, Recompute, LoadInv, LockInv, InCS
  <2>6. ASSUME NEW th \in Threads, Unlock(th) PROVE OfferInv'
    BY <2>6 DEF Unlock
  <2>7. CASE UNCHANGED vars
    BY <2>7 DEF vars
  <2> QED
    BY <2>1, <2>2, <2>3, <2>4, <2>5, <2>6, <2>7, <2>8 DEF Next, Step
<1>3. IInv /\ OfferInv => NoLostUpdate
  <2>1. ASSUME IInv, loaded = "never" PROVE AbsCost = cost
    BY <2>1 DEF IInv, TypeOK, LoadInv, AbsCost, Holding
  <2> QED
    BY <2>1 DEF OfferInv, NoLostUpdate
<1> QED
  BY <1>1, <1>2, <1>3, Inductive, PTL DEF Spec

-----------------------------------------------------------------------------
\* A created object is a created incumbent.
LEMMA InitImplements == Init => Abs!IInit
BY SolutionAssumption
   DEF Init, Abs!IInit, Abs!Blank, Abs!Nothing, Abs!Honest, Blank, AbsTour, AbsCost, AbsAsked, Holding, Waiting

\* What a call asks for, and when it stops waiting, depends on its own locals.
LEMMA AskedUnchanged ==
  ASSUME IInv, NEW th \in Threads, NEW l,
         Waiting(th) <=> l \in {"lock", "compare", "copy_tour", "read_cost", "parse"},
         pc' = [pc EXCEPT ![th] = l], UNCHANGED <<op, arg>>
  PROVE  AbsAsked' = AbsAsked
BY DEF IInv, TypeOK, AbsAsked, Waiting, Blank

\* A thread that moves to a label past its effect has its request answered, the others keep theirs.
LEMMA AskedAnswered ==
  ASSUME IInv, NEW th \in Threads, NEW l,
         l \notin {"lock", "compare", "copy_tour", "read_cost", "parse"},
         pc' = [pc EXCEPT ![th] = l], UNCHANGED <<op, arg>>
  PROVE  AbsAsked' = [AbsAsked EXCEPT ![th] = Abs!Nothing]
BY DEF IInv, TypeOK, AbsAsked, Waiting, Blank, Abs!Nothing, Abs!Blank

\* The outstanding request of a thread, read off its label.
LEMMA AskedAt ==
  ASSUME NEW th \in Threads
  PROVE  /\ Waiting(th) => /\ AbsAsked[th] = [op |-> op[th], arg |-> arg[th]]
                            /\ AbsAsked[th].op = op[th]
         /\ ~Waiting(th) => AbsAsked[th] = Abs!Nothing
BY DEF AbsAsked, Abs!Nothing, Abs!Blank, Blank

\* A call is the abstract request.
LEMMA CallAsks ==
  ASSUME IInv, NEW th \in Threads, Call(th)
  PROVE  Abs!Ask(th)
<1> USE DEF IInv, TypeOK, OpInv, AbsTour, AbsCost, Holding, Goto, LockInv, InCS
<1>1. AbsTour' = AbsTour /\ AbsCost' = AbsCost
  BY SolutionAssumption DEF Call
<1>2. AbsAsked[th] = Abs!Nothing
  BY AskedAt DEF Call, Waiting
<1>3. AbsAsked' = [AbsAsked EXCEPT ![th] = [op |-> op'[th], arg |-> arg'[th]]]
  BY DEF Call, AbsAsked, Waiting
<1>4. [op |-> op'[th], arg |-> arg'[th]] \in Abs!Requests
  <2>1. op'[th] \in Ops
    BY DEF Call
  <2>2. IF op'[th] = "update_if_better" THEN arg'[th] \in Offers ELSE arg'[th] = Blank
    BY DEF Call
  <2> QED
    BY <2>1, <2>2 DEF Ops, Abs!Requests, Abs!Blank, Blank
<1>5. seen' = [seen EXCEPT ![th] = Abs!Blank]
  BY DEF Call, Abs!Blank, Blank
<1> QED
  BY <1>1, <1>2, <1>3, <1>4, <1>5 DEF Abs!Ask

\* Every step of an operation is the abstract one that takes effect, or a stutter.
LEMMA StepImplements ==
  ASSUME IInv, [Next]_vars
  PROVE  [Abs!INext]_(Abs!ivars)
<1> USE SolutionAssumption DEF IInv, TypeOK, OpInv, LockInv, InCS, AbsTour, AbsCost, Holding, Goto
<1> DEFINE Same == AbsTour' = AbsTour /\ AbsCost' = AbsCost
           Stutter == Same /\ AbsAsked' = AbsAsked /\ seen' = seen
<1>1. ASSUME NEW th \in Threads, Call(th) PROVE Abs!Ask(th)
  BY <1>1, CallAsks
<1>2. ASSUME NEW th \in Threads, Lock(th) PROVE Stutter
  <2>1. FirstStep(op[th]) \in {"compare", "copy_tour", "read_cost", "parse"}
    BY <1>2 DEF Lock, FirstStep, Ops
  <2>2. Same /\ seen' = seen
    BY <1>2, <2>1 DEF Lock
  <2>3. AbsAsked' = AbsAsked
    BY <1>2, <2>1, AskedUnchanged DEF Lock, Waiting
  <2> QED
    BY <2>2, <2>3
<1>3. ASSUME NEW th \in Threads, Compare(th) PROVE Abs!Offer(th)
  <2>1. AbsAsked[th] = [op |-> "update_if_better", arg |-> arg[th]]
    BY <1>3, AskedAt DEF Compare, Waiting
  <2>2. AbsAsked' = [AbsAsked EXCEPT ![th] = Abs!Nothing]
    BY <1>3, AskedAnswered DEF Compare
  <2>3. [tour |-> AbsTour, cost |-> AbsCost]'
          = IF arg[th].cost < AbsCost - Eps THEN arg[th] ELSE [tour |-> AbsTour, cost |-> AbsCost]
    BY <1>3 DEF Compare
  <2> QED
    BY <1>3, <2>1, <2>2, <2>3 DEF Compare, Abs!Offer, Abs!Answer
<1>4. ASSUME NEW th \in Threads, SetTour(th) PROVE Stutter
  <2>1. Same /\ seen' = seen
    BY <1>4 DEF SetTour
  <2>2. AbsAsked' = AbsAsked
    BY <1>4, AskedUnchanged DEF SetTour, Waiting
  <2> QED
    BY <2>1, <2>2
<1>5. ASSUME NEW th \in Threads, CopyTour(th) PROVE Abs!Observe(th) \/ Stutter
  <2>1. Same /\ AbsTour = tour
    BY <1>5 DEF CopyTour
  <2>2. CASE op[th] = "get_tour"
    <3>1. seen' = [seen EXCEPT ![th] = [Abs!Blank EXCEPT !.tour = tour]]
      BY <1>5, <2>2 DEF CopyTour, SeenInv, Blank, Abs!Blank
    <3>2. AbsAsked[th].op = "get_tour"
      BY <1>5, <2>2, AskedAt DEF CopyTour, Waiting
    <3>3. AbsAsked' = [AbsAsked EXCEPT ![th] = Abs!Nothing]
      BY <1>5, <2>2, AskedAnswered DEF CopyTour
    <3> QED
      BY <2>1, <3>1, <3>2, <3>3 DEF Abs!Observe, Abs!Answer
  <2>3. CASE op[th] = "check_feasibility"
    BY <1>5, <2>1, <2>3, AskedUnchanged DEF CopyTour, Waiting
  <2> QED
    BY <1>5, <2>2, <2>3 DEF CopyTour
<1>6. ASSUME NEW th \in Threads, ReadCost(th) PROVE Abs!Observe(th)
  <2>1. Same /\ AbsTour = tour /\ AbsCost = cost
    BY <1>6 DEF ReadCost
  <2>2. AbsAsked[th].op = op[th] /\ AbsAsked' = [AbsAsked EXCEPT ![th] = Abs!Nothing]
    BY <1>6, AskedAt, AskedAnswered DEF ReadCost, Waiting
  <2>3. copy[th] = IF op[th] = "check_feasibility" THEN tour ELSE Unknown
    BY <1>6 DEF ReadCost, CopyInv
  <2> QED
    BY <1>6, <2>1, <2>2, <2>3 DEF ReadCost, Abs!Observe, Abs!Answer, Abs!Blank
<1>7. ASSUME NEW th \in Threads, Parse(th) PROVE Abs!Reload(th)
  <2>1. AbsAsked[th].op = "load" /\ AbsAsked' = [AbsAsked EXCEPT ![th] = Abs!Nothing]
    BY <1>7, AskedAt, AskedAnswered DEF Parse, Waiting
  <2> QED
    BY <1>7, <2>1 DEF Parse, Abs!Reload, Abs!Honest, Abs!Answer
<1>8. ASSUME NEW th \in Threads, Recompute(th) PROVE Stutter
  <2>1. Same /\ seen' = seen
    BY <1>8 DEF Recompute
  <2>2. AbsAsked' = AbsAsked
    BY <1>8, AskedUnchanged DEF Recompute, Waiting
  <2> QED
    BY <2>1, <2>2
<1>9. ASSUME NEW th \in Threads, Unlock(th) PROVE Stutter
  <2>1. Same /\ seen' = seen
    BY <1>9 DEF Unlock
  <2>2. AbsAsked' = AbsAsked
    BY <1>9, AskedUnchanged DEF Unlock, Waiting
  <2> QED
    BY <2>1, <2>2
<1>10. ASSUME UNCHANGED vars PROVE Stutter
  <2>1. Same /\ seen' = seen
    BY <1>10 DEF vars
  <2>2. AbsAsked' = AbsAsked
    BY <1>10 DEF vars, AbsAsked, Waiting, Blank
  <2> QED
    BY <2>1, <2>2
<1> HIDE DEF IInv, TypeOK, OpInv, LockInv, InCS, AbsTour, AbsCost, Holding, Goto, Same, Stutter
<1>11. Abs!INext \/ Stutter
  BY <1>1, <1>2, <1>3, <1>4, <1>5, <1>6, <1>7, <1>8, <1>9, <1>10 DEF Next, Step, Abs!INext
<1> QED
  BY <1>11 DEF Abs!ivars, Same, Stutter

\* The object with its lock and its two separate field writes behaves as one
\* incumbent that is read and replaced in single steps.
THEOREM Implements == Spec => ImplementsIncumbent
BY InitImplements, StepImplements, Inductive, PTL DEF Spec, ImplementsIncumbent, Abs!ISpec

-----------------------------------------------------------------------------
\* The allocation tracker.
Records == [ptr : Addrs, size : Sizes]

\* What may be left to do of a call.
Todos == { <<>>,
           <<"alloc", "track_add">>, <<"track_add">>,
           <<"track_remove", "release">>, <<"release">>,
           <<"track_remove", "resize", "track_add">>, <<"resize", "track_add">> }

\* The step that comes next.
Phase(td) == IF td = <<>> THEN "idle" ELSE Head(td)

TrackerTypeInv ==
  /\ heap \in [Addrs -> Nat]
  /\ list \in Seq(Records)
  /\ total \in Int
  /\ todo \in [Callers -> Todos]
  /\ ptr \in [Callers -> Addrs \cup {NoAddr}]
  /\ size \in [Callers -> Nat]
  /\ owned \in [Callers -> SUBSET Addrs]
  /\ calls \in [Callers -> Nat]

\* A call of malloc has no block before the allocator has run, the others always have one.
InHand(th) == Phase(todo[th]) \in {"track_remove", "release", "resize", "track_add"}

\* The blocks of a thread, the one its call works on included.
Holds(th) == owned[th] \cup {a \in Addrs : InHand(th) /\ a = ptr[th]}

CallInv ==
  \A th \in Callers :
    /\ Phase(todo[th]) # "idle" => size[th] \in Sizes
    /\ InHand(th) => ptr[th] \in Addrs /\ ptr[th] \notin owned[th]

\* Every allocated block is some thread's, and of one only.
OwnerInv ==
  /\ \A a \in Addrs : heap[a] # 0 <=> \E th \in Callers : a \in Holds(th)
  /\ \A x, y \in Callers : \A a \in Addrs : a \in Holds(x) /\ a \in Holds(y) => x = y

Tracked == {list[i].ptr : i \in 1 .. Len(list)}

\* Which blocks have a record: not the one that a call is about to release, resize or add.
RecordInv ==
  /\ RecordsAreLive
  /\ \A th \in Callers :
       /\ owned[th] \subseteq Tracked
       /\ Phase(todo[th]) = "track_remove" => ptr[th] \in Tracked
       /\ Phase(todo[th]) \in {"release", "resize", "track_add"} => ptr[th] \notin Tracked
       /\ Phase(todo[th]) = "track_add" => heap[ptr[th]] = size[th]

\* The bytes of the recorded blocks.
Charged == [a \in Addrs |-> IF a \in Tracked THEN heap[a] ELSE 0]
Bytes(f) == FoldFunction(+, 0, f)
TotalInv == total = Bytes(Charged)

TrackerInv == TrackerTypeInv /\ CallInv /\ OwnerInv /\ RecordInv /\ TotalInv

-----------------------------------------------------------------------------
\* A set of naturals has a least member.
LEMMA Least ==
  ASSUME NEW S \in SUBSET Nat, S # {}
  PROVE  \E m \in S : \A n \in S : m <= n
<1> DEFINE Below == {p \in Nat \X Nat : p[1] < p[2]}
<1>1. OpToRel(<, Nat) = Below
  BY DEF OpToRel
<1>2. IsWellFoundedOn(Below, Nat)
  BY <1>1, NatLessThanWellFounded
<1>3. \E m \in S : \A n \in S : <<n, m>> \notin Below
  <2> HIDE DEF Below
  <2> QED
    BY <1>2, WFMin
<1>4. \A n, m \in Nat : n < m => <<n, m>> \in Below
  OBVIOUS
<1>5. \A n, m \in Nat : ~(n < m) => m <= n
  OBVIOUS
<1> HIDE DEF Below
<1> QED
  BY <1>3, <1>4, <1>5

\* Induction over the naturals, with the predicate as a set.
LEMMA Induct ==
  ASSUME NEW S, 0 \in S, \A n \in Nat : n \in S => n + 1 \in S
  PROVE  Nat \subseteq S
<1> SUFFICES ASSUME ~(Nat \subseteq S)
             PROVE  FALSE
  OBVIOUS
<1>1. PICK m \in Nat \ S : \A n \in Nat \ S : m <= n
  BY Least
<1>2. m - 1 \in Nat /\ m - 1 \notin S
  BY <1>1
<1> QED
  BY <1>1, <1>2

-----------------------------------------------------------------------------
\* Sums over finite sets.  Adds(u, f, S): u holds the sum of f over every part of S, in
\* whatever order its members are taken.
Adds(u, f, S) ==
  /\ u \in [SUBSET S -> Int]
  /\ u[{}] = 0
  /\ \A T \in SUBSET S : \A x \in T : u[T] = f[x] + u[T \ {x}]

\* Every finite set of integers can be added up.
LEMMA SumExists ==
  ASSUME NEW S, IsFiniteSet(S), NEW f \in [S -> Int]
  PROVE  \E u : Adds(u, f, S)
<1> DEFINE Q == {n \in Nat : \A T \in SUBSET S : Cardinality(T) = n => \E u : Adds(u, f, T)}
<1>1. 0 \in Q
  <2> SUFFICES ASSUME NEW T \in SUBSET S, Cardinality(T) = 0
               PROVE  \E u : Adds(u, f, T)
    OBVIOUS
  <2>1. T = {}
    BY FS_Subset, FS_EmptySet
  <2>2. Adds([x \in SUBSET T |-> 0], f, T)
    BY <2>1 DEF Adds
  <2> QED
    BY <2>2
<1>2. ASSUME NEW n \in Nat, n \in Q
      PROVE  n + 1 \in Q
  <2> SUFFICES ASSUME NEW T \in SUBSET S, Cardinality(T) = n + 1
               PROVE  \E u : Adds(u, f, T)
    OBVIOUS
  <2>0. IsFiniteSet(T) /\ n + 1 # 0 /\ (n + 1) - 1 = n
    BY FS_Subset
  <2>1. PICK x \in T : TRUE
    BY <2>0, FS_EmptySet
  <2> DEFINE R == T \ {x}
  <2>2. Cardinality(R) = n
    BY <2>0, <2>1, FS_RemoveElement
  <2>3. PICK u : Adds(u, f, R)
    BY <1>2, <2>2
  <2> DEFINE v == [A \in SUBSET T |-> IF x \in A THEN f[x] + u[A \ {x}] ELSE u[A]]
  <2>4. \A A \in SUBSET R : u[A] \in Int
    BY <2>3 DEF Adds
  <2>5. \A A \in SUBSET T : A \ {x} \in SUBSET R /\ (x \notin A => A \in SUBSET R)
    OBVIOUS
  <2>6. f[x] \in Int
    BY <2>1
  <2>7. v \in [SUBSET T -> Int] /\ v[{}] = 0
    BY <2>3, <2>4, <2>5, <2>6 DEF Adds
  <2>8. ASSUME NEW A \in SUBSET T, NEW y \in A
        PROVE  v[A] = f[y] + v[A \ {y}]
    <3>1. A \ {y} \in SUBSET T /\ f[y] \in Int
      OBVIOUS
    <3>2. CASE y = x
      BY <3>1, <3>2
    <3>3. CASE y # x /\ x \in A
      <4>1. PICK B \in SUBSET R : B = (A \ {x}) \ {y} /\ B = (A \ {y}) \ {x}
        OBVIOUS
      <4>2. v[A] = f[x] + u[A \ {x}] /\ v[A \ {y}] = f[x] + u[B]
        BY <3>1, <3>3, <4>1
      <4>3. u[A \ {x}] = f[y] + u[B]
        BY <2>3, <2>5, <3>3, <4>1 DEF Adds
      <4>4. u[B] \in Int
        BY <2>4
      <4>5. f[x] + (f[y] + u[B]) = f[y] + (f[x] + u[B])
        BY <2>6, <3>1, <4>4
      <4> HIDE DEF v, R
      <4> QED
        BY <4>2, <4>3, <4>5
    <3>4. CASE x \notin A
      BY <2>3, <2>5, <3>1, <3>4 DEF Adds
    <3> QED
      BY <3>2, <3>3, <3>4
  <2>9. Adds(v, f, T)
    BY <2>7, <2>8 DEF Adds
  <2> QED
    BY <2>9
<1>3. Nat \subseteq Q
  <2> HIDE DEF Q
  <2> QED
    BY <1>1, <1>2, Induct
<1>4. Cardinality(S) \in Nat
  BY FS_CardinalityType
<1> QED
  BY <1>3, <1>4

\* FoldFunction adds up the whole function, whichever way the sums were found.
LEMMA FoldIs ==
  ASSUME NEW S, IsFiniteSet(S), NEW f \in [S -> Int], NEW u, Adds(u, f, S)
  PROVE  Bytes(f) = u[S]
<1> DEFINE Pick(s) == CHOOSE x \in s : TRUE
           Loop(v) == [s \in SUBSET S |-> IF s = {} THEN 0 ELSE f[Pick(s)] + v[s \ {Pick(s)}]]
           w == CHOOSE v : v = Loop(v)
<1>1. Bytes(f) = w[S]
  BY DEF Bytes, FoldFunction, FoldFunctionOnSet, MapThenFoldSet
<1>2. \A s \in SUBSET S : s # {} => Pick(s) \in s
  OBVIOUS
<1>3. u = Loop(u)
  <2> HIDE DEF Pick
  <2> QED
    BY <1>2 DEF Adds
<1>4. w = Loop(w)
  <2> HIDE DEF Loop
  <2> QED
    BY <1>3
<1> HIDE DEF w, Pick
<1>5. \A s \in SUBSET S : w[s] = IF s = {} THEN 0 ELSE f[Pick(s)] + w[s \ {Pick(s)}]
  BY <1>4
<1> DEFINE Q == {n \in Nat : \A T \in SUBSET S : Cardinality(T) = n => w[T] = u[T]}
<1>6. 0 \in Q
  <2> SUFFICES ASSUME NEW T \in SUBSET S, Cardinality(T) = 0
               PROVE  w[T] = u[T]
    OBVIOUS
  <2>1. T = {}
    BY FS_Subset, FS_EmptySet
  <2> QED
    BY <1>5, <2>1 DEF Adds
<1>7. ASSUME NEW n \in Nat, n \in Q
      PROVE  n + 1 \in Q
  <2> SUFFICES ASSUME NEW T \in SUBSET S, Cardinality(T) = n + 1
               PROVE  w[T] = u[T]
    OBVIOUS
  <2>0. IsFiniteSet(T) /\ n + 1 # 0 /\ (n + 1) - 1 = n
    BY FS_Subset
  <2>1. T # {}
    BY <2>0, FS_EmptySet
  <2>2. PICK x \in T : x = Pick(T)
    BY <1>2, <2>1
  <2>3. Cardinality(T \ {x}) = n
    BY <2>0, FS_RemoveElement
  <2>4. w[T \ {x}] = u[T \ {x}]
    BY <1>7, <2>3
  <2>5. w[T] = f[x] + w[T \ {x}]
    BY <1>5, <2>1, <2>2
  <2>6. u[T] = f[x] + u[T \ {x}]
    BY DEF Adds
  <2> QED
    BY <2>4, <2>5, <2>6
<1>8. Nat \subseteq Q
  <2> HIDE DEF Q
  <2> QED
    BY <1>6, <1>7, Induct
<1>9. Cardinality(S) \in Nat /\ S \in SUBSET S
  BY FS_CardinalityType
<1> QED
  BY <1>1, <1>8, <1>9

\* What the sum is worth after one value has changed.
LEMMA FoldChange ==
  ASSUME NEW S, IsFiniteSet(S), NEW f \in [S -> Int], NEW g \in [S -> Int],
         NEW a \in S, \A x \in S : x # a => g[x] = f[x]
  PROVE  /\ Bytes(f) \in Int
         /\ Bytes(g) = Bytes(f) - f[a] + g[a]
<1>1. PICK u : Adds(u, f, S)
  BY SumExists
<1> DEFINE v == [T \in SUBSET S |-> IF a \in T THEN u[T] - f[a] + g[a] ELSE u[T]]
<1>2. \A T \in SUBSET S : u[T] \in Int
  BY <1>1 DEF Adds
<1>3. v \in [SUBSET S -> Int] /\ v[{}] = 0
  BY <1>1, <1>2 DEF Adds
<1>4. ASSUME NEW T \in SUBSET S, NEW x \in T
      PROVE  v[T] = g[x] + v[T \ {x}]
  <2>1. T \ {x} \in SUBSET S /\ u[T] \in Int /\ u[T \ {x}] \in Int /\ f[x] \in Int /\ f[a] \in Int /\ g[a] \in Int
    BY <1>2
  <2>2. u[T] = f[x] + u[T \ {x}]
    BY <1>1 DEF Adds
  <2>3. CASE x = a
    BY <2>1, <2>2, <2>3
  <2>4. CASE x # a /\ a \in T
    <3>1. g[x] = f[x] /\ v[T] = u[T] - f[a] + g[a] /\ v[T \ {x}] = u[T \ {x}] - f[a] + g[a]
      BY <2>1, <2>4
    <3> QED
      BY <2>1, <2>2, <3>1
  <2>5. CASE a \notin T
    BY <2>1, <2>2, <2>5
  <2> QED
    BY <2>3, <2>4, <2>5
<1>5. Adds(v, g, S)
  BY <1>3, <1>4 DEF Adds
<1>6. S \in SUBSET S
  OBVIOUS
<1>7. v[S] = u[S] - f[a] + g[a]
  BY <1>6
<1> HIDE DEF v
<1>8. Bytes(f) = u[S] /\ Bytes(g) = v[S]
  BY <1>1, <1>5, FoldIs
<1> QED
  BY <1>2, <1>6, <1>7, <1>8

\* Nothing adds up to nothing.
LEMMA FoldZero ==
  ASSUME NEW S, IsFiniteSet(S)
  PROVE  Bytes([x \in S |-> 0]) = 0
<1> DEFINE u == [T \in SUBSET S |-> 0]
           f == [x \in S |-> 0]
<1>1. Adds(u, f, S) /\ f \in [S -> Int] /\ u[S] = 0
  BY DEF Adds
<1> HIDE DEF u, f
<1>2. Bytes(f) = 0
  BY <1>1, FoldIs
<1> QED
  BY <1>2 DEF f

-----------------------------------------------------------------------------
\* What each step leaves of the call.
LEMMA TodoFacts ==
  ASSUME NEW td \in Todos
  PROVE  /\ Phase(td) \in {"idle", "alloc", "track_remove", "release", "resize", "track_add"}
         /\ Phase(td) = "idle" <=> td = <<>>
         /\ td # <<>> => Phase(td) = Head(td) /\ Tail(td) \in Todos
         /\ Phase(td) \in {"alloc", "resize"} => Phase(Tail(td)) = "track_add"
         /\ Phase(td) \in {"release", "track_add"} => Phase(Tail(td)) = "idle"
         /\ Phase(td) = "track_remove" => Phase(Tail(td)) \in {"release", "resize"}
<1>1. CASE td = <<>>
  BY <1>1 DEF Phase
<1>2. CASE td \in {<<"track_add">>, <<"release">>}
  BY <1>2 DEF Phase, Todos
<1>3. CASE td = <<"alloc", "track_add">>
  BY <1>3 DEF Phase, Todos
<1>4. CASE td = <<"resize", "track_add">>
  BY <1>4 DEF Phase, Todos
<1>5. CASE td = <<"track_remove", "release">>
  BY <1>5 DEF Phase, Todos
<1>6. CASE td = <<"track_remove", "resize", "track_add">>
  BY <1>6 DEF Phase, Todos
<1> QED
  BY <1>1, <1>2, <1>3, <1>4, <1>5, <1>6 DEF Todos

\* The calls begin with the allocator or with the tracker.
LEMMA StepsFacts ==
  /\ Steps("malloc") \in Todos /\ Phase(Steps("malloc")) = "alloc"
  /\ Steps("free") \in Todos /\ Phase(Steps("free")) = "track_remove"
  /\ Steps("realloc") \in Todos /\ Phase(Steps("realloc")) = "track_remove"
BY DEF Steps, Todos, Phase

\* Taking one record out of the list.
LEMMA RemoveFacts ==
  ASSUME NEW R, NEW l \in Seq(R), NEW m \in 1 .. Len(l)
  PROVE  /\ RemoveAt(l, m) \in Seq(R)
         /\ Len(RemoveAt(l, m)) = Len(l) - 1
         /\ \A k \in 1 .. Len(l) - 1 : RemoveAt(l, m)[k] = IF k < m THEN l[k] ELSE l[k + 1]
<1> DEFINE u == SubSeq(l, 1, m - 1)
           v == SubSeq(l, m + 1, Len(l))
<1>1. u \in Seq(R) /\ Len(u) = m - 1 /\ \A k \in 1 .. m - 1 : u[k] = l[k]
  OBVIOUS
<1>2. v \in Seq(R) /\ Len(v) = Len(l) - m /\ \A k \in 1 .. Len(l) - m : v[k] = l[m + k]
  OBVIOUS
<1>3. RemoveAt(l, m) = u \o v
  BY DEF RemoveAt
<1> HIDE DEF u, v
<1>4. /\ u \o v \in Seq(R)
      /\ Len(u \o v) = Len(l) - 1
      /\ \A k \in 1 .. Len(l) - 1 : (u \o v)[k] = IF k < m THEN u[k] ELSE v[k - (m - 1)]
  <2>1. /\ u \o v \in Seq(R)
        /\ Len(u \o v) = Len(u) + Len(v)
        /\ \A k \in 1 .. Len(u) + Len(v) : (u \o v)[k] = IF k <= Len(u) THEN u[k] ELSE v[k - Len(u)]
    <3>1. u \in Seq(R) /\ v \in Seq(R)
      BY <1>1, <1>2
    <3> QED
      BY <3>1
  <2>2. Len(u) + Len(v) = Len(l) - 1 /\ Len(l) \in Nat /\ m \in Nat
    BY <1>1, <1>2
  <2>3. \A k \in 1 .. Len(l) - 1 : k <= m - 1 <=> k < m
    BY <2>2
  <2> QED
    BY <1>1, <2>1, <2>2, <2>3
<1>5. ASSUME NEW k \in 1 .. Len(l) - 1
      PROVE  (u \o v)[k] = IF k < m THEN l[k] ELSE l[k + 1]
  <2>1. CASE k < m
    BY <1>1, <1>4, <2>1
  <2>2. CASE ~(k < m)
    <3>1. k - (m - 1) \in 1 .. Len(l) - m /\ m + (k - (m - 1)) = k + 1
      BY <2>2
    <3> QED
      BY <1>2, <1>4, <2>2, <3>1
  <2> QED
    BY <2>1, <2>2
<1> QED
  BY <1>3, <1>4, <1>5

\* Only blocks in use are recorded, with positive sizes.
LEMMA TrackedFacts ==
  ASSUME TrackerTypeInv, RecordsAreLive
  PROVE  /\ Tracked \subseteq Addrs
         /\ \A a \in Tracked : heap[a] # 0
         /\ Charged \in [Addrs -> Int]
<1>1. \A k \in 1 .. Len(list) : list[k] \in Records
  BY DEF TrackerTypeInv
<1> QED
  BY <1>1, TrackerAssumption DEF Records, Tracked, RecordsAreLive, Charged, TrackerTypeInv

\* Steps of the allocator that leave the recorded blocks alone.
LEMMA OutsideTheList ==
  ASSUME TrackerInv, list' = list, total' = total,
         \A a \in Tracked : heap'[a] = heap[a]
  PROVE  RecordsAreLive' /\ TotalInv' /\ Tracked' = Tracked
<1>1. Tracked' = Tracked
  BY DEF Tracked
<1>2. RecordsAreLive'
  BY DEF TrackerInv, RecordInv, RecordsAreLive, Tracked
<1>3. Charged' = Charged
  BY <1>1 DEF Charged
<1> QED
  BY <1>1, <1>2, <1>3 DEF TrackerInv, TotalInv

\* A step of a call under way.
LEMMA StepTaken ==
  ASSUME TrackerTypeInv, NEW th \in Callers, NEW step, At(th, step)
  PROVE  /\ Phase(todo[th]) = step
         /\ todo' \in [Callers -> Todos]
         /\ \A x \in Callers : x # th => todo'[x] = todo[x]
         /\ step \in {"alloc", "resize"} => Phase(todo'[th]) = "track_add"
         /\ step \in {"release", "track_add"} => Phase(todo'[th]) = "idle"
         /\ step = "track_remove" => Phase(todo'[th]) \in {"release", "resize"}
<1>1. todo \in [Callers -> Todos] /\ todo[th] \in Todos
  BY DEF TrackerTypeInv
<1>2. todo[th] # <<>> /\ Head(todo[th]) = step /\ todo' = [todo EXCEPT ![th] = Tail(todo[th])]
  BY DEF At
<1>3. Phase(todo[th]) = step /\ Tail(todo[th]) \in Todos
  BY <1>1, <1>2, TodoFacts
<1>4. todo'[th] = Tail(todo[th])
  BY <1>1, <1>2
<1>5. todo' \in [Callers -> Todos] /\ \A x \in Callers : x # th => todo'[x] = todo[x]
  BY <1>1, <1>2, <1>3
<1> QED
  BY <1>1, <1>3, <1>4, <1>5, TodoFacts

\* A thread that does nothing keeps what it has.
LEMMA Bystander ==
  ASSUME NEW x \in Callers, todo'[x] = todo[x], ptr'[x] = ptr[x], owned'[x] = owned[x]
  PROVE  Holds(x)' = Holds(x) /\ (InHand(x)' <=> InHand(x))
BY DEF Holds, InHand

\* Ownership after thread th gave up the blocks in old and got those in new.
LEMMA OwnersAfter ==
  ASSUME TrackerInv, NEW th \in Callers,
         NEW old \in SUBSET Addrs, NEW new \in SUBSET Addrs,
         old \subseteq Holds(th),
         Holds(th)' = (Holds(th) \ old) \cup new,
         \A x \in Callers : x # th => Holds(x)' = Holds(x),
         \A a \in new : a \in old \/ heap[a] = 0,
         \A a \in Addrs : heap'[a] # 0 <=> (heap[a] # 0 /\ a \notin old) \/ a \in new
  PROVE  OwnerInv'
<1>1. \A a \in Addrs : heap[a] # 0 <=> \E x \in Callers : a \in Holds(x)
  BY DEF TrackerInv, OwnerInv
<1>2. \A x, y \in Callers : \A a \in Addrs : a \in Holds(x) /\ a \in Holds(y) => x = y
  BY DEF TrackerInv, OwnerInv
<1>3. ASSUME NEW a \in Addrs
      PROVE  heap'[a] # 0 <=> \E x \in Callers : a \in Holds(x)'
  <2>1. CASE a \in new
    BY <2>1
  <2>2. CASE a \notin new
    <3>1. ASSUME NEW x \in Callers
          PROVE  a \in Holds(x)' <=> a \in Holds(x) /\ a \notin old
      <4>1. CASE x = th
        BY <2>2, <4>1
      <4>2. CASE x # th
        BY <1>2, <4>2
      <4> QED
        BY <4>1, <4>2
    <3> QED
      BY <1>1, <2>2, <3>1
  <2> QED
    BY <2>1, <2>2
<1>4. ASSUME NEW y \in Callers, y # th, NEW a \in Addrs, a \in Holds(th)', a \in Holds(y)'
      PROVE  FALSE
  <2>1. a \in Holds(y) /\ a \notin Holds(th)
    BY <1>2, <1>4
  <2>2. a \in new
    BY <1>4, <2>1
  <2>3. heap[a] = 0
    BY <2>1, <2>2
  <2> QED
    BY <1>1, <2>1, <2>3
<1>5. ASSUME NEW x \in Callers, NEW y \in Callers, NEW a \in Addrs, a \in Holds(x)', a \in Holds(y)'
      PROVE  x = y
  <2>1. CASE x = th \/ y = th
    BY <1>4, <1>5, <2>1
  <2>2. CASE x # th /\ y # th
    BY <1>2, <1>5, <2>2
  <2> QED
    BY <2>1, <2>2
<1> QED
  BY <1>3, <1>5 DEF OwnerInv

\* malloc's first step: a free block, which nobody holds and the list does not mention.
LEMMA AllocKeeps ==
  ASSUME TrackerInv, NEW th \in Callers, Alloc(th)
  PROVE  TrackerInv'
<1> USE DEF TrackerInv
<1>1. PICK a \in Addrs : heap[a] = 0 /\ heap' = [heap EXCEPT ![a] = size[th]] /\ ptr' = [ptr EXCEPT ![th] = a]
  BY DEF Alloc
<1>2. At(th, "alloc") /\ list' = list /\ total' = total /\ size' = size /\ owned' = owned /\ calls' = calls
  BY DEF Alloc
<1>3. /\ Phase(todo[th]) = "alloc" /\ Phase(todo'[th]) = "track_add"
      /\ todo' \in [Callers -> Todos]
      /\ \A x \in Callers : x # th => todo'[x] = todo[x]
  BY <1>2, StepTaken
<1>4. size[th] \in Sizes /\ size[th] \in Nat \ {0}
  BY <1>3, TrackerAssumption DEF CallInv
<1>5. TrackerTypeInv'
  BY <1>1, <1>2, <1>3, <1>4 DEF TrackerTypeInv
<1>6. /\ ptr'[th] = a /\ heap'[a] = size[th]
      /\ \A y \in Addrs : y # a => heap'[y] = heap[y]
      /\ \A x \in Callers : x # th => ptr'[x] = ptr[x]
  BY <1>1 DEF TrackerTypeInv
<1>7. \A x \in Callers : a \notin Holds(x) /\ a \notin owned[x]
  BY <1>1 DEF OwnerInv, Holds
<1>8. \A x \in Callers : x # th => Holds(x)' = Holds(x) /\ (InHand(x)' <=> InHand(x))
  BY <1>2, <1>3, <1>6, Bystander
<1>9. a \notin Tracked
  BY <1>1, TrackedFacts DEF RecordInv
<1>10. RecordsAreLive' /\ TotalInv' /\ Tracked' = Tracked
  <2>1. \A y \in Tracked : heap'[y] = heap[y]
    BY <1>6, <1>9, TrackedFacts DEF RecordInv
  <2> QED
    BY <1>2, <2>1, OutsideTheList
<1>11. CallInv'
  BY <1>2, <1>3, <1>4, <1>6, <1>7, <1>8 DEF CallInv
<1>12. OwnerInv'
  <2>1. Holds(th) = owned[th] /\ Holds(th)' = owned[th] \cup {a}
    BY <1>2, <1>3, <1>6 DEF Holds, InHand
  <2>2. PICK old \in SUBSET Addrs, new \in SUBSET Addrs : old = {} /\ new = {a}
    OBVIOUS
  <2>3. /\ old \subseteq Holds(th)
        /\ Holds(th)' = (Holds(th) \ old) \cup new
        /\ \A y \in new : y \in old \/ heap[y] = 0
    BY <1>1, <2>1, <2>2
  <2>4. \A y \in Addrs : heap'[y] # 0 <=> (heap[y] # 0 /\ y \notin old) \/ y \in new
    BY <1>4, <1>6, <2>2
  <2> QED
    BY <1>8, <2>3, <2>4, OwnersAfter
<1>13. RecordInv'
  <2>1. ASSUME NEW x \in Callers
        PROVE  /\ owned'[x] \subseteq Tracked'
               /\ Phase(todo'[x]) = "track_remove" => ptr'[x] \in Tracked'
               /\ Phase(todo'[x]) \in {"release", "resize", "track_add"} => ptr'[x] \notin Tracked'
               /\ Phase(todo'[x]) = "track_add" => heap'[ptr'[x]] = size'[x]
    <3>1. CASE x = th
      BY <1>2, <1>3, <1>6, <1>9, <1>10, <3>1 DEF RecordInv
    <3>2. CASE x # th
      <4>1. Phase(todo[x]) = "track_add" => ptr[x] \in Addrs /\ ptr[x] # a
        BY <1>7 DEF CallInv, InHand, Holds
      <4> QED
        BY <1>2, <1>3, <1>6, <1>10, <3>2, <4>1 DEF RecordInv
    <3> QED
      BY <3>1, <3>2
  <2> QED
    BY <1>10, <2>1 DEF RecordInv
<1> QED
  BY <1>5, <1>10, <1>11, <1>12, <1>13

\* realloc's middle step: the block, which has no record by now, is given up for another
\* one or for itself.
LEMMA ResizeKeeps ==
  ASSUME TrackerInv, NEW th \in Callers, Resize(th)
  PROVE  TrackerInv'
<1> USE DEF TrackerInv
<1>1. At(th, "resize") /\ list' = list /\ total' = total /\ size' = size /\ owned' = owned /\ calls' = calls
  BY DEF Resize
<1>2. /\ Phase(todo[th]) = "resize" /\ Phase(todo'[th]) = "track_add"
      /\ todo' \in [Callers -> Todos]
      /\ \A x \in Callers : x # th => todo'[x] = todo[x]
  BY <1>1, StepTaken
<1>3. PICK b \in Addrs : b = ptr[th] /\ b \notin owned[th] /\ b \notin Tracked
  BY <1>2 DEF CallInv, InHand, RecordInv
<1>4. PICK a \in Addrs : /\ a = b \/ heap[a] = 0
                         /\ heap' = [heap EXCEPT ![b] = 0, ![a] = size[th]]
                         /\ ptr' = [ptr EXCEPT ![th] = a]
  BY <1>3 DEF Resize
<1>5. size[th] \in Sizes /\ size[th] \in Nat \ {0}
  BY <1>2, TrackerAssumption DEF CallInv
<1>6. TrackerTypeInv'
  BY <1>1, <1>2, <1>4, <1>5 DEF TrackerTypeInv
<1>7. /\ ptr'[th] = a /\ heap'[a] = size[th]
      /\ b # a => heap'[b] = 0
      /\ \A y \in Addrs : y # a /\ y # b => heap'[y] = heap[y]
      /\ \A x \in Callers : x # th => ptr'[x] = ptr[x]
  BY <1>4 DEF TrackerTypeInv
<1>8. b \in Holds(th) /\ heap[b] # 0
  BY <1>2, <1>3 DEF Holds, InHand, OwnerInv
<1>9. \A x \in Callers : x # th => a \notin Holds(x) /\ b \notin Holds(x)
  BY <1>4, <1>8 DEF OwnerInv
<1>10. a \notin owned[th]
  BY <1>3, <1>4 DEF OwnerInv, Holds
<1>11. \A x \in Callers : x # th => Holds(x)' = Holds(x) /\ (InHand(x)' <=> InHand(x))
  BY <1>1, <1>2, <1>7, Bystander
<1>12. a \notin Tracked
  BY <1>3, <1>4, TrackedFacts DEF RecordInv
<1>13. RecordsAreLive' /\ TotalInv' /\ Tracked' = Tracked
  <2>1. \A y \in Tracked : heap'[y] = heap[y]
    BY <1>3, <1>7, <1>12, TrackedFacts DEF RecordInv
  <2> QED
    BY <1>1, <2>1, OutsideTheList
<1>14. CallInv'
  BY <1>1, <1>2, <1>5, <1>7, <1>10, <1>11 DEF CallInv
<1>15. OwnerInv'
  <2>1. Holds(th) = owned[th] \cup {b} /\ Holds(th)' = owned[th] \cup {a}
    BY <1>1, <1>2, <1>3, <1>7 DEF Holds, InHand
  <2>2. PICK old \in SUBSET Addrs, new \in SUBSET Addrs : old = {b} /\ new = {a}
    OBVIOUS
  <2>3. /\ old \subseteq Holds(th)
        /\ Holds(th)' = (Holds(th) \ old) \cup new
        /\ \A y \in new : y \in old \/ heap[y] = 0
    BY <1>3, <1>4, <2>1, <2>2
  <2>4. \A y \in Addrs : heap'[y] # 0 <=> (heap[y] # 0 /\ y \notin old) \/ y \in new
    BY <1>5, <1>7, <2>2
  <2> QED
    BY <1>11, <2>3, <2>4, OwnersAfter
<1>16. RecordInv'
  <2>1. ASSUME NEW x \in Callers
        PROVE  /\ owned'[x] \subseteq Tracked'
               /\ Phase(todo'[x]) = "track_remove" => ptr'[x] \in Tracked'
               /\ Phase(todo'[x]) \in {"release", "resize", "track_add"} => ptr'[x] \notin Tracked'
               /\ Phase(todo'[x]) = "track_add" => heap'[ptr'[x]] = size'[x]
    <3>1. CASE x = th
      BY <1>1, <1>2, <1>7, <1>12, <1>13, <3>1 DEF RecordInv
    <3>2. CASE x # th
      <4>1. Phase(todo[x]) = "track_add" => ptr[x] \in Addrs /\ ptr[x] # a /\ ptr[x] # b
        BY <1>9, <3>2 DEF CallInv, InHand, Holds
      <4> QED
        BY <1>1, <1>2, <1>7, <1>13, <3>2, <4>1 DEF RecordInv
    <3> QED
      BY <3>1, <3>2
  <2> QED
    BY <1>13, <2>1 DEF RecordInv
<1> QED
  BY <1>6, <1>13, <1>14, <1>15, <1>16

\* free's last step: the block, which has no record by now, goes back to the allocator.
LEMMA ReleaseKeeps ==
  ASSUME TrackerInv, NEW th \in Callers, Release(th)
  PROVE  TrackerInv'
<1> USE DEF TrackerInv
<1>1. /\ At(th, "release") /\ heap' = [heap EXCEPT ![ptr[th]] = 0]
      /\ list' = list /\ total' = total /\ ptr' = ptr /\ size' = size /\ owned' = owned /\ calls' = calls
  BY DEF Release
<1>2. /\ Phase(todo[th]) = "release" /\ Phase(todo'[th]) = "idle"
      /\ todo' \in [Callers -> Todos]
      /\ \A x \in Callers : x # th => todo'[x] = todo[x]
  BY <1>1, StepTaken
<1>3. PICK b \in Addrs : b = ptr[th] /\ b \notin owned[th] /\ b \notin Tracked
  BY <1>2 DEF CallInv, InHand, RecordInv
<1>4. TrackerTypeInv'
  BY <1>1, <1>2, <1>3 DEF TrackerTypeInv
<1>5. heap'[b] = 0 /\ \A y \in Addrs : y # b => heap'[y] = heap[y]
  BY <1>1, <1>3 DEF TrackerTypeInv
<1>6. b \in Holds(th)
  BY <1>2, <1>3 DEF Holds, InHand
<1>7. \A x \in Callers : x # th => b \notin Holds(x)
  BY <1>6 DEF OwnerInv
<1>8. \A x \in Callers : x # th => Holds(x)' = Holds(x) /\ (InHand(x)' <=> InHand(x))
  BY <1>1, <1>2, Bystander
<1>9. RecordsAreLive' /\ TotalInv' /\ Tracked' = Tracked
  <2>1. \A y \in Tracked : heap'[y] = heap[y]
    BY <1>3, <1>5, TrackedFacts DEF RecordInv
  <2> QED
    BY <1>1, <2>1, OutsideTheList
<1>10. CallInv'
  BY <1>1, <1>2, <1>8 DEF CallInv, InHand
<1>11. OwnerInv'
  <2>1. Holds(th) = owned[th] \cup {b} /\ Holds(th)' = owned[th]
    BY <1>1, <1>2, <1>3 DEF Holds, InHand
  <2>2. PICK old \in SUBSET Addrs, new \in SUBSET Addrs : old = {b} /\ new = {}
    OBVIOUS
  <2>3. /\ old \subseteq Holds(th)
        /\ Holds(th)' = (Holds(th) \ old) \cup new
        /\ \A y \in new : y \in old \/ heap[y] = 0
    BY <1>3, <2>1, <2>2
  <2>4. \A y \in Addrs : heap'[y] # 0 <=> (heap[y] # 0 /\ y \notin old) \/ y \in new
    BY <1>5, <2>2
  <2> QED
    BY <1>8, <2>3, <2>4, OwnersAfter
<1>12. RecordInv'
  <2>1. ASSUME NEW x \in Callers
        PROVE  /\ owned'[x] \subseteq Tracked'
               /\ Phase(todo'[x]) = "track_remove" => ptr'[x] \in Tracked'
               /\ Phase(todo'[x]) \in {"release", "resize", "track_add"} => ptr'[x] \notin Tracked'
               /\ Phase(todo'[x]) = "track_add" => heap'[ptr'[x]] = size'[x]
    <3>1. CASE x = th
      BY <1>1, <1>2, <1>9, <3>1 DEF RecordInv
    <3>2. CASE x # th
      <4>1. Phase(todo[x]) = "track_add" => ptr[x] \in Addrs /\ ptr[x] # b
        BY <1>7, <3>2 DEF CallInv, InHand, Holds
      <4> QED
        BY <1>1, <1>2, <1>5, <1>9, <3>2, <4>1 DEF RecordInv
    <3> QED
      BY <3>1, <3>2
  <2> QED
    BY <1>9, <2>1 DEF RecordInv
<1> QED
  BY <1>4, <1>9, <1>10, <1>11, <1>12

-----------------------------------------------------------------------------
\* Putting one record in front of the list.
LEMMA AddFacts ==
  ASSUME NEW R, NEW l \in Seq(R), NEW r \in R
  PROVE  /\ <<r>> \o l \in Seq(R)
         /\ Len(<<r>> \o l) = Len(l) + 1
         /\ \A k \in 1 .. Len(l) + 1 : (<<r>> \o l)[k] = IF k = 1 THEN r ELSE l[k - 1]
<1>1. <<r>> \in Seq(R) /\ Len(<<r>>) = 1 /\ <<r>>[1] = r /\ Len(l) \in Nat
  OBVIOUS
<1> DEFINE one == <<r>>
<1> HIDE DEF one
<1>2. /\ one \o l \in Seq(R)
      /\ Len(one \o l) = 1 + Len(l)
      /\ \A k \in 1 .. 1 + Len(l) : (one \o l)[k] = IF k <= 1 THEN one[k] ELSE l[k - 1]
  BY <1>1 DEF one
<1>3. \A k \in 1 .. Len(l) + 1 : k <= 1 <=> k = 1
  OBVIOUS
<1> QED
  BY <1>1, <1>2, <1>3 DEF one

\* What the list's two operations do to the recorded blocks and their bytes: the total
\* changes by the size of the one record.
LEMMA AddedIsRecorded ==
  ASSUME TrackerTypeInv, RecordsAreLive, TotalInv, heap' = heap,
         NEW b \in Addrs \ Tracked, heap[b] \in Sizes,
         list' = <<[ptr |-> b, size |-> heap[b]]>> \o list, total' = total + heap[b]
  PROVE  /\ RecordsAreLive' /\ TotalInv' /\ list' \in Seq(Records) /\ total' \in Int
         /\ Tracked' = Tracked \cup {b}
<1> DEFINE r == [ptr |-> b, size |-> heap[b]]
<1>1. r \in Records /\ r.ptr = b /\ r.size = heap[b]
  BY DEF Records
<1>2. list \in Seq(Records) /\ Len(list) \in Nat /\ heap \in [Addrs -> Nat]
  BY DEF TrackerTypeInv
<1> HIDE DEF r
<1>3. /\ list' \in Seq(Records) /\ Len(list') = Len(list) + 1
      /\ \A k \in 1 .. Len(list) + 1 : list'[k] = IF k = 1 THEN r ELSE list[k - 1]
  BY <1>1, <1>2, AddFacts DEF r
<1>4. \A k \in 1 .. Len(list) : list[k].ptr # b
  BY DEF Tracked
<1>5. Tracked' = Tracked \cup {b}
  <2>1. \A k \in 1 .. Len(list') : list'[k].ptr \in Tracked \cup {b}
    <3> SUFFICES ASSUME NEW k \in 1 .. Len(list')
                 PROVE  list'[k].ptr \in Tracked \cup {b}
      OBVIOUS
    <3>1. CASE k = 1
      BY <1>1, <1>3, <3>1
    <3>2. CASE k # 1
      <4>1. k - 1 \in 1 .. Len(list) /\ list'[k] = list[k - 1]
        BY <1>2, <1>3, <3>2
      <4> QED
        BY <4>1 DEF Tracked
    <3> QED
      BY <3>1, <3>2
  <2>2. b = list'[1].ptr /\ 1 \in 1 .. Len(list')
    BY <1>1, <1>2, <1>3
  <2>3. ASSUME NEW k \in 1 .. Len(list)
        PROVE  k + 1 \in 1 .. Len(list') /\ list'[k + 1].ptr = list[k].ptr
    <3>1. k + 1 \in 1 .. Len(list) + 1 /\ k + 1 # 1 /\ (k + 1) - 1 = k
      BY <1>2
    <3> QED
      BY <1>3, <3>1
  <2> QED
    BY <2>1, <2>2, <2>3 DEF Tracked
<1>6. ASSUME NEW k \in 1 .. Len(list'), NEW n \in 1 .. Len(list')
      PROVE  /\ heap'[list'[k].ptr] = list'[k].size
             /\ list'[k].ptr = list'[n].ptr => k = n
  <2>1. k = 1 \/ k - 1 \in 1 .. Len(list)
    BY <1>2, <1>3
  <2>2. n = 1 \/ n - 1 \in 1 .. Len(list)
    BY <1>2, <1>3
  <2>3. k = 1 => list'[k] = r
    BY <1>3
  <2>4. n = 1 => list'[n] = r
    BY <1>3
  <2>5. k # 1 => list'[k] = list[k - 1]
    BY <1>3
  <2>6. n # 1 => list'[n] = list[n - 1]
    BY <1>3
  <2>7. k - 1 = n - 1 => k = n
    OBVIOUS
  <2>8. CASE k = 1
    BY <1>1, <1>4, <2>2, <2>3, <2>4, <2>6, <2>8
  <2>9. CASE k # 1
    <3>1. list'[k] = list[k - 1] /\ k - 1 \in 1 .. Len(list)
      BY <2>1, <2>5, <2>9
    <3>2. heap'[list'[k].ptr] = list'[k].size
      BY <3>1 DEF RecordsAreLive
    <3>3. ASSUME list'[k].ptr = list'[n].ptr
          PROVE  n # 1 /\ n - 1 \in 1 .. Len(list) /\ list[k - 1].ptr = list[n - 1].ptr
      BY <1>1, <1>4, <2>2, <2>4, <2>6, <3>1, <3>3
    <3>4. list'[k].ptr = list'[n].ptr => k - 1 = n - 1
      BY <3>1, <3>3 DEF RecordsAreLive
    <3> QED
      BY <2>7, <3>2, <3>4
  <2> QED
    BY <2>8, <2>9
<1>7. RecordsAreLive'
  BY <1>6 DEF RecordsAreLive
<1>8. total' \in Int /\ TotalInv'
  <2>1. Charged \in [Addrs -> Int] /\ Charged[b] = 0
    BY TrackedFacts DEF Charged
  <2>2. /\ Charged' \in [Addrs -> Int] /\ Charged'[b] = heap[b]
        /\ \A a \in Addrs : a # b => Charged'[a] = Charged[a]
    BY <1>2, <1>5 DEF Charged
  <2>3. /\ Bytes(Charged) \in Int
        /\ Bytes(Charged') = Bytes(Charged) - Charged[b] + heap[b]
    <3>1. PICK f \in [Addrs -> Int] : f = Charged
      BY <2>1
    <3>2. PICK g \in [Addrs -> Int] : g = Charged'
      BY <2>2
    <3>3. g[b] = heap[b] /\ \A a \in Addrs : a # b => g[a] = f[a]
      BY <2>2, <3>1, <3>2
    <3>4. IsFiniteSet(Addrs)
      BY TrackerAssumption
    <3>5. Bytes(f) \in Int /\ Bytes(g) = Bytes(f) - f[b] + g[b]
      BY <3>3, <3>4, FoldChange
    <3> QED
      BY <3>1, <3>2, <3>3, <3>5
  <2>4. total = Bytes(Charged) /\ heap[b] \in Nat
    BY <1>2 DEF TotalInv
  <2>5. total' = Bytes(Charged')
    BY <2>1, <2>2, <2>3, <2>4
  <2> QED
    BY <2>3, <2>4, <2>5 DEF TotalInv
<1> QED
  BY <1>3, <1>5, <1>7, <1>8

\* Taking a record of a live block out keeps every other record live and the total exact.
LEMMA RemovedIsForgotten ==
  ASSUME TrackerTypeInv, RecordsAreLive, TotalInv, heap' = heap,
         NEW m \in 1 .. Len(list),
         list' = RemoveAt(list, m), total' = total - list[m].size
  PROVE  /\ RecordsAreLive' /\ TotalInv' /\ list' \in Seq(Records) /\ total' \in Int
         /\ Tracked' = Tracked \ {list[m].ptr}
<1>1. list \in Seq(Records) /\ Len(list) \in Nat /\ heap \in [Addrs -> Nat] /\ m \in Nat
  BY DEF TrackerTypeInv
<1>2. PICK b \in Addrs : list[m].ptr = b /\ heap[b] = list[m].size
  <2>1. list[m] \in Records
    BY <1>1
  <2> QED
    BY <2>1 DEF RecordsAreLive, Records
<1>3. /\ list' \in Seq(Records) /\ Len(list') = Len(list) - 1
      /\ \A k \in 1 .. Len(list) - 1 : list'[k] = IF k < m THEN list[k] ELSE list[k + 1]
  BY <1>1, RemoveFacts
<1> DEFINE old(k) == IF k < m THEN k ELSE k + 1
<1>4. \A k \in 1 .. Len(list') : /\ old(k) \in 1 .. Len(list) /\ old(k) # m
                                 /\ list'[k] = list[old(k)]
  <2> SUFFICES ASSUME NEW k \in 1 .. Len(list')
               PROVE  old(k) \in 1 .. Len(list) /\ old(k) # m /\ list'[k] = list[old(k)]
    OBVIOUS
  <2>1. CASE k < m
    BY <1>1, <1>3, <2>1
  <2>2. CASE ~(k < m)
    BY <1>1, <1>3, <2>2
  <2> QED
    BY <2>1, <2>2
<1>5. \A k, n \in 1 .. Len(list') : old(k) = old(n) => k = n
  BY <1>1, <1>3
<1>6. ASSUME NEW n \in 1 .. Len(list), n # m
      PROVE  \E k \in 1 .. Len(list') : old(k) = n
  <2>1. CASE n < m
    <3>1. n \in 1 .. Len(list') /\ old(n) = n
      BY <1>1, <1>3, <2>1
    <3> QED
      BY <3>1
  <2>2. CASE ~(n < m)
    <3>1. n - 1 \in 1 .. Len(list') /\ old(n - 1) = n
      BY <1>1, <1>3, <1>6, <2>2
    <3> QED
      BY <3>1
  <2> QED
    BY <2>1, <2>2
<1> HIDE DEF old
<1>7. \A k, n \in 1 .. Len(list) : list[k].ptr = list[n].ptr => k = n
  BY DEF RecordsAreLive
<1>8. Tracked' = Tracked \ {b}
  <2>1. ASSUME NEW k \in 1 .. Len(list')
        PROVE  list'[k].ptr \in Tracked \ {b}
    BY <1>2, <1>4, <1>7 DEF Tracked
  <2>2. ASSUME NEW n \in 1 .. Len(list), list[n].ptr # b
        PROVE  \E k \in 1 .. Len(list') : list'[k].ptr = list[n].ptr
    BY <1>2, <1>4, <1>6, <2>2
  <2>3. Tracked' = {list'[k].ptr : k \in 1 .. Len(list')}
    BY DEF Tracked
  <2>4. Tracked = {list[n].ptr : n \in 1 .. Len(list)}
    BY DEF Tracked
  <2>5. ASSUME NEW a \in Tracked \ {b}
        PROVE  a \in Tracked'
    BY <2>2, <2>3, <2>4
  <2>6. ASSUME NEW a \in Tracked'
        PROVE  a \in Tracked \ {b}
    BY <2>1, <2>3
  <2> QED
    BY <2>5, <2>6
<1>9. RecordsAreLive'
  <2>1. ASSUME NEW k \in 1 .. Len(list')
        PROVE  heap'[list'[k].ptr] = list'[k].size
    BY <1>4 DEF RecordsAreLive
  <2>2. ASSUME NEW k \in 1 .. Len(list'), NEW n \in 1 .. Len(list'), list'[k].ptr = list'[n].ptr
        PROVE  k = n
    <3>1. old(k) = old(n)
      BY <1>4, <1>7, <2>2
    <3> QED
      BY <1>5, <3>1
  <2> QED
    BY <2>1, <2>2 DEF RecordsAreLive
<1>10. total' \in Int /\ TotalInv'
  <2>1. Charged \in [Addrs -> Int] /\ Charged[b] = heap[b]
    BY <1>2, TrackedFacts DEF Charged, Tracked
  <2>2. /\ Charged' \in [Addrs -> Int] /\ Charged'[b] = 0
        /\ \A a \in Addrs : a # b => Charged'[a] = Charged[a]
    BY <1>1, <1>8 DEF Charged
  <2>3. /\ Bytes(Charged) \in Int
        /\ Bytes(Charged') = Bytes(Charged) - Charged[b]
    <3>1. PICK f \in [Addrs -> Int] : f = Charged
      BY <2>1
    <3>2. PICK g \in [Addrs -> Int] : g = Charged'
      BY <2>2
    <3>3. g[b] = 0 /\ \A a \in Addrs : a # b => g[a] = f[a]
      BY <2>2, <3>1, <3>2
    <3>4. IsFiniteSet(Addrs)
      BY TrackerAssumption
    <3>5. Bytes(f) \in Int /\ Bytes(g) = Bytes(f) - f[b] + g[b] /\ f[b] \in Int
      BY <3>3, <3>4, FoldChange
    <3> QED
      BY <3>1, <3>2, <3>3, <3>5
  <2>4. total = Bytes(Charged) /\ heap[b] \in Nat
    BY <1>1 DEF TotalInv
  <2>5. total' = Bytes(Charged')
    BY <1>2, <2>1, <2>2, <2>3, <2>4
  <2>6. Bytes(Charged') \in Int
    BY <2>1, <2>2, <2>3, <2>4
  <2> QED
    BY <2>5, <2>6 DEF TotalInv
<1> QED
  BY <1>2, <1>3, <1>8, <1>9, <1>10

\* The wrappers' last step: the block, which is the thread's and has no record, gets one.
LEMMA TrackAddKeeps ==
  ASSUME TrackerInv, NEW th \in Callers, TrackAdd(th)
  PROVE  TrackerInv'
<1> USE DEF TrackerInv
<1>1. /\ At(th, "track_add") /\ heap' = heap /\ ptr' = ptr /\ size' = size /\ calls' = calls
      /\ list' = <<[ptr |-> ptr[th], size |-> size[th]]>> \o list
      /\ total' = total + size[th]
      /\ owned' = [owned EXCEPT ![th] = owned[th] \cup {ptr[th]}]
  BY DEF TrackAdd
<1>2. /\ Phase(todo[th]) = "track_add" /\ Phase(todo'[th]) = "idle"
      /\ todo' \in [Callers -> Todos]
      /\ \A x \in Callers : x # th => todo'[x] = todo[x]
  BY <1>1, StepTaken
<1>3. PICK b \in Addrs : b = ptr[th] /\ b \notin Tracked /\ heap[b] = size[th] /\ size[th] \in Sizes
  BY <1>2 DEF CallInv, InHand, RecordInv
<1>4. /\ RecordsAreLive' /\ TotalInv' /\ list' \in Seq(Records) /\ total' \in Int
      /\ Tracked' = Tracked \cup {b}
  BY <1>1, <1>3, AddedIsRecorded DEF RecordInv
<1>5. owned'[th] = owned[th] \cup {b} /\ \A x \in Callers : x # th => owned'[x] = owned[x]
  BY <1>1, <1>3 DEF TrackerTypeInv
<1>6. TrackerTypeInv'
  BY <1>1, <1>2, <1>3, <1>4 DEF TrackerTypeInv
<1>7. \A x \in Callers : x # th => Holds(x)' = Holds(x) /\ (InHand(x)' <=> InHand(x))
  BY <1>1, <1>2, <1>5, Bystander
<1>8. CallInv'
  BY <1>1, <1>2, <1>5, <1>7 DEF CallInv, InHand
<1>9. Holds(th)' = Holds(th)
  <2>1. Holds(th) = owned[th] \cup {b}
    BY <1>2, <1>3 DEF Holds, InHand
  <2>2. Holds(th)' = owned'[th]
    BY <1>2 DEF Holds, InHand
  <2> QED
    BY <1>5, <2>1, <2>2
<1>10. OwnerInv'
  <2>1. \A x \in Callers : Holds(x)' = Holds(x)
    BY <1>7, <1>9
  <2> QED
    BY <1>1, <2>1 DEF OwnerInv
<1>11. RecordInv'
  <2>1. ASSUME NEW x \in Callers
        PROVE  /\ owned'[x] \subseteq Tracked'
               /\ Phase(todo'[x]) = "track_remove" => ptr'[x] \in Tracked'
               /\ Phase(todo'[x]) \in {"release", "resize", "track_add"} => ptr'[x] \notin Tracked'
               /\ Phase(todo'[x]) = "track_add" => heap'[ptr'[x]] = size'[x]
    <3>1. CASE x = th
      BY <1>2, <1>4, <1>5, <3>1 DEF RecordInv
    <3>2. CASE x # th
      <4>1. InHand(x) => ptr[x] # b
        <5>1. b \in Holds(th)
          BY <1>2, <1>3 DEF Holds, InHand
        <5>2. b \notin Holds(x)
          BY <3>2, <5>1 DEF OwnerInv
        <5> QED
          BY <5>2 DEF Holds
      <4> QED
        BY <1>1, <1>2, <1>4, <1>5, <3>2, <4>1 DEF RecordInv, InHand
    <3> QED
      BY <3>1, <3>2
  <2> QED
    BY <1>4, <2>1 DEF RecordInv
<1> QED
  BY <1>4, <1>6, <1>8, <1>10, <1>11

\* The first step of free and realloc: the block's only record goes.
LEMMA TrackRemoveKeeps ==
  ASSUME TrackerInv, NEW th \in Callers, TrackRemove(th)
  PROVE  TrackerInv'
<1> USE DEF TrackerInv
<1> DEFINE hits == {i \in 1 .. Len(list) : list[i].ptr = ptr[th]}
<1>1. /\ At(th, "track_remove") /\ heap' = heap /\ ptr' = ptr /\ size' = size
      /\ owned' = owned /\ calls' = calls
      /\ hits # {} => list' = RemoveAt(list, Min(hits)) /\ total' = total - list[Min(hits)].size
  BY DEF TrackRemove
<1>2. /\ Phase(todo[th]) = "track_remove" /\ Phase(todo'[th]) \in {"release", "resize"}
      /\ todo' \in [Callers -> Todos]
      /\ \A x \in Callers : x # th => todo'[x] = todo[x]
  BY <1>1, StepTaken
<1>3. PICK b \in Addrs : b = ptr[th] /\ b \in Tracked /\ b \notin owned[th]
  BY <1>2 DEF CallInv, InHand, RecordInv
<1>4. PICK m \in 1 .. Len(list) : list[m].ptr = b
  BY <1>3 DEF Tracked
<1>5. hits = {m}
  BY <1>3, <1>4 DEF RecordInv, RecordsAreLive
<1>6. Min(hits) = m
  <2>1. Min({m}) = m
    BY DEF Min
  <2> QED
    BY <1>5, <2>1
<1>7. list' = RemoveAt(list, m) /\ total' = total - list[m].size
  BY <1>1, <1>5, <1>6
<1> HIDE DEF hits
<1>8. /\ RecordsAreLive' /\ TotalInv' /\ list' \in Seq(Records) /\ total' \in Int
      /\ Tracked' = Tracked \ {b}
  BY <1>1, <1>4, <1>7, RemovedIsForgotten DEF RecordInv
<1>9. TrackerTypeInv'
  BY <1>1, <1>2, <1>8 DEF TrackerTypeInv
<1>10. \A x \in Callers : x # th => Holds(x)' = Holds(x) /\ (InHand(x)' <=> InHand(x))
  BY <1>1, <1>2, Bystander
<1>11. CallInv'
  BY <1>1, <1>2, <1>10 DEF CallInv, InHand
<1>12. Holds(th)' = Holds(th)
  BY <1>1, <1>2 DEF Holds, InHand
<1>13. OwnerInv'
  BY <1>1, <1>10, <1>12 DEF OwnerInv
<1>14. RecordInv'
  <2>1. ASSUME NEW x \in Callers
        PROVE  /\ owned'[x] \subseteq Tracked'
               /\ Phase(todo'[x]) = "track_remove" => ptr'[x] \in Tracked'
               /\ Phase(todo'[x]) \in {"release", "resize", "track_add"} => ptr'[x] \notin Tracked'
               /\ Phase(todo'[x]) = "track_add" => heap'[ptr'[x]] = size'[x]
    <3>1. CASE x = th
      BY <1>1, <1>2, <1>3, <1>8, <3>1 DEF RecordInv
    <3>2. CASE x # th
      <4>1. b \notin owned[x] /\ (InHand(x) => ptr[x] # b)
        <5>1. b \in Holds(th)
          BY <1>2, <1>3 DEF Holds, InHand
        <5>2. b \notin Holds(x)
          BY <3>2, <5>1 DEF OwnerInv
        <5> QED
          BY <5>2 DEF Holds
      <4> QED
        BY <1>1, <1>2, <1>8, <3>2, <4>1 DEF RecordInv, InHand
    <3> QED
      BY <3>1, <3>2
  <2> QED
    BY <1>8, <2>1 DEF RecordInv
<1> QED
  BY <1>8, <1>9, <1>11, <1>13, <1>14

\* The beginning of a call: to free or resize a block, the thread hands it to the call.
LEMMA CallKeeps ==
  ASSUME TrackerInv, NEW th \in Callers, Enter(th)
  PROVE  TrackerInv'
<1> USE DEF TrackerInv
<1>1. /\ todo[th] = <<>> /\ heap' = heap /\ list' = list /\ total' = total
      /\ calls' = [calls EXCEPT ![th] = calls[th] + 1]
  BY DEF Enter
<1>2. PICK n \in Sizes : size' = [size EXCEPT ![th] = n]
  BY DEF Enter
<1>3. Phase(todo[th]) = "idle" /\ n \in Nat
  BY <1>1, TrackerAssumption DEF Phase
<1>4. RecordsAreLive' /\ TotalInv' /\ Tracked' = Tracked
  BY <1>1, OutsideTheList
<1>5. CASE todo' = [todo EXCEPT ![th] = Steps("malloc")] /\ UNCHANGED <<ptr, owned>>
  <2>1. TrackerTypeInv'
    BY <1>1, <1>2, <1>3, <1>5, StepsFacts DEF TrackerTypeInv
  <2>2. /\ Phase(todo'[th]) = "alloc" /\ size'[th] = n
        /\ \A x \in Callers : x # th => todo'[x] = todo[x] /\ size'[x] = size[x]
        /\ ptr' = ptr /\ owned' = owned
    BY <1>2, <1>5, StepsFacts DEF TrackerTypeInv
  <2>3. \A x \in Callers : Holds(x)' = Holds(x) /\ (InHand(x)' <=> InHand(x))
    BY <1>3, <2>2 DEF Holds, InHand
  <2>4. CallInv' /\ OwnerInv'
    BY <1>1, <2>2, <2>3 DEF CallInv, OwnerInv
  <2>5. RecordInv'
    BY <1>1, <1>4, <2>2 DEF RecordInv
  <2> QED
    BY <1>4, <2>1, <2>4, <2>5
<1>6. ASSUME NEW b \in owned[th], NEW call \in {"free", "realloc"},
             todo' = [todo EXCEPT ![th] = Steps(call)],
             ptr' = [ptr EXCEPT ![th] = b],
             owned' = [owned EXCEPT ![th] = owned[th] \ {b}]
      PROVE  TrackerInv'
  <2>1. b \in Addrs /\ Steps(call) \in Todos /\ Phase(Steps(call)) = "track_remove"
    BY StepsFacts DEF TrackerTypeInv
  <2>2. TrackerTypeInv'
    BY <1>1, <1>2, <1>3, <1>6, <2>1 DEF TrackerTypeInv
  <2>3. /\ Phase(todo'[th]) = "track_remove" /\ size'[th] = n /\ ptr'[th] = b
        /\ owned'[th] = owned[th] \ {b}
        /\ \A x \in Callers : x # th => /\ todo'[x] = todo[x] /\ size'[x] = size[x]
                                        /\ ptr'[x] = ptr[x] /\ owned'[x] = owned[x]
    BY <1>2, <1>6, <2>1 DEF TrackerTypeInv
  <2>4. \A x \in Callers : x # th => Holds(x)' = Holds(x) /\ (InHand(x)' <=> InHand(x))
    BY <2>3, Bystander
  <2>5. Holds(th)' = Holds(th)
    BY <1>3, <2>1, <2>3 DEF Holds, InHand
  <2>6. CallInv'
    BY <2>1, <2>3, <2>4 DEF CallInv
  <2>7. OwnerInv'
    BY <1>1, <2>4, <2>5 DEF OwnerInv
  <2>8. RecordInv'
    <3>1. ASSUME NEW x \in Callers
          PROVE  /\ owned'[x] \subseteq Tracked'
                 /\ Phase(todo'[x]) = "track_remove" => ptr'[x] \in Tracked'
                 /\ Phase(todo'[x]) \in {"release", "resize", "track_add"} => ptr'[x] \notin Tracked'
                 /\ Phase(todo'[x]) = "track_add" => heap'[ptr'[x]] = size'[x]
      <4>1. CASE x = th
        BY <1>4, <2>3, <4>1 DEF RecordInv
      <4>2. CASE x # th
        BY <1>1, <1>4, <2>3, <4>2 DEF RecordInv
      <4> QED
        BY <4>1, <4>2
    <3> QED
      BY <1>4, <3>1 DEF RecordInv
  <2> QED
    BY <1>4, <2>2, <2>6, <2>7, <2>8
<1> QED
  BY <1>5, <1>6 DEF Enter

-----------------------------------------------------------------------------
\* The invariant the others follow from: who holds which block, which blocks have a record,
\* and that the total counts the recorded ones.
THEOREM TrackerInductive == TrackerSpec => []TrackerInv
<1>1. TrackerInit => TrackerInv
  <2> SUFFICES ASSUME TrackerInit
               PROVE  TrackerInv
    OBVIOUS
  <2> USE DEF TrackerInit
  <2>1. <<>> \in Todos /\ Phase(<<>>) = "idle"
    BY DEF Todos, Phase
  <2>2. TrackerTypeInv
    BY <2>1 DEF TrackerTypeInv
  <2>3. \A th \in Callers : ~InHand(th) /\ Holds(th) = {} /\ Phase(todo[th]) = "idle"
    BY <2>1 DEF InHand, Holds
  <2>4. CallInv /\ OwnerInv
    BY <2>3 DEF CallInv, OwnerInv
  <2>5. Tracked = {}
    BY DEF Tracked
  <2>6. RecordInv
    BY <2>3 DEF RecordInv, RecordsAreLive
  <2>7. Charged = [a \in Addrs |-> 0]
    BY <2>5 DEF Charged
  <2>8. TotalInv
    BY <2>7, FoldZero, TrackerAssumption DEF TotalInv
  <2> QED
    BY <2>2, <2>4, <2>6, <2>8 DEF TrackerInv
<1>2. TrackerInv /\ [TrackerNext]_trackerVars => TrackerInv'
  <2> SUFFICES ASSUME TrackerInv, [TrackerNext]_trackerVars
               PROVE  TrackerInv'
    OBVIOUS
  <2>1. CASE TrackerNext
    BY <2>1, CallKeeps, AllocKeeps, ResizeKeeps, ReleaseKeeps, TrackAddKeeps, TrackRemoveKeeps DEF TrackerNext
  <2>2. CASE UNCHANGED trackerVars
    <3>1. /\ heap' = heap /\ list' = list /\ total' = total /\ todo' = todo
          /\ ptr' = ptr /\ size' = size /\ owned' = owned /\ calls' = calls
      BY <2>2 DEF trackerVars
    <3>2. \A x \in Callers : Holds(x)' = Holds(x) /\ (InHand(x)' <=> InHand(x))
      BY <3>1 DEF Holds, InHand
    <3>3. RecordsAreLive' /\ TotalInv' /\ Tracked' = Tracked
      BY <3>1, OutsideTheList
    <3> QED
      BY <3>1, <3>2, <3>3 DEF TrackerInv, TrackerTypeInv, CallInv, OwnerInv, RecordInv
  <2> QED
    BY <2>1, <2>2
<1> QED
  BY <1>1, <1>2, PTL DEF TrackerSpec

\* A record never outlives its block, and no block has two: removing it before the allocator
\* may hand the address out again, under one mutex, is enough.
THEOREM NoStaleRecord == TrackerSpec => []RecordsAreLive
<1>1. TrackerInv => RecordsAreLive
  BY DEF TrackerInv, RecordInv
<1> QED
  BY <1>1, TrackerInductive, PTL

\* With no call under way the leak report names the allocated blocks and no others, and its
\* total is the bytes they occupy.
THEOREM ReportIsExact == TrackerSpec => []LeakReportExact
<1>1. TrackerInv => LeakReportExact
  <2> SUFFICES ASSUME TrackerInv, \A th \in Callers : todo[th] = <<>>
               PROVE  /\ Tracked = {a \in Addrs : heap[a] # 0}
                      /\ total = FoldFunction(+, 0, heap)
    BY DEF LeakReportExact, Tracked
  <2>1. \A th \in Callers : Holds(th) = owned[th]
    BY DEF Holds, InHand, Phase
  <2>2. \A a \in Addrs : heap[a] # 0 => a \in Tracked
    BY <2>1 DEF TrackerInv, OwnerInv, RecordInv
  <2>3. Tracked \subseteq Addrs /\ \A a \in Tracked : heap[a] # 0
    BY TrackedFacts DEF TrackerInv, RecordInv
  <2>4. Charged = heap
    BY <2>2 DEF Charged, TrackerInv, TrackerTypeInv
  <2>5. total = FoldFunction(+, 0, heap)
    BY <2>4 DEF TrackerInv, TotalInv, Bytes
  <2> QED
    BY <2>2, <2>3, <2>5
<1> QED
  BY <1>1, TrackerInductive, PTL
=============================================================================
