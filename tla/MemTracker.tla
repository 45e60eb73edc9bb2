----------------------------- MODULE MemTracker -----------------------------
(***************************************************************************)
(* The debug build's allocation tracker in common/src/c_util.c: a list of  *)
(* records and a running total behind one mutex, beside an allocator that  *)
(* hands out the addresses and reuses them as soon as they are free.  The  *)
(* allocator's step and the tracker's step of a call are separate, and     *)
(* other threads allocate and free between them.                           *)
(***************************************************************************)
EXTENDS Integers, Sequences, FiniteSetsExt, SequencesExt

CONSTANTS
  Callers,  \* the threads
  Addrs,    \* the addresses malloc can return
  Sizes,
  MaxCalls, \* bound on the calls each thread makes
  NoAddr    \* NULL

ASSUME TrackerAssumption ==
  /\ IsFiniteSet(Addrs)
  /\ Sizes \subseteq Nat \ {0}
  /\ MaxCalls \in Nat
  /\ NoAddr \notin Addrs

VARIABLES
  heap,   \* the allocator: the size of each allocated block, 0 if free
  list,   \* g_head: [ptr, size] records, newest first
  total,  \* g_total_allocated
  todo,   \* what is left to do of each thread's call
  ptr,    \* the block the call works on
  size,   \* the size it asked for
  owned,  \* the blocks each thread holds outside of its call
  calls   \* how many calls it has made

trackerVars == <<heap, list, total, todo, ptr, size, owned, calls>>

TrackerInit ==
  /\ heap = [a \in Addrs |-> 0]
  /\ list = <<>>
  /\ total = 0
  /\ todo = [th \in Callers |-> <<>>]
  /\ ptr = [th \in Callers |-> NoAddr]
  /\ size = [th \in Callers |-> 0]
  /\ owned = [th \in Callers |-> {}]
  /\ calls = [th \in Callers |-> 0]

\* Wrong: free releases the block before it is removed from the list.
StepsReleaseFirst(call) ==
  CASE call = "malloc"  -> <<"alloc", "track_add">>
    [] call = "free"    -> <<"release", "track_remove">>
    [] call = "realloc" -> <<"track_remove", "resize", "track_add">>

\* The order in which the wrappers call the allocator and the tracker.
Steps(call) ==
  CASE call = "malloc"  -> <<"alloc", "track_add">>
    [] call = "free"    -> <<"track_remove", "release">>
    [] call = "realloc" -> <<"track_remove", "resize", "track_add">>

\* The program frees and resizes only blocks it holds.
Enter(th) ==
  /\ todo[th] = <<>>
  /\ calls[th] < MaxCalls
  /\ calls' = [calls EXCEPT ![th] = @ + 1]
  /\ \E n \in Sizes : size' = [size EXCEPT ![th] = n]
  /\ \/ /\ todo' = [todo EXCEPT ![th] = Steps("malloc")]
        /\ UNCHANGED <<ptr, owned>>
     \/ \E p \in owned[th], call \in {"free", "realloc"} :
          /\ todo' = [todo EXCEPT ![th] = Steps(call)]
          /\ ptr' = [ptr EXCEPT ![th] = p]
          /\ owned' = [owned EXCEPT ![th] = @ \ {p}]
  /\ UNCHANGED <<heap, list, total>>

At(th, step) ==
  /\ todo[th] # <<>>
  /\ Head(todo[th]) = step
  /\ todo' = [todo EXCEPT ![th] = Tail(@)]

Alloc(th) ==
  /\ At(th, "alloc")
  /\ \E a \in {x \in Addrs : heap[x] = 0} :
       /\ heap' = [heap EXCEPT ![a] = size[th]]
       /\ ptr' = [ptr EXCEPT ![th] = a]
  /\ UNCHANGED <<list, total, size, owned, calls>>

\* realloc in place, or to another block.
Resize(th) ==
  /\ At(th, "resize")
  /\ \E a \in {x \in Addrs : heap[x] = 0} \cup {ptr[th]} :
       /\ heap' = [heap EXCEPT ![ptr[th]] = 0, ![a] = size[th]]
       /\ ptr' = [ptr EXCEPT ![th] = a]
  /\ UNCHANGED <<list, total, size, owned, calls>>

Release(th) ==
  /\ At(th, "release")
  /\ heap' = [heap EXCEPT ![ptr[th]] = 0]
  /\ UNCHANGED <<list, total, ptr, size, owned, calls>>

\* track_add, under the mutex; the wrapper then returns the block.
TrackAdd(th) ==
  /\ At(th, "track_add")
  /\ list' = <<[ptr |-> ptr[th], size |-> size[th]]>> \o list
  /\ total' = total + size[th]
  /\ owned' = [owned EXCEPT ![th] = @ \cup {ptr[th]}]
  /\ UNCHANGED <<heap, ptr, size, calls>>

\* Wrong: the total is not brought down.
TrackRemoveKeepsTotal(th) ==
  /\ At(th, "track_remove")
  /\ LET hits == {i \in 1 .. Len(list) : list[i].ptr = ptr[th]}
     IN  list' = IF hits = {} THEN list ELSE RemoveAt(list, Min(hits))
  /\ UNCHANGED <<heap, total, ptr, size, owned, calls>>

\* track_remove, under the mutex: the newest record of the pointer goes.
TrackRemove(th) ==
  /\ At(th, "track_remove")
  /\ LET hits == {i \in 1 .. Len(list) : list[i].ptr = ptr[th]}
     IN  IF hits = {} THEN UNCHANGED <<list, total>>
         ELSE /\ list' = RemoveAt(list, Min(hits))
              /\ total' = total - list[Min(hits)].size
  /\ UNCHANGED <<heap, ptr, size, owned, calls>>

TrackerNext ==
  \E th \in Callers :
    Enter(th) \/ Alloc(th) \/ Resize(th) \/ Release(th) \/ TrackAdd(th) \/ TrackRemove(th)

TrackerSpec == TrackerInit /\ [][TrackerNext]_trackerVars
-----------------------------------------------------------------------------
\* A record never outlives its block: an address that the allocator gives to
\* one thread is not still recorded for the thread that freed it.
RecordsAreLive ==
  \A i \in 1 .. Len(list) :
    /\ heap[list[i].ptr] = list[i].size
    /\ \A j \in 1 .. Len(list) : list[i].ptr = list[j].ptr => i = j

\* What tsp_dump_memory_leaks prints when no call is under way: exactly the
\* blocks somebody still holds, with the bytes they hold.
LeakReportExact ==
  (\A th \in Callers : todo[th] = <<>>) =>
    /\ {list[i].ptr : i \in 1 .. Len(list)} = {a \in Addrs : heap[a] # 0}
    /\ total = FoldFunction(+, 0, heap)
=============================================================================
