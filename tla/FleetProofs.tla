---------------------------- MODULE FleetProofs ----------------------------
(***************************************************************************)
(* Proofs about fleet.Map, for every number of servers, every concurrency  *)
(* argument and every schedule, and about what `bwg ls` and `bwg server    *)
(* check` make of a sweep.  The invariant of fleet.Map, IInv, says what    *)
(* the results are worth; Shown adds that the report is Built from them    *)
(* and that nothing of the sweep moves any more once the command has       *)
(* exited.                                                                 *)
(***************************************************************************)
EXTENDS FleetReport, FiniteSetTheorems, TLAPS

----------------------------------------------------------------------------
(* fleet.Map *)

\* The goroutines in a set of places.
At(places) == {i \in Index : pc[i] \in places}

Holding == {"slot", "calling", "stored"}
Living  == {"select", "slot", "calling", "stored", "leaving"}
Written == {"stored", "leaving", "gone"}

\* The channel holds one token for each goroutine that took one and has not
\* given it back, and never more than its capacity.
Tokens == sem = Cardinality(At(Holding)) /\ sem <= Capacity

\* The wait group counts the goroutines that have not finished.
Waiting == wg = Cardinality(At(Living))

\* The loop has started exactly the first goroutines.
Started == \A i \in Index : pc[i] = "unborn" <=> i > spawned

\* A slot of the results slice is written by its own goroutine, once.
Slots == \A i \in Index : /\ results[i] # NoResult <=> pc[i] \in Written
                          /\ results[i] # NoResult => results[i].server = i

\* A call whose request did not go out, and a "cancelled" result, need a
\* finished context; any other result is the box's own answer.
Answers ==
  \A i \in Index :
    /\ pc[i] = "calling" /\ i \notin sent => CtxDone
    /\ results[i] # NoResult =>
         \/ results[i].err = "cancelled" /\ CtxDone
         \/ /\ results[i].err # "cancelled"
            /\ i \in sent
            /\ results[i].err = "ok" <=> box[i] = "healthy"

Joined == returned => spawned = N /\ wg = 0

IInv == TypeOK /\ Tokens /\ Waiting /\ Started /\ Slots /\ Answers /\ Joined

----------------------------------------------------------------------------
(* Counting goroutines *)

\* How many goroutines are in a set of places, for a given assignment.
Count(f, P) == Cardinality({j \in Index : f[j] \in P})

\* Any set of goroutines is finite.
LEMMA FiniteCount ==
  ASSUME NEW f, NEW P
  PROVE  /\ IsFiniteSet({j \in Index : f[j] \in P})
         /\ Count(f, P) \in Nat
<1>1. IsFiniteSet(Index)
  BY FS_Interval, FleetAssumption DEF Index
<1>2. IsFiniteSet({j \in Index : f[j] \in P})
  BY <1>1, FS_Subset
<1> QED
  BY <1>2, FS_CardinalityType DEF Count

\* A goroutine that moves into the places P adds one to their count.
LEMMA Entering ==
  ASSUME NEW f, NEW g, NEW i \in Index, NEW P,
         \A j \in Index \ {i} : g[j] = f[j], f[i] \notin P, g[i] \in P
  PROVE  Count(g, P) = Count(f, P) + 1
<1> DEFINE S == {j \in Index : f[j] \in P}
<1>1. {j \in Index : g[j] \in P} = S \cup {i}
  OBVIOUS
<1>2. i \notin S /\ IsFiniteSet(S)
  BY FiniteCount
<1>3. Cardinality(S \cup {i}) = Cardinality(S) + 1
  BY <1>2, FS_AddElement
<1> QED
  BY <1>1, <1>3 DEF Count

\* One that moves out of them takes one away.
LEMMA Exiting ==
  ASSUME NEW f, NEW g, NEW i \in Index, NEW P,
         \A j \in Index \ {i} : g[j] = f[j], f[i] \in P, g[i] \notin P
  PROVE  Count(g, P) = Count(f, P) - 1
<1> DEFINE S == {j \in Index : f[j] \in P}
<1>1. {j \in Index : g[j] \in P} = S \ {i}
  OBVIOUS
<1>2. i \in S /\ IsFiniteSet(S)
  BY FiniteCount
<1>3. Cardinality(S \ {i}) = Cardinality(S) - 1
  BY <1>2, FS_RemoveElement
<1> QED
  BY <1>1, <1>3 DEF Count

\* One that moves within them, or outside them, changes nothing.
LEMMA Staying ==
  ASSUME NEW f, NEW g, NEW i \in Index, NEW P,
         \A j \in Index \ {i} : g[j] = f[j], f[i] \in P <=> g[i] \in P
  PROVE  Count(g, P) = Count(f, P)
<1>1. {j \in Index : g[j] \in P} = {j \in Index : f[j] \in P}
  OBVIOUS
<1> QED
  BY <1>1 DEF Count

----------------------------------------------------------------------------
(* The invariant *)

LEMMA CapacityType == Capacity \in Nat \ {0}
BY FleetAssumption DEF Capacity

LEMMA InitIInv == Init => IInv
<1> SUFFICES ASSUME Init PROVE IInv
  OBVIOUS
<1>1. TypeOK
  <2>1. 0 \in 0..N /\ 0 \in Int
    BY FleetAssumption
  <2> QED
    BY <2>1 DEF Init, TypeOK, Place
<1>2. At(Holding) = {} /\ At(Living) = {}
  BY DEF Init, At, Holding, Living
<1>3. Tokens /\ Waiting
  BY <1>2, FS_EmptySet, CapacityType DEF Init, Tokens, Waiting
<1>4. Started /\ Slots /\ Answers /\ Joined
  BY FleetAssumption DEF Init, Started, Slots, Answers, Joined, Written, Index
<1> QED
  BY <1>1, <1>3, <1>4 DEF IInv

\* Every step keeps the invariant.
LEMMA StepIInv == IInv /\ [Next]_vars => IInv'
<1> SUFFICES ASSUME IInv, [Next]_vars PROVE IInv'
  OBVIOUS
<1> USE FleetAssumption
<1>0. /\ TypeOK /\ Tokens /\ Waiting /\ Started /\ Slots /\ Answers /\ Joined
      /\ pc \in [Index -> Place]
      /\ sem = Count(pc, Holding) /\ sem <= Capacity
      /\ wg = Count(pc, Living)
      /\ Count(pc, Holding) \in Nat /\ Count(pc, Living) \in Nat
  <2>1. Count(pc, Holding) \in Nat /\ Count(pc, Living) \in Nat
    BY FiniteCount
  <2> QED
    BY <2>1 DEF IInv, TypeOK, Tokens, Waiting, At, Count
<1>a. ASSUME sem' = Count(pc', Holding), sem' <= Capacity, wg' = Count(pc', Living)
      PROVE  Tokens' /\ Waiting'
  BY <1>a DEF Tokens, Waiting, At, Count, Capacity
<1>1. CASE Spawn
  <2> DEFINE i == spawned + 1
  <2>1. i \in Index /\ pc[i] = "unborn"
    BY <1>0, <1>1 DEF Spawn, TypeOK, Started, Index
  <2>2. TypeOK'
    BY <1>0, <1>1, <2>1 DEF Spawn, TypeOK, Place
  <2>m. /\ \A j \in Index \ {i} : pc'[j] = pc[j]
        /\ pc[i] \notin Holding /\ pc'[i] \notin Holding
        /\ pc[i] \notin Living /\ pc'[i] \in Living
    BY <1>0, <1>1, <2>1 DEF Spawn, Holding, Living
  <2>3. Count(pc', Holding) = Count(pc, Holding)
    BY <2>m, <2>1, Staying
  <2>4. Count(pc', Living) = Count(pc, Living) + 1
    BY <2>m, <2>1, Entering
  <2>5. Tokens' /\ Waiting'
    BY <1>0, <1>1, <1>a, <2>3, <2>4 DEF Spawn
  <2>6. Started'
    <3>1. spawned \in Int /\ spawned' = i
      BY <1>0, <1>1 DEF Spawn, TypeOK
    <3>2. ASSUME NEW j \in Index PROVE pc'[j] = "unborn" <=> j > spawned'
      <4>1. CASE j = i
        BY <1>0, <1>1, <2>1, <3>1, <4>1 DEF Spawn, Index
      <4>2. CASE j # i
        <5>1. j > spawned <=> j > i
          BY <3>1, <4>2 DEF Index
        <5> QED
          BY <1>0, <2>m, <3>1, <4>2, <5>1 DEF Started
      <4> QED
        BY <4>1, <4>2
    <3> QED
      BY <3>2 DEF Started
  <2>7. Slots' /\ Answers' /\ Joined'
    BY <1>0, <1>1, <2>1 DEF Spawn, Slots, Answers, Joined, TypeOK, Written, CtxDone
  <2> QED
    BY <2>2, <2>5, <2>6, <2>7 DEF IInv
<1>2. CASE Return
  BY <1>0, <1>2 DEF Return, IInv, TypeOK, Tokens, Waiting, At, Started, Slots, Answers, Joined,
                    CtxDone, Capacity
<1>3. ASSUME NEW i \in Index, Acquire(i) PROVE IInv'
  <2>1. TypeOK'
    BY <1>0, <1>3 DEF Acquire, TypeOK, Place
  <2>m. /\ \A j \in Index \ {i} : pc'[j] = pc[j]
        /\ pc[i] \notin Holding /\ pc'[i] \in Holding
        /\ pc[i] \in Living /\ pc'[i] \in Living
    BY <1>0, <1>3 DEF Acquire, Holding, Living
  <2>2. Count(pc', Holding) = Count(pc, Holding) + 1
    BY <2>m, Entering
  <2>3. Count(pc', Living) = Count(pc, Living)
    BY <2>m, Staying
  <2>4. sem' <= Capacity
    BY <1>0, <1>3, CapacityType DEF Acquire, TypeOK
  <2>5. Tokens' /\ Waiting'
    BY <1>0, <1>3, <1>a, <2>2, <2>3, <2>4 DEF Acquire
  <2>6. Started' /\ Joined' /\ Slots'
    BY <1>0, <1>3 DEF Acquire, Started, Joined, Slots, TypeOK, Written
  <2>7. Answers'
    BY <1>0, <1>3 DEF Acquire, Answers, TypeOK, CtxDone
  <2> QED
    BY <2>1, <2>5, <2>6, <2>7 DEF IInv
<1>4. ASSUME NEW i \in Index, Skip(i) PROVE IInv'
  <2> DEFINE r == [server |-> i, err |-> "cancelled"]
  <2>0. r \in Result /\ r # NoResult
    BY DEF Result, Outcome
  <2>1. TypeOK'
    BY <1>0, <1>4, <2>0 DEF Skip, TypeOK, Place
  <2>m. /\ \A j \in Index \ {i} : pc'[j] = pc[j]
        /\ pc[i] \notin Holding /\ pc'[i] \notin Holding
        /\ pc[i] \in Living /\ pc'[i] \in Living
    BY <1>0, <1>4 DEF Skip, Holding, Living
  <2>2. Count(pc', Holding) = Count(pc, Holding) /\ Count(pc', Living) = Count(pc, Living)
    BY <2>m, Staying
  <2>3. Tokens' /\ Waiting'
    BY <1>0, <1>4, <1>a, <2>2 DEF Skip
  <2>4. Started' /\ Joined'
    BY <1>0, <1>4 DEF Skip, Started, Joined, TypeOK
  <2>5. Slots'
    BY <1>0, <1>4, <2>0 DEF Skip, Slots, TypeOK, Written
  <2>6. Answers'
    BY <1>0, <1>4, <2>0 DEF Skip, Answers, TypeOK, CtxDone
  <2> QED
    BY <2>1, <2>3, <2>4, <2>5, <2>6 DEF IInv
<1>5. ASSUME NEW i \in Index, Call(i) PROVE IInv'
  <2>1. TypeOK'
    BY <1>0, <1>5 DEF Call, TypeOK, Place
  <2>m. /\ \A j \in Index \ {i} : pc'[j] = pc[j]
        /\ pc[i] \in Holding /\ pc'[i] \in Holding
        /\ pc[i] \in Living /\ pc'[i] \in Living
    BY <1>0, <1>5 DEF Call, Holding, Living
  <2>2. Count(pc', Holding) = Count(pc, Holding) /\ Count(pc', Living) = Count(pc, Living)
    BY <2>m, Staying
  <2>3. Tokens' /\ Waiting'
    BY <1>0, <1>5, <1>a, <2>2 DEF Call
  <2>4. Started' /\ Joined' /\ Slots'
    BY <1>0, <1>5 DEF Call, Started, Joined, Slots, TypeOK, Written
  <2>5. Answers'
    BY <1>0, <1>5 DEF Call, Answers, TypeOK, CtxDone
  <2> QED
    BY <2>1, <2>3, <2>4, <2>5 DEF IInv
<1>6. ASSUME NEW i \in Index, Store(i) PROVE IInv'
  <2>1. PICK e \in Returns(i) : results' = [results EXCEPT ![i] = [server |-> i, err |-> e]]
    BY <1>6 DEF Store
  <2>2. /\ e \in Outcome
        /\ e = "cancelled" => CtxDone
        /\ e # "cancelled" => i \in sent /\ (e = "ok" <=> box[i] = "healthy")
    BY <1>0, <2>1 DEF Returns, Outcome, TypeOK, Box
  <2> DEFINE r == [server |-> i, err |-> e]
  <2>3. r \in Result /\ r # NoResult
    BY <2>2 DEF Result
  <2>4. TypeOK'
    BY <1>0, <1>6, <2>1, <2>3 DEF Store, TypeOK, Place
  <2>m. /\ \A j \in Index \ {i} : pc'[j] = pc[j]
        /\ pc[i] \in Holding /\ pc'[i] \in Holding
        /\ pc[i] \in Living /\ pc'[i] \in Living
    BY <1>0, <1>6 DEF Store, Holding, Living
  <2>5. Count(pc', Holding) = Count(pc, Holding) /\ Count(pc', Living) = Count(pc, Living)
    BY <2>m, Staying
  <2>6. Tokens' /\ Waiting'
    BY <1>0, <1>6, <1>a, <2>5 DEF Store
  <2>7. Started' /\ Joined'
    BY <1>0, <1>6 DEF Store, Started, Joined, TypeOK
  <2>8. Slots'
    BY <1>0, <1>6, <2>1, <2>3 DEF Store, Slots, TypeOK, Written
  <2>9. Answers'
    BY <1>0, <1>6, <2>1, <2>2, <2>3 DEF Store, Answers, TypeOK, CtxDone
  <2> QED
    BY <2>4, <2>6, <2>7, <2>8, <2>9 DEF IInv
<1>7. ASSUME NEW i \in Index, Release(i) PROVE IInv'
  <2>1. TypeOK'
    BY <1>0, <1>7 DEF Release, TypeOK, Place
  <2>m. /\ \A j \in Index \ {i} : pc'[j] = pc[j]
        /\ pc[i] \in Holding /\ pc'[i] \notin Holding
        /\ pc[i] \in Living /\ pc'[i] \in Living
    BY <1>0, <1>7 DEF Release, Holding, Living
  <2>2. Count(pc', Holding) = Count(pc, Holding) - 1
    BY <2>m, Exiting
  <2>3. Count(pc', Living) = Count(pc, Living)
    <3>1. /\ \A j \in Index \ {i} : pc'[j] = pc[j]
          /\ pc[i] \in Living <=> pc'[i] \in Living
      BY <2>m
    <3> QED
      BY <3>1, Staying
  <2>4. sem' <= Capacity
    BY <1>0, <1>7, CapacityType DEF Release, TypeOK
  <2>5. Tokens' /\ Waiting'
    BY <1>0, <1>7, <1>a, <2>2, <2>3, <2>4 DEF Release
  <2>6. Started' /\ Joined' /\ Slots' /\ Answers'
    BY <1>0, <1>7 DEF Release, Started, Joined, Slots, Answers, TypeOK, Written, CtxDone
  <2> QED
    BY <2>1, <2>5, <2>6 DEF IInv
<1>8. ASSUME NEW i \in Index, Done(i) PROVE IInv'
  <2>1. TypeOK'
    BY <1>0, <1>8 DEF Done, TypeOK, Place
  <2>m. /\ \A j \in Index \ {i} : pc'[j] = pc[j]
        /\ pc[i] \notin Holding /\ pc'[i] \notin Holding
        /\ pc[i] \in Living /\ pc'[i] \notin Living
    BY <1>0, <1>8 DEF Done, Holding, Living
  <2>2. Count(pc', Holding) = Count(pc, Holding)
    BY <2>m, Staying
  <2>3. Count(pc', Living) = Count(pc, Living) - 1
    BY <2>m, Exiting
  <2>4. Tokens' /\ Waiting'
    BY <1>0, <1>8, <1>a, <2>2, <2>3 DEF Done
  <2>5. At(Living) # {} /\ wg # 0
    <3>1. i \in At(Living)
      BY <1>8 DEF Done, At, Living
    <3> QED
      BY <3>1, <1>0, FiniteCount, FS_EmptySet DEF At, Count
  <2>6. Started' /\ Joined' /\ Slots' /\ Answers'
    BY <1>0, <1>8, <2>5 DEF Done, Started, Joined, Slots, Answers, TypeOK, Written, CtxDone
  <2> QED
    BY <2>1, <2>4, <2>6 DEF IInv
<1>9. CASE Expire \/ Interrupt
  <2>1. /\ UNCHANGED <<box, hasDeadline, spawned, pc, sem, wg, sent, results, returned>>
        /\ ctx' \in {"expired", "interrupted"}
    BY <1>9 DEF Expire, Interrupt
  <2>2. TypeOK' /\ Started' /\ Slots' /\ Joined'
    BY <1>0, <2>1 DEF TypeOK, Started, Slots, Joined
  <2>3. Tokens' /\ Waiting'
    BY <1>0, <1>a, <2>1
  <2>4. Answers'
    BY <1>0, <2>1 DEF Answers, CtxDone
  <2> QED
    BY <2>2, <2>3, <2>4 DEF IInv
<1>10. CASE UNCHANGED vars
  BY <1>0, <1>10 DEF vars, IInv, TypeOK, Tokens, Waiting, At, Started, Slots, Answers, Joined,
                     CtxDone, Capacity
<1> QED
  BY <1>1, <1>2, <1>3, <1>4, <1>5, <1>6, <1>7, <1>8, <1>9, <1>10 DEF Next, Goroutine, Finished

LEMMA Invariance == Spec => []IInv
<1> QED
  BY InitIInv, StepIInv, PTL DEF Spec

----------------------------------------------------------------------------
(* What follows from it *)

\* Every variable keeps its type, for every fleet size and concurrency.
THEOREM TypeCorrect == Spec => []TypeOK
<1>1. IInv => TypeOK
  BY DEF IInv
<1> QED
  BY <1>1, Invariance, PTL

\* No more calls are under way at once than the semaphore admits.
THEOREM FanOutBounded == Spec => []BoundedFanOut
<1>1. ASSUME IInv PROVE BoundedFanOut
  <2> DEFINE S == {i \in Index : pc[i] \in {"slot", "calling"}}
  <2>1. S \in SUBSET At(Holding) /\ IsFiniteSet(At(Holding))
    BY FiniteCount DEF At, Holding
  <2>2. Cardinality(S) <= Cardinality(At(Holding)) /\ IsFiniteSet(S)
    BY <2>1, FS_Subset
  <2>3. Cardinality(S) \in Nat /\ Cardinality(At(Holding)) \in Nat
    BY <2>1, <2>2, FS_CardinalityType
  <2>4. Cardinality(At(Holding)) <= Capacity
    BY <1>1 DEF IInv, Tokens
  <2> QED
    BY <2>2, <2>3, <2>4, CapacityType DEF BoundedFanOut
<1> QED
  BY <1>1, Invariance, PTL

\* When Map returns, nothing is left running and no result is missing.
LEMMA ReturnedAllGone ==
  ASSUME IInv, returned
  PROVE  \A i \in Index : pc[i] = "gone" /\ results[i] # NoResult /\ results[i].server = i
<1>1. spawned = N /\ wg = 0
  BY DEF IInv, Joined
<1>2. At(Living) = {}
  <2>1. Cardinality(At(Living)) = 0
    BY <1>1 DEF IInv, Waiting
  <2> QED
    BY <2>1, FiniteCount, FS_EmptySet DEF At
<1>3. \A i \in Index : pc[i] # "unborn" /\ pc[i] \in Place
  BY <1>1, FleetAssumption DEF IInv, Started, TypeOK, Index
<1>4. \A i \in Index : pc[i] = "gone"
  BY <1>2, <1>3 DEF At, Living, Place
<1> QED
  BY <1>4 DEF IInv, Slots, Written

THEOREM ReturnIsComplete == Spec => []CompleteOnReturn
<1>1. ASSUME IInv, returned PROVE sem = 0
  <2>1. At(Holding) = {}
    BY <1>1, ReturnedAllGone DEF At, Holding
  <2> QED
    BY <1>1, <2>1, FS_EmptySet DEF IInv, Tokens
<1>2. IInv => CompleteOnReturn
  BY <1>1, ReturnedAllGone DEF CompleteOnReturn
<1> QED
  BY <1>2, Invariance, PTL

\* Unless the context ended, each server's result is its own box's answer.
THEOREM FailuresAreIsolated == Spec => []Isolation
<1>1. ASSUME IInv, returned, ~CtxDone
      PROVE  \A i \in Index : /\ i \in sent
                              /\ results[i].err # "cancelled"
                              /\ results[i].err = "ok" <=> box[i] = "healthy"
  BY <1>1, ReturnedAllGone DEF IInv, Answers
<1>2. ASSUME IInv PROVE sent \subseteq Index
  BY <1>2 DEF IInv, TypeOK
<1>3. IInv => Isolation
  BY <1>1, <1>2 DEF Isolation
<1> QED
  BY <1>3, Invariance, PTL

----------------------------------------------------------------------------
(* Map implements the sweep it promises (the safety part of SweepSpec) *)

LEMMA InitSweep == Init => Sweep!Init
BY DEF Init, Sweep!Init, Settled

\* A goroutine that writes its result settles its server; Map's return hands
\* the results back; every other step is invisible to the caller.
LEMMA StepSweep == IInv /\ [Next]_vars => [Sweep!Next]_(Sweep!vars)
<1> SUFFICES ASSUME IInv, [Next]_vars PROVE Sweep!Next \/ UNCHANGED Sweep!vars
  OBVIOUS
<1>0. TypeOK /\ Slots /\ FleetAssumption
  BY FleetAssumption DEF IInv, FleetAssumption
<1>1. ASSUME NEW i \in Index, NEW e \in Outcome,
             pc[i] \notin Written,
             results' = [results EXCEPT ![i] = [server |-> i, err |-> e]],
             UNCHANGED returned
      PROVE  Sweep!Settle(i)
  <2> DEFINE r == [server |-> i, err |-> e]
             o == IF e = "ok" THEN "answered" ELSE "failed"
  <2>1. r \in Result /\ r # NoResult /\ r.err = e
    BY FleetAssumption DEF Result
  <2>2. Settled[i] = "pending"
    BY <1>0, <1>1 DEF Slots, Settled
  <2>3. Settled' = [Settled EXCEPT ![i] = o]
    BY <1>0, <1>1, <2>1 DEF Settled, TypeOK
  <2>4. o \in {"answered", "failed"}
    OBVIOUS
  <2> QED
    BY <1>1, <2>2, <2>3, <2>4 DEF Sweep!Settle
<1>2. ASSUME UNCHANGED <<results, returned>> PROVE UNCHANGED Sweep!vars
  BY <1>2 DEF Sweep!vars, Settled
<1>3. CASE Return
  <2>1. \A i \in Index : results'[i] # NoResult
    <3>1. IInv'
      BY StepIInv
    <3>2. returned'
      BY <1>3 DEF Return
    <3>3. spawned = N /\ wg = 0
      BY <1>3 DEF Return
    <3>4. At(Living) = {}
      BY <3>3, FiniteCount, FS_EmptySet DEF At, IInv, Waiting
    <3>5. \A i \in Index : pc[i] = "gone"
      BY <3>3, <3>4, FleetAssumption DEF IInv, Started, TypeOK, Index, At, Living, Place
    <3> QED
      BY <1>3, <3>5 DEF Return, IInv, Slots, Written
  <2>2. \A i \in Index : Settled[i] # "pending"
    BY <1>3, <2>1 DEF Return, Settled
  <2>3. UNCHANGED Settled
    BY <1>3 DEF Return, Settled
  <2> QED
    BY <1>3, <2>2, <2>3 DEF Return, Sweep!Next, Sweep!HandBack
<1>4. ASSUME NEW i \in Index, Skip(i) PROVE Sweep!Settle(i)
  BY <1>1, <1>4 DEF Skip, Written, Outcome
<1>5. ASSUME NEW i \in Index, Store(i) PROVE Sweep!Settle(i)
  <2>1. PICK e \in Returns(i) : results' = [results EXCEPT ![i] = [server |-> i, err |-> e]]
    BY <1>5 DEF Store
  <2>2. e \in Outcome
    BY <1>0 DEF Returns, Outcome, TypeOK, Box
  <2> QED
    BY <1>1, <1>5, <2>1, <2>2 DEF Store, Written
<1>6. ASSUME NEW i \in Index, Acquire(i) \/ Call(i) \/ Release(i) \/ Done(i)
      PROVE  UNCHANGED <<results, returned>>
  BY <1>6 DEF Acquire, Call, Release, Done
<1>7. CASE Spawn \/ Expire \/ Interrupt \/ UNCHANGED vars
  BY <1>2, <1>7 DEF Spawn, Expire, Interrupt, vars
<1> QED
  BY <1>2, <1>3, <1>4, <1>5, <1>6, <1>7 DEF Next, Goroutine, Finished, Sweep!Next

THEOREM MapImplementsSweep == Spec => Sweep!Init /\ [][Sweep!Next]_(Sweep!vars)
BY InitSweep, StepSweep, Invariance, PTL DEF Spec

----------------------------------------------------------------------------
(* ls and server check *)

Shown ==
  /\ report # NoReport => returned /\ report = Built /\ exit # -1
  /\ command = "check" /\ exit = ExitOK => report # NoReport /\ Unanswered = {}
  /\ alerted \subseteq {i \in Index : box[i] = "healthy"}

RInv == IInv /\ TypeOKReport /\ Shown

\* A report's counts are numbers of servers.
LEMMA Counting ==
  ASSUME NEW S \in SUBSET Index
  PROVE  /\ IsFiniteSet(S) /\ Cardinality(S) \in 0..N
         /\ Cardinality(S) + Cardinality(Index \ S) = N
<1>1. IsFiniteSet(Index) /\ Cardinality(Index) = N
  BY FS_Interval, FleetAssumption DEF Index
<1>2. IsFiniteSet(S) /\ IsFiniteSet(Index \ S) /\ Cardinality(S) <= Cardinality(Index)
  BY <1>1, FS_Subset
<1>3. Cardinality(S) \in Nat
  BY <1>2, FS_CardinalityType
<1>4. Cardinality(Index \ S) = Cardinality(Index) - Cardinality(Index \cap S)
  BY <1>1, <1>2, FS_Difference
<1>5. Index \cap S = S
  OBVIOUS
<1> QED
  BY <1>1, <1>2, <1>3, <1>4, <1>5, FleetAssumption

LEMMA BuiltType ==
  ASSUME alerting \in BOOLEAN, alerted \in SUBSET Index
  PROVE  Built \in ReportType /\ Built # NoReport
<1>1. Answered \in SUBSET Index /\ Unanswered \in SUBSET Index /\ Answered \cap alerted \in SUBSET Index
  BY DEF Answered, Unanswered
<1>2. Cardinality(Answered) \in 0..N /\ Cardinality(Answered \cap alerted) \in 0..N
  BY <1>1, Counting
<1>3. Built \in ReportType
  BY <1>1, <1>2 DEF Built, ReportType
<1> QED
  BY <1>3, ReportAssumption

LEMMA InitRInv ==
  ASSUME InitReport
  PROVE  RInv
<1>1. IInv
  BY InitIInv DEF InitReport
<1>2. TypeOK
  BY <1>1 DEF IInv
<1>3. TypeOKReport /\ Shown
  <2>1. alerting \in BOOLEAN
    BY Zenon DEF InitReport
  <2>2. alerted \in SUBSET Index /\ alerted \subseteq {i \in Index : box[i] = "healthy"}
    BY DEF InitReport
  <2>3. command \in {"ls", "check"} /\ jqFails \in BOOLEAN /\ report = NoReport /\ exit = -1
    BY DEF InitReport
  <2>4. TypeOKReport
    BY <1>2, <2>1, <2>2, <2>3 DEF TypeOKReport
  <2>5. Shown
    BY <2>2, <2>3 DEF Shown, ExitOK
  <2> QED
    BY <2>4, <2>5
<1> QED
  BY <1>1, <1>3 DEF RInv

LEMMA StepRInv ==
  ASSUME RInv, [NextReport]_allVars
  PROVE  RInv'
<1>1. IInv'
  <2>1. [Next]_vars
    BY DEF NextReport, Sweeping, Report, Exited, allVars
  <2> QED
    BY <2>1, StepIInv DEF RInv
<1>2. TypeOK'
  BY <1>1 DEF IInv
<1>3. CASE Sweeping
  <2>1. UNCHANGED reportVars /\ exit = -1 /\ box' = box /\ report = NoReport
    BY <1>3 DEF Sweeping, Next, Spawn, Return, Goroutine, Acquire, Skip, Call, Store, Release, Done,
                Expire, Interrupt, Finished, vars, RInv, Shown
  <2> QED
    BY <1>1, <1>2, <2>1 DEF RInv, TypeOKReport, Shown, reportVars, ExitOK
<1>4. CASE Report
  <2>1. UNCHANGED <<box, results, command, alerting, alerted, jqFails>> /\ returned /\ returned'
        /\ report = NoReport
    BY <1>4 DEF Report, vars, RInv, Shown
  <2>2. Answered' = Answered /\ Unanswered' = Unanswered
    BY <2>1 DEF Answered, Unanswered
  <2>3. Built' = Built
    BY <2>1, <2>2 DEF Built
  <2>4. Built \in ReportType /\ Built # NoReport
    BY BuiltType DEF RInv, TypeOKReport
  <2>5. CASE jqFails
    BY <1>1, <1>2, <1>4, <2>1, <2>5 DEF Report, RInv, TypeOKReport, Shown, ExitOK, ExitError
  <2>6. CASE ~jqFails
    <3>1. report' = Built /\ exit' = IF command = "check" THEN CheckCode ELSE ExitOK
      BY <1>4, <2>6 DEF Report
    <3>2. exit' \in {ExitOK, ExitAuth} /\ (command = "check" /\ exit' = ExitOK => Unanswered = {})
      BY <3>1 DEF CheckCode, ExitOK, ExitAuth
    <3>3. TypeOKReport'
      BY <1>2, <2>1, <2>4, <3>1, <3>2 DEF RInv, TypeOKReport
    <3>4. Shown'
      BY <2>1, <2>2, <2>3, <2>4, <3>1, <3>2 DEF RInv, Shown, ExitOK, ExitAuth
    <3> QED
      BY <1>1, <3>3, <3>4 DEF RInv
  <2> QED
    BY <2>5, <2>6
<1>5. CASE UNCHANGED allVars
  <2>1. UNCHANGED <<box, results, returned>> /\ UNCHANGED reportVars
    BY <1>5 DEF allVars, vars
  <2>2. Answered' = Answered /\ Unanswered' = Unanswered
    BY <2>1 DEF Answered, Unanswered
  <2>3. Built' = Built
    BY <2>1, <2>2 DEF Built, reportVars
  <2> QED
    BY <1>1, <1>2, <2>1, <2>2, <2>3 DEF RInv, TypeOKReport, Shown, reportVars
<1> QED
  BY <1>3, <1>4, <1>5 DEF NextReport, Exited

LEMMA ReportInvariance == SpecReport => []RInv
<1>1. InitReport => RInv
  BY InitRInv
<1>2. RInv /\ [NextReport]_allVars => RInv'
  BY StepRInv
<1> QED
  BY <1>1, <1>2, PTL DEF SpecReport

\* Every variable of the two commands keeps its type.
THEOREM ReportTypeCorrect == SpecReport => []TypeOKReport
<1>1. RInv => TypeOKReport
  BY DEF RInv
<1> QED
  BY ReportInvariance, <1>1, PTL

\* Once Map has returned, a server with an answer is a healthy one that was
\* asked.
LEMMA AnswersAreTrue ==
  ASSUME IInv, returned, NEW i \in Answered
  PROVE  i \in sent /\ box[i] = "healthy"
<1>1. results[i] # NoResult
  BY ReturnedAllGone DEF Answered
<1> QED
  BY <1>1 DEF IInv, Answers, Answered

\* `bwg ls`: a missing row always means a missing server, never a hidden error,
\* and the totals count what --alerting leaves out.
THEOREM NothingIsHidden == SpecReport => []NoHiddenError
<1>1. RInv => NoHiddenError
  <2> SUFFICES ASSUME RInv, report # NoReport
               PROVE  /\ report.servers \cap report.failed = {}
                      /\ \A i \in Index \ (report.servers \cup report.failed) :
                           alerting /\ i \notin alerted /\ box[i] = "healthy" /\ i \in sent
                      /\ report.reachable + Cardinality(report.failed) = N
                      /\ report.needsAttention = Cardinality(report.servers \cap alerted)
    BY DEF NoHiddenError
  <2>1. returned /\ report = Built /\ IInv
    BY DEF RInv, Shown
  <2>2. /\ report.servers = IF alerting THEN Answered \cap alerted ELSE Answered
        /\ report.failed = Unanswered
        /\ report.reachable = Cardinality(Answered)
        /\ report.needsAttention = Cardinality(Answered \cap alerted)
    BY <2>1 DEF Built
  <2>3. Answered \in SUBSET Index /\ Unanswered = Index \ Answered
    BY DEF Answered, Unanswered
  <2>4. \A i \in Index \ (report.servers \cup report.failed) :
          alerting /\ i \notin alerted /\ box[i] = "healthy" /\ i \in sent
    BY <2>1, <2>2, <2>3, AnswersAreTrue
  <2>5. report.reachable + Cardinality(report.failed) = N
    BY <2>2, <2>3, Counting
  <2>6. report.servers \cap alerted = Answered \cap alerted
    BY <2>2
  <2> QED
    BY <2>2, <2>3, <2>4, <2>5, <2>6
<1> QED
  BY ReportInvariance, <1>1, PTL

\* `bwg server check` exits 0 only when every server was asked and its own
\* credentials were accepted.
THEOREM CheckedIsVerified == SpecReport => []CheckedMeansVerified
<1>1. RInv => CheckedMeansVerified
  <2> SUFFICES ASSUME RInv, command = "check", exit = ExitOK
               PROVE  report # NoReport /\ \A i \in Index : i \in sent /\ box[i] = "healthy"
    BY DEF CheckedMeansVerified
  <2>1. report # NoReport /\ returned /\ Unanswered = {} /\ IInv
    BY DEF RInv, Shown
  <2>2. \A i \in Index : i \in Answered
    BY <2>1 DEF Answered, Unanswered
  <2> QED
    BY <2>1, <2>2, AnswersAreTrue
<1> QED
  BY ReportInvariance, <1>1, PTL

=============================================================================
