------------------------------ MODULE FleetMap ------------------------------
(***************************************************************************)
(* fleet.Map: one goroutine per server, a buffered channel as a counting   *)
(* semaphore, a wait group, and a context that may end at any moment.      *)
(* Server i of the slice handed to Map is the number i.                    *)
(*                                                                         *)
(* A box is what the goroutine's call finds at the other end.  It is fixed *)
(* for one sweep: "healthy" answers, "rejected" answers that the           *)
(* credentials are wrong, "failing" answers with any other error, "hung"   *)
(* never answers at all.                                                   *)
(***************************************************************************)
EXTENDS Integers, FiniteSets

CONSTANTS
  N,                  \* length of the servers slice
  Concurrency,        \* the caller's concurrency argument: any integer
  DefaultConcurrency, \* fleet.DefaultConcurrency
  NoResult            \* the zero Result a slot holds before it is written

Index   == 1..N
Box     == {"healthy", "rejected", "failing", "hung"}
Outcome == {"ok", "rejected", "failed", "cancelled"}
Result  == [server : Index, err : Outcome]

ASSUME FleetAssumption ==
  /\ N \in Nat
  /\ Concurrency \in Int
  /\ DefaultConcurrency \in Nat \ {0}
  /\ NoResult \notin Result

\* The semaphore's capacity: a non-positive argument means the default.
Capacity == IF Concurrency <= 0 THEN DefaultConcurrency ELSE Concurrency

VARIABLES
  box,         \* what each server's call meets
  hasDeadline, \* the context carries App.Context's timeout (the MCP server's does not)
  ctx,         \* "live", "expired" (deadline) or "interrupted" (signal)
  spawned,     \* how many goroutines Map's loop has started
  pc,          \* each goroutine's place
  sem,         \* tokens in the channel
  wg,          \* the wait group's counter
  sent,        \* servers whose request has gone out
  results,     \* the results slice
  returned     \* Map has returned

vars == <<box, hasDeadline, ctx, spawned, pc, sem, wg, sent, results, returned>>

\* The places of a goroutine, in order.  "slot" holds a token and is about to
\* call; "calling" is inside fn; "stored" has written its result and runs its
\* deferred calls, the token first; "leaving" has only wg.Done left.
Place == {"unborn", "select", "slot", "calling", "stored", "leaving", "gone"}

Holder(i) == pc[i] \in {"slot", "calling", "stored"}
Alive(i)  == pc[i] \notin {"unborn", "gone"}
CtxDone   == ctx # "live"

TypeOK ==
  /\ box \in [Index -> Box]
  /\ hasDeadline \in BOOLEAN
  /\ ctx \in {"live", "expired", "interrupted"}
  /\ spawned \in 0..N
  /\ pc \in [Index -> Place]
  /\ sem \in Int
  /\ wg \in Int
  /\ sent \in SUBSET Index
  /\ results \in [Index -> Result \cup {NoResult}]
  /\ returned \in BOOLEAN

Init ==
  /\ box \in [Index -> Box]
  /\ hasDeadline \in BOOLEAN
  /\ ctx = "live"
  /\ spawned = 0
  /\ pc = [i \in Index |-> "unborn"]
  /\ sem = 0
  /\ wg = 0
  /\ sent = {}
  /\ results = [i \in Index |-> NoResult]
  /\ returned = FALSE

----------------------------------------------------------------------------
(* The caller's goroutine *)

\* One turn of the loop: wg.Add(1), then go.
Spawn ==
  /\ spawned < N
  /\ spawned' = spawned + 1
  /\ wg' = wg + 1
  /\ pc' = [pc EXCEPT ![spawned + 1] = "select"]
  /\ UNCHANGED <<box, hasDeadline, ctx, sem, sent, results, returned>>

\* wg.Wait returns and so does Map.
\* (Mutant: nothing waits.)
ReturnAtOnce ==
  /\ spawned = N
  /\ ~returned
  /\ returned' = TRUE
  /\ UNCHANGED <<box, hasDeadline, ctx, spawned, pc, sem, wg, sent, results>>

Return ==
  /\ spawned = N
  /\ wg = 0
  /\ ~returned
  /\ returned' = TRUE
  /\ UNCHANGED <<box, hasDeadline, ctx, spawned, pc, sem, wg, sent, results>>

----------------------------------------------------------------------------
(* A server's goroutine *)

\* The select's first branch.  When the context is done too, Go picks either
\* branch: a goroutine can still take a slot after cancellation.
\* (Mutant: the semaphore holds one too many.)
AcquireOneMore(i) ==
  /\ pc[i] = "select"
  /\ sem <= Capacity
  /\ sem' = sem + 1
  /\ pc' = [pc EXCEPT ![i] = "slot"]
  /\ UNCHANGED <<box, hasDeadline, ctx, spawned, wg, sent, results, returned>>

Acquire(i) ==
  /\ pc[i] = "select"
  /\ sem < Capacity
  /\ sem' = sem + 1
  /\ pc' = [pc EXCEPT ![i] = "slot"]
  /\ UNCHANGED <<box, hasDeadline, ctx, spawned, wg, sent, results, returned>>

\* The select's second branch: no slot is held, so only wg.Done is deferred.
Skip(i) ==
  /\ pc[i] = "select"
  /\ CtxDone
  /\ results' = [results EXCEPT ![i] = [server |-> i, err |-> "cancelled"]]
  /\ pc' = [pc EXCEPT ![i] = "leaving"]
  /\ UNCHANGED <<box, hasDeadline, ctx, spawned, sem, wg, sent, returned>>

\* fn starts.  Under a finished context the HTTP client sends nothing.
Call(i) ==
  /\ pc[i] = "slot"
  /\ pc' = [pc EXCEPT ![i] = "calling"]
  /\ sent' = IF CtxDone THEN sent ELSE sent \cup {i}
  /\ UNCHANGED <<box, hasDeadline, ctx, spawned, sem, wg, results, returned>>

\* What fn may return: the box's own answer when a request reached it, the
\* context's error once that is done, and, with no deadline on the context,
\* the HTTP client's own timeout for a box that never answers.  (Under
\* App.Context both timeouts have one length and the context's clock started
\* first, so the context's always fires first.)
\* (Mutant: the first failure cancels the others.)
ReturnsTogether(i) ==
  {e \in Outcome :
     \/ e = "cancelled" /\ \E j \in Index : results[j] # NoResult /\ results[j].err # "ok"
     \/ e = "cancelled" /\ CtxDone
     \/ i \in sent /\ e = "ok" /\ box[i] = "healthy"
     \/ i \in sent /\ e = "failed" /\ box[i] # "healthy"}

Returns(i) ==
  {e \in Outcome :
     \/ e = "cancelled" /\ CtxDone
     \/ i \in sent /\ e = "ok" /\ box[i] = "healthy"
     \/ i \in sent /\ e = "rejected" /\ box[i] = "rejected"
     \/ i \in sent /\ e = "failed" /\ box[i] = "failing"
     \/ i \in sent /\ e = "failed" /\ box[i] = "hung" /\ ~hasDeadline}

\* fn returns and its outcome, value or error, goes to this server's slot.
\* (Mutant: the goroutines share the loop's index.)
StoreAtLoopIndex(i) ==
  /\ pc[i] = "calling"
  /\ \E e \in Returns(i) :
       results' = [results EXCEPT ![spawned] = [server |-> spawned, err |-> e]]
  /\ pc' = [pc EXCEPT ![i] = "stored"]
  /\ UNCHANGED <<box, hasDeadline, ctx, spawned, sem, wg, sent, returned>>

Store(i) ==
  /\ pc[i] = "calling"
  /\ \E e \in Returns(i) : results' = [results EXCEPT ![i] = [server |-> i, err |-> e]]
  /\ pc' = [pc EXCEPT ![i] = "stored"]
  /\ UNCHANGED <<box, hasDeadline, ctx, spawned, sem, wg, sent, returned>>

\* The deferred receive: deferred calls run last in, first out.
Release(i) ==
  /\ pc[i] = "stored"
  /\ sem' = sem - 1
  /\ pc' = [pc EXCEPT ![i] = "leaving"]
  /\ UNCHANGED <<box, hasDeadline, ctx, spawned, wg, sent, results, returned>>

\* The deferred wg.Done.
Done(i) ==
  /\ pc[i] = "leaving"
  /\ wg' = wg - 1
  /\ pc' = [pc EXCEPT ![i] = "gone"]
  /\ UNCHANGED <<box, hasDeadline, ctx, spawned, sem, sent, results, returned>>

----------------------------------------------------------------------------
(* The context *)

\* App.Context's timeout.
\* (Mutant: it is set on a context that nobody passes on.)
ExpireElsewhere ==
  /\ hasDeadline
  /\ ctx = "live"
  /\ UNCHANGED vars

Expire ==
  /\ hasDeadline
  /\ ctx = "live"
  /\ ctx' = "expired"
  /\ UNCHANGED <<box, hasDeadline, spawned, pc, sem, wg, sent, results, returned>>

Interrupt ==
  /\ ctx = "live"
  /\ ctx' = "interrupted"
  /\ UNCHANGED <<box, hasDeadline, spawned, pc, sem, wg, sent, results, returned>>

Goroutine(i) ==
  Acquire(i) \/ Skip(i) \/ Call(i) \/ Store(i) \/ Release(i) \/ Done(i)

\* After Map has returned nothing of the sweep is left to run.
Finished == returned /\ UNCHANGED vars

Next ==
  \/ Spawn
  \/ Return
  \/ \E i \in Index : Goroutine(i)
  \/ Expire
  \/ Interrupt
  \/ Finished

\* The Go scheduler runs every runnable goroutine; a deadline, once set,
\* passes.  Nobody has to press Ctrl-C.
Fairness ==
  /\ WF_vars(Spawn)
  /\ WF_vars(Return)
  /\ \A i \in Index : WF_vars(Goroutine(i))
  /\ WF_vars(Expire)

Spec == Init /\ [][Next]_vars /\ Fairness

----------------------------------------------------------------------------
(* Properties *)

\* "A bounded worker count": no more calls are under way at once than the
\* semaphore admits, whatever concurrency the caller asked for, zero and
\* negative included.
BoundedFanOut == Cardinality({i \in Index : pc[i] \in {"slot", "calling"}}) <= Capacity

\* When Map returns, every goroutine has finished, every slot is free again,
\* and every server has a result, in its own place in the slice.
CompleteOnReturn ==
  returned => /\ \A i \in Index : pc[i] = "gone" /\ results[i] # NoResult
              /\ \A i \in Index : results[i].server = i
              /\ sem = 0

\* "Failures come back as per-server results, not as an aborted run": unless
\* the context ended, every server was asked and its result is its own box's
\* answer, however many of the others failed or hung.
Isolation ==
  returned /\ ~CtxDone =>
    /\ sent = Index
    /\ \A i \in Index : /\ results[i].err # "cancelled"
                        /\ results[i].err = "ok" <=> box[i] = "healthy"

\* A sweep ends: with hung boxes, failures, a full semaphore or Ctrl-C.
Terminates == <>returned

\* What Map promises its callers, in one place: see FleetSweep.
Settled == [i \in Index |->
              IF results[i] = NoResult THEN "pending"
              ELSE IF results[i].err = "ok" THEN "answered" ELSE "failed"]

Sweep == INSTANCE FleetSweep WITH Server <- Index, outcome <- Settled, handedBack <- returned
SweepSpec == Sweep!Spec

=============================================================================
