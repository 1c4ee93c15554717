----------------------- MODULE ServiceRebalanceProofs -----------------------
(***************************************************************************)
(* The safety properties of ServiceRebalance for every number of changes,  *)
(* calls, moves and faults: that gatherProgress keeps the inductive        *)
(* invariant too, and what follows from it.                                *)
(***************************************************************************)
EXTENDS ServiceRebalanceCalls, TLAPS

-----------------------------------------------------------------------------
(* gatherProgress                                                           *)

\* A goroutine that waited for a callback without being cancelled has no callback
LEMMA NoneLeft ==
  ASSUME IInv, NEW i \in Ids, reb[i].c = "open",
         reb[i].pc \in {"apps", "first", "loop"} \/ (reb[i].pc = "wait" /\ Waited(i))
  PROVE  \A k \in cbs : k.reb # i
<1> SUFFICES ASSUME NEW k \in cbs, k.reb = i PROVE FALSE
  OBVIOUS
<1>1. reb[i].pc = "wait"
  BY DEF IInv, Callbacks, CallbackOK
<1>2. Cancelled(k)
  BY <1>1 DEF Waited
<1> QED
  BY <1>1, <1>2 DEF Cancelled, IInv, Goroutines, Goroutine

\* The goroutine of change i, which then holds r, calls cb.progress or cb.done
Calling(i, r, what, next) ==
  /\ r \in RebType /\ r.c = reb[i].c /\ r.done = reb[i].done /\ r.result = reb[i].result
  /\ what \in {"progress", "finished", "failed"} /\ next \in {"loop", "finish", "return"}
  /\ what = "progress" <=> next # "return"
  /\ Callback(i, r, what, next)
  /\ \/ reb[i].pc \in {"apps", "first", "loop"}
     \/ reb[i].pc = "wait" /\ reb[i].next = "finish" /\ Waited(i) /\ next = "return"
  /\ kv' \in KvType /\ env' \in EnvType /\ UNCHANGED Mine
  /\ kv'.token = kv.token \/ (kv'.token.id = i /\ kv'.token.value = "stop")

\* Such a call keeps the invariant: it is the one callback of the active rebalance
LEMMA CallingKeeps ==
  ASSUME IInv, NEW i \in Ids, NEW r, NEW what, NEW next, Calling(i, r, what, next)
  PROVE  IInv'
<1> DEFINE l == [reb |-> i, what |-> what, at |-> "waiting"]
<1>0. /\ r \in RebType /\ r.c = reb[i].c /\ r.done = reb[i].done /\ r.result = reb[i].result
      /\ what \in {"progress", "finished", "failed"} /\ next \in {"loop", "finish", "return"}
      /\ what = "progress" <=> next # "return"
      /\ kv' \in KvType /\ env' \in EnvType
  BY DEF Calling
<1>w. \/ reb[i].pc \in {"apps", "first", "loop"}
      \/ reb[i].pc = "wait" /\ reb[i].next = "finish" /\ Waited(i) /\ next = "return"
  BY Zenon DEF Calling
<1>a. /\ reb' = [reb EXCEPT ![i] = [r EXCEPT !.pc = "wait", !.next = next]]
      /\ cbs' = cbs \cup {l} /\ UNCHANGED <<m, ctx, rebalancer, leaked, call, poll>>
  BY Zenon DEF Calling, Callback, Mine
<1>b. l \in CbType /\ l.reb = i /\ l.what = what /\ l.at = "waiting"
  BY <1>0 DEF CbType
<1> HIDE DEF l
<1>c. /\ reb' \in [Ids -> RebType] /\ reb'[i].pc = "wait" /\ reb'[i].next = next
      /\ \A j \in Ids : reb'[j].c = reb[j].c /\ reb'[j].done = reb[j].done
                        /\ reb'[j].result = reb[j].result
      /\ \A j \in Ids \ {i} : reb'[j] = reb[j]
  <2> DEFINE w == [r EXCEPT !.pc = "wait", !.next = next]
  <2>1. /\ w \in RebType /\ w.pc = "wait" /\ w.next = next /\ w.c = r.c /\ w.done = r.done
        /\ w.result = r.result
    BY <1>0, Zenon DEF RebType
  <2>2. reb' = [reb EXCEPT ![i] = w] /\ reb \in [Ids -> RebType]
    BY <1>a DEF IInv, Types
  <2> HIDE DEF w
  <2> QED
    BY <1>0, <2>1, <2>2
<1>d. \A j \in Ids : Active(j)' <=> Active(j)
  BY <1>a DEF Active
<1>e. Active(i) /\ reb[i].pc # "none" /\ reb[i].done = "open"
  BY <1>w DEF IInv, Goroutines, Goroutine, Types, RebType
<1>f. \A k \in cbs : k.reb \in Ids
  BY DEF IInv, Types, CbType
<1>tok. kv'.token = kv.token \/ (kv'.token.id = i /\ kv'.token.value = "stop")
  BY Zenon DEF Calling
<1>1. Types'
  BY <1>0, <1>a, <1>b, <1>c DEF IInv, Types
<1>2. Mutex'
  BY <1>a, <1>b DEF IInv, Mutex
<1>3. Goroutines'
  <2> SUFFICES ASSUME NEW j \in Ids PROVE Goroutine(j)'
    BY DEF Goroutines
  <2>1. CASE j = i
    BY <2>1, <1>0, <1>w, <1>a, <1>b, <1>c, <1>d, <1>e DEF IInv, Goroutines, Goroutine
  <2>2. CASE j # i
    BY <2>2, <1>a, <1>c, <1>d DEF IInv, Goroutines, Goroutine
  <2> QED
    BY <2>1, <2>2
<1>4. Callbacks'
  <2>1. \A k \in cbs : Cancelled(k)' <=> Cancelled(k)
    BY <1>c, <1>f DEF Cancelled
  <2>2. \A k \in cbs : k.reb = i => k.what = "progress" /\ reb[i].c = "closed"
    BY <1>w, NoneLeft DEF IInv, Callbacks, CallbackOK, Types, RebType
  <2>3. CallbackOfCurrent'
    BY <1>a, <1>b, <1>e, <2>1, ActiveForm DEF IInv, Callbacks, CallbackOK, CallbackOfCurrent
  <2>4. \A k \in cbs : k.reb # i => reb'[k.reb] = reb[k.reb]
    BY <1>c, <1>f
  <2>5. \A k \in cbs : CallbackOK(k)'
    <3> SUFFICES ASSUME NEW k \in cbs PROVE CallbackOK(k)'
      OBVIOUS
    <3>1. CallbackOK(k)
      BY DEF IInv, Callbacks
    <3>2. CASE k.reb # i
      BY <3>1, <3>2, <2>1, <2>4 DEF CallbackOK
    <3>3. CASE k.reb = i
      BY <3>1, <3>3, <1>c, <2>1, <2>2 DEF CallbackOK
    <3> QED
      BY <3>2, <3>3
  <2>6. CallbackOK(l)'
    BY <1>0, <1>b, <1>c, <1>e DEF CallbackOK, Cancelled
  <2>7. \A j, k \in cbs' : j.reb = k.reb /\ reb'[j.reb].c = "open" => j = k
    BY <1>a, <1>b, <1>c, <1>f, <2>2 DEF IInv, Callbacks
  <2> QED
    BY <1>a, <2>3, <2>5, <2>6, <2>7 DEF Callbacks
<1>5. Announced'
  BY <1>tok, <1>a, <1>d, <1>e DEF IInv, Announced
<1>6. Ordered'
  <2>1. \A j \in Ids : reb'[j].pc # "none" <=> reb[j].pc # "none"
    BY <1>c, <1>e
  <2> QED
    BY <1>a, <1>c, <1>d, <2>1 DEF IInv, Ordered, Started
<1>7. Polled'
  BY <1>a DEF IInv, Polled, WaiterUpToDate
<1> QED
  BY <1>1, <1>2, <1>3, <1>4, <1>5, <1>6, <1>7 DEF IInv

\* The same, with the call spelled out
LEMMA Calls ==
  ASSUME IInv, NEW i \in Ids, NEW r \in RebType,
         r.c = reb[i].c, r.done = reb[i].done, r.result = reb[i].result,
         NEW what \in {"progress", "finished", "failed"},
         NEW next \in {"loop", "finish", "return"}, what = "progress" <=> next # "return",
         Callback(i, r, what, next),
         \/ reb[i].pc \in {"apps", "first", "loop"}
         \/ reb[i].pc = "wait" /\ reb[i].next = "finish" /\ Waited(i) /\ next = "return",
         kv' \in KvType, env' \in EnvType, UNCHANGED Mine,
         kv'.token = kv.token \/ (kv'.token.id = i /\ kv'.token.value = "stop")
  PROVE  IInv'
BY CallingKeeps, Zenon DEF Calling

\* The goroutine of change i goes on with r, or returns, without a callback
Moving(i, r) ==
  /\ r \in RebType /\ reb' = [reb EXCEPT ![i] = r]
  /\ r.c = reb[i].c /\ r.next = reb[i].next /\ r.result = reb[i].result
  /\ UNCHANGED cbs /\ UNCHANGED Mine
  /\ env' \in EnvType /\ kv' \in KvType /\ kv'.token = kv.token
  /\ \/ /\ r.pc \in {"first", "loop"} /\ r.done = reb[i].done
        /\ \/ reb[i].pc \in {"apps", "first"}
           \/ reb[i].pc = "wait" /\ reb[i].next = "loop" /\ Waited(i)
     \/ /\ r.pc = "returned" /\ r.done = "closed"
        /\ \/ reb[i].pc = "loop" /\ reb[i].c = "closed"
           \/ reb[i].pc = "wait" /\ reb[i].next = "return" /\ Waited(i)

\* Such a step keeps the invariant: the callbacks left over are cancelled ones
LEMMA MovingKeeps ==
  ASSUME IInv, NEW i \in Ids, NEW r, Moving(i, r)
  PROVE  IInv'
<1>a. UNCHANGED <<m, ctx, rebalancer, leaked, call, poll>>
  BY Zenon DEF Moving, Mine
<1>0. /\ r \in RebType /\ reb' = [reb EXCEPT ![i] = r]
      /\ r.c = reb[i].c /\ r.next = reb[i].next /\ r.result = reb[i].result
  BY Zenon DEF Moving
<1>w. \/ /\ r.pc \in {"first", "loop"} /\ r.done = reb[i].done
         /\ \/ reb[i].pc \in {"apps", "first"}
            \/ reb[i].pc = "wait" /\ reb[i].next = "loop" /\ Waited(i)
      \/ /\ r.pc = "returned" /\ r.done = "closed"
         /\ \/ reb[i].pc = "loop" /\ reb[i].c = "closed"
            \/ reb[i].pc = "wait" /\ reb[i].next = "return" /\ Waited(i)
  BY Zenon DEF Moving
<1>kv. UNCHANGED cbs /\ env' \in EnvType /\ kv' \in KvType /\ kv'.token = kv.token
  BY Zenon DEF Moving
<1>b. /\ reb' \in [Ids -> RebType] /\ reb'[i] = r
      /\ \A j \in Ids : reb'[j].c = reb[j].c /\ reb'[j].next = reb[j].next
                        /\ reb'[j].result = reb[j].result
      /\ \A j \in Ids \ {i} : reb'[j] = reb[j]
  BY <1>0 DEF IInv, Types
<1>c. \A j \in Ids : Active(j)' <=> Active(j)
  BY <1>a DEF Active
<1>d. reb[i].done = "open" /\ reb[i].pc # "none" /\ r.pc # "none"
  BY <1>w DEF IInv, Types, RebType, Goroutines, Goroutine
<1>e. \A k \in cbs : k.reb \in Ids
  BY DEF IInv, Types, CbType
<1>f. reb[i].c = "open" => \A k \in cbs : k.reb # i
  BY <1>w, NoneLeft
<1>g. \A k \in cbs : k.reb = i => k.what # "failed" /\ reb[i].c = "closed"
  <2> SUFFICES ASSUME NEW k \in cbs, k.reb = i PROVE k.what # "failed" /\ reb[i].c = "closed"
    OBVIOUS
  <2>1. reb[i].c = "closed"
    BY <1>f DEF IInv, Types, RebType
  <2>2. ASSUME k.what = "failed" PROVE FALSE
    <3>1. reb[i].pc = "wait" /\ reb[i].next = "return"
      BY <2>2, <1>w DEF IInv, Callbacks, CallbackOK
    <3>2. Cancelled(k)
      BY <3>1, <1>w, <1>0 DEF Waited
    <3> QED
      BY <2>2, <3>2, <1>d DEF Cancelled
  <2> QED
    BY <2>1, <2>2
<1>1. Types'
  BY <1>kv, <1>a, <1>b DEF IInv, Types
<1>2. Mutex'
  BY <1>kv, <1>a DEF IInv, Mutex
<1>3. Goroutines'
  <2> SUFFICES ASSUME NEW j \in Ids PROVE Goroutine(j)'
    BY DEF Goroutines
  <2>1. CASE j # i
    BY <2>1, <1>a, <1>b, <1>c, <1>kv DEF IInv, Goroutines, Goroutine
  <2>2. CASE j = i /\ r.pc # "returned"
    BY <2>2, <1>a, <1>b, <1>c, <1>d, <1>0, <1>w, <1>kv DEF IInv, Goroutines, Goroutine
  <2>3. CASE j = i /\ r.pc = "returned"
    <3>1. Active(i) => reb[i].c = "closed"
      BY <2>3, <1>f, <1>w DEF IInv, Types, RebType, Goroutines, Goroutine
    <3> QED
      BY <2>3, <3>1, <1>a, <1>b, <1>c, <1>d, <1>0, <1>w, <1>kv DEF IInv, Goroutines, Goroutine
  <2> QED
    BY <2>1, <2>2, <2>3
<1>4. Callbacks'
  <2>1. \A k \in cbs : Cancelled(k)' <=> Cancelled(k)
    BY <1>b, <1>e, <1>g DEF Cancelled
  <2>2. \A k \in cbs : k.reb # i => reb'[k.reb] = reb[k.reb]
    BY <1>b, <1>e
  <2>3. \A k \in cbs : k.reb = i /\ k.what # "progress" => r.pc = "returned"
    BY <1>w DEF IInv, Callbacks, CallbackOK
  <2>4. \A k \in cbs : CallbackOK(k)'
    <3> SUFFICES ASSUME NEW k \in cbs PROVE CallbackOK(k)'
      OBVIOUS
    <3>1. CallbackOK(k)
      BY DEF IInv, Callbacks
    <3>2. CASE k.reb # i
      BY <3>1, <3>2, <2>1, <2>2 DEF CallbackOK
    <3>3. CASE k.reb = i
      BY <3>1, <3>3, <1>b, <1>d, <1>g, <1>0, <2>1, <2>3 DEF CallbackOK
    <3> QED
      BY <3>2, <3>3
  <2> QED
    BY <1>a, <1>b, <1>e, <2>1, <2>4, <1>kv DEF IInv, Callbacks, CallbackOfCurrent
<1>5. Announced'
  BY <1>kv, <1>a, <1>c DEF IInv, Announced
<1>6. Ordered'
  <2>1. \A j \in Ids : reb'[j].pc # "none" <=> reb[j].pc # "none"
    BY <1>b, <1>d
  <2> QED
    BY <1>a, <1>b, <1>c, <2>1 DEF IInv, Ordered, Started
<1>7. Polled'
  BY <1>a DEF IInv, Polled, WaiterUpToDate
<1> QED
  BY <1>1, <1>2, <1>3, <1>4, <1>5, <1>6, <1>7 DEF IInv

\* The same, with the step spelled out
LEMMA Moves ==
  ASSUME IInv, NEW i \in Ids, NEW r \in RebType, reb' = [reb EXCEPT ![i] = r],
         r.c = reb[i].c, r.next = reb[i].next, r.result = reb[i].result,
         UNCHANGED cbs, UNCHANGED Mine, env' \in EnvType, kv' \in KvType, kv'.token = kv.token,
         \/ /\ r.pc \in {"first", "loop"} /\ r.done = reb[i].done
            /\ \/ reb[i].pc \in {"apps", "first"}
               \/ reb[i].pc = "wait" /\ reb[i].next = "loop" /\ Waited(i)
         \/ /\ r.pc = "returned" /\ r.done = "closed"
            /\ \/ reb[i].pc = "loop" /\ reb[i].c = "closed"
               \/ reb[i].pc = "wait" /\ reb[i].next = "return" /\ Waited(i)
  PROVE  IInv'
BY MovingKeeps, Zenon DEF Moving

\* stopRebalanceCallback and cb.done with an error
LEMMA Fails ==
  ASSUME IInv, NEW i \in Ids, reb[i].pc \in {"first", "loop"}, Fail(i), env' \in EnvType,
         UNCHANGED Mine
  PROVE  IInv'
<1>1. /\ kv' = [kv EXCEPT !.token = [id |-> i, value |-> "stop"]]
      /\ Callback(i, reb[i], "failed", "return")
  BY DEF Fail
<1>2. kv' \in KvType /\ kv'.token.id = i /\ kv'.token.value = "stop"
  BY <1>1 DEF IInv, Types, KvType, IdOrNone
<1>3. reb[i] \in RebType
  BY DEF IInv, Types
<1> QED
  BY <1>1, <1>2, <1>3, Calls

\* A request for the progress stays within the bounds
LEMMA ProgressTypes ==
  ASSUME IInv, GetProgressOK \/ GetProgressFails
  PROVE  env' \in EnvType
BY Spends DEF GetProgressOK, GetProgressFails, IInv, Types

\* gatherProgress up to its loop
LEMMA GatherBegins ==
  ASSUME IInv, NEW i \in Ids, GatherNoApps(i) \/ GatherFirst(i) \/ GatherFirstFails(i)
  PROVE  IInv'
<1>a. reb[i] \in RebType /\ kv \in KvType /\ env \in EnvType
  BY DEF IInv, Types
<1>b. env' \in EnvType /\ UNCHANGED Mine
  BY <1>a, ProgressTypes DEF GatherNoApps, GatherFirst, GatherFirstFails, GetProgressOK
<1>1. CASE \/ GatherNoApps(i) /\ Callback(i, reb[i], "progress", "finish")
           \/ GatherFirstFails(i) /\ Callback(i, reb[i], "progress", "finish") /\ UNCHANGED kv
  <2>1. /\ reb[i].pc \in {"apps", "first"} /\ UNCHANGED kv
        /\ Callback(i, reb[i], "progress", "finish")
    BY <1>1 DEF GatherNoApps, GatherFirstFails
  <2> QED
    BY <1>a, <1>b, <2>1, Calls
<1>2. CASE GatherNoApps(i) /\ reb' = [reb EXCEPT ![i].pc = "first"] /\ UNCHANGED cbs
  <2> DEFINE r == [reb[i] EXCEPT !.pc = "first"]
  <2>1. /\ r \in RebType /\ r.pc = "first" /\ r.c = reb[i].c /\ r.next = reb[i].next
        /\ r.result = reb[i].result /\ r.done = reb[i].done
    BY <1>a DEF RebType
  <2>2. reb' = [reb EXCEPT ![i] = r] /\ reb[i].pc = "apps" /\ UNCHANGED <<kv, cbs>>
    BY <1>2 DEF GatherNoApps
  <2> HIDE DEF r
  <2> QED
    BY <1>a, <1>b, <2>1, <2>2, Moves, Zenon
<1>3. CASE GatherFirst(i)
  <2> DEFINE r == [reb[i] EXCEPT !.pc = "loop", !.n = 0]
  <2>1. /\ r \in RebType /\ r.pc = "loop" /\ r.c = reb[i].c /\ r.next = reb[i].next
        /\ r.result = reb[i].result /\ r.done = reb[i].done
    BY <1>a, Zenon DEF RebType
  <2>2. /\ reb' = [reb EXCEPT ![i] = r] /\ reb[i].pc = "first" /\ UNCHANGED cbs
        /\ kv' = [kv EXCEPT !.total = env.vbs]
    BY <1>3, Zenon DEF GatherFirst
  <2>3. kv' \in KvType /\ kv'.token = kv.token
    BY <2>2, <1>a DEF KvType, EnvType
  <2> HIDE DEF r
  <2> QED
    BY <1>b, <2>1, <2>2, <2>3, Moves, Zenon
<1>4. CASE GatherFirstFails(i) /\ reb' = [reb EXCEPT ![i].n = @ + 1] /\ UNCHANGED <<kv, cbs>>
  <2> DEFINE r == [reb[i] EXCEPT !.n = @ + 1]
  <2>1. /\ r \in RebType /\ r.pc = reb[i].pc /\ r.c = reb[i].c /\ r.next = reb[i].next
        /\ r.result = reb[i].result /\ r.done = reb[i].done
    BY <1>a DEF RebType
  <2>2. reb' = [reb EXCEPT ![i] = r] /\ reb[i].pc = "first" /\ UNCHANGED <<kv, cbs>>
    BY <1>4 DEF GatherFirstFails
  <2> HIDE DEF r
  <2> QED
    BY <1>a, <1>b, <2>1, <2>2, Moves, Zenon
<1>5. CASE GatherFirstFails(i) /\ Fail(i)
  <2>1. reb[i].pc = "first"
    BY <1>5 DEF GatherFirstFails
  <2> QED
    BY <1>5, <1>b, <2>1, Fails
<1> QED
  BY <1>1, <1>2, <1>3, <1>4, <1>5 DEF GatherNoApps, GatherFirstFails

\* A tick of gatherProgress with some vbuckets left
LEMMA GatherTicks ==
  ASSUME IInv, NEW i \in Ids, GatherTick(i)
  PROVE  IInv'
<1> DEFINE total == IF env.vbs > kv.total THEN env.vbs ELSE kv.total
<1> DEFINE progress == <<env.vbs, total>>
<1> DEFINE n == IF Same(progress, reb[i].progress) THEN reb[i].n + 1 ELSE 0
<1> DEFINE r == [reb[i] EXCEPT !.n = n, !.progress = progress]
<1>a. /\ reb[i].pc = "loop" /\ UNCHANGED env /\ UNCHANGED Mine
      /\ \/ /\ kv' = [kv EXCEPT !.total = total, !.token = [id |-> i, value |-> "stop"]]
            /\ Callback(i, r, "failed", "return")
         \/ /\ kv' = [kv EXCEPT !.total = total]
            /\ Callback(i, r, "progress", "loop")
  BY DEF GatherTick, GetProgressOK
<1>b. reb[i] \in RebType /\ kv \in KvType /\ env' \in EnvType /\ env.vbs \in Nat
      /\ kv.total \in Nat /\ reb[i].n \in Nat
  BY <1>a DEF IInv, Types, EnvType, KvType, RebType
<1>c. total \in Nat /\ n \in Nat /\ progress \in Nat \X Nat
  BY <1>b
<1> HIDE DEF total, n, progress
<1>d. /\ r \in RebType /\ r.c = reb[i].c /\ r.done = reb[i].done /\ r.result = reb[i].result
  BY <1>b, <1>c, Zenon DEF RebType
<1> HIDE DEF r
<1>1. CASE /\ kv' = [kv EXCEPT !.total = total, !.token = [id |-> i, value |-> "stop"]]
           /\ Callback(i, r, "failed", "return")
  <2>1. kv' \in KvType /\ kv'.token.id = i /\ kv'.token.value = "stop"
    BY <1>1, <1>b, <1>c, Zenon DEF KvType, IdOrNone
  <2> QED
    BY <1>1, <1>a, <1>b, <1>d, <2>1, Calls
<1>2. CASE kv' = [kv EXCEPT !.total = total] /\ Callback(i, r, "progress", "loop")
  <2>1. kv' \in KvType /\ kv'.token = kv.token
    BY <1>2, <1>b, <1>c DEF KvType
  <2> QED
    BY <1>2, <1>a, <1>b, <1>d, <2>1, Calls
<1> QED
  BY <1>a, <1>1, <1>2

\* gatherProgress with a failed store, with all moved, cancelled, or after a callback
LEMMA GatherEnds ==
  ASSUME IInv, NEW i \in Ids,
         \/ GatherStoreFails(i) \/ GatherFinished(i) \/ GatherCancelled(i) \/ GatherGoesOn(i)
  PROVE  IInv'
<1>a. reb[i] \in RebType /\ kv \in KvType /\ env \in EnvType
  BY DEF IInv, Types
<1> DEFINE g == [reb[i] EXCEPT !.pc = "loop"]
<1> DEFINE r == [reb[i] EXCEPT !.pc = "returned", !.done = "closed"]
<1>b. /\ g \in RebType /\ g.pc = "loop" /\ g.c = reb[i].c /\ g.next = reb[i].next
      /\ g.result = reb[i].result /\ g.done = reb[i].done
      /\ r \in RebType /\ r.pc = "returned" /\ r.c = reb[i].c /\ r.next = reb[i].next
      /\ r.result = reb[i].result /\ r.done = "closed"
  BY <1>a, Zenon DEF RebType
<1>1. CASE GatherStoreFails(i)
  BY <1>1, Spends, Fails DEF GatherStoreFails, IInv
<1>2. CASE GatherFinished(i)
  BY <1>2, <1>a, Calls DEF GatherFinished, GetProgressOK
<1>3. CASE GatherCancelled(i)
  <2>1. /\ reb' = [reb EXCEPT ![i] = r] /\ reb[i].pc = "loop" /\ reb[i].c = "closed"
        /\ UNCHANGED <<cbs, kv, env, Mine>>
    BY <1>3, Zenon DEF GatherCancelled
  <2> HIDE DEF r, g
  <2> QED
    BY <1>a, <1>b, <2>1, Moves, Zenon
<1>4. CASE GatherGoesOn(i)
  <2>1. /\ reb[i].pc = "wait" /\ Waited(i) /\ UNCHANGED <<kv, env, Mine>>
        /\ \/ reb[i].next = "loop" /\ reb' = [reb EXCEPT ![i] = g] /\ UNCHANGED cbs
           \/ reb[i].next = "finish" /\ Callback(i, reb[i], "finished", "return")
           \/ reb[i].next = "return" /\ reb' = [reb EXCEPT ![i] = r] /\ UNCHANGED cbs
    BY <1>4, Zenon DEF GatherGoesOn
  <2> HIDE DEF r, g
  <2>2. CASE reb[i].next = "finish" /\ Callback(i, reb[i], "finished", "return")
    BY <1>a, <2>1, <2>2, Calls
  <2>3. CASE reb[i].next = "loop" /\ reb' = [reb EXCEPT ![i] = g] /\ UNCHANGED cbs
    BY <1>a, <1>b, <2>1, <2>3, Moves, Zenon
  <2>4. CASE reb[i].next = "return" /\ reb' = [reb EXCEPT ![i] = r] /\ UNCHANGED cbs
    BY <1>a, <1>b, <2>1, <2>4, Moves, Zenon
  <2> QED
    BY <2>1, <2>2, <2>3, <2>4
<1> QED
  BY <1>1, <1>2, <1>3, <1>4

-----------------------------------------------------------------------------
\* Every step of Next keeps the inductive invariant
LEMMA NextIInv == IInv /\ [Next]_vars => IInv'
<1> SUFFICES ASSUME IInv, [Next]_vars PROVE IInv'
  OBVIOUS
<1>0. env \in EnvType
  BY DEF IInv, Types
<1>1. ASSUME NEW i \in Ids,
             \/ PrepareTopologyChange(i) \/ StartTopologyChangeFailover(i)
             \/ StartTopologyChangeRebalance(i)
      PROVE  IInv'
  BY <1>1, Prepare, StartFailover, StartRebalance
<1>2. CASE PrepareTopologyChangeFails \/ CancelTaskRunning \/ CancelTaskFailed
  BY <1>2, PrepareFails, CancelRunning, CancelFailed
<1>3. ASSUME NEW i \in Ids, StartTopologyChangeConflict(i) PROVE IInv'
  BY <1>3, Spends, QuietSteps DEF StartTopologyChangeConflict, IInv
<1>4. CASE Wait \/ WaitCanceled \/ StateToTopology
  <2>1. UNCHANGED <<m, ctx, rebalancer, call, reb, cbs, kv, env>>
    BY <1>4 DEF Wait, WaitCanceled, StateToTopology
  <2> QED
    BY <1>0, <1>4, <2>1, QuietSteps
<1>5. CASE VbsMove
  <2>1. PICK v \in 0..MaxVbs \ {env.vbs} : env' = [env EXCEPT !.moves = @ - 1, !.vbs = v]
    BY <1>5, Zenon DEF VbsMove
  <2>2. env' \in EnvType
    <3>1. v \in Nat /\ env.moves \in Nat /\ env.moves > 0
      BY <1>0, <1>5, BoundsAssumption DEF VbsMove, EnvType
    <3>2. env.moves - 1 \in Nat
      BY <3>1
    <3> QED
      BY <1>0, <2>1, <3>1, <3>2, Zenon DEF EnvType
  <2> QED
    BY <1>5, <2>2, QuietSteps, Zenon DEF VbsMove
<1>6. CASE StartTopologyChangeLocks \/ CancelTaskJoins
  BY <1>6, StartLocks, CancelJoins
<1>7. ASSUME NEW k \in cbs, CallbackRuns(k) PROVE IInv'
  BY <1>7, Skips, Progress, DoneLocks, Done DEF CallbackRuns
<1>8. ASSUME NEW i \in Ids, Rebalancer(i) PROVE IInv'
  <2>1. CASE GatherTickFails(i)
    <3>1. Spend("faults") /\ UNCHANGED <<reb, cbs, kv, m, ctx, rebalancer, leaked, call, poll>>
      BY <2>1 DEF GatherTickFails, Mine
    <3> QED
      BY <3>1, Spends, QuietSteps DEF IInv
  <2> QED
    BY <1>8, <2>1, GatherBegins, GatherTicks, GatherEnds DEF Rebalancer
<1>9. CASE UNCHANGED vars
  BY <1>0, <1>9, QuietSteps DEF vars
<1> QED
  BY <1>1, <1>2, <1>3, <1>4, <1>5, <1>6, <1>7, <1>8, <1>9 DEF Next, NsServer, Goes

\* The inductive invariant above holds in every behaviour of the service manager.
THEOREM Invariant == Spec => []IInv
BY InitIInv, NextIInv, PTL DEF Spec

\* While mu is free the task list shows a running rebalance exactly when there is a
\* rebalancer that CancelTask can cancel, of the same change and still at work.
THEOREM TaskBackedAlways == Spec => []TaskBacked
<1>1. IInv => TaskBacked
  <2> SUFFICES ASSUME IInv, Free PROVE TaskBacked
    BY DEF TaskBacked
  <2>1. m.task.status = "running" => rebalancer \in Ids
    BY RunningHasRebalancer
  <2>2. rebalancer \in IdOrNone /\ call.pc = "idle"
    BY DEF IInv, Types, Free
  <2>3. ASSUME rebalancer # None
        PROVE  /\ m.task.status = "running" /\ m.task.id = rebalancer /\ ctx = rebalancer
               /\ reb[rebalancer].c = "open" /\ reb[rebalancer].done = "open"
    <3>1. rebalancer \in Ids /\ Active(rebalancer)
      BY <2>2, <2>3 DEF IdOrNone, Active
    <3> QED
      BY <2>2, <3>1 DEF IInv, Types, RebType, Announced, Goroutines, Goroutine
  <2> QED
    BY <2>1, <2>3, IdsAssumption DEF TaskBacked, None
<1> QED
  BY <1>1, Invariant, PTL

\* A callback that can still take effect is one of the present rebalancer: no late
\* report ends or revives another rebalance.
THEOREM CallbackOfCurrentAlways == Spec => []CallbackOfCurrent
<1>1. IInv => CallbackOfCurrent
  BY DEF IInv, Callbacks
<1> QED
  BY <1>1, Invariant, PTL

\* The token of a running rebalance stays in metakv, and none is left to start one.
THEOREM TokenOfRunningAlways == Spec => []TokenOfRunning
<1>1. IInv => TokenOfRunning
  <2> SUFFICES ASSUME IInv, Free PROVE TokenOfRunning
    BY DEF TokenOfRunning
  <2>1. rebalancer \in IdOrNone /\ call.pc = "idle"
    BY DEF IInv, Types, Free
  <2> QED
    BY <2>1, IdsAssumption DEF IInv, Announced, Active, TokenOfRunning, IdOrNone, None
<1> QED
  BY <1>1, Invariant, PTL

\* With no change under way, isBalanced says that the last rebalance was finished.
THEOREM BalancedAlways == Spec => []BalancedMeansFinished
<1>1. IInv => BalancedMeansFinished
  <2> SUFFICES ASSUME IInv, m.id = None, m.balanced = "yes", Started # {}
               PROVE  reb[Last].result = "finished"
    BY DEF BalancedMeansFinished
  <2>1. Last \in Started /\ \A j \in Started : j <= Last
    BY DEF IInv, Ordered, Last
  <2> QED
    BY <2>1 DEF IInv, Ordered, Started
<1> QED
  BY <1>1, Invariant, PTL

\* No wake-up of the long poll is lost: whoever waits has the present rev.
THEOREM WaiterUpToDateAlways == Spec => []WaiterUpToDate
<1>1. IInv => WaiterUpToDate
  BY DEF IInv, Polled
<1> QED
  BY <1>1, Invariant, PTL

\* Whoever has the present rev has the present servers.
THEOREM TopologySeenAlways == Spec => []TopologySeen
<1>1. IInv => TopologySeen
  BY DEF IInv, Polled, TopologySeen
<1> QED
  BY <1>1, Invariant, PTL
=============================================================================
