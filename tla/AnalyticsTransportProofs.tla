----------------------- MODULE AnalyticsTransportProofs -----------------------
(***************************************************************************)
(* Proofs about AnalyticsTransport, for any sets of events and callers.    *)
(*                                                                         *)
(* The inductive invariant says which tasks are referenced (TaskInv), what *)
(* a call of aclose knows about them at each of its awaits (CloserInv),    *)
(* and how many HTTP clients are open (ClientInv).  Safety, and the        *)
(* refinement of FireAndForget, follow from it.                            *)
(***************************************************************************)
EXTENDS AnalyticsTransport, TLAPS

Pending(e) == send[e] \in {"scheduled", "posting"}
Quiet == \A e \in Events : ~Pending(e)

(* A task that has not ended is referenced, and only such a task is being  *)
(* cancelled.                                                              *)
TaskInv ==
    /\ \A e \in Events : Pending(e) => e \in tasks
    /\ \A e \in tasks : Pending(e) \/ Done(e)
    /\ \A e \in cancelling : Pending(e)

(* From its first await on a closer has stopped new tasks, so its snapshot *)
(* covers every task there is; when it comes to the client, none is left.  *)
CloserInv ==
    /\ \A c \in Flushers : pc[c] \notin {"gather", "closing"}
    /\ \A c \in Closers :
          /\ pc[c] # "idle" => closed
          /\ pc[c] \in {"flush", "gather"} => tasks \subseteq awaited[c]
          /\ pc[c] \in {"closing", "done"} => Quiet

ClientInv ==
    /\ unclosed = IF client = "open" THEN 1 ELSE 0
    /\ \A c \in Closers :
          /\ pc[c] = "closing" => client # "open"
          /\ pc[c] = "done" => client = "absent"

Inv == TypeOK /\ TaskInv /\ CloserInv /\ ClientInv

LEMMA InvInit == Init => Inv
<1> SUFFICES ASSUME Init PROVE Inv
  OBVIOUS
<1>1. TypeOK
  BY DEF Init, TypeOK
<1>2. TaskInv
  BY DEF Init, TaskInv, Pending
<1>3. CloserInv /\ ClientInv
  BY DEF Init, CloserInv, ClientInv, Callers
<1>4. QED BY <1>1, <1>2, <1>3 DEF Inv

-----------------------------------------------------------------------------
(* The steps of the tasks.                                                 *)
LEMMA TaskStepInv ==
    ASSUME Inv, NEW e \in Events, Emit(e) \/ EndSend(e) \/ TaskStep(e)
    PROVE  Inv'
<1> USE DEF Inv, TypeOK, TaskInv, CloserInv, ClientInv, Pending, Quiet, Callers,
            Finished, Done
<1>1. CASE Emit(e)
  BY <1>1 DEF Emit
<1>2. CASE EndSend(e)
  BY <1>2 DEF EndSend
<1>3. CASE StartSend(e)
  BY <1>3 DEF StartSend
<1>4. CASE Unwind(e)
  BY <1>4 DEF Unwind
<1>5. CASE DoneCallback(e)
  BY <1>5 DEF DoneCallback
<1>6. QED BY <1>1, <1>2, <1>3, <1>4, <1>5 DEF TaskStep

-----------------------------------------------------------------------------
(* The part of aclose that closes the client runs when no task is left.    *)
LEMMA CloseClientEffect ==
    ASSUME Inv, NEW c \in Closers, CloseClient(c)
    PROVE  /\ unclosed' = 0
           /\ awaited' = [awaited EXCEPT ![c] = {}]
           /\ \/ /\ client = "open" /\ client' = "closed"
                 /\ pc' = [pc EXCEPT ![c] = "closing"]
              \/ /\ client # "open" /\ client' = "absent"
                 /\ pc' = [pc EXCEPT ![c] = "done"]
BY DEF CloseClient, Inv, TypeOK, ClientInv

LEMMA CloseClientInv ==
    ASSUME Inv, NEW c \in Closers, CloseClient(c), Quiet, closed',
           UNCHANGED <<tasks, send>>, cancelling' \in {cancelling, {}},
           timedOut' \subseteq Callers, closed' \in BOOLEAN
    PROVE  Inv'
<1> USE DEF Inv, TypeOK, TaskInv, CloserInv, ClientInv, Pending, Quiet, Callers,
            Finished, Done
<1>1. /\ unclosed' = 0 /\ awaited' = [awaited EXCEPT ![c] = {}]
      /\ \/ /\ client = "open" /\ client' = "closed"
            /\ pc' = [pc EXCEPT ![c] = "closing"]
         \/ /\ client # "open" /\ client' = "absent"
            /\ pc' = [pc EXCEPT ![c] = "done"]
  BY CloseClientEffect
<1>2. TypeOK' /\ TaskInv'
  BY <1>1
<1>3. CloserInv'
  BY <1>1, CallersAssumption
<1>4. ClientInv'
  BY <1>1
<1>5. QED BY <1>2, <1>3, <1>4

(* Cancelling the stragglers: nothing is left, or the closer waits for all.*)
LEMMA CancelStragglersInv ==
    ASSUME Inv, NEW c \in Closers, CancelStragglers(c), closed' = TRUE,
           UNCHANGED <<tasks, send>>, timedOut' \subseteq Callers
    PROVE  Inv'
<1>1. CASE tasks = {}
  <2>1. Quiet
    BY <1>1 DEF Inv, TaskInv, Quiet
  <2>2. CloseClient(c)
    BY <1>1 DEF CancelStragglers
  <2>3. cancelling' = cancelling
    BY <1>1 DEF CancelStragglers
  <2>4. QED BY <2>1, <2>2, <2>3, CloseClientInv
<1>2. CASE tasks # {}
  <2> USE DEF Inv, TypeOK, TaskInv, CloserInv, ClientInv, Pending, Quiet, Callers,
              Finished, Done
  <2>1. /\ cancelling' = cancelling \cup {e \in tasks : ~Done(e)}
        /\ pc' = [pc EXCEPT ![c] = "gather"]
        /\ awaited' = [awaited EXCEPT ![c] = tasks]
        /\ UNCHANGED <<client, unclosed>>
    BY <1>2 DEF CancelStragglers
  <2>2. TypeOK'
    BY <2>1
  <2>3. TaskInv'
    BY <2>1
  <2>4. CloserInv'
    BY <2>1, CallersAssumption
  <2>5. ClientInv'
    BY <2>1
  <2>6. QED BY <2>2, <2>3, <2>4, <2>5
<1>3. QED BY <1>1, <1>2

(* The steps of the callers.                                               *)
LEMMA CallerStepInv ==
    ASSUME Inv, NEW c \in Callers,
           StartFlush(c) \/ StartClose(c) \/ CallerStep(c) \/ CancelCaller(c)
    PROVE  Inv'
<1> USE DEF Inv, TypeOK, TaskInv, CloserInv, ClientInv, Pending, Quiet, Callers,
            Finished, Done
<1>1. CASE StartFlush(c)
  BY <1>1, CallersAssumption DEF StartFlush
<1>2. CASE StartClose(c)
  <2>1. CASE tasks = {}
    BY <1>2, <2>1, CancelStragglersInv DEF StartClose
  <2>2. CASE tasks # {}
    BY <1>2, <2>2, CallersAssumption DEF StartClose
  <2>3. QED BY <2>1, <2>2
<1>3. CASE EndFlush(c)
  <2>1. timedOut' \subseteq Callers
    BY <1>3 DEF EndFlush
  <2>2. CASE c \in Closers
    <3>1. closed' = TRUE
      BY <1>3, <2>2 DEF EndFlush
    <3>2. CancelStragglers(c) /\ UNCHANGED <<tasks, send>>
      BY <1>3, <2>2, CallersAssumption DEF EndFlush
    <3>3. QED BY <2>1, <2>2, <3>1, <3>2, CancelStragglersInv
  <2>3. CASE c \in Flushers
    BY <1>3, <2>1, <2>3, CallersAssumption DEF EndFlush
  <2>4. QED BY <2>2, <2>3
<1>4. CASE EndGather(c)
  <2>1. c \in Closers /\ closed
    BY <1>4 DEF EndGather
  <2>2. Quiet
    BY <1>4, <2>1 DEF EndGather
  <2>3. QED BY <1>4, <2>1, <2>2, CloseClientInv DEF EndGather
<1>5. CASE EndClose(c)
  <2>1. c \in Closers /\ client # "open"
    BY <1>5 DEF EndClose
  <2>2. QED BY <1>5, <2>1, CallersAssumption DEF EndClose
<1>6. CASE CancelCaller(c)
  BY <1>6 DEF CancelCaller
<1>7. QED BY <1>1, <1>2, <1>3, <1>4, <1>5, <1>6 DEF CallerStep

LEMMA InvNext == Inv /\ [Next]_vars => Inv'
<1> SUFFICES ASSUME Inv, [Next]_vars PROVE Inv'
  OBVIOUS
<1>1. CASE \E e \in Events : Emit(e) \/ EndSend(e) \/ TaskStep(e)
  BY <1>1, TaskStepInv
<1>2. CASE \E c \in Callers :
              StartFlush(c) \/ StartClose(c) \/ CallerStep(c) \/ CancelCaller(c)
  BY <1>2, CallerStepInv
<1>3. CASE UNCHANGED vars
  BY <1>3 DEF vars, Inv, TypeOK, TaskInv, CloserInv, ClientInv, Pending, Quiet,
              Finished, Done
<1>4. QED BY <1>1, <1>2, <1>3 DEF Next

LEMMA InvHolds == Spec => []Inv
BY InvInit, InvNext, PTL DEF Spec

-----------------------------------------------------------------------------
(* Every reachable state is well typed.                                    *)
THEOREM TypeCorrect == Spec => []TypeOK
<1>1. Inv => TypeOK
  BY DEF Inv
<1>2. QED BY <1>1, InvHolds, PTL

(* After any aclose has returned no send runs and no HTTP client is held,  *)
(* however many calls of aclose, flush and emit overlap.                   *)
THEOREM NothingAfterCloseHolds == Spec => []NothingAfterClose
<1>1. Inv => NothingAfterClose
  BY DEF Inv, CloserInv, ClientInv, NothingAfterClose, Drained, Quiet, Pending
<1>2. QED BY <1>1, InvHolds, PTL

(* Of the HTTP clients a transport makes, at most one is open at a time,   *)
(* and none when an aclose has returned.                                   *)
THEOREM NoClientLeakHolds == Spec => []NoClientLeak
<1>1. Inv => NoClientLeak
  BY DEF Inv, ClientInv, NoClientLeak, Drained
<1>2. QED BY <1>1, InvHolds, PTL

-----------------------------------------------------------------------------
(* A closer whose flush did not time out finds no straggler to cancel.     *)
LEMMA TimeoutStep ==
    Inv /\ CancelledOnlyAfterTimeout /\ [Next]_vars => CancelledOnlyAfterTimeout'
<1> SUFFICES ASSUME Inv, CancelledOnlyAfterTimeout, [Next]_vars
             PROVE  CancelledOnlyAfterTimeout'
  OBVIOUS
<1> USE DEF CancelledOnlyAfterTimeout, Inv, TypeOK
<1>1. ASSUME NEW e \in Events, Emit(e) \/ EndSend(e) \/ TaskStep(e)
      PROVE  CancelledOnlyAfterTimeout'
  BY <1>1 DEF Emit, EndSend, TaskStep, StartSend, Unwind, DoneCallback
<1>2. ASSUME NEW c \in Callers, UNCHANGED <<send, cancelling, timedOut>>
      PROVE  CancelledOnlyAfterTimeout'
  BY <1>2
<1>3. ASSUME NEW c \in Callers, StartFlush(c) \/ CancelCaller(c) \/ EndGather(c) \/ EndClose(c)
      PROVE  CancelledOnlyAfterTimeout'
  BY <1>2, <1>3 DEF StartFlush, CancelCaller, EndGather, EndClose
<1>4. ASSUME NEW c \in Callers, StartClose(c)
      PROVE  CancelledOnlyAfterTimeout'
  <2>1. UNCHANGED <<send, cancelling, timedOut>>
    BY <1>4 DEF StartClose, CancelStragglers
  <2>2. QED BY <1>2, <2>1
<1>5. ASSUME NEW c \in Callers, EndFlush(c)
      PROVE  CancelledOnlyAfterTimeout'
  <2>1. send' = send /\ timedOut \subseteq timedOut'
    BY <1>5 DEF EndFlush
  <2>2. CASE c \in Flushers
    <3>1. cancelling' = cancelling
      BY <1>5, <2>2, CallersAssumption DEF EndFlush
    <3>2. QED BY <2>1, <3>1
  <2>3. CASE c \in Closers /\ c \in timedOut'
    <3>1. cancelling' \subseteq Events
      BY <1>5, InvNext
    <3>2. QED BY <2>1, <2>3
  <2>4. CASE c \in Closers /\ c \notin timedOut'
    <3>1. \A e \in awaited[c] : Done(e)
      BY <1>5, <2>4 DEF EndFlush
    <3>2. \A e \in tasks : Done(e)
      BY <1>5, <2>4, <3>1 DEF EndFlush, CloserInv
    <3>3. cancelling' = cancelling
      BY <1>5, <2>4, <3>2, CallersAssumption DEF EndFlush, CancelStragglers
    <3>4. QED BY <2>1, <3>3
  <2>5. QED BY <2>2, <2>3, <2>4 DEF Callers
<1>6. CASE UNCHANGED vars
  BY <1>6 DEF vars
<1>7. QED BY <1>1, <1>3, <1>4, <1>5, <1>6 DEF Next, CallerStep

(* A send is cancelled only after some aclose waited out its flush timeout.*)
THEOREM CancellationNeedsTimeout == Spec => []CancelledOnlyAfterTimeout
<1>1. Init => CancelledOnlyAfterTimeout
  BY DEF Init, CancelledOnlyAfterTimeout
<1>2. QED BY <1>1, InvHolds, TimeoutStep, PTL DEF Spec

-----------------------------------------------------------------------------
(* The refinement of FireAndForget.                                        *)
AbstractStatus == [e \in Events |-> Status(e)]

(* A step that leaves all tasks where they are, and does not return from   *)
(* aclose unless the tasks have ended, is a step of the abstraction.       *)
LEMMA CallerRefines ==
    ASSUME UNCHANGED send, closed \in BOOLEAN, closed' \in BOOLEAN,
           closed => closed', Drained => Drained',
           Drained' /\ ~Drained => Quiet /\ closed'
    PROVE  [Abstract!Next]_Abstract!vars
<1>1. AbstractStatus' = AbstractStatus
  BY DEF AbstractStatus, Status
<1>2. CASE Drained' /\ ~Drained
  <2>1. \A e \in Events : AbstractStatus[e] # "taken"
    BY <1>2 DEF Quiet, Pending, AbstractStatus, Status
  <2>2. Abstract!Drain
    BY <1>1, <1>2, <2>1 DEF Abstract!Drain, AbstractStatus
  <2>3. QED BY <2>2 DEF Abstract!Next
<1>3. CASE Drained' = Drained /\ closed' /\ ~closed
  <2>1. Abstract!StopTaking
    BY <1>1, <1>3 DEF Abstract!StopTaking, AbstractStatus
  <2>2. QED BY <2>1 DEF Abstract!Next
<1>4. CASE Drained' = Drained /\ closed' = closed
  BY <1>1, <1>4 DEF Abstract!vars, AbstractStatus
<1>5. QED BY <1>2, <1>3, <1>4 DEF Drained

LEMMA TaskRefines ==
    ASSUME Inv, NEW e \in Events, Emit(e) \/ EndSend(e) \/ TaskStep(e)
    PROVE  [Abstract!Next]_Abstract!vars
<1> USE DEF AbstractStatus, Status, Inv, TypeOK, Finished
<1>1. Drained' = Drained /\ closed' = closed
  BY DEF Emit, EndSend, TaskStep, StartSend, Unwind, DoneCallback, Drained
<1>2. CASE send' = send
  BY <1>1, <1>2 DEF Abstract!vars
<1>3. CASE Emit(e)
  <2>1. CASE ~closed /\ send' = [send EXCEPT ![e] = "scheduled"]
    <3>1. Abstract!Take(e)
      BY <1>1, <1>3, <2>1 DEF Emit, Abstract!Take
    <3>2. QED BY <3>1 DEF Abstract!Next
  <2>2. CASE send' = [send EXCEPT ![e] = "skipped"]
    <3>1. send[e] = "new"
      BY <1>3 DEF Emit
    <3>2. \A d \in Events : Status(d)' = IF d = e THEN "skipped" ELSE Status(d)
      BY <2>2
    <3>3. Abstract!Skip(e)
      BY <1>1, <3>1, <3>2 DEF Abstract!Skip
    <3>4. QED BY <3>3 DEF Abstract!Next
  <2>3. QED BY <1>3, <2>1, <2>2 DEF Emit
<1>4. CASE EndSend(e) \/ Unwind(e)
  <2>1. Pending(e)
    BY <1>4 DEF EndSend, Unwind, TaskInv, Pending
  <2>2. \E s \in {"sent", "failed", "cancelled"} : send' = [send EXCEPT ![e] = s]
    BY <1>4 DEF EndSend, Unwind
  <2>3. Abstract!Settle(e)
    BY <1>1, <2>1, <2>2 DEF Pending, Abstract!Settle
  <2>4. QED BY <2>3 DEF Abstract!Next
<1>5. CASE StartSend(e)
  <2>1. AbstractStatus' = AbstractStatus
    BY <1>5 DEF StartSend
  <2>2. QED BY <1>1, <2>1 DEF Abstract!vars
<1>6. QED BY <1>2, <1>3, <1>4, <1>5 DEF TaskStep, DoneCallback

LEMMA StepRefines == Inv /\ [Next]_vars => [Abstract!Next]_Abstract!vars
<1> SUFFICES ASSUME Inv, [Next]_vars PROVE [Abstract!Next]_Abstract!vars
  OBVIOUS
<1>1. ASSUME NEW e \in Events, Emit(e) \/ EndSend(e) \/ TaskStep(e)
      PROVE  [Abstract!Next]_Abstract!vars
  BY <1>1, TaskRefines
<1>2. ASSUME NEW c \in Callers,
             StartFlush(c) \/ StartClose(c) \/ CallerStep(c) \/ CancelCaller(c)
      PROVE  [Abstract!Next]_Abstract!vars
  <2>1. send' = send
    BY <1>2 DEF StartFlush, StartClose, CallerStep, EndFlush, EndGather, EndClose, CancelCaller
  <2>2. closed \in BOOLEAN /\ closed' \in BOOLEAN /\ (closed => closed')
    BY <1>2 DEF StartFlush, StartClose, CallerStep, EndFlush, EndGather, EndClose,
                CancelCaller, Inv, TypeOK
  <2>3. Inv'
    BY <1>2, CallerStepInv
  <2>4. Drained' => Quiet /\ closed'
    BY <2>1, <2>3 DEF Inv, CloserInv, Drained, Quiet, Pending
  <2>5. Drained => Drained'
    <3>1. \A d \in Closers : pc[d] = "done" => pc'[d] = "done"
      <4>1. pc[c] # "done"
        BY <1>2 DEF StartFlush, StartClose, CallerStep, EndFlush, EndGather, EndClose, CancelCaller
      <4>2. \A d \in Callers : d # c => pc'[d] = pc[d]
        <5>1. CASE CloseClient(c) \/ CancelStragglers(c)
          BY <5>1 DEF CloseClient, CancelStragglers, Inv, TypeOK
        <5>2. CASE ~CloseClient(c) /\ ~CancelStragglers(c)
          BY <1>2, <5>2 DEF StartFlush, StartClose, CallerStep, EndFlush, EndGather, EndClose,
                            CancelCaller, Inv, TypeOK
        <5>3. QED BY <5>1, <5>2
      <4>3. QED BY <4>1, <4>2 DEF Callers
    <3>2. QED BY <3>1 DEF Drained
  <2>6. QED BY <2>1, <2>2, <2>4, <2>5, CallerRefines
<1>3. CASE UNCHANGED vars
  BY <1>3 DEF vars, Abstract!vars, Status, Drained
<1>4. QED BY <1>1, <1>2, <1>3 DEF Next

(* The transport implements FireAndForget: what was taken has settled when *)
(* an aclose returns, and nothing is taken afterwards.                     *)
THEOREM Implementation == Spec => ImplementsFireAndForget
<1>1. Init => Abstract!Init
  BY DEF Init, Abstract!Init, Status, Drained, Callers
<1>2. QED BY <1>1, StepRefines, InvHolds, PTL DEF Spec, ImplementsFireAndForget, Abstract!Spec
=============================================================================
