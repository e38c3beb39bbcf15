-------------------------- MODULE AnalyticsTransport --------------------------
(***************************************************************************)
(* HttpAnalyticsTransport (analytics/transport.py): fire-and-forget tasks, *)
(* a lazily created HTTP client, and aclose/flush, which any number of     *)
(* callers may run at the same time.  Each action is the code between two  *)
(* awaits of one coroutine on one event loop.                              *)
(***************************************************************************)
EXTENDS Naturals, FiniteSets

CONSTANTS
    Events,    \* the events passed to emit, one task each
    Closers,   \* the coroutines that call aclose
    Flushers   \* the coroutines that call flush

ASSUME CallersAssumption == Closers \cap Flushers = {}

Callers == Closers \cup Flushers

VARIABLES
    closed,     \* _closed
    client,     \* _client: absent, open or closed
    tasks,      \* _tasks: the events whose task is still referenced
    send,       \* send[e]: the state of the task of event e
    cancelling, \* events whose task was cancelled and has not unwound yet
    pc,         \* pc[c]: the await a caller is suspended in
    awaited,    \* awaited[c]: the tasks it waits for
    unclosed,   \* history: HTTP clients created and not closed
    timedOut    \* history: the callers whose flush ran into its timeout

vars == <<closed, client, tasks, send, cancelling, pc, awaited, unclosed, timedOut>>

Finished == {"sent", "failed", "cancelled"}
Done(e) == send[e] \in Finished

TypeOK ==
    /\ closed \in BOOLEAN
    /\ client \in {"absent", "open", "closed"}
    /\ tasks \subseteq Events
    /\ send \in [Events -> {"new", "skipped", "scheduled", "posting"} \cup Finished]
    /\ cancelling \subseteq Events
    /\ pc \in [Callers -> {"idle", "flush", "gather", "closing", "done", "cancelled"}]
    /\ awaited \in [Callers -> SUBSET Events]
    /\ unclosed \in Nat
    /\ timedOut \subseteq Callers

Init ==
    /\ closed = FALSE
    /\ client = "absent"
    /\ tasks = {}
    /\ send = [e \in Events |-> "new"]
    /\ cancelling = {}
    /\ pc = [c \in Callers |-> "idle"]
    /\ awaited = [c \in Callers |-> {}]
    /\ unclosed = 0
    /\ timedOut = {}

-----------------------------------------------------------------------------
(* EmitUnguarded, CloseEvenIfClosed, CancelStragglersUnawaited,            *)
(* GatherWithoutCancel and StartCloseWithoutFlush are faulty variants of   *)
(* the definitions they precede, for the mutation runs.                    *)
EmitUnguarded(e) ==
    /\ send[e] = "new"
    /\ send' = [send EXCEPT ![e] = "scheduled"]
    /\ tasks' = tasks \cup {e}
    /\ UNCHANGED <<closed, client, cancelling, pc, awaited, unclosed, timedOut>>

(* emit: skipped when closed or when no loop runs in the caller's thread,  *)
(* otherwise the event gets a task, which is remembered.                   *)
Emit(e) ==
    /\ send[e] = "new"
    /\ \/ /\ ~closed
          /\ send' = [send EXCEPT ![e] = "scheduled"]
          /\ tasks' = tasks \cup {e}
       \/ /\ send' = [send EXCEPT ![e] = "skipped"]
          /\ UNCHANGED tasks
    /\ UNCHANGED <<closed, client, cancelling, pc, awaited, unclosed, timedOut>>

(* _send up to its request: _get_client makes a client unless one is open. *)
StartSend(e) ==
    /\ send[e] = "scheduled" /\ e \notin cancelling
    /\ send' = [send EXCEPT ![e] = "posting"]
    /\ client' = "open"
    /\ unclosed' = IF client = "open" THEN unclosed ELSE unclosed + 1
    /\ UNCHANGED <<closed, tasks, cancelling, pc, awaited, timedOut>>

(* The request answers or raises; _send swallows every Exception.          *)
EndSend(e) ==
    /\ send[e] = "posting" /\ e \notin cancelling
    /\ \E outcome \in {"sent", "failed"} : send' = [send EXCEPT ![e] = outcome]
    /\ UNCHANGED <<closed, client, tasks, cancelling, pc, awaited, unclosed, timedOut>>

(* A cancelled task unwinds; one that never started never runs at all.     *)
Unwind(e) ==
    /\ e \in cancelling
    /\ send' = [send EXCEPT ![e] = "cancelled"]
    /\ cancelling' = cancelling \ {e}
    /\ UNCHANGED <<closed, client, tasks, pc, awaited, unclosed, timedOut>>

(* _on_task_done, scheduled by the loop once the task is done.             *)
DoneCallback(e) ==
    /\ e \in tasks /\ Done(e)
    /\ tasks' = tasks \ {e}
    /\ UNCHANGED <<closed, client, send, cancelling, pc, awaited, unclosed, timedOut>>

-----------------------------------------------------------------------------
(* The last part of aclose: close the client if it is open, then drop it.  *)
CloseEvenIfClosed(c) ==
    /\ awaited' = [awaited EXCEPT ![c] = {}]
    /\ \/ /\ client # "absent"
          /\ client' = "closed"
          /\ unclosed' = unclosed - 1
          /\ pc' = [pc EXCEPT ![c] = "closing"]
       \/ /\ client = "absent"
          /\ pc' = [pc EXCEPT ![c] = "done"]
          /\ UNCHANGED <<client, unclosed>>
CloseClient(c) ==
    /\ awaited' = [awaited EXCEPT ![c] = {}]
    /\ \/ /\ client = "open"
          /\ client' = "closed"
          /\ unclosed' = unclosed - 1
          /\ pc' = [pc EXCEPT ![c] = "closing"]
       \/ /\ client # "open"
          /\ client' = "absent"
          /\ pc' = [pc EXCEPT ![c] = "done"]
          /\ UNCHANGED unclosed

(* The middle part: cancel what is left in _tasks and gather it.           *)
CancelStragglersUnawaited(c) ==
    /\ cancelling' = cancelling \cup {e \in tasks : ~Done(e)}
    /\ CloseClient(c)
GatherWithoutCancel(c) ==
    /\ UNCHANGED cancelling
    /\ \/ /\ tasks = {}
          /\ CloseClient(c)
       \/ /\ tasks # {}
          /\ pc' = [pc EXCEPT ![c] = "gather"]
          /\ awaited' = [awaited EXCEPT ![c] = tasks]
          /\ UNCHANGED <<client, unclosed>>
CancelStragglers(c) ==
    /\ cancelling' = cancelling \cup {e \in tasks : ~Done(e)}
    /\ \/ /\ tasks = {}
          /\ CloseClient(c)
       \/ /\ tasks # {}
          /\ pc' = [pc EXCEPT ![c] = "gather"]
          /\ awaited' = [awaited EXCEPT ![c] = tasks]
          /\ UNCHANGED <<client, unclosed>>

(* flush: wait for a snapshot of _tasks.                                   *)
StartFlush(c) ==
    /\ c \in Flushers /\ pc[c] = "idle"
    /\ pc' = [pc EXCEPT ![c] = IF tasks = {} THEN "done" ELSE "flush"]
    /\ awaited' = [awaited EXCEPT ![c] = tasks]
    /\ UNCHANGED <<closed, client, tasks, send, cancelling, unclosed, timedOut>>

(* aclose, which runs on without a pause when there is nothing to flush.   *)
StartCloseWithoutFlush(c) ==
    /\ c \in Closers /\ pc[c] = "idle"
    /\ closed' = TRUE
    /\ CancelStragglers(c)
    /\ UNCHANGED <<tasks, send, timedOut>>
StartClose(c) ==
    /\ c \in Closers /\ pc[c] = "idle"
    /\ closed' = TRUE
    /\ \/ /\ tasks = {}
          /\ CancelStragglers(c)
       \/ /\ tasks # {}
          /\ pc' = [pc EXCEPT ![c] = "flush"]
          /\ awaited' = [awaited EXCEPT ![c] = tasks]
          /\ UNCHANGED <<client, cancelling, unclosed>>
    /\ UNCHANGED <<tasks, send, timedOut>>

(* asyncio.wait returns when the snapshot is done or its timeout is over.  *)
EndFlush(c) ==
    /\ pc[c] = "flush"
    /\ \/ /\ \A e \in awaited[c] : Done(e)
          /\ UNCHANGED timedOut
       \/ /\ \E e \in awaited[c] : ~Done(e)
          /\ timedOut' = timedOut \cup {c}
    /\ \/ /\ c \in Closers
          /\ CancelStragglers(c)
       \/ /\ c \in Flushers
          /\ pc' = [pc EXCEPT ![c] = "done"]
          /\ awaited' = [awaited EXCEPT ![c] = {}]
          /\ UNCHANGED <<client, cancelling, unclosed>>
    /\ UNCHANGED <<closed, tasks, send>>

EndGather(c) ==
    /\ pc[c] = "gather"
    /\ \A e \in awaited[c] : Done(e)
    /\ CloseClient(c)
    /\ UNCHANGED <<closed, tasks, send, cancelling, timedOut>>

(* The client's own aclose is over; whatever _client names is dropped.     *)
EndClose(c) ==
    /\ pc[c] = "closing"
    /\ client' = "absent"
    /\ pc' = [pc EXCEPT ![c] = "done"]
    /\ UNCHANGED <<closed, tasks, send, cancelling, awaited, unclosed, timedOut>>

(* The caller is cancelled in its await: what it had begun stays as it is. *)
CancelCaller(c) ==
    /\ pc[c] \in {"flush", "gather", "closing"}
    /\ pc' = [pc EXCEPT ![c] = "cancelled"]
    /\ awaited' = [awaited EXCEPT ![c] = {}]
    /\ UNCHANGED <<closed, client, tasks, send, cancelling, unclosed, timedOut>>

TaskStep(e) == StartSend(e) \/ Unwind(e) \/ DoneCallback(e)
CallerStep(c) == EndFlush(c) \/ EndGather(c) \/ EndClose(c)

Next ==
    \/ \E e \in Events : Emit(e) \/ EndSend(e) \/ TaskStep(e)
    \/ \E c \in Callers : StartFlush(c) \/ StartClose(c) \/ CallerStep(c) \/ CancelCaller(c)

Spec == Init /\ [][Next]_vars

(* The loop runs what is ready and fires the flush timer.  Nothing is      *)
(* assumed of the relay: EndSend may never happen.                         *)
Fairness ==
    /\ \A e \in Events : WF_vars(TaskStep(e))
    /\ \A c \in Callers : WF_vars(CallerStep(c))

FairSpec == Spec /\ Fairness

-----------------------------------------------------------------------------
Drained == \E c \in Closers : pc[c] = "done"

(* The comment at transport.py:101-102: a send cannot resurrect a client.  *)
(* After any aclose has returned no send runs and no client is held, also  *)
(* when several calls of aclose overlap.                                   *)
NothingAfterClose ==
    Drained => client = "absent" /\ \A e \in Events : send[e] \notin {"scheduled", "posting"}

(* Every HTTP client that was ever created is closed when an aclose has    *)
(* returned, and there is never more than one.                             *)
NoClientLeak == unclosed <= 1 /\ (Drained => unclosed = 0)

(* The same comment: a send is not silently dropped.  A task is cancelled  *)
(* only after some caller of aclose had waited out its flush timeout.      *)
CancelledOnlyAfterTimeout ==
    \A e \in Events : e \in cancelling \/ send[e] = "cancelled" => timedOut \cap Closers # {}

(* aclose and flush end even when the relay never answers.                 *)
CallersReturn == \A c \in Callers : (pc[c] # "idle") ~> (pc[c] \in {"done", "cancelled"})

(* The transport keeps the promise its owner relies on.                    *)
Status(e) ==
    CASE send[e] = "new" -> "new"
      [] send[e] = "skipped" -> "skipped"
      [] send[e] \in {"scheduled", "posting"} -> "taken"
      [] OTHER -> "settled"

Abstract == INSTANCE FireAndForget WITH
    status <- [e \in Events |-> Status(e)], open <- ~closed, drained <- Drained

ImplementsFireAndForget == Abstract!Spec
=============================================================================
