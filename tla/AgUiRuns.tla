-------------------------------- MODULE AgUiRuns --------------------------------
(***************************************************************************)
(* Runs over the AG-UI endpoint (web/routes_agui.py, ag_ui.py).  The       *)
(* thread of a run hands its events to a bounded queue, the generator of   *)
(* its stream takes and translates them, and approvals go through a        *)
(* registry whose key is the run id that the client chose: two streams may *)
(* have the same one.                                                      *)
(***************************************************************************)
EXTENDS Integers, SequencesExt

CONSTANTS
  Streams,    \* requests to run a plan
  RunIds,     \* run ids that clients give
  Steps,      \* tasks of the plan; each asks for approval
  QueueSize   \* maxsize of event_queue

ASSUME AgUiAssumption == QueueSize \in Nat \ {0} /\ "none" \notin Streams \cup RunIds \cup Steps

VARIABLES
  key,        \* per stream: its run id, or "none" before the request
  worker,     \* its thread: running; waiting in ev.wait, which returned: woken or late; over, raised
  status,     \* the events of each task until now: pending, running, success, skipped
  asking,     \* the task the handler asks for
  request,    \* (ev, result) of it: none, yes, no
  verdict,    \* what the handler returned last
  approvals,  \* _pending_approvals: whether a run id is known and which stream waits for each task
  scheduled,  \* callbacks of call_soon_threadsafe that the loop has not run yet
  eventQueue,
  shown,      \* the state the client has been sent
  stream,     \* off, on, finished, error, timeout
  refused,    \* history: what the full queue refused
  told        \* history: what the client has been answered for this id and task since it was asked

aguiVars == <<key, worker, status, asking, request, verdict, approvals, scheduled, eventQueue, shown, stream, refused, told>>
threadVars == <<key, status, shown, stream, refused, eventQueue>>
streamVars == <<key, worker, status, asking, request, verdict, approvals, told>>

Pending == [t \in Steps |-> "pending"]
PerStream(x) == [s \in Streams |-> x]
Requests(known) == [known |-> known, of |-> [t \in Steps |-> "none"]]

AgUiInit ==
  /\ key = PerStream("none") /\ worker = PerStream("none") /\ status = PerStream(Pending)
  /\ asking = PerStream("none") /\ request = PerStream("none") /\ verdict = PerStream("none")
  /\ approvals = [k \in RunIds |-> Requests(FALSE)]
  /\ scheduled = PerStream(<<>>) /\ eventQueue = PerStream(<<>>)
  /\ shown = PerStream(Pending) /\ stream = PerStream("off") /\ refused = {} /\ told = PerStream({})

\* _register_run: whatever another stream of this id is waiting for is gone.
OpenRun(s, k) ==
  /\ key[s] = "none"
  /\ key' = [key EXCEPT ![s] = k] /\ worker' = [worker EXCEPT ![s] = "running"]
  /\ approvals' = [approvals EXCEPT ![k] = Requests(TRUE)]
  /\ stream' = [stream EXCEPT ![s] = "on"]
  /\ UNCHANGED <<status, asking, request, verdict, scheduled, eventQueue, shown, refused, told>>

-----------------------------------------------------------------------------
\* The thread of the run, its main thread and the workers of its pool.
Registered(k, t) == approvals[k].of[t] # "none"
Enter(table, k, t, who) == [table EXCEPT ![k].of[t] = who]

\* _event_callback; whether the loop can put it shows only when it does.
Emit(s, t, new) ==
  /\ worker[s] \in {"running", "waiting", "woken", "late"}
  /\ \/ status[s][t] = "pending" /\ new \in {"running", "skipped"}
     \/ status[s][t] = "running" /\ new = "success" /\ t # asking[s]
  /\ status' = [status EXCEPT ![s][t] = new]
  /\ scheduled' = [scheduled EXCEPT ![s] = Append(@, <<t, new>>)]
  /\ UNCHANGED <<key, worker, asking, request, verdict, approvals, eventQueue, shown, stream, refused, told>>

\* The request of another stream for the same id and task may be there.
SharedRequest(s, t) == IF Registered(key[s], t) THEN request[approvals[key[s]].of[t]] ELSE "none"   \* mutant: joins it
FreshRequest(s, t) == "none"

Ask(s, t) ==
  /\ worker[s] = "running" /\ status[s][t] = "running" /\ asking[s] = "none"
  /\ asking' = [asking EXCEPT ![s] = t] /\ told' = [told EXCEPT ![s] = {}]
  /\ IF ~approvals[key[s]].known
     THEN /\ verdict' = [verdict EXCEPT ![s] = "no"] /\ UNCHANGED <<worker, request, approvals>>
     ELSE /\ worker' = [worker EXCEPT ![s] = "waiting"]
          /\ request' = [request EXCEPT ![s] = FreshRequest(s, t)]
          /\ approvals' = Enter(approvals, key[s], t, s)
          /\ UNCHANGED verdict
  /\ UNCHANGED <<threadVars, scheduled>>

\* ev.wait returns: the event is set, or 300 seconds have passed.
WaitReturns(s) ==
  /\ worker[s] = "waiting"
  /\ worker' = [worker EXCEPT ![s] = IF request[s] # "none" THEN "woken" ELSE "late"]
  /\ UNCHANGED <<threadVars, asking, request, verdict, approvals, scheduled, told>>

\* The request is local to the handler.  The task's entry goes, also if it is
\* another stream's by now; an answer
\* between the timeout and the lock is not looked at.
HandlerReturns(s) ==
  /\ worker[s] \in {"woken", "late"} /\ worker' = [worker EXCEPT ![s] = "running"]
  /\ verdict' = [verdict EXCEPT ![s] = IF worker[s] = "woken" THEN request[s] ELSE "no"]
  /\ approvals' = Enter(approvals, key[s], asking[s], "none")
  /\ request' = [request EXCEPT ![s] = "none"]
  /\ UNCHANGED <<threadVars, asking, scheduled, told>>

\* A task that was refused is skipped without an event; a granted one goes on.
GoOn(s) ==
  /\ worker[s] = "running" /\ asking[s] # "none" /\ verdict[s] # "none"
  /\ asking' = [asking EXCEPT ![s] = "none"] /\ verdict' = [verdict EXCEPT ![s] = "none"]
  /\ told' = [told EXCEPT ![s] = {}]
  /\ IF verdict[s] = "yes"
     THEN /\ status' = [status EXCEPT ![s][asking[s]] = "success"]
          /\ scheduled' = [scheduled EXCEPT ![s] = Append(@, <<asking[s], "success">>)]
     ELSE UNCHANGED <<status, scheduled>>
  /\ UNCHANGED <<key, worker, request, approvals, eventQueue, shown, stream, refused>>

\* run_plan returns or raises; error_holder is filled before the sentinel is
\* put, and _cleanup_run closes the id for every stream that has it.
EndThread(s, how) ==
  /\ worker[s] = "running" /\ asking[s] = "none" /\ worker' = [worker EXCEPT ![s] = how]
  /\ scheduled' = [scheduled EXCEPT ![s] = Append(@, <<"end">>)]
  /\ approvals' = [approvals EXCEPT ![key[s]] = Requests(FALSE)]
  /\ UNCHANGED <<threadVars, asking, request, verdict, told>>

-----------------------------------------------------------------------------
\* The event loop.  A full queue refuses whatever comes, the sentinel too.
Put(s) ==
  /\ scheduled[s] # <<>> /\ scheduled' = [scheduled EXCEPT ![s] = Tail(@)]
  /\ IF Len(eventQueue[s]) < QueueSize
     THEN /\ eventQueue' = [eventQueue EXCEPT ![s] = Append(@, Head(scheduled[s]))] /\ UNCHANGED refused
     ELSE /\ refused' = refused \cup {<<s, Head(scheduled[s])>>} /\ UNCHANGED eventQueue
  /\ UNCHANGED <<streamVars, shown, stream>>

\* translate_event: the status and the counters of the task the event is about.
Translate(state, event) == [state EXCEPT ![event[1]] = event[2]]

LastPlace(q) == Len(q)   \* mutant: the queue as a stack
NextPlace(q) == 1
NextItem(q) == q[NextPlace(q)]
RestOf(q) == RemoveAt(q, NextPlace(q))

SendNext(s) ==
  LET event == NextItem(eventQueue[s]) IN
  /\ stream[s] = "on" /\ eventQueue[s] # <<>>
  /\ eventQueue' = [eventQueue EXCEPT ![s] = RestOf(@)]
  /\ IF event = <<"end">>
     THEN /\ stream' = [stream EXCEPT ![s] = IF worker[s] = "raised" THEN "error" ELSE "finished"] /\ UNCHANGED shown
     ELSE /\ shown' = [shown EXCEPT ![s] = Translate(@, event)] /\ UNCHANGED stream
  /\ UNCHANGED <<streamVars, scheduled, refused>>

\* No event for half an hour: the run may still go on, or its sentinel was refused.
StreamTimesOut(s) ==
  /\ stream[s] = "on" /\ eventQueue[s] = <<>> /\ scheduled[s] = <<>>
  /\ stream' = [stream EXCEPT ![s] = "timeout"]
  /\ UNCHANGED <<streamVars, scheduled, eventQueue, shown, refused>>

\* POST .../approve sets the request that is registered, whoever's it is.
Approve(k, t, yes) ==
  /\ Registered(k, t)
  /\ request' = [request EXCEPT ![approvals[k].of[t]] = yes]
  /\ told' = [s \in Streams |->
       IF key[s] = k /\ asking[s] = t /\ worker[s] \in {"waiting", "woken", "late"} THEN told[s] \cup {yes} ELSE told[s]]
  /\ UNCHANGED <<threadVars, worker, asking, verdict, approvals, scheduled>>

AgUiNext ==
  \/ \E s \in Streams, k \in RunIds : OpenRun(s, k)
  \/ \E s \in Streams, t \in Steps : Ask(s, t) \/ (\E new \in {"running", "success", "skipped"} : Emit(s, t, new))
  \/ \E s \in Streams : WaitReturns(s) \/ HandlerReturns(s) \/ GoOn(s) \/ Put(s) \/ SendNext(s) \/ StreamTimesOut(s)
  \/ \E s \in Streams, how \in {"over", "raised"} : EndThread(s, how)
  \/ \E k \in RunIds, t \in Steps, yes \in {"yes", "no"} : Approve(k, t, yes)

AgUiSpec == AgUiInit /\ [][AgUiNext]_aguiVars

-----------------------------------------------------------------------------
\* A task is granted only if the client has said yes to it, for its run id,
\* since it was asked, whatever other streams have the id, however late the
\* answer and whichever registration was overwritten meanwhile.
\* And a stream that ends as finished belongs to a run that ended without an
\* exception; the client has been sent every event of it that the queue has
\* not refused, the last one of each task last.
StreamTellsTrue ==
  \A s \in Streams :
    /\ verdict[s] = "yes" => "yes" \in told[s]
    /\ stream[s] = "finished" =>
         /\ worker[s] = "over"
         /\ \A t \in Steps : shown[s][t] = status[s][t] \/ <<s, <<t, status[s][t]>>>> \in refused
=============================================================================
