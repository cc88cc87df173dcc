---------------------------- MODULE ServiceProcess ----------------------------
(***************************************************************************)
(* One process of hsp_user_service: asyncio.run(run()) of main.py.  The    *)
(* coroutine builds the container, starts the gRPC server, runs the HTTP   *)
(* and the gRPC server as two tasks, and once either has ended takes the   *)
(* rest down: the other task, the gRPC server, the engine.                 *)
(*                                                                         *)
(* uvicorn and grpc.aio are outside: their tasks end or fail by            *)
(* themselves, uvicorn only with its requests answered.  The process may   *)
(* be killed, and SIGINT may cancel the coroutine at any await but the one *)
(* that suppresses CancelledError; asyncio.run then cancels what is left.  *)
(***************************************************************************)
EXTENDS FiniteSets

CONSTANTS
    Calls,      \* gRPC calls
    HttpCalls   \* HTTP requests

ASSUME CallAssumption == Calls \cap HttpCalls = {}

VARIABLES
    run,        \* where the coroutine run() stands
    task,       \* the state of http_task and grpc_task
    server,     \* the gRPC server
    engine,     \* the database engine; "none" with the mock repository
    inflight    \* the calls whose handler runs

processVars == <<run, task, server, engine, inflight>>

Tasks == {"http", "grpc"}
Ended == {"done", "failed", "cancelled"}
Over == {"gone", "killed"}
Stages == {"build", "start", "wait", "drain", "stop", "stopping", "dispose",
           "returned", "raised"} \cup Over

ProcessTypeOK ==
    /\ run \in Stages
    /\ task \in [Tasks -> {"none", "running", "cancelling"} \cup Ended]
    /\ server \in {"none", "serving", "stopping", "stopped"}
    /\ engine \in {"none", "open", "disposed"}
    /\ inflight \subseteq Calls \cup HttpCalls

ProcessInit ==
    /\ run = "build"
    /\ task = [t \in Tasks |-> "none"]
    /\ server = "none"
    /\ engine = "none"
    /\ inflight = {}

-----------------------------------------------------------------------------
(* The coroutine.                                                          *)

\* build_container, with or without a database; it raises if a table, a seed
\* or the gRPC port is not to be had.
BuildContainer ==
    /\ run = "build"
    /\ run' \in {"start", "raised"}
    /\ engine' \in {"none", "open"}
    /\ UNCHANGED <<task, server, inflight>>

StartServers ==
    /\ run = "start"
    /\ run' = "wait"
    /\ server' = "serving"
    /\ task' = [t \in Tasks |-> "running"]
    /\ UNCHANGED <<engine, inflight>>

Finished(t) == task[t] \in Ended
BothFinished == \A t \in Tasks : Finished(t)   \* variant: ALL_COMPLETED
SomeFinished == \E t \in Tasks : Finished(t)

LeavePending == task' = task   \* variant: the other task is forgotten
CancelPending == task' = [t \in Tasks |-> IF Finished(t) THEN task[t] ELSE "cancelling"]

\* asyncio.wait returns: the exception of an ended task is raised again before
\* anything is taken down.
FirstFailed(tasks) ==   \* variant: only the HTTP task is looked at
    "http" \in tasks /\ task["http"] = "failed"
Failed(tasks) == \E t \in tasks : task[t] = "failed"

ServerEnded ==
    /\ run = "wait"
    /\ SomeFinished
    /\ IF Failed(Tasks) THEN run' = "raised" /\ UNCHANGED task
                        ELSE run' = "drain" /\ CancelPending
    /\ UNCHANGED <<server, engine, inflight>>

\* await of the cancelled task: only CancelledError is suppressed.
Drained ==
    /\ run = "drain"
    /\ \A t \in Tasks : task[t] # "cancelling"
    /\ run' = IF Failed(Tasks) THEN "raised" ELSE "stop"
    /\ UNCHANGED <<task, server, engine, inflight>>

\* grpc_server.stop(grace=5): no new call is accepted, those under way are given
\* five seconds, then cancelled.
StopServer ==
    /\ run = "stop"
    /\ run' = "stopping"
    /\ server' = "stopping"
    /\ UNCHANGED <<task, engine, inflight>>

StoppedAtOnce ==   \* variant: stop is not awaited
    /\ run = "stopping"
    /\ run' = "dispose"
    /\ UNCHANGED <<task, server, engine, inflight>>

ServerStopped ==
    /\ run = "stopping"
    /\ run' = "dispose"
    /\ server' = "stopped"
    /\ inflight' = inflight \ Calls
    /\ UNCHANGED <<task, engine>>

DisposeEngine ==
    /\ run = "dispose"
    /\ run' = "returned"
    /\ engine' = IF engine = "open" THEN "disposed" ELSE engine
    /\ UNCHANGED <<task, server, inflight>>

\* asyncio.run cancels the tasks that are left and closes the loop.
CloseLoop ==
    /\ run \in {"returned", "raised"}
    /\ run' = "gone"
    /\ CancelPending
    /\ inflight' = {}
    /\ UNCHANGED <<server, engine>>

RunStep == \/ BuildContainer \/ StartServers \/ ServerEnded \/ Drained
           \/ StopServer \/ ServerStopped \/ DisposeEngine \/ CloseLoop

-----------------------------------------------------------------------------
(* What it runs with.                                                      *)

Running == run \notin Over

HttpServerEnds(how) ==
    /\ task["http"] = "running"
    /\ how = "done" => inflight \cap HttpCalls = {}
    /\ task' = [task EXCEPT !["http"] = how]
    /\ UNCHANGED <<run, server, engine, inflight>>

\* wait_for_termination fails with the server; only stop would make it return.
GrpcServerFails ==
    /\ task["grpc"] = "running"
    /\ task' = [task EXCEPT !["grpc"] = "failed"]
    /\ UNCHANGED <<run, server, engine, inflight>>

\* A cancelled task unwinds, and may fail on the way.
Unwind(t) ==
    /\ task[t] = "cancelling"
    /\ \E how \in {"cancelled", "failed"} : task' = [task EXCEPT ![t] = how]
    /\ UNCHANGED <<run, server, engine, inflight>>

Accept(c) ==
    /\ c \in Calls => server = "serving"
    /\ c \in HttpCalls => task["http"] = "running"
    /\ inflight' = inflight \cup {c}
    /\ UNCHANGED <<run, task, server, engine>>

Answer(c) ==
    /\ inflight' = inflight \ {c}
    /\ UNCHANGED <<run, task, server, engine>>

Interrupt ==
    /\ run \in {"build", "start", "wait", "stopping", "dispose"}
    /\ run' = "raised"
    /\ UNCHANGED <<task, server, engine, inflight>>

Kill ==
    /\ run' = "killed"
    /\ UNCHANGED <<task, server, engine, inflight>>

Environment ==
    /\ Running
    /\ \/ \E how \in {"done", "failed"} : HttpServerEnds(how)
       \/ GrpcServerFails
       \/ \E t \in Tasks : Unwind(t)
       \/ \E c \in (Calls \cup HttpCalls) \ inflight : Accept(c)
       \/ \E c \in inflight : Answer(c)
       \/ Interrupt
       \/ Kill

ProcessOver == ~ Running /\ UNCHANGED processVars

ProcessNext == RunStep \/ Environment \/ ProcessOver

\* The event loop resumes the coroutine when what it awaits is there, and lets
\* a cancelled task unwind.
ProcessSpec ==
    /\ ProcessInit /\ [][ProcessNext]_processVars
    /\ WF_processVars(RunStep)
    /\ \A t \in Tasks : WF_processVars(Running /\ Unwind(t))

-----------------------------------------------------------------------------

\* A run that returns has taken everything down, and hid no failure: neither
\* server failed, the gRPC server is stopped with its calls, no task is left for
\* asyncio.run to cancel, and the pool of connections is closed.
CleanReturn ==
    run = "returned" =>
        /\ server = "stopped"
        /\ inflight = {}
        /\ \A t \in Tasks : task[t] \in {"done", "cancelled"}
        /\ engine # "open"

\* No handler of either transport outlives the pool its repositories use: one
\* that does opens connections nobody closes.
EngineOutlivesCalls == engine = "disposed" => inflight = {}

\* The process does not linger once one of its servers is gone, with half of its
\* interface dead: it comes to an end, whichever server it was and however it went.
ServerEndEndsProcess == (\E t \in Tasks : task[t] \in Ended) ~> ~ Running

-----------------------------------------------------------------------------
(* Why they hold: what the coroutine has taken down by each of its awaits.  *)

Served == run \in {"wait", "drain", "stop", "stopping", "dispose", "returned"}
Joined == run \in {"stop", "stopping", "dispose", "returned"}
Stopped == run \in {"dispose", "returned"}

ProcessInv ==
    /\ ProcessTypeOK
    /\ run \in {"build", "start"} =>
          server = "none" /\ inflight = {} /\ \A t \in Tasks : task[t] = "none"
    /\ Served => \A t \in Tasks : task[t] # "none"
    /\ run = "wait" => \A t \in Tasks : task[t] \in {"running", "done", "failed"}
    /\ run = "drain" => task["http"] = "done" /\ task["grpc"] # "running"
    /\ Joined => task["http"] = "done" /\ task["grpc"] = "cancelled"
    /\ Stopped => server = "stopped"
    /\ server = "stopped" => inflight \cap Calls = {}
    /\ task["http"] = "done" => inflight \cap HttpCalls = {}
    /\ task["grpc"] # "done"
    /\ engine = "disposed" => run \in {"returned"} \cup Over /\ inflight = {}
    /\ run = "returned" => engine # "open"
=============================================================================
