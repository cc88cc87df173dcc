------------------------- MODULE ServiceProcess_proofs -------------------------
(***************************************************************************)
(* A process that ends in good order has taken everything down, whatever   *)
(* its servers and calls were doing: ProcessInv is inductive.              *)
(***************************************************************************)
EXTENDS ServiceProcess, TLAPS

USE DEF Tasks, Ended, Over, Stages, Served, Joined, Stopped

\* Nothing runs before the container is built.
LEMMA ProcessInitInv == ProcessInit => ProcessInv
  BY DEF ProcessInit, ProcessInv, ProcessTypeOK

\* No step of the coroutine leaves anything up that it says it has taken down.
LEMMA RunStepKeeps ==
  ASSUME ProcessInv, RunStep
  PROVE  ProcessInv'
<1>1. CASE BuildContainer
  BY <1>1 DEF BuildContainer, ProcessInv, ProcessTypeOK
<1>2. CASE StartServers
  BY <1>2 DEF StartServers, ProcessInv, ProcessTypeOK
<1>3. CASE ServerEnded
  BY <1>3 DEF ServerEnded, Failed, SomeFinished, Finished, CancelPending, ProcessInv, ProcessTypeOK
<1>4. CASE Drained
  BY <1>4 DEF Drained, Failed, ProcessInv, ProcessTypeOK
<1>5. CASE StopServer
  BY <1>5 DEF StopServer, ProcessInv, ProcessTypeOK
<1>6. CASE ServerStopped
  BY <1>6 DEF ServerStopped, ProcessInv, ProcessTypeOK
<1>7. CASE DisposeEngine
  BY <1>7, CallAssumption DEF DisposeEngine, ProcessInv, ProcessTypeOK
<1>8. CASE CloseLoop
  BY <1>8 DEF CloseLoop, Finished, CancelPending, ProcessInv, ProcessTypeOK
<1> QED
  BY <1>1, <1>2, <1>3, <1>4, <1>5, <1>6, <1>7, <1>8 DEF RunStep

\* Nor does anything the process runs with start it again.
LEMMA EnvironmentKeeps ==
  ASSUME ProcessInv, Environment
  PROVE  ProcessInv'
<1>1. ASSUME NEW how \in {"done", "failed"}, HttpServerEnds(how)
      PROVE  ProcessInv'
  BY <1>1 DEF HttpServerEnds, ProcessInv, ProcessTypeOK
<1>2. CASE GrpcServerFails
  BY <1>2 DEF GrpcServerFails, ProcessInv, ProcessTypeOK
<1>3. ASSUME NEW t \in Tasks, Unwind(t)
      PROVE  ProcessInv'
  BY <1>3 DEF Unwind, ProcessInv, ProcessTypeOK
<1>4. ASSUME NEW c \in Calls \cup HttpCalls, Accept(c), Running
      PROVE  ProcessInv'
  BY <1>4, CallAssumption DEF Accept, Running, ProcessInv, ProcessTypeOK
<1>5. ASSUME NEW c \in inflight, Answer(c)
      PROVE  ProcessInv'
  BY <1>5 DEF Answer, ProcessInv, ProcessTypeOK
<1>6. CASE Interrupt
  BY <1>6 DEF Interrupt, ProcessInv, ProcessTypeOK
<1>7. CASE Kill
  BY <1>7 DEF Kill, ProcessInv, ProcessTypeOK
<1> QED
  BY <1>1, <1>2, <1>3, <1>4, <1>5, <1>6, <1>7 DEF Environment

\* ProcessInv holds in every state of the process.
THEOREM ProcessInvariance == ProcessSpec => []ProcessInv
<1>1. ProcessInv /\ [ProcessNext]_processVars => ProcessInv'
  <2> SUFFICES ASSUME ProcessInv, [ProcessNext]_processVars
               PROVE  ProcessInv'
    OBVIOUS
  <2>1. CASE RunStep
    BY <2>1, RunStepKeeps
  <2>2. CASE Environment
    BY <2>2, EnvironmentKeeps
  <2>3. CASE UNCHANGED processVars
    BY <2>3 DEF processVars, ProcessInv, ProcessTypeOK
  <2> QED
    BY <2>1, <2>2, <2>3 DEF ProcessNext, ProcessOver
<1> QED
  BY <1>1, ProcessInitInv, PTL DEF ProcessSpec

\* A run that returns has taken everything down and hidden no failure.
THEOREM ReturnsClean == ProcessSpec => []CleanReturn
<1>1. ProcessInv => CleanReturn
  BY DEF ProcessInv, ProcessTypeOK, CleanReturn
<1> QED
  BY <1>1, ProcessInvariance, PTL

\* No handler of either transport outlives the pool of connections.
THEOREM PoolOutlivesCalls == ProcessSpec => []EngineOutlivesCalls
<1>1. ProcessInv => EngineOutlivesCalls
  BY DEF ProcessInv, EngineOutlivesCalls
<1> QED
  BY <1>1, ProcessInvariance, PTL
=============================================================================
