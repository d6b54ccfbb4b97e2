--------------------------- MODULE MCConnections ---------------------------
(***************************************************************************)
(* For TLC: the threads of the server with their clients (ServerLifecycle) *)
(* and the client library with one worker (ClientApi).  They share no      *)
(* state; of the two one runs, and the other is at its end.                *)
(***************************************************************************)
EXTENDS ServerLifecycle, Sequences

CONSTANTS TextInts, MaxMounts, MaxCalls

VARIABLES
  client_fds, sockets, errno, pc, call, result, denied, misused,
  stream, working, calls, serving

apiVars == <<client_fds, sockets, errno, pc, call, result, denied, misused,
             stream, working, calls, serving>>

Api == INSTANCE ClientApi WITH request <- working, sent <- calls

ASSUME ApiAssumption == Api!ClientApiAssumption

MCInit ==
  \/ Init /\ Api!Quiet /\ pc = "exited"
  \/ Api!Init /\ Quiet /\ server = "exited"

MCNext ==
  \/ Next /\ UNCHANGED apiVars
  \/ Api!Next /\ UNCHANGED vars

MCSpec == MCInit /\ [][MCNext]_<<vars, apiVars>> /\ Fairness /\ Api!Fairness

InStep      == Api!InStep
CallReturns == Api!CallReturns
=============================================================================
