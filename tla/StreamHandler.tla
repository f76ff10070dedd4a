--------------------------- MODULE StreamHandler ---------------------------
(***************************************************************************)
(* SocketStreamHandler with a WebRTC socket: application threads connect,  *)
(* close, reset and restart one handler.  connect and reset hold           *)
(* socketOperationLock, close holds socketShutdownLock, a restart and the  *)
(* close of a failed connect hold both.  connect takes long, and close     *)
(* does not wait for it: that is what the second lock is for.              *)
(*                                                                         *)
(* The sockets a handler has had are numbered; the handler is modelled     *)
(* from the end of initializeSocketHandler, which its constructor calls.   *)
(***************************************************************************)
EXTENDS Naturals

CONSTANTS
    Threads,        \* the threads that use the handler
    NoOwner,        \* a lock nobody holds
    MaxOps          \* bound: operations started in a behaviour

ASSUME HandlerAssumption ==
    /\ NoOwner \notin Threads
    /\ MaxOps \in Nat

VARIABLES
    owner,              \* the thread that holds each lock
    socketHandle,       \* the current socket; 0 for NULL
    sockets,            \* sockets created so far
    dead,               \* the sockets for which isSocketLive is false
    ending,             \* sockets whose sender was told to quit
    isConnected,        \* the handler takes itself to be connected
    b_isSocketOpen,     \* a connect began and no close has finished
    op,                 \* the operation a thread is in
    at,                 \* and where it is
    ops,                \* operations started so far
    connectedTo,        \* the socket of the last connect that succeeded
    overlapped          \* a close ended while a connect was under way

handleVars == <<socketHandle, sockets, dead, ending>>
flags == <<isConnected, b_isSocketOpen>>
history == <<connectedTo, overlapped>>
vars == <<owner, handleVars, flags, op, at, ops, history>>

\* socketOperationLock and socketShutdownLock.
Locks == {"operation", "shutdown"}
Ops == {"connect", "close", "restart", "reset"}

Connecting == {"call", "connecting", "setConnected"}
Shutting == {"shutTest", "destroy", "shut", "clearOpen", "clearConnected"}
Renewing == {"dropTest", "dropHandle", "newHandle"}
Points == {"idle", "lockFirst", "lockSecond", "reset", "leaveShut", "leaveOp"}
          \cup Connecting \cup Shutting \cup Renewing

Init ==
    /\ owner = [l \in Locks |-> NoOwner]
    /\ socketHandle = 1
    /\ sockets = 1
    /\ dead = {}
    /\ ending = {}
    /\ isConnected = FALSE
    /\ b_isSocketOpen = FALSE
    /\ op = [t \in Threads |-> "close"]
    /\ at = [t \in Threads |-> "idle"]
    /\ ops = 0
    /\ connectedTo = 0
    /\ overlapped = FALSE

GoTo(t, point) == at' = [at EXCEPT ![t] = point]

Acquire(t, l) ==
    /\ owner[l] = NoOwner
    /\ owner' = [owner EXCEPT ![l] = t]

Release(l) == owner' = [owner EXCEPT ![l] = NoOwner]

-----------------------------------------------------------------------------
(* Locks: every operation takes the lock of FirstLock, a restart and the   *)
(* closeSocket of a failed connect take the other one as well              *)

Begin(t, operation) ==
    /\ at[t] = "idle"
    /\ ops < MaxOps
    /\ ops' = ops + 1
    /\ op' = [op EXCEPT ![t] = operation]
    /\ GoTo(t, "lockFirst")
    /\ UNCHANGED <<owner, handleVars, flags, history>>

\* Variant: restart takes socketShutdownLock first.
FirstLockSwapped(operation) ==
    IF operation \in {"close", "restart"} THEN "shutdown" ELSE "operation"

FirstLock(operation) ==
    IF operation = "close" THEN "shutdown" ELSE "operation"

SecondLock(operation) ==
    IF FirstLock(operation) = "operation" THEN "shutdown" ELSE "operation"

AfterFirst(operation) ==
    CASE operation = "connect" -> "call"
      [] operation = "close" -> "shutTest"
      [] operation = "reset" -> "reset"
      [] operation = "restart" -> "lockSecond"

\* Variant: connect goes ahead whoever holds the lock.
LockFirstUnlocked(t) ==
    /\ at[t] = "lockFirst"
    /\ op[t] = "connect" \/ owner[FirstLock(op[t])] = NoOwner
    /\ owner' = [owner EXCEPT ![FirstLock(op[t])] = t]
    /\ b_isSocketOpen' = (b_isSocketOpen \/ op[t] = "connect")
    /\ GoTo(t, AfterFirst(op[t]))
    /\ UNCHANGED <<handleVars, isConnected, op, ops, history>>

\* connect sets b_isSocketOpen before anything else.
LockFirst(t) ==
    /\ at[t] = "lockFirst"
    /\ Acquire(t, FirstLock(op[t]))
    /\ b_isSocketOpen' = (b_isSocketOpen \/ op[t] = "connect")
    /\ GoTo(t, AfterFirst(op[t]))
    /\ UNCHANGED <<handleVars, isConnected, op, ops, history>>

\* Variant: the second lock is not taken.
LockSecondUnlocked(t) ==
    /\ at[t] = "lockSecond"
    /\ GoTo(t, IF op[t] = "restart" THEN "dropTest" ELSE "shutTest")
    /\ UNCHANGED <<owner, handleVars, flags, op, ops, history>>

LockSecond(t) ==
    /\ at[t] = "lockSecond"
    /\ Acquire(t, SecondLock(op[t]))
    /\ GoTo(t, IF op[t] = "restart" THEN "dropTest" ELSE "shutTest")
    /\ UNCHANGED <<handleVars, flags, op, ops, history>>

LeaveShutdown(t) ==
    /\ at[t] = "leaveShut"
    /\ Release("shutdown")
    /\ GoTo(t, IF op[t] = "close" THEN "idle" ELSE "leaveOp")
    /\ UNCHANGED <<handleVars, flags, op, ops, history>>

LeaveOperation(t) ==
    /\ at[t] = "leaveOp"
    /\ Release("operation")
    /\ GoTo(t, "idle")
    /\ UNCHANGED <<handleVars, flags, op, ops, history>>

-----------------------------------------------------------------------------
(* ConnectToPeer and connectThroughProxy; ResetConnection                  *)

\* connect of the socket fails at once if its instance is gone.
ConnectCall(t) ==
    /\ at[t] = "call"
    /\ GoTo(t, IF socketHandle # 0 /\ socketHandle \notin dead
               THEN "connecting" ELSE "lockSecond")
    /\ UNCHANGED <<owner, handleVars, flags, op, ops, history>>

\* A connect under way succeeds or fails, also when the socket is shut down
\* meanwhile: the instance is never deleted, and checkSenderThreadStatus is
\* true of a socket that is not live.  A failed connect closes the socket.
ConnectReturns(t) ==
    /\ at[t] = "connecting"
    /\ \E success \in BOOLEAN :
          GoTo(t, IF success THEN "setConnected" ELSE "lockSecond")
    /\ UNCHANGED <<owner, handleVars, flags, op, ops, history>>

SetConnected(t) ==
    /\ at[t] = "setConnected"
    /\ isConnected' = TRUE
    /\ connectedTo' = socketHandle
    /\ GoTo(t, "leaveOp")
    /\ UNCHANGED <<owner, handleVars, b_isSocketOpen, op, ops, overlapped>>

\* initialize gives the socket a new instance; a NULL handle is caught.
Reset(t) ==
    /\ at[t] = "reset"
    /\ dead' = dead \ {socketHandle}
    /\ GoTo(t, "leaveOp")
    /\ UNCHANGED <<owner, socketHandle, sockets, ending, flags, op, ops,
                   history>>

-----------------------------------------------------------------------------
(* ShutDown, called by closeSocket and, from DestroyConnectionApp, by      *)
(* Restart                                                                 *)

AfterShutDown(t) == IF op[t] = "restart" THEN "dropHandle" ELSE "leaveShut"

ShutDownTest(t) ==
    /\ at[t] = "shutTest"
    /\ GoTo(t, IF b_isSocketOpen /\ socketHandle # 0
               THEN "destroy" ELSE AfterShutDown(t))
    /\ UNCHANGED <<owner, handleVars, flags, op, ops, history>>

\* DestroySocket tells the sender to quit and may give up waiting for it.
DestroySocket(t) ==
    /\ at[t] = "destroy"
    /\ ending' = ending \cup {socketHandle}
    /\ GoTo(t, "shut")
    /\ UNCHANGED <<owner, socketHandle, sockets, dead, flags, op, ops, history>>

ShutDownSocket(t) ==
    /\ at[t] = "shut"
    /\ dead' = dead \cup {socketHandle}
    /\ GoTo(t, "clearOpen")
    /\ UNCHANGED <<owner, socketHandle, sockets, ending, flags, op, ops,
                   history>>

ClearOpen(t) ==
    /\ at[t] = "clearOpen"
    /\ b_isSocketOpen' = FALSE
    /\ overlapped' = (overlapped \/ \E u \in Threads : at[u] \in Connecting)
    /\ GoTo(t, "clearConnected")
    /\ UNCHANGED <<owner, handleVars, isConnected, op, ops, connectedTo>>

\* Variant: isConnected is left as it was.
ClearConnectedNot(t) ==
    /\ at[t] = "clearConnected"
    /\ GoTo(t, AfterShutDown(t))
    /\ UNCHANGED <<owner, handleVars, flags, op, ops, history>>

ClearConnected(t) ==
    /\ at[t] = "clearConnected"
    /\ isConnected' = FALSE
    /\ GoTo(t, AfterShutDown(t))
    /\ UNCHANGED <<owner, handleVars, b_isSocketOpen, op, ops, history>>

\* The sender of a socket ends with its own call of shutDownSocket, whenever it
\* gets there: it was told to quit by DestroySocket, or a send failed.
SenderQuits(s) ==
    /\ s \in ending \/ s \notin dead
    /\ ending' = ending \ {s}
    /\ dead' = dead \cup {s}
    /\ UNCHANGED <<owner, socketHandle, sockets, flags, op, at, ops, history>>

\* stopIncomingListener takes no lock.
StopIncomingListener ==
    /\ isConnected
    /\ isConnected' = FALSE
    /\ UNCHANGED <<owner, handleVars, b_isSocketOpen, op, at, ops, history>>

-----------------------------------------------------------------------------
(* Restart                                                                 *)

DropTest(t) ==
    /\ at[t] = "dropTest"
    /\ GoTo(t, IF socketHandle # 0 THEN "shutTest" ELSE "newHandle")
    /\ UNCHANGED <<owner, handleVars, flags, op, ops, history>>

DropHandle(t) ==
    /\ at[t] = "dropHandle"
    /\ socketHandle' = 0
    /\ GoTo(t, "newHandle")
    /\ UNCHANGED <<owner, sockets, dead, ending, flags, op, ops, history>>

NewHandle(t) ==
    /\ at[t] = "newHandle"
    /\ sockets' = sockets + 1
    /\ socketHandle' = sockets + 1
    /\ GoTo(t, "leaveShut")
    /\ UNCHANGED <<owner, dead, ending, flags, op, ops, history>>

-----------------------------------------------------------------------------
Step(t) ==
    \/ LockFirst(t)
    \/ LockSecond(t)
    \/ LeaveShutdown(t)
    \/ LeaveOperation(t)
    \/ ConnectCall(t)
    \/ ConnectReturns(t)
    \/ SetConnected(t)
    \/ Reset(t)
    \/ ShutDownTest(t)
    \/ DestroySocket(t)
    \/ ShutDownSocket(t)
    \/ ClearOpen(t)
    \/ ClearConnected(t)
    \/ DropTest(t)
    \/ DropHandle(t)
    \/ NewHandle(t)

Next ==
    \/ \E t \in Threads :
          \/ \E operation \in Ops : Begin(t, operation)
          \/ Step(t)
    \/ \E s \in 1 .. sockets : SenderQuits(s)
    \/ StopIncomingListener

Spec == Init /\ [][Next]_vars

\* Every runnable thread runs, connect returns within its time-outs, and a
\* free lock is not kept from the last thread that wants it.
FairSpec == Spec /\ \A t \in Threads : WF_vars(Step(t))

-----------------------------------------------------------------------------
(* Properties                                                              *)

\* The fields hold values of their types; above all, a socket that is told to
\* quit or shut down is never NULL.
TypeOK ==
    /\ owner \in [Locks -> Threads \cup {NoOwner}]
    /\ socketHandle \in 0 .. sockets
    /\ sockets \in Nat \ {0}
    /\ dead \subseteq 1 .. sockets
    /\ ending \subseteq 1 .. sockets
    /\ isConnected \in BOOLEAN
    /\ b_isSocketOpen \in BOOLEAN
    /\ op \in [Threads -> Ops]
    /\ at \in [Threads -> Points]
    /\ ops \in 0 .. MaxOps
    /\ connectedTo \in 0 .. sockets
    /\ overlapped \in BOOLEAN

Closing(t) == at[t] \in Shutting \cup Renewing

\* However close, restart and a failing connect meet, one thread at a time is
\* in ShutDown: DestroySocket is never called by two threads at once.
OneCloser ==
    \A t, u \in Threads : Closing(t) /\ Closing(u) => t = u

\* The places where a thread calls a method of the socket; a failed connect
\* does so once more, for its last error.
UsesHandle(t) ==
    \/ at[t] \in Connecting \cup Shutting \cup {"reset"}
    \/ at[t] = "leaveOp" /\ op[t] = "connect"

\* A restart never replaces the socket under a thread that connects, resets
\* or closes it: none of them meets a NULL handle between test and use.
HandleNotReplacedInUse ==
    [][socketHandle' # socketHandle
       => \A t \in Threads : ~UsesHandle(t)]_vars

\* A handler that takes itself to be connected was connected through the
\* socket it has now, and a close will shut that socket down; it is otherwise
\* only if some close ended while a connect was under way.
ConnectedMeansOpen ==
    isConnected =>
        \/ overlapped
        \/ \E t \in Threads : at[t] = "clearConnected"
        \/ b_isSocketOpen /\ connectedTo = socketHandle

\* No operation is kept waiting for ever by the two locks, however many
\* threads connect, restart and close, once no new operation is begun.
OperationsFinish ==
    \A t \in Threads : at[t] # "idle" ~> at[t] = "idle"
=============================================================================
