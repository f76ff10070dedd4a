------------------------ MODULE StreamHandlerProofs ------------------------
(***************************************************************************)
(* What holds of StreamHandler for every number of threads and operations: *)
(* its types, one closer at a time, the socket is not replaced in use, and *)
(* what isConnected says.                                                  *)
(*                                                                         *)
(* The first three rest on who holds which lock (LocksHeld): the thread    *)
(* whose place in its operation says so, and no other.  The last one needs *)
(* what the flags say at each place (FlagsInv): a close that takes         *)
(* b_isSocketOpen from under a connect marks it as overlapped, and a       *)
(* restart has cleared isConnected before it drops the socket.             *)
(***************************************************************************)
EXTENDS StreamHandler, TLAPS

HoldsShutdown(t) == at[t] \in Shutting \cup Renewing \cup {"leaveShut"}
HoldsOperation(t) ==
    \/ at[t] \in Connecting \cup {"reset", "lockSecond", "leaveOp"}
    \/ HoldsShutdown(t) /\ op[t] # "close"

LocksHeld ==
    \A t \in Threads :
        /\ HoldsOperation(t) => owner["operation"] = t
        /\ HoldsShutdown(t) => owner["shutdown"] = t

\* Each place belongs to the operations that pass through it.
OpAt ==
    \A t \in Threads :
        /\ at[t] \in Connecting => op[t] = "connect"
        /\ at[t] = "reset" => op[t] = "reset"
        /\ at[t] = "lockSecond" => op[t] \in {"connect", "restart"}
        /\ at[t] = "leaveOp" => op[t] # "close"
        /\ at[t] \in Renewing => op[t] = "restart"
        /\ HoldsShutdown(t) => op[t] # "reset"

\* The handle is NULL only between the two assignments of a restart.
HandleThere ==
    socketHandle = 0 => \E t \in Threads : at[t] = "newHandle"

LockInv == TypeOK /\ LocksHeld /\ OpAt /\ HandleThere

\* At first no lock is held and no operation has begun.
LEMMA InitLocks == Init => LockInv
<1> SUFFICES ASSUME Init
             PROVE  LockInv
  OBVIOUS
<1>1. TypeOK
  <2>1. owner \in [Locks -> Threads \cup {NoOwner}]
    BY DEF Init
  <2>2. op \in [Threads -> Ops] /\ at \in [Threads -> Points]
    BY DEF Init, Ops, Points
  <2>3. /\ socketHandle \in 0 .. sockets /\ sockets \in Nat \ {0}
        /\ connectedTo \in 0 .. sockets /\ ops \in 0 .. MaxOps
    BY HandlerAssumption DEF HandlerAssumption, Init
  <2>4. /\ dead \subseteq 1 .. sockets /\ ending \subseteq 1 .. sockets
        /\ isConnected \in BOOLEAN /\ b_isSocketOpen \in BOOLEAN
        /\ overlapped \in BOOLEAN
    BY DEF Init
  <2> QED
    BY <2>1, <2>2, <2>3, <2>4 DEF TypeOK
<1>2. LocksHeld
  BY DEF Init, LocksHeld, HoldsShutdown, HoldsOperation, Connecting, Shutting,
         Renewing
<1>3. OpAt
  BY DEF Init, OpAt, HoldsShutdown, Connecting, Shutting, Renewing
<1>4. HandleThere
  BY DEF Init, HandleThere
<1> QED
  BY <1>1, <1>2, <1>3, <1>4 DEF LockInv

\* Threads that need one lock at the same time are one thread.
LEMMA OneHolder ==
    ASSUME LockInv, NEW t \in Threads, NEW u \in Threads,
           \/ HoldsShutdown(t) /\ HoldsShutdown(u)
           \/ HoldsOperation(t) /\ HoldsOperation(u)
    PROVE  t = u
BY DEF LockInv, LocksHeld

\* A thread that shuts down or drops a socket finds the handle set.
LEMMA HandleSet ==
    ASSUME LockInv, NEW t \in Threads,
           at[t] \in Shutting \cup {"dropTest", "dropHandle"}
    PROVE  socketHandle # 0
<1> SUFFICES ASSUME socketHandle = 0
             PROVE  FALSE
  OBVIOUS
<1>1. PICK u \in Threads : at[u] = "newHandle"
  BY DEF LockInv, HandleThere
<1>2. HoldsShutdown(u) /\ HoldsShutdown(t)
  BY <1>1 DEF HoldsShutdown, Renewing
<1>3. u = t
  BY <1>2, OneHolder
<1> QED
  BY <1>1, <1>3 DEF Shutting

-----------------------------------------------------------------------------
(* Types                                                                   *)

\* Starting an operation keeps every field within its type.
LEMMA BeginTypes ==
    ASSUME TypeOK, NEW t \in Threads, NEW o \in Ops, Begin(t, o)
    PROVE  TypeOK'
BY HandlerAssumption
   DEF HandlerAssumption, TypeOK, Begin, GoTo, Points, handleVars, flags,
       history

\* So do the steps of the sender and of stopIncomingListener.
LEMMA OutsideTypes ==
    ASSUME TypeOK,
           (\E s \in 1 .. sockets : SenderQuits(s)) \/ StopIncomingListener
    PROVE  TypeOK'
BY DEF TypeOK, SenderQuits, StopIncomingListener, handleVars, flags, history

\* So does a step of an operation.
LEMMA StepTypes ==
    ASSUME LockInv, NEW t \in Threads, Step(t)
    PROVE  TypeOK'
<1> USE DEF LockInv, TypeOK, GoTo, Points, Connecting, Shutting, Renewing,
            handleVars, flags, history
<1>1. CASE LockFirst(t)
  <2>1. owner' \in [Locks -> Threads \cup {NoOwner}]
    BY <1>1 DEF LockFirst, Acquire, FirstLock, Locks
  <2>2. op[t] \in Ops
    OBVIOUS
  <2>3. AfterFirst(op[t]) \in Points
    BY <2>2 DEF AfterFirst, Ops
  <2>4. at' \in [Threads -> Points]
    BY <1>1, <2>3 DEF LockFirst
  <2>5. b_isSocketOpen' \in BOOLEAN
    BY <1>1 DEF LockFirst
  <2>6. UNCHANGED <<handleVars, isConnected, op, ops, history>>
    BY <1>1 DEF LockFirst
  <2> QED
    BY <2>1, <2>4, <2>5, <2>6
<1>2. CASE LockSecond(t)
  BY <1>2 DEF LockSecond, Acquire, SecondLock, FirstLock, Locks
<1>3. CASE LeaveShutdown(t)
  BY <1>3 DEF LeaveShutdown, Release, Locks
<1>4. CASE LeaveOperation(t)
  BY <1>4 DEF LeaveOperation, Release, Locks
<1>5. CASE ConnectCall(t)
  BY <1>5 DEF ConnectCall
<1>6. CASE ConnectReturns(t)
  BY <1>6 DEF ConnectReturns
<1>7. CASE SetConnected(t)
  BY <1>7 DEF SetConnected
<1>8. CASE Reset(t)
  BY <1>8 DEF Reset
<1>9. CASE ShutDownTest(t)
  BY <1>9 DEF ShutDownTest, AfterShutDown
<1>10. CASE DestroySocket(t)
  <2>1. socketHandle \in 1 .. sockets
    BY <1>10, HandleSet DEF DestroySocket
  <2> QED
    BY <1>10, <2>1 DEF DestroySocket
<1>11. CASE ShutDownSocket(t)
  <2>1. socketHandle \in 1 .. sockets
    BY <1>11, HandleSet DEF ShutDownSocket
  <2> QED
    BY <1>11, <2>1 DEF ShutDownSocket
<1>12. CASE ClearOpen(t)
  BY <1>12 DEF ClearOpen
<1>13. CASE ClearConnected(t)
  BY <1>13 DEF ClearConnected, AfterShutDown
<1>14. CASE DropTest(t)
  BY <1>14 DEF DropTest
<1>15. CASE DropHandle(t)
  BY <1>15 DEF DropHandle
<1>16. CASE NewHandle(t)
  <2>1. 1 .. sockets \subseteq 1 .. sockets'
    BY <1>16 DEF NewHandle
  <2> QED
    BY <1>16, <2>1 DEF NewHandle
<1> QED
  BY <1>1, <1>2, <1>3, <1>4, <1>5, <1>6, <1>7, <1>8, <1>9, <1>10, <1>11,
     <1>12, <1>13, <1>14, <1>15, <1>16 DEF Step

-----------------------------------------------------------------------------
(* Locks                                                                   *)

\* A step that leaves the locks alone keeps LocksHeld if the thread that moves
\* needs no lock it did not need before.
LEMMA KeptLocks ==
    ASSUME LockInv, NEW t \in Threads,
           UNCHANGED <<owner, op>>, NEW p, at' = [at EXCEPT ![t] = p],
           HoldsShutdown(t)' => HoldsShutdown(t),
           HoldsOperation(t)' => HoldsOperation(t)
    PROVE  LocksHeld'
<1>1. \A u \in Threads : u # t => at'[u] = at[u] /\ op'[u] = op[u]
  BY DEF LockInv, TypeOK
<1>2. \A u \in Threads : /\ HoldsShutdown(u)' => HoldsShutdown(u)
                         /\ HoldsOperation(u)' => HoldsOperation(u)
  BY <1>1 DEF HoldsShutdown, HoldsOperation
<1> QED
  BY <1>2 DEF LocksHeld, LockInv, HoldsShutdown, HoldsOperation

\* A step of an operation takes and leaves the locks its points call for.
LEMMA StepLocks ==
    ASSUME LockInv, NEW t \in Threads, Step(t)
    PROVE  LocksHeld'
<1> USE DEF GoTo, Connecting, Shutting, Renewing, HoldsShutdown,
            HoldsOperation
<1>0. at \in [Threads -> Points] /\ op \in [Threads -> Ops]
  BY DEF LockInv, TypeOK
<1>1. CASE LockFirst(t)
  <2>1. owner \in [Locks -> Threads \cup {NoOwner}] /\ NoOwner \notin Threads
    BY HandlerAssumption DEF HandlerAssumption, LockInv, TypeOK
  <2>2. CASE op[t] = "close"
    BY <1>0, <1>1, <2>1, <2>2
       DEF LockFirst, Acquire, FirstLock, AfterFirst, Locks, LocksHeld, LockInv
  <2>3. CASE op[t] \in {"connect", "reset", "restart"}
    BY <1>0, <1>1, <2>1, <2>3
       DEF LockFirst, Acquire, FirstLock, AfterFirst, Locks, LocksHeld, LockInv
  <2> QED
    BY <1>0, <2>2, <2>3 DEF Ops
<1>2. CASE LockSecond(t)
  <2>1. owner \in [Locks -> Threads \cup {NoOwner}] /\ NoOwner \notin Threads
    BY HandlerAssumption DEF HandlerAssumption, LockInv, TypeOK
  <2>2. op[t] \in {"connect", "restart"}
    BY <1>2 DEF LockSecond, LockInv, OpAt
  <2>3. SecondLock(op[t]) = "shutdown"
    BY <2>2 DEF SecondLock, FirstLock
  <2> QED
    BY <1>0, <1>2, <2>1, <2>2, <2>3
       DEF LockSecond, Acquire, Locks, LocksHeld, LockInv
<1>3. CASE LeaveShutdown(t)
  <2>1. \A u \in Threads : u # t => ~HoldsShutdown(u)
    BY <1>3, OneHolder DEF LeaveShutdown
  <2> QED
    BY <1>0, <1>3, <2>1
       DEF LeaveShutdown, Release, Locks, LocksHeld, LockInv, TypeOK
<1>4. CASE LeaveOperation(t)
  <2>1. \A u \in Threads : u # t => ~HoldsOperation(u)
    BY <1>4, OneHolder DEF LeaveOperation
  <2> QED
    BY <1>0, <1>4, <2>1
       DEF LeaveOperation, Release, Locks, LocksHeld, LockInv, TypeOK
<1>5. CASE ConnectCall(t)
  BY <1>0, <1>5, KeptLocks DEF ConnectCall
<1>6. CASE ConnectReturns(t)
  BY <1>0, <1>6, KeptLocks DEF ConnectReturns
<1>7. CASE SetConnected(t)
  BY <1>0, <1>7, KeptLocks DEF SetConnected
<1>8. CASE Reset(t)
  BY <1>0, <1>8, KeptLocks DEF Reset
<1>9. CASE ShutDownTest(t)
  BY <1>0, <1>9, KeptLocks DEF ShutDownTest, AfterShutDown
<1>10. CASE DestroySocket(t)
  BY <1>0, <1>10, KeptLocks DEF DestroySocket
<1>11. CASE ShutDownSocket(t)
  BY <1>0, <1>11, KeptLocks DEF ShutDownSocket
<1>12. CASE ClearOpen(t)
  BY <1>0, <1>12, KeptLocks DEF ClearOpen
<1>13. CASE ClearConnected(t)
  BY <1>0, <1>13, KeptLocks DEF ClearConnected, AfterShutDown
<1>14. CASE DropTest(t)
  BY <1>0, <1>14, KeptLocks DEF DropTest
<1>15. CASE DropHandle(t)
  BY <1>0, <1>15, KeptLocks DEF DropHandle
<1>16. CASE NewHandle(t)
  BY <1>0, <1>16, KeptLocks DEF NewHandle
<1> QED
  BY <1>1, <1>2, <1>3, <1>4, <1>5, <1>6, <1>7, <1>8, <1>9, <1>10, <1>11,
     <1>12, <1>13, <1>14, <1>15, <1>16 DEF Step

\* A step of an operation leads to a point of the same operation.
LEMMA StepOpAt ==
    ASSUME LockInv, NEW t \in Threads, Step(t)
    PROVE  OpAt'
<1>1. /\ at \in [Threads -> Points] /\ op \in [Threads -> Ops]
      /\ op' = op
      /\ at' = [at EXCEPT ![t] = at'[t]]
  BY DEF LockInv, TypeOK, Step, GoTo, LockFirst, LockSecond, LeaveShutdown,
         LeaveOperation, ConnectCall, ConnectReturns, SetConnected, Reset,
         ShutDownTest, DestroySocket, ShutDownSocket, ClearOpen,
         ClearConnected, DropTest, DropHandle, NewHandle
<1>2. \A u \in Threads : u # t => at'[u] = at[u] /\ op'[u] = op[u]
  BY <1>1
<1> DEFINE Here(o, a) ==
      /\ a \in Connecting => o = "connect"
      /\ a = "reset" => o = "reset"
      /\ a = "lockSecond" => o \in {"connect", "restart"}
      /\ a = "leaveOp" => o # "close"
      /\ a \in Renewing => o = "restart"
      /\ a \in Shutting \cup Renewing \cup {"leaveShut"} => o # "reset"
<1>3. Here(op[t], at[t])
  BY DEF LockInv, OpAt, HoldsShutdown
<1>4. op[t] \in Ops
  BY <1>1
<1>5. Here(op[t], at'[t])
  BY <1>1, <1>3, <1>4
     DEF Step, GoTo, LockFirst, AfterFirst, LockSecond, LeaveShutdown,
         LeaveOperation, ConnectCall, ConnectReturns, SetConnected, Reset,
         ShutDownTest, AfterShutDown, DestroySocket, ShutDownSocket,
         ClearOpen, ClearConnected, DropTest, DropHandle, NewHandle,
         Connecting, Shutting, Renewing, Ops
<1>6. Here(op'[t], at'[t])
  BY <1>1, <1>5
<1> QED
  BY <1>2, <1>6 DEF OpAt, HoldsShutdown, LockInv

\* A step leaves the handle NULL only between the two assignments of a restart.
LEMMA StepHandleThere ==
    ASSUME LockInv, NEW t \in Threads, Step(t)
    PROVE  HandleThere'
<1> SUFFICES ASSUME socketHandle' = 0
             PROVE  \E u \in Threads : at'[u] = "newHandle"
  BY DEF HandleThere
<1>1. at \in [Threads -> Points] /\ sockets \in Nat
  BY DEF LockInv, TypeOK
<1>2. CASE DropHandle(t)
  BY <1>1, <1>2 DEF DropHandle, GoTo
<1>3. CASE NewHandle(t)
  BY <1>1, <1>3 DEF NewHandle
<1>4. CASE ~DropHandle(t) /\ ~NewHandle(t)
  <2>1. /\ socketHandle' = socketHandle /\ at[t] # "newHandle"
        /\ \E p : at' = [at EXCEPT ![t] = p]
    BY <1>4
       DEF Step, GoTo, LockFirst, LockSecond, LeaveShutdown, LeaveOperation,
           ConnectCall, ConnectReturns, SetConnected, Reset, ShutDownTest,
           DestroySocket, ShutDownSocket, ClearOpen, ClearConnected, DropTest,
           handleVars
  <2>2. PICK u \in Threads : at[u] = "newHandle"
    BY <2>1 DEF LockInv, HandleThere
  <2> QED
    BY <1>1, <2>1, <2>2
<1> QED
  BY <1>2, <1>3, <1>4

\* Beginning an operation takes no lock, and what happens outside the
\* operations touches neither the locks nor anybody's place.
LEMMA BeginLocks ==
    ASSUME LockInv, NEW t \in Threads, NEW o \in Ops, Begin(t, o)
    PROVE  LocksHeld' /\ OpAt' /\ HandleThere'
<1>1. /\ owner' = owner /\ socketHandle' = socketHandle
      /\ at[t] = "idle" /\ at'[t] = "lockFirst"
      /\ \A u \in Threads : u # t => at'[u] = at[u] /\ op'[u] = op[u]
  BY DEF LockInv, TypeOK, Begin, GoTo, handleVars
<1>2. LocksHeld'
  BY <1>1 DEF LockInv, LocksHeld, HoldsShutdown, HoldsOperation, Connecting,
              Shutting, Renewing
<1>3. OpAt'
  BY <1>1 DEF LockInv, OpAt, HoldsShutdown, Connecting, Shutting, Renewing
<1>4. HandleThere'
  BY <1>1 DEF LockInv, HandleThere
<1> QED
  BY <1>2, <1>3, <1>4

\* LockInv speaks of the locks, the handle and the points alone.
LEMMA KeptLockInv ==
    ASSUME LockInv, UNCHANGED <<owner, socketHandle, op, at>>
    PROVE  LocksHeld' /\ OpAt' /\ HandleThere'
BY DEF LockInv, LocksHeld, OpAt, HandleThere, HoldsShutdown, HoldsOperation

\* The inductive invariant of the locks, and with it type correctness.
THEOREM TypeCorrect == Spec => []LockInv
<1>1. LockInv /\ [Next]_vars => LockInv'
  <2> SUFFICES ASSUME LockInv, [Next]_vars
               PROVE  LockInv'
    OBVIOUS
  <2>1. ASSUME NEW t \in Threads, NEW o \in Ops, Begin(t, o)
        PROVE  LockInv'
    BY <2>1, BeginTypes, BeginLocks DEF LockInv
  <2>2. ASSUME NEW t \in Threads, Step(t)
        PROVE  LockInv'
    BY <2>2, StepTypes, StepLocks, StepOpAt, StepHandleThere DEF LockInv
  <2>3. CASE (\E s \in 1 .. sockets : SenderQuits(s)) \/ StopIncomingListener
    <3>1. UNCHANGED <<owner, socketHandle, op, at>>
      BY <2>3 DEF SenderQuits, StopIncomingListener, handleVars
    <3> QED
      BY <2>3, <3>1, OutsideTypes, KeptLockInv DEF LockInv
  <2>4. CASE UNCHANGED vars
    <3>1. UNCHANGED <<owner, socketHandle, op, at>> /\ TypeOK'
      BY <2>4 DEF vars, handleVars, flags, history, LockInv, TypeOK
    <3> QED
      BY <3>1, KeptLockInv DEF LockInv
  <2> QED
    BY <2>1, <2>2, <2>3, <2>4 DEF Next
<1> QED
  BY <1>1, InitLocks, PTL DEF Spec

\* One thread at a time is in ShutDown.
THEOREM OneCloserAlways == Spec => []OneCloser
<1>1. LockInv => OneCloser
  BY OneHolder DEF OneCloser, Closing, HoldsShutdown
<1> QED
  BY <1>1, TypeCorrect, PTL

\* A restart replaces the socket under nobody.
THEOREM NotReplacedInUse == Spec => HandleNotReplacedInUse
<1>1. LockInv /\ [Next]_vars
      => [socketHandle' # socketHandle => \A t \in Threads : ~UsesHandle(t)]_vars
  <2> SUFFICES ASSUME LockInv, Next, socketHandle' # socketHandle,
                      NEW u \in Threads, UsesHandle(u)
               PROVE  FALSE
    OBVIOUS
  <2>1. PICK t \in Threads : DropHandle(t) \/ NewHandle(t)
    BY DEF Next, Begin, SenderQuits, StopIncomingListener, Step, LockFirst,
           LockSecond, LeaveShutdown, LeaveOperation, ConnectCall,
           ConnectReturns, SetConnected, Reset, ShutDownTest, DestroySocket,
           ShutDownSocket, ClearOpen, ClearConnected, DropTest, handleVars
  <2>2. at[t] \in {"dropHandle", "newHandle"} /\ op[t] = "restart"
    BY <2>1 DEF DropHandle, NewHandle, LockInv, OpAt, Renewing
  <2>3. HoldsShutdown(t) /\ HoldsOperation(t)
    BY <2>2 DEF HoldsShutdown, HoldsOperation, Renewing
  <2>4. HoldsShutdown(u) \/ HoldsOperation(u)
    BY DEF UsesHandle, HoldsShutdown, HoldsOperation
  <2>5. t = u
    BY <2>3, <2>4, OneHolder
  <2> QED
    BY <2>2, <2>5 DEF UsesHandle, Connecting, Shutting
<1> QED
  BY <1>1, TypeCorrect, PTL DEF Spec, HandleNotReplacedInUse

-----------------------------------------------------------------------------
(* What isConnected says                                                   *)

\* While a thread connects, the socket is marked as open, unless a close has
\* ended meanwhile; a restart has cleared isConnected when it drops the socket.
FlagsInv ==
    /\ ConnectedMeansOpen
    /\ \A t \in Threads : at[t] \in Connecting => b_isSocketOpen \/ overlapped
    /\ \A t \in Threads : at[t] \in {"dropHandle", "newHandle"}
                           => ~isConnected \/ overlapped

\* A step that sets no flag back, and brings nobody to a place of which
\* FlagsInv says more than it did before, keeps it.
LEMMA KeptFlags ==
    ASSUME LockInv, FlagsInv, NEW t \in Threads,
           UNCHANGED <<isConnected, socketHandle, connectedTo, overlapped>>,
           b_isSocketOpen => b_isSocketOpen',
           NEW p, at' = [at EXCEPT ![t] = p], at[t] # "clearConnected",
           p \in Connecting => at[t] \in Connecting \/ b_isSocketOpen',
           p \in {"dropHandle", "newHandle"} => ~isConnected \/ overlapped
    PROVE  FlagsInv'
<1>1. /\ at'[t] = p
      /\ \A u \in Threads : u # t => at'[u] = at[u]
  BY DEF LockInv, TypeOK
<1>2. ConnectedMeansOpen'
  BY <1>1 DEF FlagsInv, ConnectedMeansOpen
<1>3. \A u \in Threads : at'[u] \in Connecting
                         => b_isSocketOpen' \/ overlapped'
  BY <1>1 DEF FlagsInv
<1>4. \A u \in Threads : at'[u] \in {"dropHandle", "newHandle"}
                         => ~isConnected' \/ overlapped'
  BY <1>1 DEF FlagsInv
<1> QED
  BY <1>2, <1>3, <1>4 DEF FlagsInv, Connecting

\* A step of an operation keeps what the flags say of each other.
LEMMA StepFlags ==
    ASSUME LockInv, FlagsInv, NEW t \in Threads, Step(t)
    PROVE  FlagsInv'
<1> USE DEF GoTo, Connecting, handleVars, flags, history
<1>0. at \in [Threads -> Points] /\ op \in [Threads -> Ops]
  BY DEF LockInv, TypeOK
<1>1. CASE LockFirst(t)
  <2>1. AfterFirst(op[t]) \notin {"dropHandle", "newHandle"}
    BY <1>0 DEF AfterFirst, Ops
  <2>2. AfterFirst(op[t]) \in Connecting => op[t] = "connect"
    BY <1>0 DEF AfterFirst, Ops
  <2> QED
    BY <1>1, <2>1, <2>2, KeptFlags DEF LockFirst
<1>2. CASE LockSecond(t)
  BY <1>2, KeptFlags DEF LockSecond
<1>3. CASE LeaveShutdown(t)
  BY <1>3, KeptFlags DEF LeaveShutdown
<1>4. CASE LeaveOperation(t)
  BY <1>4, KeptFlags DEF LeaveOperation
<1>5. CASE ConnectCall(t)
  BY <1>5, KeptFlags DEF ConnectCall
<1>6. CASE ConnectReturns(t)
  BY <1>6, KeptFlags DEF ConnectReturns
<1>7. CASE SetConnected(t)
  <2>1. b_isSocketOpen \/ overlapped
    BY <1>7 DEF SetConnected, FlagsInv
  <2>2. \A u \in Threads : at[u] \notin {"dropHandle", "newHandle"}
    <3> SUFFICES ASSUME NEW u \in Threads,
                        at[u] \in {"dropHandle", "newHandle"}
                 PROVE  FALSE
      OBVIOUS
    <3>1. HoldsOperation(u) /\ HoldsOperation(t)
      BY <1>7 DEF SetConnected, HoldsOperation, HoldsShutdown, Renewing,
                  LockInv, OpAt
    <3> QED
      BY <1>7, <3>1, OneHolder DEF SetConnected
  <2>3. /\ isConnected' /\ connectedTo' = socketHandle'
        /\ b_isSocketOpen' = b_isSocketOpen /\ overlapped' = overlapped
        /\ \A u \in Threads : at'[u] \notin {"dropHandle", "newHandle"}
    BY <1>0, <1>7, <2>2 DEF SetConnected
  <2> QED
    BY <2>1, <2>3 DEF FlagsInv, ConnectedMeansOpen
<1>8. CASE Reset(t)
  BY <1>8, KeptFlags DEF Reset
<1>9. CASE ShutDownTest(t)
  <2>1. socketHandle # 0
    BY <1>9, HandleSet DEF ShutDownTest, Shutting
  <2>2. \A u \in Threads : at[u] # "clearConnected"
    BY <1>9, OneHolder DEF ShutDownTest, HoldsShutdown, Shutting
  <2>3. ~b_isSocketOpen => ~isConnected \/ overlapped
    BY <2>2 DEF FlagsInv, ConnectedMeansOpen
  <2>4. CASE b_isSocketOpen
    BY <1>9, <2>1, <2>4, KeptFlags DEF ShutDownTest
  <2>5. CASE ~b_isSocketOpen
    <3>1. at' = [at EXCEPT ![t] = AfterShutDown(t)]
      BY <1>9, <2>5 DEF ShutDownTest
    <3>2. AfterShutDown(t) \in {"dropHandle", "leaveShut"}
      BY DEF AfterShutDown
    <3> QED
      BY <1>9, <2>3, <2>5, <3>1, <3>2, KeptFlags DEF ShutDownTest
  <2> QED
    BY <2>4, <2>5
<1>10. CASE DestroySocket(t)
  BY <1>10, KeptFlags DEF DestroySocket
<1>11. CASE ShutDownSocket(t)
  BY <1>11, KeptFlags DEF ShutDownSocket
<1>12. CASE ClearOpen(t)
  <2>1. /\ at'[t] = "clearConnected" /\ b_isSocketOpen' = FALSE
        /\ \A u \in Threads : u # t => at'[u] = at[u]
    BY <1>0, <1>12 DEF ClearOpen
  <2>2. \A u \in Threads : at'[u] \in Connecting => overlapped'
    BY <1>12, <2>1 DEF ClearOpen
  <2>3. \A u \in Threads : at'[u] \notin {"dropHandle", "newHandle"}
    BY <1>12, <2>1, OneHolder
       DEF ClearOpen, HoldsShutdown, Shutting, Renewing
  <2> QED
    BY <2>1, <2>2, <2>3 DEF FlagsInv, ConnectedMeansOpen
<1>13. CASE ClearConnected(t)
  <2>1. /\ ~isConnected' /\ b_isSocketOpen' = b_isSocketOpen
        /\ overlapped' = overlapped /\ at'[t] \notin Connecting
        /\ \A u \in Threads : u # t => at'[u] = at[u]
    BY <1>0, <1>13 DEF ClearConnected, AfterShutDown
  <2> QED
    BY <2>1 DEF FlagsInv, ConnectedMeansOpen
<1>14. CASE DropTest(t)
  BY <1>14, HandleSet, KeptFlags DEF DropTest
<1>15. CASE DropHandle(t) \/ NewHandle(t)
  <2>1. ~isConnected \/ overlapped
    BY <1>15 DEF DropHandle, NewHandle, FlagsInv
  <2>2. /\ isConnected' = isConnected /\ b_isSocketOpen' = b_isSocketOpen
        /\ overlapped' = overlapped /\ at'[t] \notin Connecting
        /\ \A u \in Threads : u # t => at'[u] = at[u]
    BY <1>0, <1>15 DEF DropHandle, NewHandle
  <2> QED
    BY <2>1, <2>2 DEF FlagsInv, ConnectedMeansOpen
<1> QED
  BY <1>1, <1>2, <1>3, <1>4, <1>5, <1>6, <1>7, <1>8, <1>9, <1>10, <1>11,
     <1>12, <1>13, <1>14, <1>15 DEF Step

\* A handler that says it is connected has an open socket, the one it was
\* connected through, unless a close ended while a connect was under way.
THEOREM ConnectedAlways == Spec => []ConnectedMeansOpen
<1>1. Init => FlagsInv
  BY DEF Init, FlagsInv, ConnectedMeansOpen, Connecting
<1>2. LockInv /\ FlagsInv /\ [Next]_vars => FlagsInv'
  <2> SUFFICES ASSUME LockInv, FlagsInv, [Next]_vars
               PROVE  FlagsInv'
    OBVIOUS
  <2>1. ASSUME NEW t \in Threads, NEW o \in Ops, Begin(t, o)
        PROVE  FlagsInv'
    BY <2>1, KeptFlags DEF Begin, GoTo, Connecting, handleVars, flags, history
  <2>2. ASSUME NEW t \in Threads, Step(t)
        PROVE  FlagsInv'
    BY <2>2, StepFlags
  <2>3. CASE \/ \E s \in 1 .. sockets : SenderQuits(s)
             \/ StopIncomingListener
             \/ UNCHANGED vars
    <3>1. /\ UNCHANGED <<socketHandle, connectedTo, b_isSocketOpen, overlapped,
                         at>>
          /\ isConnected' => isConnected
      BY <2>3 DEF SenderQuits, StopIncomingListener, vars, handleVars, flags,
                  history
    <3> QED
      BY <3>1 DEF FlagsInv, ConnectedMeansOpen
  <2> QED
    BY <2>1, <2>2, <2>3 DEF Next
<1>3. FlagsInv => ConnectedMeansOpen
  BY DEF FlagsInv
<1> QED
  BY <1>1, <1>2, <1>3, TypeCorrect, PTL DEF Spec
=============================================================================
