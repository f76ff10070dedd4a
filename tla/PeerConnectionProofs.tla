------------------------ MODULE PeerConnectionProofs ------------------------
(***************************************************************************)
(* Proofs about CPeerConnection.  Its send side, DataChannel: for any      *)
(* number of threads and calls and all values of threshold, retries and    *)
(* message length.  Its receive side, ReceiveQueue: for any set of         *)
(* readers, the types, the lock and the order of delivery; for a sole      *)
(* reader, that it is woken for every message and finds one when it is in  *)
(* the critical section.  The two share no variable.                       *)
(***************************************************************************)
EXTENDS DataChannel, ReceiveQueue, FiniteSetTheorems, SequenceTheorems, TLAPS

USE DEF vars, connectVars, closeVars, callVars

-----------------------------------------------------------------------------
(* Type correctness                                                        *)

\* A thread waits only while it has retries left, so that the comparison for
\* equality ends the loop.
RetriesLeft ==
    \A t \in Threads : pc[t] = "sleep" => retryCount[t] # RetryCount

\* connect is called once.
ConnectOnce == connecting \in {"no", "waiting"} => ~connectResult

TypeInv == TypeOK /\ RetriesLeft /\ ConnectOnce

\* What the observer adds to the reports of a call.
LEMMA ObserverTold ==
    ASSUME TypeInv, OnBufferedAmountChange
    PROVE  /\ told' \in [Threads -> SUBSET {"loop", "observer"}]
           /\ \A t \in Threads :
                  /\ told[t] \subseteq told'[t]
                  /\ told'[t] \subseteq told[t] \cup {"observer"}
                  /\ pc[t] = "idle" => told'[t] = told[t]
BY DEF TypeInv, TypeOK, OnBufferedAmountChange

\* The steps of a sending thread keep the types.
LEMMA SendingTypes ==
    ASSUME TypeInv, NEW t \in Threads, Begin(t) \/ Sending(t)
    PROVE  TypeInv'
<1> USE ChannelAssumption
    DEF ChannelAssumption, TypeInv, TypeOK, RetriesLeft, ConnectOnce, Labels
<1>1. CASE Begin(t)
  BY <1>1 DEF Begin
<1>2. CASE Enter(t)
  <2>1. (isRunning /\ channel = "open") \in BOOLEAN
    OBVIOUS
  <2>2. up' \in [Threads -> BOOLEAN] /\ late' \in [Threads -> BOOLEAN]
    BY <1>2, <2>1 DEF Enter
  <2>3. pc' \in [Threads -> Labels] /\ RetriesLeft'
    BY <1>2 DEF Enter, Goto
  <2> QED BY <1>2, <2>2, <2>3 DEF Enter
<1>3. CASE TestRunning(t)
  BY <1>3 DEF TestRunning, Goto, Return
<1>4. CASE TestOpen(t)
  BY <1>4 DEF TestOpen, Goto, Return
<1>5. CASE Overflow(t)
  BY <1>5 DEF Overflow, Goto, Return
<1>6. CASE TestRoom(t)
  BY <1>6 DEF TestRoom, Goto
<1>7. CASE Wait(t)
  BY <1>7 DEF Wait, Goto
<1>8. CASE Send(t)
  <2>1. len[t] \in Nat /\ Nobody \in [Threads -> BOOLEAN]
    BY DEF Nobody
  <2>2. /\ channel' \in {"null", "connecting", "open", "closing", "closed"}
        /\ channel' # "null" => channel # "null"
    BY <1>8 DEF Send
  <2>3. buffered' \in Nat /\ up' \in [Threads -> BOOLEAN]
    BY <1>8, <2>1 DEF Send
  <2>4. /\ pc' \in [Threads -> Labels]
        /\ result' \in [Threads -> {"none", "sent", "dropped"}]
        /\ RetriesLeft'
    BY <1>8 DEF Send, Goto, Return
  <2>5. told' \in [Threads -> SUBSET {"loop", "observer"}]
    BY <1>8, ObserverTold DEF Send
  <2> QED BY <1>8, <2>2, <2>3, <2>4, <2>5 DEF Send
<1> QED BY <1>1, <1>2, <1>3, <1>4, <1>5, <1>6, <1>7, <1>8 DEF Sending

\* The steps of connect, close and WebRTC keep the types.
LEMMA OtherTypes ==
    ASSUME TypeInv, Connecting \/ Factory \/ Channel \/ Closing
    PROVE  TypeInv'
<1> USE DEF TypeInv, TypeOK, RetriesLeft, ConnectOnce, Labels
<1>1. Nobody \in [Threads -> BOOLEAN]
  BY DEF Nobody
<1>2. CASE Connect
  BY <1>2 DEF Connect
<1>3. CASE CreatePeerConnection
  <2>1. UNCHANGED <<factory, hConEvent, closeVars, isRunning, channel, buffered,
                    up, callVars>>
    BY <1>3 DEF CreatePeerConnection
  <2>2. connecting = "waiting" /\ connecting' = "waited"
    BY <1>3 DEF CreatePeerConnection
  <2>3. CASE connectResult' = TRUE /\ factory = "made"
    BY <2>1, <2>2, <2>3
  <2>4. CASE UNCHANGED connectResult
    BY <2>1, <2>2, <2>4
  <2> QED BY <1>3, <2>3, <2>4 DEF CreatePeerConnection
<1>4. CASE ConnectReturn
  BY <1>1, <1>4 DEF ConnectReturn
<1>5. CASE CreateFactory
  <2>1. ~connectResult
    BY <1>5 DEF CreateFactory
  <2> QED BY <1>5, <2>1 DEF CreateFactory
<1>9. CASE SignalFactory
  BY <1>9 DEF SignalFactory
<1>6. CASE OnDataChannel \/ OnStateChange
  BY <1>1, <1>6 DEF OnDataChannel, OnStateChange
<1>7. CASE Drain
  <2>1. buffered' \in Nat
    BY <1>7 DEF Drain
  <2>2. UNCHANGED <<connectVars, closeVars, isRunning, channel, up, pc, len,
                    retryCount, late, result, calls>>
    BY <1>7 DEF Drain
  <2>3. told' \in [Threads -> SUBSET {"loop", "observer"}]
    BY <1>7, ObserverTold DEF Drain
  <2> QED BY <2>1, <2>2, <2>3
<1>8. CASE Close
  BY <1>1, <1>8 DEF Close
<1>10. CASE Forget
  BY <1>10 DEF Forget
<1> QED BY <1>2, <1>3, <1>4, <1>5, <1>6, <1>7, <1>8, <1>9, <1>10
        DEF Connecting, Channel, Factory, Closing

\* The initial state is in TypeInv.
LEMMA InitTypes == Init => TypeInv
<1>1. /\ 1 \in 1 .. MaxLen
      /\ 0 \in 0 .. RetryCount
      /\ 0 \in 0 .. MaxCalls
      /\ 0 \in Nat
  BY ChannelAssumption DEF ChannelAssumption
<1>2. Init => /\ pc \in [Threads -> Labels]
              /\ len \in [Threads -> 1 .. MaxLen]
              /\ retryCount \in [Threads -> 0 .. RetryCount]
              /\ calls \in 0 .. MaxCalls
              /\ buffered \in Nat
  BY <1>1 DEF Init, Labels
<1>3. Init => /\ up \in [Threads -> BOOLEAN]
              /\ late \in [Threads -> BOOLEAN]
              /\ told \in [Threads -> SUBSET {"loop", "observer"}]
              /\ result \in [Threads -> {"none", "sent", "dropped"}]
  BY DEF Init
<1>4. Init => RetriesLeft /\ ConnectOnce
  BY DEF Init, RetriesLeft, ConnectOnce
<1> QED BY <1>2, <1>3, <1>4 DEF Init, TypeInv, TypeOK

\* Every step keeps TypeInv.
LEMMA StepTypes == TypeInv /\ [Next]_vars => TypeInv'
<1> SUFFICES ASSUME TypeInv, [Next]_vars PROVE TypeInv'
  OBVIOUS
<1>1. CASE UNCHANGED vars
  BY <1>1 DEF TypeInv, TypeOK, RetriesLeft, ConnectOnce
<1>2. CASE Next
  BY <1>2, SendingTypes, OtherTypes DEF Next
<1> QED BY <1>1, <1>2

\* The fields hold values of their types, and the flag is set only after a
\* connect that found its factory (CPeerConnection::connect).
THEOREM TypeCorrect == Spec => []TypeOK
<1>1. Spec => []TypeInv
  BY InitTypes, StepTypes, PTL DEF Spec
<1>2. TypeInv => TypeOK
  BY DEF TypeInv
<1> QED BY <1>1, <1>2, PTL

-----------------------------------------------------------------------------
(* The buffer                                                              *)

\* The threads that have found room and not sent yet.
Committed == {t \in Threads : pc[t] = "send"}

\* What k messages may take.
Space(k) == k * MaxLen

Limit == Threshold + Space(Cardinality(Threads) - 1)

\* Of the committed threads there is one, the last that has tested, for which
\* there is room although all others of them send what they may.
LastHasRoom ==
    Committed # {} =>
        \E t \in Committed :
            buffered + len[t] + Space(Cardinality(Committed \ {t})) <= Limit

BufferInv == TypeInv /\ BufferBounded /\ LastHasRoom

\* One message more takes MaxLen more.
LEMMA SpaceGrows ==
    /\ \A k \in Nat : Space(k) \in Nat /\ Space(k + 1) = Space(k) + MaxLen
    /\ \A j, k \in Nat : j <= k => Space(j) <= Space(k)
<1> USE ChannelAssumption DEF ChannelAssumption, Space
<1>1. \A k \in Nat : k * MaxLen \in Nat /\ (k + 1) * MaxLen = k * MaxLen + MaxLen
  OBVIOUS
<1>2. ASSUME NEW j \in Nat, NEW k \in Nat, j <= k
      PROVE  j * MaxLen <= k * MaxLen
  <2>1. PICK d \in Nat : k = j + d
    <3>1. k - j \in Nat /\ k = j + (k - j)
      BY <1>2
    <3> QED BY <3>1
  <2>2. k * MaxLen = j * MaxLen + d * MaxLen /\ d * MaxLen \in Nat
    BY <2>1
  <2> QED BY <2>2
<1> QED BY <1>1, <1>2

\* Sets of threads are finite, and smaller without a member.
LEMMA ThreadSets ==
    ASSUME NEW S \in SUBSET Threads
    PROVE  /\ IsFiniteSet(S) /\ Cardinality(S) \in Nat
           /\ \A t \in S : /\ Cardinality(S \ {t}) \in Nat
                           /\ Cardinality(S) = Cardinality(S \ {t}) + 1
           /\ \A t \in Threads \ S :
                  Cardinality(S) <= Cardinality(Threads) - 1
<1>1. IsFiniteSet(Threads)
  BY ChannelAssumption DEF ChannelAssumption
<1>2. IsFiniteSet(S) /\ Cardinality(S) \in Nat
  BY <1>1, FS_Subset, FS_CardinalityType
<1>3. \A t \in S : /\ Cardinality(S \ {t}) \in Nat
                   /\ Cardinality(S) = Cardinality(S \ {t}) + 1
  BY <1>2, FS_RemoveElement, FS_Subset, FS_CardinalityType
<1>4. ASSUME NEW t \in Threads \ S
      PROVE  Cardinality(S) <= Cardinality(Threads) - 1
  <2>1. S \in SUBSET (Threads \ {t}) /\ IsFiniteSet(Threads \ {t})
    BY <1>1, FS_RemoveElement
  <2>2. Cardinality(S) <= Cardinality(Threads \ {t})
    BY <2>1, FS_Subset
  <2>3. Cardinality(Threads \ {t}) = Cardinality(Threads) - 1
    BY <1>1, FS_RemoveElement
  <2> QED BY <2>2, <2>3
<1> QED BY <1>2, <1>3, <1>4

\* What the arithmetic below is about.
LEMMA Numbers ==
    /\ MaxLen \in Nat
    /\ Cardinality(Threads) - 1 \in Nat
    /\ Limit \in Nat
    /\ Committed \in SUBSET Threads
    /\ TypeInv => /\ buffered \in Nat
                  /\ \A t \in Threads : len[t] \in Nat /\ len[t] <= MaxLen
<1>1. MaxLen \in Nat /\ Threshold \in Nat
  BY ChannelAssumption DEF ChannelAssumption
<1>2. Cardinality(Threads) - 1 \in Nat
  BY ThreadSets, FS_EmptySet, ChannelAssumption DEF ChannelAssumption
<1>3. Limit \in Nat
  <2>1. Space(Cardinality(Threads) - 1) \in Nat
    BY <1>2, SpaceGrows
  <2> QED BY <1>1, <2>1 DEF Limit
<1>4. Committed \in SUBSET Threads
  BY DEF Committed
<1>5. ASSUME TypeInv
      PROVE  /\ buffered \in Nat
             /\ \A t \in Threads : len[t] \in Nat /\ len[t] <= MaxLen
  <2>1. buffered \in Nat /\ len \in [Threads -> 1 .. MaxLen]
    BY <1>5 DEF TypeInv, TypeOK
  <2> QED BY <1>1, <2>1
<1> QED BY <1>1, <1>2, <1>3, <1>4, <1>5

\* A thread that leaves the committed ones, with its message or without, keeps
\* the bound.
LEMMA LeaveBuffer ==
    ASSUME BufferInv, TypeInv', UNCHANGED len, NEW t \in Committed,
           Committed' = Committed \ {t}, buffered' <= buffered + len[t]
    PROVE  BufferInv'
<1> DEFINE C == Committed
           D == Committed \ {t}
<1>0. /\ buffered \in Nat /\ buffered' \in Nat /\ MaxLen \in Nat
      /\ \A s \in Threads : len[s] \in Nat /\ len[s] <= MaxLen
      /\ C \in SUBSET Threads /\ D \in SUBSET Threads /\ t \in Threads
      /\ Limit \in Nat
  <2>1. buffered' \in Nat
    BY DEF TypeInv, TypeOK
  <2> QED BY <2>1, Numbers DEF BufferInv
<1>1. PICK i \in C : buffered + len[i] + Space(Cardinality(C \ {i})) <= Limit
  BY DEF BufferInv, LastHasRoom
<1>2. /\ Cardinality(C \ {i}) \in Nat /\ Space(Cardinality(C \ {i})) \in Nat
      /\ Cardinality(D) \in Nat /\ Space(Cardinality(D)) \in Nat
  BY <1>0, ThreadSets, SpaceGrows
<1>3. \A k \in D : /\ Cardinality(D \ {k}) \in Nat
                   /\ Space(Cardinality(D \ {k})) \in Nat
                   /\ Space(Cardinality(D)) = Space(Cardinality(D \ {k})) + MaxLen
  BY <1>0, ThreadSets, SpaceGrows
<1>4. CASE i = t
  <2>1. buffered' + Space(Cardinality(D)) <= Limit
    BY <1>0, <1>1, <1>2, <1>4
  <2>2. buffered' <= Limit
    BY <1>0, <1>2, <2>1
  <2>3. \A k \in D : buffered' + len[k] + Space(Cardinality(D \ {k})) <= Limit
    BY <1>0, <1>3, <2>1
  <2> QED BY <2>2, <2>3
          DEF BufferInv, BufferBounded, LastHasRoom, Limit, Space
<1>5. CASE i # t
  <2>1. i \in D /\ t \in C \ {i} /\ (C \ {i}) \ {t} = D \ {i}
    BY <1>1, <1>5
  <2>2. Space(Cardinality(C \ {i})) = Space(Cardinality(D \ {i})) + MaxLen
    <3>1. /\ Cardinality(D \ {i}) \in Nat
          /\ Cardinality(C \ {i}) = Cardinality(D \ {i}) + 1
      <4>1. C \ {i} \in SUBSET Threads
        BY <1>0
      <4>2. /\ Cardinality((C \ {i}) \ {t}) \in Nat
            /\ Cardinality(C \ {i}) = Cardinality((C \ {i}) \ {t}) + 1
        BY <2>1, <4>1, ThreadSets
      <4> QED BY <2>1, <4>2
    <3> QED BY <3>1, SpaceGrows
  <2>3. buffered' + len[i] + Space(Cardinality(D \ {i})) <= Limit
    BY <1>0, <1>1, <1>3, <2>1, <2>2
  <2>4. buffered' <= Limit
    BY <1>0, <1>3, <2>1, <2>3
  <2> QED BY <2>1, <2>3, <2>4
          DEF BufferInv, BufferBounded, LastHasRoom, Limit, Space
<1> QED BY <1>4, <1>5

\* So does a step that commits nobody and adds nothing.
LEMMA KeepBuffer ==
    ASSUME BufferInv, TypeInv', Committed' = Committed, buffered' <= buffered,
           \A t \in Committed : len'[t] = len[t]
    PROVE  BufferInv'
<1>0. /\ buffered \in Nat /\ buffered' \in Nat
      /\ \A s \in Threads : len[s] \in Nat
      /\ Committed \in SUBSET Threads
      /\ Limit \in Nat
  <2>1. buffered' \in Nat
    BY DEF TypeInv, TypeOK
  <2> QED BY <2>1, Numbers DEF BufferInv
<1>1. buffered <= Limit
  BY DEF BufferInv, BufferBounded, Limit, Space
<1>2. buffered' <= Limit
  BY <1>0, <1>1
<1>3. ASSUME Committed # {}
      PROVE  \E t \in Committed :
                buffered' + len'[t] + Space(Cardinality(Committed \ {t})) <= Limit
  <2>1. PICK i \in Committed :
            buffered + len[i] + Space(Cardinality(Committed \ {i})) <= Limit
    BY <1>3 DEF BufferInv, LastHasRoom
  <2>2. Space(Cardinality(Committed \ {i})) \in Nat
    BY <1>0, ThreadSets, SpaceGrows
  <2>3. buffered' + len'[i] + Space(Cardinality(Committed \ {i})) <= Limit
    <3>1. len'[i] = len[i] /\ len[i] \in Nat
      BY <1>0
    <3> QED BY <1>0, <2>1, <2>2, <3>1
  <2> QED BY <2>3
<1> QED BY <1>2, <1>3 DEF BufferInv, BufferBounded, LastHasRoom, Limit, Space

\* A thread that finds room commits itself beside the others.
LEMMA JoinBuffer ==
    ASSUME BufferInv, TypeInv', UNCHANGED <<len, buffered>>,
           NEW t \in Threads, t \notin Committed, Fits(t),
           Committed' = Committed \cup {t}
    PROVE  BufferInv'
<1>0. /\ buffered \in Nat /\ len[t] \in Nat
      /\ Committed \in SUBSET Threads
      /\ Cardinality(Threads) - 1 \in Nat
      /\ Threshold \in Nat
  BY Numbers, ChannelAssumption DEF ChannelAssumption, BufferInv
<1>1. buffered + len[t] <= Threshold
  BY DEF Fits
<1>2. /\ Cardinality(Committed) \in Nat
      /\ Cardinality(Committed) <= Cardinality(Threads) - 1
  BY <1>0, ThreadSets
<1>3. /\ Space(Cardinality(Committed)) \in Nat
      /\ Space(Cardinality(Threads) - 1) \in Nat
      /\ Space(Cardinality(Committed)) <= Space(Cardinality(Threads) - 1)
  BY <1>0, <1>2, SpaceGrows
<1>4. buffered + len[t] + Space(Cardinality(Committed)) <= Limit
  BY <1>0, <1>1, <1>3 DEF Limit
<1>5. Committed' \ {t} = Committed
  OBVIOUS
<1>6. LastHasRoom'
  BY <1>4, <1>5 DEF LastHasRoom, Limit, Space
<1> QED BY <1>6 DEF BufferInv, BufferBounded

\* Every step keeps the bound.
LEMMA StepBuffer == BufferInv /\ [Next]_vars => BufferInv'
<1> SUFFICES ASSUME BufferInv, [Next]_vars PROVE BufferInv'
  OBVIOUS
<1>1. TypeInv /\ TypeInv' /\ buffered \in Nat
  BY StepTypes DEF BufferInv, TypeInv, TypeOK
<1>2. CASE UNCHANGED <<pc, len, buffered>>
  BY <1>1, <1>2, KeepBuffer DEF Committed
<1>3. CASE Drain
  <2>1. buffered' <= buffered /\ UNCHANGED <<pc, len>>
    BY <1>1, <1>3 DEF Drain
  <2> QED BY <1>1, <2>1, KeepBuffer DEF Committed
<1>4. ASSUME NEW t \in Threads, pc[t] # "send", pc'[t] # "send",
             \A s \in Threads : s # t => pc'[s] = pc[s] /\ len'[s] = len[s],
             UNCHANGED buffered
      PROVE  BufferInv'
  <2>1. Committed' = Committed
    BY <1>4 DEF Committed
  <2> QED BY <1>1, <1>4, <2>1, KeepBuffer DEF Committed
<1>5. ASSUME NEW t \in Threads, Begin(t)
      PROVE  BufferInv'
  BY <1>1, <1>4, <1>5 DEF Begin, TypeInv, TypeOK
<1>6. ASSUME NEW t \in Threads,
             \/ Enter(t) \/ TestRunning(t) \/ TestOpen(t)
             \/ Overflow(t) \/ Wait(t)
      PROVE  BufferInv'
  <2>1. /\ pc[t] # "send"
        /\ UNCHANGED <<len, buffered>>
        /\ \E l \in Labels \ {"send"} : pc' = [pc EXCEPT ![t] = l]
    BY <1>6 DEF Enter, TestRunning, TestOpen, Overflow, Wait, Goto, Return,
                Labels
  <2> QED BY <1>1, <1>4, <2>1 DEF TypeInv, TypeOK
<1>7. ASSUME NEW t \in Threads, TestRoom(t)
      PROVE  BufferInv'
  <2>1. CASE Fits(t)
    <3>1. /\ pc[t] = "body" /\ UNCHANGED <<len, buffered>>
          /\ pc' = [pc EXCEPT ![t] = "send"]
      BY <1>7, <2>1 DEF TestRoom, Goto
    <3>2. t \notin Committed /\ Committed' = Committed \cup {t}
      BY <1>1, <3>1 DEF Committed, TypeInv, TypeOK
    <3> QED BY <1>1, <2>1, <3>1, <3>2, JoinBuffer
  <2>2. CASE ~Fits(t)
    <3>1. /\ pc[t] = "body" /\ UNCHANGED <<len, buffered>>
          /\ pc' = [pc EXCEPT ![t] = "sleep"]
      BY <1>7, <2>2 DEF TestRoom, Goto
    <3> QED BY <1>1, <1>4, <3>1 DEF TypeInv, TypeOK
  <2> QED BY <2>1, <2>2
<1>8. ASSUME NEW t \in Threads, Send(t)
      PROVE  BufferInv'
  <2>1. /\ pc[t] = "send" /\ UNCHANGED len
        /\ \E l \in {"idle", "loop"} : pc' = [pc EXCEPT ![t] = l]
    BY <1>8 DEF Send, Goto, Return
  <2>2. t \in Committed /\ Committed' = Committed \ {t}
    BY <1>1, <2>1 DEF Committed, TypeInv, TypeOK
  <2>3. len[t] \in Nat
    BY <1>1, ChannelAssumption DEF ChannelAssumption, TypeInv, TypeOK
  <2>4. buffered' <= buffered + len[t]
    BY <1>1, <1>8, <2>3 DEF Send
  <2> QED BY <1>1, <2>1, <2>2, <2>4, LeaveBuffer
<1> QED BY <1>2, <1>3, <1>5, <1>6, <1>7, <1>8
        DEF Next, Sending, Connecting, Connect, CreatePeerConnection,
            ConnectReturn, Factory, CreateFactory, SignalFactory, Channel,
            OnDataChannel, OnStateChange, Closing, Close, Forget

\* The buffer of the channel outgrows the threshold by no more than a message
\* of each thread but one, however the tests and the calls of Send fall
\* (sendString and sendBytes without a lock).
THEOREM BufferAlwaysBounded == Spec => []BufferBounded
<1>1. Init => BufferInv
  <2>1. Cardinality(Threads) - 1 \in Nat
    BY Numbers
  <2>2. Init => Committed = {} /\ buffered = 0
    BY DEF Init, Committed
  <2>3. 0 <= Threshold + Space(Cardinality(Threads) - 1)
    BY <2>1, SpaceGrows, ChannelAssumption DEF ChannelAssumption
  <2> QED BY <2>2, <2>3, InitTypes
          DEF BufferInv, BufferBounded, LastHasRoom, Space
<1>2. Spec => []BufferInv
  BY <1>1, StepBuffer, PTL DEF Spec
<1>3. BufferInv => BufferBounded
  BY DEF BufferInv
<1> QED BY <1>2, <1>3, PTL

-----------------------------------------------------------------------------
(* After close                                                             *)

\* The flag stays reset after close, so that a call that begins then does not
\* come past the test on entry.
ClosedInv ==
    /\ closed /\ ~overlapped => ~isRunning
    /\ \A t \in Threads :
           /\ late[t] => closed
           /\ late[t] /\ ~overlapped => pc[t] \in {"idle", "called", "enter"}

LateInv == TypeInv /\ ClosedInv

\* The steps of a sending thread keep it.
LEMMA SendingLate ==
    ASSUME LateInv, NEW t \in Threads, Begin(t) \/ Sending(t)
    PROVE  ClosedInv'
<1> USE DEF LateInv, ClosedInv, TypeInv, TypeOK
<1>1. CASE Begin(t)
  BY <1>1 DEF Begin
<1>2. CASE Enter(t)
  BY <1>2 DEF Enter, Goto
<1>3. CASE TestRunning(t)
  BY <1>3 DEF TestRunning, Goto, Return
<1>4. CASE TestOpen(t)
  BY <1>4 DEF TestOpen, Goto, Return
<1>5. CASE Overflow(t)
  BY <1>5 DEF Overflow, Goto, Return
<1>6. CASE TestRoom(t)
  BY <1>6 DEF TestRoom, Goto
<1>7. CASE Wait(t)
  BY <1>7 DEF Wait, Goto
<1>8. CASE Send(t)
  BY <1>8 DEF Send, Goto, Return
<1> QED BY <1>1, <1>2, <1>3, <1>4, <1>5, <1>6, <1>7, <1>8 DEF Sending

\* Every step keeps it.
LEMMA StepLate == LateInv /\ [Next]_vars => LateInv'
<1> SUFFICES ASSUME LateInv, [Next]_vars PROVE ClosedInv'
  BY StepTypes DEF LateInv
<1>1. ASSUME NEW t \in Threads, Begin(t) \/ Sending(t)
      PROVE  ClosedInv'
  BY <1>1, SendingLate
<1>2. CASE ConnectReturn
  BY <1>2 DEF ConnectReturn, LateInv, ClosedInv, TypeInv, TypeOK
<1>3. CASE Close
  BY <1>3 DEF Close, LateInv, ClosedInv
<1>4. CASE UNCHANGED <<closed, overlapped, isRunning, late, pc>>
  BY <1>4 DEF LateInv, ClosedInv
<1> QED BY <1>1, <1>2, <1>3, <1>4
        DEF Next, Connecting, Connect, CreatePeerConnection, Factory,
            CreateFactory, SignalFactory, Channel, OnDataChannel,
            OnStateChange, Drain, Closing, Forget

\* A call of sendString or sendBytes that begins after CPeerConnection::close
\* does not come to Send, unless a connect that was still under way then has
\* set the flag again.
THEOREM NothingAfterClose == Spec => []NothingSentAfterClose
<1>1. Init => LateInv
  BY InitTypes DEF Init, LateInv, ClosedInv
<1>2. Spec => []LateInv
  BY <1>1, StepLate, PTL DEF Spec
<1>3. LateInv => NothingSentAfterClose
  BY DEF LateInv, ClosedInv, NothingSentAfterClose
<1> QED BY <1>2, <1>3, PTL

-----------------------------------------------------------------------------
(* Messages that are not sent                                              *)

\* A call has no result while it goes on; flag and channel are up for whom they
\* have been up.
CallInv ==
    \A t \in Threads :
        /\ pc[t] # "idle" => result[t] = "none"
        /\ up[t] => isRunning /\ channel = "open"
        /\ "loop" \in told[t] => result[t] = "dropped"
        /\ result[t] = "dropped" /\ up[t] => "loop" \in told[t]

DropInv == TypeInv /\ CallInv

\* The steps of a sending thread keep it.
LEMMA SendingDrops ==
    ASSUME DropInv, NEW t \in Threads, Begin(t) \/ Sending(t)
    PROVE  CallInv'
<1> USE DEF DropInv, CallInv, TypeInv, TypeOK
<1>1. CASE Begin(t)
  BY <1>1 DEF Begin
<1>2. CASE Enter(t)
  <2>1. /\ UNCHANGED <<isRunning, channel, told, result>>
        /\ pc[t] # "idle" /\ result[t] = "none"
        /\ \A s \in Threads : s # t => pc'[s] = pc[s] /\ up'[s] = up[s]
    BY <1>2 DEF Enter, Goto
  <2>2. up'[t] => isRunning /\ channel = "open"
    BY <1>2 DEF Enter
  <2> QED BY <2>1, <2>2
<1>3. CASE TestRunning(t)
  BY <1>3 DEF TestRunning, Goto, Return
<1>4. CASE TestOpen(t)
  BY <1>4 DEF TestOpen, Goto, Return
<1>5. CASE Overflow(t)
  BY <1>5 DEF Overflow, Goto, Return
<1>6. CASE TestRoom(t)
  BY <1>6 DEF TestRoom, Goto
<1>7. CASE Wait(t)
  BY <1>7 DEF Wait, Goto
<1>8. CASE Send(t)
  <2>1. \A s \in Threads : "loop" \in told'[s] <=> "loop" \in told[s]
    BY <1>8, ObserverTold DEF Send
  <2> QED BY <1>8, <2>1 DEF Send, Goto, Return, Nobody
<1> QED BY <1>1, <1>2, <1>3, <1>4, <1>5, <1>6, <1>7, <1>8 DEF Sending

\* Every step keeps it.
LEMMA StepDrops == DropInv /\ [Next]_vars => DropInv'
<1> SUFFICES ASSUME DropInv, [Next]_vars PROVE CallInv'
  BY StepTypes DEF DropInv
<1>1. ASSUME NEW t \in Threads, Begin(t) \/ Sending(t)
      PROVE  CallInv'
  BY <1>1, SendingDrops
<1>2. CASE ConnectReturn
  BY <1>2 DEF ConnectReturn, DropInv, CallInv, Nobody
<1>3. CASE Close
  BY <1>3 DEF Close, DropInv, CallInv, Nobody
<1>4. CASE OnDataChannel
  BY <1>4 DEF OnDataChannel, DropInv, CallInv
<1>5. CASE OnStateChange
  BY <1>5 DEF OnStateChange, DropInv, CallInv, Nobody
<1>6. CASE Drain
  <2>1. UNCHANGED <<isRunning, channel, pc, up, result>>
    BY <1>6 DEF Drain
  <2>2. \A s \in Threads : "loop" \in told'[s] <=> "loop" \in told[s]
    BY <1>6, ObserverTold DEF Drain, DropInv
  <2> QED BY <2>1, <2>2 DEF DropInv, CallInv
<1>7. CASE UNCHANGED <<isRunning, channel, pc, up, told, result>>
  BY <1>7 DEF DropInv, CallInv
<1> QED BY <1>1, <1>2, <1>3, <1>4, <1>5, <1>6, <1>7
        DEF Next, Connecting, Connect, CreatePeerConnection, Factory,
            CreateFactory, SignalFactory, Channel, Closing, Forget

\* A message that a call of sendString or sendBytes has not sent, though flag and
\* channel were up all the time, was reported by this call to errorHandler; what
\* errorHandler hears while a message is sent comes from OnBufferedAmountChange.
THEOREM DropsAlwaysReported == Spec => []DropsReported
<1>1. Init => DropInv
  BY InitTypes DEF Init, DropInv, CallInv
<1>2. Spec => []DropInv
  BY <1>1, StepDrops, PTL DEF Spec
<1>3. DropInv => DropsReported
  BY DEF DropInv, CallInv, TypeInv, TypeOK, DropsReported
<1> QED BY <1>2, <1>3, PTL

-----------------------------------------------------------------------------
(* ReceiveQueue                                                            *)

USE DEF receiveVars, readerVars

\* What a reader has found under the lock is at the front of the queue.
FrontHeld ==
    \A r \in Readers :
        /\ at[r] = "pop" => stringData # <<>> /\ dataBuf[r] = Head(stringData)
        /\ dataBuf[r] # 0 => at[r] = "pop"

-----------------------------------------------------------------------------
(* Type correctness                                                        *)

\* The sequences of ReceiveTypeOK are over 1 .. arrived, which grows.
LEMMA SeqOfMore ==
    ASSUME NEW a \in Nat, NEW s \in Seq(1 .. a)
    PROVE  s \in Seq(1 .. a + 1)
<1>1. 1 .. a \subseteq 1 .. a + 1
  OBVIOUS
<1> QED BY <1>1, SeqMonotonic

\* A step of WebRTC's thread, which pushes at the end of the queue.
LEMMA OnMessageTypes ==
    ASSUME ReceiveTypeOK, FrontHeld, OnMessageStep
    PROVE  ReceiveTypeOK' /\ FrontHeld'
<1> USE ReceiveAssumption
    DEF ReceiveAssumption, ReceiveTypeOK, FrontHeld, Locked
<1>1. CASE OnMessagePush
  <2>1. /\ stringData \in Seq(1 .. arrived + 1)
        /\ received \in Seq(1 .. arrived + 1)
    BY SeqOfMore
  <2>2. \A r \in Readers : at[r] \notin Locked
    BY <1>1 DEF OnMessagePush
  <2>3. stringData' \in Seq(1 .. arrived') /\ received' \in Seq(1 .. arrived')
    BY <1>1, <2>1 DEF OnMessagePush
  <2> QED BY <1>1, <2>2, <2>3 DEF OnMessagePush
<1>2. CASE OnMessageSet
  BY <1>2 DEF OnMessageSet
<1>3. CASE OnMessageLeave
  BY <1>3 DEF OnMessageLeave
<1> QED BY <1>1, <1>2, <1>3 DEF OnMessageStep

\* A step of a reader.
LEMMA ReaderTypes ==
    ASSUME ReceiveTypeOK, FrontHeld, NEW r \in Readers, ReaderStep(r)
    PROVE  ReceiveTypeOK' /\ FrontHeld'
<1> USE ReceiveAssumption
    DEF ReceiveAssumption, ReceiveTypeOK, FrontHeld, GoTo, Points, Locked
<1>1. CASE Receive(r)
  BY <1>1 DEF Receive
<1>2. CASE TestSize(r)
  BY <1>2 DEF TestSize
<1>3. CASE WaitForEvent(r)
  BY <1>3 DEF WaitForEvent
<1>4. CASE EnterCriticalSection(r)
  BY <1>4 DEF EnterCriticalSection
<1>5. CASE Front(r)
  <2>1. Head(stringData) \in 1 .. arrived
    BY <1>5, HeadTailProperties DEF Front
  <2>2. \A s \in Readers : at[s] \in Locked => s = r
    BY <1>5 DEF Front
  <2>3. CASE MsgFits(Head(stringData), buffer[r])
    <3>1. /\ dataBuf' = [dataBuf EXCEPT ![r] = Head(stringData)]
          /\ at' = [at EXCEPT ![r] = "pop"]
      BY <1>5, <2>3 DEF Front
    <3> QED BY <1>5, <2>1, <2>2, <3>1 DEF Front
  <2>4. CASE ~MsgFits(Head(stringData), buffer[r])
    <3>1. dataBuf' = dataBuf /\ at' = [at EXCEPT ![r] = "leave"]
      BY <1>5, <2>4 DEF Front
    <3> QED BY <1>5, <2>1, <2>2, <3>1 DEF Front
  <2> QED BY <2>3, <2>4
<1>6. CASE FrontNone(r)
  BY <1>6 DEF FrontNone
<1>7. CASE FrontUndefined(r)
  BY <1>7 DEF FrontUndefined
<1>8. CASE Pop(r)
  <2>1. stringData # <<>> /\ dataBuf[r] = Head(stringData)
    BY <1>8 DEF Pop
  <2>2. Tail(stringData) \in Seq(1 .. arrived) /\ dataBuf[r] \in 1 .. arrived
    BY <2>1, HeadTailProperties
  <2>3. Append(received, dataBuf[r]) \in Seq(1 .. arrived)
    BY <2>2
  <2>4. \A s \in Readers : at[s] = "pop" => s = r
    BY <1>8 DEF Pop
  <2> QED BY <1>8, <2>2, <2>3, <2>4 DEF Pop
<1>9. CASE LeaveCriticalSection(r)
  BY <1>9 DEF LeaveCriticalSection
<1> QED BY <1>1, <1>2, <1>3, <1>4, <1>5, <1>6, <1>7, <1>8, <1>9 DEF ReaderStep

\* The queue starts empty, and nobody has a front of it.
LEMMA ReceiveInitTypes == ReceiveInit => ReceiveTypeOK /\ FrontHeld
<1> SUFFICES ASSUME ReceiveInit
             PROVE  ReceiveTypeOK /\ FrontHeld
  OBVIOUS
<1>1. stringData \in Seq(1 .. arrived) /\ received \in Seq(1 .. arrived)
  BY EmptySeq DEF ReceiveInit
<1>2. /\ arrived \in 0 .. MaxMsgs
      /\ dataBuf \in [Readers -> 0 .. arrived]
  BY ReceiveAssumption DEF ReceiveAssumption, ReceiveInit
<1>3. /\ m_SendQueueLock = WebRTC <=> onMessage # "idle"
      /\ \A r \in Readers : m_SendQueueLock = r <=> at[r] \in Locked
  BY ReceiveAssumption DEF ReceiveAssumption, ReceiveInit, Locked
<1>4. at \in [Readers -> Points]
  BY DEF ReceiveInit, Points
<1>5. FrontHeld
  BY DEF ReceiveInit, FrontHeld
<1> QED BY <1>1, <1>2, <1>3, <1>4, <1>5 DEF ReceiveInit, ReceiveTypeOK

\* The fields hold values of their types, and the lock is held by exactly the
\* thread in the critical section, for any number of readers.
THEOREM ReceiveTypesAlways == ReceiveSpec => [](ReceiveTypeOK /\ FrontHeld)
<1>1. ReceiveTypeOK /\ FrontHeld /\ [ReceiveNext]_receiveVars
         => (ReceiveTypeOK /\ FrontHeld)'
  <2> SUFFICES ASSUME ReceiveTypeOK, FrontHeld, [ReceiveNext]_receiveVars
               PROVE  (ReceiveTypeOK /\ FrontHeld)'
    OBVIOUS
  <2>1. CASE ReceiveNext
    BY <2>1, OnMessageTypes, ReaderTypes DEF ReceiveNext
  <2>2. CASE UNCHANGED receiveVars
    BY <2>2 DEF ReceiveTypeOK, FrontHeld
  <2> QED BY <2>1, <2>2
<1> QED BY ReceiveInitTypes, <1>1, PTL DEF ReceiveSpec

-----------------------------------------------------------------------------
(* Order of delivery                                                       *)

\* Popping moves the front of the queue to the end of what was received.
LEMMA PopKeepsAll ==
    ASSUME NEW S, NEW s \in Seq(S), NEW q \in Seq(S), q # <<>>
    PROVE  Append(s, Head(q)) \o Tail(q) = s \o q
<1>1. /\ Head(q) \in S
      /\ Head(q) = q[1]
      /\ Tail(q) \in Seq(S)
      /\ Len(q) \in Nat \ {0}
      /\ Len(Tail(q)) = Len(q) - 1
      /\ \A i \in 1 .. Len(Tail(q)) : Tail(q)[i] = q[i + 1]
  BY HeadTailProperties, EmptySeq
<1>2. /\ Append(s, Head(q)) \in Seq(S)
      /\ Len(Append(s, Head(q))) = Len(s) + 1
      /\ \A i \in 1 .. Len(s) : Append(s, Head(q))[i] = s[i]
      /\ Append(s, Head(q))[Len(s) + 1] = Head(q)
  BY <1>1
<1> DEFINE a == Append(s, Head(q))
           t == Tail(q)
<1>3. /\ a \o t \in Seq(S)
      /\ Len(a \o t) = Len(a) + Len(t)
      /\ \A i \in 1 .. Len(a) + Len(t) :
            (a \o t)[i] = IF i <= Len(a) THEN a[i] ELSE t[i - Len(a)]
  BY <1>1, <1>2, ConcatProperties
<1>4. /\ s \o q \in Seq(S)
      /\ Len(s \o q) = Len(s) + Len(q)
      /\ \A i \in 1 .. Len(s) + Len(q) :
            (s \o q)[i] = IF i <= Len(s) THEN s[i] ELSE q[i - Len(s)]
  BY ConcatProperties
<1>5. Len(s) \in Nat
  OBVIOUS
<1> HIDE DEF a, t
<1>6. Len(a \o t) = Len(s \o q)
  BY <1>1, <1>2, <1>3, <1>4, <1>5 DEF a, t
<1>7. \A i \in 1 .. Len(a \o t) : (a \o t)[i] = (s \o q)[i]
  <2> TAKE i \in 1 .. Len(a \o t)
  <2> i \in Nat /\ Len(s) \in Nat
    BY <1>1, <1>5
  <2>1. CASE i <= Len(s)
    BY <2>1, <1>1, <1>2, <1>3, <1>4, <1>5 DEF a, t
  <2>2. CASE i = Len(s) + 1
    BY <2>2, <1>1, <1>2, <1>3, <1>4, <1>5 DEF a, t
  <2>3. CASE i > Len(s) + 1
    <3>1. i - Len(a) \in 1 .. Len(t) /\ i \in 1 .. Len(a) + Len(t)
      BY <2>3, <1>1, <1>2, <1>3 DEF a, t
    <3>2. (a \o t)[i] = t[i - Len(a)] /\ t[i - Len(a)] = q[i - Len(a) + 1]
      BY <2>3, <3>1, <1>1, <1>2, <1>3 DEF a, t
    <3>3. (s \o q)[i] = q[i - Len(s)]
      BY <2>3, <3>1, <1>1, <1>2, <1>4 DEF a, t
    <3>4. i - Len(a) + 1 = i - Len(s)
      BY <1>2 DEF a
    <3> QED BY <3>2, <3>3, <3>4
  <2>4. i <= Len(s) \/ i = Len(s) + 1 \/ i > Len(s) + 1
    BY <1>5
  <2> QED BY <2>1, <2>2, <2>3, <2>4
<1> QED BY <1>3, <1>4, <1>6, <1>7, SeqEqual DEF a, t

\* An element appended to the second of two sequences is appended to both.
LEMMA AppendToConcat ==
    ASSUME NEW T, NEW s \in Seq(T), NEW q \in Seq(T), NEW e \in T
    PROVE  s \o Append(q, e) = Append(s \o q, e)
<1>1. /\ Append(q, e) \in Seq(T)
      /\ Len(Append(q, e)) = Len(q) + 1
      /\ \A i \in 1 .. Len(q) : Append(q, e)[i] = q[i]
      /\ Append(q, e)[Len(q) + 1] = e
  OBVIOUS
<1>2. /\ s \o q \in Seq(T)
      /\ Len(s \o q) = Len(s) + Len(q)
      /\ \A i \in 1 .. Len(s) + Len(q) :
            (s \o q)[i] = IF i <= Len(s) THEN s[i] ELSE q[i - Len(s)]
  BY ConcatProperties
<1> DEFINE x == Append(q, e)
           y == s \o q
           l == s \o x
           r == Append(y, e)
<1> HIDE DEF x
<1>3. /\ l \in Seq(T)
      /\ Len(l) = Len(s) + Len(x)
      /\ \A i \in 1 .. Len(s) + Len(x) :
            l[i] = IF i <= Len(s) THEN s[i] ELSE x[i - Len(s)]
  <2>1. x \in Seq(T)
    BY <1>1 DEF x
  <2> QED BY <2>1, ConcatProperties
<1> HIDE DEF y
<1>4. /\ r \in Seq(T)
      /\ Len(r) = Len(y) + 1
      /\ \A i \in 1 .. Len(y) : r[i] = y[i]
      /\ r[Len(y) + 1] = e
  <2>1. y \in Seq(T)
    BY <1>2 DEF y
  <2> QED BY <2>1
<1> HIDE DEF l, r
<1>5. /\ Len(x) = Len(q) + 1
      /\ Len(y) = Len(s) + Len(q)
      /\ Len(s) \in Nat /\ Len(q) \in Nat
      /\ \A i \in 1 .. Len(q) : x[i] = q[i]
      /\ x[Len(q) + 1] = e
      /\ \A i \in 1 .. Len(s) + Len(q) :
            y[i] = IF i <= Len(s) THEN s[i] ELSE q[i - Len(s)]
  BY <1>1, <1>2, LenProperties DEF x, y
<1>6. ASSUME NEW i \in 1 .. Len(l)
      PROVE  l[i] = r[i]
  <2>1. CASE i = Len(s) + Len(q) + 1
    BY <2>1, <1>3, <1>4, <1>5
  <2>2. CASE i \in 1 .. Len(s)
    <3>1. i \in 1 .. Len(s) + Len(q) /\ i \in 1 .. Len(s) + Len(x) /\ i <= Len(s)
      BY <2>2, <1>5
    <3>2. l[i] = s[i]
      BY <3>1, <1>3
    <3>3. r[i] = y[i] /\ y[i] = s[i]
      BY <3>1, <1>4, <1>5
    <3> QED BY <3>2, <3>3
  <2>3. CASE i - Len(s) \in 1 .. Len(q)
    <3>1. i \in 1 .. Len(s) + Len(q) /\ ~(i <= Len(s))
      BY <2>3, <1>3, <1>5
    <3>2. l[i] = x[i - Len(s)] /\ x[i - Len(s)] = q[i - Len(s)]
      BY <2>3, <3>1, <1>3, <1>5
    <3>3. r[i] = y[i] /\ y[i] = q[i - Len(s)]
      BY <2>3, <3>1, <1>4, <1>5
    <3> QED BY <3>2, <3>3
  <2>4. Len(l) = Len(s) + Len(q) + 1 /\ Len(s) \in Nat /\ Len(q) \in Nat
    BY <1>3, <1>5
  <2>5. \/ i = Len(s) + Len(q) + 1
        \/ i \in 1 .. Len(s)
        \/ i - Len(s) \in 1 .. Len(q)
    BY <2>4
  <2> QED BY <2>1, <2>2, <2>3, <2>5
<1>7. Len(l) = Len(r)
  BY <1>3, <1>4, <1>5
<1> QED BY <1>3, <1>4, <1>6, <1>7, SeqEqual DEF l, r, x, y

\* The messages 1 .. n in order, and the next one after them.
LEMMA NextArrival ==
    ASSUME NEW n \in Nat
    PROVE  Append([i \in 1 .. n |-> i], n + 1) = [i \in 1 .. n + 1 |-> i]
<1> DEFINE c == [i \in 1 .. n |-> i]
           d == [i \in 1 .. n + 1 |-> i]
<1>1. c \in Seq(1 .. n + 1) /\ Len(c) = n
  OBVIOUS
<1>2. d \in Seq(1 .. n + 1) /\ Len(d) = n + 1
  OBVIOUS
<1>3. /\ Append(c, n + 1) \in Seq(1 .. n + 1)
      /\ Len(Append(c, n + 1)) = n + 1
      /\ \A i \in 1 .. n : Append(c, n + 1)[i] = i
      /\ Append(c, n + 1)[n + 1] = n + 1
  BY <1>1
<1>4. \A i \in 1 .. n + 1 : Append(c, n + 1)[i] = d[i]
  BY <1>3
<1> QED BY <1>2, <1>3, <1>4, SeqEqual

\* Pushing adds a message at the end of all that arrived.
LEMMA PushKeepsAll ==
    ASSUME ReceiveTypeOK
    PROVE  received \o Append(stringData, arrived + 1)
           = Append(received \o stringData, arrived + 1)
<1>1. /\ received \in Seq(1 .. arrived + 1)
      /\ stringData \in Seq(1 .. arrived + 1)
      /\ arrived + 1 \in 1 .. arrived + 1
  BY SeqOfMore, ReceiveAssumption DEF ReceiveTypeOK, ReceiveAssumption
<1> QED BY <1>1, AppendToConcat

\* However many threads receive, messages are handed out once and in order
\* of arrival, and none is lost between OnMessage and a receive call.
THEOREM InOrderAlways == ReceiveSpec => []ReceivedInOrder
<1>1. ReceiveInit => ReceivedInOrder
  <2> SUFFICES ASSUME ReceiveInit
               PROVE  ReceivedInOrder
    OBVIOUS
  <2>1. received \o stringData = <<>>
    BY DEF ReceiveInit
  <2>2. [i \in 1 .. arrived |-> i] = <<>>
    BY DEF ReceiveInit
  <2> QED BY <2>1, <2>2 DEF ReceivedInOrder
<1>2. /\ ReceiveTypeOK /\ FrontHeld /\ ReceivedInOrder
      /\ [ReceiveNext]_receiveVars
      => ReceivedInOrder'
  <2> SUFFICES ASSUME ReceiveTypeOK, FrontHeld, ReceivedInOrder,
                      [ReceiveNext]_receiveVars
               PROVE  ReceivedInOrder'
    OBVIOUS
  <2> USE DEF ReceivedInOrder
  <2>1. CASE OnMessagePush
    <3>1. arrived \in Nat
      BY ReceiveAssumption DEF ReceiveAssumption, ReceiveTypeOK
    <3>2. /\ received' = received
          /\ arrived' = arrived + 1
          /\ stringData' = Append(stringData, arrived + 1)
      BY <2>1 DEF OnMessagePush
    <3>3. received' \o stringData' = Append(received \o stringData, arrived')
      BY <3>2, PushKeepsAll
    <3>4. Append([i \in 1 .. arrived |-> i], arrived + 1)
          = [i \in 1 .. arrived + 1 |-> i]
      BY <3>1, NextArrival
    <3> QED BY <3>2, <3>3, <3>4
  <2>2. ASSUME NEW r \in Readers, Pop(r)
        PROVE  ReceivedInOrder'
    <3>1. stringData # <<>> /\ dataBuf[r] = Head(stringData)
      BY <2>2 DEF Pop, FrontHeld
    <3>2. /\ received \in Seq(1 .. arrived)
          /\ stringData \in Seq(1 .. arrived)
      BY DEF ReceiveTypeOK
    <3>3. /\ received' = Append(received, Head(stringData))
          /\ stringData' = Tail(stringData)
          /\ arrived' = arrived
      BY <2>2, <3>1 DEF Pop
    <3> DEFINE S == 1 .. arrived
    <3> HIDE DEF S
    <3>4. received \in Seq(S) /\ stringData \in Seq(S)
      BY <3>2 DEF S
    <3>5. Append(received, Head(stringData)) \o Tail(stringData)
          = received \o stringData
      BY <3>1, <3>4, PopKeepsAll
    <3> QED BY <3>3, <3>5
  <2>3. CASE OnMessageSet \/ OnMessageLeave
    BY <2>3 DEF OnMessageSet, OnMessageLeave
  <2>4. ASSUME NEW r \in Readers,
               \/ Receive(r) \/ TestSize(r) \/ WaitForEvent(r)
               \/ EnterCriticalSection(r) \/ LeaveCriticalSection(r)
        PROVE  ReceivedInOrder'
    BY <2>4 DEF Receive, TestSize, WaitForEvent, EnterCriticalSection,
                LeaveCriticalSection
  <2>5. ASSUME NEW r \in Readers,
               Front(r) \/ FrontNone(r) \/ FrontUndefined(r)
        PROVE  ReceivedInOrder'
    BY <2>5 DEF Front, FrontNone, FrontUndefined
  <2>6. CASE UNCHANGED receiveVars
    BY <2>6
  <2> QED BY <2>1, <2>2, <2>3, <2>4, <2>5, <2>6
          DEF ReceiveNext, OnMessageStep, ReaderStep
<1> QED BY <1>1, <1>2, ReceiveTypesAlways, PTL DEF ReceiveSpec

-----------------------------------------------------------------------------
(* A sole reader                                                           *)

\* While a sole reader is between its look at the queue and its pop, nobody
\* else removes a message; and an event set for a message that it has not
\* seen stays set until it looks again.
THEOREM SoleReader ==
    ASSUME NEW sole, Readers = {sole}
    PROVE  ReceiveSpec => [](NoLostWakeup /\ ReaderFindsMessage)
<1> DEFINE Inv == NoLostWakeup /\ ReaderFindsMessage
<1>1. ReceiveInit => Inv
  BY DEF ReceiveInit, NoLostWakeup, ReaderFindsMessage
<1>2. ReceiveTypeOK /\ FrontHeld /\ Inv /\ [ReceiveNext]_receiveVars => Inv'
  <2> SUFFICES ASSUME ReceiveTypeOK, FrontHeld, Inv, [ReceiveNext]_receiveVars
               PROVE  Inv'
    OBVIOUS
  <2> USE DEF NoLostWakeup, ReaderFindsMessage, GoTo
  <2>1. at \in [Readers -> Points]
    BY DEF ReceiveTypeOK
  <2>2. CASE OnMessagePush
    <3>1. stringData' # <<>> /\ onMessage' = "set" /\ at' = at
      BY <2>2 DEF OnMessagePush, ReceiveTypeOK
    <3> QED BY <3>1
  <2>3. CASE OnMessageSet
    BY <2>3 DEF OnMessageSet
  <2>4. CASE OnMessageLeave
    BY <2>4 DEF OnMessageLeave
  <2>5. ASSUME NEW r \in Readers, Receive(r)
        PROVE  Inv'
    BY <2>5, <2>1 DEF Receive
  <2>6. ASSUME NEW r \in Readers, TestSize(r)
        PROVE  Inv'
    BY <2>6, <2>1 DEF TestSize
  <2>7. ASSUME NEW r \in Readers, WaitForEvent(r)
        PROVE  Inv'
    BY <2>7, <2>1 DEF WaitForEvent
  <2>8. ASSUME NEW r \in Readers, EnterCriticalSection(r)
        PROVE  Inv'
    BY <2>8, <2>1 DEF EnterCriticalSection
  <2>9. ASSUME NEW r \in Readers, Front(r)
        PROVE  Inv'
    BY <2>9, <2>1 DEF Front
  <2>10. ASSUME NEW r \in Readers, FrontNone(r) \/ FrontUndefined(r)
         PROVE  Inv'
    BY <2>10, <2>1 DEF FrontNone, FrontUndefined
  <2>11. ASSUME NEW r \in Readers, Pop(r)
         PROVE  Inv'
    BY <2>11, <2>1 DEF Pop
  <2>12. ASSUME NEW r \in Readers, LeaveCriticalSection(r)
         PROVE  Inv'
    BY <2>12, <2>1 DEF LeaveCriticalSection
  <2>13. CASE UNCHANGED receiveVars
    BY <2>13
  <2> QED BY <2>2, <2>3, <2>4, <2>5, <2>6, <2>7, <2>8, <2>9, <2>10, <2>11,
             <2>12, <2>13 DEF ReceiveNext, OnMessageStep, ReaderStep
<1> QED BY <1>1, <1>2, ReceiveTypesAlways, PTL DEF ReceiveSpec

\* A sole reader that comes to front() finds a message there, for any messages
\* and buffers.
THEOREM SoleReaderFinds ==
    ASSUME NEW sole, Readers = {sole}
    PROVE  ReceiveSpec => []ReaderFindsMessage
<1>1. NoLostWakeup /\ ReaderFindsMessage => ReaderFindsMessage
  OBVIOUS
<1>2. ReceiveSpec => [](NoLostWakeup /\ ReaderFindsMessage)
  BY SoleReader
<1> QED
  BY <1>1, <1>2, PTL
=============================================================================
