---------------------------- MODULE DataChannel ----------------------------
(***************************************************************************)
(* CPeerConnection from connect to close, and the threads that send        *)
(* through it: the factory thread connect waits for, the flag isRunning,   *)
(* the data channel with its buffer, and the retry loop of sendString and  *)
(* sendBytes.                                                              *)
(*                                                                         *)
(* Nothing here is under a lock: a step is one read or one write of what   *)
(* other threads use.  The data channel is WebRTC's, whose network thread  *)
(* empties the buffer.                                                     *)
(***************************************************************************)
EXTENDS Integers, FiniteSets

CONSTANTS
    Threads,        \* threads that send
    Threshold,      \* datachannel_threshold
    BufferMax,      \* DTCH_BUFFER_MAX
    RetryCount,     \* datachannel_retry_count
    MaxLen,         \* length of the longest message
    MaxCalls        \* bound: calls of sendString and sendBytes

ASSUME ChannelAssumption ==
    /\ Threads # {} /\ IsFiniteSet(Threads)
    /\ Threshold \in Nat
    /\ BufferMax \in Nat
    /\ RetryCount \in Nat
    /\ MaxLen \in Nat \ {0}
    /\ MaxCalls \in Nat

VARIABLES
    handle,         \* CPeerConnectionImpl still points to this object
    connecting,     \* how far connect is
    connectResult,  \* its local variable
    factory,        \* how far webrtcFactoryThread is
    hConEvent,      \* the event it sets
    isRunning,      \* the flag
    closed,         \* close has reset the flag
    overlapped,     \* connect has returned after that
    channel,        \* state of the data channel
    buffered,       \* its buffered_amount
    pc,             \* where a sending thread is
    len,            \* bufferLength of its call
    retryCount,     \* its retryCount
    up,             \* flag and channel have been up since its call began
    late,           \* its call began after close had reset the flag
    told,           \* who has reported an overflow during its call
    result,         \* what its last call came to
    calls           \* calls so far

connectVars == <<connecting, connectResult, factory, hConEvent>>
closeVars == <<handle, closed, overlapped>>
callVars == <<pc, len, retryCount, late, told, result, calls>>
vars == <<connectVars, closeVars, isRunning, channel, buffered, up, callVars>>

Init ==
    /\ handle = TRUE
    /\ connecting = "no"
    /\ connectResult = FALSE
    /\ factory = "none"
    /\ hConEvent = FALSE
    /\ isRunning = FALSE
    /\ closed = FALSE
    /\ overlapped = FALSE
    /\ channel = "null"
    /\ buffered = 0
    /\ pc = [t \in Threads |-> "idle"]
    /\ len = [t \in Threads |-> 1]
    /\ retryCount = [t \in Threads |-> 0]
    /\ up = [t \in Threads |-> FALSE]
    /\ late = [t \in Threads |-> FALSE]
    /\ told = [t \in Threads |-> {}]
    /\ result = [t \in Threads |-> "none"]
    /\ calls = 0

Nobody == [t \in Threads |-> FALSE]

-----------------------------------------------------------------------------
(* connect and webrtcFactoryThread                                         *)

Connect ==
    /\ handle
    /\ connecting = "no"
    /\ connecting' = "waiting"
    /\ factory' = "started"
    /\ UNCHANGED <<connectResult, hConEvent, closeVars, isRunning, channel,
                   buffered, up, callVars>>

\* The factory is stored before the event is set.
CreateFactory ==
    /\ factory = "started"
    /\ factory' \in {"made", "missing"}
    /\ UNCHANGED <<connecting, connectResult, hConEvent, closeVars, isRunning,
                   channel, buffered, up, callVars>>

SignalFactory ==
    /\ factory \in {"made", "missing"}
    /\ ~hConEvent
    /\ hConEvent' = TRUE
    /\ UNCHANGED <<connecting, connectResult, factory, closeVars, isRunning,
                   channel, buffered, up, callVars>>

\* Variant: the factory is not looked at.
CreatePeerConnectionAnyway ==
    /\ connecting = "waiting"
    /\ connecting' = "waited"
    /\ connectResult' = TRUE
    /\ UNCHANGED <<factory, hConEvent, closeVars, isRunning, channel, buffered,
                   up, callVars>>

\* The event is set in time and there is a factory, which makes the
\* peer_connection; or one of the three fails.
CreatePeerConnection ==
    /\ connecting = "waiting"
    /\ connecting' = "waited"
    /\ \/ hConEvent /\ factory = "made" /\ connectResult' = TRUE
       \/ UNCHANGED connectResult
    /\ UNCHANGED <<factory, hConEvent, closeVars, isRunning, channel, buffered,
                   up, callVars>>

\* isRunning is set to what has come of it, whatever close has done meanwhile.
ConnectReturn ==
    /\ connecting = "waited"
    /\ connecting' = "done"
    /\ isRunning' = connectResult
    /\ overlapped' = closed
    /\ up' = IF connectResult THEN up ELSE Nobody
    /\ UNCHANGED <<connectResult, factory, hConEvent, handle, closed, channel,
                   buffered, callVars>>

-----------------------------------------------------------------------------
(* The data channel                                                        *)

\* InitOffer creates it, or OnDataChannel brings it; either needs a
\* peer_connection and neither looks at isRunning.
OnDataChannel ==
    /\ connectResult
    /\ channel = "null"
    /\ channel' = "connecting"
    /\ UNCHANGED <<connectVars, closeVars, isRunning, buffered, up, callVars>>

\* WebRTC: the channel opens, and closes for any reason at any time.
OnStateChange ==
    /\ \/ channel = "connecting" /\ channel' \in {"open", "closed"}
       \/ channel = "open" /\ channel' = "closing"
       \/ channel = "closing" /\ channel' = "closed"
    /\ up' = IF channel = "open" THEN Nobody ELSE up
    /\ UNCHANGED <<connectVars, closeVars, isRunning, buffered, callVars>>

\* The observer reports an overflow of its own, whatever comes of the messages.
\* Its limit, 3 MB, is below the threshold, 4 MB, up to which they are sent.
OnBufferedAmountChange ==
    told' = [t \in Threads |->
                IF buffered' > BufferMax /\ pc[t] # "idle"
                THEN told[t] \cup {"observer"} ELSE told[t]]

\* WebRTC: the network takes something out of the buffer.
Drain ==
    /\ buffered > 0
    /\ \E n \in 0 .. buffered - 1 : buffered' = n
    /\ OnBufferedAmountChange
    /\ UNCHANGED <<connectVars, closeVars, isRunning, channel, up, pc, len,
                   retryCount, late, result, calls>>

-----------------------------------------------------------------------------
(* sendString and sendBytes                                                *)

\* CPeerConnectionImpl found its pointer set.  The first step of both is to
\* read isRunning, at "enter".
Begin(t) ==
    /\ handle
    /\ pc[t] = "idle"
    /\ calls < MaxCalls
    /\ calls' = calls + 1
    /\ pc' = [pc EXCEPT ![t] = "called"]
    /\ \E n \in 1 .. MaxLen : len' = [len EXCEPT ![t] = n]
    /\ retryCount' = [retryCount EXCEPT ![t] = 0]
    /\ told' = [told EXCEPT ![t] = {}]
    /\ result' = [result EXCEPT ![t] = "none"]
    /\ late' = [late EXCEPT ![t] = FALSE]
    /\ up' = [up EXCEPT ![t] = FALSE]
    /\ UNCHANGED <<connectVars, closeVars, isRunning, channel, buffered>>

Goto(t, label) == pc' = [pc EXCEPT ![t] = label]
Return(t, r) == Goto(t, "idle") /\ result' = [result EXCEPT ![t] = r]

\* The call of CPeerConnection itself.
Enter(t) ==
    /\ pc[t] = "called"
    /\ Goto(t, "enter")
    /\ late' = [late EXCEPT ![t] = closed]
    /\ up' = [up EXCEPT ![t] = isRunning /\ channel = "open"]
    /\ UNCHANGED <<connectVars, closeVars, isRunning, channel, buffered, len,
                   retryCount, told, result, calls>>

\* isRunning is read, on entry and in the loop condition.
TestRunning(t) ==
    /\ pc[t] \in {"enter", "loop"}
    /\ IF isRunning
       THEN /\ Goto(t, IF pc[t] = "enter" THEN "enterOpen" ELSE "loopOpen")
            /\ UNCHANGED result
       ELSE Return(t, "dropped")
    /\ UNCHANGED <<connectVars, closeVars, isRunning, channel, buffered, up,
                   len, retryCount, late, told, calls>>

\* The state of the channel is read, on entry and in the loop condition.
TestOpen(t) ==
    /\ pc[t] \in {"enterOpen", "loopOpen"}
    /\ IF channel = "open"
       THEN /\ Goto(t, IF pc[t] = "enterOpen" THEN "loop" ELSE "body")
            /\ UNCHANGED result
       ELSE Return(t, "dropped")
    /\ UNCHANGED <<connectVars, closeVars, isRunning, channel, buffered, up,
                   len, retryCount, late, told, calls>>

\* Variant: without the call of errorHandler.
OverflowSilent(t) ==
    /\ pc[t] = "body"
    /\ retryCount[t] = RetryCount
    /\ Return(t, "dropped")
    /\ UNCHANGED <<connectVars, closeVars, isRunning, channel, buffered, up,
                   len, retryCount, late, told, calls>>

\* The retries are used up: the overflow is reported and the message dropped.
Overflow(t) ==
    /\ pc[t] = "body"
    /\ retryCount[t] = RetryCount
    /\ told' = [told EXCEPT ![t] = @ \cup {"loop"}]
    /\ Return(t, "dropped")
    /\ UNCHANGED <<connectVars, closeVars, isRunning, channel, buffered, up,
                   len, retryCount, late, calls>>

\* Variant: the length of the message is not counted.
FitsNow(t) == buffered <= Threshold

Fits(t) == buffered + len[t] <= Threshold

\* buffered_amount is read: there is room, or a wait.
TestRoom(t) ==
    /\ pc[t] = "body"
    /\ retryCount[t] # RetryCount
    /\ Goto(t, IF Fits(t) THEN "send" ELSE "sleep")
    /\ UNCHANGED <<connectVars, closeVars, isRunning, channel, buffered, up,
                   len, retryCount, late, told, result, calls>>

\* Variant: the wait is not counted.
WaitUncounted(t) ==
    /\ pc[t] = "sleep"
    /\ Goto(t, "loop")
    /\ UNCHANGED <<connectVars, closeVars, isRunning, channel, buffered, up,
                   len, retryCount, late, told, result, calls>>

Wait(t) ==
    /\ pc[t] = "sleep"
    /\ Goto(t, "loop")
    /\ retryCount' = [retryCount EXCEPT ![t] = @ + 1]
    /\ UNCHANGED <<connectVars, closeVars, isRunning, channel, buffered, up,
                   len, late, told, result, calls>>

\* WebRTC: an open channel takes the message, or closes over it; another one
\* refuses.  After a refusal the loop goes on without a wait.  Whether the
\* observer is called when the amount grows is left open.
Send(t) ==
    /\ pc[t] = "send"
    /\ \/ /\ channel = "open"
          /\ buffered' = buffered + len[t]
          /\ Return(t, "sent")
          /\ OnBufferedAmountChange \/ UNCHANGED told
          /\ UNCHANGED <<channel, up>>
       \/ /\ channel = "open"
          /\ channel' = "closing"
          /\ up' = Nobody
          /\ Goto(t, "loop")
          /\ UNCHANGED <<buffered, told, result>>
       \/ /\ channel # "open"
          /\ Goto(t, "loop")
          /\ UNCHANGED <<channel, buffered, up, told, result>>
    /\ UNCHANGED <<connectVars, closeVars, isRunning, len, retryCount, late,
                   calls>>

-----------------------------------------------------------------------------
(* close                                                                   *)

\* Variant: the flag is left as it is.
CloseUnset ==
    /\ handle
    /\ ~closed
    /\ closed' = TRUE
    /\ UNCHANGED <<handle, overlapped, connectVars, isRunning, channel,
                   buffered, up, callVars>>

\* connectionCleanup does nothing to channel and peer_connection.
Close ==
    /\ handle
    /\ ~closed
    /\ isRunning' = FALSE
    /\ up' = Nobody
    /\ closed' = TRUE
    /\ UNCHANGED <<handle, overlapped, connectVars, channel, buffered, callVars>>

\* CPeerConnectionImpl forgets the object.
Forget ==
    /\ handle
    /\ closed
    /\ handle' = FALSE
    /\ UNCHANGED <<connectVars, closed, overlapped, isRunning, channel,
                   buffered, up, callVars>>

-----------------------------------------------------------------------------
Connecting == Connect \/ CreatePeerConnection \/ ConnectReturn
Factory == CreateFactory \/ SignalFactory
Channel == OnDataChannel \/ OnStateChange \/ Drain
Closing == Close \/ Forget

Sending(t) ==
    Enter(t) \/ TestRunning(t) \/ TestOpen(t) \/ Overflow(t) \/ TestRoom(t)
    \/ Wait(t) \/ Send(t)

Next ==
    \/ Connecting \/ Factory \/ Channel \/ Closing
    \/ \E t \in Threads : Begin(t) \/ Sending(t)

Spec == Init /\ [][Next]_vars

\* A thread that is in a call goes on.  Nothing is asked of the network, of the
\* other side or of close.
FairSpec == Spec /\ \A t \in Threads : WF_vars(Sending(t))

-----------------------------------------------------------------------------
(* Properties                                                              *)

Labels == {"idle", "called", "enter", "enterOpen", "loop", "loopOpen", "body",
           "send", "sleep"}

\* The fields hold values of their types; the flag is set and there is a data
\* channel only after a connect that found the factory its thread has made,
\* whichever of the event and the time-out came first.
TypeOK ==
    /\ handle \in BOOLEAN /\ hConEvent \in BOOLEAN /\ connectResult \in BOOLEAN
    /\ isRunning \in BOOLEAN /\ closed \in BOOLEAN /\ overlapped \in BOOLEAN
    /\ connecting \in {"no", "waiting", "waited", "done"}
    /\ factory \in {"none", "started", "made", "missing"}
    /\ channel \in {"null", "connecting", "open", "closing", "closed"}
    /\ buffered \in Nat
    /\ pc \in [Threads -> Labels]
    /\ len \in [Threads -> 1 .. MaxLen]
    /\ retryCount \in [Threads -> 0 .. RetryCount]
    /\ up \in [Threads -> BOOLEAN]
    /\ late \in [Threads -> BOOLEAN]
    /\ told \in [Threads -> SUBSET {"loop", "observer"}]
    /\ result \in [Threads -> {"none", "sent", "dropped"}]
    /\ calls \in 0 .. MaxCalls
    /\ isRunning \/ channel # "null" => connectResult
    /\ connectResult => factory = "made"

\* datachannel_threshold is tested before Send and not with it: each of the
\* other threads may add its message between the two, and no more than that.
\* A single thread stays within the threshold.
BufferBounded == buffered <= Threshold + (Cardinality(Threads) - 1) * MaxLen

\* A call that begins after close sends nothing, though close leaves the
\* channel open; only a connect that close has overtaken undoes this.
NothingSentAfterClose ==
    \A t \in Threads : late[t] /\ pc[t] = "send" => overlapped

\* A message is not lost in silence: if flag and channel were up during the
\* whole call and it was not sent, then its retry loop has reported the
\* overflow.  An overflow reported while a message was sent is the observer's,
\* which means the amount and not the message.
DropsReported ==
    \A t \in Threads :
        /\ result[t] = "dropped" /\ up[t] => "loop" \in told[t]
        /\ result[t] = "sent" => told[t] \subseteq {"observer"}

\* A call returns, even if the network takes nothing any more and nobody closes
\* the connection.  The sender thread counts on it.
CallsReturn == \A t \in Threads : pc[t] # "idle" ~> pc[t] = "idle"
=============================================================================
