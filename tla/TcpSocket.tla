----------------------------- MODULE TcpSocket -----------------------------
(***************************************************************************)
(* CTCPImpl, the TCP or TLS socket of a handler: its socket and its SSL    *)
(* object from initialize over connect or connectViaProxy to               *)
(* shutDownSocket.                                                         *)
(*                                                                         *)
(* The opener connects and resets the socket, under socketOperationLock;   *)
(* the closer calls closeSocket, as the opener does when connecting fails; *)
(* the quitter is a sender thread that has left its loop and shuts the     *)
(* socket down as well.  Beside them a sender sends and a reader receives. *)
(* SenderThread has the steps of the sender, StreamHandler the locks.      *)
(***************************************************************************)
EXTENDS Integers

CONSTANT MaxSockets     \* bound: sockets created

ASSUME SocketAssumption == MaxSockets \in Nat \ {0}

VARIABLES
    secure,                 \* the connection is to be secure
    isSecureConnection,     \* the mode, off while the proxy is talked to
    sockets,                \* calls of socket()
    open,                   \* the sockets not closed
    linked,                 \* those that were connected
    tcpSocket,              \* one of them, or 0 for NULL
    live,                   \* the SSL objects not freed, named by their socket
    lpSSL,                  \* one of them, 0 for NULL, or Garbage
    is_connected_to_peer,
    isShutdownInitiated,
    isConnected,            \* of the handler
    b_isSocketOpen,         \* of the handler
    bRunSenderThread,
    hSenderThread,          \* hSenderThread # NULL
    queued,                 \* sendQueue has a message
    at,                     \* where opener, closer and quitter are
    call,                   \* what the opener does
    sender,                 \* where the sender is
    writing,                \* the SSL object it is writing to, 0 for none
    reading,                \* the socket the reader waits on, 0 for none
    misuse,                 \* what went wrong with a message or an SSL object
    excused,                \* a sender was in its loop when DestroySocket ended,
                            \* or a shutdown and a connect, a reset or another
                            \* shutdown were under way at once, or a reset replaced
                            \* the socket of a connection
    crossed,                \* isShutdownInitiated was set while initialize was
                            \* between clearing it and creating the socket
    closeFailed             \* closesocket has failed

netVars == <<sockets, open, linked>>
pointers == <<tcpSocket, lpSSL, live>>
flags == <<is_connected_to_peer, isShutdownInitiated>>
handlerVars == <<isConnected, b_isSocketOpen>>
senderVars == <<bRunSenderThread, hSenderThread, queued, sender, writing>>
history == <<excused, crossed, closeFailed>>
vars == <<secure, isSecureConnection, netVars, pointers, flags, handlerVars, at,
          call, senderVars, reading, misuse, history>>

\* lpSSL is not initialized by the constructors.
Garbage == -1

Threads == {"opener", "closer", "quitter"}
Shutting == {"shutSet", "sslClose", "sslShutdown", "sslFree", "plainClose"}
Opening == {"connect", "initRefs", "initCheck", "socket", "tcp", "tunnel",
            "tunnelEnd", "sslNew", "sslConnect", "sslFail", "check"}
Destroying == {"destroy", "shutTest", "shutEnd"} \cup Shutting
Running == sender \in {"wait", "send", "writing"}

\* The handler was created, and with it the socket; a sender is started if lpSSL
\* happens not to be NULL.
Init ==
    /\ secure \in BOOLEAN /\ isSecureConnection = secure
    /\ sockets \in {0, 1}
    /\ open = 1 .. sockets /\ linked = {}
    /\ tcpSocket = sockets
    /\ live = {} /\ lpSSL \in {0, Garbage}
    /\ is_connected_to_peer = FALSE /\ isShutdownInitiated = FALSE
    /\ isConnected = FALSE /\ b_isSocketOpen = FALSE
    /\ hSenderThread \in IF secure /\ lpSSL # 0 THEN BOOLEAN ELSE {FALSE}
    /\ bRunSenderThread = (secure /\ lpSSL # 0)
    /\ sender = IF hSenderThread THEN "created" ELSE "none"
    /\ queued = FALSE /\ writing = 0 /\ reading = 0
    /\ at = [t \in Threads |-> "idle"] /\ call = "none"
    /\ misuse = {}
    /\ excused = FALSE /\ crossed = FALSE
    /\ closeFailed = FALSE

Go(t, from, to) == at[t] = from /\ at' = [at EXCEPT ![t] = to]

\* What is wrong with handing a pointer to OpenSSL.
Misused(p) ==
    IF p \in live \/ excused THEN {} ELSE {"ssl"}

\* bound: once a call was overtaken no other is begun
MayBegin == ~excused

ShutDownRunning == \E t \in Threads : at[t] \in Shutting

\* A call of the closer or the quitter is under way while the opener is in its own.
CallsOverlap ==
    \/ /\ at'["opener"] \in Opening \cup {"connected"}
       /\ at'["closer"] # "idle" \/ at'["quitter"] # "idle"
    \/ \E t, u \in Threads : t # u /\ at'[t] \in Shutting /\ at'[u] \in Shutting

-----------------------------------------------------------------------------
(* initialize, called by the constructor, by ResetConnection and by a      *)
(* connect that finds no socket                                            *)

ResetConnection ==
    /\ MayBegin
    /\ Go("opener", "idle", "initRefs")
    /\ call' = "reset"
    /\ excused' = (excused \/ isConnected \/ CallsOverlap)
    /\ UNCHANGED <<secure, isSecureConnection, netVars, pointers, flags,
                   handlerVars, senderVars, reading, misuse, crossed,
                   closeFailed>>

\* Variant: the new socket counts as shut down, as the old one did.
InitRefsStillShut ==
    /\ Go("opener", "initRefs", "initCheck")
    /\ is_connected_to_peer' = FALSE
    /\ tcpSocket' = 0
    /\ queued' = FALSE
    /\ UNCHANGED <<secure, isSecureConnection, netVars, lpSSL, live,
                   isShutdownInitiated, handlerVars, call, bRunSenderThread,
                   hSenderThread, sender, writing, reading, misuse, history>>

\* setTCPObjectReferences and clearQueue: the references are forgotten, not
\* released, and lpSSL is left as it is.
InitRefs ==
    /\ Go("opener", "initRefs", "initCheck")
    /\ is_connected_to_peer' = FALSE /\ isShutdownInitiated' = FALSE
    /\ tcpSocket' = 0
    /\ queued' = FALSE
    /\ UNCHANGED <<secure, isSecureConnection, netVars, lpSSL, live, handlerVars,
                   call, bRunSenderThread, hSenderThread, sender, writing, reading,
                   misuse, history>>

IsSocketLive == IF isSecureConnection THEN lpSSL # 0 ELSE tcpSocket # 0

\* The sender is started, if it is not running, or goes on; CreateThread may fail.
CheckSender(result) ==
    IF (~hSenderThread \/ ~Running) /\ IsSocketLive
    THEN /\ bRunSenderThread' = TRUE
         /\ hSenderThread' = result
         /\ sender' = IF result /\ sender = "none" THEN "created" ELSE sender
    ELSE result = TRUE /\ UNCHANGED <<bRunSenderThread, hSenderThread, sender>>

InitCheck ==
    /\ Go("opener", "initCheck", "socket")
    /\ \E result \in BOOLEAN : CheckSender(result)
    /\ UNCHANGED <<secure, isSecureConnection, netVars, pointers, flags,
                   handlerVars, call, queued, writing, reading, misuse, history>>

\* WSAStartup may fail; socket() that fails leaves a number not 0 as well.
NewSocket ==
    /\ Go("opener", "socket", IF call = "reset" THEN "idle" ELSE "tcp")
    /\ call' = IF call = "reset" THEN "none" ELSE call
    /\ \/ /\ sockets < MaxSockets
          /\ sockets' = sockets + 1
          /\ open' = open \cup {sockets'}
          /\ tcpSocket' = sockets'
       \/ UNCHANGED <<sockets, open, tcpSocket>>
    /\ UNCHANGED <<secure, isSecureConnection, linked, lpSSL, live,
                   flags, handlerVars, senderVars, reading, misuse, history>>

-----------------------------------------------------------------------------
(* connect and connectViaProxy                                             *)

ConnectBegin(how) ==
    /\ MayBegin
    /\ Go("opener", "idle", "connect")
    /\ call' = how
    /\ b_isSocketOpen' = TRUE
    /\ excused' = (excused \/ CallsOverlap)
    /\ UNCHANGED <<secure, isSecureConnection, netVars, pointers, flags, isConnected,
                   senderVars, reading, misuse, crossed,
                   closeFailed>>

ConnectTest ==
    /\ Go("opener", "connect", IF tcpSocket = 0 THEN "initRefs" ELSE "tcp")
    /\ is_connected_to_peer' = FALSE
    /\ UNCHANGED <<secure, isSecureConnection, netVars, pointers, isShutdownInitiated,
                   handlerVars, call, senderVars, reading, misuse, history>>

\* Where a connection goes on once it leads to the server.
AfterLink(mode) == IF mode THEN "sslNew" ELSE "check"

TcpConnect ==
    /\ Go("opener", "tcp", IF call = "proxy" THEN "tunnel"
                        ELSE AfterLink(isSecureConnection))
    /\ tcpSocket \in open \ linked
    /\ linked' = linked \cup {tcpSocket}
    /\ is_connected_to_peer' = (call = "direct" /\ ~isSecureConnection)
    /\ call' = "none"
    /\ UNCHANGED <<secure, isSecureConnection, sockets, open, pointers,
                   isShutdownInitiated, handlerVars, senderVars, reading,
                   misuse, history>>

\* A socket that is connected, closed or not there cannot be connected.
TcpConnectFails ==
    /\ Go("opener", "tcp", "failed")
    /\ call' = "none"
    /\ UNCHANGED <<secure, isSecureConnection, netVars, pointers, flags, handlerVars,
                   senderVars, reading, misuse, history>>

\* doTunnelHandshake talks to the proxy in the clear.
TunnelBegin ==
    /\ Go("opener", "tunnel", "tunnelEnd")
    /\ isSecureConnection' = FALSE
    /\ UNCHANGED <<secure, netVars, pointers, flags, handlerVars, call, senderVars,
                   reading, misuse, history>>

\* Variant: the mode is not restored when the proxy refuses.
TunnelFailsInsecure ==
    /\ Go("opener", "tunnelEnd", "failed")
    /\ UNCHANGED <<secure, isSecureConnection, netVars, pointers, flags, handlerVars,
                   call, senderVars, reading, misuse, history>>

\* The proxy refuses, or the socket fails or is closed.
TunnelFails ==
    /\ Go("opener", "tunnelEnd", "failed")
    /\ isSecureConnection' = secure
    /\ UNCHANGED <<secure, netVars, pointers, flags, handlerVars, call, senderVars,
                   reading, misuse, history>>

\* The proxy has answered with 200.
TunnelOpen ==
    /\ Go("opener", "tunnelEnd", AfterLink(secure))
    /\ tcpSocket \in open
    /\ isSecureConnection' = secure
    /\ is_connected_to_peer' = TRUE
    /\ UNCHANGED <<secure, netVars, pointers, isShutdownInitiated, handlerVars, call,
                   senderVars, reading, misuse, history>>

\* doSSLConnect: a new object; an old one is forgotten.
SslNew ==
    /\ Go("opener", "sslNew", "sslConnect")
    /\ lpSSL' = sockets /\ live' = live \cup {sockets}
    /\ UNCHANGED <<secure, isSecureConnection, netVars, tcpSocket, flags, handlerVars,
                   call, senderVars, reading, misuse, history>>

SslConnect ==
    /\ Go("opener", "sslConnect", "check")
    /\ tcpSocket \in open
    /\ is_connected_to_peer' = TRUE
    /\ misuse' = misuse \cup Misused(lpSSL)
    /\ UNCHANGED <<secure, isSecureConnection, netVars, pointers, isShutdownInitiated,
                   handlerVars, call, senderVars, reading, history>>

SslConnectFails ==
    /\ Go("opener", "sslConnect", "sslFail")
    /\ misuse' = misuse \cup Misused(lpSSL)
    /\ UNCHANGED <<secure, isSecureConnection, netVars, pointers, flags, handlerVars,
                   call, senderVars, reading, history>>

\* SSL_free and the assignment of NULL.
FreeSSL ==
    /\ live' = live \ {lpSSL}
    /\ lpSSL' = 0
    /\ misuse' = misuse \cup (IF lpSSL = 0 THEN {} ELSE Misused(lpSSL))
                        \cup (IF writing # 0 /\ writing = lpSSL /\ ~excused
                             THEN {"ssl"} ELSE {})

SslFail ==
    /\ Go("opener", "sslFail", "failed")
    /\ FreeSSL
    /\ is_connected_to_peer' = FALSE
    /\ UNCHANGED <<secure, isSecureConnection, netVars, tcpSocket, isShutdownInitiated,
                   handlerVars, call, senderVars, reading, history>>

\* A connection without a sender has failed.
CheckConnected(result) ==
    /\ Go("opener", "check", IF result THEN "connected" ELSE "failed")
    /\ is_connected_to_peer' = result
    /\ CheckSender(result)
    /\ UNCHANGED <<secure, isSecureConnection, netVars, pointers, isShutdownInitiated,
                   handlerVars, call, queued, writing, reading, misuse, history>>

ConnectReturns ==
    /\ Go("opener", "connected", "idle")
    /\ isConnected' = TRUE
    /\ UNCHANGED <<secure, isSecureConnection, netVars, pointers, flags, b_isSocketOpen,
                   call, senderVars, reading, misuse, history>>

-----------------------------------------------------------------------------
(* ShutDown, under socketShutdownLock: DestroySocket and shutDownSocket    *)

ShutDown(t) ==
    /\ t = "closer" => MayBegin
    /\ at[t] = IF t = "closer" THEN "idle" ELSE "failed"
    /\ \A u \in {"opener", "closer"} : at[u] \notin Destroying
    /\ IF b_isSocketOpen
       THEN Go(t, at[t], "destroy") /\ bRunSenderThread' = FALSE
       ELSE Go(t, at[t], "idle") /\ UNCHANGED bRunSenderThread
    /\ excused' = (excused \/ CallsOverlap)
    /\ UNCHANGED <<secure, isSecureConnection, netVars, pointers, flags, handlerVars,
                   call, hSenderThread, queued, sender, writing, reading, misuse,
                   crossed, closeFailed>>

\* The wait is over, with or without the sender having left its loop.
DestroySocket(t) ==
    /\ Go(t, "destroy", "shutTest")
    /\ excused' = (excused \/ sender # "none")
    /\ hSenderThread' = FALSE
    /\ queued' = FALSE
    /\ UNCHANGED <<secure, isSecureConnection, netVars, pointers, flags, handlerVars,
                   call, bRunSenderThread, sender, writing, reading, misuse, crossed,
                   closeFailed>>

ShutTest(t) ==
    /\ Go(t, "shutTest", IF ~isShutdownInitiated THEN "shutSet"
                         ELSE IF t = "quitter" THEN "idle" ELSE "shutEnd")
    /\ excused' = (excused \/ CallsOverlap)
    /\ UNCHANGED <<secure, isSecureConnection, netVars, pointers, flags, handlerVars,
                   call, senderVars, reading, misuse, crossed,
                   closeFailed>>

ShutSet(t) ==
    /\ Go(t, "shutSet", IF is_connected_to_peer /\ isSecureConnection /\ lpSSL # 0
                        THEN "sslClose" ELSE "plainClose")
    /\ isShutdownInitiated' = TRUE
    /\ crossed' = (crossed \/ at["opener"] \in {"initCheck", "socket"})
    /\ UNCHANGED <<secure, isSecureConnection, netVars, pointers, is_connected_to_peer,
                   handlerVars, call, senderVars, reading, misuse, excused,
                   closeFailed>>

\* close
CloseSocket ==
    \/ /\ tcpSocket # 0
       /\ open' = open \ {tcpSocket}
       /\ tcpSocket' = 0
       /\ UNCHANGED closeFailed
    \/ tcpSocket # 0 /\ closeFailed' = TRUE /\ UNCHANGED <<open, tcpSocket>>
    \/ tcpSocket = 0 /\ UNCHANGED <<open, tcpSocket, closeFailed>>

AfterShut(t) == IF t = "quitter" THEN "idle" ELSE "shutEnd"

\* Variant: the socket is left to SSL_shutdown.
SslCloseNot(t) ==
    /\ Go(t, "sslClose", "sslShutdown")
    /\ misuse' = misuse \cup Misused(lpSSL)
    /\ UNCHANGED <<secure, isSecureConnection, netVars, pointers, flags, handlerVars,
                   call, senderVars, reading, history>>

\* The pending bytes are waited for, and the socket is closed.
SslClose(t) ==
    /\ Go(t, "sslClose", "sslShutdown")
    /\ CloseSocket
    /\ misuse' = misuse \cup Misused(lpSSL)
    /\ UNCHANGED <<secure, isSecureConnection, sockets, linked, lpSSL, live,
                   flags, handlerVars, call, senderVars, reading, excused,
                   crossed>>

SslShutdown(t) ==
    /\ Go(t, "sslShutdown", "sslFree")
    /\ misuse' = misuse \cup Misused(lpSSL)
    /\ UNCHANGED <<secure, isSecureConnection, netVars, pointers, flags, handlerVars,
                   call, senderVars, reading, history>>

SslFree(t) ==
    /\ Go(t, "sslFree", AfterShut(t))
    /\ FreeSSL
    /\ UNCHANGED <<secure, isSecureConnection, netVars, tcpSocket, flags, handlerVars,
                   call, senderVars, reading, history>>

\* No secure connection was made: the socket is closed only.
PlainClose(t) ==
    /\ Go(t, "plainClose", AfterShut(t))
    /\ CloseSocket
    /\ UNCHANGED <<secure, isSecureConnection, sockets, linked, lpSSL, live,
                   flags, handlerVars, call, senderVars, reading, misuse,
                   excused, crossed>>

ShutEnd(t) ==
    /\ Go(t, "shutEnd", "idle")
    /\ isConnected' = FALSE /\ b_isSocketOpen' = FALSE
    /\ UNCHANGED <<secure, isSecureConnection, netVars, pointers, flags, call, senderVars,
                   reading, misuse, history>>

ShutDownSocket(t) ==
    \/ ShutTest(t) \/ ShutSet(t) \/ SslClose(t) \/ SslShutdown(t) \/ SslFree(t)
    \/ PlainClose(t)

-----------------------------------------------------------------------------
(* Sending                                                                 *)

\* The handler queues a message while it takes itself to be connected.
SendAsync ==
    /\ MayBegin /\ isConnected /\ ~queued
    /\ queued' = TRUE
    /\ UNCHANGED <<secure, isSecureConnection, netVars, pointers, flags, handlerVars, at,
                   call, bRunSenderThread, hSenderThread, sender, writing, reading,
                   misuse, history>>

SenderEnter ==
    /\ sender = "created"
    /\ sender' = "wait"
    /\ UNCHANGED <<secure, isSecureConnection, netVars, pointers, flags, handlerVars, at,
                   call, bRunSenderThread, hSenderThread, queued, writing, reading,
                   misuse, history>>

\* A sender that waits in QueueReadData does not look at bRunSenderThread first.
SenderTake ==
    /\ sender = "wait" /\ queued
    /\ sender' = "send" /\ queued' = FALSE
    /\ UNCHANGED <<secure, isSecureConnection, netVars, pointers, flags, handlerVars, at,
                   call, bRunSenderThread, hSenderThread, writing, reading, misuse,
                   history>>

\* The sender has left its loop; what it does then is done by the quitter.
SenderQuits ==
    /\ sender = "wait" /\ ~bRunSenderThread
    /\ sender' = "none"
    /\ Go("quitter", "idle", "shutTest")
    /\ excused' = (excused \/ CallsOverlap)
    /\ UNCHANGED <<secure, isSecureConnection, netVars, pointers, flags, handlerVars, call,
                   bRunSenderThread, hSenderThread, queued, writing, reading, misuse,
                   crossed, closeFailed>>

\* sendString of a message: through SSL if there is an object, in the clear if
\* there is a socket, and else not at all.
SendSecure ==
    /\ sender = "send"
    /\ isSecureConnection /\ lpSSL # 0
    /\ sender' = "writing" /\ writing' = lpSSL
    /\ misuse' = misuse \cup Misused(lpSSL)
    /\ UNCHANGED <<secure, isSecureConnection, netVars, pointers, flags, handlerVars, at,
                   call, bRunSenderThread, hSenderThread, queued, reading, history>>

SendPlain ==
    /\ sender = "send"
    /\ ~isSecureConnection \/ lpSSL = 0
    /\ tcpSocket # 0
    /\ sender' = "writing"
    /\ misuse' = misuse \cup (IF secure /\ tcpSocket \in linked /\ ~excused
                             THEN {"plain"} ELSE {})
    /\ UNCHANGED <<secure, isSecureConnection, netVars, pointers, flags, handlerVars, at,
                   call, bRunSenderThread, hSenderThread, queued, writing, reading,
                   history>>

SendNothing ==
    /\ sender = "send"
    /\ ~isSecureConnection \/ lpSSL = 0
    /\ tcpSocket = 0
    /\ sender' = "wait"
    /\ UNCHANGED <<secure, isSecureConnection, netVars, pointers, flags, handlerVars, at,
                   call, bRunSenderThread, hSenderThread, queued, writing, reading,
                   misuse, history>>

\* It was sent; or it failed, which ends the loop unless it was a batch.  A batch
\* may have another message behind it.
SendReturns ==
    /\ sender = "writing"
    /\ writing' = 0
    /\ \/ sender' \in {"wait", "send"} /\ UNCHANGED bRunSenderThread
       \/ sender' = "wait" /\ bRunSenderThread' = FALSE
    /\ UNCHANGED <<secure, isSecureConnection, netVars, pointers, flags, handlerVars, at,
                   call, hSenderThread, queued, reading, misuse, history>>

-----------------------------------------------------------------------------
(* Receiving                                                               *)

\* receiveString waits on the socket, through the SSL object if there is one.
Waits ==
    IF isSecureConnection /\ lpSSL # 0
    THEN reading' = lpSSL /\ misuse' = misuse \cup Misused(lpSSL)
    ELSE reading' = tcpSocket /\ UNCHANGED misuse

ReceiveString ==
    /\ MayBegin /\ isConnected /\ reading = 0
    /\ Waits
    /\ UNCHANGED <<secure, isSecureConnection, netVars, pointers, flags, handlerVars, at,
                   call, senderVars, history>>

\* receiveBytes goes on until its buffer is full.
ReceiveBytes ==
    /\ reading \in open \cap linked
    /\ Waits
    /\ UNCHANGED <<secure, isSecureConnection, netVars, pointers, flags, handlerVars, at,
                   call, senderVars, history>>

ReceiveReturns ==
    /\ reading \in open \cap linked
    /\ reading' = 0
    /\ UNCHANGED <<secure, isSecureConnection, netVars, pointers, flags, handlerVars, at,
                   call, senderVars, misuse, history>>

\* A socket that is closed, or was never connected, fails.
ReceiveFails ==
    /\ reading # 0 /\ reading \notin open \cap linked
    /\ reading' = 0
    /\ UNCHANGED <<secure, isSecureConnection, netVars, pointers, flags, handlerVars, at,
                   call, senderVars, misuse, history>>

-----------------------------------------------------------------------------
Opener ==
    \/ ConnectTest \/ InitRefs \/ InitCheck \/ NewSocket
    \/ TcpConnect \/ TcpConnectFails \/ TunnelBegin \/ TunnelFails \/ TunnelOpen
    \/ SslNew \/ SslConnect \/ SslConnectFails \/ SslFail
    \/ \E result \in BOOLEAN : CheckConnected(result)
    \/ ConnectReturns \/ ShutDown("opener") \/ DestroySocket("opener")
    \/ ShutDownSocket("opener") \/ ShutEnd("opener")

Closer ==
    DestroySocket("closer") \/ ShutDownSocket("closer") \/ ShutEnd("closer")

Sender ==
    \/ SenderEnter \/ SenderTake \/ SenderQuits
    \/ SendSecure \/ SendPlain \/ SendNothing \/ SendReturns

Next ==
    \/ ResetConnection \/ \E how \in {"direct", "proxy"} : ConnectBegin(how)
    \/ Opener \/ ShutDown("closer") \/ Closer \/ ShutDownSocket("quitter")
    \/ SendAsync \/ Sender
    \/ ReceiveString \/ ReceiveBytes \/ ReceiveReturns \/ ReceiveFails

Spec == Init /\ [][Next]_vars

\* Threads that are in a call go on.  The network need not bring anything, but
\* connecting ends, by a time-out if need be.
FairSpec ==
    /\ Spec
    /\ WF_vars(Opener) /\ WF_vars(Closer) /\ WF_vars(ShutDownSocket("quitter"))
    /\ WF_vars(ReceiveFails)

-----------------------------------------------------------------------------
(* Properties                                                              *)

TypeOK ==
    /\ secure \in BOOLEAN /\ isSecureConnection \in BOOLEAN
    /\ sockets \in 0 .. MaxSockets
    /\ open \subseteq 1 .. sockets /\ linked \subseteq 1 .. sockets
    /\ tcpSocket \in 0 .. sockets
    /\ lpSSL \in Garbage .. sockets /\ live \subseteq 0 .. sockets
    /\ is_connected_to_peer \in BOOLEAN /\ isShutdownInitiated \in BOOLEAN
    /\ isConnected \in BOOLEAN /\ b_isSocketOpen \in BOOLEAN
    /\ bRunSenderThread \in BOOLEAN /\ hSenderThread \in BOOLEAN /\ queued \in BOOLEAN
    /\ at \in [Threads -> {"idle", "connected", "failed"} \cup Opening \cup Destroying]
    /\ call \in {"none", "reset", "direct", "proxy"}
    /\ sender \in {"none", "created", "wait", "send", "writing"}
    /\ writing \in Garbage .. sockets /\ reading \in Garbage .. sockets
    /\ misuse \subseteq {"plain", "ssl"}
    /\ excused \in BOOLEAN /\ crossed \in BOOLEAN
    /\ closeFailed \in BOOLEAN
    /\ tcpSocket # 0 => tcpSocket \in open
    /\ isSecureConnection = (secure /\ at["opener"] # "tunnelEnd")

\* A secure connection stays secure: while no call is overtaken by another, no
\* sender outlives its socket and no reset replaces a connection, no message of
\* it is sent in the clear (the mode is off while the proxy is talked to, and
\* sendString falls back to the socket when there is no SSL object), and OpenSSL
\* is handed neither an SSL object after SSL_free nor the lpSSL that no
\* constructor initializes.
SecureStaysSecure == misuse = {}

\* However the closer, a connect and a sender that quits meet in shutDownSocket,
\* which tests and sets isShutdownInitiated without a lock: once it is set and
\* nobody is in there, the socket is closed, and no socket is left open that
\* every later shutdown would pass by; unless closesocket failed, or the flag was
\* set while initialize was between clearing it and creating the socket.
ShutMeansClosed ==
    isShutdownInitiated /\ ~ShutDownRunning
    => tcpSocket = 0 \/ closeFailed \/ crossed

\* A reader that is blocked in recv or SSL_read when the handler is closed gets
\* out of it, though nothing arrives any more.
ReaderReleased ==
    reading # 0 /\ ~isConnected
    ~> reading = 0 \/ isConnected \/ closeFailed \/ excused
=============================================================================
