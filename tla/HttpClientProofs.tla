-------------------------- MODULE HttpClientProofs --------------------------
(***************************************************************************)
(* What holds of HttpClient for any servers, any number of calls and any   *)
(* bound on redirects: the types, the life of the sessions of openHttp,    *)
(* the response that is read, the settings a request goes out with, and    *)
(* the handler of the timer.                                               *)
(*                                                                         *)
(* Each invariant says what the local variables of a call are at the       *)
(* places it can be at, and what the object has kept in between.           *)
(***************************************************************************)
EXTENDS HttpClient, TLAPS

Opening == {"open", "opening"}
Requesting == {"init", "loop", "sent"}
Copied == {"start", "copy", "copied", "unwinding", "leaving", "unwound"}

\* A second session is made after a proxy was named only; openHttp holds a
\* session or its stream does, not both; and a request was redirected once at
\* most.
OpenInv ==
    /\ SessionsDeletedOnce
    /\ pc = "opening" => pSession # 0
    /\ pc \in Opening =>
        /\ stream = 0
        /\ pSession # 0 => pSession = made
        /\ pSession = 0 /\ made # 0 => made = 1 /\ retry
        /\ made = 2 => retry
    /\ pc \notin Opening => pSession = 0
    /\ pc \notin Copied => stream = 0
    /\ ~retry => redirects = 0
    /\ pc \in {"init", "sent"} => ~retry
    /\ kind = "file" => pSession = 0

TypeInv == TypeOK /\ OpenInv

\* What the bounds are, without what the assumption says of sessions.
LEMMA Bounds == MaxRedirects \in Nat \ {0} /\ MaxCalls \in Nat
BY HttpAssumption DEF HttpAssumption

\* The first call has not begun.
LEMMA InitType == Init => TypeInv
<1> SUFFICES ASSUME Init
             PROVE  TypeInv
  OBVIOUS
<1>1. TypeOK
  <2>1. /\ calls \in 0 .. MaxCalls /\ responseStr \in 0 .. MaxCalls
        /\ redirects \in 0 .. MaxRedirects
        /\ pSession \in 0 .. 2 /\ stream \in 0 .. 2 /\ made \in 0 .. 2
    BY Bounds DEF Init
  <2> QED
    BY <2>1 DEF Init, TypeOK, Labels, Requests, Downloads
<1>2. OpenInv
  BY DEF Init, OpenInv, Opening, Copied, SessionsDeletedOnce
<1> QED
  BY <1>1, <1>2 DEF TypeInv

\* What the application does between the calls touches none of this.
LEMMA BetweenType ==
    ASSUME TypeInv,
           SetServerHostName \/ SetProxyDetails \/ DestroySession
             \/ ReadResponseAsString
    PROVE  TypeInv'
<1>1. UNCHANGED <<calls, callVars, openVars, timerVars>>
  BY DEF SetServerHostName, SetProxyDetails, DestroySession,
         ReadResponseAsString
<1>2. /\ serverHostName' \in Hosts /\ useProxy' \in BOOLEAN
      /\ proxy' \in {"none", "open", "password"}
      /\ session' \in Sessions \cup {NoSession}
      /\ initialized' \in BOOLEAN /\ excused' \in BOOLEAN
      /\ responseStr' \in 0 .. MaxCalls
  <2>1. responseStr' \in 0 .. MaxCalls
    BY Bounds DEF TypeInv, TypeOK, SetServerHostName, SetProxyDetails,
                  DestroySession, ReadResponseAsString
  <2> QED
    BY <2>1 DEF TypeInv, TypeOK, SetServerHostName, SetProxyDetails,
                DestroySession, ReadResponseAsString, settings, sessionVars
<1>3. TypeOK'
  BY <1>1, <1>2 DEF TypeInv, TypeOK, callVars, loopVars, openVars, timerVars
<1>4. OpenInv'
  BY <1>1 DEF TypeInv, OpenInv, SessionsDeletedOnce, callVars, loopVars, openVars
<1> QED
  BY <1>3, <1>4 DEF TypeInv

\* A call starts without a session of its own.
LEMMA BeginType ==
    ASSUME TypeInv, NEW k \in Requests \cup Downloads, Begin(k)
    PROVE  TypeInv'
<1>1. /\ pc' \in {"open", "init", "loop"}
      /\ redirects' = 0 /\ retry' = FALSE /\ made' = 0
      /\ calls' \in 0 .. MaxCalls
  BY Bounds DEF TypeInv, TypeOK, Begin, Go
<1>2. pSession = 0 /\ stream = 0 /\ live = {}
  BY DEF TypeInv, OpenInv, SessionsDeletedOnce, Begin, Go, Opening, Copied
<1>3. TypeOK'
  <2>1. pc' \in Labels /\ redirects' \in 0 .. MaxRedirects /\ made' \in 0 .. 2
    BY <1>1, Bounds DEF Labels
  <2> QED
    BY <1>1, <2>1
       DEF TypeInv, TypeOK, Begin, settings, sessionVars, timerVars
<1>4. OpenInv'
  BY <1>1, <1>2
     DEF OpenInv, Begin, SessionsDeletedOnce, Opening, Copied
<1> QED
  BY <1>3, <1>4 DEF TypeInv

\* A request leaves alone what belongs to downloads.
LEMMA RequestType ==
    ASSUME TypeInv, RequestStep
    PROVE  TypeInv'
<1>0. MaxRedirects \in Nat \ {0}
  BY Bounds
<1>1. UNCHANGED <<settings, calls, kind, authorize, openVars, timerVars>>
  BY DEF RequestStep, InitSession, SendRequest, LoopEnds, UseProxy, loopVars,
         ReceiveContent, ReceiveError, RequestThrows, Moved
<1>2. pc \in Requesting /\ pc' \in {"loop", "sent", "idle"}
  BY DEF RequestStep, InitSession, SendRequest, LoopEnds, UseProxy,
         ReceiveContent, ReceiveError, RequestThrows, Moved, Go, Return,
         Requesting
<1>3. /\ target' \in Hosts /\ named' \in BOOLEAN /\ retry' \in BOOLEAN
      /\ redirects' \in 0 .. MaxRedirects
      /\ ~retry' => redirects' = 0
      /\ pc' = "sent" => ~retry'
      /\ answer' \in {"none", "ok", "moved", "useproxy", "other"}
      /\ result' \in BOOLEAN
  <2>1. CASE InitSession \/ SendRequest \/ LoopEnds \/ RequestThrows
    <3>1. UNCHANGED <<target, named, retry, redirects, answer>>
      BY <2>1 DEF InitSession, SendRequest, LoopEnds, RequestThrows, loopVars
    <3>2. result' \in BOOLEAN
      BY <2>1 DEF InitSession, SendRequest, LoopEnds, RequestThrows, Return,
                  TypeInv, TypeOK
    <3>3. pc' = "sent" => ~retry
      BY <2>1 DEF InitSession, SendRequest, LoopEnds, RequestThrows, Go, Return
    <3> QED
      BY <3>1, <3>2, <3>3 DEF TypeInv, TypeOK, OpenInv
  <2>2. CASE ReceiveContent \/ ReceiveError \/ UseProxy
    BY <2>2 DEF ReceiveContent, ReceiveError, UseProxy, Go, Return, TypeInv,
                TypeOK, OpenInv
  <2>3. ASSUME NEW t \in Hosts, Moved(t)
        PROVE  <1>3!:
    <3>1. redirects' = 1
      BY <2>3 DEF Moved, Go, TypeInv, OpenInv
    <3> QED
      BY <1>0, <2>3, <3>1 DEF Moved, Go, TypeInv, TypeOK
  <2> QED
    BY <2>1, <2>2, <2>3 DEF RequestStep
<1>4. session' \in Sessions \cup {NoSession}
  <2>1. CASE InitSession
    <3>1. ASSUME NEW v \in {"direct", "proxy"}, NEW p \in BOOLEAN
          PROVE  NewSession(serverHostName, v, p) \in Sessions
      BY DEF NewSession, Sessions, TypeInv, TypeOK
    <3>2. Configured \in Sessions
      BY <3>1 DEF Configured
    <3> QED
      BY <2>1, <3>1, <3>2 DEF InitSession, TypeInv, TypeOK
  <2>2. CASE SendRequest
    BY <2>2 DEF SendRequest, LoopSession, NewSession, Sessions, TypeInv, TypeOK
  <2>3. CASE ~InitSession /\ ~SendRequest
    BY <2>3 DEF RequestStep, LoopEnds, UseProxy, ReceiveContent, ReceiveError,
                RequestThrows, Moved, sessionVars, TypeInv, TypeOK
  <2> QED
    BY <2>1, <2>2, <2>3
<1>5. /\ initialized' \in BOOLEAN /\ excused' \in BOOLEAN
      /\ responseStr' \in 0 .. MaxCalls
  <2>1. responseStr' \in 0 .. MaxCalls
    <3>1. responseStr' = responseStr \/ responseStr' = 0 \/ responseStr' = calls
      BY DEF RequestStep, InitSession, SendRequest, LoopEnds, UseProxy,
             ReceiveContent, ReceiveError, RequestThrows, Moved
    <3> QED
      BY <3>1, Bounds DEF TypeInv, TypeOK
  <2>2. initialized' \in {initialized, TRUE, FALSE}
    BY DEF RequestStep, InitSession, SendRequest, LoopEnds, UseProxy,
           ReceiveContent, ReceiveError, RequestThrows, Moved, sessionVars
  <2>3. excused' \in {excused, TRUE, FALSE}
    BY DEF RequestStep, InitSession, SendRequest, LoopEnds, UseProxy,
           ReceiveContent, ReceiveError, RequestThrows, Moved, sessionVars
  <2> QED
    BY <2>1, <2>2, <2>3 DEF TypeInv, TypeOK
<1>6. TypeOK'
  <2>1. pc' \in Labels
    BY <1>2 DEF Labels
  <2> QED
    BY <1>1, <1>3, <1>4, <1>5, <2>1
       DEF TypeInv, TypeOK, settings, openVars, timerVars
<1>7. OpenInv'
  <2>1. pSession = 0 /\ stream = 0 /\ live = {}
    BY <1>2 DEF TypeInv, TypeOK, OpenInv, SessionsDeletedOnce, Opening,
                Copied, Requesting
  <2>2. pSession' = 0 /\ stream' = 0 /\ live' = {}
    BY <1>1, <2>1 DEF openVars
  <2>3. pc' \notin Opening /\ pc' # "init"
    BY <1>2 DEF Opening
  <2>4. (~retry' => redirects' = 0) /\ (pc' = "sent" => ~retry')
    BY <1>3
  <2>5. SessionsDeletedOnce'
    BY <2>2 DEF SessionsDeletedOnce
  <2> QED
    BY <2>2, <2>3, <2>4, <2>5 DEF OpenInv, Opening
<1> QED
  BY <1>6, <1>7 DEF TypeInv

\* openHttp makes its sessions one after the other and deletes each once.
LEMMA OpenType ==
    ASSUME TypeInv,
           \/ kind = "progress" /\ openHttp
           \/ kind = "file" /\ FactoryOpen
    PROVE  TypeInv'
<1>1. UNCHANGED <<requestVars, timerVars>>
  BY DEF openHttp, FactoryOpen, OpenSession, OpenContent, OpenUseProxy,
         OpenAuthorize, OpenThrows
<1>2. /\ pc' \in Labels
      /\ retry' \in BOOLEAN /\ authorize' \in BOOLEAN /\ result' \in BOOLEAN
  BY DEF openHttp, FactoryOpen, OpenSession, OpenContent, OpenUseProxy,
         OpenAuthorize, OpenThrows, Go, Return, Labels, TypeInv, TypeOK
<1>3. OpenInv' /\ pSession' \in 0 .. 2 /\ stream' \in 0 .. 2 /\ made' \in 0 .. 2
               /\ live' \subseteq 1 .. 2
  <2>1. CASE kind = "progress" /\ OpenSession
    <3>1. CASE pSession # 0
      <4>1. /\ UNCHANGED <<made, pSession, live, stream, retry, redirects, kind>>
            /\ pc = "open" /\ pc' = "opening"
        BY <1>1, <2>1, <3>1 DEF OpenSession, Go, requestVars, loopVars
      <4> QED
        BY <3>1, <4>1 DEF TypeInv, TypeOK, OpenInv, SessionsDeletedOnce, Opening,
                          Copied
    <3>2. CASE pSession = 0
      <4>1. made \in {0, 1} /\ (made = 1 => retry) /\ live = {} /\ stream = 0
        BY <2>1, <3>2 DEF OpenSession, Go, TypeInv, TypeOK, OpenInv, Opening,
                          SessionsDeletedOnce
      <4>2. /\ made' = made + 1 /\ pSession' = made + 1 /\ live' = {made + 1}
            /\ stream' = 0 /\ pc' = "opening" /\ retry' = retry
            /\ kind' = "progress"
        BY <1>1, <2>1, <3>2, <4>1 DEF OpenSession, Go, requestVars
      <4> QED
        BY <1>1, <4>1, <4>2
           DEF TypeInv, OpenInv, SessionsDeletedOnce, Opening, Copied,
               requestVars, loopVars
    <3> QED
      BY <3>1, <3>2
  <2>2. CASE OpenContent
    <3>1. /\ pSession # 0 /\ pSession \in live /\ live \subseteq {pSession, 0}
          /\ pSession \in 0 .. 2 /\ made \in 0 .. 2 /\ live \subseteq 1 .. 2
          /\ ~retry => redirects = 0
      BY <2>2 DEF OpenContent, Go, TypeInv, TypeOK, OpenInv,
                  SessionsDeletedOnce, Opening
    <3>2. /\ pc' = "start" /\ stream' = pSession /\ pSession' = 0
          /\ UNCHANGED <<made, live, retry, redirects>>
      BY <1>1, <2>2 DEF OpenContent, Go, requestVars, loopVars
    <3> QED
      BY <3>1, <3>2 DEF OpenInv, SessionsDeletedOnce, Opening, Copied
  <2>3. CASE OpenUseProxy
    BY <1>1, <2>3
       DEF OpenUseProxy, Go, TypeInv, TypeOK, OpenInv, SessionsDeletedOnce,
           Opening, Copied, requestVars, loopVars
  <2>4. CASE OpenAuthorize
    BY <1>1, <2>4
       DEF OpenAuthorize, Go, TypeInv, TypeOK, OpenInv, SessionsDeletedOnce,
           Opening, Copied, requestVars, loopVars, openVars
  <2>5. CASE OpenThrows
    <3>1. /\ stream = 0 /\ live \subseteq {pSession, 0}
          /\ made \in 0 .. 2 /\ live \subseteq 1 .. 2
      <4>1. pc \in Opening
        BY <2>5 DEF OpenThrows, Opening
      <4> QED
        BY <4>1 DEF TypeInv, TypeOK, OpenInv, SessionsDeletedOnce
    <3>2. /\ pc' = "idle" /\ pSession' = 0 /\ live' = live \ {pSession}
          /\ UNCHANGED <<made, stream, retry, redirects>>
      BY <1>1, <2>5 DEF OpenThrows, Return, requestVars, loopVars
    <3>3. live' = {}
      BY <3>1, <3>2
    <3>4. ~retry => redirects = 0
      BY DEF TypeInv, OpenInv
    <3> QED
      BY <3>1, <3>2, <3>3, <3>4 DEF OpenInv, SessionsDeletedOnce, Opening, Copied
  <2>6. CASE kind = "file" /\ FactoryOpen
    <3>1. pSession = 0 /\ stream = 0 /\ live = {} /\ pc = "open"
      <4>1. pc = "open"
        BY <2>6 DEF FactoryOpen, Go
      <4>2. pSession = 0 /\ stream = 0
        BY <2>6, <4>1 DEF TypeInv, OpenInv, Opening
      <4>3. live \subseteq {0} /\ live \subseteq 1 .. 2
        BY <4>2 DEF TypeInv, TypeOK, OpenInv, SessionsDeletedOnce
      <4> QED
        BY <4>1, <4>2, <4>3
    <3>2. /\ UNCHANGED <<made, pSession, live, stream, retry, redirects>>
          /\ pc' \in {"start", "idle"}
      BY <1>1, <2>6 DEF FactoryOpen, Go, Return, openVars, requestVars, loopVars
    <3> QED
      BY <3>1, <3>2 DEF TypeInv, TypeOK, OpenInv, SessionsDeletedOnce, Opening,
                        Copied
  <2> QED
    BY <2>1, <2>2, <2>3, <2>4, <2>5, <2>6 DEF openHttp
<1>4. TypeOK'
  BY <1>1, <1>2, <1>3
     DEF TypeInv, TypeOK, requestVars, settings, sessionVars, loopVars, timerVars
<1> QED
  BY <1>3, <1>4 DEF TypeInv


\* The copy of a download, and the timer beside it, leave the sessions to the
\* stream, which deletes its own.
LEMMA CopyType ==
    ASSUME TypeInv, Copying \/ OnTimer \/ OnTimerReturns
    PROVE  TypeInv'
<1>1. UNCHANGED <<downloadVars, pSession, made>>
  BY DEF Copying, OnTimer, OnTimerReturns, StartTimer, StopTimer, CopyThrows,
         LeaveInner, LeaveOuter, openVars
<1>2. /\ timer' \in {"none", "running", "stopped"}
      /\ handler' \in {"none", "made", "destroyed"}
      /\ inCallback' \in BOOLEAN
  BY DEF Copying, OnTimer, OnTimerReturns, StartTimer, StopTimer, CopyThrows,
         LeaveInner, LeaveOuter, timerVars, TypeInv, TypeOK
<1>3. CASE LeaveOuter
  <2>1. /\ pc' = "idle" /\ stream' = 0 /\ live' = live \ {stream}
        /\ result' \in BOOLEAN /\ pc \notin Opening
    BY <1>3 DEF LeaveOuter, Return, Opening
  <2>2. pSession = 0 /\ live' = {}
    BY <2>1 DEF TypeInv, TypeOK, OpenInv, SessionsDeletedOnce
  <2>3. TypeOK'
    BY <1>1, <1>2, <2>1, <2>2
       DEF TypeInv, TypeOK, Labels, downloadVars, requestVars, settings,
           sessionVars, loopVars
  <2>4. OpenInv'
    <3>1. UNCHANGED <<pSession, retry, redirects>>
      BY <1>1 DEF downloadVars, requestVars, loopVars
    <3>2. ~retry => redirects = 0
      BY DEF TypeInv, OpenInv
    <3> QED
      BY <2>1, <2>2, <3>1, <3>2 DEF OpenInv, SessionsDeletedOnce, Opening, Copied
  <2> QED
    BY <2>3, <2>4 DEF TypeInv
<1>4. CASE ~LeaveOuter
  <2>1. /\ UNCHANGED <<stream, live, result>>
        /\ pc' = pc \/ (pc \in Copied /\ pc' \in Copied)
    <3>1. CASE OnTimer \/ OnTimerReturns
      BY <3>1 DEF OnTimer, OnTimerReturns, openVars
    <3>2. CASE Copying
      BY <1>4, <3>2 DEF Copying, StartTimer, StopTimer, CopyThrows, LeaveInner,
                        openVars, Go, Copied
    <3> QED
      BY <3>1, <3>2
  <2>2. TypeOK'
    BY <1>1, <1>2, <2>1
       DEF TypeInv, TypeOK, Labels, Copied, downloadVars, requestVars, settings,
           sessionVars, loopVars
  <2>3. OpenInv'
    <3>1. UNCHANGED <<pSession, made, stream, live, kind, retry, redirects>>
      BY <1>1, <2>1 DEF downloadVars, requestVars, loopVars
    <3>2. CASE pc' = pc
      BY <3>1, <3>2 DEF TypeInv, OpenInv, SessionsDeletedOnce, Opening, Copied
    <3>3. CASE pc \in Copied /\ pc' \in Copied
      BY <3>1, <3>3 DEF TypeInv, OpenInv, SessionsDeletedOnce, Opening, Copied
    <3> QED
      BY <2>1, <3>2, <3>3
  <2> QED
    BY <2>2, <2>3 DEF TypeInv
<1> QED
  BY <1>3, <1>4

\* The types, and the life of the sessions openHttp makes.
LEMMA TypeAlways == Spec => []TypeInv
<1>1. TypeInv /\ [Next]_vars => TypeInv'
  <2> SUFFICES ASSUME TypeInv, [Next]_vars
               PROVE  TypeInv'
    OBVIOUS
  <2>1. CASE Idle
    BY <2>1, BetweenType, BeginType DEF Idle
  <2>2. CASE Running
    BY <2>2, RequestType, OpenType, CopyType
       DEF Running, SendRequestString, SendRequestVector, SubmitForm,
           DownloadFile, DownloadFileWithProgress
  <2>3. CASE OnTimer \/ OnTimerReturns
    BY <2>3, CopyType
  <2>4. CASE UNCHANGED vars
    <3>1. TypeOK'
      BY <2>4 DEF TypeInv, TypeOK, vars, settings, sessionVars, callVars,
                  loopVars, openVars, timerVars
    <3>2. OpenInv'
      BY <2>4 DEF TypeInv, OpenInv, SessionsDeletedOnce, vars, callVars,
                  loopVars, openVars
    <3> QED
      BY <3>1, <3>2 DEF TypeInv
  <2> QED
    BY <2>1, <2>2, <2>3, <2>4 DEF Next
<1> QED
  BY <1>1, InitType, PTL DEF Spec

\* The fields of HttpClient keep their types, whatever servers answer: no
\* download makes a third session.
THEOREM TypeCorrect == Spec => []TypeOK
<1>1. TypeInv => TypeOK
  BY DEF TypeInv
<1> QED
  BY <1>1, TypeAlways, PTL

\* No session of a download is used after it was deleted, deleted twice or left
\* behind.
THEOREM SessionsAlwaysDeletedOnce == Spec => []SessionsDeletedOnce
<1>1. TypeInv => SessionsDeletedOnce
  BY DEF TypeInv, OpenInv
<1> QED
  BY <1>1, TypeAlways, PTL

-----------------------------------------------------------------------------
(* The response                                                            *)

\* What a request leaves behind when it is repeated is no response, and a
\* download never ends as a request.
ResponseInv ==
    /\ ResponseOfLastCall
    /\ pc \in Requesting => kind \in Requests
    /\ pc \in Opening \cup Copied => kind \in Downloads
    /\ pc = "loop" /\ retry => responseStr = 0

\* A request that ends with TRUE has content of its own, or was repeated.
LEMMA RequestResponse ==
    ASSUME TypeInv, ResponseInv, RequestStep
    PROVE  ResponseInv'
<1>1. UNCHANGED <<calls, kind>> /\ kind \in Requests
  BY DEF RequestStep, InitSession, SendRequest, LoopEnds, UseProxy,
         ReceiveContent, ReceiveError, RequestThrows, Moved, Go, ResponseInv,
         Requesting
<1>2. pc' \in {"loop", "sent", "idle"}
  BY DEF RequestStep, InitSession, SendRequest, LoopEnds, UseProxy,
         ReceiveContent, ReceiveError, RequestThrows, Moved, Go, Return
<1>3. CASE InitSession \/ SendRequest
  <2>1. pc' # "idle" /\ (pc' = "loop" => pc = "init") /\ UNCHANGED retry
    BY <1>3 DEF InitSession, SendRequest, Go
  <2>2. pc' = "loop" => ~retry
    BY <2>1 DEF TypeInv, OpenInv
  <2>3. ~(pc' = "loop" /\ retry')
    BY <2>1, <2>2
  <2> QED
    BY <1>1, <1>2, <2>1, <2>3
       DEF ResponseInv, ResponseOfLastCall, Opening, Copied
<1>4. CASE LoopEnds
  <2>1. pc = "loop" /\ pc' = "idle" /\ UNCHANGED responseStr
    BY <1>4 DEF LoopEnds, Return
  <2>2. redirects = MaxRedirects => retry
    BY Bounds DEF TypeInv, OpenInv
  <2>3. retry
    BY <1>4, <2>2 DEF LoopEnds
  <2>4. responseStr = 0
    BY <2>1, <2>3 DEF ResponseInv
  <2> QED
    BY <1>1, <2>1, <2>4
       DEF ResponseInv, ResponseOfLastCall, Opening, Copied, Requesting
<1>5. CASE ReceiveContent \/ ReceiveError \/ RequestThrows
  <2>1. pc' = "idle" /\ (responseStr' = calls \/ ~result')
    <3>1. CASE ReceiveContent
      BY <3>1 DEF ReceiveContent, Return
    <3>2. CASE ReceiveError \/ RequestThrows
      BY <3>2 DEF ReceiveError, RequestThrows, Return
    <3> QED
      BY <1>5, <3>1, <3>2
  <2> QED
    BY <1>1, <2>1
       DEF ResponseInv, ResponseOfLastCall, Opening, Copied, Requesting
<1>6. ASSUME UseProxy \/ \E t \in Hosts : Moved(t)
      PROVE  ResponseInv'
  <2>1. pc' = "loop" /\ responseStr' = 0
    BY <1>6 DEF UseProxy, Moved, Go
  <2> QED
    BY <1>1, <2>1
       DEF ResponseInv, ResponseOfLastCall, Opening, Copied, Requesting
<1> QED
  BY <1>3, <1>4, <1>5, <1>6 DEF RequestStep

\* A download touches no response and returns as a download.
LEMMA DownloadResponse ==
    ASSUME ResponseInv, DownloadFile \/ DownloadFileWithProgress
    PROVE  ResponseInv'
<1>1. UNCHANGED <<responseStr, calls, kind>> /\ kind \in Downloads
  BY DEF DownloadFile, DownloadFileWithProgress, openHttp, FactoryOpen,
         OpenSession, OpenContent, OpenUseProxy, OpenAuthorize, OpenThrows,
         Copying, StartTimer, StopTimer, CopyThrows, LeaveInner, LeaveOuter,
         downloadVars, requestVars, Downloads
<1>2. pc' \in {"idle", "open", "opening"} \cup Copied
  BY DEF DownloadFile, DownloadFileWithProgress, openHttp, FactoryOpen,
         OpenSession, OpenContent, OpenUseProxy, OpenAuthorize, OpenThrows,
         Copying, StartTimer, StopTimer, CopyThrows, LeaveInner, LeaveOuter,
         Go, Return, Copied
<1> QED
  BY <1>1, <1>2
     DEF ResponseInv, ResponseOfLastCall, Requesting, Requests, Downloads, Copied

\* After a request that succeeded, the response holds its content or nothing.
THEOREM ResponseAlwaysOfLastCall == Spec => []ResponseOfLastCall
<1>1. Init => ResponseInv
  BY DEF Init, ResponseInv, ResponseOfLastCall, Requesting, Opening, Copied
<1>2. TypeInv /\ ResponseInv /\ [Next]_vars => ResponseInv'
  <2> SUFFICES ASSUME TypeInv, ResponseInv, [Next]_vars
               PROVE  ResponseInv'
    OBVIOUS
  <2>1. CASE SetServerHostName \/ SetProxyDetails \/ DestroySession
               \/ ReadResponseAsString
    <3>1. /\ pc = "idle" /\ UNCHANGED <<pc, kind, result, calls>>
          /\ responseStr' \in {responseStr, 0}
      BY <2>1 DEF SetServerHostName, SetProxyDetails, DestroySession,
                  ReadResponseAsString, callVars
    <3> QED
      BY <3>1 DEF ResponseInv, ResponseOfLastCall, Requesting, Opening, Copied
  <2>2. ASSUME NEW k \in Requests \cup Downloads, Begin(k)
        PROVE  ResponseInv'
    <3>1. /\ pc' \in IF k \in Downloads THEN {"open"} ELSE {"loop", "init"}
          /\ kind' = k /\ ~retry'
      BY <2>2 DEF Begin, Go
    <3> QED
      BY <2>2, <3>1
         DEF ResponseInv, ResponseOfLastCall, Requesting, Opening, Copied
  <2>3. CASE Running
    BY <2>3, RequestResponse, DownloadResponse
       DEF Running, SendRequestString, SendRequestVector, SubmitForm
  <2>4. CASE OnTimer \/ OnTimerReturns \/ UNCHANGED vars
    <3>1. UNCHANGED <<pc, kind, result, calls, responseStr, retry>>
      BY <2>4 DEF OnTimer, OnTimerReturns, downloadVars, requestVars, vars,
                  callVars
    <3> QED
      BY <3>1 DEF ResponseInv, ResponseOfLastCall, Requesting, Opening, Copied
  <2> QED
    BY <2>1, <2>2, <2>3, <2>4 DEF Next, Idle
<1>3. ResponseInv => ResponseOfLastCall
  BY DEF ResponseInv
<1> QED
  BY <1>1, <1>2, <1>3, TypeAlways, PTL DEF Spec

-----------------------------------------------------------------------------
(* The settings                                                            *)

\* As long as nothing has been excused, a session the flag speaks of is the one
\* that is configured.
ConfiguredInv ==
    /\ ~excused /\ initialized => session = Configured
    /\ pc = "loop" /\ ~excused /\ ~retry => initialized
    /\ pc = "sent" /\ ~excused => initialized /\ ~named
    /\ named => retry

\* The session of Configured is a session, and has the fields it was made with.
LEMMA ConfiguredSession ==
    ASSUME TypeInv
    PROVE  /\ Configured # NoSession
           /\ Configured.host = serverHostName
           /\ Configured.via = IF useProxy /\ proxy # "none" THEN "proxy"
                               ELSE "direct"
           /\ Configured.password = (useProxy /\ proxy = "password")
<1>1. serverHostName \in Hosts /\ useProxy \in BOOLEAN
  BY DEF TypeInv, TypeOK
<1>2. CASE useProxy /\ proxy # "none"
  <2>1. Configured = [host |-> serverHostName, via |-> "proxy",
                      password |-> proxy = "password"]
    BY <1>2 DEF Configured, NewSession
  <2>2. (proxy = "password") \in BOOLEAN
    OBVIOUS
  <2>3. Configured \in [host : Hosts, via : {"direct", "proxy", "named"},
                        password : BOOLEAN]
    BY <1>1, <2>1, <2>2
  <2>4. Configured # NoSession
    BY <2>3, HttpAssumption DEF HttpAssumption
  <2>5. /\ Configured.host = serverHostName /\ Configured.via = "proxy"
        /\ Configured.password = (proxy = "password")
    BY <2>1
  <2> QED
    BY <1>2, <2>4, <2>5
<1>3. CASE ~(useProxy /\ proxy # "none")
  <2>1. Configured = [host |-> serverHostName, via |-> "direct",
                      password |-> FALSE]
    BY <1>3 DEF Configured, NewSession
  <2>2. Configured \in [host : Hosts, via : {"direct", "proxy", "named"},
                        password : BOOLEAN]
    BY <1>1, <2>1
  <2>3. Configured # NoSession
    BY <2>2, HttpAssumption DEF HttpAssumption
  <2>4. /\ Configured.host = serverHostName /\ Configured.via = "direct"
        /\ Configured.password = FALSE
    BY <2>1
  <2>5. (useProxy /\ proxy = "password") = FALSE
    BY <1>3
  <2> QED
    BY <1>3, <2>3, <2>4, <2>5
<1> QED
  BY <1>2, <1>3

\* A turn of the loop leaves a configured session as it is.
LEMMA LoopKeepsConfigured ==
    ASSUME TypeInv, session = Configured, ~named
    PROVE  LoopSession = Configured
<1>1. session # NoSession
  BY ConfiguredSession
<1>2. CASE useProxy /\ proxy # "none"
  BY <1>1, <1>2 DEF LoopSession, Configured, NewSession
<1>3. CASE ~(useProxy /\ proxy # "none")
  BY <1>1, <1>3 DEF LoopSession, Configured, NewSession
<1> QED
  BY <1>2, <1>3

\* The steps that end a session clear the flag, those that fail to make one are
\* excused.
LEMMA ConfiguredStep ==
    ASSUME TypeInv, ConfiguredInv, [Next]_vars
    PROVE  ConfiguredInv'
<1>1. CASE SetServerHostName \/ SetProxyDetails \/ DestroySession
  <2>1. excused' /\ UNCHANGED <<pc, named, retry>>
    BY <1>1 DEF SetServerHostName, SetProxyDetails, DestroySession, callVars,
                loopVars
  <2> QED
    BY <2>1 DEF ConfiguredInv
<1>2. CASE InitSession
  <2>1. excused' \/ (session' = Configured /\ initialized')
    BY <1>2 DEF InitSession
  <2>2. UNCHANGED settings /\ pc' = "loop" /\ UNCHANGED <<named, retry>>
    BY <1>2 DEF InitSession, Go, loopVars
  <2>3. Configured' = Configured
    BY <2>2 DEF Configured, settings
  <2> QED
    BY <2>1, <2>2, <2>3 DEF ConfiguredInv
<1>3. CASE SendRequest
  <2>1. /\ UNCHANGED <<settings, initialized, excused, named, retry>>
        /\ pc = "loop" /\ pc' = "sent" /\ ~retry /\ session' = LoopSession
    BY <1>3 DEF SendRequest, Go, loopVars
  <2>2. Configured' = Configured
    BY <2>1 DEF Configured, settings
  <2>3. ~excused => initialized /\ ~named /\ session = Configured
    BY <2>1 DEF ConfiguredInv
  <2> QED
    BY <2>1, <2>2, <2>3, LoopKeepsConfigured DEF ConfiguredInv
<1>4. ASSUME UseProxy \/ \E t \in Hosts : Moved(t)
      PROVE  ConfiguredInv'
  <2>1. ~initialized' /\ retry' /\ pc' = "loop"
    BY <1>4 DEF UseProxy, Moved, Go
  <2> QED
    BY <2>1 DEF ConfiguredInv
<1>5. ASSUME NEW k \in Requests \cup Downloads, Begin(k)
      PROVE  ConfiguredInv'
  <2>1. /\ UNCHANGED <<settings, session, initialized, excused>>
        /\ pc' \in {"open", "loop", "init"} /\ ~named' /\ ~retry'
        /\ pc' = "loop" => initialized
    BY <1>5 DEF Begin, Go, sessionVars
  <2>2. Configured' = Configured
    BY <2>1 DEF Configured, settings
  <2> QED
    BY <2>1, <2>2 DEF ConfiguredInv
<1>6. ASSUME /\ UNCHANGED <<settings, sessionVars, named>>
             /\ pc' \notin {"loop", "sent"} \/ pc' = pc
             /\ retry' = retry \/ retry'
             /\ pc' = pc => retry' = retry
      PROVE  ConfiguredInv'
  <2>1. Configured' = Configured
    BY <1>6 DEF Configured, settings
  <2> QED
    BY <1>6, <2>1 DEF ConfiguredInv, sessionVars
<1>7. CASE ReadResponseAsString \/ LoopEnds \/ ReceiveContent \/ ReceiveError
             \/ RequestThrows \/ OnTimer \/ OnTimerReturns \/ UNCHANGED vars
  <2>1. UNCHANGED <<settings, sessionVars, named, retry>>
    BY <1>7 DEF ReadResponseAsString, LoopEnds, ReceiveContent, ReceiveError,
                RequestThrows, OnTimer, OnTimerReturns, vars, downloadVars,
                requestVars, callVars, loopVars
  <2>2. pc' \notin {"loop", "sent"} \/ pc' = pc
    BY <1>7 DEF ReadResponseAsString, LoopEnds, ReceiveContent, ReceiveError,
                RequestThrows, OnTimer, OnTimerReturns, vars, callVars, Return
  <2> QED
    BY <1>6, <2>1, <2>2
<1>8. CASE openHttp \/ FactoryOpen \/ Copying
  <2>1. /\ UNCHANGED <<settings, sessionVars, named>>
        /\ retry' = retry \/ retry'
    BY <1>8 DEF openHttp, FactoryOpen, OpenSession, OpenContent, OpenUseProxy,
                OpenAuthorize, OpenThrows, Copying, StartTimer, StopTimer,
                CopyThrows, LeaveInner, LeaveOuter, downloadVars, requestVars,
                loopVars
  <2>2. pc' \notin {"loop", "sent"} /\ pc' # pc
    BY <1>8 DEF openHttp, FactoryOpen, OpenSession, OpenContent, OpenUseProxy,
                OpenAuthorize, OpenThrows, Copying, StartTimer, StopTimer,
                CopyThrows, LeaveInner, LeaveOuter, Go, Return
  <2> QED
    BY <1>6, <2>1, <2>2
<1> QED
  BY <1>1, <1>2, <1>3, <1>4, <1>5, <1>7, <1>8
     DEF Next, Idle, Running, SendRequestString, SendRequestVector, SubmitForm,
         RequestStep, DownloadFile, DownloadFileWithProgress

\* Requests go out with the settings that are made, after whatever redirects and
\* exceptions.
THEOREM AlwaysAsConfigured == Spec => []RequestAsConfigured
<1>1. Init => ConfiguredInv
  BY DEF Init, ConfiguredInv
<1>2. TypeInv /\ ConfiguredInv /\ [Next]_vars => ConfiguredInv'
  BY ConfiguredStep
<1>3. TypeInv /\ ConfiguredInv => RequestAsConfigured
  BY ConfiguredSession DEF ConfiguredInv, RequestAsConfigured
<1> QED
  BY <1>1, <1>2, <1>3, TypeAlways, PTL DEF Spec

-----------------------------------------------------------------------------
(* The timer                                                               *)

\* The timer runs from StartTimer to StopTimer, or to the end of the scope when
\* the copy throws; a callback runs only while it does.
TimerInv ==
    /\ pc \notin Copied \ {"start"} => timer = "none"
    /\ timer = "running" => pc \in {"copy", "unwinding", "unwound"}
    /\ timer = "running" /\ pc # "unwound" => handler = "made"
    /\ inCallback => timer = "running"

\* A callback has its handler, but for one that runs while a copy's exception
\* leaves the scope.
THEOREM CallbackAlwaysOnHandler == Spec => []CallbackOnLiveHandler
<1>1. Init => TimerInv
  BY DEF Init, TimerInv
<1>2. TimerInv /\ [Next]_vars => TimerInv'
  <2> SUFFICES ASSUME TimerInv, [Next]_vars
               PROVE  TimerInv'
    OBVIOUS
  <2>1. CASE Idle \/ RequestStep \/ openHttp \/ FactoryOpen \/ UNCHANGED vars
    <3>1. UNCHANGED timerVars
      BY <2>1 DEF Idle, SetServerHostName, SetProxyDetails, DestroySession,
                  ReadResponseAsString, Begin, RequestStep, InitSession,
                  SendRequest, LoopEnds, UseProxy, ReceiveContent, ReceiveError,
                  RequestThrows, Moved, openHttp, FactoryOpen, OpenSession,
                  OpenContent, OpenUseProxy, OpenAuthorize, OpenThrows, vars
    <3>2. pc' = pc \/ pc \notin Copied \ {"start"}
      BY <2>1 DEF Idle, SetServerHostName, SetProxyDetails, DestroySession,
                  ReadResponseAsString, Begin, RequestStep, InitSession,
                  SendRequest, LoopEnds, UseProxy, ReceiveContent, ReceiveError,
                  RequestThrows, Moved, openHttp, FactoryOpen, OpenSession,
                  OpenContent, OpenUseProxy, OpenAuthorize, OpenThrows, vars,
                  callVars, Go, Copied
    <3> QED
      BY <3>1, <3>2 DEF TimerInv, timerVars
  <2>2. ASSUME NEW w \in BOOLEAN, StartTimer(w)
        PROVE  TimerInv'
    BY <2>2 DEF StartTimer, Go, TimerInv, Copied
  <2>3. CASE OnTimer \/ OnTimerReturns
    BY <2>3 DEF OnTimer, OnTimerReturns, TimerInv
  <2>4. CASE StopTimer
    BY <2>4 DEF StopTimer, Go, TimerInv, Copied
  <2>5. CASE CopyThrows
    BY <2>5 DEF CopyThrows, Go, TimerInv, timerVars, Copied
  <2>6. CASE LeaveInner
    BY <2>6 DEF LeaveInner, Go, TimerInv, Copied
  <2>7. CASE LeaveOuter
    BY <2>7 DEF LeaveOuter, Return, TimerInv
  <2> QED
    BY <2>1, <2>2, <2>3, <2>4, <2>5, <2>6, <2>7
       DEF Next, Running, SendRequestString, SendRequestVector, SubmitForm,
           DownloadFile, DownloadFileWithProgress, Copying
<1>3. TimerInv => CallbackOnLiveHandler
  BY DEF TimerInv, CallbackOnLiveHandler, Copied
<1> QED
  BY <1>1, <1>2, <1>3, PTL DEF Spec
=============================================================================
