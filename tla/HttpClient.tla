----------------------------- MODULE HttpClient -----------------------------
(***************************************************************************)
(* HttpClientConnection: the requests, with their session and the loop for *)
(* redirects, and the downloads, with the sessions of openHttp and         *)
(* openHttps and the timer that reports the progress.                      *)
(*                                                                         *)
(* One thread calls; the callbacks of the timer run on POCO's.  The server *)
(* gives any answer, and every call of POCO may throw.                     *)
(***************************************************************************)
EXTENDS Naturals

CONSTANTS
    Hosts,          \* servers the connection may be set to, or redirected to
    NoSession,
    MaxRedirects,   \* MAX_REDIRECTION_RETRY_COUNT
    MaxCalls        \* bound: requests and downloads

ASSUME HttpAssumption ==
    /\ Hosts # {}
    /\ NoSession \notin [host : Hosts, via : {"direct", "proxy", "named"},
                          password : BOOLEAN]
    /\ MaxRedirects \in Nat \ {0}
    /\ MaxCalls \in Nat

VARIABLES
    serverHostName,
    useProxy,       \* _buseProxy
    proxy,          \* the proxy's details: "none", "open", "password"
    session,        \* _pHttpClientSession
    initialized,    \* b_session_initialized_with_target
    responseStr,    \* the call whose content it holds, 0 when empty
    excused,        \* since InitSession it has failed or the settings changed
    calls,          \* calls so far
    pc,             \* where the call is
    kind,           \* which call it is, or was
    target,         \* the host of resolvedURI
    named,          \* proxyUri is set
    redirects,      \* redirectiocount
    retry,
    authorize,
    answer,         \* the last answer of the server
    result,         \* what the call returned
    pSession,       \* the session of openHttp, 0 for a null pointer
    stream,         \* the session the stream returned by openHttp has taken
    made,           \* sessions openHttp has made in this call
    live,           \* those not deleted
    timer,          \* the Timer of DownloadFileWithProgress
    handler,        \* its FileProgressHandler
    inCallback      \* onTimer is running

settings == <<serverHostName, useProxy, proxy>>
sessionVars == <<session, initialized, excused>>
loopVars == <<target, named, redirects, answer>>
openVars == <<pSession, stream, made, live>>
timerVars == <<timer, handler, inCallback>>
callVars == <<pc, kind, loopVars, retry, authorize, result>>
vars == <<settings, sessionVars, responseStr, calls, callVars, openVars, timerVars>>

NewSession(h, v, p) == [host |-> h, via |-> v, password |-> p]
Sessions == [host : Hosts, via : {"direct", "proxy", "named"}, password : BOOLEAN]

\* The requests, and the downloads.
Requests == {"string", "vector", "form"}
Downloads == {"file", "progress"}

Init ==
    /\ serverHostName \in Hosts
    /\ useProxy \in BOOLEAN
    /\ proxy \in {"none", "open", "password"}
    /\ session = NoSession /\ initialized = FALSE /\ excused = FALSE
    /\ responseStr = 0
    /\ calls = 0
    /\ pc = "idle" /\ kind = "string"
    /\ target = serverHostName /\ named = FALSE /\ redirects = 0
    /\ answer = "none"
    /\ retry = FALSE /\ authorize = FALSE /\ result = FALSE
    /\ pSession = 0 /\ stream = 0 /\ made = 0 /\ live = {}
    /\ timer = "none" /\ handler = "none" /\ inCallback = FALSE

\* The call goes on at a label, or returns r.
Go(from, to) == pc = from /\ pc' = to
Return(r) == pc' = "idle" /\ result' = r

-----------------------------------------------------------------------------
(* Between the calls                                                       *)

SetServerHostName ==
    /\ pc = "idle"
    /\ serverHostName' \in Hosts
    /\ excused' = TRUE
    /\ UNCHANGED <<useProxy, proxy, session, initialized, responseStr, calls,
                   callVars, openVars, timerVars>>

SetProxyDetails ==
    /\ pc = "idle"
    /\ proxy' \in {"none", "open", "password"}
    /\ useProxy' \in BOOLEAN
    /\ excused' = TRUE
    /\ UNCHANGED <<serverHostName, session, initialized, responseStr, calls,
                   callVars, openVars, timerVars>>

\* The flag stays as it is: the next request makes a session of its own.
DestroySession ==
    /\ pc = "idle"
    /\ session' = NoSession
    /\ excused' = TRUE
    /\ UNCHANGED <<settings, initialized, responseStr, calls, callVars, openVars,
                   timerVars>>

ReadResponseAsString ==
    /\ pc = "idle"
    /\ responseStr' = 0
    /\ UNCHANGED <<settings, sessionVars, calls, callVars, openVars, timerVars>>

-----------------------------------------------------------------------------
(* Requests                                                                *)

\* A call starts; its URL names the server that is set at this time.
Begin(k) ==
    /\ Go("idle", IF k \in Downloads THEN "open"
                  ELSE IF initialized THEN "loop" ELSE "init")
    /\ calls < MaxCalls
    /\ calls' = calls + 1
    /\ kind' = k
    /\ target' = serverHostName /\ named' = FALSE /\ redirects' = 0
    /\ answer' = "none"
    /\ retry' = FALSE /\ authorize' = FALSE /\ result' = FALSE
    /\ made' = 0
    /\ UNCHANGED <<settings, sessionVars, responseStr, pSession, stream, live,
                   timerVars>>

\* The session InitSession and ConfigureProxy make together.
Configured ==
    IF useProxy /\ proxy # "none"
    THEN NewSession(serverHostName, "proxy", proxy = "password")
    ELSE NewSession(serverHostName, "direct", FALSE)

\* The session is for the server set now.  If ConfigureProxy fails this is logged
\* only; if making the session throws, it and the flag stay as they are, and the
\* caller goes on all the same.
InitSession ==
    /\ Go("init", "loop")
    /\ \/ session' = Configured /\ initialized' = TRUE /\ excused' = FALSE
       \/ /\ useProxy
          /\ session' = NewSession(serverHostName, "direct", FALSE)
          /\ initialized' = TRUE /\ excused' = TRUE
       \/ UNCHANGED <<session, initialized>> /\ excused' = TRUE
    /\ UNCHANGED <<settings, responseStr, calls, kind, loopVars, retry,
                   authorize, result, openVars, timerVars>>

\* The session the loop sends the request on: made if there is none, and set to
\* the proxy.
LoopSession ==
    LET none == session = NoSession
        h == IF none THEN target ELSE session.host
        v == IF none THEN "direct" ELSE session.via
        p == IF none THEN FALSE ELSE session.password
    IN NewSession(h, IF named THEN "named"
                     ELSE IF ~useProxy THEN v
                     ELSE IF proxy = "none" THEN "direct" ELSE "proxy", p)

\* A turn of the loop up to the request.
SendRequest ==
    /\ Go("loop", "sent")
    /\ redirects < MaxRedirects
    /\ ~retry
    /\ session' = LoopSession
    /\ UNCHANGED <<settings, initialized, excused, responseStr, calls, kind,
                   loopVars, retry, authorize, result, openVars, timerVars>>

\* The end of the loop, with or without content.
LoopEnds ==
    /\ pc = "loop"
    /\ redirects = MaxRedirects \/ retry
    /\ Return(TRUE)
    /\ UNCHANGED <<settings, sessionVars, responseStr, calls, kind, loopVars,
                   retry, authorize, openVars, timerVars>>

\* Variant: a redirect leaves the flag set.
MovedInitialized(t) ==
    /\ Go("sent", "loop")
    /\ answer' = "moved"
    /\ responseStr' = 0
    /\ session' = NoSession
    /\ target' = t /\ redirects' = redirects + 1 /\ retry' = TRUE
    /\ UNCHANGED <<settings, initialized, excused, calls, kind, named, authorize,
                   result, openVars, timerVars>>

\* Variant: a redirect is neither counted nor noted.
MovedUncounted(t) ==
    /\ Go("sent", "loop")
    /\ answer' = "moved"
    /\ responseStr' = 0
    /\ session' = NoSession /\ initialized' = FALSE
    /\ target' = t
    /\ UNCHANGED <<settings, excused, calls, kind, named, redirects, retry,
                   authorize, result, openVars, timerVars>>

\* Variant: the response of an earlier call is kept.
MovedUncleared(t) ==
    /\ Go("sent", "loop")
    /\ answer' = "moved"
    /\ session' = NoSession /\ initialized' = FALSE
    /\ target' = t /\ redirects' = redirects + 1 /\ retry' = TRUE
    /\ UNCHANGED <<settings, excused, responseStr, calls, kind, named, authorize,
                   result, openVars, timerVars>>

\* The answer redirects to t.
Moved(t) ==
    /\ Go("sent", "loop")
    /\ answer' = "moved"
    /\ responseStr' = 0
    /\ session' = NoSession /\ initialized' = FALSE
    /\ target' = t /\ redirects' = redirects + 1 /\ retry' = TRUE
    /\ UNCHANGED <<settings, excused, calls, kind, named, authorize, result,
                   openVars, timerVars>>

\* The answer names the proxy to use.
UseProxy ==
    /\ Go("sent", "loop")
    /\ answer' = "useproxy"
    /\ responseStr' = 0
    /\ session' = NoSession /\ initialized' = FALSE
    /\ named' = TRUE /\ retry' = TRUE
    /\ UNCHANGED <<settings, excused, calls, kind, target, redirects, authorize,
                   result, openVars, timerVars>>

\* The answer has the content.
ReceiveContent ==
    /\ pc = "sent"
    /\ answer' = "ok"
    /\ responseStr' = calls
    /\ Return(TRUE)
    /\ UNCHANGED <<settings, sessionVars, calls, kind, target, named, redirects,
                   retry, authorize, openVars, timerVars>>

\* The answer is an error.
ReceiveError ==
    /\ pc = "sent"
    /\ answer' = "other"
    /\ responseStr' = 0
    /\ Return(FALSE)
    /\ UNCHANGED <<settings, sessionVars, calls, kind, target, named, redirects,
                   retry, authorize, openVars, timerVars>>

\* An exception before or after the old response was cleared.  Session and flag
\* stay as they are.
RequestThrows ==
    /\ pc = "sent"
    /\ responseStr' \in {responseStr, 0}
    /\ Return(FALSE)
    /\ UNCHANGED <<settings, sessionVars, calls, kind, loopVars, retry,
                   authorize, openVars, timerVars>>

\* The code has this loop three times, once for each kind of request.
RequestStep ==
    \/ InitSession \/ SendRequest \/ LoopEnds \/ UseProxy \/ ReceiveContent
    \/ ReceiveError \/ RequestThrows
    \/ \E t \in Hosts : Moved(t)

SendRequestString == kind = "string" /\ RequestStep
SendRequestVector == kind = "vector" /\ RequestStep
SubmitForm == kind = "form" /\ RequestStep

-----------------------------------------------------------------------------
(* Downloads                                                               *)

requestVars == <<settings, sessionVars, responseStr, calls, kind, loopVars>>

\* openHttp: a new session if there is none, for the server or the proxy the
\* answer has named.
OpenSession ==
    /\ Go("open", "opening")
    /\ IF pSession # 0 THEN UNCHANGED <<made, pSession, live>>
       ELSE made' = made + 1 /\ pSession' = made' /\ live' = live \cup {made'}
    /\ UNCHANGED <<requestVars, retry, authorize, result, stream, timerVars>>

\* 200: the stream that is returned takes the session.
OpenContent ==
    /\ Go("opening", "start")
    /\ stream' = pSession
    /\ pSession' = 0
    /\ UNCHANGED <<requestVars, retry, authorize, result, made, live, timerVars>>

\* Variant: the pointer keeps the address of the deleted session.
OpenUseProxyDangling ==
    /\ Go("opening", "open")
    /\ ~retry
    /\ retry' = TRUE
    /\ live' = live \ {pSession}
    /\ UNCHANGED <<requestVars, authorize, result, pSession, stream, made, timerVars>>

\* 305, once and not after a 401: the session is deleted.
OpenUseProxy ==
    /\ Go("opening", "open")
    /\ ~retry
    /\ retry' = TRUE
    /\ live' = live \ {pSession}
    /\ pSession' = 0
    /\ UNCHANGED <<requestVars, authorize, result, stream, made, timerVars>>

\* 401, once: the same session is asked again, with the credentials of the URL.
OpenAuthorize ==
    /\ Go("opening", "open")
    /\ ~authorize
    /\ authorize' = TRUE /\ retry' = TRUE
    /\ UNCHANGED <<requestVars, result, openVars, timerVars>>

\* A redirect, any other answer, or an exception of POCO: the session is deleted
\* and the exception goes on to the download, which returns false.
OpenThrows ==
    /\ pc \in {"open", "opening"}
    /\ live' = live \ {pSession}
    /\ pSession' = 0
    /\ Return(FALSE)
    /\ UNCHANGED <<requestVars, retry, authorize, stream, made, timerVars>>

\* DownloadFile leaves all this to POCO's stream factory.
FactoryOpen ==
    /\ \/ Go("open", "start") /\ UNCHANGED result
       \/ pc = "open" /\ Return(FALSE)
    /\ UNCHANGED <<requestVars, retry, authorize, openVars, timerVars>>

downloadVars == <<requestVars, retry, authorize>>

\* DownloadFileWithProgress starts the timer if the caller wants reports;
\* DownloadFile does not, and neither does a call without a callback.
StartTimer(wanted) ==
    /\ Go("start", "copy")
    /\ wanted => kind = "progress"
    /\ timer' = IF wanted THEN "running" ELSE "none"
    /\ handler' = IF wanted THEN "made" ELSE "none"
    /\ UNCHANGED <<downloadVars, result, openVars, inCallback>>

\* FileProgressHandler::onTimer, on a thread of the timer.
OnTimer ==
    /\ timer = "running"
    /\ ~inCallback
    /\ inCallback' = TRUE
    /\ UNCHANGED <<downloadVars, pc, result, openVars, timer, handler>>

OnTimerReturns ==
    /\ inCallback
    /\ inCallback' = FALSE
    /\ UNCHANGED <<downloadVars, pc, result, openVars, timer, handler>>

\* Variant: the timer is not stopped before the scope ends.
StopTimerNot ==
    /\ Go("copy", "copied")
    /\ UNCHANGED <<downloadVars, result, openVars, timerVars>>

\* Timer::stop, after the copy, waits for a callback that is running.
StopTimer ==
    /\ Go("copy", "copied")
    /\ ~inCallback
    /\ timer' = IF timer = "running" THEN "stopped" ELSE timer
    /\ UNCHANGED <<downloadVars, result, openVars, handler, inCallback>>

\* copyStream throws, and the timer goes on.
CopyThrows ==
    /\ Go("copy", "unwinding")
    /\ UNCHANGED <<downloadVars, result, openVars, timerVars>>

\* The end of the inner block, in which the handler was declared ...
LeaveInner ==
    /\ Go("copied", "leaving") \/ Go("unwinding", "unwound")
    /\ handler' = IF handler = "made" THEN "destroyed" ELSE handler
    /\ UNCHANGED <<downloadVars, result, openVars, timer, inCallback>>

\* ... and of the outer one, in which the timer was: its destructor stops it.
\* The stream goes as well, and with it the session.
LeaveOuter ==
    /\ pc \in {"leaving", "unwound"}
    /\ ~inCallback
    /\ timer' = "none" /\ handler' = "none"
    /\ live' = live \ {stream}
    /\ stream' = 0
    /\ Return(pc = "leaving")
    /\ UNCHANGED <<downloadVars, pSession, made, inCallback>>

openHttp ==
    OpenSession \/ OpenContent \/ OpenUseProxy \/ OpenAuthorize \/ OpenThrows
Copying ==
    \/ StopTimer \/ CopyThrows \/ LeaveInner \/ LeaveOuter
    \/ \E w \in BOOLEAN : StartTimer(w)

DownloadFile == kind = "file" /\ (FactoryOpen \/ Copying)
DownloadFileWithProgress == kind = "progress" /\ (openHttp \/ Copying)

-----------------------------------------------------------------------------
Idle ==
    \/ SetServerHostName \/ SetProxyDetails \/ DestroySession
    \/ ReadResponseAsString
    \/ \E k \in Requests \cup Downloads : Begin(k)

Running ==
    SendRequestString \/ SendRequestVector \/ SubmitForm \/ DownloadFile
    \/ DownloadFileWithProgress

Next == Idle \/ Running \/ OnTimer \/ OnTimerReturns

Spec == Init /\ [][Next]_vars

\* A call that was begun goes on, answers and time-outs included, and a callback
\* returns.  Timer::stop, which waits for it, is not kept from its turn for ever
\* by callbacks that come again and again.
FairSpec == Spec /\ WF_vars(Running) /\ SF_vars(StopTimer) /\ SF_vars(LeaveOuter)
                 /\ WF_vars(OnTimerReturns)

-----------------------------------------------------------------------------
(* Properties                                                              *)

Labels == {"idle", "init", "loop", "sent", "open", "opening", "start", "copy",
           "copied", "unwinding", "leaving", "unwound"}

\* The fields hold values of their types, and no download makes more than two
\* sessions, since the loop of openHttp repeats once for a proxy and once for the
\* credentials.
TypeOK ==
    /\ serverHostName \in Hosts
    /\ useProxy \in BOOLEAN
    /\ proxy \in {"none", "open", "password"}
    /\ session \in Sessions \cup {NoSession}
    /\ initialized \in BOOLEAN
    /\ excused \in BOOLEAN
    /\ calls \in 0 .. MaxCalls
    /\ responseStr \in 0 .. MaxCalls
    /\ pc \in Labels /\ kind \in Requests \cup Downloads
    /\ target \in Hosts /\ named \in BOOLEAN /\ redirects \in 0 .. MaxRedirects
    /\ answer \in {"none", "ok", "moved", "useproxy", "other"}
    /\ retry \in BOOLEAN /\ authorize \in BOOLEAN /\ result \in BOOLEAN
    /\ pSession \in 0 .. 2 /\ stream \in 0 .. 2 /\ made \in 0 .. 2
    /\ live \subseteq 1 .. 2
    /\ timer \in {"none", "running", "stopped"}
    /\ handler \in {"none", "made", "destroyed"}
    /\ inCallback \in BOOLEAN

\* What ReadResponseAsString returns after a request that succeeded is the
\* content of this request or nothing, never that of an earlier one, whichever
\* of the requests before failed, threw or were not read.
ResponseOfLastCall ==
    pc = "idle" /\ kind \in Requests /\ result
        => responseStr \in {0, calls}

\* A request goes to the server, through the proxy and with the password that are
\* configured, whatever redirects and exceptions came before; except after the
\* application has changed the settings or destroyed the session, and after
\* InitSession has failed, since all of these leave the flag and thus the old
\* session or one without a password in place.
RequestAsConfigured ==
    pc = "sent" /\ ~excused =>
        /\ session.host = serverHostName
        /\ session.via = IF useProxy /\ proxy # "none" THEN "proxy" ELSE "direct"
        /\ session.password = (useProxy /\ proxy = "password")

\* openHttp neither uses nor deletes a session that was deleted, and when the
\* download has returned all its sessions are gone, also after a proxy was named,
\* a redirect was thrown or the copy has failed.
SessionsDeletedOnce ==
    /\ pSession # 0 => pSession \in live
    /\ stream # 0 => stream \in live
    /\ live \subseteq {pSession, stream}
    /\ pc = "idle" => live = {}

\* onTimer runs on a handler that exists and only while the download does: the
\* timer is stopped, and a callback waited for, before the handler goes out of
\* scope.  When the copy throws it is not: the handler, declared in the inner
\* block, is destroyed before the timer.
CallbackOnLiveHandler ==
    inCallback => pc # "idle" /\ (handler = "made" \/ pc = "unwound")

\* A call returns: the loop for redirects and that of openHttp end whatever the
\* servers answer, and the timer is stopped in the end.
CallsReturn == pc # "idle" ~> pc = "idle"

\* "Let the loop run for max redirection retry count, incase of any normal
\* redirection or proxy retry error messages": a request that succeeds was
\* answered with the content or redirected that often.  The code ends the loop at
\* the first redirect.
RepeatedUntilAnswered ==
    pc = "idle" /\ result /\ kind \in Requests
        => answer = "ok" \/ redirects = MaxRedirects
=============================================================================
