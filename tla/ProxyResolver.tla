--------------------------- MODULE ProxyResolver ---------------------------
(***************************************************************************)
(* ProxyResolver, which finds the proxies for a URL and hands them out one *)
(* after the other, and SendRequestWithProxyFailover, the loop that uses   *)
(* it.                                                                     *)
(*                                                                         *)
(* WinHTTP gives any answer.  WinHttpProxyResolver.cpp defines WINVER as   *)
(* 0x0501, so what it has for later versions is not compiled; m_fExtendedAPI *)
(* is still true where winhttp.dll exports WinHttpCreateProxyResolver.     *)
(***************************************************************************)
EXTENDS Naturals, Sequences

CONSTANTS
    MaxList,        \* bound: characters of a list of proxies
    DwordRange,     \* 2^32, the values of a DWORD
    MaxSends        \* bound: requests sent with one resolver

ASSUME ResolverAssumption ==
    /\ MaxList \in Nat \ {0}
    /\ DwordRange \in Nat \ {0, 1}
    /\ MaxSends \in Nat

VARIABLES
    extendedAPI,    \* m_fExtendedAPI
    init,           \* m_fInit
    returnedFirst,  \* m_fReturnedFirstProxy
    returnedLast,   \* m_fReturnedLastProxy
    failOverValid,  \* m_fProxyFailOverValid
    proxyInfo,      \* m_wpiProxyInfo.lpszProxy
    proxyCursor,    \* m_pwszProxyCursor, 0 for NULL
    dwProxyCursor,  \* m_dwProxyCursor
    config,         \* ProxyConfig, the user's settings
    autoLogon,      \* fAutoLogonIfChallenged
    outcome,        \* what each automatic mechanism has ended with
    source,         \* the mechanism the proxies are from
    pc,
    requestError,   \* dwRequestError
    offered,        \* the proxies set on the request, by position in the list
    answered,       \* the request got its response
    result,         \* what the request returned
    sends           \* requests so far

cursorVars == <<returnedFirst, returnedLast, proxyCursor, dwProxyCursor>>
resolvedVars == <<init, failOverValid, proxyInfo, source>>
resolvingVars == <<config, autoLogon, outcome>>
requestVars == <<requestError, offered, answered, result, sends>>
vars == <<extendedAPI, cursorVars, resolvedVars, resolvingVars, pc, requestVars>>

\* A list has names and separators; of a name only its being one matters.  A list
\* that WinHTTP returns begins with a name; <<>> is a null pointer.
NoList == <<>>
Chars == {"name", ";", " "}
Lists == {l \in UNION {[1 .. n -> Chars] : n \in 1 .. MaxList} : l[1] = "name"}

Automatic == {"detect", "config"}

\* The errors of WinHttpGetProxyForUrl, and those of a request: "connect" stands
\* for the four that may be the proxy's fault.
LookupErrors == {"login", "recoverable", "fatal"}
RequestErrors == {"connect", "other"}

IsRecoverableAutoProxyError(e) == e \in {"success", "login", "recoverable"}
IsErrorValidForProxyFailover(e) == e = "connect"
IsWhitespace(c) == c = " "

\* The resolver was constructed; the locals of the request are unset.
Init ==
    /\ extendedAPI \in BOOLEAN
    /\ init = FALSE
    /\ returnedFirst = FALSE /\ returnedLast = FALSE
    /\ failOverValid = FALSE
    /\ proxyInfo = NoList /\ proxyCursor = 0 /\ dwProxyCursor = 0
    /\ source = "none"
    /\ config = [autoDetect |-> FALSE, autoConfigUrl |-> FALSE, proxy |-> NoList]
    /\ autoLogon = FALSE
    /\ outcome = [m \in Automatic |-> "untried"]
    /\ pc = "resolve"
    /\ requestError = "success" /\ offered = <<>>
    /\ answered = FALSE /\ result = "none" /\ sends = 0

-----------------------------------------------------------------------------
(* ResolveProxy                                                            *)

\* Where it goes on after automatic detection, and without it.
AfterDetect(c) == IF c.autoConfigUrl THEN "config" ELSE "static"

\* The user's settings are read; if there are none, detection is tried.
GetIEProxyConfig ==
    /\ pc = "resolve"
    /\ \/ \E d, u \in BOOLEAN, l \in Lists \cup {NoList} :
             config' = [autoDetect |-> d, autoConfigUrl |-> u, proxy |-> l]
       \/ config' = [config EXCEPT !.autoDetect = TRUE]
    /\ pc' = IF config'.autoDetect THEN "detect" ELSE AfterDetect(config')
    /\ UNCHANGED <<extendedAPI, cursorVars, resolvedVars, autoLogon, outcome,
                   requestVars>>

GetIEProxyConfigFails ==
    /\ pc = "resolve"
    /\ pc' = "failed"
    /\ UNCHANGED <<extendedAPI, cursorVars, resolvedVars, resolvingVars,
                   requestVars>>

\* The label commit of ResolveProxy; the static list is moved or freed.
Commit(how, list, fFailOverValid) ==
    /\ config' = [config EXCEPT !.proxy = NoList]
    /\ init' = TRUE
    /\ source' = how
    /\ proxyInfo' = list
    /\ failOverValid' = fFailOverValid
    /\ pc' = "ready"

\* WinHttpGetProxyForUrl finds proxies, or that none is needed.
ProxyFound(how) ==
    /\ pc = how
    /\ outcome' = [outcome EXCEPT ![how] = "success"]
    /\ \E l \in Lists \cup {NoList} : Commit(how, l, TRUE)
    /\ UNCHANGED <<extendedAPI, cursorVars, autoLogon, requestVars>>

\* The first attempt is made without autologon, and repeated with it.
LogonFailed(how) ==
    /\ pc = how
    /\ ~autoLogon
    /\ autoLogon' = TRUE
    /\ UNCHANGED <<extendedAPI, cursorVars, resolvedVars, config, outcome, pc,
                   requestVars>>

\* An error that is recoverable makes ResolveProxy fall back to the next
\* mechanism, another ends it.
LookupFailed(how) ==
    /\ pc = how
    /\ \E e \in LookupErrors :
          /\ e = "login" => autoLogon
          /\ outcome' = [outcome EXCEPT ![how] = e]
          /\ pc' = IF ~IsRecoverableAutoProxyError(e) THEN "failed"
                   ELSE IF how = "detect" THEN AfterDetect(config) ELSE "static"
    /\ autoLogon' = FALSE
    /\ UNCHANGED <<extendedAPI, cursorVars, resolvedVars, config, requestVars>>

GetProxyForAutoSettings(how) ==
    ProxyFound(how) \/ LogonFailed(how) \/ LookupFailed(how)

\* Variant: failover stays valid from a mechanism that has failed.
UseStaticProxyFailOver ==
    /\ pc = "static"
    /\ Commit("static", config.proxy, config.autoDetect \/ config.autoConfigUrl)
    /\ UNCHANGED <<extendedAPI, cursorVars, autoLogon, outcome, requestVars>>

\* The static proxies, or none.
UseStaticProxy ==
    /\ pc = "static"
    /\ Commit("static", config.proxy, FALSE)
    /\ UNCHANGED <<extendedAPI, cursorVars, autoLogon, outcome, requestVars>>

ResolveProxy ==
    \/ GetIEProxyConfig \/ GetIEProxyConfigFails \/ UseStaticProxy
    \/ \E how \in Automatic : GetProxyForAutoSettings(how)

-----------------------------------------------------------------------------
(* SetNextProxySetting                                                     *)

IsSeparator(c) == c = ";" \/ IsWhitespace(c)

\* The first position from i on that is not of an entry, and the first from j on
\* that is of one; or the end of the list.
EntryEnd(list, i) ==
    CHOOSE j \in i .. Len(list) + 1 :
        /\ j <= Len(list) => IsSeparator(list[j])
        /\ \A k \in i .. j - 1 : ~IsSeparator(list[k])
EntryStart(list, j) ==
    CHOOSE n \in j .. Len(list) + 1 :
        /\ n <= Len(list) => ~IsSeparator(list[n])
        /\ \A k \in j .. n - 1 : IsSeparator(list[k])

\* Variant: the entry is skipped, the separators are not.
NextEntrySeparator(list, i) == EntryEnd(list, i)

\* The cursor is moved past the current entry and then past the separators.
NextEntry(list, i) == EntryStart(list, EntryEnd(list, i))

\* What the loop does with the result of SetNextProxySetting.
Quit(error) == pc' = "ready" /\ result' = error
SendNext == pc' = "send" /\ UNCHANGED result

quitVars == <<requestError, offered, answered, sends>>

\* WinHttpSetOption succeeds, or fails and the loop ends.
SetOption(position) ==
    \/ SendNext /\ offered' = Append(offered, position)
    \/ Quit("option") /\ UNCHANGED offered

\* Variant: the cursor is not set to the first proxy.
FirstProxyUnrecorded ==
    /\ pc = "next"
    /\ ~extendedAPI
    /\ ~returnedFirst
    /\ returnedFirst' = TRUE
    /\ SetOption(IF proxyInfo = NoList THEN 0 ELSE 1)
    /\ UNCHANGED <<extendedAPI, returnedLast, proxyCursor, dwProxyCursor,
                   resolvedVars, resolvingVars, requestError, answered,
                   sends>>

\* The first proxy: the start of the list, or NULL for no proxy.
FirstProxy ==
    /\ pc = "next"
    /\ ~extendedAPI
    /\ ~returnedFirst
    /\ returnedFirst' = TRUE
    /\ LET first == IF proxyInfo = NoList THEN 0 ELSE 1
       IN /\ SetOption(first)
          /\ proxyCursor' = IF pc' = "send" THEN first ELSE proxyCursor
    /\ UNCHANGED <<extendedAPI, returnedLast, dwProxyCursor, resolvedVars,
                   resolvingVars, requestError, answered, sends>>

\* Failover is not valid, or the end was reached.
NoFailOver ==
    /\ pc = "next"
    /\ ~extendedAPI
    /\ returnedFirst
    /\ \/ returnedLast \/ ~failOverValid \/ proxyInfo = NoList
       \/ ~IsErrorValidForProxyFailover(requestError)
    /\ Quit(requestError)
    /\ UNCHANGED <<extendedAPI, cursorVars, resolvedVars, resolvingVars, quitVars>>

MayFailOver ==
    /\ pc = "next"
    /\ ~extendedAPI
    /\ returnedFirst /\ ~returnedLast
    /\ failOverValid /\ proxyInfo # NoList
    /\ IsErrorValidForProxyFailover(requestError)

\* The next proxy; it is the cursor only once it was set.
NextProxy ==
    /\ MayFailOver
    /\ LET next == NextEntry(proxyInfo, proxyCursor)
       IN /\ next <= Len(proxyInfo)
          /\ SetOption(next)
          /\ proxyCursor' = IF pc' = "send" THEN next ELSE proxyCursor
    /\ UNCHANGED <<extendedAPI, returnedFirst, returnedLast, dwProxyCursor,
                   resolvedVars, resolvingVars, requestError, answered,
                   sends>>

\* Variant: at the end of the list the last proxy is tried again.
EndOfListResent ==
    /\ MayFailOver
    /\ NextEntry(proxyInfo, proxyCursor) > Len(proxyInfo)
    /\ SendNext
    /\ UNCHANGED <<extendedAPI, cursorVars, resolvedVars, resolvingVars, quitVars>>

EndOfList ==
    /\ MayFailOver
    /\ NextEntry(proxyInfo, proxyCursor) > Len(proxyInfo)
    /\ returnedLast' = TRUE
    /\ Quit(requestError)
    /\ UNCHANGED <<extendedAPI, returnedFirst, proxyCursor, dwProxyCursor,
                   resolvedVars, resolvingVars, quitVars>>

\* SetNextProxySettingEx with static settings.
StaticProxyEx ==
    /\ pc = "next"
    /\ extendedAPI
    /\ ~failOverValid
    /\ ~returnedFirst
    /\ returnedFirst' = TRUE
    /\ SetOption(IF proxyInfo = NoList THEN 0 ELSE 1)
    /\ UNCHANGED <<extendedAPI, returnedLast, proxyCursor, dwProxyCursor,
                   resolvedVars, resolvingVars, requestError, answered,
                   sends>>

NoFailOverEx ==
    /\ pc = "next"
    /\ extendedAPI
    /\ \/ ~failOverValid /\ returnedFirst
       \/ /\ failOverValid /\ dwProxyCursor # 0
          /\ ~IsErrorValidForProxyFailover(requestError)
    /\ Quit(requestError)
    /\ UNCHANGED <<extendedAPI, cursorVars, resolvedVars, resolvingVars, quitVars>>

\* As it is compiled: neither is the end of the list looked for, nor a proxy
\* set.  The count goes on, and round.
NextProxyEx ==
    /\ pc = "next"
    /\ extendedAPI
    /\ failOverValid
    /\ dwProxyCursor = 0 \/ IsErrorValidForProxyFailover(requestError)
    /\ dwProxyCursor' = (dwProxyCursor + 1) % DwordRange
    /\ SendNext
    /\ UNCHANGED <<extendedAPI, returnedFirst, returnedLast, proxyCursor,
                   resolvedVars, resolvingVars, requestError, offered, answered,
                   sends>>

SetNextProxySettingEx == StaticProxyEx \/ NoFailOverEx \/ NextProxyEx

SetNextProxySetting ==
    FirstProxy \/ NoFailOver \/ NextProxy \/ EndOfList \/ SetNextProxySettingEx

-----------------------------------------------------------------------------
(* SendRequestWithProxyFailover                                            *)

\* Variant: the cursor stays where the request before has left it.
SendRequestUnreset ==
    /\ pc = "ready"
    /\ sends < MaxSends
    /\ sends' = sends + 1
    /\ requestError' = "success" /\ offered' = <<>>
    /\ answered' = FALSE /\ result' = "none"
    /\ pc' = "next"
    /\ UNCHANGED <<extendedAPI, cursorVars, resolvedVars, resolvingVars>>

\* It starts with ResetProxyCursor.
SendRequest ==
    /\ pc = "ready"
    /\ sends < MaxSends
    /\ sends' = sends + 1
    /\ returnedFirst' = FALSE /\ returnedLast' = FALSE
    /\ proxyCursor' = 0 /\ dwProxyCursor' = 0
    /\ requestError' = "success" /\ offered' = <<>>
    /\ answered' = FALSE /\ result' = "none"
    /\ pc' = "next"
    /\ UNCHANGED <<extendedAPI, resolvedVars, resolvingVars>>

\* The request is sent and its response received, or one of them fails.
ReceiveResponse ==
    /\ pc = "send"
    /\ answered' = TRUE
    /\ Quit("success")
    /\ UNCHANGED <<extendedAPI, cursorVars, resolvedVars, resolvingVars,
                   requestError, offered, sends>>

RequestFails ==
    /\ pc = "send"
    /\ requestError' \in RequestErrors
    /\ pc' = "next"
    /\ UNCHANGED <<extendedAPI, cursorVars, resolvedVars, resolvingVars, offered,
                   answered, result, sends>>

Sending == SetNextProxySetting \/ ReceiveResponse \/ RequestFails

Next == ResolveProxy \/ SendRequest \/ Sending

Spec == Init /\ [][Next]_vars

\* A request that was begun goes on; WinHTTP answers or times out.
FairSpec == Spec /\ WF_vars(Sending)

-----------------------------------------------------------------------------
(* Properties                                                              *)

Sources == {"none", "static"} \cup Automatic
Points == {"resolve", "static", "failed", "ready", "next", "send"} \cup Automatic

\* The fields hold values of their types; the position the cursor is read at, once
\* a first proxy was returned and another is looked for, is one of the list and
\* not NULL, although FirstProxy sets the flag before the option is set.
TypeOK ==
    /\ extendedAPI \in BOOLEAN
    /\ init \in BOOLEAN /\ failOverValid \in BOOLEAN
    /\ returnedFirst \in BOOLEAN /\ returnedLast \in BOOLEAN
    /\ autoLogon \in BOOLEAN
    /\ answered \in BOOLEAN
    /\ proxyInfo \in Lists \cup {NoList}
    /\ proxyCursor \in 0 .. Len(proxyInfo)
    /\ MayFailOver => proxyCursor # 0
    /\ dwProxyCursor \in 0 .. DwordRange - 1
    /\ config \in [autoDetect : BOOLEAN, autoConfigUrl : BOOLEAN,
                   proxy : Lists \cup {NoList}]
    /\ outcome \in [Automatic -> {"untried", "success"} \cup LookupErrors]
    /\ source \in Sources
    /\ pc \in Points
    /\ requestError \in {"success"} \cup RequestErrors
    /\ offered \in Seq(0 .. Len(proxyInfo))
    /\ result \in {"none", "success", "option"} \cup RequestErrors
    /\ sends \in 0 .. MaxSends

\* The proxies are from the first mechanism, in the order detection, script,
\* static settings, that is configured and did not fail with a recoverable error,
\* and only those of the first two may be failed over, whatever was tried before.
FirstMechanismThatWorks ==
    init =>
        /\ failOverValid <=> source \in Automatic
        /\ source \in Automatic => outcome[source] = "success"
        /\ config.autoDetect /\ source # "detect"
               => IsRecoverableAutoProxyError(outcome["detect"])
        /\ config.autoConfigUrl /\ source = "static"
               => IsRecoverableAutoProxyError(outcome["config"])
        /\ config.autoConfigUrl /\ source = "detect" => outcome["config"] = "untried"

\* The proxies of a list are set one after the other: each once, none left out,
\* none that is not there, whatever separates them; a static list, which may be
\* one proxy for each protocol, is set once and never failed over.
ProxiesInOrder ==
    LET Entry(i) == /\ i \in 1 .. Len(proxyInfo)
                    /\ ~IsSeparator(proxyInfo[i])
                    /\ i > 1 => IsSeparator(proxyInfo[i - 1])
    IN /\ proxyInfo # NoList =>
             /\ \A n \in 1 .. Len(offered) : Entry(offered[n])
             /\ \A n \in 1 .. Len(offered) - 1 :
                   /\ offered[n] < offered[n + 1]
                   /\ \A i \in offered[n] + 1 .. offered[n + 1] - 1 : ~Entry(i)
             /\ offered # <<>> => offered[1] = 1
       /\ proxyInfo = NoList \/ source = "static" => Len(offered) <= 1

\* A request returns ERROR_SUCCESS exactly if it got its response, also when the
\* resolver is used again: ERROR_NO_MORE_ITEMS, which makes it return the last
\* error of the request, is never the answer to the first call.
SuccessMeansAnswered == result = "success" <=> answered

\* A request ends: each error takes it to the next proxy, and there are not more
\* than the list has.  With the extended API it does not, since the end of the
\* list is not compiled in.
RequestEnds == pc \in {"next", "send"} /\ ~extendedAPI ~> pc = "ready"
=============================================================================
