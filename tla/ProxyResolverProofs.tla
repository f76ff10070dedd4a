------------------------ MODULE ProxyResolverProofs ------------------------
(***************************************************************************)
(* What holds of ProxyResolver for lists of any length and any number of   *)
(* requests: the cursor is inside the list and the proxies of the list are *)
(* set in order, the mechanisms are tried in order, and a request succeeds *)
(* when it was answered.                                                   *)
(*                                                                         *)
(* The walk along the list is proved of the operators first, with the      *)
(* least element of a set of positions, and then of the steps.             *)
(***************************************************************************)
EXTENDS ProxyResolver, WellFoundedInduction, TLAPS

-----------------------------------------------------------------------------
(* The walk along the list                                                 *)

\* A set of positions has a least one.
LEMMA LeastPosition ==
    ASSUME NEW S \in SUBSET Nat, S # {}
    PROVE  \E j \in S : \A k \in S : j <= k
<1> DEFINE R == OpToRel(<, Nat)
<1>1. IsWellFoundedOn(R, Nat)
  BY NatLessThanWellFounded
<1> HIDE DEF R
<1>2. PICK j \in S : \A k \in S : <<k, j>> \notin R
  BY <1>1, WFMin
<1>3. ASSUME NEW k \in S
      PROVE  j <= k
  <2>1. <<k, j>> \in R <=> k < j
    BY DEF R, OpToRel
  <2> QED
    BY <1>2, <2>1
<1> QED
  BY <1>3

\* A list is a sequence of characters that begins with a name.
LEMMA ListShape ==
    ASSUME NEW list \in Lists
    PROVE  /\ Len(list) \in Nat \ {0} /\ list \in Seq(Chars)
           /\ ~IsSeparator(list[1])
<1>1. PICK n \in 1 .. MaxList : list \in [1 .. n -> Chars]
  BY DEF Lists
<1>2. n \in Nat \ {0}
  BY <1>1, ResolverAssumption DEF ResolverAssumption
<1>3. list \in Seq(Chars) /\ Len(list) = n
  BY <1>1, <1>2
<1>4. list[1] = "name"
  BY DEF Lists
<1> QED
  BY <1>2, <1>3, <1>4 DEF IsSeparator, IsWhitespace

\* EntryEnd is the first separator, or the end of the list.
LEMMA EntryEndIsFirst ==
    ASSUME NEW list \in Seq(Chars), NEW i \in 1 .. Len(list)
    PROVE  LET e == EntryEnd(list, i)
           IN /\ e \in i .. Len(list) + 1
              /\ e <= Len(list) => IsSeparator(list[e])
              /\ \A k \in i .. e - 1 : ~IsSeparator(list[k])
<1> DEFINE S == {j \in i .. Len(list) + 1 : j <= Len(list) => IsSeparator(list[j])}
<1>1. Len(list) \in Nat
  OBVIOUS
<1>2. Len(list) + 1 \in S /\ S \subseteq Nat
  BY <1>1
<1>3. PICK j \in S : \A k \in S : j <= k
  BY <1>2, LeastPosition
<1>4. \A k \in i .. j - 1 : ~IsSeparator(list[k])
  BY <1>1, <1>3
<1>5. \E e \in i .. Len(list) + 1 :
         /\ e <= Len(list) => IsSeparator(list[e])
         /\ \A k \in i .. e - 1 : ~IsSeparator(list[k])
  BY <1>3, <1>4
<1> QED
  BY <1>5 DEF EntryEnd

\* EntryStart is the first character of a name, or the end of the list.
LEMMA EntryStartIsFirst ==
    ASSUME NEW list \in Seq(Chars), NEW i \in 1 .. Len(list) + 1
    PROVE  LET n == EntryStart(list, i)
           IN /\ n \in i .. Len(list) + 1
              /\ n <= Len(list) => ~IsSeparator(list[n])
              /\ \A k \in i .. n - 1 : IsSeparator(list[k])
<1> DEFINE S == {j \in i .. Len(list) + 1 : j <= Len(list) => ~IsSeparator(list[j])}
<1>1. Len(list) \in Nat
  OBVIOUS
<1>2. Len(list) + 1 \in S /\ S \subseteq Nat
  BY <1>1
<1>3. PICK j \in S : \A k \in S : j <= k
  BY <1>2, LeastPosition
<1>4. \A k \in i .. j - 1 : IsSeparator(list[k])
  BY <1>1, <1>3
<1>5. \E n \in i .. Len(list) + 1 :
         /\ n <= Len(list) => ~IsSeparator(list[n])
         /\ \A k \in i .. n - 1 : IsSeparator(list[k])
  BY <1>3, <1>4
<1> QED
  BY <1>5 DEF EntryStart

\* A position at which a name begins.
EntryOf(list, i) ==
    /\ i \in 1 .. Len(list)
    /\ ~IsSeparator(list[i])
    /\ i > 1 => IsSeparator(list[i - 1])

\* NextEntry is the beginning of the next name, or the end of the list if there
\* is none.
LEMMA NextEntryIsNext ==
    ASSUME NEW list \in Seq(Chars), NEW i \in 1 .. Len(list),
           ~IsSeparator(list[i])
    PROVE  LET n == NextEntry(list, i)
           IN /\ n \in i + 1 .. Len(list) + 1
              /\ n <= Len(list) => EntryOf(list, n)
              /\ \A k \in i + 1 .. n - 1 : ~EntryOf(list, k)
<1> DEFINE e == EntryEnd(list, i)
           n == EntryStart(list, e)
<1>1. /\ e \in i .. Len(list) + 1
      /\ e <= Len(list) => IsSeparator(list[e])
      /\ \A k \in i .. e - 1 : ~IsSeparator(list[k])
  BY EntryEndIsFirst
<1>2. e \in i + 1 .. Len(list) + 1
  BY <1>1
<1>3. /\ n \in e .. Len(list) + 1
      /\ n <= Len(list) => ~IsSeparator(list[n])
      /\ \A k \in e .. n - 1 : IsSeparator(list[k])
  BY <1>2, EntryStartIsFirst
<1> HIDE DEF e, n
<1>4. n \in i + 1 .. Len(list) + 1
  BY <1>2, <1>3
<1>5. ASSUME n <= Len(list)
      PROVE  EntryOf(list, n)
  <2>1. ~IsSeparator(list[n]) /\ IsSeparator(list[e]) /\ n # e
    BY <1>1, <1>2, <1>3, <1>5
  <2>2. n - 1 \in e .. n - 1
    BY <1>2, <1>3, <2>1
  <2>3. IsSeparator(list[n - 1])
    BY <1>3, <2>2
  <2> QED
    BY <1>4, <1>5, <2>1, <2>3 DEF EntryOf
<1>6. ASSUME NEW k \in i + 1 .. n - 1
      PROVE  ~EntryOf(list, k)
  <2>1. CASE k < e
    <3>1. k - 1 \in i .. e - 1 /\ k > 1
      BY <1>2, <2>1
    <3> QED
      BY <1>1, <3>1 DEF EntryOf
  <2>2. CASE k >= e
    <3>1. k \in e .. n - 1
      BY <1>2, <1>3, <2>2
    <3> QED
      BY <1>3, <3>1 DEF EntryOf
  <2> QED
    BY <1>2, <2>1, <2>2
<1>7. n = NextEntry(list, i)
  BY DEF n, e, NextEntry
<1> QED
  BY <1>4, <1>5, <1>6, <1>7

-----------------------------------------------------------------------------
(* The mechanisms                                                          *)

Resolving == {"resolve", "static", "failed"} \cup Automatic

\* Where ResolveProxy is tells which mechanisms are configured and have failed.
ResolvingInv ==
    /\ init <=> pc \notin Resolving
    /\ pc = "resolve" => outcome["config"] = "untried"
    /\ pc = "detect" => config.autoDetect /\ outcome["config"] = "untried"
    /\ pc = "config" =>
        /\ config.autoConfigUrl
        /\ config.autoDetect => IsRecoverableAutoProxyError(outcome["detect"])
    /\ pc = "static" =>
        /\ config.autoDetect => IsRecoverableAutoProxyError(outcome["detect"])
        /\ config.autoConfigUrl => IsRecoverableAutoProxyError(outcome["config"])
    /\ FirstMechanismThatWorks

\* The types of what ResolveProxy uses.
ResolvingType ==
    /\ init \in BOOLEAN /\ failOverValid \in BOOLEAN /\ autoLogon \in BOOLEAN
    /\ proxyInfo \in Lists \cup {NoList}
    /\ config \in [autoDetect : BOOLEAN, autoConfigUrl : BOOLEAN,
                   proxy : Lists \cup {NoList}]
    /\ outcome \in [Automatic -> {"untried", "success"} \cup LookupErrors]
    /\ source \in Sources
    /\ pc \in Points

\* The steps of ResolveProxy keep the types.
LEMMA ResolveType ==
    ASSUME ResolvingType, ResolveProxy
    PROVE  ResolvingType'
<1>1. CASE GetIEProxyConfig
  <2>1. config' \in [autoDetect : BOOLEAN, autoConfigUrl : BOOLEAN,
                    proxy : Lists \cup {NoList}]
    <3> DEFINE Configs == [autoDetect : BOOLEAN, autoConfigUrl : BOOLEAN,
                           proxy : Lists \cup {NoList}]
    <3>1. \A d, u \in BOOLEAN, l \in Lists \cup {NoList} :
              [autoDetect |-> d, autoConfigUrl |-> u, proxy |-> l] \in Configs
      OBVIOUS
    <3>2. [config EXCEPT !.autoDetect = TRUE] \in Configs
      BY DEF ResolvingType
    <3> HIDE DEF Configs
    <3>3. config' \in Configs
      BY <1>1, <3>1, <3>2, Zenon DEF GetIEProxyConfig
    <3> QED
      BY <3>3 DEF Configs
  <2>2. pc' \in Points
    BY <1>1 DEF GetIEProxyConfig, AfterDetect, Points, Automatic
  <2>3. UNCHANGED <<init, failOverValid, proxyInfo, source, autoLogon, outcome>>
    BY <1>1 DEF GetIEProxyConfig, resolvedVars
  <2> QED
    BY <2>1, <2>2, <2>3 DEF ResolvingType
<1>2. CASE GetIEProxyConfigFails
  BY <1>2 DEF GetIEProxyConfigFails, ResolvingType, resolvedVars, resolvingVars,
              Points
<1>3. ASSUME NEW how \in Automatic, ProxyFound(how)
      PROVE  ResolvingType'
  <2>1. /\ config' \in [autoDetect : BOOLEAN, autoConfigUrl : BOOLEAN,
                       proxy : Lists \cup {NoList}]
        /\ proxyInfo' \in Lists \cup {NoList}
        /\ init' = TRUE /\ failOverValid' = TRUE /\ source' = how /\ pc' = "ready"
    BY <1>3 DEF ProxyFound, Commit, ResolvingType
  <2>2. outcome' \in [Automatic -> {"untried", "success"} \cup LookupErrors]
    BY <1>3 DEF ProxyFound, ResolvingType
  <2> QED
    BY <1>3, <2>1, <2>2 DEF ProxyFound, ResolvingType, Points, Sources
<1>4. ASSUME NEW how \in Automatic, LogonFailed(how)
      PROVE  ResolvingType'
  BY <1>4 DEF LogonFailed, ResolvingType, resolvedVars
<1>5. ASSUME NEW how \in Automatic, LookupFailed(how)
      PROVE  ResolvingType'
  <2>1. pc' \in Points
    BY <1>5 DEF LookupFailed, AfterDetect, Points, Automatic
  <2>2. outcome' \in [Automatic -> {"untried", "success"} \cup LookupErrors]
    BY <1>5 DEF LookupFailed, ResolvingType
  <2> QED
    BY <1>5, <2>1, <2>2 DEF LookupFailed, ResolvingType, resolvedVars
<1>6. CASE UseStaticProxy
  <2>1. /\ config' \in [autoDetect : BOOLEAN, autoConfigUrl : BOOLEAN,
                       proxy : Lists \cup {NoList}]
        /\ proxyInfo' \in Lists \cup {NoList}
        /\ init' = TRUE /\ failOverValid' = FALSE /\ source' = "static"
        /\ pc' = "ready"
    BY <1>6 DEF UseStaticProxy, Commit, ResolvingType
  <2> QED
    BY <1>6, <2>1 DEF UseStaticProxy, ResolvingType, Points, Sources
<1> QED
  BY <1>1, <1>2, <1>3, <1>4, <1>5, <1>6
     DEF ResolveProxy, GetProxyForAutoSettings

\* The steps of ResolveProxy try the mechanisms in order.
LEMMA ResolveInOrder ==
    ASSUME ResolvingType, ResolvingInv, ResolveProxy
    PROVE  ResolvingInv'
<1>1. CASE GetIEProxyConfig
  <2>1. /\ pc = "resolve" /\ UNCHANGED <<init, outcome>>
        /\ \/ pc' = "detect" /\ config'.autoDetect
           \/ pc' = "config" /\ config'.autoConfigUrl /\ ~config'.autoDetect
           \/ pc' = "static" /\ ~config'.autoConfigUrl /\ ~config'.autoDetect
    BY <1>1 DEF GetIEProxyConfig, AfterDetect, resolvedVars
  <2>2. ~init /\ outcome["config"] = "untried"
    BY <2>1 DEF ResolvingInv, Resolving
  <2> QED
    BY <2>1, <2>2
       DEF ResolvingInv, Resolving, Automatic, FirstMechanismThatWorks
<1>2. CASE GetIEProxyConfigFails
  BY <1>2 DEF GetIEProxyConfigFails, ResolvingInv, Resolving, resolvedVars,
              resolvingVars, FirstMechanismThatWorks
<1>3. CASE ProxyFound("detect")
  <2>1. /\ pc = "detect" /\ pc' = "ready" /\ init' /\ failOverValid'
        /\ source' = "detect"
        /\ config'.autoDetect = config.autoDetect
        /\ config'.autoConfigUrl = config.autoConfigUrl
        /\ outcome'["detect"] = "success" /\ outcome'["config"] = outcome["config"]
    BY <1>3 DEF ProxyFound, Commit, ResolvingType, Automatic
  <2> QED
    BY <2>1 DEF ResolvingInv, Resolving, Automatic, FirstMechanismThatWorks
<1>4. CASE ProxyFound("config")
  <2>1. /\ pc = "config" /\ pc' = "ready" /\ init' /\ failOverValid'
        /\ source' = "config"
        /\ config'.autoDetect = config.autoDetect
        /\ config'.autoConfigUrl = config.autoConfigUrl
        /\ outcome'["config"] = "success" /\ outcome'["detect"] = outcome["detect"]
    BY <1>4 DEF ProxyFound, Commit, ResolvingType, Automatic
  <2> QED
    BY <2>1 DEF ResolvingInv, Resolving, Automatic, FirstMechanismThatWorks
<1>5. ASSUME NEW how \in Automatic, LogonFailed(how)
      PROVE  ResolvingInv'
  BY <1>5 DEF LogonFailed, ResolvingInv, resolvedVars, FirstMechanismThatWorks
<1>6. CASE LookupFailed("detect")
  <2>1. PICK e \in LookupErrors :
            /\ outcome' = [outcome EXCEPT !["detect"] = e]
            /\ pc' = IF ~IsRecoverableAutoProxyError(e) THEN "failed"
                     ELSE AfterDetect(config)
    BY <1>6 DEF LookupFailed
  <2>2. /\ outcome'["detect"] = e /\ outcome'["config"] = outcome["config"]
        /\ pc = "detect" /\ UNCHANGED <<init, config>>
    BY <1>6, <2>1 DEF LookupFailed, ResolvingType, Automatic, resolvedVars
  <2>3. ~init
    BY <2>2 DEF ResolvingInv, Resolving, Automatic
  <2> QED
    BY <2>1, <2>2, <2>3 DEF ResolvingInv, Resolving, Automatic, AfterDetect,
                            FirstMechanismThatWorks
<1>7. CASE LookupFailed("config")
  <2>1. PICK e \in LookupErrors :
            /\ outcome' = [outcome EXCEPT !["config"] = e]
            /\ pc' = IF ~IsRecoverableAutoProxyError(e) THEN "failed" ELSE "static"
    BY <1>7 DEF LookupFailed
  <2>2. /\ outcome'["config"] = e /\ outcome'["detect"] = outcome["detect"]
        /\ pc = "config" /\ UNCHANGED <<init, config>>
    BY <1>7, <2>1 DEF LookupFailed, ResolvingType, Automatic, resolvedVars
  <2>3. ~init
    BY <2>2 DEF ResolvingInv, Resolving, Automatic
  <2> QED
    BY <2>1, <2>2, <2>3 DEF ResolvingInv, Resolving, Automatic,
                            FirstMechanismThatWorks
<1>8. CASE UseStaticProxy
  <2>1. /\ pc = "static" /\ pc' = "ready" /\ init' /\ ~failOverValid'
        /\ source' = "static" /\ UNCHANGED outcome
        /\ config'.autoDetect = config.autoDetect
        /\ config'.autoConfigUrl = config.autoConfigUrl
    BY <1>8 DEF UseStaticProxy, Commit, ResolvingType
  <2> QED
    BY <2>1 DEF ResolvingInv, Resolving, Automatic, FirstMechanismThatWorks
<1> QED
  BY <1>1, <1>2, <1>3, <1>4, <1>5, <1>6, <1>7, <1>8
     DEF ResolveProxy, GetProxyForAutoSettings, Automatic

\* What a request does leaves all this alone.
LEMMA SendingResolved ==
    ASSUME ResolvingType, ResolvingInv, SendRequest \/ Sending
    PROVE  ResolvingType' /\ ResolvingInv'
<1>1. UNCHANGED <<resolvedVars, resolvingVars>>
  BY DEF SendRequest, Sending, SetNextProxySetting, FirstProxy, NoFailOver,
         NextProxy, EndOfList, SetNextProxySettingEx, StaticProxyEx,
         NoFailOverEx, NextProxyEx, ReceiveResponse, RequestFails
<1>2. pc' \in {"ready", "next", "send"} /\ pc \in {"ready", "next", "send"}
  BY DEF SendRequest, Sending, SetNextProxySetting, FirstProxy, NoFailOver,
         NextProxy, EndOfList, SetNextProxySettingEx, StaticProxyEx, MayFailOver,
         NoFailOverEx, NextProxyEx, ReceiveResponse, RequestFails, SetOption,
         Quit, SendNext
<1>3. ResolvingType'
  BY <1>1, <1>2 DEF ResolvingType, resolvedVars, resolvingVars, Points
<1>4. ResolvingInv'
  BY <1>1, <1>2 DEF ResolvingInv, Resolving, Automatic, resolvedVars,
                    resolvingVars, FirstMechanismThatWorks
<1> QED
  BY <1>3, <1>4

\* Types and mechanisms together.
LEMMA ResolvedAlways == Spec => [](ResolvingType /\ ResolvingInv)
<1>1. Init => ResolvingType /\ ResolvingInv
  <2> SUFFICES ASSUME Init
               PROVE  ResolvingType /\ ResolvingInv
    OBVIOUS
  <2>1. ResolvingType
    BY DEF Init, ResolvingType, Points, Sources
  <2>2. ~init /\ pc = "resolve" /\ outcome["config"] = "untried"
    BY DEF Init, Automatic
  <2>3. ResolvingInv
    BY <2>2 DEF ResolvingInv, Resolving, Automatic, FirstMechanismThatWorks
  <2> QED
    BY <2>1, <2>3
<1>2. ResolvingType /\ ResolvingInv /\ [Next]_vars
        => (ResolvingType /\ ResolvingInv)'
  <2> SUFFICES ASSUME ResolvingType, ResolvingInv, [Next]_vars
               PROVE  ResolvingType' /\ ResolvingInv'
    OBVIOUS
  <2>1. CASE ResolveProxy
    BY <2>1, ResolveType, ResolveInOrder
  <2>2. CASE SendRequest \/ Sending
    BY <2>2, SendingResolved
  <2>3. CASE UNCHANGED vars
    <3>1. UNCHANGED <<init, failOverValid, proxyInfo, source, config, autoLogon,
                      outcome, pc>>
      BY <2>3 DEF vars, resolvedVars, resolvingVars
    <3> QED
      BY <3>1 DEF ResolvingType, ResolvingInv, FirstMechanismThatWorks
  <2> QED
    BY <2>1, <2>2, <2>3 DEF Next
<1> QED
  BY <1>1, <1>2, PTL DEF Spec

\* The proxies are those of the first mechanism that works.
THEOREM AlwaysFirstMechanism == Spec => []FirstMechanismThatWorks
<1>1. ResolvingInv => FirstMechanismThatWorks
  BY DEF ResolvingInv
<1> QED
  BY <1>1, ResolvedAlways, PTL

-----------------------------------------------------------------------------
(* The proxies in order                                                    *)

\* The proxies s are the names of the list from the first one on.
InOrder(list, s) ==
    /\ \A n \in 1 .. Len(s) : EntryOf(list, s[n])
    /\ \A n \in 1 .. Len(s) - 1 :
          /\ s[n] < s[n + 1]
          /\ \A i \in s[n] + 1 .. s[n + 1] - 1 : ~EntryOf(list, i)
    /\ s # <<>> => s[1] = 1

\* One more proxy, the next of the list, keeps them in order.
LEMMA AppendInOrder ==
    ASSUME NEW list \in Seq(Chars), NEW s \in Seq(Nat), InOrder(list, s), s # <<>>,
           NEW n \in Nat, s[Len(s)] < n, EntryOf(list, n),
           \A i \in s[Len(s)] + 1 .. n - 1 : ~EntryOf(list, i)
    PROVE  InOrder(list, Append(s, n))
<1> DEFINE t == Append(s, n)
<1>1. /\ Len(s) \in Nat \ {0} /\ Len(t) = Len(s) + 1
      /\ \A k \in 1 .. Len(s) : t[k] = s[k]
      /\ t[Len(s) + 1] = n
  OBVIOUS
<1> HIDE DEF t
<1>2. ASSUME NEW k \in 1 .. Len(t)
      PROVE  EntryOf(list, t[k])
  <2>1. CASE k = Len(s) + 1
    BY <1>1, <2>1
  <2>2. CASE k \in 1 .. Len(s)
    BY <1>1, <2>2 DEF InOrder
  <2> QED
    BY <1>1, <2>1, <2>2
<1>3. ASSUME NEW k \in 1 .. Len(t) - 1
      PROVE  /\ t[k] < t[k + 1]
             /\ \A i \in t[k] + 1 .. t[k + 1] - 1 : ~EntryOf(list, i)
  <2>1. CASE k = Len(s)
    BY <1>1, <2>1
  <2>2. CASE k \in 1 .. Len(s) - 1
    <3>1. t[k] = s[k] /\ t[k + 1] = s[k + 1]
      BY <1>1, <2>2
    <3> QED
      BY <2>2, <3>1 DEF InOrder
  <2> QED
    BY <1>1, <2>1, <2>2
<1>4. t[1] = 1
  BY <1>1 DEF InOrder
<1>5. InOrder(list, t)
  BY <1>2, <1>3, <1>4 DEF InOrder
<1> QED
  BY <1>5 DEF t

\* The first proxy of a list is at its start.
LEMMA FirstInOrder ==
    ASSUME NEW list \in Lists
    PROVE  EntryOf(list, 1) /\ InOrder(list, <<1>>)
<1>1. EntryOf(list, 1)
  BY ListShape DEF EntryOf
<1> QED
  BY <1>1 DEF InOrder

\* ProxiesInOrder in these words.
LEMMA InOrderIsProxiesInOrder ==
    ProxiesInOrder <=>
        /\ proxyInfo # NoList => InOrder(proxyInfo, offered)
        /\ proxyInfo = NoList \/ source = "static" => Len(offered) <= 1
  BY DEF ProxiesInOrder, InOrder, EntryOf

\* The types of what a request uses.
RequestType ==
    /\ extendedAPI \in BOOLEAN
    /\ returnedFirst \in BOOLEAN /\ returnedLast \in BOOLEAN
    /\ answered \in BOOLEAN
    /\ dwProxyCursor \in 0 .. DwordRange - 1
    /\ requestError \in {"success"} \cup RequestErrors
    /\ result \in {"none", "success", "option"} \cup RequestErrors
    /\ sends \in 0 .. MaxSends

\* The last proxy set is the one the cursor is at, and the cursor is at the
\* beginning of a name.
CursorInv ==
    /\ proxyCursor \in 0 .. Len(proxyInfo)
    /\ offered \in Seq(0 .. Len(proxyInfo))
    /\ ~init => offered = <<>> /\ proxyCursor = 0 /\ proxyInfo = NoList
    /\ pc \in {"next", "send"} =>
          /\ ~returnedFirst => offered = <<>>
          /\ ~extendedAPI /\ returnedFirst /\ proxyInfo # NoList =>
                /\ offered # <<>> /\ offered[Len(offered)] = proxyCursor
                /\ EntryOf(proxyInfo, proxyCursor)
    /\ proxyInfo # NoList => InOrder(proxyInfo, offered)
    /\ proxyInfo = NoList \/ source = "static" => Len(offered) <= 1

\* Before a request the cursor is nowhere.
LEMMA ResolveCursor ==
    ASSUME ResolvingType, ResolvingInv, RequestType, CursorInv, ResolveProxy
    PROVE  RequestType' /\ CursorInv'
<1>1. UNCHANGED <<extendedAPI, cursorVars, requestVars>>
  BY DEF ResolveProxy, GetIEProxyConfig, GetIEProxyConfigFails, UseStaticProxy,
         GetProxyForAutoSettings, ProxyFound, LogonFailed, LookupFailed
<1>2. pc \in Resolving \ {"failed"} /\ pc' \notin {"next", "send"}
  BY DEF ResolveProxy, GetIEProxyConfig, GetIEProxyConfigFails, UseStaticProxy,
         GetProxyForAutoSettings, ProxyFound, LogonFailed, LookupFailed, Commit,
         AfterDetect, Automatic, Resolving
<1>3. ~init
  BY <1>2 DEF ResolvingInv
<1>4. offered = <<>> /\ proxyCursor = 0
  BY <1>3 DEF CursorInv
<1>5. init' \/ (UNCHANGED proxyInfo /\ proxyInfo = NoList)
  BY <1>3 DEF ResolveProxy, GetIEProxyConfig, GetIEProxyConfigFails,
              UseStaticProxy, GetProxyForAutoSettings, ProxyFound, LogonFailed,
              LookupFailed, Commit, resolvedVars, CursorInv
<1>6. Len(proxyInfo') \in Nat
  BY <1>5, ResolveType, ListShape DEF ResolvingType, NoList
<1>7. RequestType'
  BY <1>1 DEF RequestType, cursorVars, requestVars
<1>8. offered' = <<>> /\ proxyCursor' = 0
  BY <1>1, <1>4 DEF cursorVars, requestVars
<1>9. CursorInv'
  BY <1>2, <1>5, <1>6, <1>8 DEF CursorInv, InOrder
<1> QED
  BY <1>7, <1>9

\* The list is not changed by a request, and has a length.
LEMMA RequestKeepsList ==
    ASSUME ResolvingType, SendRequest \/ Sending
    PROVE  /\ UNCHANGED <<extendedAPI, resolvedVars>>
           /\ Len(proxyInfo) \in Nat
           /\ proxyInfo # NoList =>
                 proxyInfo \in Lists /\ proxyInfo \in Seq(Chars)
<1>1. UNCHANGED <<extendedAPI, resolvedVars>>
  BY DEF SendRequest, Sending, SetNextProxySetting, FirstProxy, NoFailOver,
         NextProxy, EndOfList, SetNextProxySettingEx, StaticProxyEx,
         NoFailOverEx, NextProxyEx, ReceiveResponse, RequestFails
<1>2. CASE proxyInfo = NoList
  BY <1>1, <1>2 DEF NoList
<1>3. CASE proxyInfo \in Lists
  BY <1>1, <1>3, ListShape
<1> QED
  BY <1>2, <1>3 DEF ResolvingType

\* The steps of a request keep its types.
LEMMA RequestTypeKept ==
    ASSUME RequestType, SendRequest \/ Sending
    PROVE  RequestType'
<1>1. CASE SendRequest
  <2>1. MaxSends \in Nat /\ DwordRange \in Nat \ {0}
    BY ResolverAssumption DEF ResolverAssumption
  <2>2. sends' \in 0 .. MaxSends /\ dwProxyCursor' \in 0 .. DwordRange - 1
    BY <1>1, <2>1 DEF SendRequest, RequestType
  <2>3. /\ UNCHANGED extendedAPI /\ ~returnedFirst' /\ ~returnedLast'
        /\ ~answered'
        /\ requestError' = "success" /\ result' = "none"
        /\ returnedFirst' \in BOOLEAN /\ returnedLast' \in BOOLEAN
        /\ answered' \in BOOLEAN
    BY <1>1 DEF SendRequest
  <2> QED
    BY <2>2, <2>3 DEF RequestType
<1>2. CASE FirstProxy
  BY <1>2 DEF FirstProxy, SetOption, SendNext, Quit, RequestType
<1>3. CASE NoFailOver
  BY <1>3 DEF NoFailOver, Quit, quitVars, cursorVars, RequestType
<1>4. CASE NextProxy
  BY <1>4 DEF NextProxy, SetOption, SendNext, Quit, RequestType
<1>5. CASE EndOfList
  BY <1>5 DEF EndOfList, Quit, quitVars, RequestType
<1>6. CASE StaticProxyEx
  BY <1>6 DEF StaticProxyEx, SetOption, SendNext, Quit, RequestType
<1>7. CASE NoFailOverEx
  BY <1>7 DEF NoFailOverEx, Quit, quitVars, cursorVars, RequestType
<1>8. CASE NextProxyEx
  <2>1. DwordRange \in Nat \ {0} /\ dwProxyCursor + 1 \in Nat
    BY ResolverAssumption DEF RequestType, ResolverAssumption
  <2>2. (dwProxyCursor + 1) % DwordRange \in 0 .. DwordRange - 1
    BY <2>1
  <2>3. dwProxyCursor' \in 0 .. DwordRange - 1
    BY <1>8, <2>2 DEF NextProxyEx
  <2> QED
    BY <1>8, <2>3 DEF NextProxyEx, SendNext, RequestType
<1>9. CASE ReceiveResponse
  BY <1>9 DEF ReceiveResponse, Quit, cursorVars, RequestType
<1>10. CASE RequestFails
  BY <1>10 DEF RequestFails, cursorVars, RequestType
<1> QED
  BY <1>1, <1>2, <1>3, <1>4, <1>5, <1>6, <1>7, <1>8, <1>9, <1>10
     DEF Sending, SetNextProxySetting, SetNextProxySettingEx

\* One proxy, or none, is set first.
LEMMA FirstCursor ==
    ASSUME ResolvingType, ResolvingInv, CursorInv, FirstProxy
    PROVE  CursorInv'
<1> DEFINE first == IF proxyInfo = NoList THEN 0 ELSE 1
<1>1. /\ pc = "next" /\ ~returnedFirst /\ returnedFirst'
      /\ UNCHANGED <<extendedAPI, init, proxyInfo, source>>
      /\ \/ /\ pc' = "send" /\ offered' = Append(offered, first)
            /\ proxyCursor' = first
         \/ pc' = "ready" /\ UNCHANGED <<offered, proxyCursor>>
  BY DEF FirstProxy, SetOption, SendNext, Quit, resolvedVars
<1>2. init /\ offered = <<>>
  BY <1>1 DEF CursorInv, ResolvingInv, Resolving, Automatic
<1>3. /\ Len(proxyInfo) \in Nat
      /\ proxyInfo # NoList => proxyInfo \in Lists /\ Len(proxyInfo) # 0
  BY ListShape DEF ResolvingType, NoList
<1>4. CASE pc' = "send"
  <2>1. offered' = <<first>> /\ proxyCursor' = first
    BY <1>1, <1>2, <1>4
  <2>2. first \in 0 .. Len(proxyInfo)
    BY <1>3
  <2>3. proxyInfo # NoList => /\ EntryOf(proxyInfo, first)
                              /\ InOrder(proxyInfo, <<first>>)
    BY <1>3, FirstInOrder
  <2> HIDE DEF first
  <2>4. Len(<<first>>) = 1 /\ <<first>>[1] = first /\ <<first>> # <<>>
    OBVIOUS
  <2> QED
    BY <1>1, <1>2, <1>3, <2>1, <2>2, <2>3, <2>4 DEF CursorInv
<1>5. CASE pc' = "ready"
  BY <1>1, <1>2, <1>5 DEF CursorInv
<1> QED
  BY <1>1, <1>4, <1>5

\* The next proxy is the next name of the list.
LEMMA NextCursor ==
    ASSUME ResolvingType, ResolvingInv, CursorInv, NextProxy
    PROVE  CursorInv'
<1> DEFINE next == NextEntry(proxyInfo, proxyCursor)
<1>1. /\ pc = "next" /\ returnedFirst /\ ~extendedAPI
      /\ failOverValid /\ proxyInfo # NoList
      /\ next <= Len(proxyInfo)
      /\ UNCHANGED <<extendedAPI, init, proxyInfo, source, returnedFirst>>
      /\ \/ /\ pc' = "send" /\ offered' = Append(offered, next)
            /\ proxyCursor' = next
         \/ pc' = "ready" /\ UNCHANGED <<offered, proxyCursor>>
  BY DEF NextProxy, MayFailOver, SetOption, SendNext, Quit, resolvedVars
<1>2. /\ init /\ source \in Automatic
      /\ offered # <<>> /\ offered[Len(offered)] = proxyCursor
      /\ EntryOf(proxyInfo, proxyCursor) /\ InOrder(proxyInfo, offered)
      /\ offered \in Seq(0 .. Len(proxyInfo))
  BY <1>1 DEF CursorInv, ResolvingInv, Resolving, FirstMechanismThatWorks,
              Automatic
<1>3. proxyInfo \in Seq(Chars) /\ Len(proxyInfo) \in Nat
  BY <1>1, ListShape DEF ResolvingType
<1>4. /\ proxyCursor \in 1 .. Len(proxyInfo)
      /\ ~IsSeparator(proxyInfo[proxyCursor])
  BY <1>2 DEF EntryOf
<1>5. /\ next \in proxyCursor + 1 .. Len(proxyInfo) + 1
      /\ next <= Len(proxyInfo) => EntryOf(proxyInfo, next)
      /\ \A k \in proxyCursor + 1 .. next - 1 : ~EntryOf(proxyInfo, k)
  BY <1>3, <1>4, NextEntryIsNext
<1> HIDE DEF next
<1>6. CASE pc' = "send"
  <2>1. offered \in Seq(Nat) /\ next \in Nat /\ proxyCursor < next
        /\ next \in 0 .. Len(proxyInfo) /\ EntryOf(proxyInfo, next)
    BY <1>1, <1>2, <1>3, <1>4, <1>5
  <2>2. InOrder(proxyInfo, Append(offered, next))
    BY <1>2, <1>3, <1>5, <2>1, AppendInOrder
  <2>3. /\ Append(offered, next) \in Seq(0 .. Len(proxyInfo))
        /\ Append(offered, next) # <<>>
        /\ Append(offered, next)[Len(Append(offered, next))] = next
    BY <1>2, <2>1
  <2>4. source # "static"
    BY <1>2 DEF Automatic
  <2> QED
    BY <1>1, <1>2, <1>6, <2>1, <2>2, <2>3, <2>4 DEF CursorInv
<1>7. CASE pc' = "ready"
  BY <1>1, <1>7 DEF CursorInv
<1> QED
  BY <1>1, <1>6, <1>7

\* A static list is set once with the extended API too.
LEMMA StaticCursor ==
    ASSUME ResolvingType, ResolvingInv, CursorInv, StaticProxyEx
    PROVE  CursorInv'
<1> DEFINE first == IF proxyInfo = NoList THEN 0 ELSE 1
<1>1. /\ pc = "next" /\ ~returnedFirst /\ extendedAPI
      /\ UNCHANGED <<extendedAPI, init, proxyInfo, source, proxyCursor>>
      /\ returnedFirst'
      /\ \/ pc' = "send" /\ offered' = Append(offered, first)
         \/ pc' = "ready" /\ UNCHANGED offered
  BY DEF StaticProxyEx, SetOption, SendNext, Quit, resolvedVars
<1>2. init /\ offered = <<>>
  BY <1>1 DEF CursorInv, ResolvingInv, Resolving, Automatic
<1>3. /\ Len(proxyInfo) \in Nat
      /\ proxyInfo # NoList => proxyInfo \in Lists /\ Len(proxyInfo) # 0
  BY ListShape DEF ResolvingType, NoList
<1>4. CASE pc' = "send"
  <2>1. offered' = <<first>>
    BY <1>1, <1>2, <1>4
  <2>2. first \in 0 .. Len(proxyInfo)
    BY <1>3
  <2>3. proxyInfo # NoList => InOrder(proxyInfo, <<first>>)
    BY <1>3, FirstInOrder
  <2> HIDE DEF first
  <2>4. Len(<<first>>) = 1
    OBVIOUS
  <2> QED
    BY <1>1, <1>2, <1>3, <2>1, <2>2, <2>3, <2>4 DEF CursorInv
<1>5. CASE pc' = "ready"
  BY <1>1, <1>2, <1>5 DEF CursorInv
<1> QED
  BY <1>1, <1>4, <1>5

\* The other steps set no proxy.
LEMMA OtherCursor ==
    ASSUME ResolvingType, ResolvingInv, CursorInv,
           NoFailOver \/ EndOfList \/ NoFailOverEx \/ NextProxyEx
             \/ ReceiveResponse \/ RequestFails
    PROVE  CursorInv'
<1>1. UNCHANGED <<extendedAPI, init, proxyInfo, source, offered, proxyCursor,
                  returnedFirst>>
  BY DEF NoFailOver, EndOfList, NoFailOverEx, NextProxyEx, ReceiveResponse,
         RequestFails, cursorVars, resolvedVars, quitVars
<1>2. pc \in {"next", "send"}
  BY DEF NoFailOver, EndOfList, NoFailOverEx, NextProxyEx, ReceiveResponse,
         RequestFails, MayFailOver
<1> QED
  BY <1>1, <1>2 DEF CursorInv

\* A new request begins with no proxy.
LEMMA SendCursor ==
    ASSUME ResolvingType, CursorInv, SendRequest
    PROVE  CursorInv'
<1>1. /\ offered' = <<>> /\ proxyCursor' = 0 /\ ~returnedFirst'
      /\ UNCHANGED <<init, proxyInfo, source>>
  BY DEF SendRequest, resolvedVars
<1>2. Len(proxyInfo) \in Nat
  BY RequestKeepsList
<1> QED
  BY <1>1, <1>2 DEF CursorInv, InOrder

\* Types, mechanisms and the cursor together.
LEMMA CursorAlways ==
    Spec => [](ResolvingType /\ ResolvingInv /\ RequestType /\ CursorInv)
<1> DEFINE Inv == ResolvingType /\ ResolvingInv /\ RequestType /\ CursorInv
<1>1. Init => RequestType /\ CursorInv
  <2> SUFFICES ASSUME Init
               PROVE  RequestType /\ CursorInv
    OBVIOUS
  <2>1. RequestType
    <3>1. MaxSends \in Nat /\ DwordRange \in Nat \ {0}
      BY ResolverAssumption DEF ResolverAssumption
    <3>2. sends \in 0 .. MaxSends /\ dwProxyCursor \in 0 .. DwordRange - 1
      BY <3>1 DEF Init
    <3> QED
      BY <3>2 DEF Init, RequestType
  <2>2. CursorInv
    BY DEF Init, CursorInv, NoList, InOrder
  <2> QED
    BY <2>1, <2>2
<1>2. (ResolvingType /\ ResolvingInv) /\ RequestType /\ CursorInv /\ [Next]_vars
        => (RequestType /\ CursorInv)'
  <2> SUFFICES ASSUME ResolvingType, ResolvingInv, RequestType, CursorInv,
                      [Next]_vars
               PROVE  RequestType' /\ CursorInv'
    OBVIOUS
  <2>1. CASE ResolveProxy
    BY <2>1, ResolveCursor
  <2>2. CASE SendRequest
    BY <2>2, SendCursor, RequestTypeKept
  <2>3. CASE Sending
    <3>1. CursorInv'
      BY <2>3, FirstCursor, NextCursor, StaticCursor, OtherCursor
         DEF Sending, SetNextProxySetting, SetNextProxySettingEx
    <3> QED
      BY <2>3, <3>1, RequestTypeKept
  <2>4. CASE UNCHANGED vars
    <3>1. UNCHANGED <<extendedAPI, returnedFirst, returnedLast, answered,
                      dwProxyCursor, requestError, result, sends>>
      BY <2>4 DEF vars, cursorVars, requestVars
    <3>2. UNCHANGED <<extendedAPI, returnedFirst, proxyCursor, proxyInfo, offered,
                      init, pc, source>>
      BY <2>4 DEF vars, cursorVars, requestVars, resolvedVars
    <3>3. RequestType'
      BY <3>1 DEF RequestType
    <3>4. CursorInv'
      BY <3>2 DEF CursorInv
    <3> QED
      BY <3>3, <3>4
  <2> QED
    BY <2>1, <2>2, <2>3, <2>4 DEF Next
<1> QED
  BY <1>1, <1>2, ResolvedAlways, PTL DEF Spec

\* The cursor is inside the list and not NULL when it is used.
THEOREM TypeCorrect == Spec => []TypeOK
<1>1. ResolvingType /\ ResolvingInv /\ RequestType /\ CursorInv => TypeOK
  <2> SUFFICES ASSUME ResolvingType, ResolvingInv, RequestType, CursorInv
               PROVE  TypeOK
    OBVIOUS
  <2>1. MayFailOver => proxyCursor # 0
    BY DEF MayFailOver, CursorInv, EntryOf
  <2> QED
    BY <2>1 DEF TypeOK, ResolvingType, RequestType, CursorInv
<1> QED
  BY <1>1, CursorAlways, PTL

\* The proxies of a list are set in order, each once and none left out.
THEOREM ProxiesAlwaysInOrder == Spec => []ProxiesInOrder
<1>1. CursorInv => ProxiesInOrder
  BY InOrderIsProxiesInOrder DEF CursorInv
<1> QED
  BY <1>1, CursorAlways, PTL

-----------------------------------------------------------------------------
(* The result                                                              *)

\* Until it returns, a request has no result; and once a proxy was tried, there is
\* an error to return.
AnsweredInv ==
    /\ SuccessMeansAnswered
    /\ pc # "ready" => ~answered /\ result = "none"
    /\ pc = "next" /\ (returnedFirst \/ dwProxyCursor # 0)
           => requestError # "success"

\* Every step keeps it.
LEMMA AnsweredStep ==
    ASSUME RequestType, AnsweredInv, [Next]_vars
    PROVE  AnsweredInv'
<1>1. CASE ResolveProxy
  <2>1. UNCHANGED <<result, answered>> /\ pc \notin {"ready", "next", "send"}
        /\ pc' # "next"
    BY <1>1 DEF ResolveProxy, GetIEProxyConfig, GetIEProxyConfigFails,
                UseStaticProxy, GetProxyForAutoSettings, ProxyFound, LogonFailed,
                LookupFailed, Commit, AfterDetect, Automatic, requestVars
  <2> QED
    BY <2>1 DEF AnsweredInv, SuccessMeansAnswered
<1>2. CASE SendRequest
  BY <1>2 DEF SendRequest, AnsweredInv, SuccessMeansAnswered
<1>3. CASE FirstProxy
  BY <1>3 DEF FirstProxy, SetOption, SendNext, Quit, AnsweredInv,
              SuccessMeansAnswered
<1>4. CASE NoFailOver
  BY <1>4 DEF NoFailOver, Quit, quitVars, AnsweredInv, SuccessMeansAnswered
<1>5. CASE NextProxy
  BY <1>5 DEF NextProxy, MayFailOver, SetOption, SendNext, Quit, AnsweredInv,
              SuccessMeansAnswered
<1>6. CASE EndOfList
  BY <1>6 DEF EndOfList, MayFailOver, Quit, quitVars, AnsweredInv,
              SuccessMeansAnswered
<1>7. CASE StaticProxyEx
  BY <1>7 DEF StaticProxyEx, SetOption, SendNext, Quit, AnsweredInv,
              SuccessMeansAnswered
<1>8. CASE NoFailOverEx
  BY <1>8 DEF NoFailOverEx, Quit, quitVars, AnsweredInv, SuccessMeansAnswered
<1>9. CASE NextProxyEx
  BY <1>9 DEF NextProxyEx, SendNext, AnsweredInv, SuccessMeansAnswered
<1>10. CASE ReceiveResponse
  BY <1>10 DEF ReceiveResponse, Quit, AnsweredInv, SuccessMeansAnswered
<1>11. CASE RequestFails
  BY <1>11 DEF RequestFails, RequestErrors, AnsweredInv, SuccessMeansAnswered
<1>12. CASE UNCHANGED vars
  BY <1>12 DEF vars, cursorVars, requestVars, AnsweredInv, SuccessMeansAnswered
<1> QED
  BY <1>1, <1>2, <1>3, <1>4, <1>5, <1>6, <1>7, <1>8, <1>9, <1>10, <1>11, <1>12
     DEF Next, Sending, SetNextProxySetting, SetNextProxySettingEx

\* A request returns success exactly if it was answered.
THEOREM SuccessAlwaysAnswered == Spec => []SuccessMeansAnswered
<1>1. Init => AnsweredInv
  BY DEF Init, AnsweredInv, SuccessMeansAnswered
<1>2. RequestType /\ AnsweredInv /\ [Next]_vars => AnsweredInv'
  BY AnsweredStep
<1>3. ResolvingType /\ ResolvingInv /\ RequestType /\ CursorInv => RequestType
  OBVIOUS
<1>4. AnsweredInv => SuccessMeansAnswered
  BY DEF AnsweredInv
<1> QED
  BY <1>1, <1>2, <1>3, <1>4, CursorAlways, PTL DEF Spec
=============================================================================
