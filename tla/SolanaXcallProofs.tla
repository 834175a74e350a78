------------------------- MODULE SolanaXcallProofs --------------------------
(***************************************************************************)
(* What the Solana programs keep, whatever relays bring, in whatever order *)
(* and however often, for all networks, connections and lists.             *)
(***************************************************************************)
EXTENDS SolanaXcall, TLAPS

\* What is collected was delivered; answers are collected from connections of
\* the call that was named with them.
RequestsHeard ==
  \A r \in DOMAIN pendingRequests : \A k \in pendingRequests[r] :
    <<CSRequest(r), k>> \in heard
ResponsesHeard ==
  \A x \in DOMAIN pendingResponses : \A k \in pendingResponses[x] :
    \E t \in 1..sn : <<x, k, t>> \in heard /\ k \in Range(calls[t].protocols)

\* What a call s over the connections of a list succeeds and fails on.
Succeeded(H, s, protocols) ==
  \E m \in Results({Success}) : SettledOn(H, m, s, protocols)
Failed(H, s, protocols) ==
  \E x \in Results({Failure}) \cup {ErrorSeeds(s)} : SettledOn(H, x, s, protocols)

\* What a request is admitted on.
Admissible(H, C, Y, req) ==
  \/ EndorsedBy(H, {CSRequest(req)}, req.protocols)
  \/ \E s \in Y : \E m \in Results({Success}) :
       /\ m.payload.reply # None
       /\ [m.payload.reply EXCEPT !.protocols = req.protocols] = req
       /\ C[s].to = req.from /\ C[s].protocols = req.protocols
       /\ SettledOn(H, m, s, req.protocols)

\* A rollback account is that of a call; it is enabled after the call failed.
Open(H, C, s, rollback) ==
  /\ C[s] # None /\ C[s].to = rollback.to /\ C[s].protocols = rollback.protocols
  /\ rollback.enabled => Failed(H, s, rollback.protocols)
RollbacksOpen ==
  \A s \in DOMAIN rollbacks : Open(heard, calls, s, rollbacks[s])

SettleInv ==
  RequestsHeard /\ ResponsesHeard /\ RollbacksOpen
    /\ RequestsEndorsed /\ SettlementEndorsed /\ SettledOnce

\* Whatever was admitted came under a number that is received; accounts of
\* requests and finished requests go back to an admission.
FinishInv ==
  /\ \A a \in admitted : <<a[1][1], a[1][2]>> \in receipts[a[1][3]]
  /\ \A x \in DOMAIN proxyRequests : <<x, proxyRequests[x]>> \in admitted
  /\ \A x \in finished : \E a \in admitted : a[1] = x[1]
  /\ AdmittedFinishedOnce

SolanaInv == TypeOK /\ SettleInv /\ FinishInv /\ ConnSnUnique

-----------------------------------------------------------------------------
(***************************************************************************)
(* Lists, results and deliveries                                           *)
(***************************************************************************)
\* A list names connections only.
LEMMA ListOfConns ==
  ASSUME NEW p \in Protocols
  PROVE  /\ p \in Seq(Conn) /\ Range(p) \subseteq Conn
         /\ \A k \in Range(p) : Len(p) = 1 => Range(p) = {k}
         /\ p # <<>> /\ ~(Len(p) > 1) => Len(p) = 1
         /\ \A k \in Range(p) : p # <<>>
<1>1. p \in Seq(Conn)
  BY XcallAssumption, Zenon
<1>2. Range(p) \subseteq Conn
  BY <1>1 DEF Range
<1>3. \A k \in Range(p) : Len(p) = 1 => Range(p) = {k}
  BY <1>1 DEF Range
<1>4. p # <<>> /\ ~(Len(p) > 1) => Len(p) = 1
  <2>1. Len(p) \in Nat
    BY <1>1
  <2>2. Len(p) = 0 => p = <<>>
    BY <1>1
  <2> QED
    BY <2>1, <2>2
<1>5. \A k \in Range(p) : p # <<>>
  BY <1>1 DEF Range
<1> QED
  BY <1>1, <1>2, <1>3, <1>4, <1>5, Zenon

LEMMA ResultIn ==
  ASSUME NEW res \in Result, NEW codes, res.code \in codes
  PROVE  CSResult(res) \in Results(codes)
<1>1. CSResult(res) \in ResultsOf(res.sn, codes) /\ res.sn \in Sns
  BY Zenon DEF Result, ResultsOf
<1> QED
  BY <1>1, Zenon DEF Results

LEMMA MessageParts ==
  ASSUME NEW m \in CSMessage
  PROVE  /\ m.type = "CSMessageRequest" =>
              m.payload \in Request /\ m = CSRequest(m.payload)
         /\ m.type = "CSMessageResult" =>
              m.payload \in Result /\ m = CSResult(m.payload)
BY Zenon DEF CSMessage, CSRequest, CSResult

\* A result or an error is about one call.
LEMMA AboutOne ==
  ASSUME NEW s, NEW t, NEW x \in About(s), x \in About(t)
  PROVE  s = t
<1>1. ASSUME NEW u, NEW y \in ResultsOf(u, Code)
      PROVE  y.payload.sn = u /\ "sn" \notin DOMAIN y
  BY <1>1 DEF ResultsOf, CSResult
<1>2. ASSUME NEW u
      PROVE  ErrorSeeds(u).sn = u /\ "sn" \in DOMAIN ErrorSeeds(u)
  BY DEF ErrorSeeds
<1>3. CASE x \in ResultsOf(s, Code)
  <2>1. x # ErrorSeeds(t)
    <3>1. "sn" \notin DOMAIN x
      BY <1>1, <1>3, Zenon
    <3>2. "sn" \in DOMAIN ErrorSeeds(t)
      BY <1>2, Zenon
    <3> QED
      BY <3>1, <3>2, Zenon
  <2>2. x \in ResultsOf(t, Code)
    BY <2>1, Zenon DEF About
  <2>3. x.payload.sn = t
    BY <1>1, <2>2, Zenon
  <2>4. x.payload.sn = s
    BY <1>1, <1>3, Zenon
  <2> QED
    BY <2>3, <2>4, Zenon
<1>4. CASE x = ErrorSeeds(s)
  <2>1. x \notin ResultsOf(t, Code)
    <3>1. "sn" \in DOMAIN x
      BY <1>2, <1>4, Zenon
    <3>2. \A y \in ResultsOf(t, Code) : "sn" \notin DOMAIN y
      BY <1>1, Zenon
    <3> QED
      BY <3>1, <3>2, Zenon
  <2>2. x = ErrorSeeds(t)
    BY <2>1, Zenon DEF About
  <2>3. x.sn = t /\ x.sn = s
    BY <1>2, <1>4, <2>2
  <2> QED
    BY <2>3, Zenon
<1> QED
  BY <1>3, <1>4, Zenon DEF About

\* More deliveries endorse no less.
LEMMA EndorsedGrows ==
  ASSUME NEW H, NEW G, H \subseteq G, NEW M, NEW p, EndorsedBy(H, M, p)
  PROVE  EndorsedBy(G, M, p)
BY Zenon DEF EndorsedBy

\* Nor do they settle less.
LEMMA SettledGrows ==
  ASSUME NEW H, NEW G, H \subseteq G, NEW x, NEW s, NEW p, SettledOn(H, x, s, p)
  PROVE  SettledOn(G, x, s, p)
<1>1. \E k \in Range(p) : <<x, k, s>> \in G
  BY Zenon DEF SettledOn
<1>2. Len(p) > 1 =>
        \E S \in SUBSET Conn :
          /\ Cardinality(S) = Len(p)
          /\ \A k \in S : \E h \in G : h[1] = x /\ h[2] = k
  BY Zenon DEF SettledOn
<1>3. Misnumbered(H, x) => Misnumbered(G, x)
  BY Zenon DEF Misnumbered
<1>4. Misnumbered(G, x) \/ (x \in About(s) /\ EndorsedBy(G, {x}, p))
  BY <1>3, EndorsedGrows, Zenon DEF SettledOn
<1> QED
  BY <1>1, <1>2, <1>4, Zenon DEF SettledOn

\* Two records of the calls agree on those of Y.
Agree(C, D, Y) == \A s \in Y : D[s] = C[s]

\* What a request is admitted on stays when more is delivered and calls settle.
LEMMA AdmissionGrows ==
  ASSUME NEW H, NEW C, NEW Y, NEW req, Admissible(H, C, Y, req),
         NEW D, Agree(C, D, Y), NEW G, H \subseteq G, NEW Z, Y \subseteq Z
  PROVE  Admissible(G, D, Z, req)
<1>1. CASE EndorsedBy(H, {CSRequest(req)}, req.protocols)
  BY <1>1, EndorsedGrows, Zenon DEF Admissible
<1>2. CASE ~EndorsedBy(H, {CSRequest(req)}, req.protocols)
  <2>1. PICK s \in Y, m \in Results({Success}) :
          /\ m.payload.reply # None
          /\ [m.payload.reply EXCEPT !.protocols = req.protocols] = req
          /\ C[s].to = req.from /\ C[s].protocols = req.protocols
          /\ SettledOn(H, m, s, req.protocols)
    BY <1>2, Zenon DEF Admissible
  <2>2. SettledOn(G, m, s, req.protocols)
    BY <2>1, SettledGrows, Zenon
  <2>3. s \in Z /\ D[s].to = req.from /\ D[s].protocols = req.protocols
    BY <2>1, Zenon DEF Agree
  <2> QED
    BY <2>1, <2>2, <2>3, Zenon DEF Admissible
<1> QED
  BY <1>1, <1>2, Zenon

\* So do answers.
LEMMA AnswersGrow ==
  ASSUME NEW H, NEW G, H \subseteq G, NEW s, NEW p
  PROVE  /\ Succeeded(H, s, p) => Succeeded(G, s, p)
         /\ Failed(H, s, p) => Failed(G, s, p)
BY SettledGrows, Zenon DEF Succeeded, Failed

\* As many deliveries as the list is long endorse.
LEMMA CompleteEndorses ==
  ASSUME SolanaAssumption, NEW p \in Protocols, NEW k \in Range(p),
         NEW S \in SUBSET Range(p), k \in S,
         Len(p) > 1 => Cardinality(S) = Len(p),
         NEW H, NEW m, \A q \in S : \E h \in H : h[1] = m /\ h[2] = q
  PROVE  EndorsedBy(H, {m}, p)
<1>1. \A q \in S : \E h \in H : h[1] \in {m} /\ h[2] = q
  BY Zenon
<1>2. p # <<>> /\ p \in Routes
  BY ListOfConns, Zenon DEF Routes
<1>3. CASE Len(p) > 1
  <2>1. S = Range(p)
    BY <1>2, <1>3, Zenon DEF SolanaAssumption, Countable
  <2> QED
    BY <1>1, <1>2, <2>1, Zenon DEF EndorsedBy
<1>4. CASE ~(Len(p) > 1)
  <2>1. Range(p) = {k}
    BY <1>2, <1>4, ListOfConns, Zenon
  <2> QED
    BY <1>1, <1>2, <2>1, Zenon DEF EndorsedBy
<1> QED
  BY <1>3, <1>4, Zenon

-----------------------------------------------------------------------------
(***************************************************************************)
(* Accounts                                                                *)
(***************************************************************************)
\* What init_if_needed and set leave in the accounts, and what close does.
Stored(old, new, seeds, value) ==
  /\ DOMAIN new = DOMAIN old \cup {seeds}
  /\ new[seeds] = value
  /\ \A x \in DOMAIN old : x # seeds => new[x] = old[x]
Closed(old, new, seeds) ==
  /\ DOMAIN new = DOMAIN old \ {seeds}
  /\ \A x \in DOMAIN new : new[x] = old[x]

LEMMA StoreStores ==
  ASSUME NEW accounts, NEW seeds, NEW value
  PROVE  Stored(accounts, Store(accounts, seeds, value), seeds, value)
<1>1. seeds \in DOMAIN accounts \cup {seeds}
  BY Zenon
<1> QED
  BY <1>1, Zenon DEF Stored, Store

LEMMA CloseCloses ==
  ASSUME NEW accounts, NEW seeds
  PROVE  Closed(accounts, Close(accounts, seeds), seeds)
BY Zenon DEF Closed, Close

LEMMA AccountsStored ==
  ASSUME NEW old, NEW new, NEW seeds, NEW value, NEW S, NEW V,
         Accounts(old, S, V), Stored(old, new, seeds, value),
         seeds \in S, value \in V
  PROVE  Accounts(new, S, V)
BY Zenon DEF Accounts, Stored

LEMMA AccountsClosed ==
  ASSUME NEW old, NEW new, NEW seeds, NEW S, NEW V,
         Accounts(old, S, V), Closed(old, new, seeds)
  PROVE  Accounts(new, S, V)
BY Zenon DEF Accounts, Closed

\* More seeds are no less.
LEMMA AccountsGrow ==
  ASSUME NEW S, NEW T, S \subseteq T, NEW V, NEW accounts,
         Accounts(accounts, S, V)
  PROVE  Accounts(accounts, T, V)
BY Zenon DEF Accounts

-----------------------------------------------------------------------------
(***************************************************************************)
(* Typing                                                                  *)
(***************************************************************************)
LEMMA NextSn ==
  ASSUME TypeOK
  PROVE  /\ sn \in Nat /\ 1..sn \subseteq Sns
         /\ 1..sn \subseteq 1..(sn + 1) /\ sn + 1 \notin 1..sn
         /\ sn + 1 \in 1..(sn + 1)
         /\ sn + 1 \in Sns => sn + 1 \in 0..MaxSn
         /\ \A s \in Sns : s <= sn => s # sn + 1 /\ s <= sn + 1
         /\ \A s \in 1..sn : s <= sn
<1>1. sn \in Nat /\ sn <= MaxSn
  BY XcallAssumption DEF TypeOK
<1> QED
  BY <1>1, XcallAssumption DEF Sns

LEMMA NextReqId ==
  ASSUME TypeOK, reqId + 1 \in ReqIds
  PROVE  reqId + 1 \in 0..MaxReqId
BY XcallAssumption DEF TypeOK, ReqIds

\* How often a connection is among the accounts can be counted.
LEMMA TimesNat ==
  ASSUME SolanaAssumption, NEW p \in Protocols, NEW accounts \in AccountsFor(p),
         NEW k \in Conn
  PROVE  Times(k, accounts) \in Nat
<1>1. DOMAIN accounts = DOMAIN p
  BY Zenon DEF AccountsFor
<1>2. {i \in DOMAIN accounts : accounts[i] = k} \in SUBSET (DOMAIN p)
  BY <1>1, Zenon
<1>3. p \in Routes
  BY Zenon DEF Routes
<1> QED
  BY <1>2, <1>3, Zenon DEF SolanaAssumption, Countable, Times

\* Numbers of a connection stay within bounds.
LEMMA SendMessagesTypes ==
  ASSUME SolanaAssumption, TypeOK, NEW p \in Protocols,
         NEW accounts \in AccountsFor(p), NEW net, NEW s, NEW m,
         SendMessages(accounts, net, s, m)
  PROVE  connSn' \in [Conn -> 0..MaxConnSn]
<1>1. \A k \in Conn : /\ Times(k, accounts) \in Nat
                      /\ connSn[k] + Times(k, accounts) <= MaxConnSn
                      /\ connSn[k] \in 0..MaxConnSn
  BY TimesNat, Zenon DEF SendMessages, TypeOK
<1>2. MaxConnSn \in Nat
  BY Zenon DEF SolanaAssumption
<1>3. \A k \in Conn : connSn[k] + Times(k, accounts) \in 0..MaxConnSn
  BY <1>1, <1>2
<1> QED
  BY <1>3, Zenon DEF SendMessages

\* What a new call stores.
CallStored(to, src) ==
  /\ DOMAIN rollbacks \subseteq DOMAIN rollbacks'
  /\ \A s \in DOMAIN rollbacks : rollbacks'[s] = rollbacks[s]
  /\ \A s \in DOMAIN rollbacks' : s \in DOMAIN rollbacks \/
       /\ s = sn + 1
       /\ rollbacks'[s] = [to |-> to, protocols |-> src, enabled |-> FALSE]
       /\ calls'[s] = [to |-> to, protocols |-> src]
       /\ calls'[s] # None
  /\ \A s \in Sns : s # sn + 1 => calls'[s] = calls[s]

LEMMA CreateTypes ==
  ASSUME TypeOK, sn + 1 \in Sns, NEW to \in Nets, NEW src \in Protocols,
         CreateRollback(to, src) \/ UNCHANGED <<rollbacks, calls>>
  PROVE  /\ Accounts(rollbacks', 1..(sn + 1), RollbackAccount)
         /\ calls' \in [Sns -> Call \cup {None}]
         /\ CallStored(to, src)
<1>1. /\ Accounts(rollbacks, 1..(sn + 1), RollbackAccount)
      /\ sn + 1 \notin DOMAIN rollbacks
  <2>1. Accounts(rollbacks, 1..sn, RollbackAccount)
    BY Zenon DEF TypeOK
  <2> QED
    BY <2>1, NextSn, AccountsGrow, Zenon DEF Accounts
<1>2. CASE UNCHANGED <<rollbacks, calls>>
  BY <1>1, <1>2, Zenon DEF TypeOK, CallStored
<1>3. CASE CreateRollback(to, src)
  <2>1. PICK rollback, call :
          /\ rollback = [to |-> to, protocols |-> src, enabled |-> FALSE]
          /\ call = [to |-> to, protocols |-> src]
    BY Zenon
  <2>2. rollback \in RollbackAccount /\ call \in Call
    BY <2>1, Zenon DEF RollbackAccount, Call, Nets
  <2>3. /\ rollbacks' = Store(rollbacks, sn + 1, rollback)
        /\ calls' = [calls EXCEPT ![sn + 1] = call]
    BY <1>3, <2>1, Zenon DEF CreateRollback
  <2>4. Stored(rollbacks, rollbacks', sn + 1, rollback)
    BY <2>3, StoreStores, Zenon
  <2>5. Accounts(rollbacks', 1..(sn + 1), RollbackAccount)
    BY <1>1, <2>2, <2>4, NextSn, AccountsStored, Zenon
  <2>6. /\ calls' \in [Sns -> Call \cup {None}] /\ calls'[sn + 1] = call
        /\ \A s \in Sns : s # sn + 1 => calls'[s] = calls[s]
    BY <2>2, <2>3, Zenon DEF TypeOK
  <2>7. call # None
    BY <2>2, XcallAssumption, Zenon
  <2> QED
    BY <1>1, <2>1, <2>4, <2>5, <2>6, <2>7, Zenon DEF CallStored, Stored
<1> QED
  BY <1>2, <1>3, Zenon

LEMMA SendCallTypes ==
  ASSUME SolanaAssumption, TypeOK, NEW to \in Nets, NEW type,
         NEW src \in Protocols, NEW dst, NEW accounts \in AccountsFor(src),
         SendCall(to, type, src, dst, accounts)
  PROVE  TypeOK' /\ CallStored(to, src)
<1>1. /\ sn + 1 \in Sns /\ sn' = sn + 1
      /\ CreateRollback(to, src) \/ UNCHANGED <<rollbacks, calls>>
      /\ UNCHANGED <<reqVars, pendVars, doneVars, feeVars, receipts>>
  BY Zenon DEF SendCall
<1>2. connSn' \in [Conn -> 0..MaxConnSn]
  BY SendMessagesTypes, Zenon DEF SendCall
<1>3. /\ Accounts(rollbacks', 1..sn', RollbackAccount)
      /\ calls' \in [Sns -> Call \cup {None}]
      /\ CallStored(to, src)
  BY <1>1, CreateTypes, Zenon
<1>4. sn' \in 0..MaxSn /\ 1..sn \subseteq 1..sn'
  BY <1>1, NextSn, Zenon
<1> QED
  BY <1>1, <1>2, <1>3, <1>4, Zenon
     DEF TypeOK, reqVars, pendVars, doneVars, feeVars

\* A request gets its account.
LEMMA SetProxyTypes ==
  ASSUME TypeOK, NEW src \in Nets, NEW n \in ConnSns, NEW k \in Conn,
         NEW req \in Request, SetProxyRequest(src, n, k, req)
  PROVE  /\ reqId' \in 0..MaxReqId
         /\ Accounts(proxyRequests', Nets \X ConnSns \X Conn, Request)
         /\ Stored(proxyRequests, proxyRequests', <<src, n, k>>, req)
         /\ admitted' \subseteq (Nets \X ConnSns \X Conn) \X Request
<1>1. /\ reqId + 1 \in ReqIds /\ reqId' = reqId + 1
      /\ proxyRequests' = Store(proxyRequests, <<src, n, k>>, req)
      /\ admitted' = admitted \cup {<<<<src, n, k>>, req>>}
  BY Zenon DEF SetProxyRequest, ProxySeeds
<1>2. PICK seeds \in Nets \X ConnSns \X Conn : seeds = <<src, n, k>>
  OBVIOUS
<1>3. Stored(proxyRequests, proxyRequests', <<src, n, k>>, req)
  BY <1>1, StoreStores, Zenon
<1>4. Accounts(proxyRequests', Nets \X ConnSns \X Conn, Request)
  BY <1>2, <1>3, AccountsStored, Zenon DEF TypeOK
<1>5. admitted' \subseteq (Nets \X ConnSns \X Conn) \X Request
  <2>1. <<seeds, req>> \in (Nets \X ConnSns \X Conn) \X Request
    BY <1>2, Zenon
  <2>2. admitted' = admitted \cup {<<seeds, req>>}
    BY <1>1, <1>2, Zenon
  <2> QED
    BY <2>1, <2>2, Zenon DEF TypeOK
<1> QED
  BY <1>1, <1>3, <1>4, <1>5, NextReqId, Zenon

\* A delivery takes a receipt.
LEMMA ReceiptTypes ==
  ASSUME TypeOK, NEW src \in Nets, NEW n \in ConnSns, NEW k \in Conn,
         TakeReceipt(src, n, k)
  PROVE  receipts' \in [Conn -> SUBSET (Nets \X ConnSns)]
<1>1. receipts[k] \cup {<<src, n>>} \in SUBSET (Nets \X ConnSns)
  BY DEF TypeOK
<1> QED
  BY <1>1, Zenon DEF TakeReceipt, TypeOK

LEMMA RequestTypes ==
  ASSUME TypeOK, NEW src \in Nets, NEW n \in ConnSns, NEW k \in Conn,
         NEW req \in Request, TakeReceipt(src, n, k),
         HandleRequestPending(src, n, k, req) \/ HandleRequest(src, n, k, req)
  PROVE  TypeOK'
<1>1. receipts' \in [Conn -> SUBSET (Nets \X ConnSns)]
  BY ReceiptTypes, Zenon
<1>2. CASE HandleRequestPending(src, n, k, req)
  <2>1. /\ k \in Range(req.protocols)
        /\ pendingRequests' =
             Store(pendingRequests, req, Sources(pendingRequests, req, k))
        /\ proxyRequests' = Close(proxyRequests, <<src, n, k>>)
        /\ UNCHANGED <<sendVars, reqId, admitted, pendingResponses, doneVars,
                       outVars, feeVars, rollbacks>>
    BY <1>2, Zenon
       DEF HandleRequestPending, RequestValid, IsValidSource, ProxySeeds
  <2>2. Stored(pendingRequests, pendingRequests', req,
               Sources(pendingRequests, req, k))
    BY <2>1, StoreStores, Zenon
  <2>3. Closed(proxyRequests, proxyRequests', <<src, n, k>>)
    BY <2>1, CloseCloses, Zenon
  <2>4. Sources(pendingRequests, req, k) \subseteq Range(req.protocols)
    BY <2>1, Zenon DEF TypeOK, Sources
  <2>5. \A r \in DOMAIN pendingRequests' :
          r \in Request /\ pendingRequests'[r] \subseteq Range(r.protocols)
    BY <2>2, <2>4, Zenon DEF TypeOK, Stored
  <2>6. Accounts(proxyRequests', Nets \X ConnSns \X Conn, Request)
    BY <2>3, AccountsClosed, Zenon DEF TypeOK
  <2> QED
    BY <1>1, <2>1, <2>5, <2>6, Zenon
       DEF TypeOK, sendVars, doneVars, outVars, feeVars
<1>3. CASE HandleRequest(src, n, k, req)
  <2>1. /\ pendingRequests' = Close(pendingRequests, req)
        /\ SetProxyRequest(src, n, k, req)
        /\ UNCHANGED <<sendVars, pendingResponses, doneVars, outVars, feeVars,
                       rollbacks>>
    BY <1>3, Zenon DEF HandleRequest
  <2>2. Closed(pendingRequests, pendingRequests', req)
    BY <2>1, CloseCloses, Zenon
  <2>3. \A r \in DOMAIN pendingRequests' :
          r \in Request /\ pendingRequests'[r] \subseteq Range(r.protocols)
    BY <2>2, Zenon DEF TypeOK, Closed
  <2>4. /\ reqId' \in 0..MaxReqId
        /\ Accounts(proxyRequests', Nets \X ConnSns \X Conn, Request)
        /\ admitted' \subseteq (Nets \X ConnSns \X Conn) \X Request
    BY <2>1, SetProxyTypes, Zenon
  <2> QED
    BY <1>1, <2>1, <2>3, <2>4, Zenon
       DEF TypeOK, sendVars, doneVars, outVars, feeVars
<1> QED
  BY <1>2, <1>3, Zenon

\* An answer is collected.
LEMMA ResponsePendingTypes ==
  ASSUME TypeOK, NEW k \in Conn, NEW s, NEW x, ResponsePending(k, s, x)
  PROVE  /\ Stored(pendingResponses, pendingResponses', x,
                   Sources(pendingResponses, x, k))
         /\ receipts' \in [Conn -> SUBSET (Nets \X ConnSns)] => TypeOK'
<1>1. /\ pendingResponses' =
           Store(pendingResponses, x, Sources(pendingResponses, x, k))
      /\ UNCHANGED <<sendVars, reqVars, pendingRequests, doneVars, outVars,
                     feeVars, rollbacks>>
  BY Zenon DEF ResponsePending
<1>2. Stored(pendingResponses, pendingResponses', x,
             Sources(pendingResponses, x, k))
  BY <1>1, StoreStores, Zenon
<1>3. Sources(pendingResponses, x, k) \subseteq Conn
  BY Zenon DEF TypeOK, Sources
<1>4. \A y \in DOMAIN pendingResponses' : pendingResponses'[y] \subseteq Conn
  BY <1>2, <1>3, Zenon DEF TypeOK, Stored
<1> QED
  BY <1>1, <1>2, <1>4, Zenon
     DEF TypeOK, sendVars, reqVars, doneVars, outVars, feeVars

\* The last one that was missing comes in.
LEMMA ResponseCompleteTypes ==
  ASSUME TypeOK, NEW k \in Conn, NEW s, NEW x, ResponseComplete(k, s, x)
  PROVE  /\ s \in DOMAIN rollbacks /\ s \in 1..sn /\ s \in Sns
         /\ rollbacks[s] \in RollbackAccount
         /\ Closed(pendingResponses, pendingResponses', x)
         /\ \A y \in DOMAIN pendingResponses' : pendingResponses'[y] \subseteq Conn
         /\ heard' = heard \cup {<<x, k, s>>}
<1>1. /\ s \in DOMAIN rollbacks
      /\ pendingResponses' = Close(pendingResponses, x)
      /\ heard' = heard \cup {<<x, k, s>>}
  BY Zenon DEF ResponseComplete, ResponseValid, HearAnswer
<1>2. s \in 1..sn /\ rollbacks[s] \in RollbackAccount
  BY <1>1, Zenon DEF TypeOK, Accounts
<1>3. Closed(pendingResponses, pendingResponses', x)
  BY <1>1, CloseCloses, Zenon
<1>4. \A y \in DOMAIN pendingResponses' : pendingResponses'[y] \subseteq Conn
  BY <1>3, Zenon DEF TypeOK, Closed
<1> QED
  BY <1>1, <1>2, <1>3, <1>4, NextSn, Zenon

\* enable_rollback.
Enabled(s) ==
  /\ DOMAIN rollbacks' = DOMAIN rollbacks
  /\ rollbacks'[s] = [rollbacks[s] EXCEPT !.enabled = TRUE]
  /\ \A t \in DOMAIN rollbacks : t # s => rollbacks'[t] = rollbacks[t]

LEMMA EnableTypes ==
  ASSUME TypeOK, NEW s \in DOMAIN rollbacks, EnableRollback(s)
  PROVE  Enabled(s) /\ Accounts(rollbacks', 1..sn, RollbackAccount)
<1>1. Enabled(s)
  BY Zenon DEF EnableRollback, Enabled
<1>2. rollbacks[s] \in RollbackAccount
  BY Zenon DEF TypeOK, Accounts
<1>3. rollbacks'[s] \in RollbackAccount
  BY <1>1, <1>2, Zenon DEF Enabled, RollbackAccount
<1> QED
  BY <1>1, <1>3, Zenon DEF TypeOK, Accounts, Enabled

LEMMA FailureTypes ==
  ASSUME TypeOK, NEW k \in Conn, NEW s, NEW x, ResponseComplete(k, s, x),
         EnableRollback(s),
         UNCHANGED <<sendVars, reqVars, pendingRequests, doneVars, outVars,
                     feeVars>>,
         receipts' \in [Conn -> SUBSET (Nets \X ConnSns)]
  PROVE  TypeOK'
<1>1. /\ s \in DOMAIN rollbacks
      /\ \A y \in DOMAIN pendingResponses' : pendingResponses'[y] \subseteq Conn
  BY ResponseCompleteTypes, Zenon
<1>2. Accounts(rollbacks', 1..sn, RollbackAccount)
  BY <1>1, EnableTypes, Zenon
<1> QED
  BY <1>1, <1>2, Zenon
     DEF TypeOK, sendVars, reqVars, doneVars, outVars, feeVars

\* The reply that comes with a success is a request.
ReplyTo(req, reply, rollback) ==
  /\ req.from = rollback.to /\ req.protocols = rollback.protocols
  /\ req = [reply EXCEPT !.protocols = rollback.protocols]

LEMMA ReplyRequest ==
  ASSUME TypeOK, NEW src, NEW n, NEW k \in Conn, NEW m, m.payload \in Result,
         NEW s, m.payload.reply # None, HandleResultSuccess(src, n, k, m, s)
  PROVE  \E req \in Request : /\ ReplyTo(req, m.payload.reply, rollbacks[s])
                               /\ SetProxyRequest(src, n, k, req)
<1>1. PICK p : p = rollbacks[s].protocols
  BY Zenon
<1>2. p \in Protocols
  BY <1>1, ResponseCompleteTypes, Zenon
     DEF HandleResultSuccess, RollbackAccount
<1>3. PICK req : req = [m.payload.reply EXCEPT !.protocols = p]
  BY Zenon
<1>4. /\ req \in Request /\ req.protocols = p
      /\ req.from = m.payload.reply.from
  BY <1>2, <1>3, Zenon DEF Result, Request
<1>5. rollbacks[s].to = m.payload.reply.from /\ SetProxyRequest(src, n, k, req)
  BY <1>1, <1>3, Zenon DEF HandleResultSuccess, HandleReply
<1> QED
  BY <1>1, <1>3, <1>4, <1>5, Zenon DEF ReplyTo

LEMMA SuccessTypes ==
  ASSUME TypeOK, NEW src \in Nets, NEW n \in ConnSns, NEW k \in Conn, NEW m,
         m.payload \in Result, TakeReceipt(src, n, k), NEW s,
         HandleResultSuccess(src, n, k, m, s)
  PROVE  TypeOK'
<1>2. /\ ResponseComplete(k, s, MessageSeeds(m))
      /\ rollbacks' = Close(rollbacks, s)
      /\ successfulResponses' = successfulResponses \cup {s}
      /\ UNCHANGED <<sendVars, pendingRequests, finished, rolledBack, outVars,
                     feeVars>>
  BY Zenon DEF HandleResultSuccess, CloseRollback
<1>3. /\ s \in 1..sn
      /\ \A y \in DOMAIN pendingResponses' : pendingResponses'[y] \subseteq Conn
  BY <1>2, ResponseCompleteTypes, Zenon
<1>4. Accounts(rollbacks', 1..sn, RollbackAccount)
  BY <1>2, CloseCloses, AccountsClosed, Zenon DEF TypeOK
<1>5. /\ reqId' \in 0..MaxReqId
      /\ Accounts(proxyRequests', Nets \X ConnSns \X Conn, Request)
      /\ admitted' \subseteq (Nets \X ConnSns \X Conn) \X Request
  <2>1. CASE m.payload.reply = None
    BY <2>1, Zenon DEF HandleResultSuccess, reqVars, TypeOK
  <2>2. CASE m.payload.reply # None
    BY <2>2, ReplyRequest, SetProxyTypes, Zenon
  <2> QED
    BY <2>1, <2>2, Zenon
<1>6. receipts' \in [Conn -> SUBSET (Nets \X ConnSns)]
  BY ReceiptTypes, Zenon
<1>7. successfulResponses' \subseteq 1..sn
  BY <1>2, <1>3, Zenon DEF TypeOK
<1> QED
  BY <1>2, <1>3, <1>4, <1>5, <1>6, <1>7, Zenon
     DEF TypeOK, sendVars, outVars, feeVars

\* Executions take the account of the request.
LEMMA TakeTypes ==
  ASSUME TypeOK, NEW seeds, NEW code, TakeProxyRequest(seeds, code)
  PROVE  /\ seeds \in DOMAIN proxyRequests
         /\ proxyRequests[seeds] \in Request
         /\ Closed(proxyRequests, proxyRequests', seeds)
         /\ Accounts(proxyRequests', Nets \X ConnSns \X Conn, Request)
<1>1. /\ seeds \in DOMAIN proxyRequests
      /\ proxyRequests' = Close(proxyRequests, seeds)
  BY Zenon DEF TakeProxyRequest, CloseProxyRequest
<1>2. Closed(proxyRequests, proxyRequests', seeds)
  BY <1>1, CloseCloses, Zenon
<1>3. Accounts(proxyRequests', Nets \X ConnSns \X Conn, Request)
  BY <1>2, AccountsClosed, Zenon DEF TypeOK
<1> QED
  BY <1>1, <1>2, <1>3, Zenon DEF TypeOK, Accounts

\* An execution sends answers or nothing.
Sends(p) ==
  \/ UNCHANGED <<connSn, sent>>
  \/ \E accounts \in AccountsFor(p) : \E net, s, m :
       SendMessages(accounts, net, s, m)

\* What an execution of any kind does.
LEMMA Finishing ==
  ASSUME TypeOK, NEW seeds \in DOMAIN proxyRequests,
         \/ \E success \in BOOLEAN :
              \/ ExecuteOneWay(seeds, success)
              \/ \E accounts \in AccountsFor(proxyRequests[seeds].protocols) :
                   ExecuteTwoWay(seeds, success, accounts)
         \/ HandleForcedRollback(seeds)
  PROVE  /\ \E code : TakeProxyRequest(seeds, code)
         /\ \E p \in Protocols : Sends(p)
         /\ UNCHANGED <<sendVars, reqId, admitted, pendVars,
                        successfulResponses, rolledBack, feeVars, rollbacks,
                        receipts>>
<1>1. PICK p : p = proxyRequests[seeds].protocols
  BY Zenon
<1>2. p \in Protocols
  BY <1>1, Zenon DEF TypeOK, Accounts, Request
<1>3. ASSUME NEW success \in BOOLEAN, ExecuteOneWay(seeds, success)
      PROVE  /\ \E code : TakeProxyRequest(seeds, code)
             /\ Sends(p)
             /\ UNCHANGED <<sendVars, reqId, admitted, pendVars,
                            successfulResponses, rolledBack, feeVars,
                            rollbacks, receipts>>
  BY <1>3, Zenon DEF ExecuteOneWay, Sends, outVars
<1>4. ASSUME NEW success \in BOOLEAN,
             NEW accounts \in AccountsFor(p),
             ExecuteTwoWay(seeds, success, accounts)
      PROVE  /\ \E code : TakeProxyRequest(seeds, code)
             /\ Sends(p)
             /\ UNCHANGED <<sendVars, reqId, admitted, pendVars,
                            successfulResponses, rolledBack, feeVars,
                            rollbacks, receipts>>
  BY <1>4, Zenon DEF ExecuteTwoWay, Answer, Sends
<1>5. ASSUME HandleForcedRollback(seeds)
      PROVE  /\ \E code : TakeProxyRequest(seeds, code)
             /\ Sends(p)
             /\ UNCHANGED <<sendVars, reqId, admitted, pendVars,
                            successfulResponses, rolledBack, feeVars,
                            rollbacks, receipts>>
  BY <1>1, <1>5, Zenon DEF HandleForcedRollback, Answer, Sends
<1> QED
  BY <1>1, <1>2, <1>3, <1>4, <1>5, Zenon

LEMMA FinishTypes ==
  ASSUME SolanaAssumption, TypeOK, NEW seeds, NEW code, NEW p \in Protocols,
         TakeProxyRequest(seeds, code), Sends(p),
         UNCHANGED <<sendVars, reqId, admitted, pendVars, successfulResponses,
                     rolledBack, feeVars, rollbacks, receipts>>
  PROVE  TypeOK'
<1>1. connSn' \in [Conn -> 0..MaxConnSn]
  BY SendMessagesTypes, Zenon DEF Sends, TypeOK
<1>2. Accounts(proxyRequests', Nets \X ConnSns \X Conn, Request)
  BY TakeTypes, Zenon
<1> QED
  BY <1>1, <1>2, Zenon DEF TypeOK, sendVars, pendVars, feeVars

LEMMA RollbackTypes ==
  ASSUME TypeOK, NEW s \in Sns, ExecuteRollback(s)
  PROVE  TypeOK'
<1>1. /\ s \in DOMAIN rollbacks /\ rollbacks' = Close(rollbacks, s)
      /\ rolledBack' = rolledBack \cup {s}
      /\ UNCHANGED <<sendVars, reqVars, pendVars, successfulResponses,
                     finished, outVars, feeVars, receipts>>
  BY Zenon DEF ExecuteRollback, CloseRollback
<1>2. Accounts(rollbacks', 1..sn, RollbackAccount)
  BY <1>1, CloseCloses, AccountsClosed, Zenon DEF TypeOK
<1>3. s \in 1..sn
  BY <1>1, Zenon DEF TypeOK, Accounts
<1>4. rolledBack' \subseteq 1..sn
  BY <1>1, <1>3, Zenon DEF TypeOK
<1> QED
  BY <1>1, <1>2, <1>4, Zenon
     DEF TypeOK, sendVars, reqVars, pendVars, outVars, feeVars

\* The admins set fees and claim them.
LEMMA AdminTypes ==
  ASSUME SolanaAssumption, TypeOK,
         \/ \E value \in FeeValues : SetProtocolFee(value)
         \/ \E k \in Conn, net \in Nets, f, g \in FeeValues :
              SetFee(k, net, f, g)
         \/ \E k \in Conn : ClaimFees(k)
         \/ UNCHANGED vars
  PROVE  /\ TypeOK'
         /\ UNCHANGED <<sendVars, reqVars, pendVars, doneVars, connSn, sent,
                        rollbacks, receipts>>
<1>1. UNCHANGED <<sendVars, reqVars, pendVars, doneVars, connSn, sent,
                  rollbacks, receipts>>
  BY Zenon DEF SetProtocolFee, SetFee, ClaimFees, vars, outVars
<1>2. protocolFee' \in Nat
  BY Zenon
     DEF SetProtocolFee, SetFee, ClaimFees, vars, feeVars, TypeOK,
         SolanaAssumption
<1>3. Accounts(networkFee', Conn \X Nets, [message : Nat, response : Nat])
  <2>1. CASE UNCHANGED networkFee
    BY <2>1, Zenon DEF TypeOK
  <2>2. ASSUME NEW k \in Conn, NEW net \in Nets, NEW f \in FeeValues,
               NEW g \in FeeValues, SetFee(k, net, f, g)
        PROVE  Accounts(networkFee', Conn \X Nets,
                        [message : Nat, response : Nat])
    <3>1. PICK fee, seeds : /\ fee = [message |-> f, response |-> g]
                            /\ seeds = <<k, net>>
      BY Zenon
    <3>2. fee \in [message : Nat, response : Nat] /\ seeds \in Conn \X Nets
      BY <3>1, Zenon DEF SolanaAssumption
    <3>3. Stored(networkFee, networkFee', seeds, fee)
      BY <2>2, <3>1, StoreStores, Zenon DEF SetFee
    <3> QED
      BY <3>2, <3>3, AccountsStored, Zenon DEF TypeOK
  <2> QED
    BY <2>1, <2>2, Zenon DEF SetProtocolFee, ClaimFees, vars, feeVars
<1> QED
  BY <1>1, <1>2, <1>3, Zenon DEF TypeOK, sendVars, reqVars, pendVars, doneVars

-----------------------------------------------------------------------------
(***************************************************************************)
(* Every step is of one of these kinds                                     *)
(***************************************************************************)
\* The receipt of a delivery of connection k, if it is not an error.
Received(k) ==
  UNCHANGED receipts
    \/ \E src \in Nets, n \in ConnSns : TakeReceipt(src, n, k)

Sending ==
  \E to \in Nets, src \in Protocols : \E accounts \in AccountsFor(src) :
    \E type, dst : SendCall(to, type, src, dst, accounts)
Waiting ==
  \E src \in Nets, n \in ConnSns, k \in Conn, req \in Request :
    TakeReceipt(src, n, k) /\ HandleRequestPending(src, n, k, req)
Admitting ==
  \E src \in Nets, n \in ConnSns, k \in Conn, req \in Request :
    TakeReceipt(src, n, k) /\ HandleRequest(src, n, k, req)
Collecting ==
  \E k \in Conn : \E s, x : ResponsePending(k, s, x) /\ Received(k)
Succeeding ==
  \E src \in Nets, n \in ConnSns, k \in Conn : \E m, s :
    /\ m.payload \in Result /\ m = CSResult(m.payload)
    /\ TakeReceipt(src, n, k) /\ HandleResultSuccess(src, n, k, m, s)
Failing ==
  \E k \in Conn : \E s : \E x \in Results({Failure}) \cup {ErrorSeeds(s)} :
    /\ ResponseComplete(k, s, x) /\ EnableRollback(s) /\ Received(k)
    /\ UNCHANGED <<sendVars, reqVars, pendingRequests, doneVars, outVars,
                   feeVars>>
Finishes ==
  /\ \E seeds, code : TakeProxyRequest(seeds, code)
  /\ \E p \in Protocols : Sends(p)
  /\ UNCHANGED <<sendVars, reqId, admitted, pendVars, successfulResponses,
                 rolledBack, feeVars, rollbacks, receipts>>
Administers ==
  \/ \E value \in FeeValues : SetProtocolFee(value)
  \/ \E k \in Conn, net \in Nets, f, g \in FeeValues : SetFee(k, net, f, g)
  \/ \E k \in Conn : ClaimFees(k)
  \/ UNCHANGED vars

LEMMA ReceiveKinds ==
  ASSUME SolanaAssumption, NEW src \in Nets, NEW n \in ConnSns, NEW k \in Conn,
         NEW m \in Wire, NEW s, RecvMessage(src, n, k, m, s)
  PROVE  Waiting \/ Admitting \/ Collecting \/ Succeeding \/ Failing
<1>1. TakeReceipt(src, n, k) /\ Received(k)
  BY Zenon DEF RecvMessage, Received
<1>2. m \in CSMessage
  BY Zenon DEF SolanaAssumption
<1>3. CASE m.type = "CSMessageRequest" /\ InvokeHandleRequest(src, n, k, m.payload)
  <2>1. m.payload \in Request
    BY <1>2, <1>3, MessageParts, Zenon
  <2> QED
    BY <1>1, <1>3, <2>1, Zenon DEF InvokeHandleRequest, Waiting, Admitting
<1>4. CASE m.type = "CSMessageResult" /\
           (ResponsePending(k, s, MessageSeeds(m))
              \/ InvokeHandleResult(src, n, k, m, s))
  <2>1. m.payload \in Result /\ m = CSResult(m.payload)
    BY <1>2, <1>4, MessageParts, Zenon
  <2>2. CASE ResponsePending(k, s, MessageSeeds(m))
    BY <1>1, <2>2, Zenon DEF Collecting
  <2>3. CASE HandleResultSuccess(src, n, k, m, s)
    BY <1>1, <2>1, <2>3, Zenon DEF Succeeding
  <2>4. CASE HandleResultFailure(k, m, s)
    <3>1. m.payload.code \in {Failure}
      BY <2>4, Zenon DEF HandleResultFailure
    <3>2. m \in Results({Failure})
      BY <2>1, <3>1, ResultIn, Zenon
    <3>3. /\ ResponseComplete(k, s, m) /\ EnableRollback(s)
          /\ UNCHANGED <<sendVars, reqVars, pendingRequests, doneVars,
                         outVars, feeVars>>
      BY <2>4, Zenon DEF HandleResultFailure, MessageSeeds
    <3> QED
      BY <1>1, <3>2, <3>3, Zenon DEF Failing
  <2> QED
    BY <1>4, <2>2, <2>3, <2>4, Zenon DEF InvokeHandleResult
<1> QED
  BY <1>3, <1>4, Zenon DEF RecvMessage, HandleMessage

LEMMA RevertKinds ==
  ASSUME NEW k \in Conn, NEW s \in Sns, RevertMessage(k, s)
  PROVE  Collecting \/ Failing
<1>1. Received(k)
  BY Zenon DEF RevertMessage, Received
<1>2. PICK x : x = ErrorSeeds(s)
  BY Zenon
<1>3. CASE ResponsePending(k, s, ErrorSeeds(s))
  BY <1>1, <1>3, Zenon DEF Collecting
<1>4. CASE HandleErrorComplete(k, s)
  BY <1>1, <1>2, <1>4, Zenon DEF HandleErrorComplete, Failing
<1> QED
  BY <1>3, <1>4, Zenon DEF RevertMessage

LEMMA StepKinds ==
  ASSUME SolanaAssumption, TypeOK, [SolanaNext]_vars
  PROVE  \/ Sending \/ Waiting \/ Admitting \/ Collecting \/ Succeeding
         \/ Failing \/ Finishes
         \/ \E s \in Sns : ExecuteRollback(s)
         \/ Administers
<1>1. ASSUME NEW to \in Nets, NEW o \in Outgoing,
             NEW accounts \in AccountsFor(o[2]),
             SendCall(to, o[1], o[2], o[3], accounts)
      PROVE  Sending
  <2>1. o[2] \in Protocols
    <3>1. o \in MsgType \X Protocols \X Protocols
      BY Zenon DEF SolanaAssumption
    <3> QED
      BY <3>1
  <2> QED
    BY <1>1, <2>1, Zenon DEF Sending
<1>2. ASSUME NEW seeds \in DOMAIN proxyRequests,
             \/ \E success \in BOOLEAN :
                  \/ ExecuteOneWay(seeds, success)
                  \/ \E accounts \in AccountsFor(proxyRequests[seeds].protocols) :
                       ExecuteTwoWay(seeds, success, accounts)
             \/ HandleForcedRollback(seeds)
      PROVE  Finishes
  BY <1>2, Finishing, Zenon DEF Finishes
<1> QED
  BY <1>1, <1>2, ReceiveKinds, RevertKinds, Zenon DEF SolanaNext, Administers

LEMMA ReceivedTypes ==
  ASSUME TypeOK, NEW k \in Conn, Received(k)
  PROVE  receipts' \in [Conn -> SUBSET (Nets \X ConnSns)]
BY ReceiptTypes, Zenon DEF Received, TypeOK

LEMMA StepTypes ==
  ASSUME SolanaAssumption, TypeOK, [SolanaNext]_vars
  PROVE  TypeOK'
<1>1. CASE Sending
  BY <1>1, SendCallTypes, Zenon DEF Sending
<1>2. CASE Waiting \/ Admitting
  BY <1>2, RequestTypes, Zenon DEF Waiting, Admitting
<1>3. CASE Collecting
  BY <1>3, ResponsePendingTypes, ReceivedTypes, Zenon DEF Collecting
<1>4. CASE Succeeding
  BY <1>4, SuccessTypes, Zenon DEF Succeeding
<1>5. CASE Failing
  BY <1>5, FailureTypes, ReceivedTypes, Zenon DEF Failing
<1>6. CASE Finishes
  BY <1>6, FinishTypes, Zenon DEF Finishes
<1>7. CASE \E s \in Sns : ExecuteRollback(s)
  BY <1>7, RollbackTypes, Zenon
<1>8. CASE Administers
  BY <1>8, AdminTypes, Zenon DEF Administers
<1> QED
  BY <1>1, <1>2, <1>3, <1>4, <1>5, <1>6, <1>7, <1>8, StepKinds, Zenon

-----------------------------------------------------------------------------
(***************************************************************************)
(* Settlement                                                              *)
(***************************************************************************)
\* Collected requests.
LEMMA RequestsPend ==
  ASSUME RequestsHeard, heard \subseteq heard', NEW r, NEW k,
         <<CSRequest(r), k>> \in heard',
         \/ UNCHANGED pendingRequests
         \/ Stored(pendingRequests, pendingRequests', r,
                   Sources(pendingRequests, r, k))
         \/ Closed(pendingRequests, pendingRequests', r)
  PROVE  RequestsHeard'
<1>1. CASE UNCHANGED pendingRequests \/ Closed(pendingRequests, pendingRequests', r)
  BY <1>1, Zenon DEF RequestsHeard, Closed
<1>2. CASE Stored(pendingRequests, pendingRequests', r,
                  Sources(pendingRequests, r, k))
  <2> SUFFICES ASSUME NEW q \in DOMAIN pendingRequests',
                      NEW c \in pendingRequests'[q]
               PROVE  <<CSRequest(q), c>> \in heard'
    BY Zenon DEF RequestsHeard
  <2>1. CASE q # r
    BY <1>2, <2>1, Zenon DEF RequestsHeard, Stored
  <2>2. CASE q = r
    <3>1. c \in Sources(pendingRequests, r, k)
      BY <1>2, <2>2, Zenon DEF Stored
    <3>2. CASE c = k
      BY <2>2, <3>2, Zenon
    <3>3. CASE r \in DOMAIN pendingRequests /\ c \in pendingRequests[r]
      BY <2>2, <3>3, Zenon DEF RequestsHeard
    <3> QED
      BY <3>1, <3>2, <3>3, Zenon DEF Sources
  <2> QED
    BY <2>1, <2>2, Zenon
<1> QED
  BY <1>1, <1>2, Zenon

\* Collected answers.
LEMMA ResponsesKept ==
  ASSUME ResponsesHeard, heard \subseteq heard',
         UNCHANGED <<sn, calls, pendingResponses>>
  PROVE  ResponsesHeard'
BY Zenon DEF ResponsesHeard

LEMMA ResponsesPend ==
  ASSUME ResponsesHeard, heard \subseteq heard', UNCHANGED <<sn, calls>>,
         NEW s \in 1..sn, NEW k, k \in Range(calls[s].protocols),
         NEW x, <<x, k, s>> \in heard',
         \/ Stored(pendingResponses, pendingResponses', x,
                   Sources(pendingResponses, x, k))
         \/ Closed(pendingResponses, pendingResponses', x)
  PROVE  ResponsesHeard'
<1> SUFFICES ASSUME NEW y \in DOMAIN pendingResponses',
                    NEW c \in pendingResponses'[y]
             PROVE  \E t \in 1..sn : /\ <<y, c, t>> \in heard'
                                     /\ c \in Range(calls[t].protocols)
  BY Zenon DEF ResponsesHeard
<1>1. CASE Closed(pendingResponses, pendingResponses', x)
  BY <1>1, Zenon DEF ResponsesHeard, Closed
<1>2. CASE Stored(pendingResponses, pendingResponses', x,
                  Sources(pendingResponses, x, k)) /\ y # x
  BY <1>2, Zenon DEF ResponsesHeard, Stored
<1>3. CASE Stored(pendingResponses, pendingResponses', x,
                  Sources(pendingResponses, x, k)) /\ y = x
  <2>1. c \in Sources(pendingResponses, x, k)
    BY <1>3, Zenon DEF Stored
  <2>2. CASE c = k
    BY <1>3, <2>2, Zenon
  <2>3. CASE x \in DOMAIN pendingResponses /\ c \in pendingResponses[x]
    BY <1>3, <2>3, Zenon DEF ResponsesHeard
  <2> QED
    BY <2>1, <2>2, <2>3, Zenon DEF Sources
<1> QED
  BY <1>1, <1>2, <1>3, Zenon

\* The last delivery of a request that was missing endorses it.
LEMMA RequestComplete ==
  ASSUME SolanaAssumption, TypeOK, RequestsHeard, NEW req \in Request,
         NEW k \in Range(req.protocols),
         AllDelivered(pendingRequests, req, k, req.protocols),
         heard' = heard \cup {<<CSRequest(req), k>>}
  PROVE  EndorsedBy(heard', {CSRequest(req)}, req.protocols)
<1>1. PICK p : p = req.protocols
  BY Zenon
<1>2. PICK S : S = Sources(pendingRequests, req, k)
  BY Zenon
<1>3. p \in Protocols /\ k \in Range(p)
  BY <1>1, Zenon DEF Request
<1>4. S \in SUBSET Range(p) /\ k \in S
  BY <1>1, <1>2, Zenon DEF TypeOK, Sources
<1>5. Len(p) > 1 => Cardinality(S) = Len(p)
  BY <1>1, <1>2, Zenon DEF AllDelivered
<1>6. \A q \in S : \E h \in heard' : h[1] = CSRequest(req) /\ h[2] = q
  <2> SUFFICES ASSUME NEW q \in S
               PROVE  \E h \in heard' : h[1] = CSRequest(req) /\ h[2] = q
    BY Zenon
  <2>1. q = k => <<CSRequest(req), q>> \in heard'
    BY Zenon
  <2>2. req \in DOMAIN pendingRequests /\ q \in pendingRequests[req]
          => <<CSRequest(req), q>> \in heard'
    BY Zenon DEF RequestsHeard
  <2>3. <<CSRequest(req), q>> \in heard'
    BY <1>2, <2>1, <2>2, Zenon DEF Sources
  <2>4. PICK h \in heard' : h = <<CSRequest(req), q>>
    BY <2>3, Zenon
  <2> QED
    BY <2>4, Zenon
<1>7. EndorsedBy(heard', {CSRequest(req)}, p)
  BY <1>3, <1>4, <1>5, <1>6, CompleteEndorses, ZenonT(30)
<1> QED
  BY <1>1, <1>7, Zenon

\* The last answer that was missing settles the call.
LEMMA AnswerComplete ==
  ASSUME SolanaAssumption, TypeOK, ResponsesHeard, RollbacksOpen,
         NEW k \in Conn, NEW s, NEW x, ResponseComplete(k, s, x)
  PROVE  /\ k \in Range(calls[s].protocols)
         /\ calls[s].to = rollbacks[s].to
         /\ calls[s].protocols = rollbacks[s].protocols
         /\ SettledOn(heard', x, s, rollbacks[s].protocols)
<1>1. PICK p : p = rollbacks[s].protocols
  BY Zenon
<1>2. PICK S : S = Sources(pendingResponses, x, k)
  BY Zenon
<1>3. /\ s \in DOMAIN rollbacks /\ s \in 1..sn
      /\ rollbacks[s] \in RollbackAccount
      /\ heard' = heard \cup {<<x, k, s>>}
  BY ResponseCompleteTypes, Zenon
<1>4. calls[s].to = rollbacks[s].to /\ calls[s].protocols = p /\ p \in Protocols
  BY <1>1, <1>3, Zenon DEF RollbacksOpen, Open, RollbackAccount
<1>5. /\ k \in Range(p)
      /\ Len(p) > 1 => Cardinality(S) = Len(p)
  BY <1>1, <1>2, Zenon
     DEF ResponseComplete, ResponseValid, IsValidSource, AllDelivered
<1>6. ASSUME NEW q \in S
      PROVE  \E t \in 1..sn : /\ <<x, q, t>> \in heard'
                              /\ q \in Range(calls[t].protocols)
  <2>1. CASE q = k
    BY <1>3, <1>4, <1>5, <2>1, Zenon
  <2>2. CASE x \in DOMAIN pendingResponses /\ q \in pendingResponses[x]
    BY <1>3, <2>2, Zenon DEF ResponsesHeard
  <2> QED
    BY <1>2, <2>1, <2>2, Zenon DEF Sources
<1>7. S \in SUBSET Conn /\ k \in S
  BY <1>2, Zenon DEF Sources, TypeOK
<1>8. ASSUME NEW q, NEW t, <<x, q, t>> \in heard'
      PROVE  \E h \in heard' : h[1] = x /\ h[2] = q /\ h[3] = t
  <2>1. PICK h \in heard' : h = <<x, q, t>>
    BY <1>8, Zenon
  <2> QED
    BY <2>1, Zenon
<1>9. \A q \in S : \E h \in heard' : h[1] = x /\ h[2] = q
  BY <1>6, <1>8, Zenon
<1>10. ASSUME ~Misnumbered(heard', x)
       PROVE  x \in About(s) /\ EndorsedBy(heard', {x}, p)
  <2>1. \A q, t : <<x, q, t>> \in heard' => x \in About(t)
    BY <1>8, <1>10, Zenon DEF Misnumbered
  <2>2. x \in About(s)
    BY <1>3, <2>1, Zenon
  <2>3. \A q \in S : q \in Range(p)
    BY <1>4, <1>6, <2>1, <2>2, AboutOne, Zenon
  <2>4. S \in SUBSET Range(p)
    BY <2>3, Zenon
  <2> QED
    BY <1>4, <1>5, <1>7, <1>9, <2>2, <2>4, CompleteEndorses, Zenon
<1>11. Len(p) > 1 =>
         \E T \in SUBSET Conn :
           /\ Cardinality(T) = Len(p)
           /\ \A q \in T : \E h \in heard' : h[1] = x /\ h[2] = q
  BY <1>5, <1>7, <1>9, Zenon
<1>12. \E q \in Range(p) : <<x, q, s>> \in heard'
  BY <1>3, <1>5, Zenon
<1>13. SettledOn(heard', x, s, p)
  BY <1>10, <1>11, <1>12, Zenon DEF SettledOn
<1> QED
  BY <1>1, <1>4, <1>5, <1>13, Zenon

\* What a delivery does to the calls: nothing, or it makes one succeed, or
\* enables its rollback.
Settles ==
  \/ UNCHANGED <<rollbacks, successfulResponses>>
  \/ \E s \in DOMAIN rollbacks :
       /\ successfulResponses' = successfulResponses \cup {s}
       /\ Closed(rollbacks, rollbacks', s)
       /\ Succeeded(heard', s, calls[s].protocols)
  \/ \E s \in DOMAIN rollbacks :
       /\ UNCHANGED successfulResponses
       /\ Enabled(s)
       /\ Failed(heard', s, rollbacks[s].protocols)

LEMMA OpenStays ==
  ASSUME NEW H, NEW G, H \subseteq G, NEW C, NEW s, NEW rollback,
         Open(H, C, s, rollback)
  PROVE  Open(G, C, s, rollback)
BY AnswersGrow, Zenon DEF Open

LEMMA OpenHears ==
  ASSUME RollbacksOpen, TypeOK, heard \subseteq heard', UNCHANGED calls, Settles
  PROVE  RollbacksOpen'
<1>1. \A t \in DOMAIN rollbacks : Open(heard', calls, t, rollbacks[t])
  BY OpenStays, Zenon DEF RollbacksOpen
<1>2. CASE UNCHANGED <<rollbacks, successfulResponses>>
  BY <1>1, <1>2, Zenon DEF RollbacksOpen
<1>3. ASSUME NEW s \in DOMAIN rollbacks, Closed(rollbacks, rollbacks', s)
      PROVE  RollbacksOpen'
  BY <1>1, <1>3, Zenon DEF RollbacksOpen, Closed
<1>4. ASSUME NEW s \in DOMAIN rollbacks, Enabled(s),
             Failed(heard', s, rollbacks[s].protocols)
      PROVE  RollbacksOpen'
  <2>1. Open(heard', calls, s, rollbacks'[s])
    <3>1. rollbacks[s] \in RollbackAccount
      BY Zenon DEF TypeOK, Accounts
    <3>2. /\ rollbacks'[s].protocols = rollbacks[s].protocols
          /\ rollbacks'[s].to = rollbacks[s].to
      BY <1>4, <3>1, Zenon DEF Enabled, RollbackAccount
    <3>3. Open(heard', calls, s, rollbacks[s])
      BY <1>1, Zenon
    <3> QED
      BY <1>4, <3>2, <3>3, Zenon DEF Open
  <2>2. \A t \in DOMAIN rollbacks : t # s => rollbacks'[t] = rollbacks[t]
    BY <1>4, Zenon DEF Enabled
  <2>3. DOMAIN rollbacks' = DOMAIN rollbacks
    BY <1>4, Zenon DEF Enabled
  <2> SUFFICES ASSUME NEW t \in DOMAIN rollbacks
               PROVE  Open(heard', calls, t, rollbacks'[t])
    BY <2>3, Zenon DEF RollbacksOpen
  <2> QED
    BY <1>1, <2>1, <2>2, Zenon
<1> QED
  BY <1>2, <1>3, <1>4, Zenon DEF Settles

LEMMA SettlementHears ==
  ASSUME SettlementEndorsed, SettledOnce, heard \subseteq heard',
         UNCHANGED <<calls, rolledBack>>, Settles
  PROVE  SettlementEndorsed' /\ SettledOnce'
<1>1. \A s \in Sns :
        /\ s \in successfulResponses => Succeeded(heard', s, calls[s].protocols)
        /\ s \in rolledBack => Failed(heard', s, calls[s].protocols)
  <2>1. \A s \in Sns :
          /\ s \in successfulResponses => Succeeded(heard, s, calls[s].protocols)
          /\ s \in rolledBack => Failed(heard, s, calls[s].protocols)
    BY Zenon DEF SettlementEndorsed, Succeeded, Failed
  <2> QED
    BY <2>1, AnswersGrow, Zenon
<1>2. \A s \in Sns :
        s \in successfulResponses' => Succeeded(heard', s, calls[s].protocols)
  BY <1>1, Zenon DEF Settles
<1>3. SettlementEndorsed'
  BY <1>1, <1>2, Zenon DEF SettlementEndorsed, Succeeded, Failed
<1>4. SettledOnce'
  <2>1. CASE UNCHANGED <<rollbacks, successfulResponses>>
    BY <2>1, Zenon DEF SettledOnce
  <2>2. ASSUME NEW s \in DOMAIN rollbacks,
               successfulResponses' = successfulResponses \cup {s},
               Closed(rollbacks, rollbacks', s)
        PROVE  SettledOnce'
    BY <2>2, Zenon DEF SettledOnce, Closed
  <2>3. ASSUME NEW s \in DOMAIN rollbacks,
               UNCHANGED successfulResponses, Enabled(s)
        PROVE  SettledOnce'
    BY <2>3, Zenon DEF SettledOnce, Enabled
  <2> QED
    BY <2>1, <2>2, <2>3, Zenon DEF Settles
<1> QED
  BY <1>3, <1>4, Zenon

LEMMA AdmissionHears ==
  ASSUME RequestsEndorsed, heard \subseteq heard',
         successfulResponses \subseteq successfulResponses', UNCHANGED calls,
         \/ UNCHANGED admitted
         \/ \E a : /\ admitted' = admitted \cup {a}
                   /\ Admissible(heard', calls, successfulResponses', a[2])
  PROVE  RequestsEndorsed'
<1>1. ASSUME NEW a \in admitted
      PROVE  Admissible(heard', calls, successfulResponses', a[2])
  <2>1. Admissible(heard, calls, successfulResponses, a[2])
    BY Zenon DEF RequestsEndorsed, Admissible
  <2>2. Agree(calls, calls, successfulResponses)
    BY Zenon DEF Agree
  <2> QED
    BY <2>1, <2>2, AdmissionGrows, Zenon
<1>2. \A a \in admitted' : Admissible(heard', calls, successfulResponses', a[2])
  BY <1>1, Zenon
<1> QED
  BY <1>2, Zenon DEF RequestsEndorsed, Admissible

LEMMA RequestSettles ==
  ASSUME SolanaAssumption, TypeOK, SettleInv, Waiting \/ Admitting
  PROVE  SettleInv'
<1>1. PICK src \in Nets, n \in ConnSns, k \in Conn, req \in Request :
        HandleRequestPending(src, n, k, req) \/ HandleRequest(src, n, k, req)
  BY Zenon DEF Waiting, Admitting
<1>2. /\ k \in Range(req.protocols)
      /\ heard' = heard \cup {<<CSRequest(req), k>>}
      /\ UNCHANGED <<sn, calls, pendingResponses, rollbacks,
                     successfulResponses, rolledBack>>
      /\ \/ pendingRequests' =
              Store(pendingRequests, req, Sources(pendingRequests, req, k))
         \/ pendingRequests' = Close(pendingRequests, req)
  BY <1>1, Zenon
     DEF HandleRequestPending, HandleRequest, RequestValid, IsValidSource,
         HearRequest, sendVars, doneVars
<1>3. heard \subseteq heard' /\ <<CSRequest(req), k>> \in heard'
  BY <1>2, Zenon
<1>4. RequestsHeard'
  BY <1>2, <1>3, StoreStores, CloseCloses, RequestsPend, Zenon DEF SettleInv
<1>5. ResponsesHeard'
  BY <1>2, <1>3, ResponsesKept, Zenon DEF SettleInv
<1>6. Settles
  BY <1>2, Zenon DEF Settles
<1>7. RequestsEndorsed'
  <2>1. CASE HandleRequestPending(src, n, k, req)
    BY <1>2, <1>3, <2>1, AdmissionHears, Zenon
       DEF SettleInv, HandleRequestPending
  <2>2. CASE HandleRequest(src, n, k, req)
    <3>1. EndorsedBy(heard', {CSRequest(req)}, req.protocols)
      BY <1>2, <2>2, RequestComplete, Zenon DEF HandleRequest, SettleInv
    <3>2. PICK a : a = <<<<src, n, k>>, req>>
      BY Zenon
    <3>3. Admissible(heard', calls, successfulResponses', a[2])
      <4>1. a[2] = req
        BY <3>2, Zenon
      <4> QED
        BY <3>1, <4>1, Zenon DEF Admissible
    <3>4. admitted' = admitted \cup {a}
      BY <2>2, <3>2, Zenon DEF HandleRequest, SetProxyRequest
    <3> QED
      BY <1>2, <1>3, <3>3, <3>4, AdmissionHears, Zenon DEF SettleInv
  <2> QED
    BY <1>1, <2>1, <2>2, Zenon
<1> QED
  BY <1>2, <1>3, <1>4, <1>5, <1>6, <1>7, OpenHears, SettlementHears, Zenon
     DEF SettleInv

LEMMA CollectSettles ==
  ASSUME SolanaAssumption, TypeOK, SettleInv, Collecting
  PROVE  SettleInv'
<1>1. PICK k \in Conn : \E s, x : ResponsePending(k, s, x) /\ Received(k)
  BY Zenon DEF Collecting
<1>3. PICK s, x : ResponsePending(k, s, x)
  BY <1>1, Zenon
<1>4. /\ s \in DOMAIN rollbacks /\ k \in Range(rollbacks[s].protocols)
      /\ heard' = heard \cup {<<x, k, s>>}
      /\ UNCHANGED <<sn, calls, pendingRequests, rollbacks, admitted,
                     successfulResponses, rolledBack>>
  BY <1>3, Zenon
     DEF ResponsePending, ResponseValid, IsValidSource, HearAnswer, sendVars,
         doneVars, reqVars
<1>5. heard \subseteq heard' /\ <<x, k, s>> \in heard'
  BY <1>4, Zenon
<1>6. s \in 1..sn /\ k \in Range(calls[s].protocols)
  BY <1>4, Zenon DEF TypeOK, Accounts, SettleInv, RollbacksOpen, Open
<1>7. ResponsesHeard'
  BY <1>3, <1>4, <1>5, <1>6, ResponsePendingTypes, ResponsesPend, Zenon
     DEF SettleInv
<1>8. RequestsHeard'
  BY <1>4, <1>5, Zenon DEF SettleInv, RequestsHeard
<1>9. Settles
  BY <1>4, Zenon DEF Settles
<1>10. RequestsEndorsed'
  BY <1>4, <1>5, AdmissionHears, Zenon DEF SettleInv
<1> QED
  BY <1>4, <1>5, <1>7, <1>8, <1>9, <1>10, OpenHears, SettlementHears, Zenon
     DEF SettleInv

LEMMA SuccessSettles ==
  ASSUME SolanaAssumption, TypeOK, SettleInv, Succeeding
  PROVE  SettleInv'
<1>1. PICK src \in Nets, n \in ConnSns, k \in Conn : \E m, s :
        /\ m.payload \in Result /\ m = CSResult(m.payload)
        /\ TakeReceipt(src, n, k) /\ HandleResultSuccess(src, n, k, m, s)
  BY Zenon DEF Succeeding
<1>2. PICK m, s : /\ m.payload \in Result /\ m = CSResult(m.payload)
                  /\ HandleResultSuccess(src, n, k, m, s)
  BY <1>1, Zenon
<1>3. /\ ResponseComplete(k, s, m)
      /\ m.payload.code \in {Success}
      /\ rollbacks' = Close(rollbacks, s)
      /\ successfulResponses' = successfulResponses \cup {s}
      /\ UNCHANGED <<sn, calls, pendingRequests, rolledBack>>
  BY <1>2, Zenon DEF HandleResultSuccess, MessageSeeds, CloseRollback, sendVars
<1>4. m \in Results({Success})
  BY <1>2, <1>3, ResultIn, Zenon
<1>5. /\ s \in DOMAIN rollbacks /\ s \in 1..sn
      /\ Closed(pendingResponses, pendingResponses', m)
      /\ heard' = heard \cup {<<m, k, s>>}
  BY <1>3, ResponseCompleteTypes, Zenon
<1>6. heard \subseteq heard' /\ <<m, k, s>> \in heard'
  BY <1>5, Zenon
<1>7. /\ k \in Range(calls[s].protocols)
      /\ calls[s].to = rollbacks[s].to
      /\ calls[s].protocols = rollbacks[s].protocols
      /\ SettledOn(heard', m, s, rollbacks[s].protocols)
  BY <1>3, AnswerComplete, Zenon DEF SettleInv
<1>8. ResponsesHeard'
  BY <1>3, <1>5, <1>6, <1>7, ResponsesPend, Zenon DEF SettleInv
<1>9. RequestsHeard'
  BY <1>3, <1>6, Zenon DEF SettleInv, RequestsHeard
<1>10. Settles
  <2>1. Succeeded(heard', s, calls[s].protocols)
    BY <1>4, <1>7, Zenon DEF Succeeded
  <2>2. Closed(rollbacks, rollbacks', s)
    BY <1>3, CloseCloses, Zenon
  <2> QED
    BY <1>3, <1>5, <2>1, <2>2, Zenon DEF Settles
<1>11. RequestsEndorsed'
  <2>1. successfulResponses \subseteq successfulResponses' /\ s \in successfulResponses'
    BY <1>3, Zenon
  <2>2. CASE m.payload.reply = None
    <3>1. UNCHANGED admitted
      BY <1>2, <2>2, Zenon DEF HandleResultSuccess, reqVars
    <3> QED
      BY <1>3, <1>6, <2>1, <3>1, AdmissionHears, Zenon DEF SettleInv
  <2>3. CASE m.payload.reply # None
    <3>1. PICK req \in Request : /\ ReplyTo(req, m.payload.reply, rollbacks[s])
                                 /\ SetProxyRequest(src, n, k, req)
      BY <1>2, <2>3, ReplyRequest, Zenon
    <3>2. /\ req.protocols = rollbacks[s].protocols /\ req.from = rollbacks[s].to
          /\ [m.payload.reply EXCEPT !.protocols = req.protocols] = req
          /\ SetProxyRequest(src, n, k, req)
      BY <3>1, Zenon DEF ReplyTo
    <3>3. PICK a : a = <<<<src, n, k>>, req>>
      BY Zenon
    <3>4. Admissible(heard', calls, successfulResponses', a[2])
      <4>1. a[2] = req
        BY <3>3, Zenon
      <4>2. /\ calls[s].to = req.from /\ calls[s].protocols = req.protocols
            /\ SettledOn(heard', m, s, req.protocols)
        BY <1>7, <3>2, Zenon
      <4>3. Admissible(heard', calls, successfulResponses', req)
        BY <1>4, <2>1, <2>3, <3>2, <4>2, Zenon DEF Admissible
      <4> QED
        BY <4>1, <4>3, Zenon
    <3>5. admitted' = admitted \cup {a}
      BY <3>2, <3>3, Zenon DEF SetProxyRequest
    <3> QED
      BY <1>3, <1>6, <2>1, <3>4, <3>5, AdmissionHears, Zenon DEF SettleInv
  <2> QED
    BY <2>2, <2>3, Zenon
<1> QED
  BY <1>3, <1>6, <1>8, <1>9, <1>10, <1>11, OpenHears, SettlementHears, Zenon
     DEF SettleInv

LEMMA FailureSettles ==
  ASSUME SolanaAssumption, TypeOK, SettleInv, Failing
  PROVE  SettleInv'
<1>1. PICK k \in Conn : \E s :
        \E x \in Results({Failure}) \cup {ErrorSeeds(s)} :
          /\ ResponseComplete(k, s, x) /\ EnableRollback(s) /\ Received(k)
          /\ UNCHANGED <<sendVars, reqVars, pendingRequests, doneVars, outVars,
                         feeVars>>
  BY Zenon DEF Failing
<1>2. PICK s : \E x \in Results({Failure}) \cup {ErrorSeeds(s)} :
          /\ ResponseComplete(k, s, x) /\ EnableRollback(s)
          /\ UNCHANGED <<sendVars, reqVars, pendingRequests, doneVars, outVars,
                         feeVars>>
  BY <1>1, Zenon
<1>3. PICK x \in Results({Failure}) \cup {ErrorSeeds(s)} :
          /\ ResponseComplete(k, s, x) /\ EnableRollback(s)
          /\ UNCHANGED <<sendVars, reqVars, pendingRequests, doneVars, outVars,
                         feeVars>>
  BY <1>2, Zenon
<1>4. UNCHANGED <<sn, calls, pendingRequests, admitted, successfulResponses,
                  rolledBack>>
  BY <1>3, Zenon DEF sendVars, reqVars, doneVars
<1>6. /\ s \in DOMAIN rollbacks /\ s \in 1..sn
      /\ Closed(pendingResponses, pendingResponses', x)
      /\ heard' = heard \cup {<<x, k, s>>}
  BY <1>3, ResponseCompleteTypes, Zenon
<1>7. heard \subseteq heard' /\ <<x, k, s>> \in heard'
  BY <1>6, Zenon
<1>8. /\ k \in Range(calls[s].protocols)
      /\ SettledOn(heard', x, s, rollbacks[s].protocols)
  BY <1>3, AnswerComplete, Zenon DEF SettleInv
<1>9. ResponsesHeard'
  BY <1>4, <1>6, <1>7, <1>8, ResponsesPend, Zenon DEF SettleInv
<1>10. RequestsHeard'
  BY <1>4, <1>7, Zenon DEF SettleInv, RequestsHeard
<1>11. Settles
  <2>1. Failed(heard', s, rollbacks[s].protocols)
    BY <1>3, <1>8, Zenon DEF Failed
  <2>2. Enabled(s)
    BY <1>3, <1>6, EnableTypes, Zenon
  <2> QED
    BY <1>4, <1>6, <2>1, <2>2, Zenon DEF Settles
<1>12. RequestsEndorsed'
  BY <1>4, <1>7, AdmissionHears, Zenon DEF SettleInv
<1> QED
  BY <1>4, <1>7, <1>9, <1>10, <1>11, <1>12, OpenHears, SettlementHears, Zenon
     DEF SettleInv

LEMMA SendSettles ==
  ASSUME SolanaAssumption, TypeOK, SettleInv, Sending
  PROVE  SettleInv'
<1>1. PICK to \in Nets, src \in Protocols : \E accounts \in AccountsFor(src) :
        \E type, dst : SendCall(to, type, src, dst, accounts)
  BY Zenon DEF Sending
<1>2. /\ sn' = sn + 1
      /\ CallStored(to, src)
      /\ UNCHANGED <<pendingRequests, pendingResponses, heard, admitted,
                     successfulResponses, rolledBack>>
  <2>1. CallStored(to, src)
    BY <1>1, SendCallTypes, Zenon
  <2> QED
    BY <1>1, <2>1, Zenon DEF SendCall, reqVars, pendVars, doneVars
<1>3. \A s \in Sns : s <= sn => s <= sn' /\ calls'[s] = calls[s]
  BY <1>2, NextSn, Zenon DEF CallStored
<1>4. \A s \in 1..sn : s \in Sns /\ s \in 1..sn' /\ calls'[s] = calls[s]
  BY <1>2, <1>3, NextSn, Zenon
<1>5. RequestsHeard' /\ RequestsEndorsed'
  <2>1. Agree(calls, calls', successfulResponses)
    BY <1>4, Zenon DEF TypeOK, Agree
  <2>2. \A a \in admitted :
          Admissible(heard, calls, successfulResponses, a[2])
    BY Zenon DEF SettleInv, RequestsEndorsed, Admissible
  <2>3. \A a \in admitted :
          Admissible(heard, calls', successfulResponses, a[2])
    BY <2>1, <2>2, AdmissionGrows, Zenon
  <2>4. RequestsEndorsed'
    BY <1>2, <2>3, Zenon DEF RequestsEndorsed, Admissible
  <2> QED
    BY <1>2, <2>4, Zenon DEF SettleInv, RequestsHeard
<1>6. ResponsesHeard'
  BY <1>2, <1>4, Zenon DEF SettleInv, ResponsesHeard
<1>7. RollbacksOpen'
  <2> SUFFICES ASSUME NEW s \in DOMAIN rollbacks'
               PROVE  Open(heard, calls', s, rollbacks'[s])
    BY <1>2, Zenon DEF RollbacksOpen
  <2>1. CASE s \in DOMAIN rollbacks
    <3>1. s \in 1..sn
      BY <2>1, Zenon DEF TypeOK, Accounts
    <3>2. rollbacks'[s] = rollbacks[s] /\ calls'[s] = calls[s]
      BY <1>2, <1>4, <2>1, <3>1, Zenon DEF CallStored
    <3>3. Open(heard, calls, s, rollbacks[s])
      BY <2>1, Zenon DEF SettleInv, RollbacksOpen
    <3> QED
      BY <3>2, <3>3, Zenon DEF Open
  <2>2. CASE s \notin DOMAIN rollbacks
    <3>1. /\ rollbacks'[s] = [to |-> to, protocols |-> src, enabled |-> FALSE]
          /\ calls'[s] = [to |-> to, protocols |-> src]
          /\ calls'[s] # None
      BY <1>2, <2>2, Zenon DEF CallStored
    <3>2. /\ calls'[s].to = rollbacks'[s].to
          /\ calls'[s].protocols = rollbacks'[s].protocols
          /\ ~rollbacks'[s].enabled
      BY <3>1
    <3> QED
      BY <3>1, <3>2, Zenon DEF Open
  <2> QED
    BY <2>1, <2>2, Zenon
<1>8. SettlementEndorsed'
  <2>1. successfulResponses \subseteq 1..sn /\ rolledBack \subseteq 1..sn
    BY Zenon DEF TypeOK
  <2> QED
    BY <1>2, <1>4, <2>1, Zenon DEF SettleInv, SettlementEndorsed
<1>9. SettledOnce'
  <2>1. successfulResponses \subseteq 1..sn /\ rolledBack \subseteq 1..sn
    BY Zenon DEF TypeOK
  <2>2. \A s \in DOMAIN rollbacks' : s \in DOMAIN rollbacks \/ s \notin 1..sn
    BY <1>2, NextSn, Zenon DEF CallStored
  <2> QED
    BY <1>2, <2>1, <2>2, Zenon DEF SettleInv, SettledOnce
<1> QED
  BY <1>5, <1>6, <1>7, <1>8, <1>9, Zenon DEF SettleInv

LEMMA RollbackSettles ==
  ASSUME TypeOK, SettleInv, NEW s \in Sns, ExecuteRollback(s)
  PROVE  SettleInv'
<1>1. /\ s \in DOMAIN rollbacks /\ rollbacks[s].enabled
      /\ rollbacks' = Close(rollbacks, s)
      /\ rolledBack' = rolledBack \cup {s}
      /\ UNCHANGED <<sn, calls, pendingRequests, pendingResponses, heard,
                     admitted, successfulResponses>>
  BY Zenon DEF ExecuteRollback, CloseRollback, sendVars, reqVars, pendVars
<1>2. Closed(rollbacks, rollbacks', s)
  BY <1>1, CloseCloses, Zenon
<1>3. RequestsHeard' /\ RequestsEndorsed' /\ ResponsesHeard'
  BY <1>1, Zenon
     DEF SettleInv, RequestsHeard, RequestsEndorsed, ResponsesHeard
<1>4. RollbacksOpen'
  BY <1>1, <1>2, Zenon DEF SettleInv, RollbacksOpen, Closed
<1>5. Failed(heard, s, calls[s].protocols)
  BY <1>1, Zenon DEF SettleInv, RollbacksOpen, Open
<1>6. SettlementEndorsed'
  BY <1>1, <1>5, Zenon DEF SettleInv, SettlementEndorsed, Failed
<1>7. SettledOnce'
  BY <1>1, <1>2, Zenon DEF SettleInv, SettledOnce, Closed
<1> QED
  BY <1>3, <1>4, <1>6, <1>7, Zenon DEF SettleInv

LEMMA SettleKept ==
  ASSUME SettleInv,
         UNCHANGED <<sn, calls, pendVars, admitted, successfulResponses,
                     rolledBack, rollbacks>>
  PROVE  SettleInv'
BY Zenon
   DEF SettleInv, RequestsHeard, RequestsEndorsed, ResponsesHeard, RollbacksOpen,
       SettlementEndorsed, SettledOnce, pendVars

LEMMA StepSettles ==
  ASSUME SolanaAssumption, TypeOK, SettleInv, [SolanaNext]_vars
  PROVE  SettleInv'
<1>1. CASE Finishes \/ Administers
  <2>1. UNCHANGED <<sn, calls, pendVars, admitted, successfulResponses,
                    rolledBack, rollbacks>>
    BY <1>1, AdminTypes, Zenon
       DEF Finishes, Administers, sendVars, reqVars, doneVars
  <2> QED
    BY <2>1, SettleKept, Zenon
<1> QED
  BY <1>1, StepKinds, SendSettles, RequestSettles, CollectSettles,
     SuccessSettles, FailureSettles, RollbackSettles, Zenon

-----------------------------------------------------------------------------
(***************************************************************************)
(* Accounts of requests                                                    *)
(***************************************************************************)
\* No receipt goes away.
ReceiptsGrow == \A k \in Conn : receipts[k] \subseteq receipts'[k]

LEMMA ReceiptTaken ==
  ASSUME TypeOK, NEW k \in Conn, NEW src, NEW n, TakeReceipt(src, n, k)
  PROVE  ReceiptsGrow /\ <<src, n>> \in receipts'[k]
<1>1. /\ receipts' = [receipts EXCEPT ![k] = receipts[k] \cup {<<src, n>>}]
      /\ DOMAIN receipts = Conn
  BY Zenon DEF TakeReceipt, TypeOK
<1>2. /\ receipts'[k] = receipts[k] \cup {<<src, n>>}
      /\ \A c \in Conn : c # k => receipts'[c] = receipts[c]
  BY <1>1, Zenon
<1> QED
  BY <1>2, Zenon DEF ReceiptsGrow

LEMMA ReceivedGrows ==
  ASSUME TypeOK, NEW k \in Conn, Received(k)
  PROVE  ReceiptsGrow
<1>1. CASE UNCHANGED receipts
  BY <1>1, Zenon DEF ReceiptsGrow
<1> QED
  BY <1>1, ReceiptTaken, Zenon DEF Received

\* What came under a number that is new has no account and was not finished.
LEMMA FreshSeeds ==
  ASSUME TypeOK, FinishInv, NEW src, NEW n, NEW k, TakeReceipt(src, n, k)
  PROVE  /\ \A a \in admitted : a[1] # <<src, n, k>>
         /\ <<src, n, k>> \notin DOMAIN proxyRequests
         /\ \A x \in finished : x[1] # <<src, n, k>>
<1>1. \A a \in admitted : a[1] # <<src, n, k>>
  <2> SUFFICES ASSUME NEW a \in admitted, a[1] = <<src, n, k>>
               PROVE  FALSE
    BY Zenon
  <2>1. a[1][1] = src /\ a[1][2] = n /\ a[1][3] = k
    OBVIOUS
  <2>2. <<a[1][1], a[1][2]>> \in receipts[a[1][3]]
    BY Zenon DEF FinishInv
  <2> QED
    BY <2>1, <2>2, Zenon DEF TakeReceipt
<1>2. <<src, n, k>> \notin DOMAIN proxyRequests
  <2> SUFFICES ASSUME <<src, n, k>> \in DOMAIN proxyRequests
               PROVE  FALSE
    BY Zenon
  <2>1. PICK x : x = <<src, n, k>>
    BY Zenon
  <2>2. <<x, proxyRequests[x]>> \in admitted
    BY <2>1, Zenon DEF FinishInv
  <2>3. <<x, proxyRequests[x]>>[1] = x
    BY Zenon
  <2> QED
    BY <1>1, <2>1, <2>2, <2>3, Zenon
<1> QED
  BY <1>1, <1>2, Zenon DEF FinishInv

\* Receipts of what was admitted stay.
LEMMA ReceiptsStay ==
  ASSUME TypeOK, FinishInv, ReceiptsGrow
  PROVE  \A a \in admitted : <<a[1][1], a[1][2]>> \in receipts'[a[1][3]]
<1> SUFFICES ASSUME NEW a \in admitted
             PROVE  <<a[1][1], a[1][2]>> \in receipts'[a[1][3]]
  BY Zenon
<1>1. a \in (Nets \X ConnSns \X Conn) \X Request
  BY Zenon DEF TypeOK
<1>2. a[1][3] \in Conn
  BY <1>1
<1>3. <<a[1][1], a[1][2]>> \in receipts[a[1][3]]
  BY Zenon DEF FinishInv
<1> QED
  BY <1>2, <1>3, Zenon DEF ReceiptsGrow

LEMMA FinishKept ==
  ASSUME TypeOK, FinishInv, ReceiptsGrow, UNCHANGED <<admitted, finished>>,
         DOMAIN proxyRequests' = DOMAIN proxyRequests,
         \A x \in DOMAIN proxyRequests : proxyRequests'[x] = proxyRequests[x]
  PROVE  FinishInv'
<1>1. \A a \in admitted : <<a[1][1], a[1][2]>> \in receipts'[a[1][3]]
  BY ReceiptsStay, Zenon
<1>2. AdmittedFinishedOnce'
  BY Zenon DEF FinishInv, AdmittedFinishedOnce
<1> QED
  BY <1>1, <1>2, Zenon DEF FinishInv

\* A request is admitted.
LEMMA FinishAdmits ==
  ASSUME TypeOK, FinishInv, NEW src \in Nets, NEW n \in ConnSns, NEW k \in Conn,
         NEW req \in Request, TakeReceipt(src, n, k),
         SetProxyRequest(src, n, k, req), UNCHANGED finished
  PROVE  FinishInv'
<1>1. PICK seeds : seeds = <<src, n, k>>
  BY Zenon
<1>2. PICK new : new = <<seeds, req>>
  BY Zenon
<1>3. new[1] = seeds /\ new[2] = req
  BY <1>2, Zenon
<1>4. /\ admitted' = admitted \cup {new}
      /\ Stored(proxyRequests, proxyRequests', seeds, req)
  BY <1>1, <1>2, SetProxyTypes, Zenon DEF SetProxyRequest
<1>5. /\ \A a \in admitted : a[1] # seeds
      /\ seeds \notin DOMAIN proxyRequests
      /\ \A x \in finished : x[1] # seeds
  BY <1>1, FreshSeeds, Zenon
<1>6. \A a \in admitted' : <<a[1][1], a[1][2]>> \in receipts'[a[1][3]]
  <2>1. seeds[1] = src /\ seeds[2] = n /\ seeds[3] = k
    BY <1>1, Zenon
  <2>2. ReceiptsGrow /\ <<src, n>> \in receipts'[k]
    BY ReceiptTaken, Zenon
  <2>3. <<new[1][1], new[1][2]>> \in receipts'[new[1][3]]
    BY <1>3, <2>1, <2>2, Zenon
  <2> QED
    BY <1>4, <2>2, <2>3, ReceiptsStay, Zenon
<1>7. \A x \in DOMAIN proxyRequests' : <<x, proxyRequests'[x]>> \in admitted'
  <2> SUFFICES ASSUME NEW x \in DOMAIN proxyRequests'
               PROVE  <<x, proxyRequests'[x]>> \in admitted'
    BY Zenon
  <2>1. CASE x = seeds
    BY <1>2, <1>4, <2>1, Zenon DEF Stored
  <2>2. CASE x # seeds
    BY <1>4, <2>2, Zenon DEF Stored, FinishInv
  <2> QED
    BY <2>1, <2>2, Zenon
<1>8. AdmittedFinishedOnce'
  <2>1. \A x, y \in admitted' : x[1] = y[1] => x = y
    BY <1>3, <1>4, <1>5, Zenon DEF FinishInv, AdmittedFinishedOnce
  <2>2. ASSUME NEW a \in admitted
        PROVE  IF \E x \in finished : x[1] = a[1]
               THEN a[1] \notin DOMAIN proxyRequests'
               ELSE /\ a[1] \in DOMAIN proxyRequests'
                    /\ proxyRequests'[a[1]] = a[2]
    <3>1. a[1] # seeds
      BY <1>5, Zenon
    <3> QED
      BY <1>4, <3>1, Zenon DEF Stored, FinishInv, AdmittedFinishedOnce
  <2>3. /\ ~\E x \in finished : x[1] = new[1]
        /\ new[1] \in DOMAIN proxyRequests'
        /\ proxyRequests'[new[1]] = new[2]
    BY <1>3, <1>4, <1>5, Zenon DEF Stored
  <2>4. \A a \in admitted' :
          IF \E x \in finished : x[1] = a[1]
          THEN a[1] \notin DOMAIN proxyRequests'
          ELSE a[1] \in DOMAIN proxyRequests' /\ proxyRequests'[a[1]] = a[2]
    <3> SUFFICES ASSUME NEW a \in admitted'
                 PROVE  IF \E x \in finished : x[1] = a[1]
                        THEN a[1] \notin DOMAIN proxyRequests'
                        ELSE /\ a[1] \in DOMAIN proxyRequests'
                             /\ proxyRequests'[a[1]] = a[2]
      BY Zenon
    <3>1. CASE a = new
      BY <2>3, <3>1, Zenon
    <3>2. CASE a \in admitted
      BY <2>2, <3>2, Zenon
    <3> QED
      BY <1>4, <3>1, <3>2, Zenon
  <2>5. \A x, y \in finished : x[1] = y[1] => x = y
    BY Zenon DEF FinishInv, AdmittedFinishedOnce
  <2> QED
    BY <2>1, <2>4, <2>5, Zenon DEF AdmittedFinishedOnce
<1> QED
  BY <1>4, <1>6, <1>7, <1>8, Zenon DEF FinishInv

\* A request is executed or rolled back.
LEMMA FinishTakes ==
  ASSUME TypeOK, FinishInv, NEW seeds, NEW code, TakeProxyRequest(seeds, code),
         UNCHANGED <<admitted, receipts>>
  PROVE  FinishInv'
<1>1. /\ seeds \in DOMAIN proxyRequests
      /\ Closed(proxyRequests, proxyRequests', seeds)
  BY TakeTypes, Zenon
<1>2. PICK req : req = proxyRequests[seeds]
  BY Zenon
<1>3. PICK new : new = <<seeds, req, code>>
  BY Zenon
<1>4. new[1] = seeds
  BY <1>3, Zenon
<1>5. finished' = finished \cup {new}
  BY <1>2, <1>3, Zenon DEF TakeProxyRequest
<1>6. PICK b \in admitted : b = <<seeds, req>>
  BY <1>1, <1>2, Zenon DEF FinishInv
<1>7. b[1] = seeds
  BY <1>6, Zenon
<1>8. \A x \in finished : x[1] # seeds
  BY <1>1, <1>6, <1>7, Zenon DEF FinishInv, AdmittedFinishedOnce
<1>9. \A x \in finished' : \E a \in admitted : a[1] = x[1]
  BY <1>4, <1>5, <1>7, Zenon DEF FinishInv
<1>10. \A x \in DOMAIN proxyRequests' : <<x, proxyRequests'[x]>> \in admitted
  BY <1>1, Zenon DEF FinishInv, Closed
<1>11. AdmittedFinishedOnce'
  <2>1. \A x, y \in finished' : x[1] = y[1] => x = y
    BY <1>4, <1>5, <1>8, Zenon DEF FinishInv, AdmittedFinishedOnce
  <2>2. ASSUME NEW a \in admitted
        PROVE  IF \E x \in finished' : x[1] = a[1]
               THEN a[1] \notin DOMAIN proxyRequests'
               ELSE /\ a[1] \in DOMAIN proxyRequests'
                    /\ proxyRequests'[a[1]] = a[2]
    <3>1. CASE a[1] = seeds
      BY <1>1, <1>4, <1>5, <3>1, Zenon DEF Closed
    <3>2. CASE a[1] # seeds
      <4>1. (\E x \in finished' : x[1] = a[1]) <=> \E x \in finished : x[1] = a[1]
        BY <1>4, <1>5, <3>2, Zenon
      <4>2. a[1] \in DOMAIN proxyRequests' <=> a[1] \in DOMAIN proxyRequests
        BY <1>1, <3>2, Zenon DEF Closed
      <4>3. a[1] \in DOMAIN proxyRequests' =>
              proxyRequests'[a[1]] = proxyRequests[a[1]]
        BY <1>1, Zenon DEF Closed
      <4> QED
        BY <4>1, <4>2, <4>3, Zenon DEF FinishInv, AdmittedFinishedOnce
    <3> QED
      BY <3>1, <3>2, Zenon
  <2> QED
    BY <2>1, <2>2, Zenon DEF FinishInv, AdmittedFinishedOnce
<1> QED
  BY <1>9, <1>10, <1>11, Zenon DEF FinishInv

LEMMA StepFinishes ==
  ASSUME SolanaAssumption, TypeOK, FinishInv, [SolanaNext]_vars
  PROVE  FinishInv'
<1>1. CASE Waiting
  <2>1. PICK src \in Nets, n \in ConnSns, k \in Conn, req \in Request :
          TakeReceipt(src, n, k) /\ HandleRequestPending(src, n, k, req)
    BY <1>1, Zenon DEF Waiting
  <2>2. PICK seeds : seeds = <<src, n, k>>
    BY Zenon
  <2>3. Closed(proxyRequests, proxyRequests', seeds)
    BY <2>1, <2>2, CloseCloses, Zenon DEF HandleRequestPending, ProxySeeds
  <2>4. seeds \notin DOMAIN proxyRequests
    BY <2>1, <2>2, FreshSeeds, Zenon
  <2>5. UNCHANGED <<admitted, finished>>
    BY <2>1, Zenon DEF HandleRequestPending, doneVars
  <2>6. /\ DOMAIN proxyRequests' = DOMAIN proxyRequests
        /\ \A x \in DOMAIN proxyRequests : proxyRequests'[x] = proxyRequests[x]
    BY <2>3, <2>4, Zenon DEF Closed
  <2>7. ReceiptsGrow
    BY <2>1, ReceiptTaken, Zenon
  <2> QED
    BY <2>5, <2>6, <2>7, FinishKept, Zenon
<1>2. CASE Admitting
  BY <1>2, FinishAdmits, Zenon DEF Admitting, HandleRequest, doneVars
<1>3. CASE Succeeding
  <2>1. PICK src \in Nets, n \in ConnSns, k \in Conn : \E m, s :
          /\ m.payload \in Result /\ m = CSResult(m.payload)
          /\ TakeReceipt(src, n, k) /\ HandleResultSuccess(src, n, k, m, s)
    BY <1>3, Zenon DEF Succeeding
  <2>2. PICK m, s : /\ m.payload \in Result /\ TakeReceipt(src, n, k)
                    /\ HandleResultSuccess(src, n, k, m, s)
    BY <2>1, Zenon
  <2>3. UNCHANGED finished
    BY <2>2, Zenon DEF HandleResultSuccess
  <2>4. CASE m.payload.reply = None
    <3>1. UNCHANGED <<admitted, proxyRequests>>
      BY <2>2, <2>4, Zenon DEF HandleResultSuccess, reqVars
    <3>2. ReceiptsGrow
      BY <2>2, ReceiptTaken, Zenon
    <3> QED
      BY <2>3, <3>1, <3>2, FinishKept, Zenon
  <2>5. CASE m.payload.reply # None
    <3>1. \E req \in Request : SetProxyRequest(src, n, k, req)
      BY <2>2, <2>5, ReplyRequest, Zenon
    <3> QED
      BY <2>2, <2>3, <3>1, FinishAdmits, Zenon
  <2> QED
    BY <2>4, <2>5, Zenon
<1>4. CASE Finishes
  BY <1>4, FinishTakes, Zenon DEF Finishes
<1>5. CASE \/ Sending \/ Collecting \/ Failing \/ Administers
           \/ \E s \in Sns : ExecuteRollback(s)
  <2>1. UNCHANGED <<admitted, proxyRequests, finished>>
    BY <1>5, AdminTypes, ZenonT(30)
       DEF Sending, SendCall, Collecting, ResponsePending, Failing, Administers,
           ExecuteRollback, reqVars, doneVars
  <2>2. ReceiptsGrow
    <3>1. CASE UNCHANGED receipts
      BY <3>1, Zenon DEF ReceiptsGrow
    <3>2. CASE Collecting \/ Failing
      BY <3>2, ReceivedGrows, Zenon DEF Collecting, Failing
    <3> QED
      BY <1>5, <3>1, <3>2, AdminTypes, Zenon
         DEF Sending, SendCall, Administers, ExecuteRollback
  <2> QED
    BY <2>1, <2>2, FinishKept, Zenon
<1> QED
  BY <1>1, <1>2, <1>3, <1>4, <1>5, StepKinds, Zenon

-----------------------------------------------------------------------------
(***************************************************************************)
(* Numbers of the connections                                              *)
(***************************************************************************)
\* What one connection numbers from c + 1 to d = c + t.
Follow(c, t, d) ==
  /\ \A j \in 1..c : j \in 1..d
  /\ \A i \in ConnSns : i <= t => c + i \in 1..d
  /\ \A i \in ConnSns : c + i \notin 1..c
  /\ \A i, j \in ConnSns : c + i = c + j => i = j
  /\ \A j \in 1..d : j \in 1..c \/ \E i \in ConnSns : i <= t /\ j = c + i

LEMMA NumbersFollow ==
  ASSUME NEW c \in Nat, NEW t \in Nat, MaxConnSn \in Nat, NEW d, d = c + t,
         d <= MaxConnSn
  PROVE  Follow(c, t, d)
<1>1. ASSUME NEW j \in 1..d, j \notin 1..c
      PROVE  \E i \in ConnSns : i <= t /\ j = c + i
  <2>1. j - c \in ConnSns /\ j - c <= t /\ j = c + (j - c)
    BY <1>1 DEF ConnSns
  <2> QED
    BY <2>1, Zenon
<1>2. /\ \A j \in 1..c : j \in 1..d
      /\ \A i \in ConnSns : i <= t => c + i \in 1..d
      /\ \A i \in ConnSns : c + i \notin 1..c
      /\ \A i, j \in ConnSns : c + i = c + j => i = j
  BY DEF ConnSns
<1> QED
  BY <1>1, <1>2, Zenon DEF Follow

\* The message with the i-th number of connection k.
Numbered(k, i, net, m) ==
  [conn |-> k, connSn |-> connSn[k] + i, net |-> net, msg |-> m]

\* What is new among the messages sent.
Anew(accounts, net, m) ==
  /\ \A x \in sent' : x \in sent \/
       \E k \in Conn, i \in ConnSns :
         i <= Times(k, accounts) /\ x = Numbered(k, i, net, m)
  /\ \A x \in sent : x \in sent'
  /\ \A k \in Conn, i \in ConnSns : i <= Times(k, accounts) =>
       \E x \in sent' : x = Numbered(k, i, net, m)

LEMMA SentNumbered ==
  ASSUME NEW accounts, NEW net, NEW s, NEW m, SendMessages(accounts, net, s, m)
  PROVE  Anew(accounts, net, m)
<1>1. PICK Y : Y = {y \in Conn \X ConnSns : y[2] <= Times(y[1], accounts)}
  BY Zenon
<1>2. sent' = sent \cup {Numbered(x[1], x[2], net, m) : x \in Y}
  BY <1>1, Zenon DEF SendMessages, Numbered, NextConnSn
<1>3. ASSUME NEW y \in Y
      PROVE  y[1] \in Conn /\ y[2] \in ConnSns /\ y[2] <= Times(y[1], accounts)
  <2>1. y \in Conn \X ConnSns /\ y[2] <= Times(y[1], accounts)
    BY <1>1, Zenon
  <2>2. y[1] \in Conn /\ y[2] \in ConnSns
    BY <2>1
  <2> QED
    BY <2>1, <2>2, Zenon
<1>4. ASSUME NEW k \in Conn, NEW i \in ConnSns, i <= Times(k, accounts)
      PROVE  Numbered(k, i, net, m) \in sent'
  <2>1. PICK y \in Conn \X ConnSns : y = <<k, i>>
    BY Zenon
  <2>2. y[1] = k /\ y[2] = i
    BY <2>1, Zenon
  <2>3. y \in Y
    BY <1>1, <1>4, <2>2, Zenon
  <2>4. Numbered(y[1], y[2], net, m) \in sent'
    BY <1>2, <2>3, Zenon
  <2> QED
    BY <2>2, <2>4, Zenon
<1>5. \A x \in sent' : x \in sent \/
        \E k \in Conn, i \in ConnSns :
          i <= Times(k, accounts) /\ x = Numbered(k, i, net, m)
  <2> SUFFICES ASSUME NEW x \in sent', x \notin sent
               PROVE  \E k \in Conn, i \in ConnSns :
                        i <= Times(k, accounts) /\ x = Numbered(k, i, net, m)
    BY Zenon
  <2>1. PICK y \in Y : x = Numbered(y[1], y[2], net, m)
    BY <1>2, Zenon
  <2> QED
    BY <1>3, <2>1, Zenon
<1> QED
  BY <1>2, <1>4, <1>5, Zenon DEF Anew

LEMMA SendNumbers ==
  ASSUME SolanaAssumption, TypeOK, ConnSnUnique, NEW p \in Protocols,
         NEW accounts \in AccountsFor(p), NEW net, NEW s, NEW m,
         SendMessages(accounts, net, s, m)
  PROVE  ConnSnUnique'
<1>1. \A k \in Conn : /\ connSn[k] \in Nat /\ Times(k, accounts) \in Nat
                      /\ connSn[k] + Times(k, accounts) <= MaxConnSn
                      /\ connSn'[k] = connSn[k] + Times(k, accounts)
  <2>1. \A k \in Conn : connSn[k] \in 0..MaxConnSn
    BY Zenon DEF TypeOK
  <2>2. \A k \in Conn : connSn[k] \in Nat
    BY <2>1
  <2> QED
    BY <2>2, TimesNat, Zenon DEF SendMessages
<1>2. \A k \in Conn : Follow(connSn[k], Times(k, accounts), connSn'[k])
  BY <1>1, NumbersFollow, Zenon DEF SolanaAssumption
<1>3. ASSUME NEW x \in sent, NEW k \in Conn, x.conn = k
      PROVE  x.connSn \in 1..connSn[k]
  BY <1>3, ZenonT(30) DEF ConnSnUnique
<1>4. ASSUME NEW k \in Conn, NEW j \in 1..connSn[k]
      PROVE  \E x \in sent : x.conn = k /\ x.connSn = j
  <2>1. {x.connSn : x \in {y \in sent : y.conn = k}} = 1..connSn[k]
    BY Zenon DEF ConnSnUnique
  <2>2. j \in {x.connSn : x \in {y \in sent : y.conn = k}}
    BY <2>1, Zenon
  <2> QED
    BY <2>2, Zenon
<1>5. Anew(accounts, net, m)
  BY SentNumbered, Zenon
<1>6. ASSUME NEW x \in sent, NEW k \in Conn, NEW i \in ConnSns, NEW y,
             y = Numbered(k, i, net, m), x.conn = y.conn
      PROVE  x.connSn # y.connSn
  <2>1. y.conn = k /\ y.connSn = connSn[k] + i
    BY <1>6, Zenon DEF Numbered
  <2>2. connSn[k] + i \notin 1..connSn[k]
    BY <1>2, Zenon DEF Follow
  <2>3. x.connSn \in 1..connSn[k]
    BY <1>3, <1>6, <2>1, Zenon
  <2> QED
    BY <2>1, <2>2, <2>3, Zenon
<1>7. ASSUME NEW x \in sent', x \notin sent
      PROVE  \E k \in Conn, i \in ConnSns :
               i <= Times(k, accounts) /\ x = Numbered(k, i, net, m)
  BY <1>5, <1>7, Zenon DEF Anew
<1>8. \A x, y \in sent' : x.conn = y.conn /\ x.connSn = y.connSn => x = y
  <2> SUFFICES ASSUME NEW x \in sent', NEW y \in sent', x.conn = y.conn,
                      x.connSn = y.connSn
               PROVE  x = y
    BY Zenon
  <2>1. CASE x \in sent /\ y \in sent
    BY <2>1, Zenon DEF ConnSnUnique
  <2>2. CASE x \in sent /\ y \notin sent
    <3>1. PICK k \in Conn, i \in ConnSns : y = Numbered(k, i, net, m)
      BY <1>7, <2>2, Zenon
    <3> QED
      BY <1>6, <2>2, <3>1, Zenon
  <2>3. CASE x \notin sent /\ y \in sent
    <3>1. PICK k \in Conn, i \in ConnSns : x = Numbered(k, i, net, m)
      BY <1>7, <2>3, Zenon
    <3> QED
      BY <1>6, <2>3, <3>1, Zenon
  <2>4. CASE x \notin sent /\ y \notin sent
    <3>1. PICK k \in Conn, i \in ConnSns : x = Numbered(k, i, net, m)
      BY <1>7, <2>4, Zenon
    <3>2. PICK q \in Conn, j \in ConnSns : y = Numbered(q, j, net, m)
      BY <1>7, <2>4, Zenon
    <3>3. x.conn = k /\ x.connSn = connSn[k] + i
      BY <3>1, Zenon DEF Numbered
    <3>4. y.conn = q /\ y.connSn = connSn[q] + j
      BY <3>2, Zenon DEF Numbered
    <3>5. k = q
      BY <3>3, <3>4, Zenon
    <3>6. connSn[k] + i = connSn[k] + j
      BY <3>3, <3>4, <3>5, Zenon
    <3>7. i = j
      BY <1>2, <3>6, Zenon DEF Follow
    <3> QED
      BY <3>1, <3>2, <3>5, <3>7, Zenon
  <2> QED
    BY <2>1, <2>2, <2>3, <2>4, Zenon
<1>9. ASSUME NEW k \in Conn
       PROVE  {x.connSn : x \in {y \in sent' : y.conn = k}} = 1..connSn'[k]
  <2>1. ASSUME NEW x \in sent', x.conn = k
        PROVE  x.connSn \in 1..connSn'[k]
    <3>1. CASE x \in sent
      <4>1. x.connSn \in 1..connSn[k]
        BY <1>3, <2>1, <3>1, Zenon
      <4> QED
        BY <1>2, <4>1, Zenon DEF Follow
    <3>2. CASE x \notin sent
      <4>1. PICK q \in Conn, i \in ConnSns :
              i <= Times(q, accounts) /\ x = Numbered(q, i, net, m)
        BY <1>7, <3>2, Zenon
      <4>2. q = k /\ x.connSn = connSn[q] + i
        BY <2>1, <4>1, Zenon DEF Numbered
      <4>3. connSn[q] + i \in 1..connSn'[q]
        BY <1>2, <4>1, Zenon DEF Follow
      <4> QED
        BY <4>2, <4>3, Zenon
    <3> QED
      BY <3>1, <3>2, Zenon
  <2>2. ASSUME NEW j \in 1..connSn'[k]
        PROVE  \E x \in sent' : x.conn = k /\ x.connSn = j
    <3>1. CASE j \in 1..connSn[k]
      <4>1. PICK x \in sent : x.conn = k /\ x.connSn = j
        BY <1>4, <3>1, Zenon
      <4> QED
        BY <1>5, <4>1, Zenon DEF Anew
    <3>2. CASE j \notin 1..connSn[k]
      <4>1. PICK i \in ConnSns : i <= Times(k, accounts) /\ j = connSn[k] + i
        BY <1>2, <3>2, Zenon DEF Follow
      <4>2. PICK x \in sent' : x = Numbered(k, i, net, m)
        BY <1>5, <4>1, Zenon DEF Anew
      <4>3. x.conn = k /\ x.connSn = connSn[k] + i
        BY <4>2, Zenon DEF Numbered
      <4> QED
        BY <4>1, <4>3, Zenon
    <3> QED
      BY <3>1, <3>2, Zenon
  <2>3. \A j : j \in {x.connSn : x \in {y \in sent' : y.conn = k}}
                 <=> j \in 1..connSn'[k]
    BY <2>1, <2>2, Zenon
  <2> QED
    BY <2>3, Zenon
<1> QED
  BY <1>8, <1>9, Zenon DEF ConnSnUnique

LEMMA StepNumbers ==
  ASSUME SolanaAssumption, TypeOK, ConnSnUnique, [SolanaNext]_vars
  PROVE  ConnSnUnique'
<1>1. CASE UNCHANGED <<connSn, sent>>
  BY <1>1, Zenon DEF ConnSnUnique
<1>2. CASE Sending
  BY <1>2, SendNumbers, ZenonT(30) DEF Sending, SendCall
<1>3. CASE Finishes
  BY <1>1, <1>3, SendNumbers, Zenon DEF Finishes, Sends
<1>4. CASE \/ Waiting \/ Admitting \/ Collecting \/ Succeeding \/ Failing
           \/ \E s \in Sns : ExecuteRollback(s)
  <2>1. UNCHANGED <<connSn, sent>>
    BY <1>4, Zenon
       DEF Waiting, HandleRequestPending, Admitting, HandleRequest, Collecting,
           ResponsePending, Succeeding, HandleResultSuccess, Failing,
           ExecuteRollback, outVars
  <2> QED
    BY <1>1, <2>1, Zenon
<1>5. CASE Administers
  BY <1>1, <1>5, AdminTypes, Zenon DEF Administers
<1> QED
  BY <1>2, <1>3, <1>4, <1>5, StepKinds, Zenon

-----------------------------------------------------------------------------
(***************************************************************************)
(* The invariant and what follows from it                                  *)
(***************************************************************************)
LEMMA SolanaInvInit ==
  ASSUME SolanaAssumption, SolanaInit
  PROVE  SolanaInv
<1> USE DEF SolanaInit
<1>1. DOMAIN Empty = {}
  BY Zenon DEF Empty
<1>2. TypeOK
  <2>1. 0 \in Nat /\ 0 \in 0..MaxSn /\ 0 \in 0..MaxReqId /\ 0 \in 0..MaxConnSn
    BY XcallAssumption DEF SolanaAssumption
  <2>2. \A S, V : Accounts(Empty, S, V)
    BY <1>1, Zenon DEF Accounts
  <2>3. connSn \in [Conn -> 0..MaxConnSn] /\ calls \in [Sns -> Call \cup {None}]
    BY <2>1, Zenon
  <2>4. receipts \in [Conn -> SUBSET (Nets \X ConnSns)]
    BY Zenon
  <2> QED
    BY <1>1, <2>1, <2>2, <2>3, <2>4, Zenon DEF TypeOK
<1>3. SettleInv
  BY <1>1, Zenon
     DEF SettleInv, RequestsHeard, ResponsesHeard, RollbacksOpen,
         RequestsEndorsed, SettlementEndorsed, SettledOnce
<1>4. FinishInv
  BY <1>1, Zenon DEF FinishInv, AdmittedFinishedOnce
<1>5. ConnSnUnique
  <2>1. 1..0 = {}
    OBVIOUS
  <2>2. \A k \in Conn : connSn[k] = 0
    BY Zenon
  <2> QED
    BY <2>1, <2>2, Zenon DEF ConnSnUnique
<1> QED
  BY <1>2, <1>3, <1>4, <1>5, Zenon DEF SolanaInv

LEMMA SolanaInvStep ==
  ASSUME SolanaAssumption, SolanaInv, [SolanaNext]_vars
  PROVE  SolanaInv'
BY StepTypes, StepSettles, StepFinishes, StepNumbers, Zenon DEF SolanaInv

LEMMA SolanaInvAlways ==
  ASSUME SolanaAssumption
  PROVE  SolanaSpec => []SolanaInv
<1>1. SolanaInit => SolanaInv
  BY SolanaInvInit, Zenon
<1>2. SolanaInv /\ [SolanaNext]_vars => SolanaInv'
  BY SolanaInvStep, Zenon
<1> QED
  BY <1>1, <1>2, PTL DEF SolanaSpec

\* What the invariant gives.
LEMMA SolanaInvGives ==
  ASSUME SolanaInv
  PROVE  /\ TypeOK
         /\ RequestsEndorsed
         /\ SettlementEndorsed
         /\ SettledOnce
         /\ AdmittedFinishedOnce
         /\ ConnSnUnique
BY Zenon DEF SolanaInv, SettleInv, FinishInv

\* Every account has seeds of its kind, every number in use was handed out.
THEOREM SolanaWellTyped ==
  ASSUME SolanaAssumption
  PROVE  SolanaSpec => []TypeOK
<1>1. SolanaInv => TypeOK
  BY SolanaInvGives, Zenon
<1> QED
  BY <1>1, SolanaInvAlways, PTL

\* handle_request makes a request executable only on the word of every protocol
\* in its list, handle_reply a reply only as part of the success of a call to its
\* network over its list, for all lists of connections.
THEOREM SolanaRequestsEndorsed ==
  ASSUME SolanaAssumption
  PROVE  SolanaSpec => []RequestsEndorsed
<1>1. SolanaInv => RequestsEndorsed
  BY SolanaInvGives, Zenon
<1> QED
  BY <1>1, SolanaInvAlways, PTL

\* A call succeeds, or its rollback runs, only on one result or error that one
\* of its connections delivered for this call and as many connections as its
\* list is long delivered; and unless a connection named another call with it,
\* it is an answer to this call that all its connections delivered
\* (check_sources_and_pending_response).
THEOREM SolanaSettlementEndorsed ==
  ASSUME SolanaAssumption
  PROVE  SolanaSpec => []SettlementEndorsed
<1>1. SolanaInv => SettlementEndorsed
  BY SolanaInvGives, Zenon
<1> QED
  BY <1>1, SolanaInvAlways, PTL

\* handle_result and execute_rollback close the rollback account they use: a
\* call is settled one way, once.
THEOREM SolanaSettledOnce ==
  ASSUME SolanaAssumption
  PROVE  SolanaSpec => []SettledOnce
<1>1. SolanaInv => SettledOnce
  BY SolanaInvGives, Zenon
<1> QED
  BY <1>1, SolanaInvAlways, PTL

\* The account of an admitted request stays until execute_call or
\* handle_forced_rollback closes it, and only one of them does: the receipt of
\* recv_message keeps every other delivery away from its seeds.
THEOREM SolanaAdmittedFinishedOnce ==
  ASSUME SolanaAssumption
  PROVE  SolanaSpec => []AdmittedFinishedOnce
<1>1. SolanaInv => AdmittedFinishedOnce
  BY SolanaInvGives, Zenon
<1> QED
  BY <1>1, SolanaInvAlways, PTL

\* get_next_conn_sn numbers what a connection sends without gaps and without
\* using a number twice, however often an instruction names the connection.
THEOREM SolanaConnSnUnique ==
  ASSUME SolanaAssumption
  PROVE  SolanaSpec => []ConnSnUnique
<1>1. SolanaInv => ConnSnUnique
  BY SolanaInvGives, Zenon
<1> QED
  BY <1>1, SolanaInvAlways, PTL

=============================================================================
