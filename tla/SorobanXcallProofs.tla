------------------------- MODULE SorobanXcallProofs -------------------------
(***************************************************************************)
(* What the Stellar call service keeps, whatever connections deliver and   *)
(* although its temporary entries expire, for all networks, connections    *)
(* and lists and any length of a day.                                      *)
(***************************************************************************)
EXTENDS SorobanXcall, TLAPS

\* What is collected was delivered; a result is collected from connections of
\* its call.
PendingHeard ==
  /\ \A r \in DOMAIN pendingRequests : \A k \in pendingRequests[r].val :
       <<CSRequest(r), k>> \in heard
  /\ \A r \in DOMAIN pendingResponses :
       /\ r.sn <= sn /\ calls[r.sn] # None
       /\ \A k \in pendingResponses[r].val :
            <<CSResult(r), k>> \in heard /\ k \in Range(calls[r.sn].protocols)

\* Every connection of the list delivered one and the same result of call s
\* with that code.
OneResult(H, s, code, protocols) ==
  \E m \in ResultsOf(s, {code}) : EndorsedBy(H, {m}, protocols)

\* A stored rollback is that of an open call; it is enabled after all the
\* connections of the call delivered one result of failure.
Open(H, C, s, rollback) ==
  /\ C[s] # None /\ C[s].protocols = rollback.protocols
  /\ rollback.enabled => OneResult(H, s, Failure, rollback.protocols)
RollbacksOpen ==
  \A s \in DOMAIN rollbacks : Open(heard, calls, s, GetRollback(s))

SettleInv ==
  PendingHeard /\ RollbacksOpen
    /\ RequestsEndorsed /\ SettlementEndorsed /\ SettledOnce

\* For as long as users may act, the time that is left and the time that has
\* passed make up more than the threshold.
RollbackTime ==
  \A s \in DOMAIN enabledFor :
    enabledFor[s] < LEDGER_THRESHOLD_REQUEST =>
      \/ s \in successfulResponses \cup rolledBack
      \/ /\ s \in DOMAIN rollbacks /\ GetRollback(s).enabled
         /\ rollbacks[s].ttl + enabledFor[s] > LEDGER_THRESHOLD_REQUEST

RequestTime ==
  /\ \A x \in executed : x[1] \notin DOMAIN proxyRequests
  /\ \A i \in DOMAIN admittedFor :
       admittedFor[i] < LEDGER_THRESHOLD_REQUEST =>
         \/ \E x \in executed : x[1] = i
         \/ /\ i \in DOMAIN proxyRequests
            /\ proxyRequests[i].ttl + admittedFor[i] > LEDGER_THRESHOLD_REQUEST

SorobanInv == TypeOK /\ SettleInv /\ RollbackTime /\ RequestTime

-----------------------------------------------------------------------------
(***************************************************************************)
(* Lists, results and deliveries                                           *)
(***************************************************************************)
\* A list and what it is confirmed to name connections only.
LEMMA ListOfConns ==
  ASSUME NEW p \in Protocols
  PROVE  /\ p \in Seq(Conn) /\ Range(p) \subseteq Conn
         /\ \A k \in Range(p) : Len(p) = 1 => Range(p) = {k}
         /\ p # <<>> /\ ~(Len(p) > 1) => Len(p) = 1
<1>1. p \in Seq(Conn)
  BY XcallAssumption, Zenon
<1>2. Range(p) \subseteq Conn
  BY <1>1 DEF Range
<1>3. \A k \in Range(p) : Len(p) = 1 => Range(p) = {k}
  BY <1>1 DEF Range
<1>4. p # <<>> /\ ~(Len(p) > 1) => Len(p) = 1
  <2>1. Len(p) \in Nat
    BY <1>1
  <2>2. Len(p) = 0 => p = <<>>
    BY <1>1
  <2> QED
    BY <2>1, <2>2
<1> QED
  BY <1>1, <1>2, <1>3, <1>4, Zenon

LEMMA ResultIn ==
  ASSUME NEW res \in Result, NEW codes, res.code \in codes
  PROVE  CSResult(res) \in ResultsOf(res.sn, codes)
BY Zenon DEF Result, ResultsOf

LEMMA MessageParts ==
  ASSUME NEW m \in CSMessage
  PROVE  /\ m.type = "CSMessageRequest" =>
              m.payload \in Request /\ m = CSRequest(m.payload)
         /\ m.type = "CSMessageResult" =>
              m.payload \in Result /\ m = CSResult(m.payload)
BY Zenon DEF CSMessage, CSRequest, CSResult

\* Requests and results on the wire are messages.
LEMMA MessagesType ==
  /\ \A req \in Request : CSRequest(req) \in CSMessage
  /\ \A res \in Result : CSResult(res) \in CSMessage
BY Zenon DEF CSMessage, CSRequest, CSResult

\* More deliveries endorse no less.
LEMMA EndorsedGrows ==
  ASSUME NEW H, NEW G, H \subseteq G, NEW M, NEW p, EndorsedBy(H, M, p)
  PROVE  EndorsedBy(G, M, p)
BY Zenon DEF EndorsedBy

\* Requests stay endorsed when more is delivered.
LEMMA AdmissionGrows ==
  ASSUME NEW H, NEW G, H \subseteq G, NEW A, AdmissionEndorsed(H, A)
  PROVE  AdmissionEndorsed(G, A)
<1> SUFFICES ASSUME NEW a \in A
             PROVE  AdmissionEndorsed(G, {a})
  BY Zenon DEF AdmissionEndorsed
<1>1. CASE EndorsedBy(H, {CSRequest(a[2])}, a[2].protocols)
  BY <1>1, EndorsedGrows, Zenon DEF AdmissionEndorsed
<1>2. CASE ~EndorsedBy(H, {CSRequest(a[2])}, a[2].protocols)
  <2>1. PICK s \in Sns, h \in H :
          /\ h[1] \in ResultsOf(s, {Success})
          /\ h[1].payload.reply # None
          /\ [h[1].payload.reply EXCEPT !.protocols = a[2].protocols] = a[2]
          /\ EndorsedBy(H, {h[1]}, a[2].protocols)
    BY <1>2, Zenon DEF AdmissionEndorsed
  <2>2. EndorsedBy(G, {h[1]}, a[2].protocols)
    BY <2>1, EndorsedGrows, Zenon
  <2> QED
    BY <2>1, <2>2, Zenon DEF AdmissionEndorsed
<1> QED
  BY <1>1, <1>2, Zenon

\* So do results ...
LEMMA OneResultGrows ==
  ASSUME NEW H, NEW G, H \subseteq G, NEW s, NEW code, NEW p,
         OneResult(H, s, code, p)
  PROVE  OneResult(G, s, code, p)
BY EndorsedGrows, Zenon DEF OneResult

\* ... and settled calls.
LEMMA SettledGrows ==
  ASSUME NEW H, NEW G, H \subseteq G, NEW C, NEW D, NEW S, NEW R,
         SettledOnOneResult(H, C, S, R),
         \A s \in S \cup R : D[s] = C[s]
  PROVE  SettledOnOneResult(G, D, S, R)
<1>1. \A s, m : EndorsedBy(H, {m}, C[s].protocols) =>
                EndorsedBy(G, {m}, C[s].protocols)
  BY EndorsedGrows, Zenon
<1> QED
  BY <1>1, Zenon DEF SettledOnOneResult

\* A complete set of deliveries endorses, of one protocol or several.
LEMMA CompleteEndorses ==
  ASSUME SorobanAssumption, NEW p \in Protocols, NEW k \in Conn,
         NEW S, k \in S, k \in Range(p) \/ p = <<>>,
         Len(p) > 1 => S \subseteq Range(p) /\ Cardinality(S) = Len(p),
         NEW H, NEW m, \A q \in S : <<m, q>> \in H
  PROVE  EndorsedBy(H, {m}, p)
<1>1. \A q \in S : \E h \in H : h[1] \in {m} /\ h[2] = q
  <2> SUFFICES ASSUME NEW q \in S
               PROVE  \E h \in H : h[1] \in {m} /\ h[2] = q
    BY Zenon
  <2>1. PICK h \in H : h = <<m, q>>
    BY Zenon
  <2> QED
    BY <2>1, Zenon
<1>2. CASE p = <<>>
  BY <1>1, <1>2, Zenon DEF EndorsedBy
<1>3. CASE p # <<>> /\ Len(p) > 1
  <2>1. p \in Routes
    BY Zenon DEF Routes
  <2>2. S = Range(p)
    BY <1>3, <2>1, Zenon DEF SorobanAssumption, Countable
  <2> QED
    BY <1>1, <1>3, <2>2, Zenon DEF EndorsedBy
<1>4. CASE p # <<>> /\ ~(Len(p) > 1)
  <2>1. Len(p) = 1 /\ k \in Range(p)
    BY <1>4, ListOfConns, Zenon
  <2>2. Range(p) = {k}
    BY <2>1, ListOfConns, Zenon
  <2> QED
    BY <1>1, <1>4, <2>2, Zenon DEF EndorsedBy
<1> QED
  BY <1>2, <1>3, <1>4, Zenon

-----------------------------------------------------------------------------
(***************************************************************************)
(* Temporary storage                                                       *)
(***************************************************************************)
LEMMA Thresholds ==
  ASSUME SorobanAssumption
  PROVE  /\ LEDGER_THRESHOLD_REQUEST \in Nat /\ LEDGER_BUMP_REQUEST \in Nat
         /\ LEDGER_BUMP_REQUEST > LEDGER_THRESHOLD_REQUEST
BY DEF SorobanAssumption, LEDGER_THRESHOLD_REQUEST, LEDGER_BUMP_REQUEST

\* An entry just stored has more time left than the threshold.
LEMMA ExtendFacts ==
  ASSUME SorobanAssumption, NEW K, NEW V, NEW map, Entries(map, K, V), NEW key
  PROVE  /\ Extend(map, key) \in 1..LEDGER_BUMP_REQUEST
         /\ Extend(map, key) > LEDGER_THRESHOLD_REQUEST
<1>1. CASE key \in DOMAIN map /\ map[key].ttl > LEDGER_THRESHOLD_REQUEST
  BY <1>1, Zenon DEF Extend, Entries
<1>2. CASE ~(key \in DOMAIN map /\ map[key].ttl > LEDGER_THRESHOLD_REQUEST)
  BY <1>2, Thresholds DEF Extend
<1> QED
  BY <1>1, <1>2, Zenon

LEMMA StoreEntries ==
  ASSUME SorobanAssumption, NEW K, NEW V, NEW map, Entries(map, K, V),
         NEW key, key \in K, NEW value, value \in V
  PROVE  Entries(Store(map, key, value), K, V)
<1>1. /\ DOMAIN Store(map, key, value) = DOMAIN map \cup {key}
      /\ \A x \in DOMAIN Store(map, key, value) :
           Store(map, key, value)[x] =
             IF x = key THEN [val |-> value, ttl |-> Extend(map, key)]
             ELSE map[x]
  BY Zenon DEF Store
<1>2. [val |-> value, ttl |-> Extend(map, key)]
        \in [val : V, ttl : 1..LEDGER_BUMP_REQUEST]
  BY ExtendFacts, Zenon
<1> QED
  BY <1>1, <1>2, Zenon DEF Entries

LEMMA WithoutEntries ==
  ASSUME NEW K, NEW V, NEW map, Entries(map, K, V), NEW key
  PROVE  /\ Entries(Without(map, key), K, V)
         /\ DOMAIN Without(map, key) = DOMAIN map \ {key}
         /\ \A x \in DOMAIN map \ {key} : Without(map, key)[x] = map[x]
BY Zenon DEF Without, Entries

\* An entry that grew old and is still there had time left.
Survivors(old, map) ==
  \A x \in DOMAIN old :
    /\ x \in DOMAIN map /\ map[x].ttl > 1
    /\ old[x].val = map[x].val /\ old[x].ttl = map[x].ttl - 1

LEMMA AgedValues ==
  ASSUME SorobanAssumption, NEW K, NEW V, NEW map, Entries(map, K, V)
  PROVE  Entries(Aged(map), K, V) /\ Survivors(Aged(map), map)
<1>1. ASSUME NEW x \in DOMAIN Aged(map)
      PROVE  /\ x \in DOMAIN map /\ map[x].ttl > 1
             /\ Aged(map)[x] \in [val : V, ttl : 1..LEDGER_BUMP_REQUEST]
             /\ Aged(map)[x].val = map[x].val
             /\ Aged(map)[x].ttl = map[x].ttl - 1
  <2>1. x \in DOMAIN map /\ map[x].ttl > 1
    BY Zenon DEF Aged
  <2>2. map[x] \in [val : V, ttl : 1..LEDGER_BUMP_REQUEST]
    BY <2>1, Zenon DEF Entries
  <2>3. Aged(map)[x] = [map[x] EXCEPT !.ttl = map[x].ttl - 1]
    BY Zenon DEF Aged
  <2>4. map[x].ttl - 1 \in 1..LEDGER_BUMP_REQUEST
    BY <2>1, <2>2, Thresholds
  <2> QED
    BY <2>1, <2>2, <2>3, <2>4, Zenon
<1>2. Entries(Aged(map), K, V)
  BY <1>1, Zenon DEF Entries
<1> QED
  BY <1>1, <1>2, Zenon DEF Survivors

\* More keys are no less.
LEMMA EntriesGrow ==
  ASSUME NEW K, NEW L, K \subseteq L, NEW V, NEW map, Entries(map, K, V)
  PROVE  Entries(map, L, V)
BY Zenon DEF Entries

-----------------------------------------------------------------------------
(***************************************************************************)
(* Typing                                                                  *)
(***************************************************************************)
\* Numbers handed out.
LEMMA NextSn ==
  ASSUME TypeOK, sn + 1 \in Sns
  PROVE  /\ sn + 1 \in 0..MaxSn /\ sn + 1 \in 1..(sn + 1)
         /\ 1..sn \subseteq 1..(sn + 1) /\ sn + 1 \notin 1..sn
BY XcallAssumption DEF TypeOK, Sns

LEMMA NextReqId ==
  ASSUME TypeOK, reqId + 1 \in ReqIds
  PROVE  /\ reqId + 1 \in 0..MaxReqId /\ reqId + 1 \in 1..(reqId + 1)
         /\ 1..reqId \subseteq 1..(reqId + 1) /\ reqId + 1 \notin 1..reqId
BY XcallAssumption DEF TypeOK, ReqIds

\* What a new call stores.
CallStored(to, src) ==
  /\ \A s \in DOMAIN rollbacks : rollbacks'[s] = rollbacks[s]
  /\ DOMAIN rollbacks \subseteq DOMAIN rollbacks'
  /\ \A s \in DOMAIN rollbacks' : s \in DOMAIN rollbacks \/
       /\ s = sn + 1
       /\ rollbacks'[s].val =
            [to |-> to, protocols |-> src, enabled |-> FALSE]
       /\ calls'[s] = [to |-> to, protocols |-> src]
       /\ calls'[s] # None
  /\ \A s \in Sns : s # sn + 1 => calls'[s] = calls[s]

LEMMA ProcessTypes ==
  ASSUME SorobanAssumption, TypeOK, NEW to \in Nets, NEW type,
         NEW src \in Protocols, sn + 1 \in Sns,
         ProcessMessage(to, type, src)
  PROVE  /\ Entries(rollbacks', 1..(sn + 1), RollbackData)
         /\ calls' \in [Sns -> Call \cup {None}]
         /\ CallStored(to, src)
<1> DEFINE new == [to |-> to, protocols |-> src, enabled |-> FALSE]
           call == [to |-> to, protocols |-> src]
<1>1. Entries(rollbacks, 1..(sn + 1), RollbackData)
  BY NextSn, EntriesGrow, Zenon DEF TypeOK
<1>2. new \in RollbackData /\ call \in Call
  BY Zenon DEF RollbackData, Call, Nets
<1>3. sn + 1 \in 1..(sn + 1) /\ sn + 1 \notin DOMAIN rollbacks
  BY NextSn, Zenon DEF TypeOK, Entries
<1>4. CASE type = TwoWay
  <2>1. /\ rollbacks' = Store(rollbacks, sn + 1, new)
        /\ calls' = [calls EXCEPT ![sn + 1] = call]
    BY <1>4, Zenon DEF ProcessMessage
  <2>2. /\ Entries(rollbacks', 1..(sn + 1), RollbackData)
        /\ DOMAIN rollbacks' = DOMAIN rollbacks \cup {sn + 1}
        /\ rollbacks'[sn + 1].val = new
        /\ \A s \in DOMAIN rollbacks : rollbacks'[s] = rollbacks[s]
    <3>1. Entries(rollbacks', 1..(sn + 1), RollbackData)
      BY <1>1, <1>2, <1>3, <2>1, StoreEntries, Zenon
    <3>2. /\ DOMAIN rollbacks' = DOMAIN rollbacks \cup {sn + 1}
          /\ rollbacks'[sn + 1].val = new
          /\ \A s \in DOMAIN rollbacks :
               s # sn + 1 => rollbacks'[s] = rollbacks[s]
      BY <2>1, Zenon DEF Store
    <3> QED
      BY <1>3, <3>1, <3>2, Zenon
  <2>3. /\ calls' \in [Sns -> Call \cup {None}]
        /\ calls'[sn + 1] = call
        /\ \A s \in Sns : s # sn + 1 => calls'[s] = calls[s]
    BY <1>2, <2>1, Zenon DEF TypeOK
  <2>4. call # None
    BY <1>2, XcallAssumption, Zenon
  <2> QED
    BY <2>2, <2>3, <2>4, Zenon DEF CallStored
<1>5. CASE type # TwoWay
  BY <1>1, <1>5, Zenon DEF ProcessMessage, TypeOK, CallStored
<1> QED
  BY <1>4, <1>5, Zenon

LEMMA SendCallTypes ==
  ASSUME SorobanAssumption, TypeOK, NEW to \in Nets, NEW o \in Outgoing,
         SendCall(to, o[1], o[2], o[3])
  PROVE  TypeOK'
<1>1. o[2] \in Protocols
  BY DEF SorobanAssumption
<1>2. /\ Entries(rollbacks', 1..(sn + 1), RollbackData)
      /\ calls' \in [Sns -> Call \cup {None}]
  BY <1>1, ProcessTypes, Zenon DEF SendCall
<1>3. /\ sn' = sn + 1 /\ sn + 1 \in Sns
      /\ UNCHANGED <<reqVars, feeVars, pendVars, doneVars, enabledFor,
                     defaultConnection>>
  BY Zenon DEF SendCall
<1>4. /\ sn' \in 0..MaxSn
      /\ successfulResponses \subseteq 1..sn' /\ rolledBack \subseteq 1..sn'
      /\ DOMAIN enabledFor \subseteq 1..sn'
  BY <1>3, NextSn, Zenon DEF TypeOK
<1> QED
  BY <1>2, <1>3, <1>4, Zenon
     DEF TypeOK, reqVars, feeVars, pendVars, doneVars

LEMMA NewProxyRequestTypes ==
  ASSUME SorobanAssumption, TypeOK, NEW req \in Request,
         NewProxyRequest(req)
  PROVE  /\ reqId' \in 0..MaxReqId
         /\ reqId' = reqId + 1 /\ reqId + 1 \notin 1..reqId
         /\ Entries(proxyRequests', 1..reqId', Request)
         /\ DOMAIN proxyRequests' = DOMAIN proxyRequests \cup {reqId + 1}
         /\ proxyRequests'[reqId + 1].ttl > LEDGER_THRESHOLD_REQUEST
         /\ \A i \in DOMAIN proxyRequests :
              proxyRequests'[i] = proxyRequests[i]
         /\ admitted' \subseteq (1..reqId') \X Request
         /\ executed \subseteq (1..reqId') \X Request \X Code
         /\ DOMAIN admittedFor' = 1..reqId'
         /\ admittedFor'[reqId + 1] = 0
         /\ \A i \in 1..reqId : admittedFor'[i] = admittedFor[i]
         /\ \A i \in DOMAIN admittedFor' : admittedFor'[i] \in Nat
<1>1. reqId' = reqId + 1 /\ reqId + 1 \in ReqIds
  BY Zenon DEF NewProxyRequest
<1>2. /\ reqId' \in 0..MaxReqId /\ reqId + 1 \in 1..reqId'
      /\ 1..reqId \subseteq 1..reqId' /\ reqId + 1 \notin 1..reqId
  BY <1>1, NextReqId, Zenon
<1>3. Entries(proxyRequests, 1..reqId', Request)
  BY <1>2, EntriesGrow, Zenon DEF TypeOK
<1>4. proxyRequests' = Store(proxyRequests, reqId + 1, req)
  BY Zenon DEF NewProxyRequest
<1>5. reqId + 1 \notin DOMAIN proxyRequests
  BY <1>2, Zenon DEF TypeOK, Entries
<1>6. /\ Entries(proxyRequests', 1..reqId', Request)
      /\ DOMAIN proxyRequests' = DOMAIN proxyRequests \cup {reqId + 1}
      /\ proxyRequests'[reqId + 1].ttl > LEDGER_THRESHOLD_REQUEST
      /\ \A i \in DOMAIN proxyRequests : proxyRequests'[i] = proxyRequests[i]
  <2>1. /\ Entries(proxyRequests', 1..reqId', Request)
        /\ Extend(proxyRequests, reqId + 1) > LEDGER_THRESHOLD_REQUEST
    BY <1>2, <1>3, <1>4, StoreEntries, ExtendFacts, Zenon
  <2>2. /\ DOMAIN proxyRequests' = DOMAIN proxyRequests \cup {reqId + 1}
        /\ proxyRequests'[reqId + 1].ttl = Extend(proxyRequests, reqId + 1)
        /\ \A i \in DOMAIN proxyRequests :
             i # reqId + 1 => proxyRequests'[i] = proxyRequests[i]
    BY <1>4, Zenon DEF Store
  <2> QED
    BY <1>5, <2>1, <2>2, Zenon
<1>7. /\ admitted' \subseteq (1..reqId') \X Request
      /\ executed \subseteq (1..reqId') \X Request \X Code
  BY <1>1, <1>2 DEF NewProxyRequest, TypeOK
<1>8. /\ DOMAIN admittedFor' = 1..reqId'
      /\ admittedFor'[reqId + 1] = 0
      /\ \A i \in 1..reqId : admittedFor'[i] = admittedFor[i]
  <2>1. admittedFor' = [i \in 1..reqId' |-> IF i = reqId + 1 THEN 0
                                            ELSE admittedFor[i]]
    BY <1>1, Zenon DEF NewProxyRequest
  <2> QED
    BY <1>2, <2>1
<1>9. \A i \in DOMAIN admittedFor' : admittedFor'[i] \in Nat
  <2>1. \A i \in 1..reqId' : i = reqId + 1 \/ i \in 1..reqId
    BY <1>1 DEF TypeOK
  <2>2. 0 \in Nat
    OBVIOUS
  <2> QED
    BY <1>8, <2>1, <2>2, Zenon DEF TypeOK
<1> QED
  BY <1>1, <1>2, <1>6, <1>7, <1>8, <1>9, Zenon

\* What is stored of a delivery.
Collected(new, map, x, k) ==
  \A y \in DOMAIN new :
    /\ y = x => new[y].val = Sources(map, x, k)
    /\ y # x => y \in DOMAIN map /\ new[y] = map[y]

LEMMA StorePendingFacts ==
  ASSUME NEW map, NEW x, NEW k
  PROVE  Collected(StorePending(map, x, k), map, x, k)
<1>1. CASE x \in DOMAIN map /\ k \in map[x].val
  <2>1. Sources(map, x, k) = map[x].val /\ StorePending(map, x, k) = map
    BY <1>1 DEF Sources, StorePending
  <2> QED
    BY <2>1 DEF Collected
<1>2. CASE ~(x \in DOMAIN map /\ k \in map[x].val)
  <2>1. StorePending(map, x, k) = Store(map, x, Sources(map, x, k))
    BY <1>2, Zenon DEF StorePending
  <2>2. ASSUME NEW y \in DOMAIN Store(map, x, Sources(map, x, k))
        PROVE  /\ y = x => Store(map, x, Sources(map, x, k))[y].val
                             = Sources(map, x, k)
               /\ y # x => /\ y \in DOMAIN map
                           /\ Store(map, x, Sources(map, x, k))[y] = map[y]
    BY DEF Store
  <2> QED
    BY <2>1, <2>2, Zenon DEF Collected
<1> QED
  BY <1>1, <1>2, Zenon

LEMMA StorePendingTypes ==
  ASSUME SorobanAssumption, NEW K, NEW map, Entries(map, K, SUBSET Conn),
         NEW x, x \in K, NEW k \in Conn
  PROVE  Entries(StorePending(map, x, k), K, SUBSET Conn)
<1>1. Sources(map, x, k) \in SUBSET Conn
  BY Zenon DEF Sources, Entries
<1>2. Entries(Store(map, x, Sources(map, x, k)), K, SUBSET Conn)
  BY <1>1, StoreEntries, Zenon
<1> QED
  BY <1>2, Zenon DEF StorePending

LEMMA HearTypes ==
  ASSUME TypeOK, NEW k \in Conn, NEW m \in CSMessage, Hear(k, m)
  PROVE  heard' = heard \cup {<<m, k>>} /\ heard' \subseteq CSMessage \X Conn
BY DEF Hear, TypeOK

\* A list of several connections is named.
LEMMA IncompleteNamed ==
  ASSUME NEW k, NEW net, NEW p \in Protocols, IsValidSource(k, net, p)
  PROVE  /\ k \in Range(p) \/ p = <<>>
         /\ Len(p) > 1 => k \in Range(p)
<1>1. p = <<>> => ~(Len(p) > 1)
  OBVIOUS
<1> QED
  BY <1>1, Zenon DEF IsValidSource

LEMMA HandleRequestPendingTypes ==
  ASSUME SorobanAssumption, TypeOK, NEW src \in Nets, NEW k \in Conn,
         NEW req \in Request, HandleRequestPending(src, k, req)
  PROVE  TypeOK'
<1>1. /\ Entries(pendingRequests', Request, SUBSET Conn)
      /\ \A r \in DOMAIN pendingRequests' :
           \/ r = req /\ pendingRequests'[r].val
                           = Sources(pendingRequests, req, k)
           \/ r \in DOMAIN pendingRequests
                /\ pendingRequests'[r] = pendingRequests[r]
  <2>1. Entries(pendingRequests, Request, SUBSET Conn)
    BY Zenon DEF TypeOK
  <2>2. pendingRequests' = StorePending(pendingRequests, req, k)
    BY Zenon DEF HandleRequestPending
  <2>3. Entries(pendingRequests', Request, SUBSET Conn)
    BY <2>1, <2>2, StorePendingTypes, Zenon
  <2>4. \A r \in DOMAIN pendingRequests' :
          \/ r = req /\ pendingRequests'[r].val
                          = Sources(pendingRequests, req, k)
          \/ r \in DOMAIN pendingRequests
               /\ pendingRequests'[r] = pendingRequests[r]
    <3>1. Collected(pendingRequests', pendingRequests, req, k)
      BY <2>2, StorePendingFacts, Zenon
    <3> QED
      BY <3>1, Zenon DEF Collected
  <2> QED
    BY <2>3, <2>4, Zenon
<1>2. req.protocols \in Protocols
  BY Zenon DEF Request
<1>3. k \in Range(req.protocols)
  BY <1>2, IncompleteNamed, Zenon
     DEF HandleRequestPending, RequestValid, Complete
<1>4. Sources(pendingRequests, req, k) \subseteq Range(req.protocols)
  BY <1>3, Zenon DEF Sources, TypeOK
<1>5. \A r \in DOMAIN pendingRequests' :
        pendingRequests'[r].val \subseteq Range(r.protocols)
  BY <1>1, <1>4, Zenon DEF TypeOK
<1>6. heard' \subseteq CSMessage \X Conn
  BY HearTypes, MessagesType, Zenon DEF HandleRequestPending
<1>7. UNCHANGED <<sendVars, reqVars, feeVars, pendingResponses, doneVars,
                  rollVars, defaultConnection, sent>>
  BY Zenon DEF HandleRequestPending
<1> QED
  BY <1>1, <1>5, <1>6, <1>7, Zenon
     DEF TypeOK, sendVars, reqVars, feeVars, doneVars, rollVars

LEMMA HandleRequestTypes ==
  ASSUME SorobanAssumption, TypeOK, NEW src \in Nets, NEW k \in Conn,
         NEW req \in Request, HandleRequest(src, k, req)
  PROVE  TypeOK'
<1>1. /\ Entries(pendingRequests', Request, SUBSET Conn)
      /\ \A r \in DOMAIN pendingRequests' :
           r \in DOMAIN pendingRequests
             /\ pendingRequests'[r] = pendingRequests[r]
  <2>1. Entries(pendingRequests, Request, SUBSET Conn)
    BY Zenon DEF TypeOK
  <2>2. pendingRequests' = Without(pendingRequests, req)
    BY Zenon DEF HandleRequest
  <2>3. Entries(pendingRequests', Request, SUBSET Conn)
    BY <2>1, <2>2, WithoutEntries, Zenon
  <2>4. \A r \in DOMAIN pendingRequests' :
          r \in DOMAIN pendingRequests /\ pendingRequests'[r] = pendingRequests[r]
    BY <2>2, Zenon DEF Without
  <2> QED
    BY <2>3, <2>4, Zenon
<1>2. \A r \in DOMAIN pendingRequests' :
        pendingRequests'[r].val \subseteq Range(r.protocols)
  BY <1>1, Zenon DEF TypeOK
<1>3. heard' \subseteq CSMessage \X Conn
  BY HearTypes, MessagesType, Zenon DEF HandleRequest
<1>4. /\ reqId' \in 0..MaxReqId
      /\ Entries(proxyRequests', 1..reqId', Request)
      /\ admitted' \subseteq (1..reqId') \X Request
      /\ executed \subseteq (1..reqId') \X Request \X Code
      /\ DOMAIN admittedFor' = 1..reqId'
      /\ \A i \in DOMAIN admittedFor' : admittedFor'[i] \in Nat
  BY NewProxyRequestTypes, Zenon DEF HandleRequest
<1>5. UNCHANGED <<sendVars, feeVars, pendingResponses, doneVars, rollVars,
                  defaultConnection, sent>>
  BY Zenon DEF HandleRequest
<1> QED
  BY <1>1, <1>2, <1>3, <1>4, <1>5, Zenon
     DEF TypeOK, sendVars, feeVars, doneVars, rollVars

LEMMA HandleResultPendingTypes ==
  ASSUME SorobanAssumption, TypeOK, NEW k \in Conn, NEW res \in Result,
         HandleResultPending(k, res)
  PROVE  TypeOK'
<1>1. Entries(pendingResponses', Result, SUBSET Conn)
  BY StorePendingTypes, Zenon DEF HandleResultPending, TypeOK
<1>2. heard' \subseteq CSMessage \X Conn
  BY HearTypes, MessagesType, Zenon DEF HandleResultPending
<1>3. UNCHANGED <<sendVars, reqVars, feeVars, pendingRequests, doneVars,
                  rollVars, defaultConnection, sent>>
  BY Zenon DEF HandleResultPending
<1> QED
  BY <1>1, <1>2, <1>3, Zenon
     DEF TypeOK, sendVars, reqVars, feeVars, doneVars, rollVars

LEMMA ResultCompleteTypes ==
  ASSUME SorobanAssumption, TypeOK, NEW k \in Conn, NEW res \in Result,
         ResultComplete(k, res)
  PROVE  /\ Entries(pendingResponses', Result, SUBSET Conn)
         /\ \A r \in DOMAIN pendingResponses' :
              r \in DOMAIN pendingResponses
                /\ pendingResponses'[r] = pendingResponses[r]
         /\ heard' = heard \cup {<<CSResult(res), k>>}
         /\ heard' \subseteq CSMessage \X Conn
         /\ res.sn \in DOMAIN rollbacks /\ res.sn \in 1..sn
         /\ GetRollback(res.sn) \in RollbackData
<1>1. /\ Entries(pendingResponses', Result, SUBSET Conn)
      /\ \A r \in DOMAIN pendingResponses' :
           r \in DOMAIN pendingResponses
             /\ pendingResponses'[r] = pendingResponses[r]
  <2>1. Entries(pendingResponses, Result, SUBSET Conn)
    BY Zenon DEF TypeOK
  <2>2. pendingResponses' = Without(pendingResponses, res)
    BY Zenon DEF ResultComplete
  <2>3. Entries(pendingResponses', Result, SUBSET Conn)
    BY <2>1, <2>2, WithoutEntries, Zenon
  <2>4. \A r \in DOMAIN pendingResponses' :
          r \in DOMAIN pendingResponses /\ pendingResponses'[r] = pendingResponses[r]
    BY <2>2, Zenon DEF Without
  <2> QED
    BY <2>3, <2>4, Zenon
<1>2. heard' = heard \cup {<<CSResult(res), k>>}
      /\ heard' \subseteq CSMessage \X Conn
  BY HearTypes, MessagesType, Zenon DEF ResultComplete
<1>3. /\ res.sn \in DOMAIN rollbacks /\ res.sn \in 1..sn
      /\ GetRollback(res.sn) \in RollbackData
  BY Zenon DEF ResultComplete, ResultValid, TypeOK, Entries, GetRollback
<1> QED
  BY <1>1, <1>2, <1>3, Zenon

LEMMA HandleResultSuccessTypes ==
  ASSUME SorobanAssumption, TypeOK, NEW k \in Conn, NEW res \in Result,
         HandleResultSuccess(k, res)
  PROVE  TypeOK'
<1>1. /\ Entries(pendingResponses', Result, SUBSET Conn)
      /\ heard' \subseteq CSMessage \X Conn
      /\ res.sn \in 1..sn /\ GetRollback(res.sn) \in RollbackData
  BY ResultCompleteTypes, Zenon DEF HandleResultSuccess
<1>2. /\ UNCHANGED <<sendVars, feeVars, pendingRequests, executed, rolledBack,
                     enabledFor, defaultConnection, sent>>
      /\ successfulResponses' = successfulResponses \cup {res.sn}
  BY Zenon DEF HandleResultSuccess
<1>3. Entries(rollbacks', 1..sn, RollbackData)
  BY WithoutEntries, Zenon DEF HandleResultSuccess, RemoveRollback, TypeOK
<1>4. /\ reqId' \in 0..MaxReqId
      /\ Entries(proxyRequests', 1..reqId', Request)
      /\ admitted' \subseteq (1..reqId') \X Request
      /\ executed \subseteq (1..reqId') \X Request \X Code
      /\ DOMAIN admittedFor' = 1..reqId'
      /\ \A i \in DOMAIN admittedFor' : admittedFor'[i] \in Nat
  <2>1. CASE res.reply = None
    BY <2>1, Zenon DEF HandleResultSuccess, reqVars, TypeOK
  <2>2. CASE res.reply # None
    <3>1. PICK req : req = [res.reply EXCEPT !.protocols =
                              GetRollback(res.sn).protocols]
      BY Zenon
    <3>2. res.reply \in Request /\ GetRollback(res.sn).protocols \in Protocols
      BY <1>1, <2>2, Zenon DEF Result, RollbackData
    <3>3. req \in Request
      BY <3>1, <3>2, Zenon DEF Request
    <3>4. NewProxyRequest(req)
      BY <2>2, <3>1, Zenon DEF HandleResultSuccess, HandleReply
    <3> QED
      BY <3>3, <3>4, NewProxyRequestTypes, Zenon
  <2> QED
    BY <2>1, <2>2, Zenon
<1>5. successfulResponses' \subseteq 1..sn
  BY <1>1, <1>2, Zenon DEF TypeOK
<1> QED
  BY <1>1, <1>2, <1>3, <1>4, <1>5, Zenon DEF TypeOK, sendVars, feeVars

LEMMA HandleResultFailureTypes ==
  ASSUME SorobanAssumption, TypeOK, NEW k \in Conn, NEW res \in Result,
         HandleResultFailure(k, res)
  PROVE  TypeOK'
<1>1. /\ Entries(pendingResponses', Result, SUBSET Conn)
      /\ heard' \subseteq CSMessage \X Conn
      /\ res.sn \in 1..sn /\ GetRollback(res.sn) \in RollbackData
  BY ResultCompleteTypes, Zenon DEF HandleResultFailure
<1>2. UNCHANGED <<sendVars, reqVars, feeVars, pendingRequests, doneVars,
                  defaultConnection, sent>>
  BY Zenon DEF HandleResultFailure
<1>3. Entries(rollbacks', 1..sn, RollbackData)
  <2>1. PICK new : new = [GetRollback(res.sn) EXCEPT !.enabled = TRUE]
    BY Zenon
  <2>2. new \in RollbackData
    BY <1>1, <2>1, Zenon DEF RollbackData
  <2>3. rollbacks' = Store(rollbacks, res.sn, new)
    BY <2>1, Zenon DEF HandleResultFailure
  <2> QED
    BY <1>1, <2>2, <2>3, StoreEntries, Zenon DEF TypeOK
<1>4. /\ DOMAIN enabledFor' = DOMAIN enabledFor \cup {res.sn}
      /\ \A s \in DOMAIN enabledFor' :
           enabledFor'[s] = IF s = res.sn THEN 0 ELSE enabledFor[s]
  BY Zenon DEF HandleResultFailure
<1>5. /\ DOMAIN enabledFor' \subseteq 1..sn
      /\ \A s \in DOMAIN enabledFor' : enabledFor'[s] \in Nat
  <2>1. 0 \in Nat
    OBVIOUS
  <2> QED
    BY <1>1, <1>4, <2>1, Zenon DEF TypeOK
<1> QED
  BY <1>1, <1>2, <1>3, <1>5, Zenon
     DEF TypeOK, sendVars, reqVars, feeVars, doneVars

LEMMA ExecuteTypes ==
  ASSUME SorobanAssumption, TypeOK, NEW id \in ReqIds, NEW code \in Code,
         ExecuteOneWay(id, code) \/ ExecuteTwoWay(id, code)
  PROVE  TypeOK'
<1>1. /\ id \in DOMAIN proxyRequests
      /\ proxyRequests' = Without(proxyRequests, id)
      /\ executed' = executed \cup {<<id, proxyRequests[id].val, code>>}
      /\ UNCHANGED <<sendVars, reqId, admitted, admittedFor, feeVars, pendVars,
                     successfulResponses, rolledBack, rollVars,
                     defaultConnection>>
  BY Zenon DEF ExecuteOneWay, ExecuteTwoWay, TakeProxyRequest
<1>2. Entries(proxyRequests', 1..reqId, Request)
  BY <1>1, WithoutEntries, Zenon DEF TypeOK
<1>3. id \in 1..reqId /\ proxyRequests[id].val \in Request
  BY <1>1, Zenon DEF TypeOK, Entries
<1>4. executed' \subseteq (1..reqId) \X Request \X Code
  BY <1>1, <1>3 DEF TypeOK
<1> QED
  BY <1>1, <1>2, <1>4, Zenon
     DEF TypeOK, sendVars, feeVars, pendVars, rollVars

LEMMA ExecuteRollbackTypes ==
  ASSUME SorobanAssumption, TypeOK, NEW s \in Sns, ExecuteRollback(s)
  PROVE  TypeOK'
<1>1. /\ s \in DOMAIN rollbacks
      /\ rollbacks' = Without(rollbacks, s)
      /\ rolledBack' = rolledBack \cup {s}
      /\ UNCHANGED <<sendVars, reqVars, feeVars, pendVars,
                     successfulResponses, executed, enabledFor,
                     defaultConnection, sent>>
  BY Zenon DEF ExecuteRollback, RemoveRollback
<1>2. Entries(rollbacks', 1..sn, RollbackData)
  BY <1>1, WithoutEntries, Zenon DEF TypeOK
<1>3. rolledBack' \subseteq 1..sn
  BY <1>1, Zenon DEF TypeOK, Entries
<1> QED
  BY <1>1, <1>2, <1>3, Zenon DEF TypeOK, sendVars, reqVars, feeVars, pendVars

LEMMA OlderTypes ==
  ASSUME SorobanAssumption, NEW counts,
         \A x \in DOMAIN counts : counts[x] \in Nat
  PROVE  /\ DOMAIN Older(counts) = DOMAIN counts
         /\ \A x \in DOMAIN counts : Older(counts)[x] \in Nat
<1>1. \A n \in Nat : n + 1 \in Nat
  OBVIOUS
<1> QED
  BY <1>1, Zenon DEF Older

LEMMA TickTypes ==
  ASSUME SorobanAssumption, TypeOK, Tick
  PROVE  TypeOK'
<1>1. /\ rollbacks' = Aged(rollbacks)
      /\ proxyRequests' = Aged(proxyRequests)
      /\ pendingRequests' = Aged(pendingRequests)
      /\ pendingResponses' = Aged(pendingResponses)
      /\ enabledFor' = Older(enabledFor)
      /\ admittedFor' = Older(admittedFor)
      /\ UNCHANGED <<sendVars, reqId, admitted, feeVars, heard, doneVars,
                     defaultConnection, sent>>
  BY Zenon DEF Tick
<1>2. /\ Entries(rollbacks', 1..sn, RollbackData)
      /\ Entries(proxyRequests', 1..reqId, Request)
      /\ Entries(pendingRequests', Request, SUBSET Conn)
      /\ Entries(pendingResponses', Result, SUBSET Conn)
  BY <1>1, AgedValues, Zenon DEF TypeOK
<1>3. \A r \in DOMAIN pendingRequests' :
        r \in DOMAIN pendingRequests
          /\ pendingRequests'[r].val = pendingRequests[r].val
  <2>1. Entries(pendingRequests, Request, SUBSET Conn)
    BY Zenon DEF TypeOK
  <2>2. Survivors(pendingRequests', pendingRequests)
    BY <1>1, <2>1, AgedValues, Zenon
  <2> QED
    BY <2>2, Zenon DEF Survivors
<1>4. \A r \in DOMAIN pendingRequests' :
        pendingRequests'[r].val \subseteq Range(r.protocols)
  BY <1>3, Zenon DEF TypeOK
<1>5. /\ DOMAIN enabledFor' = DOMAIN enabledFor
      /\ \A s \in DOMAIN enabledFor' : enabledFor'[s] \in Nat
      /\ DOMAIN admittedFor' = DOMAIN admittedFor
      /\ \A i \in DOMAIN admittedFor' : admittedFor'[i] \in Nat
  BY <1>1, OlderTypes, Zenon DEF TypeOK
<1> QED
  BY <1>1, <1>2, <1>4, <1>5, Zenon DEF TypeOK, sendVars, feeVars, doneVars

LEMMA AdminTypes ==
  ASSUME SorobanAssumption, TypeOK,
         \/ \E net \in Nets, k \in Conn : SetDefaultConnection(net, k)
         \/ \E value \in FeeValues : SetProtocolFee(value)
         \/ \E k \in Conn, f, g \in FeeValues : SetFee(k, f, g)
         \/ UNCHANGED vars
  PROVE  /\ TypeOK'
         /\ UNCHANGED <<sendVars, reqVars, pendVars, doneVars, rollVars>>
<1>1. ASSUME NEW net \in Nets, NEW k \in Conn, SetDefaultConnection(net, k)
      PROVE  /\ TypeOK'
             /\ UNCHANGED <<sendVars, reqVars, pendVars, doneVars, rollVars>>
  <2>1. defaultConnection' \in [Nets -> Conn \cup {None}]
    BY <1>1, Zenon DEF SetDefaultConnection, TypeOK
  <2> QED
    BY <1>1, <2>1, Zenon
       DEF SetDefaultConnection, TypeOK, sendVars, reqVars, feeVars, pendVars,
           doneVars, rollVars
<1>2. ASSUME NEW value \in FeeValues, SetProtocolFee(value)
      PROVE  /\ TypeOK'
             /\ UNCHANGED <<sendVars, reqVars, pendVars, doneVars, rollVars>>
  <2>1. protocolFee' \in Nat
    BY <1>2, Zenon DEF SetProtocolFee, SorobanAssumption
  <2> QED
    BY <1>2, <2>1, Zenon
       DEF SetProtocolFee, TypeOK, sendVars, reqVars, feeVars, pendVars,
           doneVars, rollVars
<1>3. ASSUME NEW k \in Conn, NEW f \in FeeValues, NEW g \in FeeValues,
             SetFee(k, f, g)
      PROVE  /\ TypeOK'
             /\ UNCHANGED <<sendVars, reqVars, pendVars, doneVars, rollVars>>
  <2>1. f \in Nat /\ f + g \in Nat
    BY DEF SorobanAssumption
  <2>2. connFee' \in [Conn -> [BOOLEAN -> Nat]]
    BY <1>3, <2>1, Zenon DEF SetFee, TypeOK
  <2> QED
    BY <1>3, <2>2, Zenon
       DEF SetFee, TypeOK, sendVars, reqVars, feeVars, pendVars, doneVars,
           rollVars
<1>4. CASE UNCHANGED vars
  BY <1>4, Zenon
     DEF vars, TypeOK, sendVars, reqVars, feeVars, pendVars, doneVars,
         rollVars
<1> QED
  BY <1>1, <1>2, <1>3, <1>4, Zenon

\* A step of the contract is one of these.
LEMMA StepKinds ==
  ASSUME SorobanAssumption, [SorobanNext]_vars
  PROVE  \/ \E to \in Nets, o \in Outgoing : SendCall(to, o[1], o[2], o[3])
         \/ \E src \in Nets, k \in Conn, req \in Request :
              HandleRequestPending(src, k, req) \/ HandleRequest(src, k, req)
         \/ \E k \in Conn, res \in Result :
              \/ HandleResultPending(k, res)
              \/ HandleResultSuccess(k, res)
              \/ HandleResultFailure(k, res)
         \/ \E id \in ReqIds, code \in Code :
              ExecuteOneWay(id, code) \/ ExecuteTwoWay(id, code)
         \/ \E s \in Sns : ExecuteRollback(s)
         \/ Tick
         \/ \E net \in Nets, k \in Conn : SetDefaultConnection(net, k)
         \/ \E value \in FeeValues : SetProtocolFee(value)
         \/ \E k \in Conn, f, g \in FeeValues : SetFee(k, f, g)
         \/ UNCHANGED vars
<1>1. ASSUME NEW src \in Nets, NEW k \in Conn, NEW m \in Wire,
             HandleMessage(src, k, m)
      PROVE  \/ \E req \in Request : HandleRequestPending(src, k, req)
                                       \/ HandleRequest(src, k, req)
             \/ \E res \in Result : \/ HandleResultPending(k, res)
                                    \/ HandleResultSuccess(k, res)
                                    \/ HandleResultFailure(k, res)
  BY <1>1, MessageParts, Zenon DEF HandleMessage, SorobanAssumption
<1>2. ASSUME NEW k \in Conn, NEW s \in Sns, HandleError(k, s)
      PROVE  \E res \in Result : HandleResultPending(k, res)
                                   \/ HandleResultFailure(k, res)
  BY <1>2, Zenon DEF HandleError, Result, Code, Failure
<1> QED
  BY <1>1, <1>2, Zenon DEF SorobanNext

LEMMA StepTypes ==
  ASSUME SorobanAssumption, TypeOK, [SorobanNext]_vars
  PROVE  TypeOK'
BY StepKinds, SendCallTypes, HandleRequestPendingTypes, HandleRequestTypes,
   HandleResultPendingTypes, HandleResultSuccessTypes,
   HandleResultFailureTypes, ExecuteTypes, ExecuteRollbackTypes, TickTypes,
   AdminTypes, Zenon

-----------------------------------------------------------------------------
(***************************************************************************)
(* Settlement and admission                                                *)
(***************************************************************************)
\* Entries that are left have the values that they had.
Kept(new, map) ==
  \A x \in DOMAIN new : x \in DOMAIN map /\ new[x].val = map[x].val

LEMMA KeptFacts ==
  /\ \A map : Kept(map, map)
  /\ \A map, key : Kept(Without(map, key), map)
  /\ \A new, map : Survivors(new, map) => Kept(new, map)
BY Zenon DEF Kept, Without, Survivors

LEMMA OpenGrows ==
  ASSUME NEW H, NEW G, H \subseteq G, NEW C, NEW D, NEW s, D[s] = C[s],
         NEW r, Open(H, C, s, r)
  PROVE  Open(G, D, s, r)
BY OneResultGrows, Zenon DEF Open

\* Deliveries do not undo what was settled or admitted.
LEMMA HistoryKept ==
  ASSUME SettleInv, heard \subseteq heard',
         \A s \in successfulResponses \cup rolledBack : calls'[s] = calls[s]
  PROVE  /\ AdmissionEndorsed(heard', admitted)
         /\ SettledOnOneResult(heard', calls', successfulResponses, rolledBack)
BY AdmissionGrows, SettledGrows, Zenon
   DEF SettleInv, RequestsEndorsed, SettlementEndorsed

LEMMA PendingKept ==
  ASSUME PendingHeard, heard \subseteq heard', UNCHANGED <<sn, calls>>,
         Kept(pendingRequests', pendingRequests),
         Kept(pendingResponses', pendingResponses)
  PROVE  PendingHeard'
<1>1. \A r \in DOMAIN pendingRequests' : \A k \in pendingRequests'[r].val :
        <<CSRequest(r), k>> \in heard'
  BY Zenon DEF PendingHeard, Kept
<1>2. \A r \in DOMAIN pendingResponses' :
        /\ r.sn <= sn' /\ calls'[r.sn] # None
        /\ \A k \in pendingResponses'[r].val :
             /\ <<CSResult(r), k>> \in heard'
             /\ k \in Range(calls'[r.sn].protocols)
  BY Zenon DEF PendingHeard, Kept
<1> QED
  BY <1>1, <1>2, Zenon DEF PendingHeard

LEMMA RollbacksKept ==
  ASSUME RollbacksOpen, heard \subseteq heard', UNCHANGED calls,
         Kept(rollbacks', rollbacks)
  PROVE  RollbacksOpen'
<1>1. \A s \in DOMAIN rollbacks' :
        Open(heard', calls', s, rollbacks'[s].val)
  BY OpenGrows, Zenon DEF RollbacksOpen, GetRollback, Kept
<1> QED
  BY <1>1, Zenon DEF RollbacksOpen, GetRollback

\* Steps by which entries only vanish.
LEMMA QuietSettle ==
  ASSUME SettleInv, UNCHANGED <<sn, calls, heard, admitted,
                                successfulResponses, rolledBack>>,
         Kept(rollbacks', rollbacks),
         Kept(pendingRequests', pendingRequests),
         Kept(pendingResponses', pendingResponses)
  PROVE  SettleInv'
<1>1. heard \subseteq heard'
  BY Zenon
<1>2. PendingHeard'
  BY <1>1, PendingKept, Zenon DEF SettleInv
<1>3. RollbacksOpen'
  BY <1>1, RollbacksKept, Zenon DEF SettleInv
<1>4. RequestsEndorsed' /\ SettlementEndorsed'
  BY <1>1, HistoryKept, Zenon DEF RequestsEndorsed, SettlementEndorsed
<1>5. SettledOnce'
  BY Zenon DEF SettleInv, SettledOnce, Kept
<1> QED
  BY <1>2, <1>3, <1>4, <1>5, Zenon DEF SettleInv

LEMMA SendCallSettle ==
  ASSUME SorobanAssumption, TypeOK, SettleInv, NEW to \in Nets,
         NEW o \in Outgoing, SendCall(to, o[1], o[2], o[3])
  PROVE  SettleInv'
<1>1. PICK type, src : type = o[1] /\ src = o[2] /\ src \in Protocols
  BY DEF SorobanAssumption
<1>2. /\ sn + 1 \in Sns /\ ProcessMessage(to, type, src)
      /\ sn' = sn + 1
      /\ UNCHANGED <<pendingRequests, pendingResponses, heard, admitted,
                     successfulResponses, rolledBack>>
  BY <1>1, Zenon DEF SendCall, reqVars, pendVars, doneVars
<1>3. /\ \A s \in DOMAIN rollbacks : rollbacks'[s] = rollbacks[s]
      /\ \A s \in DOMAIN rollbacks' : s \in DOMAIN rollbacks \/
           /\ s = sn + 1
           /\ rollbacks'[s].val =
                [to |-> to, protocols |-> src, enabled |-> FALSE]
           /\ calls'[s] = [to |-> to, protocols |-> src]
           /\ calls'[s] # None
      /\ \A s \in Sns : s # sn + 1 => calls'[s] = calls[s]
  <2>1. CallStored(to, src)
    BY <1>1, <1>2, ProcessTypes, Zenon
  <2> QED
    BY <2>1, Zenon DEF CallStored
<1>4. \A s \in 1..sn : s \in Sns /\ s # sn + 1
  BY XcallAssumption DEF TypeOK, Sns
<1>5. \A s \in successfulResponses \cup rolledBack :
        calls'[s] = calls[s] /\ s # sn + 1
  BY <1>3, <1>4, Zenon DEF TypeOK
<1>6. heard \subseteq heard'
  BY <1>2, Zenon
<1>7. PendingHeard'
  <2>1. ASSUME NEW r \in DOMAIN pendingResponses
        PROVE  r.sn <= sn' /\ calls'[r.sn] = calls[r.sn]
    <3>1. r.sn \in Sns /\ r.sn <= sn
      BY Zenon DEF TypeOK, Entries, Result, SettleInv, PendingHeard
    <3>2. r.sn # sn + 1 /\ r.sn <= sn + 1
      BY <3>1 DEF TypeOK, Sns
    <3> QED
      BY <1>2, <1>3, <3>1, <3>2, Zenon
  <2> QED
    BY <1>2, <2>1, Zenon DEF SettleInv, PendingHeard
<1>8. RollbacksOpen'
  <2>1. ASSUME NEW s \in DOMAIN rollbacks'
        PROVE  Open(heard', calls', s, rollbacks'[s].val)
    <3>1. CASE s \in DOMAIN rollbacks
      <4>1. calls'[s] = calls[s] /\ rollbacks'[s] = rollbacks[s]
        BY <1>3, <1>4, <3>1, Zenon DEF TypeOK, Entries
      <4> QED
        BY <1>6, <3>1, <4>1, OpenGrows, Zenon
           DEF SettleInv, RollbacksOpen, GetRollback
    <3>2. CASE s \notin DOMAIN rollbacks
      <4>1. PICK new, call :
              /\ new = [to |-> to, protocols |-> src, enabled |-> FALSE]
              /\ call = [to |-> to, protocols |-> src]
        BY Zenon
      <4>2. rollbacks'[s].val = new /\ calls'[s] = call /\ calls'[s] # None
        BY <1>3, <3>2, <4>1, Zenon
      <4>3. call.protocols = new.protocols /\ ~new.enabled
        BY <4>1, Zenon
      <4> QED
        BY <4>2, <4>3, Zenon DEF Open
    <3> QED
      BY <3>1, <3>2, Zenon
  <2> QED
    BY <2>1, Zenon DEF RollbacksOpen, GetRollback
<1>9. RequestsEndorsed' /\ SettlementEndorsed'
  BY <1>2, <1>5, <1>6, HistoryKept, Zenon
     DEF RequestsEndorsed, SettlementEndorsed
<1>10. SettledOnce'
  BY <1>2, <1>3, <1>5, Zenon DEF SettleInv, SettledOnce
<1> QED
  BY <1>7, <1>8, <1>9, <1>10, Zenon DEF SettleInv

\* A request that is collected.
LEMMA RequestPendingSettle ==
  ASSUME SorobanAssumption, TypeOK, SettleInv, NEW src \in Nets,
         NEW k \in Conn, NEW req \in Request,
         HandleRequestPending(src, k, req)
  PROVE  SettleInv'
<1>1. /\ heard' = heard \cup {<<CSRequest(req), k>>}
      /\ pendingRequests' = StorePending(pendingRequests, req, k)
      /\ UNCHANGED <<sn, calls, admitted, successfulResponses, rolledBack,
                     rollbacks, pendingResponses>>
  BY Zenon
     DEF HandleRequestPending, Hear, sendVars, reqVars, doneVars, rollVars
<1>2. heard \subseteq heard' /\ <<CSRequest(req), k>> \in heard'
  BY <1>1, Zenon
<1>3. ASSUME NEW r \in DOMAIN pendingRequests',
             NEW q \in pendingRequests'[r].val
      PROVE  <<CSRequest(r), q>> \in heard'
  <2> Collected(pendingRequests', pendingRequests, req, k)
    BY <1>1, StorePendingFacts, Zenon
  <2>1. CASE r = req
    <3>1. q \in Sources(pendingRequests, req, k)
      BY <2>1, Zenon DEF Collected
    <3> QED
      BY <1>2, <2>1, <3>1, Zenon DEF Sources, SettleInv, PendingHeard
  <2>2. CASE r # req
    <3>1. r \in DOMAIN pendingRequests /\ q \in pendingRequests[r].val
      BY <2>2, Zenon DEF Collected
    <3> QED
      BY <1>2, <3>1, Zenon DEF SettleInv, PendingHeard
  <2> QED
    BY <2>1, <2>2, Zenon
<1>4. PendingHeard'
  BY <1>1, <1>2, <1>3, Zenon DEF SettleInv, PendingHeard
<1>5. RollbacksOpen'
  BY <1>1, <1>2, KeptFacts, RollbacksKept, Zenon DEF SettleInv
<1>6. RequestsEndorsed' /\ SettlementEndorsed'
  BY <1>1, <1>2, HistoryKept, Zenon DEF RequestsEndorsed, SettlementEndorsed
<1>7. SettledOnce'
  BY <1>1, Zenon DEF SettleInv, SettledOnce
<1> QED
  BY <1>4, <1>5, <1>6, <1>7, Zenon DEF SettleInv

\* A request that is complete is endorsed.
LEMMA RequestSettle ==
  ASSUME SorobanAssumption, TypeOK, SettleInv, NEW src \in Nets,
         NEW k \in Conn, NEW req \in Request, HandleRequest(src, k, req)
  PROVE  SettleInv'
<1>1. /\ heard' = heard \cup {<<CSRequest(req), k>>}
      /\ pendingRequests' = Without(pendingRequests, req)
      /\ admitted' = admitted \cup {<<reqId + 1, req>>}
      /\ UNCHANGED <<sn, calls, successfulResponses, rolledBack, rollbacks,
                     pendingResponses>>
  BY Zenon DEF HandleRequest, NewProxyRequest, Hear, sendVars, doneVars,
               rollVars
<1>2. heard \subseteq heard' /\ <<CSRequest(req), k>> \in heard'
  BY <1>1, Zenon
<1>3. PICK p, S : p = req.protocols /\ S = Sources(pendingRequests, req, k)
  BY Zenon
<1>4. /\ p \in Protocols /\ k \in S
      /\ k \in Range(p) \/ p = <<>>
      /\ Len(p) > 1 => k \in Range(p)
      /\ Len(p) > 1 => Cardinality(S) = Len(p)
  <2>1. p \in Protocols
    BY <1>3, Zenon DEF Request
  <2>2. IsValidSource(k, src, p)
    BY <1>3, Zenon DEF HandleRequest, RequestValid
  <2> QED
    BY <1>3, <2>1, <2>2, IncompleteNamed, Zenon
       DEF HandleRequest, Complete, Sources
<1>5. Len(p) > 1 => S \subseteq Range(p)
  BY <1>3, <1>4, Zenon DEF Sources, TypeOK
<1>6. \A q \in S : <<CSRequest(req), q>> \in heard'
  BY <1>2, <1>3, Zenon DEF Sources, SettleInv, PendingHeard
<1>7. EndorsedBy(heard', {CSRequest(req)}, p)
  BY <1>4, <1>5, <1>6, CompleteEndorses, Zenon
<1>8. AdmissionEndorsed(heard', {<<reqId + 1, req>>})
  <2>1. <<reqId + 1, req>>[2] = req
    BY Zenon
  <2> QED
    BY <1>3, <1>7, <2>1, Zenon DEF AdmissionEndorsed
<1>9. RequestsEndorsed' /\ SettlementEndorsed'
  <2>1. /\ AdmissionEndorsed(heard', admitted)
        /\ SettledOnOneResult(heard', calls', successfulResponses, rolledBack)
    BY <1>1, <1>2, HistoryKept, Zenon
  <2>2. AdmissionEndorsed(heard', admitted')
    BY <1>1, <1>8, <2>1, Zenon DEF AdmissionEndorsed
  <2> QED
    BY <1>1, <2>1, <2>2, Zenon DEF RequestsEndorsed, SettlementEndorsed
<1>10. PendingHeard'
  BY <1>1, <1>2, KeptFacts, PendingKept, Zenon DEF SettleInv
<1>11. RollbacksOpen'
  BY <1>1, <1>2, KeptFacts, RollbacksKept, Zenon DEF SettleInv
<1>12. SettledOnce'
  BY <1>1, Zenon DEF SettleInv, SettledOnce
<1> QED
  BY <1>9, <1>10, <1>11, <1>12, Zenon DEF SettleInv

\* A result is collected from connections of its call.
LEMMA ResultCollected ==
  ASSUME TypeOK, SettleInv, NEW k \in Conn, NEW res \in Result,
         ResultValid(k, res)
  PROVE  /\ res.sn \in Sns /\ res.sn <= sn /\ calls[res.sn] # None
         /\ GetRollback(res.sn).protocols \in Protocols
         /\ calls[res.sn].protocols = GetRollback(res.sn).protocols
         /\ \/ k \in Range(GetRollback(res.sn).protocols)
            \/ GetRollback(res.sn).protocols = <<>>
         /\ Len(GetRollback(res.sn).protocols) > 1 =>
              /\ k \in Range(GetRollback(res.sn).protocols)
              /\ Sources(pendingResponses, res, k)
                   \subseteq Range(GetRollback(res.sn).protocols)
         /\ \A q \in Sources(pendingResponses, res, k) :
              q = k \/ <<CSResult(res), q>> \in heard
<1>1. PICK s, r, p : s = res.sn /\ r = GetRollback(s) /\ p = r.protocols
  BY Zenon
<1>2. s \in DOMAIN rollbacks /\ s \in Sns /\ s \in 1..sn /\ r \in RollbackData
  BY <1>1, Zenon DEF ResultValid, Result, TypeOK, Entries, GetRollback
<1>3. s <= sn
  BY <1>2 DEF TypeOK
<1>4. calls[s] # None /\ calls[s].protocols = p
  BY <1>1, <1>2, Zenon DEF SettleInv, RollbacksOpen, Open
<1>5. p \in Protocols /\ IsValidSource(k, r.to, p)
  BY <1>1, <1>2, Zenon DEF RollbackData, ResultValid
<1>6. (k \in Range(p) \/ p = <<>>) /\ (Len(p) > 1 => k \in Range(p))
  BY <1>5, IncompleteNamed, Zenon
<1>7. \A q \in Sources(pendingResponses, res, k) :
        q = k \/ (<<CSResult(res), q>> \in heard /\ q \in Range(p))
  BY <1>1, <1>4, Zenon DEF Sources, SettleInv, PendingHeard
<1>8. Len(p) > 1 => Sources(pendingResponses, res, k) \subseteq Range(p)
  BY <1>6, <1>7, Zenon
<1> QED
  BY <1>1, <1>2, <1>3, <1>4, <1>5, <1>6, <1>7, <1>8, Zenon

LEMMA ResultPendingSettle ==
  ASSUME SorobanAssumption, TypeOK, SettleInv, NEW k \in Conn,
         NEW res \in Result, HandleResultPending(k, res)
  PROVE  SettleInv'
<1>1. /\ heard' = heard \cup {<<CSResult(res), k>>}
      /\ pendingResponses' = StorePending(pendingResponses, res, k)
      /\ UNCHANGED <<sn, calls, admitted, successfulResponses, rolledBack,
                     rollbacks, pendingRequests>>
  BY Zenon
     DEF HandleResultPending, Hear, sendVars, reqVars, doneVars, rollVars
<1>2. heard \subseteq heard' /\ <<CSResult(res), k>> \in heard'
  BY <1>1, Zenon
<1>3. ResultValid(k, res) /\ Len(GetRollback(res.sn).protocols) > 1
  BY Zenon DEF HandleResultPending, Complete
<1>4. /\ res.sn <= sn /\ calls[res.sn] # None
      /\ \A q \in Sources(pendingResponses, res, k) :
           /\ q \in Range(calls[res.sn].protocols)
           /\ q = k \/ <<CSResult(res), q>> \in heard
  BY <1>3, ResultCollected, Zenon
<1>5. ASSUME NEW r \in DOMAIN pendingResponses'
      PROVE  /\ r.sn <= sn /\ calls[r.sn] # None
             /\ \A q \in pendingResponses'[r].val :
                  /\ <<CSResult(r), q>> \in heard'
                  /\ q \in Range(calls[r.sn].protocols)
  <2> Collected(pendingResponses', pendingResponses, res, k)
    BY <1>1, StorePendingFacts, Zenon
  <2>1. CASE r = res
    <3>1. pendingResponses'[r].val = Sources(pendingResponses, res, k)
      BY <2>1, Zenon DEF Collected
    <3> QED
      BY <1>2, <1>4, <2>1, <3>1, Zenon
  <2>2. CASE r # res
    <3>1. /\ r \in DOMAIN pendingResponses
          /\ pendingResponses'[r] = pendingResponses[r]
      BY <2>2, Zenon DEF Collected
    <3> QED
      BY <1>2, <3>1, Zenon DEF SettleInv, PendingHeard
  <2> QED
    BY <2>1, <2>2, Zenon
<1>6. PendingHeard'
  BY <1>1, <1>2, <1>5, Zenon DEF SettleInv, PendingHeard
<1>7. RollbacksOpen'
  BY <1>1, <1>2, KeptFacts, RollbacksKept, Zenon DEF SettleInv
<1>8. RequestsEndorsed' /\ SettlementEndorsed'
  BY <1>1, <1>2, HistoryKept, Zenon DEF RequestsEndorsed, SettlementEndorsed
<1>9. SettledOnce'
  BY <1>1, Zenon DEF SettleInv, SettledOnce
<1> QED
  BY <1>6, <1>7, <1>8, <1>9, Zenon DEF SettleInv

\* What settles a call: all its connections delivered that result.
LEMMA ResultCompleteEndorsed ==
  ASSUME SorobanAssumption, TypeOK, SettleInv, NEW k \in Conn,
         NEW res \in Result, ResultComplete(k, res)
  PROVE  /\ heard \subseteq heard' /\ <<CSResult(res), k>> \in heard'
         /\ Kept(pendingResponses', pendingResponses)
         /\ EndorsedBy(heard', {CSResult(res)},
                       GetRollback(res.sn).protocols)
<1>1. /\ heard' = heard \cup {<<CSResult(res), k>>}
      /\ pendingResponses' = Without(pendingResponses, res)
      /\ ResultValid(k, res)
  BY Zenon DEF ResultComplete, Hear
<1>2. heard \subseteq heard' /\ <<CSResult(res), k>> \in heard'
  BY <1>1, Zenon
<1>3. Kept(pendingResponses', pendingResponses)
  BY <1>1, KeptFacts, Zenon
<1>4. PICK p, S : /\ p = GetRollback(res.sn).protocols
                  /\ S = Sources(pendingResponses, res, k)
  BY Zenon
<1>5. /\ p \in Protocols /\ (k \in Range(p) \/ p = <<>>)
      /\ Len(p) > 1 => S \subseteq Range(p)
      /\ \A q \in S : q = k \/ <<CSResult(res), q>> \in heard
  BY <1>1, <1>4, ResultCollected, Zenon
<1>6. k \in S /\ (Len(p) > 1 => Cardinality(S) = Len(p))
  BY <1>4, Zenon DEF ResultComplete, Complete, Sources
<1>7. \A q \in S : <<CSResult(res), q>> \in heard'
  BY <1>2, <1>5, Zenon
<1>8. EndorsedBy(heard', {CSResult(res)}, p)
  BY <1>5, <1>6, <1>7, CompleteEndorses, Zenon
<1> QED
  BY <1>2, <1>3, <1>4, <1>8, Zenon

\* A success: the reply, if any, is endorsed by the result that carries it.
LEMMA ResultSuccessSettle ==
  ASSUME SorobanAssumption, TypeOK, SettleInv, NEW k \in Conn,
         NEW res \in Result, HandleResultSuccess(k, res)
  PROVE  SettleInv'
<1>1. PICK s, p : s = res.sn /\ p = GetRollback(s).protocols
  BY Zenon
<1>2. /\ heard \subseteq heard' /\ <<CSResult(res), k>> \in heard'
      /\ Kept(pendingResponses', pendingResponses)
      /\ EndorsedBy(heard', {CSResult(res)}, p)
  BY <1>1, ResultCompleteEndorsed, Zenon DEF HandleResultSuccess
<1>3. /\ s \in Sns /\ s \in DOMAIN rollbacks /\ calls[s].protocols = p
      /\ p \in Protocols
  <2>1. ResultValid(k, res)
    BY Zenon DEF HandleResultSuccess, ResultComplete
  <2> QED
    BY <1>1, <2>1, ResultCollected, Zenon DEF ResultValid
<1>4. /\ UNCHANGED <<sn, calls, rolledBack, pendingRequests>>
      /\ successfulResponses' = successfulResponses \cup {s}
      /\ rollbacks' = Without(rollbacks, s)
      /\ res.code = Success
  BY <1>1, Zenon DEF HandleResultSuccess, RemoveRollback, sendVars
<1>5. CSResult(res) \in ResultsOf(s, {Success})
  BY <1>1, <1>4, ResultIn, Zenon
<1>6. PendingHeard'
  BY <1>2, <1>4, KeptFacts, PendingKept, Zenon DEF SettleInv
<1>7. RollbacksOpen'
  BY <1>2, <1>4, KeptFacts, RollbacksKept, Zenon DEF SettleInv
<1>8. /\ AdmissionEndorsed(heard', admitted)
      /\ SettledOnOneResult(heard', calls, successfulResponses, rolledBack)
  BY <1>2, <1>4, HistoryKept, Zenon
<1>9. RequestsEndorsed'
  <2>1. CASE res.reply = None
    BY <1>8, <2>1, Zenon DEF HandleResultSuccess, reqVars, RequestsEndorsed
  <2>2. CASE res.reply # None
    <3>1. PICK req : req = [res.reply EXCEPT !.protocols = p]
      BY Zenon
    <3>2. admitted' = admitted \cup {<<reqId + 1, req>>}
      BY <1>1, <2>2, <3>1, Zenon
         DEF HandleResultSuccess, HandleReply, NewProxyRequest
    <3>3. req.protocols = p /\ CSResult(res).payload = res
      BY <2>2, <3>1, Zenon DEF Result, Request, CSResult
    <3>4. PICK h \in heard' : h[1] = CSResult(res)
      <4>1. <<CSResult(res), k>>[1] = CSResult(res)
        BY Zenon
      <4> QED
        BY <1>2, <4>1, Zenon
    <3>5. /\ h[1] \in ResultsOf(s, {Success})
          /\ h[1].payload.reply # None
          /\ [h[1].payload.reply EXCEPT !.protocols = req.protocols] = req
          /\ EndorsedBy(heard', {h[1]}, req.protocols)
      BY <1>2, <1>5, <2>2, <3>1, <3>3, <3>4, Zenon
    <3>6. <<reqId + 1, req>>[2] = req
      BY Zenon
    <3>7. AdmissionEndorsed(heard', {<<reqId + 1, req>>})
      BY <1>3, <3>5, <3>6, Zenon DEF AdmissionEndorsed
    <3>8. AdmissionEndorsed(heard', admitted')
      BY <1>8, <3>2, <3>7, Zenon DEF AdmissionEndorsed
    <3> QED
      BY <3>8, Zenon DEF RequestsEndorsed
  <2> QED
    BY <2>1, <2>2, Zenon
<1>10. SettlementEndorsed'
  <2>1. \E m \in ResultsOf(s, {Success}) :
          EndorsedBy(heard', {m}, calls[s].protocols)
    BY <1>2, <1>3, <1>5, Zenon
  <2>2. SettledOnOneResult(heard', calls, successfulResponses \cup {s},
                           rolledBack)
    BY <1>8, <2>1, Zenon DEF SettledOnOneResult
  <2> QED
    BY <1>4, <2>2, Zenon DEF SettlementEndorsed
<1>11. SettledOnce'
  <2>1. s \notin successfulResponses \cup rolledBack
    BY <1>3, Zenon DEF SettleInv, SettledOnce
  <2>2. \A x : x \in DOMAIN rollbacks' <=> x \in DOMAIN rollbacks /\ x # s
    BY <1>4, Zenon DEF Without
  <2> QED
    BY <1>4, <2>1, <2>2, Zenon DEF SettleInv, SettledOnce
<1> QED
  BY <1>6, <1>7, <1>9, <1>10, <1>11, Zenon DEF SettleInv

\* A failure enables the rollback.
LEMMA ResultFailureSettle ==
  ASSUME SorobanAssumption, TypeOK, SettleInv, NEW k \in Conn,
         NEW res \in Result, HandleResultFailure(k, res)
  PROVE  SettleInv'
<1>1. PICK s, r, p, new : /\ s = res.sn /\ r = GetRollback(s)
                          /\ p = r.protocols
                          /\ new = [r EXCEPT !.enabled = TRUE]
  BY Zenon
<1>2. /\ heard \subseteq heard'
      /\ Kept(pendingResponses', pendingResponses)
      /\ EndorsedBy(heard', {CSResult(res)}, p)
  BY <1>1, ResultCompleteEndorsed, Zenon DEF HandleResultFailure
<1>3. /\ s \in Sns /\ s \in DOMAIN rollbacks /\ calls[s].protocols = p
      /\ calls[s] # None
  <2>1. ResultValid(k, res)
    BY Zenon DEF HandleResultFailure, ResultComplete
  <2> QED
    BY <1>1, <2>1, ResultCollected, Zenon DEF ResultValid
<1>4. /\ UNCHANGED <<sn, calls, rolledBack, successfulResponses, admitted,
                     pendingRequests>>
      /\ rollbacks' = Store(rollbacks, s, new)
      /\ res.code = Failure
  BY <1>1, Zenon DEF HandleResultFailure, sendVars, doneVars, reqVars
<1>5. new.protocols = p
  <2>1. r \in RollbackData
    BY <1>1, <1>3, Zenon DEF TypeOK, Entries, GetRollback
  <2> QED
    BY <1>1, <2>1, Zenon DEF RollbackData
<1>6. Open(heard', calls, s, new)
  <2>1. OneResult(heard', s, Failure, p)
    BY <1>1, <1>2, <1>4, ResultIn, Zenon DEF OneResult
  <2> QED
    BY <1>3, <1>5, <2>1, Zenon DEF Open
<1>7. /\ DOMAIN rollbacks' = DOMAIN rollbacks \cup {s}
      /\ rollbacks'[s].val = new
      /\ \A x \in DOMAIN rollbacks : x # s => rollbacks'[x] = rollbacks[x]
  BY <1>4, Zenon DEF Store
<1>8. RollbacksOpen'
  <2>1. ASSUME NEW x \in DOMAIN rollbacks', x # s
        PROVE  Open(heard', calls, x, rollbacks'[x].val)
    <3>1. x \in DOMAIN rollbacks /\ rollbacks'[x] = rollbacks[x]
      BY <1>7, <2>1, Zenon
    <3> QED
      BY <1>2, <3>1, OpenGrows, Zenon
         DEF SettleInv, RollbacksOpen, GetRollback
  <2> QED
    BY <1>4, <1>6, <1>7, <2>1, Zenon DEF RollbacksOpen, GetRollback
<1>9. PendingHeard'
  BY <1>2, <1>4, KeptFacts, PendingKept, Zenon DEF SettleInv
<1>10. RequestsEndorsed' /\ SettlementEndorsed'
  BY <1>2, <1>4, HistoryKept, Zenon DEF RequestsEndorsed, SettlementEndorsed
<1>11. SettledOnce'
  <2>1. DOMAIN rollbacks' = DOMAIN rollbacks
    BY <1>3, <1>7, Zenon
  <2> QED
    BY <1>4, <2>1, Zenon DEF SettleInv, SettledOnce
<1> QED
  BY <1>8, <1>9, <1>10, <1>11, Zenon DEF SettleInv

\* A rollback runs only if a failure enabled it, and takes it away.
LEMMA ExecuteRollbackSettle ==
  ASSUME TypeOK, SettleInv, NEW s \in Sns, ExecuteRollback(s)
  PROVE  SettleInv'
<1>1. /\ s \in DOMAIN rollbacks /\ GetRollback(s).enabled
      /\ rollbacks' = Without(rollbacks, s)
      /\ rolledBack' = rolledBack \cup {s}
      /\ UNCHANGED <<sn, calls, heard, admitted, successfulResponses,
                     pendingRequests, pendingResponses>>
  BY Zenon DEF ExecuteRollback, RemoveRollback, sendVars, reqVars, pendVars
<1>2. heard \subseteq heard'
  BY <1>1, Zenon
<1>3. PendingHeard'
  BY <1>1, <1>2, KeptFacts, PendingKept, Zenon DEF SettleInv
<1>4. RollbacksOpen'
  BY <1>1, <1>2, KeptFacts, RollbacksKept, Zenon DEF SettleInv
<1>5. RequestsEndorsed'
  BY <1>1, Zenon DEF SettleInv, RequestsEndorsed
<1>6. SettlementEndorsed'
  <2>1. OneResult(heard, s, Failure, calls[s].protocols)
    BY <1>1, Zenon DEF SettleInv, RollbacksOpen, Open
  <2>2. SettledOnOneResult(heard, calls, successfulResponses,
                           rolledBack \cup {s})
    BY <2>1, Zenon
       DEF SettleInv, SettlementEndorsed, SettledOnOneResult, OneResult
  <2> QED
    BY <1>1, <2>2, Zenon DEF SettlementEndorsed
<1>7. SettledOnce'
  <2>1. s \notin successfulResponses \cup rolledBack
    BY <1>1, Zenon DEF SettleInv, SettledOnce
  <2>2. \A x : x \in DOMAIN rollbacks' <=> x \in DOMAIN rollbacks /\ x # s
    BY <1>1, Zenon DEF Without
  <2> QED
    BY <1>1, <2>1, <2>2, Zenon DEF SettleInv, SettledOnce
<1> QED
  BY <1>3, <1>4, <1>5, <1>6, <1>7, Zenon DEF SettleInv

LEMMA StepSettles ==
  ASSUME SorobanAssumption, TypeOK, SettleInv, [SorobanNext]_vars
  PROVE  SettleInv'
<1>1. ASSUME NEW id \in ReqIds, NEW code \in Code,
             ExecuteOneWay(id, code) \/ ExecuteTwoWay(id, code)
      PROVE  SettleInv'
  <2>1. UNCHANGED <<sn, calls, heard, admitted, successfulResponses,
                    rolledBack, rollbacks, pendingRequests, pendingResponses>>
    BY <1>1, Zenon
       DEF ExecuteOneWay, ExecuteTwoWay, sendVars, pendVars, rollVars
  <2> QED
    BY <2>1, KeptFacts, QuietSettle, Zenon
<1>2. CASE Tick
  <2>1. /\ Survivors(rollbacks', rollbacks)
        /\ Survivors(pendingRequests', pendingRequests)
        /\ Survivors(pendingResponses', pendingResponses)
    BY <1>2, AgedValues, Zenon DEF Tick, TypeOK
  <2>2. UNCHANGED <<sn, calls, heard, admitted, successfulResponses,
                    rolledBack>>
    BY <1>2, Zenon DEF Tick, sendVars, doneVars
  <2> QED
    BY <2>1, <2>2, KeptFacts, QuietSettle, Zenon
<1>3. CASE UNCHANGED <<sendVars, reqVars, pendVars, doneVars, rollVars>>
  <2>1. UNCHANGED <<sn, calls, heard, admitted, successfulResponses,
                    rolledBack, rollbacks, pendingRequests, pendingResponses>>
    BY <1>3, Zenon DEF sendVars, reqVars, pendVars, doneVars, rollVars
  <2> QED
    BY <2>1, KeptFacts, QuietSettle, Zenon
<1> QED
  BY <1>1, <1>2, <1>3, StepKinds, AdminTypes, SendCallSettle,
     RequestPendingSettle, RequestSettle, ResultPendingSettle,
     ResultSuccessSettle, ResultFailureSettle, ExecuteRollbackSettle, Zenon

-----------------------------------------------------------------------------
(***************************************************************************)
(* Time to act                                                             *)
(***************************************************************************)
\* An entry with more than the threshold to go, counting the time users have
\* had, outlives a tick of that time.
LEMMA TickKeeps ==
  ASSUME SorobanAssumption, NEW K, NEW V, NEW map, Entries(map, K, V),
         NEW key \in DOMAIN map, NEW counts,
         \A x \in DOMAIN counts : counts[x] \in Nat,
         key \in DOMAIN counts,
         Older(counts)[key] < LEDGER_THRESHOLD_REQUEST,
         counts[key] < LEDGER_THRESHOLD_REQUEST =>
           map[key].ttl + counts[key] > LEDGER_THRESHOLD_REQUEST
  PROVE  /\ key \in DOMAIN Aged(map)
         /\ Aged(map)[key].val = map[key].val
         /\ Aged(map)[key].ttl + Older(counts)[key] > LEDGER_THRESHOLD_REQUEST
<1>1. PICK n, t, T : /\ n = counts[key] /\ t = map[key].ttl
                     /\ T = LEDGER_THRESHOLD_REQUEST
  BY Zenon
<1>2. n \in Nat /\ T \in Nat
  BY <1>1, Thresholds, Zenon
<1>3. map[key] \in [val : V, ttl : 1..LEDGER_BUMP_REQUEST]
  BY Zenon DEF Entries
<1>4. t \in 1..LEDGER_BUMP_REQUEST
  BY <1>1, <1>3, Zenon
<1>5. t \in Nat /\ t >= 1
  BY <1>4, Thresholds
<1>6. Older(counts)[key] = IF n < T THEN n + 1 ELSE n
  BY <1>1, Zenon DEF Older
<1>7. n < T /\ Older(counts)[key] = n + 1 /\ n + 1 < T
  BY <1>1, <1>2, <1>6
<1>8. t + n > T
  BY <1>1, <1>7
<1>9. t > 1 /\ (t - 1) + (n + 1) > T
  BY <1>2, <1>5, <1>7, <1>8
<1>10. key \in DOMAIN Aged(map)
         /\ Aged(map)[key] = [map[key] EXCEPT !.ttl = @ - 1]
  BY <1>1, <1>9, Zenon DEF Aged
<1>11. Aged(map)[key].val = map[key].val /\ Aged(map)[key].ttl = t - 1
  BY <1>1, <1>3, <1>10, Zenon
<1> QED
  BY <1>1, <1>7, <1>9, <1>10, <1>11, Zenon

\* Rollbacks that wait are kept unless they are settled.
LEMMA RollbackTimeKept ==
  ASSUME RollbackTime, UNCHANGED enabledFor,
         successfulResponses \subseteq successfulResponses',
         rolledBack \subseteq rolledBack',
         \A s \in DOMAIN rollbacks : s \in DOMAIN enabledFor =>
           \/ s \in successfulResponses' \cup rolledBack'
           \/ s \in DOMAIN rollbacks' /\ rollbacks'[s] = rollbacks[s]
  PROVE  RollbackTime'
<1> SUFFICES ASSUME NEW s \in DOMAIN enabledFor',
                    enabledFor'[s] < LEDGER_THRESHOLD_REQUEST
             PROVE  \/ s \in successfulResponses' \cup rolledBack'
                    \/ /\ s \in DOMAIN rollbacks' /\ rollbacks'[s].val.enabled
                       /\ rollbacks'[s].ttl + enabledFor'[s]
                            > LEDGER_THRESHOLD_REQUEST
  BY Zenon DEF RollbackTime, GetRollback
<1>1. \/ s \in successfulResponses \cup rolledBack
      \/ /\ s \in DOMAIN rollbacks /\ rollbacks[s].val.enabled
         /\ rollbacks[s].ttl + enabledFor[s] > LEDGER_THRESHOLD_REQUEST
  BY Zenon DEF RollbackTime, GetRollback
<1> QED
  BY <1>1, Zenon

\* A failure gives the full time, whatever is left of the rollback's.
LEMMA FailureTime ==
  ASSUME SorobanAssumption, TypeOK, RollbackTime, NEW k \in Conn,
         NEW res \in Result, HandleResultFailure(k, res)
  PROVE  RollbackTime'
<1>1. PICK s, new : /\ s = res.sn
                    /\ new = [GetRollback(s) EXCEPT !.enabled = TRUE]
  BY Zenon
<1>2. GetRollback(s) \in RollbackData
  BY <1>1, ResultCompleteTypes, Zenon DEF HandleResultFailure
<1>3. new.enabled
  BY <1>1, <1>2, Zenon DEF RollbackData
<1>4. /\ rollbacks' = Store(rollbacks, s, new)
      /\ enabledFor' = [x \in DOMAIN enabledFor \cup {s} |->
                          IF x = s THEN 0 ELSE enabledFor[x]]
      /\ UNCHANGED <<successfulResponses, rolledBack>>
  BY <1>1, Zenon DEF HandleResultFailure, doneVars
<1>5. /\ DOMAIN rollbacks' = DOMAIN rollbacks \cup {s}
      /\ rollbacks'[s].val = new
      /\ rollbacks'[s].ttl = Extend(rollbacks, s)
      /\ \A x \in DOMAIN rollbacks : x # s => rollbacks'[x] = rollbacks[x]
  BY <1>4, Zenon DEF Store
<1>6. PICK t : t = Extend(rollbacks, s)
  BY Zenon
<1>7. t \in 1..LEDGER_BUMP_REQUEST /\ t > LEDGER_THRESHOLD_REQUEST
  BY <1>6, ExtendFacts, Zenon DEF TypeOK
<1>8. t + 0 > LEDGER_THRESHOLD_REQUEST
  <2>1. t \in Nat
    BY <1>7, Thresholds
  <2> QED
    BY <1>7, <2>1, Thresholds
<1>9. ASSUME NEW x \in DOMAIN enabledFor', x # s,
             enabledFor'[x] < LEDGER_THRESHOLD_REQUEST
      PROVE  \/ x \in successfulResponses \cup rolledBack
             \/ /\ x \in DOMAIN rollbacks' /\ rollbacks'[x].val.enabled
                /\ rollbacks'[x].ttl + enabledFor'[x]
                     > LEDGER_THRESHOLD_REQUEST
  <2>1. x \in DOMAIN enabledFor /\ enabledFor'[x] = enabledFor[x]
    BY <1>4, <1>9, Zenon
  <2>2. \/ x \in successfulResponses \cup rolledBack
        \/ /\ x \in DOMAIN rollbacks /\ rollbacks[x].val.enabled
           /\ rollbacks[x].ttl + enabledFor[x] > LEDGER_THRESHOLD_REQUEST
    BY <1>9, <2>1, Zenon DEF RollbackTime, GetRollback
  <2> QED
    BY <1>5, <1>9, <2>1, <2>2, Zenon
<1>10. enabledFor'[s] = 0
  BY <1>4, Zenon
<1>11. /\ s \in DOMAIN rollbacks' /\ rollbacks'[s].val.enabled
       /\ rollbacks'[s].ttl + enabledFor'[s] > LEDGER_THRESHOLD_REQUEST
  BY <1>3, <1>5, <1>6, <1>8, <1>10, Zenon
<1> QED
  BY <1>4, <1>9, <1>11, Zenon DEF RollbackTime, GetRollback

LEMMA TickTime ==
  ASSUME SorobanAssumption, TypeOK, RollbackTime, RequestTime, Tick
  PROVE  RollbackTime' /\ RequestTime'
<1>1. /\ rollbacks' = Aged(rollbacks) /\ proxyRequests' = Aged(proxyRequests)
      /\ enabledFor' = Older(enabledFor) /\ admittedFor' = Older(admittedFor)
      /\ UNCHANGED <<successfulResponses, rolledBack, executed>>
  BY Zenon DEF Tick, doneVars
<1>2. /\ Entries(rollbacks, 1..sn, RollbackData)
      /\ Entries(proxyRequests, 1..reqId, Request)
      /\ \A x \in DOMAIN enabledFor : enabledFor[x] \in Nat
      /\ \A x \in DOMAIN admittedFor : admittedFor[x] \in Nat
  BY Zenon DEF TypeOK
<1>3. /\ DOMAIN enabledFor' = DOMAIN enabledFor
      /\ DOMAIN admittedFor' = DOMAIN admittedFor
  BY <1>1, Zenon DEF Older
<1>4. ASSUME NEW counts, \A x \in DOMAIN counts : counts[x] \in Nat,
             NEW key \in DOMAIN counts,
             Older(counts)[key] < LEDGER_THRESHOLD_REQUEST
      PROVE  counts[key] < LEDGER_THRESHOLD_REQUEST
  <2>1. Older(counts)[key] = IF counts[key] < LEDGER_THRESHOLD_REQUEST
                             THEN counts[key] + 1 ELSE counts[key]
    BY <1>4, Zenon DEF Older
  <2> QED
    BY <1>4, <2>1, Zenon
<1>5. ASSUME NEW s \in DOMAIN enabledFor',
             enabledFor'[s] < LEDGER_THRESHOLD_REQUEST
      PROVE  \/ s \in successfulResponses' \cup rolledBack'
             \/ /\ s \in DOMAIN rollbacks' /\ rollbacks'[s].val.enabled
                /\ rollbacks'[s].ttl + enabledFor'[s]
                     > LEDGER_THRESHOLD_REQUEST
  <2>1. s \in DOMAIN enabledFor /\ enabledFor[s] < LEDGER_THRESHOLD_REQUEST
    BY <1>1, <1>2, <1>3, <1>4, <1>5, Zenon
  <2>2. \/ s \in successfulResponses \cup rolledBack
        \/ /\ s \in DOMAIN rollbacks /\ rollbacks[s].val.enabled
           /\ rollbacks[s].ttl + enabledFor[s] > LEDGER_THRESHOLD_REQUEST
    BY <2>1, Zenon DEF RollbackTime, GetRollback
  <2>3. CASE s \in successfulResponses \cup rolledBack
    BY <1>1, <2>3, Zenon
  <2>4. CASE /\ s \in DOMAIN rollbacks /\ rollbacks[s].val.enabled
             /\ rollbacks[s].ttl + enabledFor[s] > LEDGER_THRESHOLD_REQUEST
    <3>1. /\ s \in DOMAIN Aged(rollbacks)
          /\ Aged(rollbacks)[s].val = rollbacks[s].val
          /\ Aged(rollbacks)[s].ttl + Older(enabledFor)[s]
               > LEDGER_THRESHOLD_REQUEST
      BY <1>1, <1>2, <1>5, <2>1, <2>4, TickKeeps, Zenon
    <3> QED
      BY <1>1, <2>4, <3>1, Zenon
  <2> QED
    BY <2>2, <2>3, <2>4, Zenon
<1>6. RollbackTime'
  BY <1>5, Zenon DEF RollbackTime, GetRollback
<1>7. \A x \in executed' : x[1] \notin DOMAIN proxyRequests'
  BY <1>1, Zenon DEF RequestTime, Aged
<1>8. ASSUME NEW i \in DOMAIN admittedFor',
             admittedFor'[i] < LEDGER_THRESHOLD_REQUEST
      PROVE  \/ \E x \in executed' : x[1] = i
             \/ /\ i \in DOMAIN proxyRequests'
                /\ proxyRequests'[i].ttl + admittedFor'[i]
                     > LEDGER_THRESHOLD_REQUEST
  <2>1. i \in DOMAIN admittedFor /\ admittedFor[i] < LEDGER_THRESHOLD_REQUEST
    BY <1>1, <1>2, <1>3, <1>4, <1>8, Zenon
  <2>2. \/ \E x \in executed : x[1] = i
        \/ /\ i \in DOMAIN proxyRequests
           /\ proxyRequests[i].ttl + admittedFor[i] > LEDGER_THRESHOLD_REQUEST
    BY <2>1, Zenon DEF RequestTime
  <2>3. CASE \E x \in executed : x[1] = i
    BY <1>1, <2>3, Zenon
  <2>4. CASE /\ i \in DOMAIN proxyRequests
             /\ proxyRequests[i].ttl + admittedFor[i]
                  > LEDGER_THRESHOLD_REQUEST
    BY <1>1, <1>2, <1>8, <2>1, <2>4, TickKeeps, Zenon
  <2> QED
    BY <2>2, <2>3, <2>4, Zenon
<1>9. RequestTime'
  BY <1>7, <1>8, Zenon DEF RequestTime
<1> QED
  BY <1>6, <1>9, Zenon

LEMMA RollbackTimeStep ==
  ASSUME SorobanAssumption, TypeOK, RollbackTime, RequestTime,
         [SorobanNext]_vars
  PROVE  RollbackTime'
<1>1. ASSUME NEW to \in Nets, NEW o \in Outgoing,
             SendCall(to, o[1], o[2], o[3])
      PROVE  RollbackTime'
  <2>1. /\ UNCHANGED <<enabledFor, successfulResponses, rolledBack>>
        /\ ProcessMessage(to, o[1], o[2])
    BY <1>1, Zenon DEF SendCall, doneVars
  <2>2. sn + 1 \notin 1..sn
    <3>1. sn \in Int
      BY XcallAssumption DEF TypeOK
    <3> QED
      BY <3>1
  <2>3. sn + 1 \notin DOMAIN rollbacks
    BY <2>2, Zenon DEF TypeOK, Entries
  <2>4. \A s \in DOMAIN rollbacks :
          s \in DOMAIN rollbacks' /\ rollbacks'[s] = rollbacks[s]
    <3>1. CASE UNCHANGED rollbacks
      BY <3>1, Zenon
    <3>2. ASSUME NEW r, rollbacks' = Store(rollbacks, sn + 1, r)
          PROVE  \A s \in DOMAIN rollbacks :
                   s \in DOMAIN rollbacks' /\ rollbacks'[s] = rollbacks[s]
      BY <2>3, <3>2, Zenon DEF Store
    <3> QED
      BY <2>1, <3>1, <3>2, Zenon DEF ProcessMessage
  <2> QED
    BY <2>1, <2>4, RollbackTimeKept, Zenon
<1>2. CASE UNCHANGED <<enabledFor, successfulResponses, rolledBack, rollbacks>>
  BY <1>2, RollbackTimeKept, Zenon
<1>3. ASSUME NEW src \in Nets, NEW k \in Conn, NEW req \in Request,
             HandleRequestPending(src, k, req) \/ HandleRequest(src, k, req)
      PROVE  RollbackTime'
  BY <1>2, <1>3, Zenon
     DEF HandleRequestPending, HandleRequest, doneVars, rollVars
<1>4. ASSUME NEW k \in Conn, NEW res \in Result, HandleResultPending(k, res)
      PROVE  RollbackTime'
  BY <1>2, <1>4, Zenon DEF HandleResultPending, doneVars, rollVars
<1>5. ASSUME NEW id \in ReqIds, NEW code \in Code,
             ExecuteOneWay(id, code) \/ ExecuteTwoWay(id, code)
      PROVE  RollbackTime'
  BY <1>2, <1>5, Zenon DEF ExecuteOneWay, ExecuteTwoWay, rollVars
<1>6. ASSUME NEW s \in Sns, UNCHANGED enabledFor,
             rollbacks' = Without(rollbacks, s),
             successfulResponses \subseteq successfulResponses',
             rolledBack \subseteq rolledBack',
             s \in successfulResponses' \cup rolledBack'
      PROVE  RollbackTime'
  <2>1. \A x \in DOMAIN rollbacks :
          x # s => x \in DOMAIN rollbacks' /\ rollbacks'[x] = rollbacks[x]
    BY <1>6, Zenon DEF Without
  <2> QED
    BY <1>6, <2>1, RollbackTimeKept, Zenon
<1>7. ASSUME NEW k \in Conn, NEW res \in Result, HandleResultSuccess(k, res)
      PROVE  RollbackTime'
  BY <1>6, <1>7, Zenon DEF HandleResultSuccess, RemoveRollback, Result
<1>8. ASSUME NEW s \in Sns, ExecuteRollback(s)
      PROVE  RollbackTime'
  BY <1>6, <1>8, Zenon DEF ExecuteRollback, RemoveRollback
<1>9. CASE UNCHANGED <<sendVars, reqVars, pendVars, doneVars, rollVars>>
  BY <1>2, <1>9, Zenon DEF doneVars, rollVars
<1> QED
  BY <1>1, <1>3, <1>4, <1>5, <1>7, <1>8, <1>9, StepKinds, AdminTypes,
     FailureTime, TickTime, Zenon

\* A request that is admitted has its full time.
LEMMA NewRequestTime ==
  ASSUME SorobanAssumption, TypeOK, RequestTime, NEW req \in Request,
         NewProxyRequest(req), UNCHANGED executed
  PROVE  RequestTime'
<1>1. PICK n, t : n = reqId + 1 /\ t = proxyRequests'[n].ttl
  BY Zenon
<1>2. /\ n \notin 1..reqId
      /\ DOMAIN proxyRequests' = DOMAIN proxyRequests \cup {n}
      /\ Entries(proxyRequests', 1..reqId', Request)
      /\ t > LEDGER_THRESHOLD_REQUEST
      /\ \A i \in DOMAIN proxyRequests :
           proxyRequests'[i] = proxyRequests[i]
      /\ admittedFor'[n] = 0
      /\ \A i \in 1..reqId : admittedFor'[i] = admittedFor[i]
  BY <1>1, NewProxyRequestTypes, Zenon
<1>3. DOMAIN admittedFor' = 1..n /\ DOMAIN admittedFor = 1..reqId
  BY <1>1, Zenon DEF NewProxyRequest, TypeOK
<1>4. \A i \in 1..n : i = n \/ i \in 1..reqId
  <2>1. reqId \in Int
    BY XcallAssumption DEF TypeOK
  <2> QED
    BY <1>1, <2>1
<1>5. t + 0 > LEDGER_THRESHOLD_REQUEST
  <2>1. n \in DOMAIN proxyRequests'
    BY <1>2, Zenon
  <2>2. proxyRequests'[n] \in [val : Request, ttl : 1..LEDGER_BUMP_REQUEST]
    BY <1>2, <2>1, Zenon DEF Entries
  <2>3. t \in 1..LEDGER_BUMP_REQUEST
    BY <1>1, <2>2, Zenon
  <2>4. t \in Nat
    BY <2>3, Thresholds
  <2> QED
    BY <1>2, <2>4, Thresholds
<1>6. \A x \in executed : x[1] \in 1..reqId
  BY Zenon DEF TypeOK
<1>7. \A x \in executed : x[1] \notin DOMAIN proxyRequests'
  BY <1>2, <1>6, Zenon DEF RequestTime
<1>8. ASSUME NEW i \in 1..reqId, admittedFor'[i] < LEDGER_THRESHOLD_REQUEST
      PROVE  \/ \E x \in executed : x[1] = i
             \/ /\ i \in DOMAIN proxyRequests'
                /\ proxyRequests'[i].ttl + admittedFor'[i]
                     > LEDGER_THRESHOLD_REQUEST
  <2>1. admittedFor'[i] = admittedFor[i] /\ i \in DOMAIN admittedFor
    BY <1>2, <1>3, Zenon
  <2>2. \/ \E x \in executed : x[1] = i
        \/ /\ i \in DOMAIN proxyRequests
           /\ proxyRequests[i].ttl + admittedFor[i] > LEDGER_THRESHOLD_REQUEST
    BY <1>8, <2>1, Zenon DEF RequestTime
  <2> QED
    BY <1>2, <2>1, <2>2, Zenon
<1>9. /\ n \in DOMAIN proxyRequests'
      /\ proxyRequests'[n].ttl + admittedFor'[n] > LEDGER_THRESHOLD_REQUEST
  BY <1>1, <1>2, <1>5, Zenon
<1> QED
  BY <1>3, <1>4, <1>7, <1>8, <1>9, Zenon DEF RequestTime

\* A request that is executed is gone for good.
LEMMA TakeTime ==
  ASSUME RequestTime, NEW id, NEW code, TakeProxyRequest(id, code),
         UNCHANGED admittedFor
  PROVE  RequestTime'
<1>1. PICK y : y = <<id, proxyRequests[id].val, code>>
  BY Zenon
<1>2. /\ proxyRequests' = Without(proxyRequests, id)
      /\ executed' = executed \cup {y} /\ y[1] = id
  BY <1>1, Zenon DEF TakeProxyRequest
<1>3. /\ DOMAIN proxyRequests' = DOMAIN proxyRequests \ {id}
      /\ \A i \in DOMAIN proxyRequests :
           i # id => proxyRequests'[i] = proxyRequests[i]
  BY <1>2, Zenon DEF Without
<1>4. \A x \in executed' : x[1] \notin DOMAIN proxyRequests'
  BY <1>2, <1>3, Zenon DEF RequestTime
<1>5. ASSUME NEW i \in DOMAIN admittedFor,
             admittedFor[i] < LEDGER_THRESHOLD_REQUEST
      PROVE  \/ \E x \in executed' : x[1] = i
             \/ /\ i \in DOMAIN proxyRequests'
                /\ proxyRequests'[i].ttl + admittedFor[i]
                     > LEDGER_THRESHOLD_REQUEST
  <2>1. \/ \E x \in executed : x[1] = i
        \/ /\ i \in DOMAIN proxyRequests
           /\ proxyRequests[i].ttl + admittedFor[i] > LEDGER_THRESHOLD_REQUEST
    BY <1>5, Zenon DEF RequestTime
  <2>2. CASE i = id
    BY <1>2, <2>2, Zenon
  <2>3. CASE i # id
    BY <1>2, <1>3, <2>1, <2>3, Zenon
  <2> QED
    BY <2>2, <2>3, Zenon
<1> QED
  BY <1>4, <1>5, Zenon DEF RequestTime

LEMMA RequestTimeStep ==
  ASSUME SorobanAssumption, TypeOK, RollbackTime, RequestTime,
         [SorobanNext]_vars
  PROVE  RequestTime'
<1>1. CASE UNCHANGED <<executed, proxyRequests, admittedFor>>
  BY <1>1, Zenon DEF RequestTime
<1>2. ASSUME NEW to \in Nets, NEW o \in Outgoing,
             SendCall(to, o[1], o[2], o[3])
      PROVE  RequestTime'
  BY <1>1, <1>2, Zenon DEF SendCall, reqVars, doneVars
<1>3. ASSUME NEW src \in Nets, NEW k \in Conn, NEW req \in Request,
             HandleRequestPending(src, k, req) \/ HandleRequest(src, k, req)
      PROVE  RequestTime'
  BY <1>1, <1>3, NewRequestTime, Zenon
     DEF HandleRequestPending, HandleRequest, reqVars, doneVars
<1>4. ASSUME NEW k \in Conn, NEW res \in Result,
             HandleResultPending(k, res) \/ HandleResultFailure(k, res)
      PROVE  RequestTime'
  BY <1>1, <1>4, Zenon
     DEF HandleResultPending, HandleResultFailure, reqVars, doneVars
<1>5. ASSUME NEW k \in Conn, NEW res \in Result, HandleResultSuccess(k, res)
      PROVE  RequestTime'
  <2>1. CASE res.reply = None
    BY <1>1, <1>5, <2>1, Zenon DEF HandleResultSuccess, reqVars
  <2>2. CASE res.reply # None
    <3>1. PICK r : r = GetRollback(res.sn)
      BY Zenon
    <3>2. r.protocols \in Protocols
      <4>1. r \in RollbackData
        BY <1>5, <3>1, ResultCompleteTypes, Zenon DEF HandleResultSuccess
      <4> QED
        BY <4>1, Zenon DEF RollbackData
    <3>3. [res.reply EXCEPT !.protocols = r.protocols] \in Request
      BY <2>2, <3>2, Zenon DEF Result, Request
    <3>4. /\ NewProxyRequest([res.reply EXCEPT !.protocols = r.protocols])
          /\ UNCHANGED executed
      BY <1>5, <2>2, <3>1, Zenon DEF HandleResultSuccess, HandleReply
    <3> QED
      BY <3>3, <3>4, NewRequestTime, Zenon
  <2> QED
    BY <2>1, <2>2, Zenon
<1>6. ASSUME NEW id \in ReqIds, NEW code \in Code,
             ExecuteOneWay(id, code) \/ ExecuteTwoWay(id, code)
      PROVE  RequestTime'
  BY <1>6, TakeTime, Zenon DEF ExecuteOneWay, ExecuteTwoWay
<1>7. ASSUME NEW s \in Sns, ExecuteRollback(s)
      PROVE  RequestTime'
  BY <1>1, <1>7, Zenon DEF ExecuteRollback, reqVars
<1>8. CASE UNCHANGED <<sendVars, reqVars, pendVars, doneVars, rollVars>>
  BY <1>1, <1>8, Zenon DEF reqVars, doneVars
<1> QED
  BY <1>2, <1>3, <1>4, <1>5, <1>6, <1>7, <1>8, StepKinds, AdminTypes,
     TickTime, Zenon

-----------------------------------------------------------------------------
(***************************************************************************)
(* The theorems                                                            *)
(***************************************************************************)
LEMMA SorobanInvInit ==
  ASSUME SorobanAssumption, SorobanInit
  PROVE  SorobanInv
<1>1. DOMAIN Empty = {}
  BY DEF Empty
<1>2. TypeOK
  <2>1. 0 \in 0..MaxSn /\ 0 \in 0..MaxReqId /\ 0 \in Nat /\ 1..0 = {}
    BY XcallAssumption
  <2>2. \A K, V : Entries(Empty, K, V)
    BY <1>1, Zenon DEF Entries
  <2> QED
    BY <1>1, <2>1, <2>2, Zenon DEF SorobanInit, TypeOK
<1>3. SettleInv
  BY <1>1, Zenon
     DEF SorobanInit, SettleInv, PendingHeard, RollbacksOpen,
         RequestsEndorsed, AdmissionEndorsed, SettlementEndorsed,
         SettledOnOneResult, SettledOnce
<1>4. RollbackTime /\ RequestTime
  BY <1>1, Zenon DEF SorobanInit, RollbackTime, RequestTime
<1> QED
  BY <1>2, <1>3, <1>4, Zenon DEF SorobanInv

LEMMA SorobanInvStep ==
  ASSUME SorobanAssumption, SorobanInv, [SorobanNext]_vars
  PROVE  SorobanInv'
<1>1. TypeOK /\ SettleInv /\ RollbackTime /\ RequestTime
  BY Zenon DEF SorobanInv
<1>2. TypeOK'
  BY <1>1, StepTypes, Zenon
<1>3. SettleInv'
  BY <1>1, StepSettles, Zenon
<1>4. RollbackTime'
  BY <1>1, RollbackTimeStep, Zenon
<1>5. RequestTime'
  BY <1>1, RequestTimeStep, Zenon
<1> QED
  BY <1>2, <1>3, <1>4, <1>5, Zenon DEF SorobanInv

LEMMA SorobanInvAlways ==
  ASSUME SorobanAssumption
  PROVE  SorobanSpec => []SorobanInv
<1>1. SorobanInit => SorobanInv
  BY SorobanInvInit, Zenon
<1>2. SorobanInv /\ [SorobanNext]_vars => SorobanInv'
  BY SorobanInvStep, Zenon
<1> QED
  BY <1>1, <1>2, PTL DEF SorobanSpec

\* What the invariant gives.
LEMMA SorobanInvGives ==
  ASSUME SorobanInv
  PROVE  /\ TypeOK
         /\ RequestsEndorsed
         /\ SettlementEndorsed
         /\ SettledOnce
         /\ TimeToAct
<1>1. TimeToAct
  BY Zenon DEF SorobanInv, RollbackTime, RequestTime, TimeToAct
<1> QED
  BY <1>1, Zenon DEF SorobanInv, SettleInv

\* No temporary entry of the contract is ever overdue, and only connections of
\* its list wait on a request, whatever expires and is stored again.
THEOREM SorobanWellTyped ==
  ASSUME SorobanAssumption
  PROVE  SorobanSpec => []TypeOK
<1>1. SorobanInv => TypeOK
  BY SorobanInvGives, Zenon
<1> QED
  BY <1>1, SorobanInvAlways, PTL

\* handle_request and handle_reply make a request executable only on the word
\* of every protocol in its list, although what is collected expires.
THEOREM SorobanRequestsEndorsed ==
  ASSUME SorobanAssumption
  PROVE  SorobanSpec => []RequestsEndorsed
<1>1. SorobanInv => RequestsEndorsed
  BY SorobanInvGives, Zenon
<1> QED
  BY <1>1, SorobanInvAlways, PTL

\* handle_result and handle_error settle a call only after all its connections
\* delivered one and the same result.
THEOREM SorobanSettlementEndorsed ==
  ASSUME SorobanAssumption
  PROVE  SorobanSpec => []SettlementEndorsed
<1>1. SorobanInv => SettlementEndorsed
  BY SorobanInvGives, Zenon
<1> QED
  BY <1>1, SorobanInvAlways, PTL

\* A call that succeeded is never rolled back, nor the reverse:
\* remove_rollback ends every settlement.
THEOREM SorobanSettledOnce ==
  ASSUME SorobanAssumption
  PROVE  SorobanSpec => []SettledOnce
<1>1. SorobanInv => SettledOnce
  BY SorobanInvGives, Zenon
<1> QED
  BY <1>1, SorobanInvAlways, PTL

\* extend_temporary_request leaves users the threshold of three days, for any
\* length of a day: an enabled rollback and an admitted request last that long
\* unless they are used.
THEOREM SorobanTimeToAct ==
  ASSUME SorobanAssumption
  PROVE  SorobanSpec => []TimeToAct
<1>1. SorobanInv => TimeToAct
  BY SorobanInvGives, Zenon
<1> QED
  BY <1>1, SorobanInvAlways, PTL

=============================================================================
