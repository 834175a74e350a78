-------------------------- MODULE XcallProperties --------------------------
(***************************************************************************)
(* What the call services of all ports are to guarantee, stated of the     *)
(* histories that their models keep:                                       *)
(*   heard       (message, connection) deliveries that were accepted       *)
(*   admitted    (request id, request) that became executable              *)
(*   executed    (request id, request, code) of finished executions        *)
(*   calls       sn -> [to, protocols] of every two-way call sent          *)
(*   succeeded   sns of calls marked successful                            *)
(*   rolledBack  sns whose rollback was run                                *)
(***************************************************************************)
EXTENDS XcallMessages

\* All results of call s with a code of the set.
ResultsOf(s, codes) ==
  {CSResult(res) : res \in [sn : {s}, code : codes,
                            reply : Request \cup {None}]}

\* Every connection of the list delivered a message of M (some connection
\* did, if the list is empty and the default connection stands for it).
EndorsedBy(heard, M, protocols) ==
  IF protocols = <<>>
  THEN \E h \in heard : h[1] \in M
  ELSE \A k \in Range(protocols) : \E h \in heard : h[1] \in M /\ h[2] = k

\* A connection of the list, or any if it is empty, delivered a message of M.
SaidBy(heard, M, protocols) ==
  \E h \in heard : h[1] \in M /\ (protocols = <<>> \/ h[2] \in Range(protocols))

\* The results of success of call s that carry the request as their reply.
Carrying(s, req) ==
  {m \in ResultsOf(s, {Success}) :
     /\ m.payload.reply # None
     /\ [m.payload.reply EXCEPT !.protocols = req.protocols] = req}

\* Requests are admitted on the word of all their protocols: each delivered
\* the request, or one result of success that carries it as its reply.
AdmissionEndorsed(heard, admitted) ==
  \A a \in admitted :
    LET req == a[2]
    IN  \/ EndorsedBy(heard, {CSRequest(req)}, req.protocols)
        \/ \E s \in Sns : \E h \in heard :
             /\ h[1] \in ResultsOf(s, {Success})
             /\ h[1].payload.reply # None
             /\ [h[1].payload.reply EXCEPT !.protocols = req.protocols] = req
             /\ EndorsedBy(heard, {h[1]}, req.protocols)

\* The same, but for a reply it is enough that all its protocols answered one
\* call, in any way, and one of them with a result that carries the reply.
AdmissionVouched(heard, admitted) ==
  \A a \in admitted :
    LET req == a[2]
    IN  \/ EndorsedBy(heard, {CSRequest(req)}, req.protocols)
        \/ \E s \in Sns :
             /\ EndorsedBy(heard, ResultsOf(s, Code), req.protocols)
             /\ SaidBy(heard, Carrying(s, req), req.protocols)

\* A call settles on one result that all its connections delivered.
SettledOnOneResult(heard, calls, succeeded, rolledBack) ==
  \A s \in Sns :
    /\ s \in succeeded =>
         \E m \in ResultsOf(s, {Success}) :
           EndorsedBy(heard, {m}, calls[s].protocols)
    /\ s \in rolledBack =>
         \E m \in ResultsOf(s, {Failure}) :
           EndorsedBy(heard, {m}, calls[s].protocols)

\* A call settles after all its connections answered it, at least one of
\* them with the code it settles on.
SettledOnAllAnswers(heard, calls, succeeded, rolledBack) ==
  \A s \in Sns :
    /\ s \in succeeded =>
         /\ EndorsedBy(heard, ResultsOf(s, Code), calls[s].protocols)
         /\ SaidBy(heard, ResultsOf(s, {Success}), calls[s].protocols)
    /\ s \in rolledBack =>
         /\ EndorsedBy(heard, ResultsOf(s, Code), calls[s].protocols)
         /\ SaidBy(heard, ResultsOf(s, {Failure}), calls[s].protocols)

\* A request id is executed at most once and with one outcome.
ExecutedAtMostOnce(executed) ==
  \A x, y \in executed : x[1] = y[1] => x = y

=============================================================================
