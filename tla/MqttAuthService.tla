---------------------------- MODULE MqttAuthService ----------------------------
(***************************************************************************)
(* hub/mqtt-auth-service: the HTTP service behind the broker.  /nonce and  *)
(* /pair-nonce issue nonces, /auth decides CONNECTs (server.ts), /pair     *)
(* changes the allow-lists of operators (pairing-store.ts).                *)
(*                                                                         *)
(* One JavaScript process serves any number of requests.  A handler runs   *)
(* alone up to each `await`, so a request is a program counter, and the    *)
(* steps between two awaits are one action.  While a handler waits for the *)
(* RPC node, everything may happen: other requests, the reaper, a restart  *)
(* of the process and transactions on the pinned registry (IdentityFacts). *)
(*                                                                         *)
(* A signature is the address that recoverMessageAddress returns for it,   *)
(* over the message the handler rebuilds: `signer`.                        *)
(***************************************************************************)
EXTENDS IdentityFacts, Integers, Sequences, FiniteSets

CONSTANTS
    OperatorNames,   \* operators as a request names them: a label or a hex id
    IdOf,            \* resolveOperatorIdHex: the id of each name
    Nonces,          \* values of randomNonceToken
    Slots,           \* requests being served at once
    NonceTTL,        \* NONCE_TTL_MS
    RateWindow,      \* NONCE_RATE_WINDOW_MS
    RateMax,         \* NONCE_RATE_MAX
    MaxTime          \* bound of the clock

ASSUME NamesAssumption == IdOf \in [OperatorNames -> OperatorIds]

ASSUME TimesAssumption ==
    NonceTTL \in Nat /\ RateWindow \in Nat /\ RateMax \in Nat /\ MaxTime \in Nat

ASSUME AbsentAssumption ==
    None \notin OperatorNames /\ None \notin BotIds /\ None \notin OperatorIds
      /\ None \notin Addresses

VARIABLES
    now,          \* Date.now()
    nonces,       \* the Map of nonces; NoEntry where it has none
    issueTimes,   \* nonceIssueTimes, by subject
    pc,           \* where the handler of each slot stands
    request,      \* what it was asked
    row,          \* the registry row it goes on with
    allow,        \* allowOperatorIds of each operator: PairingStore's `data`
    disk,         \* the same in the file at PAIRING_STORE_PATH
    issued,       \* history: when and to whom each nonce was issued
    spent,        \* history: the nonces some request was accepted with
    entitled,     \* history: the request's signer was entitled at some instant
    settled       \* history: what an owner was told of each allowance

hubVars  == <<now, nonces, issueTimes, pc, request, row, allow, disk,
              issued, spent, entitled, settled>>
vars     == <<factsVars, hubVars>>

--------------------------------------------------------------------------------

Subjects == ({"bot"} \X BotIds) \cup ({"operator"} \X OperatorNames)

ASSUME SubjectsAssumption == None \notin Subjects

NoEntry    == [subject |-> None, expiresAt |-> 0, used |-> FALSE]
NonceEntry == [subject : Subjects, expiresAt : Nat, used : BOOLEAN]

\* `late`: the nonce had already been accepted when the request arrived.
Request ==
    [kind : {"connect"}, label : BotIds, peer : {None}, nonce : Nonces,
     signer : Addresses, at : Nat, late : BOOLEAN]
    \cup
    [kind : {"add", "remove"}, label : OperatorNames, peer : OperatorNames,
     nonce : Nonces, signer : Addresses, at : Nat, late : BOOLEAN]
    \cup
    [kind : {"list"}, label : OperatorNames, peer : {None}, nonce : Nonces,
     signer : Addresses, at : Nat, late : BOOLEAN]

Waiting == {"readBot", "readOperator", "readOwner", "readPeer"}
Places  == Waiting \cup {"idle", "decide", "accepted"}

\* Of a nonce of this process: the time and the subject it was issued for.
Unissued == [fresh |-> TRUE, at |-> 0, to |-> None]
Outlived == [fresh |-> FALSE, at |-> 0, to |-> None]
Issue(subject) == [fresh |-> FALSE, at |-> now, to |-> subject]

Verdicts == {"in", "out", "unknown"}

HubTypeOK ==
    /\ now \in 0..MaxTime
    /\ nonces \in [Nonces -> NonceEntry \cup {NoEntry}]
    /\ issueTimes \in [Subjects -> Seq(0..MaxTime)]
    /\ pc \in [Slots -> Places]
    /\ request \in [Slots -> Request \cup {None}]
    /\ row \in [Slots -> BotRow \cup {None}]
    /\ allow \in [OperatorIds -> SUBSET OperatorIds]
    /\ disk \in [OperatorIds -> SUBSET OperatorIds]
    /\ issued \in [Nonces -> [fresh : BOOLEAN, at : 0..MaxTime, to : Subjects \cup {None}]]
    /\ spent \subseteq Nonces
    /\ entitled \in [Slots -> BOOLEAN]
    /\ settled \in [OperatorIds -> [OperatorIds -> Verdicts]]

HubInit ==
    /\ now = 0
    /\ nonces = [n \in Nonces |-> NoEntry]
    /\ issueTimes = [s \in Subjects |-> <<>>]
    /\ pc = [s \in Slots |-> "idle"]
    /\ request = [s \in Slots |-> None]
    /\ row = [s \in Slots |-> None]
    /\ allow = [o \in OperatorIds |-> {}]
    /\ disk = [o \in OperatorIds |-> {}]
    /\ issued = [n \in Nonces |-> Unissued]
    /\ spent = {}
    /\ entitled = [s \in Slots |-> FALSE]
    /\ settled = [o \in OperatorIds |-> [p \in OperatorIds |-> "out"]]

--------------------------------------------------------------------------------
(* Nonces. *)

\* Mutant: the filter keeps the times that have left the window.
RecentReversed(subject) ==
    SelectSeq(issueTimes[subject], LAMBDA t : now - t >= RateWindow)

\* times.filter((t) => now - t < window), element by element.
Recent(subject) ==
    LET times == issueTimes[subject]
        kept[i \in 0..Len(times)] ==
            IF i = 0 THEN <<>>
            ELSE IF now - times[i] < RateWindow THEN Append(kept[i - 1], times[i])
            ELSE kept[i - 1]
    IN  kept[Len(times)]

\* GET /nonce and GET /pair-nonce, answered 200.  The action and the peer named
\* to /pair-nonce only shape the text to sign: the entry does not keep them.  A
\* 429 changes nothing, because a list that is full has nothing to drop.
IssueNonce(subject, n) ==
    /\ issued[n].fresh
    /\ Len(Recent(subject)) < RateMax
    /\ nonces' = [nonces EXCEPT ![n] =
                     [subject |-> subject, expiresAt |-> now + NonceTTL, used |-> FALSE]]
    /\ issueTimes' = [issueTimes EXCEPT ![subject] = Append(Recent(subject), now)]
    /\ issued' = [issued EXCEPT ![n] = Issue(subject)]
    /\ UNCHANGED <<now, pc, request, row, allow, disk, spent, settled, entitled>>

\* Mutant: `used` is not looked at.
NonceUnexpired(n, subject) ==
    nonces[n] # NoEntry /\ nonces[n].expiresAt >= now /\ nonces[n].subject = subject

\* The check each of the three handlers starts with.
NonceGood(n, subject) ==
    /\ nonces[n] # NoEntry
    /\ ~nonces[n].used
    /\ nonces[n].expiresAt >= now
    /\ nonces[n].subject = subject

\* entry.used = true.  The handler holds the entry itself: when the reaper has
\* taken it out of the Map meanwhile, nobody sees the write.
SpendNonce(n) ==
    /\ nonces' = IF nonces[n] = NoEntry THEN nonces
                 ELSE [nonces EXCEPT ![n].used = TRUE]
    /\ spent' = spent \cup {n}

\* setInterval(pruneExpiredNonces)
Reap ==
    /\ \E n \in Nonces : nonces[n] # NoEntry /\ nonces[n].expiresAt < now
    /\ nonces' = [n \in Nonces |->
                     IF nonces[n].expiresAt < now THEN NoEntry ELSE nonces[n]]
    /\ UNCHANGED <<now, issueTimes, pc, request, row, allow, disk, issued, spent, settled, entitled>>

--------------------------------------------------------------------------------
(* What the handlers share. *)

\* What the chain says now of the signer of a request: a CONNECT needs the key
\* of the active bot of an active operator, a pairing request the owner of the
\* active operator.
Entitled(req) ==
    IF req.kind = "connect"
    THEN Bound(req.label, req.signer) /\ Active(operators[bots[req.label].operatorId])
    ELSE operators[IdOf[req.label]] = [status |-> "active", owner |-> req.signer]

SignerEntitled(s) == Entitled(request[s])

\* `entitled` looks at every state the chain is in from the arrival of a request
\* to the decision: it is set on arrival and revised with every transaction.
Observe ==
    entitled' = [s \in Slots |->
                    \/ entitled[s]
                    \/ pc[s] \notin {"idle", "accepted"} /\ SignerEntitled(s)']

\* The request passes the nonce check and starts its first read.
Arrive(s, req, subject, place) ==
    /\ pc[s] = "idle"
    /\ NonceGood(req.nonce, subject)
    /\ pc' = [pc EXCEPT ![s] = place]
    /\ request' = [request EXCEPT ![s] = req]
    /\ entitled' = [entitled EXCEPT ![s] = Entitled(req)]
    /\ UNCHANGED <<now, nonces, issueTimes, row, allow, disk, issued, spent, settled>>

Proceed(s, place, r) ==
    /\ pc' = [pc EXCEPT ![s] = place]
    /\ row' = [row EXCEPT ![s] = r]
    /\ UNCHANGED <<now, nonces, issueTimes, request, allow, disk, issued, spent, settled, entitled>>

\* The handler returns an error, or the answer has been sent: the slot is free.
Vacate(s) ==
    /\ pc' = [pc EXCEPT ![s] = "idle"]
    /\ request' = [request EXCEPT ![s] = None]
    /\ row' = [row EXCEPT ![s] = None]
    /\ entitled' = [entitled EXCEPT ![s] = FALSE]

\* 403 or 503, from a read or after one.
Refuse(s) ==
    /\ Vacate(s)
    /\ UNCHANGED <<now, nonces, issueTimes, allow, disk, issued, spent, settled>>

\* The RPC node fails or does not answer in CHAIN_RPC_TIMEOUT_MS.
ReadFails(s) == pc[s] \in Waiting /\ Refuse(s)

\* The 200 goes out.
Respond(s) == pc[s] = "accepted" /\ Refuse(s)

--------------------------------------------------------------------------------
(* /auth: verifyMqttSiwe. *)

AuthArrives(s, b, n, signer) ==
    Arrive(s, [kind |-> "connect", label |-> b, peer |-> None, nonce |-> n,
               signer |-> signer, at |-> now, late |-> n \in spent],
           <<"bot", b>>, "readBot")

\* getBotByLabel: the row as it is when the node answers.
AuthReadsBot(s) ==
    /\ pc[s] = "readBot"
    /\ LET bot == bots[request[s].label]
       IN  IF Active(bot) THEN Proceed(s, "readOperator", bot) ELSE Refuse(s)

\* Mutant: any operator on record passes.
AuthReadsAnyOperator(s) ==
    /\ pc[s] = "readOperator"
    /\ IF operators[row[s].operatorId].status # "missing"
       THEN Proceed(s, "decide", row[s]) ELSE Refuse(s)

\* getOperatorById of the operator in the row read before.
AuthReadsOperator(s) ==
    /\ pc[s] = "readOperator"
    /\ IF Active(operators[row[s].operatorId])
       THEN Proceed(s, "decide", row[s]) ELSE Refuse(s)

AuthDecides(s) ==
    /\ pc[s] = "decide"
    /\ request[s].kind = "connect"
    /\ IF row[s].botKey # None /\ request[s].signer = row[s].botKey
       THEN /\ SpendNonce(request[s].nonce)
            /\ pc' = [pc EXCEPT ![s] = "accepted"]
            /\ UNCHANGED <<now, issueTimes, request, row, allow, disk, issued, settled, entitled>>
       ELSE Refuse(s)

--------------------------------------------------------------------------------
(* /pair: handlePairPost (add, remove) and handlePairGet (list). *)

PairArrives(s, kind, name, peer, n, signer) ==
    /\ kind = "list" <=> peer = None
    /\ Arrive(s, [kind |-> kind, label |-> name, peer |-> peer, nonce |-> n,
                  signer |-> signer, at |-> now, late |-> n \in spent],
              <<"operator", name>>, "readOwner")

\* Mutant: the recovered address is not compared with the owner.
PairReadsAnyOwner(s) ==
    /\ pc[s] = "readOwner"
    /\ IF Active(operators[IdOf[request[s].label]])
       THEN Proceed(s, IF request[s].kind = "add" THEN "readPeer" ELSE "decide", None)
       ELSE Refuse(s)

\* getOperatorById of the operator, and the comparison with its owner.
PairReadsOwner(s) ==
    /\ pc[s] = "readOwner"
    /\ LET operator == operators[IdOf[request[s].label]]
       IN  IF Active(operator) /\ request[s].signer = operator.owner
           THEN Proceed(s, IF request[s].kind = "add" THEN "readPeer" ELSE "decide", None)
           ELSE Refuse(s)

\* "Peer must exist as an active operator when adding"
PairReadsPeer(s) ==
    /\ pc[s] = "readPeer"
    /\ IF Active(operators[IdOf[request[s].peer]])
       THEN Proceed(s, "decide", None) ELSE Refuse(s)

\* The store's data after the change; adding a peer twice keeps one entry.
Changed(req) ==
    LET o == IdOf[req.label]
        p == IdOf[req.peer]
    IN  IF req.kind = "add" THEN [allow EXCEPT ![o] = @ \cup {p}]
        ELSE [allow EXCEPT ![o] = @ \ {p}]

\* Mutant: persist() before the assignment to `data`.
SaveThenSet(s) ==
    /\ pc[s] = "decide"
    /\ request[s].kind \in {"add", "remove"}
    /\ SpendNonce(request[s].nonce)
    /\ allow' = Changed(request[s])
    /\ disk' = allow
    /\ pc' = [pc EXCEPT ![s] = "accepted"]
    /\ settled' = [settled EXCEPT ![IdOf[request[s].label]][IdOf[request[s].peer]] =
                      IF request[s].kind = "add" THEN "in" ELSE "out"]
    /\ UNCHANGED <<now, issueTimes, request, row, issued, entitled>>

\* addOperator or removeOperator: set `data`, write all of it to a temporary
\* file and rename that over the old one, which a crash cannot tear.
PairDecides(s) ==
    /\ pc[s] = "decide"
    /\ request[s].kind \in {"add", "remove"}
    /\ SpendNonce(request[s].nonce)
    /\ allow' = Changed(request[s])
    /\ disk' = allow'
    /\ pc' = [pc EXCEPT ![s] = "accepted"]
    /\ settled' = [settled EXCEPT ![IdOf[request[s].label]][IdOf[request[s].peer]] =
                      IF request[s].kind = "add" THEN "in" ELSE "out"]
    /\ UNCHANGED <<now, issueTimes, request, row, issued, entitled>>

\* The write throws (a full disk): `data` has changed, the file has not, the
\* nonce is spent and the owner gets a 500.
PairFailsToSave(s) ==
    /\ pc[s] = "decide"
    /\ request[s].kind \in {"add", "remove"}
    /\ SpendNonce(request[s].nonce)
    /\ allow' = Changed(request[s])
    /\ settled' = [settled EXCEPT ![IdOf[request[s].label]][IdOf[request[s].peer]] = "unknown"]
    /\ Vacate(s)
    /\ UNCHANGED <<now, issueTimes, disk, issued>>

PairLists(s) ==
    /\ pc[s] = "decide"
    /\ request[s].kind = "list"
    /\ SpendNonce(request[s].nonce)
    /\ pc' = [pc EXCEPT ![s] = "accepted"]
    /\ UNCHANGED <<now, issueTimes, request, row, allow, disk, issued, settled, entitled>>

--------------------------------------------------------------------------------

Tick ==
    /\ now < MaxTime
    /\ now' = now + 1
    /\ UNCHANGED <<nonces, issueTimes, pc, request, row, allow, disk, issued, spent, settled, entitled>>

\* The process dies and comes back: PairingStore.load reads the file, everything
\* else was in memory.  Requests in flight get no answer.
Restart ==
    /\ nonces' = [n \in Nonces |-> NoEntry]
    /\ issueTimes' = [s \in Subjects |-> <<>>]
    /\ pc' = [s \in Slots |-> "idle"]
    /\ request' = [s \in Slots |-> None]
    /\ row' = [s \in Slots |-> None]
    /\ entitled' = [s \in Slots |-> FALSE]
    /\ allow' = disk
    /\ issued' = [n \in Nonces |-> IF issued[n].fresh THEN Unissued ELSE Outlived]
    /\ UNCHANGED <<now, disk, spent, settled>>

Serve(s) ==
    \/ \E b \in BotIds, n \in Nonces, signer \in Addresses : AuthArrives(s, b, n, signer)
    \/ AuthReadsBot(s)
    \/ AuthReadsOperator(s)
    \/ AuthDecides(s)
    \/ \E kind \in {"add", "remove", "list"}, name \in OperatorNames,
          peer \in OperatorNames \cup {None}, n \in Nonces, signer \in Addresses :
          PairArrives(s, kind, name, peer, n, signer)
    \/ PairReadsOwner(s)
    \/ PairReadsPeer(s)
    \/ PairDecides(s)
    \/ PairFailsToSave(s)
    \/ PairLists(s)
    \/ ReadFails(s)
    \/ Respond(s)

HubNext ==
    \/ \E subject \in Subjects, n \in Nonces : IssueNonce(subject, n)
    \/ \E s \in Slots : Serve(s)
    \/ Reap
    \/ Tick
    \/ Restart

\* A transaction on the pinned registry.
Transact ==
    /\ FactsNext
    /\ UNCHANGED <<now, nonces, issueTimes, pc, request, row, allow, disk,
                   issued, spent, settled>>
    /\ Observe

Next == (HubNext /\ UNCHANGED factsVars) \/ Transact

Init == FactsInit /\ HubInit

Spec == Init /\ [][Next]_vars

--------------------------------------------------------------------------------
(* Correctness. *)

\* Every accepted CONNECT had, at one single instant while it was being served,
\* an active bot whose key signed and an active operator; every accepted pairing
\* request had the owner of the active operator as its signer.  The two rows of
\* a CONNECT are read at different instants, with transactions in between, so no
\* read by itself shows this; it gives "revoke and rotate take effect on the next
\* CONNECT" (registry-client.ts:22-26).
AcceptedWereEntitled == \A s \in Slots : pc[s] = "accepted" => entitled[s]

\* A nonce that a request has been accepted with opens nothing to a request that
\* arrives later, whatever the reaper and restarts do to the Map; and no request
\* that arrives more than NonceTTL after the issue is accepted.
AcceptedOnALiveNonce ==
    \A s \in Slots : pc[s] = "accepted" =>
        /\ ~request[s].late
        /\ request[s].at <= issued[request[s].nonce].at + NonceTTL

\* One process issues at most RateMax nonces to a subject in any RateWindow
\* (README: "default 30/min"), though times are only dropped on the next issue.
IssuesInWindow(subject, t) ==
    {n \in Nonces : issued[n].to = subject /\ issued[n].at <= t /\ t - issued[n].at < RateWindow}

IssuanceBounded ==
    \A subject \in Subjects, t \in 0..MaxTime :
        Cardinality(IssuesInWindow(subject, t)) <= RateMax

\* An allowance the owner was told of (a 200) is what the store decides by and
\* what a restart will load, whatever changes to other allowances succeeded,
\* failed to save or raced with it.
ToldIsKept ==
    \A o, p \in OperatorIds :
        /\ settled[o][p] = "in"  => p \in allow[o] /\ p \in disk[o]
        /\ settled[o][p] = "out" => p \notin allow[o] /\ p \notin disk[o]

\* An operator's allow-list changes only at the end of a request that its owner
\* signed, or back to what the file holds when the process restarts.
AllowListsChangeByOwner ==
    [][\A o \in OperatorIds : allow'[o] # allow[o] =>
          \/ allow'[o] = disk[o] /\ \A s \in Slots : pc'[s] = "idle"
          \/ \E s \in Slots : /\ pc[s] = "decide" /\ pc'[s] # "decide"
                              /\ IdOf[request[s].label] = o /\ entitled[s]]_vars

\* "Issue a one-time nonce" (hub/mqtt-auth-service/README.md:13): no two requests
\* are accepted with the same nonce.
OneTimeNonce ==
    \A s, t \in Slots :
        s # t /\ pc[s] = "accepted" /\ pc[t] = "accepted" =>
            request[s].nonce # request[t].nonce

================================================================================
