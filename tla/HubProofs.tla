-------------------------------- MODULE HubProofs --------------------------------
(***************************************************************************)
(* Theorems about the hub's service, for any number of operators, bots,    *)
(* nonces and concurrent requests: first about MqttAuthService, then about *)
(* TransportAcl, last about the process the two make up (HubService).      *)
(*                                                                         *)
(* AcceptedWereEntitled is not inductive: /auth reads the bot and then its *)
(* operator, and both may change between the two reads.  The strengthening *)
(* says what a request that has read the bot's row knows: the operator of  *)
(* that row is on record, and if it is still active then it was active     *)
(* when the bot was, so that instant has been seen (ConnectKnows).  The    *)
(* same holds of a check on /acl (Knows): the operator it goes on with is  *)
(* still the sender's on the chain, because no transaction moves a bot,    *)
(* and if active it was so when the bot was read, because none revives an  *)
(* operator.                                                               *)
(***************************************************************************)
EXTENDS HubService, IdentityFactsProofs, FiniteSetTheorems, WellFoundedInduction

SlotTypeOK ==
    /\ pc \in [Slots -> Places]
    /\ request = [s \in Slots |-> request[s]]
    /\ row = [s \in Slots |-> row[s]]
    /\ entitled \in [Slots -> BOOLEAN]

InFlight(s) == pc[s] \notin {"idle", "accepted"}

IsConnect(s) == request[s].kind = "connect" /\ request[s].label \in BotIds
IsPairing(s) == request[s].kind # "connect" /\ request[s].label \in OperatorNames

\* What a CONNECT has read.
ConnectKnows(s) ==
    /\ pc[s] = "readBot" => IsConnect(s)
    /\ pc[s] = "readOperator" =>
          /\ IsConnect(s)
          /\ row[s].operatorId \in OperatorIds
          /\ operators[row[s].operatorId].status # "missing"
          /\ row[s].botKey = request[s].signer /\ Active(operators[row[s].operatorId])
                => entitled[s]
    /\ pc[s] = "decide" /\ request[s].kind = "connect" =>
          (row[s].botKey = request[s].signer => entitled[s])

\* What a pairing request has read.
PairingKnows(s) ==
    /\ pc[s] = "readOwner" => IsPairing(s)
    /\ pc[s] = "readPeer" => request[s].kind # "connect" /\ entitled[s]
    /\ pc[s] = "decide" /\ request[s].kind # "connect" => entitled[s]

SlotInv(s) ==
    /\ InFlight(s) /\ SignerEntitled(s) => entitled[s]
    /\ ConnectKnows(s)
    /\ PairingKnows(s)
    /\ pc[s] = "accepted" => entitled[s]

\* The inductive invariant.
EntitlementInv == FactsInv /\ SlotTypeOK /\ \A s \in Slots : SlotInv(s)

--------------------------------------------------------------------------------

LEMMA EntitlementInit == Init => EntitlementInv
<1> SUFFICES ASSUME Init PROVE EntitlementInv
  OBVIOUS
<1>1. FactsInv
  BY FactsInitInv DEF Init
<1>2. SlotTypeOK
  BY DEF Init, HubInit, SlotTypeOK, Places, Waiting
<1>3. ASSUME NEW s \in Slots PROVE SlotInv(s)
  BY DEF Init, HubInit, SlotInv, InFlight, ConnectKnows, PairingKnows
<1> QED
  BY <1>1, <1>2, <1>3 DEF EntitlementInv

\* A slot whose handler does not move, while the registry does not change.
LEMMA StillSlot ==
  ASSUME EntitlementInv, UNCHANGED factsVars, NEW t \in Slots,
         pc'[t] = pc[t], request'[t] = request[t], row'[t] = row[t],
         entitled'[t] = entitled[t]
  PROVE  SlotInv(t)'
  BY DEF EntitlementInv, SlotInv, InFlight, SignerEntitled, Entitled, Bound, Active,
         ConnectKnows, PairingKnows, IsConnect, IsPairing, factsVars

\* A step of the handler in one slot.
LEMMA OneSlot ==
  ASSUME EntitlementInv, UNCHANGED factsVars, SlotTypeOK', NEW s \in Slots, SlotInv(s)',
         \A t \in Slots \ {s} : /\ pc'[t] = pc[t] /\ request'[t] = request[t]
                                /\ row'[t] = row[t] /\ entitled'[t] = entitled[t]
  PROVE  EntitlementInv'
<1>1. FactsInv'
  BY DEF EntitlementInv, FactsInv, FactsTypeOK, BotsHaveOperators, factsVars
<1>2. ASSUME NEW t \in Slots PROVE SlotInv(t)'
  BY <1>2, StillSlot
<1> QED
  BY <1>1, <1>2 DEF EntitlementInv

\* Steps that move no handler.
LEMMA NoSlot ==
  ASSUME EntitlementInv, UNCHANGED factsVars, UNCHANGED <<pc, request, row, entitled>>
  PROVE  EntitlementInv'
<1>1. FactsInv' /\ SlotTypeOK'
  BY DEF EntitlementInv, FactsInv, FactsTypeOK, BotsHaveOperators, factsVars, SlotTypeOK
<1>2. ASSUME NEW t \in Slots PROVE SlotInv(t)'
  BY <1>2, StillSlot
<1> QED
  BY <1>1, <1>2 DEF EntitlementInv

LEMMA ArriveKeeps ==
  ASSUME EntitlementInv, UNCHANGED factsVars, NEW s \in Slots, NEW req, NEW subject, NEW place,
         Arrive(s, req, subject, place),
         \/ place = "readBot" /\ req.kind = "connect" /\ req.label \in BotIds
         \/ place = "readOwner" /\ req.kind # "connect" /\ req.label \in OperatorNames
  PROVE  EntitlementInv'
<1>1. /\ pc' = [pc EXCEPT ![s] = place]
      /\ request' = [request EXCEPT ![s] = req]
      /\ entitled' = [entitled EXCEPT ![s] = Entitled(req)]
      /\ row' = row
  BY DEF Arrive
<1>2. Entitled(req) \in BOOLEAN
  BY DEF Entitled, Bound, Active
<1>3. SlotTypeOK'
  BY <1>1, <1>2 DEF EntitlementInv, SlotTypeOK, Places, Waiting
<1>4. pc'[s] = place /\ request'[s] = req /\ entitled'[s] = Entitled(req)
  BY <1>1 DEF EntitlementInv, SlotTypeOK
<1>5. SignerEntitled(s)' <=> Entitled(req)
  BY <1>4 DEF SignerEntitled, Entitled, Bound, Active, factsVars
<1>6. SlotInv(s)'
  BY <1>4, <1>5 DEF SlotInv, InFlight, ConnectKnows, PairingKnows, IsConnect, IsPairing
<1> QED
  BY <1>1, <1>3, <1>6, OneSlot DEF EntitlementInv, SlotTypeOK

LEMMA VacateKeeps ==
  ASSUME EntitlementInv, UNCHANGED factsVars, NEW s \in Slots, Vacate(s)
  PROVE  EntitlementInv'
<1>1. SlotTypeOK' /\ pc'[s] = "idle"
  BY DEF Vacate, EntitlementInv, SlotTypeOK, Places, Waiting
<1>2. SlotInv(s)'
  BY <1>1 DEF SlotInv, InFlight, ConnectKnows, PairingKnows
<1> QED
  BY <1>1, <1>2, OneSlot DEF Vacate, EntitlementInv, SlotTypeOK

\* A read that lets the handler go on.
LEMMA ProceedKeeps ==
  ASSUME EntitlementInv, UNCHANGED factsVars, NEW s \in Slots, NEW place \in Places, NEW r,
         InFlight(s), Proceed(s, place, r), place # "accepted",
         ConnectKnows(s)', PairingKnows(s)'
  PROVE  EntitlementInv'
<1>1. /\ pc' = [pc EXCEPT ![s] = place]
      /\ row' = [row EXCEPT ![s] = r]
      /\ UNCHANGED <<request, entitled>>
  BY DEF Proceed
<1>2. SlotTypeOK'
  BY <1>1 DEF EntitlementInv, SlotTypeOK
<1>3. pc'[s] = place
  BY <1>1 DEF EntitlementInv, SlotTypeOK
<1>4. SignerEntitled(s)' <=> SignerEntitled(s)
  BY <1>1 DEF SignerEntitled, Entitled, Bound, Active, factsVars
<1>5. SlotInv(s)'
  BY <1>1, <1>3, <1>4 DEF EntitlementInv, SlotInv
<1> QED
  BY <1>1, <1>2, <1>5, OneSlot DEF EntitlementInv, SlotTypeOK

\* The 200.
LEMMA AcceptKeeps ==
  ASSUME EntitlementInv, UNCHANGED factsVars, NEW s \in Slots, entitled[s],
         pc' = [pc EXCEPT ![s] = "accepted"], UNCHANGED <<request, row, entitled>>
  PROVE  EntitlementInv'
<1>1. SlotTypeOK' /\ pc'[s] = "accepted"
  BY DEF EntitlementInv, SlotTypeOK, Places, Waiting
<1>2. SlotInv(s)'
  BY <1>1 DEF SlotInv, InFlight, ConnectKnows, PairingKnows
<1> QED
  BY <1>1, <1>2, OneSlot DEF EntitlementInv, SlotTypeOK

--------------------------------------------------------------------------------

LEMMA AuthReadsBotKeeps ==
  ASSUME EntitlementInv, UNCHANGED factsVars, NEW s \in Slots, AuthReadsBot(s)
  PROVE  EntitlementInv'
<1> DEFINE bot == bots[request[s].label]
<1>1. pc[s] = "readBot" /\ IsConnect(s) /\ InFlight(s)
  BY DEF AuthReadsBot, EntitlementInv, SlotInv, ConnectKnows, InFlight
<1>2. CASE ~Active(bot)
  <2>1. Vacate(s)
    BY <1>2 DEF AuthReadsBot, Refuse
  <2> QED
    BY <2>1, VacateKeeps
<1>3. CASE Active(bot)
  <2>1. Proceed(s, "readOperator", bot)
    BY <1>3 DEF AuthReadsBot
  <2>2. /\ pc'[s] = "readOperator" /\ row'[s] = bot
        /\ request' = request /\ entitled' = entitled
    BY <2>1 DEF Proceed, EntitlementInv, SlotTypeOK
  <2>3. bot.operatorId \in OperatorIds /\ operators[bot.operatorId].status # "missing"
    BY <1>1, <1>3, ActiveBot DEF EntitlementInv, IsConnect
  <2>4. ASSUME bot.botKey = request[s].signer, Active(operators[bot.operatorId])
        PROVE  entitled[s]
    <3>1. SignerEntitled(s)
      BY <1>1, <1>3, <2>4 DEF SignerEntitled, Entitled, Bound, IsConnect
    <3> QED
      BY <1>1, <3>1 DEF EntitlementInv, SlotInv
  <2>5. IsConnect(s)'
    BY <1>1, <2>2 DEF IsConnect
  <2>6. operators' = operators
    BY DEF factsVars
  <2> HIDE DEF bot
  <2>7. ConnectKnows(s)' /\ PairingKnows(s)'
    BY <2>2, <2>3, <2>4, <2>5, <2>6 DEF ConnectKnows, PairingKnows, Active
  <2> QED
    BY <1>1, <2>1, <2>7, ProceedKeeps DEF Places, Waiting
<1> QED
  BY <1>2, <1>3

LEMMA AuthReadsOperatorKeeps ==
  ASSUME EntitlementInv, UNCHANGED factsVars, NEW s \in Slots, AuthReadsOperator(s)
  PROVE  EntitlementInv'
<1>1. /\ pc[s] = "readOperator" /\ InFlight(s) /\ IsConnect(s)
      /\ row[s].botKey = request[s].signer /\ Active(operators[row[s].operatorId])
            => entitled[s]
  BY DEF AuthReadsOperator, EntitlementInv, SlotInv, ConnectKnows, InFlight
<1>2. CASE ~Active(operators[row[s].operatorId])
  <2>1. Vacate(s)
    BY <1>2 DEF AuthReadsOperator, Refuse
  <2> QED
    BY <2>1, VacateKeeps
<1>3. CASE Active(operators[row[s].operatorId])
  <2>1. Proceed(s, "decide", row[s])
    BY <1>3 DEF AuthReadsOperator
  <2>2. /\ pc'[s] = "decide" /\ row'[s] = row[s]
        /\ request' = request /\ entitled' = entitled
    BY <2>1 DEF Proceed, EntitlementInv, SlotTypeOK
  <2>3. ConnectKnows(s)' /\ PairingKnows(s)'
    BY <1>1, <1>3, <2>2 DEF ConnectKnows, PairingKnows, IsConnect
  <2> QED
    BY <1>1, <2>1, <2>3, ProceedKeeps DEF Places, Waiting
<1> QED
  BY <1>2, <1>3

LEMMA AuthDecidesKeeps ==
  ASSUME EntitlementInv, UNCHANGED factsVars, NEW s \in Slots, AuthDecides(s)
  PROVE  EntitlementInv'
<1>1. CASE row[s].botKey # None /\ request[s].signer = row[s].botKey
  <2>1. entitled[s]
    BY <1>1 DEF AuthDecides, EntitlementInv, SlotInv, ConnectKnows
  <2> QED
    BY <1>1, <2>1, AcceptKeeps DEF AuthDecides
<1>2. CASE ~(row[s].botKey # None /\ request[s].signer = row[s].botKey)
  BY <1>2, VacateKeeps DEF AuthDecides, Refuse
<1> QED
  BY <1>1, <1>2

LEMMA PairReadsOwnerKeeps ==
  ASSUME EntitlementInv, UNCHANGED factsVars, NEW s \in Slots, PairReadsOwner(s)
  PROVE  EntitlementInv'
<1> DEFINE operator == operators[IdOf[request[s].label]]
           place    == IF request[s].kind = "add" THEN "readPeer" ELSE "decide"
<1>1. pc[s] = "readOwner" /\ IsPairing(s) /\ InFlight(s)
  BY DEF PairReadsOwner, EntitlementInv, SlotInv, PairingKnows, InFlight
<1>2. CASE ~(Active(operator) /\ request[s].signer = operator.owner)
  <2>1. Vacate(s)
    BY <1>2 DEF PairReadsOwner, Refuse
  <2> QED
    BY <2>1, VacateKeeps
<1>3. CASE Active(operator) /\ request[s].signer = operator.owner
  <2>1. Proceed(s, place, None) /\ place \in {"readPeer", "decide"}
    BY <1>3 DEF PairReadsOwner
  <2>2. operator \in OperatorRow
    BY <1>1, NamesAssumption DEF IsPairing, EntitlementInv, FactsInv, FactsTypeOK
  <2>3. operator = [status |-> "active", owner |-> request[s].signer]
    BY <1>3, <2>2 DEF OperatorRow, Active
  <2>4. entitled[s]
    <3>1. SignerEntitled(s)
      BY <1>1, <2>3 DEF SignerEntitled, Entitled, IsPairing
    <3> QED
      BY <1>1, <3>1 DEF EntitlementInv, SlotInv
  <2> HIDE DEF operator, place
  <2>5. /\ pc'[s] = place /\ request' = request /\ entitled' = entitled
    BY <2>1 DEF Proceed, EntitlementInv, SlotTypeOK
  <2>6. ConnectKnows(s)' /\ PairingKnows(s)'
    BY <1>1, <2>1, <2>4, <2>5 DEF ConnectKnows, PairingKnows, IsPairing
  <2> QED
    BY <1>1, <2>1, <2>6, ProceedKeeps DEF Places, Waiting
<1> QED
  BY <1>2, <1>3

LEMMA PairReadsPeerKeeps ==
  ASSUME EntitlementInv, UNCHANGED factsVars, NEW s \in Slots, PairReadsPeer(s)
  PROVE  EntitlementInv'
<1>1. pc[s] = "readPeer" /\ InFlight(s) /\ request[s].kind # "connect" /\ entitled[s]
  BY DEF PairReadsPeer, EntitlementInv, SlotInv, PairingKnows, InFlight
<1>2. CASE ~Active(operators[IdOf[request[s].peer]])
  BY <1>2, VacateKeeps DEF PairReadsPeer, Refuse
<1>3. CASE Active(operators[IdOf[request[s].peer]])
  <2>1. Proceed(s, "decide", None)
    BY <1>3 DEF PairReadsPeer
  <2>2. /\ pc'[s] = "decide" /\ request' = request /\ entitled' = entitled
    BY <2>1 DEF Proceed, EntitlementInv, SlotTypeOK
  <2>3. ConnectKnows(s)' /\ PairingKnows(s)'
    BY <1>1, <2>2 DEF ConnectKnows, PairingKnows
  <2> QED
    BY <1>1, <2>1, <2>3, ProceedKeeps DEF Places, Waiting
<1> QED
  BY <1>2, <1>3

LEMMA PairDecidesKeeps ==
  ASSUME EntitlementInv, UNCHANGED factsVars, NEW s \in Slots,
         PairDecides(s) \/ PairLists(s)
  PROVE  EntitlementInv'
<1>1. pc[s] = "decide" /\ request[s].kind # "connect"
  BY DEF PairDecides, PairLists
<1>2. entitled[s]
  BY <1>1 DEF EntitlementInv, SlotInv, PairingKnows
<1> QED
  BY <1>2, AcceptKeeps DEF PairDecides, PairLists

LEMMA ServeKeeps ==
  ASSUME EntitlementInv, UNCHANGED factsVars, NEW s \in Slots, Serve(s)
  PROVE  EntitlementInv'
<1>1. ASSUME NEW b \in BotIds, NEW n \in Nonces, NEW signer \in Addresses,
             AuthArrives(s, b, n, signer)
      PROVE  EntitlementInv'
  BY <1>1, ArriveKeeps DEF AuthArrives
<1>2. ASSUME NEW kind \in {"add", "remove", "list"}, NEW name \in OperatorNames,
             NEW peer \in OperatorNames \cup {None}, NEW n \in Nonces,
             NEW signer \in Addresses, PairArrives(s, kind, name, peer, n, signer)
      PROVE  EntitlementInv'
  BY <1>2, ArriveKeeps DEF PairArrives
<1>3. CASE ReadFails(s) \/ Respond(s) \/ PairFailsToSave(s)
  BY <1>3, VacateKeeps DEF ReadFails, Respond, PairFailsToSave, Refuse
<1> QED
  BY <1>1, <1>2, <1>3, AuthReadsBotKeeps, AuthReadsOperatorKeeps, AuthDecidesKeeps,
     PairReadsOwnerKeeps, PairReadsPeerKeeps, PairDecidesKeeps DEF Serve

LEMMA RestartKeeps ==
  ASSUME EntitlementInv, UNCHANGED factsVars, Restart
  PROVE  EntitlementInv'
<1>1. FactsInv'
  BY DEF EntitlementInv, FactsInv, FactsTypeOK, BotsHaveOperators, factsVars
<1>2. SlotTypeOK' /\ \A s \in Slots : pc'[s] = "idle"
  BY DEF Restart, SlotTypeOK, Places, Waiting
<1>3. ASSUME NEW s \in Slots PROVE SlotInv(s)'
  BY <1>2 DEF SlotInv, InFlight, ConnectKnows, PairingKnows
<1> QED
  BY <1>1, <1>2, <1>3 DEF EntitlementInv

\* A transaction between two reads: the row a CONNECT holds stays as it was,
\* while its operator can only fade.
LEMMA TransactKeeps ==
  ASSUME EntitlementInv, Transact
  PROVE  EntitlementInv'
<1>1. FactsInv' /\ OperatorsOnlyFade
  BY FactsStep DEF EntitlementInv, Transact
<1>2. /\ UNCHANGED <<pc, request, row>>
      /\ entitled' = [s \in Slots |-> \/ entitled[s]
                                      \/ pc[s] \notin {"idle", "accepted"} /\ SignerEntitled(s)']
  BY DEF Transact, Observe
<1>3. SlotTypeOK'
  BY <1>2 DEF EntitlementInv, SlotTypeOK
<1>4. ASSUME NEW s \in Slots
      PROVE  /\ entitled[s] => entitled'[s]
             /\ InFlight(s) /\ SignerEntitled(s)' => entitled'[s]
  BY <1>2 DEF InFlight
<1>5. ASSUME NEW s \in Slots PROVE SlotInv(s)'
  <2>1. SlotInv(s)
    BY DEF EntitlementInv
  <2>2. ConnectKnows(s)'
    BY <1>1, <1>2, <1>4, <2>1
       DEF SlotInv, ConnectKnows, IsConnect, OperatorsOnlyFade
  <2>3. PairingKnows(s)'
    BY <1>2, <1>4, <2>1 DEF SlotInv, PairingKnows, IsPairing
  <2>4. InFlight(s)' <=> InFlight(s)
    BY <1>2 DEF InFlight
  <2> QED
    BY <1>2, <1>4, <2>1, <2>2, <2>3, <2>4 DEF SlotInv
<1> QED
  BY <1>1, <1>3, <1>5 DEF EntitlementInv

LEMMA EntitlementStep == EntitlementInv /\ [Next]_vars => EntitlementInv'
<1> SUFFICES ASSUME EntitlementInv, [Next]_vars PROVE EntitlementInv'
  OBVIOUS
<1>1. CASE HubNext /\ UNCHANGED factsVars
  <2>1. ASSUME NEW subject \in Subjects, NEW n \in Nonces, IssueNonce(subject, n)
        PROVE  EntitlementInv'
    BY <1>1, <2>1, NoSlot DEF IssueNonce
  <2>2. CASE Reap \/ Tick
    BY <1>1, <2>2, NoSlot DEF Reap, Tick
  <2> QED
    BY <1>1, <2>1, <2>2, ServeKeeps, RestartKeeps DEF HubNext
<1>2. CASE Transact
  BY <1>2, TransactKeeps
<1>3. CASE UNCHANGED vars
  BY <1>3, NoSlot DEF vars, hubVars
<1> QED
  BY <1>1, <1>2, <1>3 DEF Next

LEMMA EntitlementInvariant == Spec => []EntitlementInv
  BY EntitlementInit, EntitlementStep, PTL DEF Spec

\* No CONNECT is accepted unless at some instant while it was served the bot was
\* active, the signing key was its key and its operator was active; no pairing
\* request unless its signer owned the active operator at some such instant.
THEOREM AcceptedRequestsWereEntitled == Spec => []AcceptedWereEntitled
<1>1. EntitlementInv => AcceptedWereEntitled
  BY DEF EntitlementInv, SlotInv, AcceptedWereEntitled
<1> QED
  BY <1>1, EntitlementInvariant, PTL

--------------------------------------------------------------------------------
(* The pairing store.  ToldIsKept is inductive together with the types of the *)
(* three tables: a save writes every row, so it must not lose what an earlier *)
(* answer promised, and a restart falls back to the file.                     *)

NamesOperators(s) ==
    pc[s] # "idle" /\ request[s].kind \in {"add", "remove"} =>
        request[s].label \in OperatorNames /\ request[s].peer \in OperatorNames

StoreInv ==
    /\ SlotTypeOK
    /\ \A s \in Slots : NamesOperators(s)
    /\ allow \in [OperatorIds -> SUBSET OperatorIds]
    /\ disk \in [OperatorIds -> SUBSET OperatorIds]
    /\ settled \in [OperatorIds -> [OperatorIds -> Verdicts]]
    /\ ToldIsKept

LEMMA StoreInit == Init => StoreInv
  BY DEF Init, HubInit, StoreInv, SlotTypeOK, NamesOperators, ToldIsKept, Places, Waiting,
         Verdicts

\* Steps that touch neither the store nor what its owners were told.
LEMMA StoreUntouched ==
  ASSUME StoreInv, SlotTypeOK', \A s \in Slots : NamesOperators(s)',
         UNCHANGED <<allow, disk, settled>>
  PROVE  StoreInv'
  BY DEF StoreInv, ToldIsKept

\* A change sets one allowance and leaves all others.
LEMMA ChangedRows ==
  ASSUME StoreInv, NEW s \in Slots, pc[s] # "idle", request[s].kind \in {"add", "remove"}
  PROVE  LET o == IdOf[request[s].label]
             p == IdOf[request[s].peer]
             c == Changed(request[s])
         IN  /\ o \in OperatorIds /\ p \in OperatorIds
             /\ c \in [OperatorIds -> SUBSET OperatorIds]
             /\ p \in c[o] <=> request[s].kind = "add"
             /\ \A x, y \in OperatorIds : x # o \/ y # p => (y \in c[x] <=> y \in allow[x])
             /\ \A x \in OperatorIds : x # o => c[x] = allow[x]
<1> DEFINE o == IdOf[request[s].label]
           p == IdOf[request[s].peer]
<1>1. o \in OperatorIds /\ p \in OperatorIds
  BY NamesAssumption DEF StoreInv, NamesOperators
<1>2. CASE request[s].kind = "add"
  <2>1. Changed(request[s]) = [allow EXCEPT ![o] = allow[o] \cup {p}]
    BY <1>2 DEF Changed
  <2> HIDE DEF o, p
  <2>2. /\ Changed(request[s]) \in [OperatorIds -> SUBSET OperatorIds]
        /\ Changed(request[s])[o] = allow[o] \cup {p}
        /\ \A x \in OperatorIds : x # o => Changed(request[s])[x] = allow[x]
    BY <1>1, <2>1 DEF StoreInv
  <2> QED
    BY <1>1, <1>2, <2>2 DEF o, p
<1>3. CASE request[s].kind = "remove"
  <2>1. Changed(request[s]) = [allow EXCEPT ![o] = allow[o] \ {p}]
    BY <1>3 DEF Changed
  <2> HIDE DEF o, p
  <2>2. /\ Changed(request[s]) \in [OperatorIds -> SUBSET OperatorIds]
        /\ Changed(request[s])[o] = allow[o] \ {p}
        /\ \A x \in OperatorIds : x # o => Changed(request[s])[x] = allow[x]
    BY <1>1, <2>1 DEF StoreInv
  <2> QED
    BY <1>1, <1>3, <2>2 DEF o, p
<1> QED
  BY <1>2, <1>3

LEMMA PairDecidesStores ==
  ASSUME StoreInv, NEW s \in Slots, PairDecides(s)
  PROVE  StoreInv'
<1> DEFINE o == IdOf[request[s].label]
           p == IdOf[request[s].peer]
           v == IF request[s].kind = "add" THEN "in" ELSE "out"
<1>1. /\ pc[s] = "decide" /\ request[s].kind \in {"add", "remove"}
      /\ allow' = Changed(request[s]) /\ disk' = allow'
      /\ pc' = [pc EXCEPT ![s] = "accepted"]
      /\ settled' = [settled EXCEPT ![o][p] = v]
      /\ UNCHANGED <<request, row, entitled>>
  BY DEF PairDecides
<1>2. SlotTypeOK' /\ \A t \in Slots : NamesOperators(t)'
  BY <1>1 DEF StoreInv, SlotTypeOK, NamesOperators, Places
<1>3. /\ o \in OperatorIds /\ p \in OperatorIds
      /\ allow' \in [OperatorIds -> SUBSET OperatorIds]
      /\ p \in allow'[o] <=> request[s].kind = "add"
      /\ \A x, y \in OperatorIds : x # o \/ y # p => (y \in allow'[x] <=> y \in allow[x])
  BY <1>1, ChangedRows
<1>4. v \in Verdicts /\ (v = "in" <=> request[s].kind = "add") /\ (v = "in" \/ v = "out")
  BY DEF Verdicts
<1> HIDE DEF o, p, v
<1>5. /\ settled' \in [OperatorIds -> [OperatorIds -> Verdicts]]
      /\ settled'[o][p] = v
      /\ \A x, y \in OperatorIds : x # o \/ y # p => settled'[x][y] = settled[x][y]
  BY <1>1, <1>3, <1>4 DEF StoreInv
<1>6. ToldIsKept'
  <2>1. ASSUME NEW x \in OperatorIds, NEW y \in OperatorIds
        PROVE  /\ settled'[x][y] = "in"  => y \in allow'[x]
               /\ settled'[x][y] = "out" => y \notin allow'[x]
    BY <1>1, <1>3, <1>4, <1>5, <2>1 DEF StoreInv, ToldIsKept
  <2> QED
    BY <1>1, <2>1 DEF ToldIsKept
<1> QED
  BY <1>1, <1>2, <1>3, <1>5, <1>6 DEF StoreInv

LEMMA PairFailsToSaveStores ==
  ASSUME StoreInv, NEW s \in Slots, PairFailsToSave(s)
  PROVE  StoreInv'
<1> DEFINE o == IdOf[request[s].label]
           p == IdOf[request[s].peer]
<1>1. /\ pc[s] = "decide" /\ request[s].kind \in {"add", "remove"}
      /\ allow' = Changed(request[s]) /\ disk' = disk
      /\ settled' = [settled EXCEPT ![o][p] = "unknown"]
      /\ Vacate(s)
  BY DEF PairFailsToSave
<1>2. SlotTypeOK' /\ \A t \in Slots : NamesOperators(t)'
  BY <1>1 DEF StoreInv, SlotTypeOK, NamesOperators, Places, Waiting, Vacate
<1>3. /\ o \in OperatorIds /\ p \in OperatorIds
      /\ allow' \in [OperatorIds -> SUBSET OperatorIds]
      /\ \A x, y \in OperatorIds : x # o \/ y # p => (y \in allow'[x] <=> y \in allow[x])
  BY <1>1, ChangedRows
<1> HIDE DEF o, p
<1>5. /\ settled' \in [OperatorIds -> [OperatorIds -> Verdicts]]
      /\ settled'[o][p] = "unknown"
      /\ \A x, y \in OperatorIds : x # o \/ y # p => settled'[x][y] = settled[x][y]
  BY <1>1, <1>3 DEF StoreInv, Verdicts
<1>6. ToldIsKept'
  BY <1>1, <1>3, <1>5 DEF StoreInv, ToldIsKept
<1> QED
  BY <1>1, <1>2, <1>3, <1>5, <1>6 DEF StoreInv

LEMMA StoreStep == StoreInv /\ [Next]_vars => StoreInv'
<1> SUFFICES ASSUME StoreInv, [Next]_vars PROVE StoreInv'
  OBVIOUS
<1> USE DEF StoreInv
<1>1. ASSUME NEW s \in Slots, NEW b \in BotIds, NEW n \in Nonces, NEW signer \in Addresses,
             AuthArrives(s, b, n, signer)
      PROVE  StoreInv'
  BY <1>1, StoreUntouched
     DEF AuthArrives, Arrive, SlotTypeOK, NamesOperators, Places, Waiting, Entitled, Bound,
         Active
<1>2. ASSUME NEW s \in Slots, NEW kind \in {"add", "remove", "list"},
             NEW name \in OperatorNames, NEW peer \in OperatorNames \cup {None},
             NEW n \in Nonces, NEW signer \in Addresses,
             PairArrives(s, kind, name, peer, n, signer)
      PROVE  StoreInv'
  BY <1>2, StoreUntouched
     DEF PairArrives, Arrive, SlotTypeOK, NamesOperators, Places, Waiting, Entitled
<1>3. ASSUME NEW s \in Slots, Refuse(s)
      PROVE  StoreInv'
  BY <1>3, StoreUntouched DEF Refuse, Vacate, SlotTypeOK, NamesOperators, Places, Waiting
<1>4. ASSUME NEW s \in Slots, NEW place \in Places, NEW r, pc[s] # "idle",
             Proceed(s, place, r)
      PROVE  StoreInv'
  BY <1>4, StoreUntouched DEF Proceed, SlotTypeOK, NamesOperators
<1>5. ASSUME NEW s \in Slots, pc[s] # "idle", pc' = [pc EXCEPT ![s] = "accepted"],
             UNCHANGED <<request, row, entitled, allow, disk, settled>>
      PROVE  StoreInv'
  BY <1>5, StoreUntouched DEF SlotTypeOK, NamesOperators, Places
<1>6. ASSUME UNCHANGED <<pc, request, row, entitled, allow, disk, settled>>
      PROVE  StoreInv'
  BY <1>6, StoreUntouched DEF SlotTypeOK, NamesOperators
<1>7. ASSUME NEW s \in Slots, Serve(s)
      PROVE  StoreInv'
  <2>1. CASE AuthReadsBot(s) \/ AuthReadsOperator(s) \/ PairReadsOwner(s) \/ PairReadsPeer(s)
    BY <1>3, <1>4, <2>1
       DEF AuthReadsBot, AuthReadsOperator, PairReadsOwner, PairReadsPeer, Places, Waiting
  <2>2. CASE AuthDecides(s) \/ PairLists(s)
    BY <1>3, <1>5, <2>2 DEF AuthDecides, PairLists
  <2>3. CASE ReadFails(s) \/ Respond(s)
    BY <1>3, <2>3 DEF ReadFails, Respond
  <2> QED
    BY <1>1, <1>2, <1>7, <2>1, <2>2, <2>3, PairDecidesStores, PairFailsToSaveStores DEF Serve
<1>8. CASE Restart
  <2>1. /\ SlotTypeOK' /\ \A s \in Slots : NamesOperators(s)'
        /\ allow' = disk /\ UNCHANGED <<disk, settled>>
    BY <1>8 DEF Restart, SlotTypeOK, NamesOperators, Places, Waiting
  <2> QED
    BY <2>1 DEF ToldIsKept
<1>9. CASE Transact
  <2>1. /\ UNCHANGED <<pc, request, row, allow, disk, settled>>
        /\ entitled' = [s \in Slots |-> \/ entitled[s]
                                        \/ pc[s] \notin {"idle", "accepted"} /\ SignerEntitled(s)']
    BY <1>9 DEF Transact, Observe
  <2>2. SlotTypeOK' /\ \A s \in Slots : NamesOperators(s)'
    BY <2>1 DEF SlotTypeOK, NamesOperators
  <2> QED
    BY <2>1, <2>2, StoreUntouched
<1>10. CASE UNCHANGED vars
  BY <1>6, <1>10 DEF vars, hubVars
<1>11. ASSUME NEW subject \in Subjects, NEW n \in Nonces, IssueNonce(subject, n)
       PROVE  StoreInv'
  BY <1>6, <1>11 DEF IssueNonce
<1>12. CASE Reap \/ Tick
  BY <1>6, <1>12 DEF Reap, Tick
<1> QED
  BY <1>7, <1>8, <1>9, <1>10, <1>11, <1>12 DEF Next, HubNext

\* What an owner was told of an allowance is in the store and in the file, until
\* a later change of that same allowance.
THEOREM ToldAllowancesAreKept == Spec => []ToldIsKept
<1>1. StoreInv => ToldIsKept
  BY DEF StoreInv
<1> QED
  BY <1>1, StoreInit, StoreStep, PTL DEF Spec

LEMMA StoreInvariant == Spec => []StoreInv
  BY StoreInit, StoreStep, PTL DEF Spec

\* The step is the decision of a request whose signer owned o, or a restart.
ByOwner(o) ==
    \/ allow'[o] = disk[o] /\ \A s \in Slots : pc'[s] = "idle"
    \/ \E s \in Slots : /\ pc[s] = "decide" /\ pc'[s] # "decide"
                        /\ IdOf[request[s].label] = o /\ entitled[s]

LEMMA ChangeIsByOwner ==
  ASSUME EntitlementInv, StoreInv, NEW s \in Slots, PairDecides(s) \/ PairFailsToSave(s),
         NEW o \in OperatorIds, allow'[o] # allow[o]
  PROVE  ByOwner(o)
<1>1. /\ pc[s] = "decide" /\ request[s].kind \in {"add", "remove"}
      /\ allow' = Changed(request[s])
  BY DEF PairDecides, PairFailsToSave
<1>2. pc'[s] # "decide"
  BY DEF PairDecides, PairFailsToSave, Vacate, StoreInv, SlotTypeOK
<1>3. IdOf[request[s].label] = o
  BY <1>1, ChangedRows
<1>4. entitled[s]
  BY <1>1 DEF EntitlementInv, SlotInv, PairingKnows
<1> QED
  BY <1>1, <1>2, <1>3, <1>4 DEF ByOwner

LEMMA AllowListStep ==
  ASSUME EntitlementInv, StoreInv, [Next]_vars, NEW o \in OperatorIds, allow'[o] # allow[o]
  PROVE  ByOwner(o)
<1>1. allow' # allow
  OBVIOUS
<1>2. CASE Restart
  BY <1>2 DEF Restart, ByOwner
<1>3. ASSUME NEW s \in Slots, Serve(s)
      PROVE  ByOwner(o)
  <2>1. ASSUME NEW b \in BotIds, NEW n \in Nonces, NEW signer \in Addresses,
               AuthArrives(s, b, n, signer)
        PROVE  FALSE
    BY <1>1, <2>1 DEF AuthArrives, Arrive
  <2>2. ASSUME NEW kind \in {"add", "remove", "list"}, NEW name \in OperatorNames,
               NEW peer \in OperatorNames \cup {None}, NEW n \in Nonces,
               NEW signer \in Addresses, PairArrives(s, kind, name, peer, n, signer)
        PROVE  FALSE
    BY <1>1, <2>2 DEF PairArrives, Arrive
  <2>3. ~(AuthReadsBot(s) \/ AuthReadsOperator(s) \/ PairReadsOwner(s) \/ PairReadsPeer(s))
    BY <1>1 DEF AuthReadsBot, AuthReadsOperator, PairReadsOwner, PairReadsPeer, Proceed, Refuse
  <2>4. ~(AuthDecides(s) \/ PairLists(s) \/ ReadFails(s) \/ Respond(s))
    BY <1>1 DEF AuthDecides, PairLists, ReadFails, Respond, Refuse
  <2> QED
    BY <1>3, <2>1, <2>2, <2>3, <2>4, ChangeIsByOwner DEF Serve
<1> QED
  BY <1>1, <1>2, <1>3
     DEF Next, HubNext, IssueNonce, Reap, Tick, Transact, vars, hubVars

\* An allow-list never changes but by its operator's owner or by a restart.
THEOREM OnlyOwnersChangeAllowLists == Spec => AllowListsChangeByOwner
<1> DEFINE Change == \A o \in OperatorIds : allow'[o] # allow[o] => ByOwner(o)
<1>1. EntitlementInv /\ StoreInv /\ [Next]_vars => [Change]_vars
  BY AllowListStep
<1>2. AllowListsChangeByOwner <=> [][Change]_vars
  BY PTL DEF AllowListsChangeByOwner, ByOwner
<1> HIDE DEF Change
<1> QED
  BY <1>1, <1>2, EntitlementInvariant, StoreInvariant, PTL DEF Spec

--------------------------------------------------------------------------------
(* Nonces.  The entry of an accepted nonce is either gone from the Map or marked *)
(* used, and a nonce never comes back: that is what a later arrival runs into.   *)

Entry == [subject : Subjects \cup {None}, expiresAt : Nat, used : BOOLEAN]
Record == [fresh : BOOLEAN, at : Nat, to : Subjects \cup {None}]

NonceTypeOK ==
    /\ now \in Nat
    /\ nonces \in [Nonces -> Entry]
    /\ issued \in [Nonces -> Record]
    /\ pc \in [Slots -> Places]
    /\ request = [s \in Slots |-> request[s]]

EntriesMatch ==
    \A n \in Nonces :
        /\ nonces[n] # NoEntry =>
              /\ nonces[n].expiresAt = issued[n].at + NonceTTL
              /\ ~issued[n].fresh
              /\ n \in spent => nonces[n].used
        /\ issued[n].fresh => n \notin spent

ArrivedInTime(s) ==
    pc[s] # "idle" =>
        /\ request[s].nonce \in Nonces
        /\ ~issued[request[s].nonce].fresh
        /\ ~request[s].late
        /\ request[s].at <= issued[request[s].nonce].at + NonceTTL

NonceInv == NonceTypeOK /\ EntriesMatch /\ \A s \in Slots : ArrivedInTime(s)

LEMMA NonceInit == Init => NonceInv
  BY DEF Init, HubInit, NonceInv, NonceTypeOK, EntriesMatch, ArrivedInTime, Entry, Record,
         NoEntry, Unissued, Places, Waiting

\* Steps that leave the Map alone.
LEMMA NoncesUntouched ==
  ASSUME NonceInv, now' \in Nat, UNCHANGED <<nonces, issued, spent>>, pc' \in [Slots -> Places],
         request' = [s \in Slots |-> request'[s]], \A s \in Slots : ArrivedInTime(s)'
  PROVE  NonceInv'
  BY DEF NonceInv, NonceTypeOK, EntriesMatch

LEMMA ArriveInTime ==
  ASSUME NonceInv, NEW s \in Slots, NEW req, NEW subject, NEW place \in Places,
         Arrive(s, req, subject, place), req.nonce \in Nonces, req.at = now,
         req.late <=> req.nonce \in spent
  PROVE  NonceInv'
<1>1. /\ pc' = [pc EXCEPT ![s] = place]
      /\ request' = [request EXCEPT ![s] = req]
      /\ UNCHANGED <<now, nonces, issued, spent>>
      /\ NonceGood(req.nonce, subject)
  BY DEF Arrive
<1>2. /\ ~issued[req.nonce].fresh /\ req.nonce \notin spent
      /\ now <= issued[req.nonce].at + NonceTTL
  BY <1>1, TimesAssumption
     DEF NonceGood, NonceInv, EntriesMatch, NonceTypeOK, Entry, Record
<1>3. ASSUME NEW t \in Slots PROVE ArrivedInTime(t)'
  <2>1. CASE t = s
    <3>1. request'[s] = req
      BY <1>1 DEF NonceInv, NonceTypeOK
    <3> QED
      BY <1>1, <1>2, <2>1, <3>1 DEF ArrivedInTime
  <2>2. CASE t # s
    BY <1>1, <2>2 DEF ArrivedInTime, NonceInv, NonceTypeOK
  <2> QED
    BY <2>1, <2>2
<1> QED
  BY <1>1, <1>3, NoncesUntouched DEF NonceInv, NonceTypeOK

LEMMA VacateInTime ==
  ASSUME NonceInv, NEW s \in Slots, pc' = [pc EXCEPT ![s] = "idle"],
         request' = [request EXCEPT ![s] = None], UNCHANGED <<now, nonces, issued, spent>>
  PROVE  NonceInv'
  BY NoncesUntouched DEF NonceInv, NonceTypeOK, ArrivedInTime, Places

\* The handler stays with its request.
LEMMA MoveInTime ==
  ASSUME NonceInv, NEW s \in Slots, NEW place \in Places, pc[s] # "idle",
         pc' = [pc EXCEPT ![s] = place], UNCHANGED <<now, request, nonces, issued, spent>>
  PROVE  NonceInv'
  BY NoncesUntouched DEF NonceInv, NonceTypeOK, ArrivedInTime

LEMMA UsedUpdate ==
  ASSUME NEW x \in Entry
  PROVE  /\ [x EXCEPT !.used = TRUE] \in Entry
         /\ [x EXCEPT !.used = TRUE].expiresAt = x.expiresAt
         /\ [x EXCEPT !.used = TRUE].used
  BY DEF Entry

LEMMA SpendInTime ==
  ASSUME NonceInv, NEW s \in Slots, pc[s] # "idle", SpendNonce(request[s].nonce),
         UNCHANGED <<now, issued>>,
         \/ pc' = [pc EXCEPT ![s] = "accepted"] /\ UNCHANGED request
         \/ pc' = [pc EXCEPT ![s] = "idle"] /\ request' = [request EXCEPT ![s] = None]
  PROVE  NonceInv'
<1> DEFINE n == request[s].nonce
           e == [nonces[n] EXCEPT !.used = TRUE]
<1>1. n \in Nonces /\ ~issued[n].fresh
  BY DEF NonceInv, ArrivedInTime
<1>2. nonces[n] \in Entry
  BY <1>1 DEF NonceInv, NonceTypeOK
<1>3. e \in Entry /\ e.expiresAt = nonces[n].expiresAt /\ e.used
  BY <1>2, UsedUpdate
<1>4. /\ nonces' = IF nonces[n] = NoEntry THEN nonces ELSE [nonces EXCEPT ![n] = e]
      /\ spent' = spent \cup {n}
  BY DEF SpendNonce
<1> HIDE DEF e
<1>5. NonceTypeOK'
  <2>1. nonces' \in [Nonces -> Entry]
    BY <1>1, <1>3, <1>4 DEF NonceInv, NonceTypeOK
  <2> QED
    BY <2>1 DEF NonceInv, NonceTypeOK, Places
<1> HIDE DEF n
<1>6. EntriesMatch'
  <2>1. CASE nonces[n] = NoEntry
    <3>1. nonces' = nonces
      BY <1>4, <2>1
    <3> QED
      BY <1>1, <1>4, <2>1, <3>1 DEF NonceInv, EntriesMatch
  <2>2. CASE nonces[n] # NoEntry
    <3>1. nonces' = [nonces EXCEPT ![n] = e]
      BY <1>4, <2>2
    <3>2. nonces'[n] = e /\ \A m \in Nonces : m # n => nonces'[m] = nonces[m]
      BY <1>1, <3>1 DEF NonceInv, NonceTypeOK
    <3> QED
      BY <1>1, <1>3, <1>4, <2>2, <3>2 DEF NonceInv, EntriesMatch
  <2> QED
    BY <2>1, <2>2
<1>7. ASSUME NEW t \in Slots PROVE ArrivedInTime(t)'
  BY DEF NonceInv, NonceTypeOK, ArrivedInTime
<1> QED
  BY <1>5, <1>6, <1>7 DEF NonceInv

LEMMA IssueInTime ==
  ASSUME NonceInv, NEW subject \in Subjects, NEW n \in Nonces, IssueNonce(subject, n)
  PROVE  NonceInv'
<1> DEFINE e == [subject |-> subject, expiresAt |-> now + NonceTTL, used |-> FALSE]
           i == Issue(subject)
<1>1. /\ nonces' = [nonces EXCEPT ![n] = e] /\ issued' = [issued EXCEPT ![n] = i]
      /\ issued[n].fresh /\ UNCHANGED <<now, pc, request, spent>>
  BY DEF IssueNonce
<1>2. /\ e \in Entry /\ e.expiresAt = now + NonceTTL
      /\ i \in Record /\ i.at = now /\ ~i.fresh
  BY TimesAssumption DEF NonceInv, NonceTypeOK, Entry, Record, Issue
<1> HIDE DEF e, i
<1>3. /\ nonces' \in [Nonces -> Entry] /\ nonces'[n] = e
      /\ \A m \in Nonces : m # n => nonces'[m] = nonces[m]
      /\ issued' \in [Nonces -> Record] /\ issued'[n] = i
      /\ \A m \in Nonces : m # n => issued'[m] = issued[m]
  BY <1>1, <1>2 DEF NonceInv, NonceTypeOK
<1>4. NonceTypeOK' /\ EntriesMatch'
  BY <1>1, <1>2, <1>3 DEF NonceInv, NonceTypeOK, EntriesMatch
<1>5. ASSUME NEW s \in Slots PROVE ArrivedInTime(s)'
  BY <1>1, <1>3 DEF NonceInv, ArrivedInTime
<1> QED
  BY <1>4, <1>5 DEF NonceInv

LEMMA ReapInTime ==
  ASSUME NonceInv, Reap
  PROVE  NonceInv'
<1>1. /\ \A n \in Nonces : nonces'[n] = NoEntry \/ nonces'[n] = nonces[n]
      /\ nonces' \in [Nonces -> Entry]
      /\ UNCHANGED <<now, pc, request, issued, spent>>
  BY DEF Reap, NonceInv, NonceTypeOK, Entry, NoEntry
<1> QED
  BY <1>1 DEF NonceInv, NonceTypeOK, EntriesMatch, ArrivedInTime

LEMMA RestartInTime ==
  ASSUME NonceInv, Restart
  PROVE  NonceInv'
<1>1. /\ nonces' = [n \in Nonces |-> NoEntry]
      /\ pc' = [s \in Slots |-> "idle"] /\ request' = [s \in Slots |-> None]
      /\ issued' = [n \in Nonces |-> IF issued[n].fresh THEN Unissued ELSE Outlived]
      /\ UNCHANGED <<now, spent>>
  BY DEF Restart
<1>2. Unissued \in Record /\ Outlived \in Record /\ NoEntry \in Entry /\ ~Outlived.fresh
  BY DEF Unissued, Outlived, NoEntry, Record, Entry
<1>3. NonceTypeOK'
  BY <1>1, <1>2 DEF NonceInv, NonceTypeOK, Places
<1>4. EntriesMatch'
  BY <1>1, <1>2 DEF NonceInv, EntriesMatch
<1>5. ASSUME NEW s \in Slots PROVE ArrivedInTime(s)'
  BY <1>1 DEF ArrivedInTime
<1> QED
  BY <1>3, <1>4, <1>5 DEF NonceInv

LEMMA ServeInTime ==
  ASSUME NonceInv, NEW s \in Slots, Serve(s)
  PROVE  NonceInv'
<1>1. ASSUME NEW b \in BotIds, NEW n \in Nonces, NEW signer \in Addresses,
             AuthArrives(s, b, n, signer)
      PROVE  NonceInv'
  <2> DEFINE req == [kind |-> "connect", label |-> b, peer |-> None, nonce |-> n,
                     signer |-> signer, at |-> now, late |-> n \in spent]
  <2>1. Arrive(s, req, <<"bot", b>>, "readBot")
    BY <1>1 DEF AuthArrives
  <2>2. req.nonce = n /\ req.at = now /\ (req.late <=> n \in spent)
    OBVIOUS
  <2> HIDE DEF req
  <2> QED
    BY <2>1, <2>2, ArriveInTime DEF Places, Waiting
<1>2. ASSUME NEW kind \in {"add", "remove", "list"}, NEW name \in OperatorNames,
             NEW peer \in OperatorNames \cup {None}, NEW n \in Nonces,
             NEW signer \in Addresses, PairArrives(s, kind, name, peer, n, signer)
      PROVE  NonceInv'
  <2> DEFINE req == [kind |-> kind, label |-> name, peer |-> peer, nonce |-> n,
                     signer |-> signer, at |-> now, late |-> n \in spent]
  <2>1. Arrive(s, req, <<"operator", name>>, "readOwner")
    BY <1>2 DEF PairArrives
  <2>2. req.nonce = n /\ req.at = now /\ (req.late <=> n \in spent)
    OBVIOUS
  <2> HIDE DEF req
  <2> QED
    BY <2>1, <2>2, ArriveInTime DEF Places, Waiting
<1>3. ASSUME Refuse(s) PROVE NonceInv'
  BY <1>3, VacateInTime DEF Refuse, Vacate
<1>4. ASSUME NEW place \in Places, NEW r, pc[s] # "idle", Proceed(s, place, r)
      PROVE  NonceInv'
  BY <1>4, MoveInTime DEF Proceed
<1>5. CASE AuthReadsBot(s) \/ AuthReadsOperator(s) \/ PairReadsOwner(s) \/ PairReadsPeer(s)
  BY <1>3, <1>4, <1>5
     DEF AuthReadsBot, AuthReadsOperator, PairReadsOwner, PairReadsPeer, Places, Waiting
<1>6. CASE AuthDecides(s) \/ PairDecides(s) \/ PairLists(s)
  BY <1>3, <1>6, SpendInTime DEF AuthDecides, PairDecides, PairLists
<1>7. CASE PairFailsToSave(s)
  BY <1>7, SpendInTime DEF PairFailsToSave, Vacate
<1>8. CASE ReadFails(s) \/ Respond(s)
  BY <1>3, <1>8 DEF ReadFails, Respond
<1> QED
  BY <1>1, <1>2, <1>5, <1>6, <1>7, <1>8 DEF Serve

LEMMA NonceStep == NonceInv /\ [Next]_vars => NonceInv'
<1> SUFFICES ASSUME NonceInv, [Next]_vars PROVE NonceInv'
  OBVIOUS
<1>1. CASE Tick
  BY <1>1, NoncesUntouched DEF Tick, NonceInv, NonceTypeOK, ArrivedInTime
<1>2. CASE Transact \/ UNCHANGED vars
  BY <1>2, NoncesUntouched
     DEF Transact, vars, hubVars, NonceInv, NonceTypeOK, ArrivedInTime
<1> QED
  BY <1>1, <1>2, IssueInTime, ReapInTime, RestartInTime, ServeInTime DEF Next, HubNext

\* No request is accepted with a nonce that an earlier one had been accepted with
\* before it arrived, nor more than NonceTTL after its issue.
THEOREM NoncesAreAnsweredInTime == Spec => []AcceptedOnALiveNonce
<1>1. NonceInv => AcceptedOnALiveNonce
  BY DEF NonceInv, ArrivedInTime, AcceptedOnALiveNonce
<1> QED
  BY <1>1, NonceInit, NonceStep, PTL DEF Spec

--------------------------------------------------------------------------------
(* Induction over the naturals, for a property given as a set. *)

LEMMA NatLeast ==
  ASSUME NEW T, T \subseteq Nat, T # {}
  PROVE  \E x \in T : \A y \in T : x <= y
<1> DEFINE R == OpToRel(<, Nat)
<1>1. IsWellFoundedOn(R, Nat)
  BY NatLessThanWellFounded
<1>2. \A x, y \in Nat : x < y => <<x, y>> \in R
  BY DEF OpToRel
<1> HIDE DEF R
<1>3. PICK x \in T : \A y \in T : ~ (<<y, x>> \in R)
  BY <1>1, WFMin
<1>4. \A y \in T : ~ (y < x)
  BY <1>2, <1>3
<1> QED
  BY <1>3, <1>4

LEMMA SetInduction ==
  ASSUME NEW S, 0 \in S, \A n \in Nat : n \in S => n + 1 \in S
  PROVE  Nat \subseteq S
<1> DEFINE T == Nat \ S
<1> SUFFICES ASSUME T # {} PROVE FALSE
  OBVIOUS
<1>1. PICK x \in T : \A y \in T : x <= y
  BY NatLeast
<1>2. x # 0
  OBVIOUS
<1>3. x - 1 \in Nat /\ ~ (x <= x - 1)
  BY <1>2
<1>4. x - 1 \in S
  BY <1>1, <1>3
<1>5. (x - 1) + 1 \in S
  BY <1>3, <1>4
<1> QED
  BY <1>5

--------------------------------------------------------------------------------
(* The rate limit.  Recent is a recursive function, which is known here only as  *)
(* the CHOOSE it stands for: that there is such a function, and what each step   *)
(* of it returns, is shown by induction (FilterExists, RecentIsFilter), and that *)
(* it loses no time that is still in the window by another (FilterFinds).        *)

\* The time at position i is still in the window.
Live(times, i) == now - times[i] < RateWindow

\* The first n steps of the filter.
Filters(times, n) ==
    {f \in [0..n -> Seq(Nat)] :
        /\ f[0] = <<>>
        /\ \A i \in 1..n :
              f[i] = IF Live(times, i) THEN Append(f[i - 1], times[i]) ELSE f[i - 1]}

LEMMA FilterExists ==
  ASSUME NEW times \in Seq(Nat), now \in Nat
  PROVE  \A n \in Nat : n <= Len(times) => Filters(times, n) # {}
<1> DEFINE S == {n \in Nat : n <= Len(times) => Filters(times, n) # {}}
<1>1. 0 \in S
  <2>1. [i \in 0..0 |-> <<>>] \in Filters(times, 0)
    BY DEF Filters
  <2> QED
    BY <2>1
<1>2. \A n \in Nat : n \in S => n + 1 \in S
  <2> SUFFICES ASSUME NEW n \in Nat, n + 1 <= Len(times), NEW f \in Filters(times, n)
               PROVE  Filters(times, n + 1) # {}
    OBVIOUS
  <2> DEFINE last == IF Live(times, n + 1) THEN Append(f[n], times[n + 1]) ELSE f[n]
             g == [i \in 0..(n + 1) |-> IF i = n + 1 THEN last ELSE f[i]]
  <2>1. /\ f \in [0..n -> Seq(Nat)] /\ f[0] = <<>>
        /\ \A i \in 1..n :
              f[i] = IF Live(times, i) THEN Append(f[i - 1], times[i]) ELSE f[i - 1]
    BY DEF Filters
  <2>2. f[n] \in Seq(Nat) /\ times[n + 1] \in Nat
    <3>1. n \in 0..n
      OBVIOUS
    <3>2. n + 1 \in 1..Len(times)
      OBVIOUS
    <3>3. times[n + 1] \in Nat
      BY <3>2
    <3> QED
      BY <2>1, <3>1, <3>3
  <2>3. last \in Seq(Nat)
    BY <2>2
  <2>4. g \in [0..(n + 1) -> Seq(Nat)] /\ g[0] = <<>>
    BY <2>1, <2>3
  <2>5. ASSUME NEW i \in 1..(n + 1)
        PROVE  g[i] = IF Live(times, i) THEN Append(g[i - 1], times[i]) ELSE g[i - 1]
    <3>1. CASE i = n + 1
      <4>1. g[i] = last /\ g[i - 1] = f[n]
        BY <3>1
      <4> QED
        BY <3>1, <4>1
    <3>2. CASE i # n + 1
      <4>1. i \in 1..n /\ g[i] = f[i] /\ g[i - 1] = f[i - 1]
        BY <3>2
      <4> QED
        BY <2>1, <4>1
    <3> QED
      BY <3>1, <3>2
  <2> HIDE DEF g
  <2>6. g \in Filters(times, n + 1)
    BY <2>4, <2>5 DEF Filters
  <2> QED
    BY <2>6
<1> HIDE DEF S
<1>3. Nat \subseteq S
  BY <1>1, <1>2, SetInduction
<1> QED
  BY <1>3 DEF S

\* What the recursive function in Recent is made of.
Entries(times, f, i) ==
    IF i = 0 THEN <<>>
    ELSE IF now - times[i] < RateWindow THEN Append(f[i - 1], times[i])
    ELSE f[i - 1]

IsKept(times, f) == f = [i \in 0..Len(times) |-> Entries(times, f, i)]

LEMMA FilterIsKept ==
  ASSUME NEW times \in Seq(Nat), NEW g \in Filters(times, Len(times))
  PROVE  IsKept(times, g)
<1>1. /\ g \in [0..Len(times) -> Seq(Nat)] /\ g[0] = <<>>
      /\ \A i \in 1..Len(times) :
            g[i] = IF Live(times, i) THEN Append(g[i - 1], times[i]) ELSE g[i - 1]
  BY DEF Filters
<1>2. ASSUME NEW i \in 0..Len(times) PROVE g[i] = Entries(times, g, i)
  <2>1. CASE i = 0
    BY <1>1, <2>1 DEF Entries
  <2>2. CASE i # 0
    <3>1. i \in 1..Len(times)
      BY <2>2
    <3>2. g[i] = IF Live(times, i) THEN Append(g[i - 1], times[i]) ELSE g[i - 1]
      BY <1>1, <3>1
    <3> QED
      BY <2>2, <3>2 DEF Entries, Live
  <2> QED
    BY <2>1, <2>2
<1>3. g = [i \in 0..Len(times) |-> g[i]]
  BY <1>1
<1>4. [i \in 0..Len(times) |-> g[i]] = [i \in 0..Len(times) |-> Entries(times, g, i)]
  BY <1>2
<1> QED
  BY <1>3, <1>4 DEF IsKept

LEMMA KeptIsFilter ==
  ASSUME NEW times \in Seq(Nat), NEW kept, IsKept(times, kept)
  PROVE  kept \in Filters(times, Len(times))
<1>1. /\ kept = [i \in 0..Len(times) |-> kept[i]]
      /\ \A i \in 0..Len(times) : kept[i] = Entries(times, kept, i)
  <2>1. ASSUME NEW E(_), kept = [i \in 0..Len(times) |-> E(i)]
        PROVE  /\ kept = [i \in 0..Len(times) |-> kept[i]]
               /\ \A i \in 0..Len(times) : kept[i] = E(i)
    BY <2>1
  <2> QED
    BY <2>1 DEF IsKept
<1>2. kept[0] = <<>>
  <2>1. 0 \in 0..Len(times)
    OBVIOUS
  <2> QED
    BY <1>1, <2>1 DEF Entries
<1>3. ASSUME NEW i \in 1..Len(times)
      PROVE  kept[i] = IF Live(times, i) THEN Append(kept[i - 1], times[i]) ELSE kept[i - 1]
  <2>1. i \in 0..Len(times) /\ i # 0
    OBVIOUS
  <2> QED
    BY <1>1, <2>1 DEF Entries, Live
<1>4. \A i \in 0..Len(times) : kept[i] \in Seq(Nat)
  <2> DEFINE S == {i \in Nat : i <= Len(times) => kept[i] \in Seq(Nat)}
  <2>1. 0 \in S
    <3>1. <<>> \in Seq(Nat)
      OBVIOUS
    <3> QED
      BY <1>2, <3>1
  <2>2. \A i \in Nat : i \in S => i + 1 \in S
    <3> SUFFICES ASSUME NEW i \in Nat, i \in S, i + 1 <= Len(times)
                 PROVE  kept[i + 1] \in Seq(Nat)
      OBVIOUS
    <3>1. i + 1 \in 1..Len(times) /\ (i + 1) - 1 = i /\ i <= Len(times)
      OBVIOUS
    <3>2. kept[i] \in Seq(Nat) /\ times[i + 1] \in Nat
      BY <3>1
    <3>3. kept[i + 1] = IF Live(times, i + 1) THEN Append(kept[i], times[i + 1]) ELSE kept[i]
      BY <1>3, <3>1
    <3> QED
      BY <3>2, <3>3
  <2> HIDE DEF S
  <2>3. Nat \subseteq S
    BY <2>1, <2>2, SetInduction
  <2> QED
    BY <2>3 DEF S
<1>5. kept \in [0..Len(times) -> Seq(Nat)]
  BY <1>1, <1>4
<1> QED
  BY <1>2, <1>3, <1>5 DEF Filters

\* Recent is the end of the filter.
LEMMA RecentIsFilter ==
  ASSUME NEW subject \in Subjects, NEW times \in Seq(Nat), times = issueTimes[subject],
         now \in Nat
  PROVE  \E f \in Filters(times, Len(times)) : Recent(subject) = f[Len(times)]
<1> DEFINE kept == CHOOSE f : IsKept(times, f)
<1>1. Recent(subject) = kept[Len(times)]
  BY DEF Recent, IsKept, Entries
<1>2. Len(times) \in Nat
  OBVIOUS
<1>3. PICK g : g \in Filters(times, Len(times))
  BY <1>2, FilterExists
<1>4. IsKept(times, kept)
  <2>1. IsKept(times, g)
    BY <1>3, FilterIsKept
  <2> QED
    BY <2>1
<1>5. kept \in Filters(times, Len(times))
  BY <1>4, KeptIsFilter
<1> QED
  BY <1>1, <1>5

\* A way to find the live times of a list in its filtered list.
Finds(h, times, n, out) ==
    /\ h \in [{j \in 1..n : Live(times, j)} -> 1..Len(out)]
    /\ \A j \in DOMAIN h : out[h[j]] = times[j]
    /\ \A j, k \in DOMAIN h : h[j] = h[k] => j = k

LEMMA FilterFinds ==
  ASSUME NEW times \in Seq(Nat), NEW f \in Filters(times, Len(times)), now \in Nat
  PROVE  \E h : Finds(h, times, Len(times), f[Len(times)])
<1> DEFINE S == {n \in Nat : n <= Len(times) => \E h : Finds(h, times, n, f[n])}
<1>1. /\ f \in [0..Len(times) -> Seq(Nat)] /\ f[0] = <<>>
      /\ \A i \in 1..Len(times) :
            f[i] = IF Live(times, i) THEN Append(f[i - 1], times[i]) ELSE f[i - 1]
  BY DEF Filters
<1>2. 0 \in S
  <2>1. Finds([j \in {} |-> 0], times, 0, f[0])
    BY DEF Finds
  <2> QED
    BY <2>1
<1>3. \A n \in Nat : n \in S => n + 1 \in S
  <2> SUFFICES ASSUME NEW n \in Nat, n \in S
               PROVE  n + 1 \in S
    OBVIOUS
  <2> SUFFICES ASSUME n + 1 <= Len(times)
               PROVE  \E g : Finds(g, times, n + 1, f[n + 1])
    OBVIOUS
  <2>0. PICK h : Finds(h, times, n, f[n])
    OBVIOUS
  <2>1. /\ n + 1 \in 1..Len(times) /\ n \in 0..Len(times) /\ (n + 1) - 1 = n
        /\ f[n] \in Seq(Nat) /\ times[n + 1] \in Nat
    <3>1. n + 1 \in 1..Len(times) /\ n \in 0..Len(times) /\ (n + 1) - 1 = n
      OBVIOUS
    <3>2. times[n + 1] \in Nat
      BY <3>1
    <3> QED
      BY <1>1, <3>1, <3>2
  <2>2. CASE ~ Live(times, n + 1)
    <3>1. f[n + 1] = f[n]
      BY <1>1, <2>1, <2>2
    <3>2. {j \in 1..(n + 1) : Live(times, j)} = {j \in 1..n : Live(times, j)}
      BY <2>2
    <3>3. Finds(h, times, n + 1, f[n + 1])
      BY <2>0, <3>1, <3>2 DEF Finds
    <3> QED
      BY <3>3
  <2>3. CASE Live(times, n + 1)
    <3> DEFINE l == Len(f[n])
               g == [j \in {j \in 1..(n + 1) : Live(times, j)} |->
                        IF j = n + 1 THEN l + 1 ELSE h[j]]
    <3>1. f[n + 1] = Append(f[n], times[n + 1])
      BY <1>1, <2>1, <2>3
    <3>2. /\ Len(f[n + 1]) = l + 1 /\ l \in Nat
          /\ f[n + 1][l + 1] = times[n + 1]
          /\ \A i \in 1..l : f[n + 1][i] = f[n][i]
      BY <2>1, <3>1
    <3>3. ASSUME NEW j \in DOMAIN g, j # n + 1
          PROVE  j \in DOMAIN h /\ g[j] = h[j] /\ h[j] \in 1..l
      BY <2>0, <3>3 DEF Finds
    <3>4. n + 1 \in DOMAIN g => g[n + 1] = l + 1
      OBVIOUS
    <3>5. DOMAIN g = {j \in 1..(n + 1) : Live(times, j)} /\ g = [j \in DOMAIN g |-> g[j]]
      OBVIOUS
    <3> HIDE DEF g, l
    <3>6. \A j \in DOMAIN g : g[j] \in 1..Len(f[n + 1])
      BY <3>2, <3>3, <3>4
    <3>7. ASSUME NEW j \in DOMAIN g PROVE f[n + 1][g[j]] = times[j]
      <4>1. CASE j = n + 1
        BY <3>2, <3>4, <4>1
      <4>2. CASE j # n + 1
        <5>1. f[n + 1][g[j]] = f[n][h[j]] /\ j \in DOMAIN h
          BY <3>2, <3>3, <4>2
        <5> QED
          BY <2>0, <5>1 DEF Finds
      <4> QED
        BY <4>1, <4>2
    <3>8. \A j, k \in DOMAIN g : g[j] = g[k] => j = k
      BY <3>2, <3>3, <3>4, <2>0 DEF Finds
    <3>9. Finds(g, times, n + 1, f[n + 1])
      BY <3>5, <3>6, <3>7, <3>8 DEF Finds
    <3> QED
      BY <3>9
  <2> QED
    BY <2>2, <2>3
<1> HIDE DEF S
<1>4. Nat \subseteq S
  BY <1>2, <1>3, SetInduction
<1> QED
  BY <1>4 DEF S

--------------------------------------------------------------------------------

\* A way to find the live nonces of a subject in its list of times.
Locates(f, subject) ==
    /\ f \in [IssuesInWindow(subject, now) -> 1..Len(issueTimes[subject])]
    /\ \A n \in DOMAIN f : issueTimes[subject][f[n]] = issued[n].at
    /\ \A m, n \in DOMAIN f : f[m] = f[n] => m = n

Bounded(set) == IsFiniteSet(set) /\ Cardinality(set) <= RateMax

RateTypeOK ==
    /\ NonceInv
    /\ issueTimes \in [Subjects -> Seq(Nat)]
    /\ \A n \in Nonces : issued[n].at <= now

SubjectInv(subject) ==
    /\ \E f : Locates(f, subject)
    /\ \A t \in Nat : Bounded(IssuesInWindow(subject, t))

RateInv == RateTypeOK /\ \A subject \in Subjects : SubjectInv(subject)

LEMMA IntervalSize ==
  ASSUME NEW l \in Nat
  PROVE  IsFiniteSet(1..l) /\ Cardinality(1..l) = l
  BY FS_Interval

LEMMA AppendAtEnd ==
  ASSUME NEW times \in Seq(Nat), NEW t \in Nat
  PROVE  /\ Len(Append(times, t)) = Len(times) + 1
         /\ Append(times, t)[Len(times) + 1] = t
         /\ \A i \in 1..Len(times) : Append(times, t)[i] = times[i]
  OBVIOUS

LEMMA BoundedSubset ==
  ASSUME NEW S, Bounded(S), NEW T \in SUBSET S
  PROVE  Bounded(T)
<1>1. IsFiniteSet(T) /\ Cardinality(T) <= Cardinality(S)
  BY FS_Subset DEF Bounded
<1>2. Cardinality(S) \in Nat /\ Cardinality(T) \in Nat
  BY <1>1, FS_CardinalityType DEF Bounded
<1> QED
  BY <1>1, <1>2, TimesAssumption DEF Bounded

NoneLive == now \in Nat /\ \A n \in Nonces : issued[n].to \notin Subjects

LEMMA EmptyWindows == NoneLive => \A subject \in Subjects : SubjectInv(subject)
<1> SUFFICES ASSUME NoneLive, NEW subject \in Subjects PROVE SubjectInv(subject)
  OBVIOUS
<1>1. now \in Nat /\ \A t \in Nat : IssuesInWindow(subject, t) = {}
  BY DEF NoneLive, IssuesInWindow
<1>2. Locates([n \in {} |-> 0], subject)
  BY <1>1 DEF Locates
<1>3. Bounded({})
  BY FS_EmptySet, TimesAssumption DEF Bounded
<1> QED
  BY <1>1, <1>2, <1>3 DEF SubjectInv

LEMMA RateInit == Init => RateInv
<1> SUFFICES ASSUME Init PROVE RateInv
  OBVIOUS
<1>1. RateTypeOK
  BY NonceInit DEF Init, HubInit, RateTypeOK, Unissued
<1>2. NoneLive
  BY SubjectsAssumption DEF Init, HubInit, Unissued, NoneLive
<1>3. \A subject \in Subjects : SubjectInv(subject)
  BY <1>2, EmptyWindows
<1> QED
  BY <1>1, <1>3 DEF RateInv

\* A subject whose list does not change and whose windows only lose nonces.
LEMMA WindowsShrink ==
  ASSUME RateInv, RateTypeOK', NEW subject \in Subjects, now <= now',
         issueTimes'[subject] = issueTimes[subject],
         \A n \in Nonces : issued'[n].to = subject =>
            issued[n].to = subject /\ issued'[n].at = issued[n].at
  PROVE  SubjectInv(subject)'
<1> DEFINE V == IssuesInWindow(subject, now)
           W == {n \in Nonces : /\ issued'[n].to = subject /\ issued'[n].at <= now'
                                /\ now' - issued'[n].at < RateWindow}
<1>1. PICK f : Locates(f, subject)
  BY DEF RateInv, SubjectInv
<1>2. f \in [V -> 1..Len(issueTimes[subject])]
  BY <1>1 DEF Locates
<1>3. ASSUME NEW n \in W PROVE n \in V /\ issued'[n].at = issued[n].at
  <2>1. /\ issued[n].at \in Nat /\ issued[n].at <= now /\ now \in Nat /\ now' \in Nat
        /\ issued[n].to = subject /\ issued'[n].at = issued[n].at
    BY DEF RateInv, RateTypeOK, NonceInv, NonceTypeOK, Record
  <2> QED
    BY <2>1, TimesAssumption DEF IssuesInWindow
<1>4. IssuesInWindow(subject, now)' = W
  BY DEF IssuesInWindow
<1> HIDE DEF V, W
<1>5. PICK g : /\ g \in [W -> 1..Len(issueTimes[subject])]
               /\ \A n \in W : issueTimes[subject][g[n]] = issued'[n].at
               /\ \A m, n \in W : g[m] = g[n] => m = n
  <2> DEFINE r == [n \in W |-> f[n]]
  <2>1. /\ r \in [W -> 1..Len(issueTimes[subject])]
        /\ \A n \in W : issueTimes[subject][r[n]] = issued'[n].at
        /\ \A m, n \in W : r[m] = r[n] => m = n
    BY <1>1, <1>2, <1>3 DEF Locates
  <2> QED
    BY <2>1
<1>6. Locates(g, subject)'
  BY <1>4, <1>5 DEF Locates
<1>7. ASSUME NEW t \in Nat PROVE Bounded(IssuesInWindow(subject, t)')
  <2>1. IssuesInWindow(subject, t)' \subseteq IssuesInWindow(subject, t)
    BY DEF IssuesInWindow
  <2>2. Bounded(IssuesInWindow(subject, t))
    BY DEF RateInv, SubjectInv
  <2> QED
    BY <2>1, <2>2, BoundedSubset
<1> QED
  BY <1>6, <1>7 DEF SubjectInv, Bounded

LEMMA RateUntouched ==
  ASSUME RateInv, NonceInv', UNCHANGED <<now, issueTimes, issued>>
  PROVE  RateInv'
<1>1. RateTypeOK'
  BY DEF RateInv, RateTypeOK
<1>2. now <= now'
  BY DEF RateInv, RateTypeOK, NonceInv, NonceTypeOK
<1>3. ASSUME NEW subject \in Subjects PROVE SubjectInv(subject)'
  BY <1>1, <1>2, WindowsShrink
<1> QED
  BY <1>1, <1>3 DEF RateInv

LEMMA TickRates ==
  ASSUME RateInv, NonceInv', Tick
  PROVE  RateInv'
<1>1. /\ now' = now + 1 /\ UNCHANGED <<issueTimes, issued>> /\ now \in Nat
      /\ issued \in [Nonces -> Record]
  BY DEF Tick, RateInv, RateTypeOK, NonceInv, NonceTypeOK
<1>2. RateTypeOK' /\ now <= now'
  BY <1>1 DEF RateInv, RateTypeOK, Record
<1>3. ASSUME NEW subject \in Subjects PROVE SubjectInv(subject)'
  BY <1>1, <1>2, WindowsShrink
<1> QED
  BY <1>2, <1>3 DEF RateInv

LEMMA RestartRates ==
  ASSUME RateInv, NonceInv', Restart
  PROVE  RateInv'
<1>1. /\ now' = now /\ issueTimes' = [s \in Subjects |-> <<>>] /\ now \in Nat
      /\ issued' = [n \in Nonces |-> IF issued[n].fresh THEN Unissued ELSE Outlived]
  BY DEF Restart, RateInv, RateTypeOK, NonceInv, NonceTypeOK
<1>2. RateTypeOK'
  BY <1>1 DEF RateTypeOK, Unissued, Outlived
<1>3. NoneLive'
  BY <1>1, SubjectsAssumption DEF Unissued, Outlived, NoneLive
<1>4. (\A subject \in Subjects : SubjectInv(subject))'
  BY <1>3, EmptyWindows, PTL
<1> QED
  BY <1>2, <1>4 DEF RateInv

\* The subject that gets a nonce: its live nonces are found in the filtered list,
\* which was shorter than RateMax, and the new one is behind it.
LEMMA IssueToSubject ==
  ASSUME RateInv, RateTypeOK', NEW subject \in Subjects, NEW n \in Nonces,
         IssueNonce(subject, n)
  PROVE  SubjectInv(subject)'
<1> DEFINE times == issueTimes[subject]
           out == Recent(subject)
           V == IssuesInWindow(subject, now)
           W == {m \in Nonces : /\ issued'[m].to = subject /\ issued'[m].at <= now
                                /\ now - issued'[m].at < RateWindow}
<1>1. /\ now' = now /\ now \in Nat
      /\ issueTimes' = [issueTimes EXCEPT ![subject] = Append(out, now)]
      /\ issued' = [issued EXCEPT ![n] = Issue(subject)]
      /\ issued \in [Nonces -> Record] /\ times \in Seq(Nat)
      /\ Len(out) < RateMax
      /\ \A m \in Nonces : issued[m].at \in Nat /\ issued[m].at <= now
  BY DEF IssueNonce, RateInv, RateTypeOK, NonceInv, NonceTypeOK, Record
<1>2. issueTimes'[subject] = Append(out, now)
  BY <1>1 DEF RateInv, RateTypeOK
<1>3. /\ issued'[n].at = now /\ issued'[n].to = subject
      /\ \A m \in Nonces : m # n => issued'[m] = issued[m]
  BY <1>1 DEF Issue
<1>4. PICK f : Locates(f, subject)
  BY DEF RateInv, SubjectInv
<1>5. /\ out \in Seq(Nat)
      /\ \E h : Finds(h, times, Len(times), out)
  <2> HIDE DEF times
  <2>1. PICK k \in Filters(times, Len(times)) : out = k[Len(times)]
    BY <1>1, RecentIsFilter DEF times
  <2>2. k[Len(times)] \in Seq(Nat)
    <3>1. Len(times) \in 0..Len(times)
      BY <1>1
    <3> QED
      BY <3>1 DEF Filters
  <2> QED
    BY <1>1, <2>1, <2>2, FilterFinds
<1>6. PICK h : Finds(h, times, Len(times), out)
  BY <1>5
<1> DEFINE c == [m \in V |-> h[f[m]]]
<1>7. ASSUME NEW m \in V
      PROVE  /\ m \in Nonces /\ f[m] \in DOMAIN h
             /\ h[f[m]] \in 1..Len(out) /\ out[h[f[m]]] = issued[m].at
  <2>1. m \in Nonces /\ now - issued[m].at < RateWindow
    BY DEF IssuesInWindow
  <2>2. f[m] \in 1..Len(times) /\ times[f[m]] = issued[m].at
    BY <1>4 DEF Locates
  <2>3. f[m] \in DOMAIN h
    BY <1>6, <2>1, <2>2 DEF Finds, Live
  <2> QED
    BY <1>6, <2>1, <2>2, <2>3 DEF Finds
<1>8. ASSUME NEW m \in V, NEW k \in V, h[f[m]] = h[f[k]]
      PROVE  m = k
  <2>1. f[m] = f[k]
    BY <1>6, <1>7, <1>8 DEF Finds
  <2> QED
    BY <1>4, <2>1 DEF Locates
<1>9. c \in Injection(V, 1..Len(out))
  BY <1>7, <1>8 DEF Injection, IsInjective
<1>10. Len(out) \in Nat
  BY <1>5
<1>11. IsFiniteSet(V) /\ Cardinality(V) <= Len(out)
  <2>1. IsFiniteSet(1..Len(out)) /\ Cardinality(1..Len(out)) = Len(out)
    BY <1>10, IntervalSize
  <2> HIDE DEF c, V, out
  <2> QED
    BY <1>9, <2>1, FS_Injection
<1>12. ASSUME NEW t \in Nat PROVE Bounded(IssuesInWindow(subject, t)')
  <2>1. CASE t < now
    <3>1. IssuesInWindow(subject, t)' \subseteq IssuesInWindow(subject, t)
      BY <1>1, <1>3, <2>1 DEF IssuesInWindow
    <3>2. Bounded(IssuesInWindow(subject, t))
      BY DEF RateInv, SubjectInv
    <3> QED
      BY <3>1, <3>2, BoundedSubset
  <2>2. CASE t >= now
    <3>1. ASSUME NEW m \in Nonces, m # n, m \in IssuesInWindow(subject, t)'
          PROVE  m \in V
      <4>1. issued[m].to = subject /\ t - issued[m].at < RateWindow
        BY <1>3, <3>1 DEF IssuesInWindow
      <4>2. issued[m].at <= now /\ now - issued[m].at < RateWindow
        BY <1>1, <2>2, <4>1, TimesAssumption
      <4> QED
        BY <4>1, <4>2 DEF IssuesInWindow
    <3>2. IssuesInWindow(subject, t)' \in SUBSET (V \cup {n})
      BY <3>1 DEF IssuesInWindow
    <3> HIDE DEF V
    <3>3. IsFiniteSet(V \cup {n}) /\ Cardinality(V \cup {n}) <= Cardinality(V) + 1
      <4>1. Cardinality(V) \in Nat
        BY <1>11, FS_CardinalityType
      <4>2. /\ IsFiniteSet(V \cup {n})
            /\ Cardinality(V \cup {n}) = IF n \in V THEN Cardinality(V) ELSE Cardinality(V) + 1
        BY <1>11, FS_AddElement
      <4> QED
        BY <4>1, <4>2
    <3>4. Bounded(V \cup {n})
      BY <1>1, <1>10, <1>11, <3>3, FS_CardinalityType, TimesAssumption DEF Bounded
    <3> QED
      BY <3>2, <3>4, BoundedSubset
  <2> QED
    BY <1>1, <2>1, <2>2
<1> DEFINE l == Len(out)
           g == [m \in W |-> IF m = n THEN l + 1 ELSE h[f[m]]]
<1>13. ASSUME NEW m \in W, m # n
       PROVE  m \in V /\ m \in Nonces /\ issued'[m].at = issued[m].at
  BY <1>1, <1>3, <1>13 DEF IssuesInWindow
<1>0. IssuesInWindow(subject, now)' = W
  BY <1>1 DEF IssuesInWindow
<1>14. /\ Len(issueTimes'[subject]) = l + 1
       /\ issueTimes'[subject][l + 1] = now
       /\ \A i \in 1..l : issueTimes'[subject][i] = out[i]
  <2>1. out \in Seq(Nat) /\ now \in Nat
    BY <1>1, <1>5
  <2> HIDE DEF out
  <2>2. /\ Len(Append(out, now)) = l + 1
        /\ Append(out, now)[l + 1] = now
        /\ \A i \in 1..l : Append(out, now)[i] = out[i]
    BY <2>1, AppendAtEnd
  <2> QED
    BY <1>2, <2>2
<1> HIDE DEF V, W, out, times, c
<1>15. ASSUME NEW m \in W
       PROVE  g[m] \in 1..(l + 1) /\ issueTimes'[subject][g[m]] = issued'[m].at
  <2>1. CASE m = n
    BY <1>3, <1>10, <1>14, <2>1
  <2>2. CASE m # n
    <3>1. m \in V /\ issued'[m].at = issued[m].at
      BY <1>13, <2>2
    <3>2. h[f[m]] \in 1..l /\ out[h[f[m]]] = issued[m].at
      BY <1>7, <3>1
    <3> QED
      BY <1>10, <1>14, <2>2, <3>1, <3>2
  <2> QED
    BY <2>1, <2>2
<1>16. ASSUME NEW m \in W, NEW k \in W, g[m] = g[k]
       PROVE  m = k
  <2>1. \A j \in W : j # n => g[j] = h[f[j]] /\ h[f[j]] \in 1..l /\ j \in V
    BY <1>7, <1>13
  <2>2. n \in W => g[n] = l + 1
    OBVIOUS
  <2>3. \A j \in W : j # n => g[j] # l + 1
    BY <1>10, <2>1
  <2> QED
    BY <1>8, <1>16, <2>1, <2>2, <2>3
<1>17. g \in [W -> 1..(l + 1)]
  BY <1>15
<1> HIDE DEF g
<1>18. PICK r : /\ r \in [W -> 1..Len(issueTimes'[subject])]
                /\ \A m \in W : issueTimes'[subject][r[m]] = issued'[m].at
                /\ \A m, k \in W : r[m] = r[k] => m = k
  BY <1>14, <1>15, <1>16, <1>17
<1>19. Locates(r, subject)'
  BY <1>0, <1>18 DEF Locates
<1> QED
  BY <1>12, <1>19 DEF SubjectInv, Bounded

LEMMA IssueRates ==
  ASSUME RateInv, NonceInv', NEW subject \in Subjects, NEW n \in Nonces,
         IssueNonce(subject, n)
  PROVE  RateInv'
<1>1. /\ now' = now /\ now \in Nat
      /\ issueTimes' = [issueTimes EXCEPT ![subject] = Append(Recent(subject), now)]
      /\ issued' = [issued EXCEPT ![n] = Issue(subject)]
      /\ issued \in [Nonces -> Record] /\ issueTimes \in [Subjects -> Seq(Nat)]
  BY DEF IssueNonce, RateInv, RateTypeOK, NonceInv, NonceTypeOK
<1>2. /\ issued'[n].at = now /\ issued'[n].to = subject
      /\ \A m \in Nonces : m # n => issued'[m] = issued[m]
  BY <1>1 DEF Issue
<1>3. Recent(subject) \in Seq(Nat)
  <2> DEFINE times == issueTimes[subject]
  <2>1. times \in Seq(Nat)
    BY <1>1
  <2> HIDE DEF times
  <2>2. PICK k \in Filters(times, Len(times)) : Recent(subject) = k[Len(times)]
    BY <1>1, <2>1, RecentIsFilter DEF times
  <2>3. Len(times) \in 0..Len(times)
    BY <2>1
  <2> QED
    BY <2>2, <2>3 DEF Filters
<1>4. RateTypeOK'
  <2>1. issueTimes' \in [Subjects -> Seq(Nat)]
    BY <1>1, <1>3
  <2> QED
    BY <1>1, <1>2, <2>1 DEF RateInv, RateTypeOK
<1>5. ASSUME NEW u \in Subjects PROVE SubjectInv(u)'
  <2>1. CASE u = subject
    BY <1>4, <2>1, IssueToSubject
  <2>2. CASE u # subject
    <3>1. issueTimes'[u] = issueTimes[u]
      BY <1>1, <2>2
    <3>2. now <= now' /\ \A m \in Nonces : issued'[m].to = u =>
                              issued[m].to = u /\ issued'[m].at = issued[m].at
      BY <1>1, <1>2, <2>2
    <3> QED
      BY <1>4, <3>1, <3>2, WindowsShrink
  <2> QED
    BY <2>1, <2>2
<1> QED
  BY <1>4, <1>5 DEF RateInv

LEMMA RateStep == RateInv /\ [Next]_vars => RateInv'
<1> SUFFICES ASSUME RateInv, [Next]_vars PROVE RateInv'
  OBVIOUS
<1>1. NonceInv'
  BY NonceStep DEF RateInv, RateTypeOK
<1>2. ASSUME NEW s \in Slots, Serve(s) PROVE UNCHANGED <<now, issueTimes, issued>>
  <2>1. ASSUME NEW req, NEW subject, NEW place, Arrive(s, req, subject, place)
        PROVE  UNCHANGED <<now, issueTimes, issued>>
    BY <2>1 DEF Arrive
  <2>2. ASSUME NEW place, NEW r, Refuse(s) \/ Proceed(s, place, r)
        PROVE  UNCHANGED <<now, issueTimes, issued>>
    BY <2>2 DEF Refuse, Proceed
  <2>3. CASE \/ \E b \in BotIds, n \in Nonces, signer \in Addresses :
                    AuthArrives(s, b, n, signer)
             \/ \E kind \in {"add", "remove", "list"}, name \in OperatorNames,
                   peer \in OperatorNames \cup {None}, n \in Nonces, signer \in Addresses :
                   PairArrives(s, kind, name, peer, n, signer)
    BY <2>1, <2>3 DEF AuthArrives, PairArrives
  <2>4. CASE AuthReadsBot(s) \/ AuthReadsOperator(s) \/ PairReadsOwner(s) \/ PairReadsPeer(s)
    BY <2>2, <2>4 DEF AuthReadsBot, AuthReadsOperator, PairReadsOwner, PairReadsPeer
  <2>5. CASE AuthDecides(s) \/ PairDecides(s) \/ PairFailsToSave(s) \/ PairLists(s)
    BY <2>2, <2>5 DEF AuthDecides, PairDecides, PairFailsToSave, PairLists
  <2>6. CASE ReadFails(s) \/ Respond(s)
    BY <2>2, <2>6 DEF ReadFails, Respond
  <2> QED
    BY <1>2, <2>3, <2>4, <2>5, <2>6 DEF Serve
<1>3. CASE Reap \/ Transact \/ UNCHANGED vars
  BY <1>1, <1>3, RateUntouched DEF Reap, Transact, vars, hubVars
<1> QED
  BY <1>1, <1>2, <1>3, RateUntouched, TickRates, RestartRates, IssueRates
     DEF Next, HubNext

\* No subject gets more than RateMax nonces in any RateWindow, wherever the window lies.
THEOREM IssuanceIsBounded == Spec => []IssuanceBounded
<1>1. RateInv => IssuanceBounded
  BY TimesAssumption DEF RateInv, SubjectInv, Bounded, IssuanceBounded
<1> QED
  BY <1>1, RateInit, RateStep, PTL DEF Spec

--------------------------------------------------------------------------------
(* Types.  What the invariants above do not say of them: a request that reads  *)
(* the chain keeps a row of it, and the filter keeps times of the clock.       *)

Times == 0..MaxTime

HubRestOK ==
    /\ now \in Times
    /\ nonces \in [Nonces -> NonceEntry \cup {NoEntry}]
    /\ issueTimes \in [Subjects -> Seq(Times)]
    /\ request \in [Slots -> Request \cup {None}]
    /\ row \in [Slots -> BotRow \cup {None}]
    /\ spent \subseteq Nonces

TypesInv == EntitlementInv /\ StoreInv /\ RateInv /\ HubRestOK

LEMMA TypesInvGives == TypesInv => HubTypeOK
<1> SUFFICES ASSUME TypesInv PROVE HubTypeOK
  OBVIOUS
<1>1. /\ now \in Times /\ nonces \in [Nonces -> NonceEntry \cup {NoEntry}]
      /\ issueTimes \in [Subjects -> Seq(0..MaxTime)]
      /\ request \in [Slots -> Request \cup {None}]
      /\ row \in [Slots -> BotRow \cup {None}] /\ spent \subseteq Nonces
  BY DEF TypesInv, HubRestOK, Times
<1>2. issued \in [Nonces -> [fresh : BOOLEAN, at : 0..MaxTime, to : Subjects \cup {None}]]
  <2>1. issued \in [Nonces -> Record] /\ \A n \in Nonces : issued[n].at <= now
    BY DEF TypesInv, RateInv, RateTypeOK, NonceInv, NonceTypeOK
  <2>2. ASSUME NEW n \in Nonces
        PROVE  issued[n] \in [fresh : BOOLEAN, at : 0..MaxTime, to : Subjects \cup {None}]
    BY <1>1, <2>1, TimesAssumption DEF Record, Times
  <2> QED
    BY <2>1, <2>2
<1> QED
  BY <1>1, <1>2 DEF TypesInv, EntitlementInv, SlotTypeOK, StoreInv, HubTypeOK, Times

LEMMA TypesInit == Init => HubRestOK
  BY TimesAssumption DEF Init, HubInit, HubRestOK, Times

LEMMA SeqWidens ==
  ASSUME NEW S, NEW T, S \subseteq T, NEW q \in Seq(S)
  PROVE  q \in Seq(T)
<1>1. \A i \in 1..Len(q) : q[i] \in T
  OBVIOUS
<1>2. q = [i \in 1..Len(q) |-> q[i]] /\ Len(q) \in Nat
  OBVIOUS
<1> QED
  BY <1>1, <1>2

\* The filter returns times that it was given.
LEMMA FilterTimes ==
  ASSUME NEW times \in Seq(Times), NEW f \in Filters(times, Len(times))
  PROVE  f[Len(times)] \in Seq(Times)
<1> DEFINE S == {n \in Nat : n <= Len(times) => f[n] \in Seq(Times)}
<1>1. /\ f[0] = <<>>
      /\ \A i \in 1..Len(times) :
            f[i] = IF Live(times, i) THEN Append(f[i - 1], times[i]) ELSE f[i - 1]
  BY DEF Filters
<1>2. 0 \in S
  <2>1. <<>> \in Seq(Times)
    OBVIOUS
  <2> QED
    BY <1>1, <2>1
<1>3. ASSUME NEW n \in Nat, n \in S PROVE n + 1 \in S
  <2> SUFFICES ASSUME n + 1 <= Len(times) PROVE f[n + 1] \in Seq(Times)
    OBVIOUS
  <2>1. f[n] \in Seq(Times) /\ n + 1 \in 1..Len(times) /\ (n + 1) - 1 = n
    BY <1>3
  <2>2. times[n + 1] \in Times
    BY <2>1
  <2>3. f[n + 1] = IF Live(times, n + 1) THEN Append(f[n], times[n + 1]) ELSE f[n]
    BY <1>1, <2>1
  <2> HIDE DEF Times
  <2> QED
    BY <2>1, <2>2, <2>3
<1> HIDE DEF S
<1>4. \A n \in Nat : n \in S
  BY <1>2, <1>3, SetInduction
<1> QED
  BY <1>4 DEF S

LEMMA RecentTimes ==
  ASSUME HubRestOK, NEW subject \in Subjects
  PROVE  Recent(subject) \in Seq(Times)
<1> DEFINE times == issueTimes[subject]
<1>1. times \in Seq(Times) /\ Times \subseteq Nat /\ now \in Nat
  BY DEF HubRestOK, Times
<1>2. times \in Seq(Nat)
  BY <1>1, SeqWidens
<1>3. PICK f \in Filters(times, Len(times)) : Recent(subject) = f[Len(times)]
  BY <1>1, <1>2, RecentIsFilter
<1> QED
  BY <1>1, <1>3, FilterTimes

LEMMA RestUntouched ==
  ASSUME HubRestOK, UNCHANGED <<now, nonces, issueTimes, spent>>,
         request' \in [Slots -> Request \cup {None}], row' \in [Slots -> BotRow \cup {None}]
  PROVE  HubRestOK'
  BY DEF HubRestOK

LEMMA SpendTypes ==
  ASSUME HubRestOK, NEW n \in Nonces, SpendNonce(n), UNCHANGED <<now, issueTimes>>,
         request' \in [Slots -> Request \cup {None}], row' \in [Slots -> BotRow \cup {None}]
  PROVE  HubRestOK'
<1>1. nonces' \in [Nonces -> NonceEntry \cup {NoEntry}]
  <2>1. CASE nonces[n] = NoEntry
    BY <2>1 DEF SpendNonce, HubRestOK
  <2>2. CASE nonces[n] # NoEntry
    <3>1. nonces[n] \in NonceEntry /\ nonces' = [nonces EXCEPT ![n].used = TRUE]
      BY <2>2 DEF SpendNonce, HubRestOK
    <3>2. [nonces[n] EXCEPT !.used = TRUE] \in NonceEntry
      BY <3>1 DEF NonceEntry
    <3>3. nonces' = [nonces EXCEPT ![n] = [nonces[n] EXCEPT !.used = TRUE]]
      BY <3>1 DEF HubRestOK
    <3> QED
      BY <3>2, <3>3 DEF HubRestOK
  <2> QED
    BY <2>1, <2>2
<1> QED
  BY <1>1 DEF HubRestOK, SpendNonce

LEMMA ServeTypes ==
  ASSUME TypesInv, NEW s \in Slots, Serve(s)
  PROVE  HubRestOK'
<1>0. /\ HubRestOK /\ row \in [Slots -> BotRow \cup {None}]
      /\ request \in [Slots -> Request \cup {None}] /\ now \in Nat
  BY DEF TypesInv, HubRestOK, Times
<1>1. ASSUME NEW req \in Request, NEW subject, NEW place, Arrive(s, req, subject, place)
      PROVE  HubRestOK'
  BY <1>0, <1>1, RestUntouched DEF Arrive
<1>2. ASSUME Refuse(s) PROVE HubRestOK'
  BY <1>0, <1>2, RestUntouched DEF Refuse, Vacate
<1>3. ASSUME NEW place, NEW r \in BotRow \cup {None}, Proceed(s, place, r)
      PROVE  HubRestOK'
  BY <1>0, <1>3, RestUntouched DEF Proceed
<1>4. ASSUME pc[s] = "decide" PROVE request[s].nonce \in Nonces
  BY <1>4 DEF TypesInv, RateInv, RateTypeOK, NonceInv, ArrivedInTime
<1>5. ASSUME NEW b \in BotIds, NEW n \in Nonces, NEW signer \in Addresses,
             AuthArrives(s, b, n, signer)
      PROVE  HubRestOK'
  <2>1. [kind |-> "connect", label |-> b, peer |-> None, nonce |-> n,
         signer |-> signer, at |-> now, late |-> n \in spent] \in Request
    BY <1>0 DEF Request
  <2> QED
    BY <1>1, <1>5, <2>1 DEF AuthArrives
<1>6. ASSUME NEW kind \in {"add", "remove", "list"}, NEW name \in OperatorNames,
             NEW peer \in OperatorNames \cup {None}, NEW n \in Nonces,
             NEW signer \in Addresses, PairArrives(s, kind, name, peer, n, signer)
      PROVE  HubRestOK'
  <2>1. [kind |-> kind, label |-> name, peer |-> peer, nonce |-> n,
         signer |-> signer, at |-> now, late |-> n \in spent] \in Request
    BY <1>0, <1>6 DEF Request, PairArrives
  <2> QED
    BY <1>1, <1>6, <2>1 DEF PairArrives
<1>7. CASE AuthReadsBot(s)
  <2>1. bots[request[s].label] \in BotRow
    BY <1>7
       DEF AuthReadsBot, TypesInv, EntitlementInv, SlotInv, ConnectKnows, IsConnect, FactsInv,
           FactsTypeOK
  <2> QED
    BY <1>2, <1>3, <1>7, <2>1 DEF AuthReadsBot
<1>8. CASE AuthReadsOperator(s) \/ PairReadsOwner(s) \/ PairReadsPeer(s)
  BY <1>0, <1>2, <1>3, <1>8 DEF AuthReadsOperator, PairReadsOwner, PairReadsPeer
<1>9. CASE AuthDecides(s) \/ PairLists(s) \/ PairDecides(s)
  BY <1>0, <1>2, <1>4, <1>9, SpendTypes DEF AuthDecides, PairLists, PairDecides
<1>10. CASE PairFailsToSave(s)
  BY <1>0, <1>4, <1>10, SpendTypes DEF PairFailsToSave, Vacate
<1>11. CASE ReadFails(s) \/ Respond(s)
  BY <1>2, <1>11 DEF ReadFails, Respond
<1> QED
  BY <1>5, <1>6, <1>7, <1>8, <1>9, <1>10, <1>11 DEF Serve

LEMMA IssueTypes ==
  ASSUME HubRestOK, NEW subject \in Subjects, NEW n \in Nonces, IssueNonce(subject, n)
  PROVE  HubRestOK'
<1>1. now \in Times /\ now \in Nat /\ now + NonceTTL \in Nat
  BY TimesAssumption DEF HubRestOK, Times
<1>2. [subject |-> subject, expiresAt |-> now + NonceTTL, used |-> FALSE] \in NonceEntry
  BY <1>1 DEF NonceEntry
<1>3. Append(Recent(subject), now) \in Seq(Times)
  BY <1>1, RecentTimes
<1> QED
  BY <1>2, <1>3 DEF IssueNonce, HubRestOK

LEMMA TypesStep == TypesInv /\ [Next]_vars => HubRestOK'
<1> SUFFICES ASSUME TypesInv, [Next]_vars PROVE HubRestOK'
  OBVIOUS
<1>0. HubRestOK
  BY DEF TypesInv
<1>1. CASE Reap
  BY <1>0, <1>1 DEF Reap, HubRestOK
<1>2. CASE Tick
  BY <1>0, <1>2, TimesAssumption DEF Tick, HubRestOK, Times
<1>3. CASE Restart
  BY <1>0, <1>3 DEF Restart, HubRestOK
<1>4. CASE Transact \/ UNCHANGED vars
  BY <1>0, <1>4 DEF Transact, vars, hubVars, HubRestOK
<1> QED
  BY <1>0, <1>1, <1>2, <1>3, <1>4, ServeTypes, IssueTypes DEF Next, HubNext

\* Every variable of the service keeps its type.
THEOREM HubTypes == Spec => []HubTypeOK
  BY TypesInit, TypesStep, TypesInvGives, EntitlementInvariant, StoreInvariant, RateInit,
     RateStep, PTL DEF Spec, TypesInv

--------------------------------------------------------------------------------
(* The checks on /acl. *)

Sender == asked.username

\* The check goes on with the operators that the chain gives the bots.
KnowsSender == bots[Sender].status # "missing" /\ own = OperatorOf(Sender)
KnowsPeer   ==
    /\ bots[PeerOf(asked)].status # "missing"
    /\ other = OperatorOf(PeerOf(asked))

\* Both histories are up to date with the chain and the lists.
Watched ==
    check \in Checking =>
        /\ SenderLive(asked) => "sender" \in seen
        /\ PeersLive(asked) => "peer" \in seen
        /\ due => Due(asked)

Knows ==
    /\ check = "readOperator" =>
          KnowsSender /\ (Active(operators[own]) => "sender" \in seen)
    /\ check \in {"readPeer", "decide"} =>
          KnowsSender /\ "sender" \in seen /\ NeedsPeer(asked) /\ ~GrantedAlone(asked)
    /\ check = "decide" => KnowsPeer /\ "peer" \in seen

\* The inductive invariant.
AclInv ==
    /\ FactsInv
    /\ check # "idle" => asked \in AclRequest
    /\ Watched
    /\ Knows
    /\ GrantedWereLive
    /\ DueIsNotDenied

--------------------------------------------------------------------------------
(* The rules. *)

\* When a rule asks for the peer, it asks for the bot the topic names beside the
\* sender, or for the sender when the topic names no other.
LEMMA PeerNamed ==
  ASSUME NEW req \in AclRequest, NeedsPeer(req)
  PROVE  /\ PeerOf(req) \in req.topic.ends /\ PeerOf(req) \in BotIds
         /\ \A b \in req.topic.ends : b = req.username \/ b = PeerOf(req)
         /\ \A b \in req.topic.ends : req.topic.ends = {b} => b = PeerOf(req)
<1> DEFINE ends == req.topic.ends
<1>1. PICK a \in BotIds, b \in BotIds : ends = {a, b} /\ (a = b \/ req.username \in ends)
  <2>1. CASE req.topic.kind = "inbox"
    <3>1. req.topic \in [kind : {"status", "inbox", "tree"}, ends : {{b} : b \in BotIds}]
      BY <2>1 DEF AclRequest, Topics
    <3>2. PICK b \in BotIds : ends = {b}
      BY <3>1
    <3> QED
      BY <3>2
  <2>2. CASE req.topic.kind = "dm"
    <3>1. req.topic \in [kind : {"dm"}, ends : {{a, b} : a, b \in BotIds}]
      BY <2>2 DEF AclRequest, Topics
    <3>2. PICK a \in BotIds, b \in BotIds : ends = {a, b}
      BY <3>1
    <3> QED
      BY <2>2, <3>2 DEF NeedsPeer
  <2> QED
    BY <2>1, <2>2 DEF NeedsPeer
<1>2. CASE ends = {req.username}
  <2>1. PeerOf(req) = req.username
    BY <1>2 DEF PeerOf
  <2> QED
    BY <1>1, <1>2, <2>1
<1>3. CASE ends # {req.username}
  <2>1. PeerOf(req) = CHOOSE c \in ends : c # req.username
    BY <1>3 DEF PeerOf
  <2>2. \E c \in ends : c # req.username
    BY <1>1, <1>3
  <2>3. PeerOf(req) \in ends /\ PeerOf(req) # req.username
    BY <2>1, <2>2
  <2> QED
    BY <1>1, <2>3
<1> QED
  BY <1>2, <1>3

LEMMA SeesWhom ==
  ASSUME NEW req
  PROVE  /\ "sender" \in Sees(req) <=> SenderLive(req)
         /\ "peer" \in Sees(req) <=> PeersLive(req)
  BY DEF Sees

\* An active peer makes the topic's peers active.
LEMMA PeerLive ==
  ASSUME NEW req \in AclRequest, NeedsPeer(req)
  PROVE  PeersLive(req) <=> Active(bots[PeerOf(req)])
  BY PeerNamed DEF PeersLive

\* The rules that need no other row give exactly what the rights give without.
LEMMA AloneAgrees ==
  ASSUME NEW req \in AclRequest, req.acc # 3
  PROVE  /\ GrantedAlone(req) => PolicyAllows(req)
         /\ PolicyAllows(req) => GrantedAlone(req) \/ NeedsPeer(req)
<1>1. IsSubscribe(req.acc) <=> req.acc \in {1, 4}
  BY DEF IsSubscribe
<1>2. IsPublish(req.acc) <=> req.acc = 2
  BY DEF IsPublish
<1>3. ASSUME req.topic.kind = "inbox", req.topic.ends = {req.username}
      PROVE  Writable(req.username, req.topic)
  BY <1>3 DEF Writable
<1> QED
  BY <1>1, <1>2, <1>3 DEF GrantedAlone, NeedsPeer, PolicyAllows, Readable, Writable

\* With the operators the chain gives the two bots, the lists decide a request
\* as the rights do.
LEMMA ListsAgree ==
  ASSUME asked \in AclRequest, asked.acc # 3, NeedsPeer(asked),
         own = OperatorOf(Sender), other = OperatorOf(PeerOf(asked)),
         ~GrantedAlone(asked)
  PROVE  AllowedByLists(asked) <=> PolicyAllows(asked)
<1> DEFINE p == PeerOf(asked)
<1>1. /\ p \in asked.topic.ends
      /\ \A b \in asked.topic.ends : b = Sender \/ b = p
      /\ \A b \in asked.topic.ends : asked.topic.ends = {b} => b = p
  BY PeerNamed DEF Sender
<1>2. CASE asked.topic.kind = "inbox"
  <2>1. asked.acc = 2
    BY <1>2 DEF NeedsPeer, IsPublish
  <2>2. asked.topic.ends = {p}
    <3>1. asked.topic \in [kind : {"status", "inbox", "tree"}, ends : {{b} : b \in BotIds}]
      BY <1>2 DEF AclRequest, Topics
    <3>2. PICK b \in BotIds : asked.topic.ends = {b}
      BY <3>1
    <3> QED
      BY <1>1, <3>2
  <2>3. p # Sender
    BY <1>2, <2>1, <2>2 DEF GrantedAlone, IsPublish, Sender
  <2>4. PolicyAllows(asked) <=>
           \/ OperatorOf(Sender) \in lists[OperatorOf(p)] \cup {OperatorOf(p)}
           \/ Sender \in AllowBotIds[OperatorOf(p)]
    BY <1>2, <2>1, <2>2, <2>3 DEF PolicyAllows, Writable, Sender
  <2> QED
    BY <1>2, <2>4 DEF AllowedByLists, AllowsOperator, AllowsBot, Sender
<1>3. CASE asked.topic.kind = "dm"
  <2>1. Sender \in asked.topic.ends
    BY <1>3 DEF NeedsPeer, Sender
  <2>2. (\A c \in asked.topic.ends : Agree(OperatorOf(Sender), OperatorOf(c)))
           <=> Agree(own, other)
    BY <1>1, <2>1 DEF Agree
  <2>3. asked.acc \in {1, 2, 4}
    BY <1>3 DEF NeedsPeer, IsSubscribe, IsPublish
  <2>4. PolicyAllows(asked) <=> Agree(own, other)
    BY <1>3, <2>1, <2>2, <2>3 DEF PolicyAllows, Readable, Writable, Sender
  <2> QED
    BY <1>3, <2>4 DEF AllowedByLists, AllowsOperator, Agree
<1> QED
  BY <1>2, <1>3 DEF NeedsPeer

--------------------------------------------------------------------------------
(* The steps. *)

LEMMA AclInitInv == AclInit => AclInv
  BY FactsInitInv
     DEF AclInit, AclInv, Watched, Knows, GrantedWereLive, DueIsNotDenied, Checking, Reading

LEMMA FactsStay ==
  ASSUME FactsInv, UNCHANGED factsVars
  PROVE  FactsInv'
  BY DEF FactsInv, FactsTypeOK, BotsHaveOperators, factsVars

\* A verdict that the invariant allows.
LEMMA AnswerKeeps ==
  ASSUME AclInv, UNCHANGED factsVars, check # "idle",
         NEW verdict \in Decisions, Answer(verdict),
         verdict = "granted" =>
            /\ "sender" \in seen
            /\ NeedsPeer(asked) /\ ~GrantedAlone(asked) => "peer" \in seen,
         verdict = "denied" => ~due
  PROVE  AclInv'
<1>1. FactsInv' /\ (check' # "idle" => asked' \in AclRequest)
  BY FactsStay DEF AclInv, Answer
<1>2. Watched' /\ Knows'
  BY DEF Answer, Decisions, Watched, Knows, Checking, Reading
<1>3. NeedsPeer(asked)' <=> NeedsPeer(asked)
  BY DEF Answer, NeedsPeer
<1>4. GrantedAlone(asked)' <=> GrantedAlone(asked)
  BY DEF Answer, GrantedAlone
<1>5. GrantedWereLive' /\ DueIsNotDenied'
  BY <1>3, <1>4 DEF Answer, GrantedWereLive, DueIsNotDenied
<1> QED
  BY <1>1, <1>2, <1>5 DEF AclInv

\* The check goes on.
LEMMA AclProceedKeeps ==
  ASSUME AclInv, UNCHANGED factsVars, check \in Checking,
         NEW place \in Checking, NEW o, NEW p, AclProceed(place, o, p), Knows'
  PROVE  AclInv'
<1>1. FactsInv' /\ asked' \in AclRequest
  BY FactsStay DEF AclInv, AclProceed, Checking, Reading
<1>2. Watched'
  BY DEF AclInv, Watched, AclProceed, SenderLive, PeersLive, Due, PolicyAllows, Readable,
         Writable, Agree, OperatorOf, Active, factsVars
<1>3. GrantedWereLive' /\ DueIsNotDenied'
  BY DEF AclProceed, GrantedWereLive, DueIsNotDenied, Checking, Reading
<1> QED
  BY <1>1, <1>2, <1>3 DEF AclInv

LEMMA AclArriveKeeps ==
  ASSUME AclInv, UNCHANGED factsVars, NEW b \in BotIds, NEW topic \in Topics,
         NEW acc \in Accs, AclArrives(b, topic, acc)
  PROVE  AclInv'
<1> DEFINE req == [username |-> b, topic |-> topic, acc |-> acc]
<1>1. req \in AclRequest
  BY DEF AclRequest
<1>2. /\ check' = "readBot" /\ asked' = req /\ seen' = Sees(req) /\ due' = Due(req)
      /\ lists' = lists
  BY DEF AclArrives
<1> HIDE DEF req
<1>3. FactsInv'
  BY FactsStay DEF AclInv
<1>4. /\ SenderLive(asked)' <=> SenderLive(req)
      /\ PeersLive(asked)' <=> PeersLive(req)
      /\ Due(asked)' <=> Due(req)
  BY <1>2 DEF SenderLive, PeersLive, Due, PolicyAllows, Readable, Writable, Agree,
              OperatorOf, Active, factsVars
<1>5. Watched'
  BY <1>2, <1>4, SeesWhom DEF Watched
<1>6. Knows' /\ GrantedWereLive' /\ DueIsNotDenied'
  BY <1>2 DEF Knows, GrantedWereLive, DueIsNotDenied
<1> QED
  BY <1>1, <1>2, <1>3, <1>5, <1>6 DEF AclInv

LEMMA ReadsBotKeeps ==
  ASSUME AclInv, UNCHANGED factsVars, AclReadsBot
  PROVE  AclInv'
<1>1. check = "readBot" /\ asked \in AclRequest /\ Sender \in BotIds
  BY DEF AclReadsBot, AclInv, AclRequest, Sender
<1>2. CASE ~Active(bots[Sender])
  <2>1. ~due
    BY <1>1, <1>2 DEF AclInv, Watched, Checking, Reading, Due, SenderLive, Sender
  <2>2. Answer("denied")
    BY <1>2 DEF AclReadsBot, Sender
  <2> QED
    BY <1>1, <2>1, <2>2, AnswerKeeps DEF Decisions
<1>3. CASE Active(bots[Sender])
  <2>1. AclProceed("readOperator", OperatorOf(Sender), None)
    BY <1>3 DEF AclReadsBot, Sender
  <2>2. KnowsSender'
    BY <1>3, <2>1 DEF AclProceed, KnowsSender, Sender, OperatorOf, Active, factsVars
  <2>3. Active(operators[own])' => "sender" \in seen'
    BY <1>1, <1>3, <2>1
       DEF AclProceed, AclInv, Watched, Checking, Reading, SenderLive, Sender, OperatorOf,
           Active, factsVars
  <2>4. Knows'
    BY <2>1, <2>2, <2>3 DEF Knows, AclProceed
  <2> QED
    BY <1>1, <2>1, <2>4, AclProceedKeeps DEF Checking, Reading
<1> QED
  BY <1>2, <1>3

LEMMA ReadsOperatorKeeps ==
  ASSUME AclInv, UNCHANGED factsVars, AclReadsOperator
  PROVE  AclInv'
<1>1. check = "readOperator" /\ asked \in AclRequest /\ KnowsSender
  BY DEF AclReadsOperator, AclInv, Knows
<1>2. due => SenderLive(asked) /\ PolicyAllows(asked)
  BY <1>1 DEF AclInv, Watched, Checking, Reading, Due
<1>3. PolicyAllows(asked) => GrantedAlone(asked) \/ NeedsPeer(asked)
  <2>1. PolicyAllows(asked) => asked.acc # 3
    BY DEF PolicyAllows
  <2> QED
    BY <1>1, <2>1, AloneAgrees
<1>4. CASE ~Active(operators[own])
  BY <1>1, <1>2, <1>4, AnswerKeeps
     DEF AclReadsOperator, KnowsSender, SenderLive, Sender, Decisions
<1>5. CASE Active(operators[own])
  <2>1. Evaluate /\ "sender" \in seen
    BY <1>1, <1>5 DEF AclReadsOperator, AclInv, Knows
  <2>2. CASE GrantedAlone(asked)
    BY <1>1, <2>1, <2>2, AnswerKeeps DEF Evaluate, Decisions
  <2>3. CASE ~GrantedAlone(asked) /\ NeedsPeer(asked)
    <3>1. AclProceed("readPeer", own, None)
      BY <2>1, <2>3 DEF Evaluate
    <3>2. KnowsSender' /\ NeedsPeer(asked)' /\ ~GrantedAlone(asked)'
      BY <1>1, <2>3, <3>1
         DEF AclProceed, KnowsSender, Sender, OperatorOf, NeedsPeer, GrantedAlone, factsVars
    <3>3. Knows'
      BY <2>1, <3>1, <3>2 DEF Knows, AclProceed
    <3> QED
      BY <1>1, <3>1, <3>3, AclProceedKeeps DEF Checking, Reading
  <2>4. CASE ~GrantedAlone(asked) /\ ~NeedsPeer(asked)
    BY <1>1, <1>2, <1>3, <2>1, <2>4, AnswerKeeps DEF Evaluate, Decisions
  <2> QED
    BY <2>2, <2>3, <2>4
<1> QED
  BY <1>4, <1>5

LEMMA ReadsPeerKeeps ==
  ASSUME AclInv, UNCHANGED factsVars, AclReadsPeer
  PROVE  AclInv'
<1> DEFINE p == PeerOf(asked)
<1>1. /\ check = "readPeer" /\ asked \in AclRequest /\ KnowsSender /\ "sender" \in seen
      /\ NeedsPeer(asked) /\ ~GrantedAlone(asked)
  BY DEF AclReadsPeer, AclInv, Knows
<1>2. PeersLive(asked) <=> Active(bots[p])
  BY <1>1, PeerLive
<1>3. CASE ~Active(bots[p])
  <2>1. ~due
    BY <1>1, <1>2, <1>3 DEF AclInv, Watched, Checking, Reading, Due
  <2> QED
    BY <1>1, <1>3, <2>1, AnswerKeeps DEF AclReadsPeer, Decisions
<1>4. CASE Active(bots[p])
  <2>1. AclProceed("decide", own, OperatorOf(p))
    BY <1>4 DEF AclReadsPeer
  <2>2. "peer" \in seen
    BY <1>1, <1>2, <1>4 DEF AclInv, Watched, Checking, Reading
  <2>3. KnowsSender' /\ NeedsPeer(asked)' /\ ~GrantedAlone(asked)'
    BY <1>1, <2>1
       DEF AclProceed, KnowsSender, Sender, OperatorOf, NeedsPeer, GrantedAlone, factsVars
  <2>4. PeerOf(asked)' = p
    BY <2>1 DEF AclProceed, PeerOf
  <2>5. KnowsPeer'
    BY <1>4, <2>1, <2>4 DEF AclProceed, KnowsPeer, OperatorOf, Active, factsVars
  <2>6. Knows'
    BY <1>1, <2>1, <2>2, <2>3, <2>5 DEF Knows, AclProceed
  <2> QED
    BY <1>1, <2>1, <2>6, AclProceedKeeps DEF Checking, Reading
<1> QED
  BY <1>3, <1>4

LEMMA DecidesKeeps ==
  ASSUME AclInv, UNCHANGED factsVars, AclDecides
  PROVE  AclInv'
<1>1. /\ check = "decide" /\ asked \in AclRequest /\ KnowsSender /\ KnowsPeer
      /\ "sender" \in seen /\ "peer" \in seen
      /\ NeedsPeer(asked) /\ ~GrantedAlone(asked)
  BY DEF AclDecides, AclInv, Knows
<1>2. due => PolicyAllows(asked) /\ asked.acc # 3
  BY <1>1 DEF AclInv, Watched, Checking, Reading, Due, PolicyAllows
<1>3. due => AllowedByLists(asked)
  BY <1>1, <1>2, ListsAgree DEF KnowsSender, KnowsPeer
<1> QED
  BY <1>1, <1>3, AnswerKeeps DEF AclDecides, Decisions

\* The lists or the registry change while the check is where it is.
LEMMA WorldKeeps ==
  ASSUME AclInv, UNCHANGED <<check, asked, own, other>>, AclObserve,
         FactsInv', OperatorsOnlyFade, BotsKeepOperators
  PROVE  AclInv'
<1>1. CASE check \in Checking
  <2>1. asked \in AclRequest /\ Sender \in BotIds
    BY <1>1 DEF AclInv, Checking, Reading, AclRequest, Sender
  <2>2. seen' = seen \cup Sees(asked)' /\ due' = (due /\ Due(asked)')
    BY <1>1 DEF AclObserve
  <2>3. Watched'
    BY <1>1, <2>2, SeesWhom DEF Watched, Sees
  <2>4. /\ NeedsPeer(asked)' <=> NeedsPeer(asked)
        /\ GrantedAlone(asked)' <=> GrantedAlone(asked)
        /\ PeerOf(asked)' = PeerOf(asked)
    BY DEF NeedsPeer, GrantedAlone, PeerOf
  <2>5. KnowsSender => KnowsSender'
    BY <2>1 DEF KnowsSender, BotsKeepOperators, OperatorOf, Sender
  <2>6. NeedsPeer(asked) /\ KnowsPeer => KnowsPeer'
    BY <2>1, <2>4, PeerNamed DEF KnowsPeer, BotsKeepOperators, OperatorOf
  <2>7. KnowsSender /\ Active(operators'[own]) => Active(operators[own])
    BY <2>1
       DEF AclInv, FactsInv, BotsHaveOperators, KnowsSender, OperatorsOnlyFade, OperatorOf
  <2>8. Knows'
    BY <2>2, <2>4, <2>5, <2>6, <2>7 DEF AclInv, Knows, Active
  <2>9. GrantedWereLive' /\ DueIsNotDenied'
    BY <1>1 DEF GrantedWereLive, DueIsNotDenied, Checking, Reading
  <2> QED
    BY <2>1, <2>3, <2>8, <2>9 DEF AclInv
<1>2. CASE check \notin Checking
  <2>1. seen' = seen /\ ~due'
    BY <1>2 DEF AclObserve
  <2>2. Watched' /\ Knows' /\ DueIsNotDenied'
    BY <1>2, <2>1 DEF Watched, Knows, DueIsNotDenied, Checking, Reading
  <2>3. /\ NeedsPeer(asked)' <=> NeedsPeer(asked)
        /\ GrantedAlone(asked)' <=> GrantedAlone(asked)
    BY DEF NeedsPeer, GrantedAlone
  <2>4. GrantedWereLive'
    BY <2>1, <2>3 DEF AclInv, GrantedWereLive
  <2> QED
    BY <2>2, <2>4 DEF AclInv
<1> QED
  BY <1>1, <1>2

\* A restart ends the check.
LEMMA HubRestartsKeeps ==
  ASSUME AclInv, HubRestarts
  PROVE  AclInv'
<1>1. FactsInv'
  BY FactsStay DEF HubRestarts, AclInv
<1>2. check' = "idle" /\ ~due'
  BY DEF HubRestarts
<1> QED
  BY <1>1, <1>2
     DEF AclInv, Watched, Knows, GrantedWereLive, DueIsNotDenied, Checking, Reading

LEMMA AclStep == AclInv /\ [AclNext]_checkVars => AclInv'
<1> SUFFICES ASSUME AclInv, [AclNext]_checkVars PROVE AclInv'
  OBVIOUS
<1>1. CASE Check /\ UNCHANGED factsVars
  <2>1. CASE AclReadFails
    BY <1>1, <2>1, AnswerKeeps DEF AclReadFails, Reading, Decisions
  <2>2. CASE AclDone
    BY <1>1, <2>2, FactsStay
       DEF AclDone, AclInv, Watched, Knows, GrantedWereLive, DueIsNotDenied, Checking, Reading
  <2> QED
    BY <1>1, <2>1, <2>2, AclArriveKeeps, ReadsBotKeeps, ReadsOperatorKeeps, ReadsPeerKeeps,
       DecidesKeeps DEF Check
<1>2. CASE ListChanges
  <2>1. FactsInv' /\ OperatorsOnlyFade /\ BotsKeepOperators
    BY <1>2, FactsStay
       DEF ListChanges, AclInv, OperatorsOnlyFade, BotsKeepOperators, factsVars, Active
  <2> QED
    BY <1>2, <2>1, WorldKeeps DEF ListChanges
<1>3. CASE AclTransact
  BY <1>3, FactsStep, WorldKeeps DEF AclTransact, AclInv
<1>4. CASE UNCHANGED checkVars
  <2>1. FactsInv'
    BY <1>4, FactsStay DEF AclInv, checkVars
  <2> QED
    BY <1>4, <2>1
       DEF checkVars, aclVars, factsVars, AclInv, Watched, Knows, GrantedWereLive, DueIsNotDenied,
           KnowsSender, KnowsPeer, Sender, OperatorOf, SenderLive, PeersLive, Due,
           PolicyAllows, Readable, Writable, Agree, NeedsPeer, GrantedAlone, PeerOf, Active
<1>5. CASE HubRestarts
  BY <1>5, HubRestartsKeeps
<1> QED
  BY <1>1, <1>2, <1>3, <1>4, <1>5 DEF AclNext

--------------------------------------------------------------------------------
(* The theorems. *)

\* A bot that is granted a topic had, at one instant of the check, an active row
\* under an active operator, and so at some instant had the bot it may reach.
THEOREM GrantedBotsWereLive == AclSpec => []GrantedWereLive
<1>1. AclInv => GrantedWereLive
  BY DEF AclInv
<1> QED
  BY <1>1, AclInitInv, AclStep, PTL DEF AclSpec

\* What the registry and the lists allow from arrival to verdict is not denied.
THEOREM DueRequestsAreNotDenied == AclSpec => []DueIsNotDenied
<1>1. AclInv => DueIsNotDenied
  BY DEF AclInv
<1> QED
  BY <1>1, AclInitInv, AclStep, PTL DEF AclSpec

GrantFollowsLists ==
    check' = "granted" /\ check # "granted" /\ asked.acc # 3 => PolicyAllows(asked)

LEMMA GrantStep == AclInv /\ [AclNext]_checkVars => [GrantFollowsLists]_checkVars
<1> SUFFICES ASSUME AclInv, AclNext, check' = "granted", check # "granted", asked.acc # 3
             PROVE  PolicyAllows(asked)
  BY DEF GrantFollowsLists
<1>1. Check
  BY DEF AclNext, ListChanges, HubRestarts, AclTransact
<1>2. CASE AclReadsOperator
  <2>1. asked \in AclRequest /\ GrantedAlone(asked)
    BY <1>2 DEF AclReadsOperator, Evaluate, Answer, AclProceed, AclInv
  <2> QED
    BY <2>1, AloneAgrees
<1>3. CASE AclDecides
  <2>1. asked \in AclRequest /\ AllowedByLists(asked)
    BY <1>3 DEF AclDecides, Answer, AclInv
  <2>2. KnowsSender /\ KnowsPeer /\ NeedsPeer(asked) /\ ~GrantedAlone(asked)
    BY <1>3 DEF AclDecides, AclInv, Knows
  <2> QED
    BY <2>1, <2>2, ListsAgree DEF KnowsSender, KnowsPeer
<1> QED
  BY <1>1, <1>2, <1>3
     DEF Check, AclArrives, AclReadsBot, AclReadsPeer, AclReadFails, AclDone, Answer, AclProceed

\* A right is granted only while the lists give it to the operators that the
\* chain gives the two bots.
THEOREM GrantsFollowTheLists == AclSpec => GrantsFollowLists
<1>1. GrantsFollowLists <=> [][GrantFollowsLists]_checkVars
  BY DEF GrantsFollowLists, GrantFollowsLists
<1> QED
  BY <1>1, AclInitInv, AclStep, GrantStep, PTL DEF AclSpec

--------------------------------------------------------------------------------
(* Types of a check: an answer of the chain is a record of its facts. *)

LEMMA ListTypes ==
  ASSUME lists \in [OperatorIds -> SUBSET OperatorIds], ListChanges
  PROVE  lists' \in [OperatorIds -> SUBSET OperatorIds]
<1>1. CASE UNCHANGED lists
  BY <1>1
<1>2. ASSUME NEW o \in OperatorIds, NEW p \in OperatorIds \ {o},
             lists' \in {[lists EXCEPT ![o] = @ \cup {p}], [lists EXCEPT ![o] = @ \ {p}]}
      PROVE  lists' \in [OperatorIds -> SUBSET OperatorIds]
  BY <1>2
<1> QED
  BY <1>1, <1>2 DEF ListChanges

\* The operator in a row that a check reads.
LEMMA ReadOperator ==
  ASSUME FactsInv, NEW b \in BotIds
  PROVE  OperatorOf(b) \in OperatorIds \cup {None}
  BY DEF FactsInv, FactsTypeOK, BotRow, OperatorOf

LEMMA CheckTypes ==
  ASSUME AclInv, AclTypeOK, Check, UNCHANGED factsVars
  PROVE  AclTypeOK'
<1>0. FactsTypeOK'
  BY DEF AclTypeOK, FactsTypeOK, factsVars
<1>1. ASSUME NEW verdict \in Decisions, Answer(verdict) PROVE AclTypeOK'
  BY <1>0, <1>1 DEF Answer, AclTypeOK
<1>2. ASSUME NEW place \in Checking, NEW o \in OperatorIds \cup {None},
             NEW p \in OperatorIds \cup {None}, AclProceed(place, o, p)
      PROVE  AclTypeOK'
  BY <1>0, <1>2 DEF AclProceed, AclTypeOK
<1>3. ASSUME NEW b \in BotIds, NEW topic \in Topics, NEW acc \in Accs,
             AclArrives(b, topic, acc)
      PROVE  AclTypeOK'
  <2>1. [username |-> b, topic |-> topic, acc |-> acc] \in AclRequest
    BY DEF AclRequest
  <2>2. /\ check' = "readBot" /\ asked' \in AclRequest /\ seen' \subseteq {"sender", "peer"}
        /\ due' \in BOOLEAN /\ UNCHANGED <<lists, own, other>>
    BY <1>3, <2>1 DEF AclArrives, Sees, Due
  <2> QED
    BY <1>0, <2>2 DEF AclTypeOK, Checking, Reading
<1>4. ASSUME check \in Checking
      PROVE  asked \in AclRequest /\ own \in OperatorIds \cup {None}
  BY <1>4 DEF AclInv, AclTypeOK, Checking, Reading
<1>5. CASE AclReadsBot
  <2>1. check \in Checking
    BY <1>5 DEF AclReadsBot, Checking, Reading
  <2>2. OperatorOf(asked.username) \in OperatorIds \cup {None}
    BY <1>4, <2>1, ReadOperator DEF AclInv, AclRequest
  <2> QED
    BY <1>1, <1>2, <1>5, <2>2 DEF AclReadsBot, Checking, Reading, Decisions
<1>6. CASE AclReadsOperator
  <2>1. check \in Checking
    BY <1>6 DEF AclReadsOperator, Checking, Reading
  <2> QED
    BY <1>1, <1>2, <1>4, <1>6, <2>1
       DEF AclReadsOperator, Evaluate, Checking, Reading, Decisions
<1>7. CASE AclReadsPeer
  <2>1. check \in Checking /\ NeedsPeer(asked)
    BY <1>7 DEF AclReadsPeer, Checking, Reading, AclInv, Knows
  <2>2. OperatorOf(PeerOf(asked)) \in OperatorIds \cup {None}
    BY <1>4, <2>1, ReadOperator, PeerNamed DEF AclInv
  <2> QED
    BY <1>1, <1>2, <1>4, <1>7, <2>1, <2>2 DEF AclReadsPeer, Checking, Reading, Decisions
<1>8. CASE AclDecides \/ AclReadFails
  BY <1>1, <1>8 DEF AclDecides, AclReadFails, Decisions
<1>9. CASE AclDone
  BY <1>0, <1>9 DEF AclDone, AclTypeOK
<1> QED
  BY <1>3, <1>5, <1>6, <1>7, <1>8, <1>9 DEF Check

LEMMA AclTypesStep == AclInv /\ AclTypeOK /\ [AclNext]_checkVars => AclTypeOK'
<1> SUFFICES ASSUME AclInv, AclTypeOK, [AclNext]_checkVars PROVE AclTypeOK'
  OBVIOUS
<1>0. FactsTypeOK'
  BY AclStep DEF AclInv, FactsInv
<1>1. AclObserve => seen' \subseteq {"sender", "peer"} /\ due' \in BOOLEAN
  BY DEF AclObserve, AclTypeOK, Sees
<1>2. CASE ListChanges
  BY <1>0, <1>1, <1>2, ListTypes DEF ListChanges, AclTypeOK
<1>3. CASE HubRestarts
  BY <1>0, <1>3 DEF HubRestarts, AclTypeOK
<1>4. CASE AclTransact
  BY <1>0, <1>1, <1>4 DEF AclTransact, AclTypeOK
<1>5. CASE UNCHANGED checkVars
  BY <1>0, <1>5 DEF checkVars, aclVars, AclTypeOK
<1> QED
  BY <1>2, <1>3, <1>4, <1>5, CheckTypes DEF AclNext

\* Every variable of a check keeps its type.
THEOREM AclTypes == AclSpec => []AclTypeOK
<1>1. AclInit => AclTypeOK
  BY FactsInitInv DEF AclInit, AclTypeOK, FactsInv
<1> QED
  BY <1>1, AclInitInv, AclStep, AclTypesStep, PTL DEF AclSpec

--------------------------------------------------------------------------------
(* The service.  A step of its other handlers changes the lists that a check  *)
(* sees as ListChanges does, or not at all; a check changes nothing of theirs. *)

ServiceInv == StoreInv /\ lists = ListsOf(allow)

LEMMA ServiceInitInv == ServiceInit => ServiceInv
  BY StoreInit DEF ServiceInit, ServiceInv, AclInit, Init, HubInit, ListsOf

\* An answer of /pair sets one allowance, which a check may not see.
LEMMA ChangeIsSeen ==
  ASSUME ServiceInv, NEW s \in Slots, PairDecides(s) \/ PairFailsToSave(s),
         lists' = ListsOf(allow')
  PROVE  \/ UNCHANGED lists
         \/ \E o \in OperatorIds : \E p \in OperatorIds \ {o} :
               lists' \in {[lists EXCEPT ![o] = @ \cup {p}], [lists EXCEPT ![o] = @ \ {p}]}
<1> DEFINE o == IdOf[request[s].label]
           p == IdOf[request[s].peer]
           c == Changed(request[s])
<1>1. pc[s] # "idle" /\ request[s].kind \in {"add", "remove"} /\ allow' = c
  BY DEF PairDecides, PairFailsToSave
<1>2. /\ o \in OperatorIds /\ p \in OperatorIds
      /\ c \in [OperatorIds -> SUBSET OperatorIds]
      /\ p \in c[o] <=> request[s].kind = "add"
      /\ \A x, y \in OperatorIds : x # o \/ y # p => (y \in c[x] <=> y \in allow[x])
      /\ \A x \in OperatorIds : x # o => c[x] = allow[x]
  BY <1>1, ChangedRows DEF ServiceInv
<1>3. allow \in [OperatorIds -> SUBSET OperatorIds] /\ lists = [x \in OperatorIds |-> allow[x] \ {x}]
  BY DEF ServiceInv, StoreInv, ListsOf
<1>4. lists' = [x \in OperatorIds |-> c[x] \ {x}]
  BY <1>1 DEF ListsOf
<1> HIDE DEF o, p, c
<1>5. \A x \in OperatorIds \ {o} : c[x] \ {x} = lists[x]
  BY <1>2, <1>3
<1>6. CASE p = o
  <2>1. c[o] \ {o} = lists[o]
    BY <1>2, <1>3, <1>6
  <2>2. \A x \in OperatorIds : c[x] \ {x} = lists[x]
    BY <1>5, <2>1
  <2> QED
    BY <1>3, <1>4, <2>2
<1>7. CASE p # o /\ request[s].kind = "add"
  <2>1. c[o] \ {o} = lists[o] \cup {p}
    BY <1>2, <1>3, <1>7
  <2>2. lists' = [lists EXCEPT ![o] = @ \cup {p}]
    BY <1>2, <1>3, <1>4, <1>5, <2>1
  <2> QED
    BY <1>2, <1>7, <2>2
<1>8. CASE p # o /\ request[s].kind = "remove"
  <2>1. c[o] \ {o} = lists[o] \ {p}
    BY <1>2, <1>3, <1>8
  <2>2. lists' = [lists EXCEPT ![o] = @ \ {p}]
    BY <1>2, <1>3, <1>4, <1>5, <2>1
  <2> QED
    BY <1>2, <1>8, <2>2
<1> QED
  BY <1>1, <1>6, <1>7, <1>8

\* Every other step of the handlers leaves the lists alone.
LEMMA HandleKeepsLists ==
  ASSUME Handle
  PROVE  UNCHANGED allow \/ \E s \in Slots : PairDecides(s) \/ PairFailsToSave(s)
<1>1. ASSUME NEW s \in Slots, Serve(s)
      PROVE  UNCHANGED allow \/ PairDecides(s) \/ PairFailsToSave(s)
  <2>1. ASSUME NEW b \in BotIds, NEW n \in Nonces, NEW signer \in Addresses,
               AuthArrives(s, b, n, signer)
        PROVE  UNCHANGED allow
    BY <2>1 DEF AuthArrives, Arrive
  <2>2. ASSUME NEW kind \in {"add", "remove", "list"}, NEW name \in OperatorNames,
               NEW peer \in OperatorNames \cup {None}, NEW n \in Nonces,
               NEW signer \in Addresses, PairArrives(s, kind, name, peer, n, signer)
        PROVE  UNCHANGED allow
    BY <2>2 DEF PairArrives, Arrive
  <2>3. CASE \/ AuthReadsBot(s) \/ AuthReadsOperator(s) \/ PairReadsOwner(s) \/ PairReadsPeer(s)
             \/ AuthDecides(s) \/ PairLists(s) \/ ReadFails(s) \/ Respond(s)
    BY <2>3
       DEF AuthReadsBot, AuthReadsOperator, PairReadsOwner, PairReadsPeer, AuthDecides,
           PairLists, ReadFails, Respond, Proceed, Refuse
  <2> QED
    BY <1>1, <2>1, <2>2, <2>3 DEF Serve
<1> QED
  BY <1>1 DEF Handle, IssueNonce, Reap, Tick

LEMMA HandleIsListChange ==
  ASSUME ServiceInv, Handle, Beside, UNCHANGED factsVars
  PROVE  ListChanges
<1>1. \/ UNCHANGED lists
      \/ \E o \in OperatorIds : \E p \in OperatorIds \ {o} :
            lists' \in {[lists EXCEPT ![o] = @ \cup {p}], [lists EXCEPT ![o] = @ \ {p}]}
  <2>1. CASE UNCHANGED allow
    BY <2>1 DEF Beside, ListsOf, ServiceInv
  <2>2. CASE \E s \in Slots : PairDecides(s) \/ PairFailsToSave(s)
    BY <2>2, ChangeIsSeen DEF Beside
  <2> QED
    BY <2>1, <2>2, HandleKeepsLists
<1> QED
  BY <1>1 DEF Beside, ListChanges

\* Each step of the service is one of MqttAuthService, or changes nothing there.
LEMMA ServiceIsHub == [ServiceNext]_serviceVars => [Next]_vars
<1> SUFFICES ASSUME [ServiceNext]_serviceVars PROVE [Next]_vars
  OBVIOUS
<1>1. Handle => HubNext
  BY DEF Handle, HubNext
<1>2. ServiceRestarts => HubNext /\ UNCHANGED factsVars
  BY DEF ServiceRestarts, HubRestarts, HubNext
<1> QED
  BY <1>1, <1>2 DEF ServiceNext, serviceVars, Next, vars

\* Each step of the service is one of TransportAcl, or changes nothing there.
LEMMA ServiceIsAcl == ServiceInv /\ [ServiceNext]_serviceVars => [AclNext]_checkVars
<1> SUFFICES ASSUME ServiceInv, [ServiceNext]_serviceVars PROVE [AclNext]_checkVars
  OBVIOUS
<1>1. CASE UNCHANGED factsVars /\ Handle /\ Beside
  BY <1>1, HandleIsListChange DEF AclNext
<1>2. CASE UNCHANGED <<factsVars, hubVars>> /\ Check
  BY <1>2 DEF AclNext
<1>3. CASE ServiceRestarts
  BY <1>3 DEF ServiceRestarts, AclNext
<1>4. CASE Transact /\ Beside
  <2>1. FactsNext /\ UNCHANGED lists
    BY <1>4 DEF Transact, Beside, ServiceInv, ListsOf
  <2> QED
    BY <1>4, <2>1 DEF Beside, AclNext, AclTransact
<1>5. CASE UNCHANGED serviceVars
  BY <1>5 DEF serviceVars, checkVars
<1> QED
  BY <1>1, <1>2, <1>3, <1>4, <1>5 DEF ServiceNext

LEMMA ServiceStep == ServiceInv /\ [ServiceNext]_serviceVars => ServiceInv'
<1> SUFFICES ASSUME ServiceInv, [ServiceNext]_serviceVars PROVE ServiceInv'
  OBVIOUS
<1>1. StoreInv'
  BY ServiceIsHub, StoreStep DEF ServiceInv
<1>2. lists' = ListsOf(allow)'
  <2>1. CASE Check /\ UNCHANGED hubVars
    BY <2>1
       DEF ServiceInv, ListsOf, hubVars, Check, AclArrives, AclReadsBot, AclReadsOperator,
           Evaluate, AclReadsPeer, AclDecides, AclReadFails, AclDone, Answer, AclProceed
  <2>2. CASE UNCHANGED serviceVars
    BY <2>2 DEF serviceVars, hubVars, aclVars, ServiceInv, ListsOf
  <2> QED
    BY <2>1, <2>2 DEF ServiceNext, Beside, ServiceRestarts, ListsOf
<1> QED
  BY <1>1, <1>2 DEF ServiceInv

\* The service does what MqttAuthService says of it, checks or no checks.
THEOREM ServiceImplementsAuth == ServiceSpec => Spec
<1>1. ServiceInit => Init
  BY DEF ServiceInit
<1> QED
  BY <1>1, ServiceIsHub, PTL DEF ServiceSpec, Spec

\* The service does what TransportAcl says of it: what /pair and a restart do to
\* the lists during a check is what that module expects.
THEOREM ServiceImplementsAcl == ServiceSpec => AclSpec
<1>1. ServiceInit => AclInit
  BY DEF ServiceInit
<1> QED
  BY <1>1, ServiceInitInv, ServiceStep, ServiceIsAcl, PTL DEF ServiceSpec, AclSpec

--------------------------------------------------------------------------------
(* What an answer of /pair means for later checks. *)

RemovalTakesEffect ==
    GrantGivenBack =>
        \/ AskingOperator = ReachedOperator
        \/ asked.topic.kind = "inbox" /\ AllowsBot(ReachedOperator, asked.username)

\* A check that grants decides by the lists, and they are the store's.
LEMMA RemovalStep ==
  ASSUME ServiceInv, AclInv, [ServiceNext]_serviceVars
  PROVE  RemovalTakesEffect
<1> SUFFICES ASSUME GrantGivenBack
             PROVE  \/ AskingOperator = ReachedOperator
                    \/ asked.topic.kind = "inbox" /\ AllowsBot(ReachedOperator, asked.username)
  BY DEF RemovalTakesEffect
<1>1. Check
  BY DEF GrantGivenBack, ServiceNext, Beside, ServiceRestarts, HubRestarts, serviceVars, aclVars
<1>2. AclDecides
  BY <1>1
     DEF GrantGivenBack, Check, AclArrives, AclReadsBot, AclReadsOperator, Evaluate,
         AclReadsPeer, AclDecides, AclReadFails, AclDone, Answer, AclProceed
<1>3. /\ asked \in AclRequest /\ AllowedByLists(asked)
      /\ own = AskingOperator /\ other = ReachedOperator
      /\ own \in OperatorIds /\ other \in OperatorIds
  <2>1. asked \in AclRequest /\ AllowedByLists(asked)
    BY <1>2 DEF AclDecides, Answer, GrantGivenBack, AclInv
  <2>2. KnowsSender /\ KnowsPeer /\ NeedsPeer(asked)
    BY <1>2 DEF AclDecides, AclInv, Knows
  <2>3. PeerOf(asked) \in BotIds /\ Sender \in BotIds
    BY <2>1, <2>2, PeerNamed DEF Sender, AclRequest
  <2> QED
    BY <2>1, <2>2, <2>3
       DEF AclInv, FactsInv, BotsHaveOperators, KnowsSender, KnowsPeer, OperatorOf, Sender,
           AskingOperator, ReachedOperator
<1>4. own \notin lists[other]
  <2>1. own \notin allow[other]
    BY <1>3 DEF ServiceInv, StoreInv, ToldIsKept, GrantGivenBack
  <2> QED
    BY <1>3, <2>1 DEF ServiceInv, ListsOf
<1> QED
  BY <1>3, <1>4 DEF AllowedByLists, AllowsOperator

\* Once an owner was told that an operator is off its list, no check grants that
\* operator's bots what only the list would give them.
THEOREM RemovalsTakeEffectAtOnce == ServiceSpec => RemovalsTakeEffect
<1>1. RemovalsTakeEffect <=> [][RemovalTakesEffect]_serviceVars
  BY DEF RemovalsTakeEffect, RemovalTakesEffect
<1>2. ServiceInv /\ AclInv /\ [ServiceNext]_serviceVars => [RemovalTakesEffect]_serviceVars
  BY RemovalStep
<1>3. ServiceSpec => []AclInv
  BY ServiceImplementsAcl, AclInitInv, AclStep, PTL DEF AclSpec
<1> QED
  BY <1>1, <1>2, <1>3, ServiceInitInv, ServiceStep, PTL DEF ServiceSpec

================================================================================
