------------------------- MODULE ClankerIdentityProofs -------------------------
(***************************************************************************)
(* Theorems about ClankerIdentity and PinnedRegistry, and their proofs.    *)
(*                                                                         *)
(* KeyIndexExact and PendingIsLive are inductive together with the types   *)
(* and one more fact: every recorded bot has a real key and an operator of *)
(* the same registry (BotsWellFormed).  The proofs go through the effect   *)
(* of each transaction row by row, which the lemmas state once.            *)
(*                                                                         *)
(* NoUsurpation is about a recursive function.  LineageIsWalk shows that   *)
(* the function exists, LineageContinues that the lineage of a predecessor *)
(* is the rest of the lineage; both are inductions over the hops.          *)
(***************************************************************************)
EXTENDS PinnedRegistry, FiniteSetTheorems, WellFoundedInduction, TLAPS

\* A recorded bot has a non-zero key and an operator its registry knows.
BotsWellFormed ==
    \A r \in Registries, b \in BotIds :
        bots[r][b].status # "missing" =>
            /\ bots[r][b].botKey \in Addresses
            /\ bots[r][b].operatorId \in OperatorIds
            /\ operators[r][bots[r][b].operatorId].status # "missing"

\* The inductive invariant.
RegistryInv == TypeOK /\ BotsWellFormed /\ KeyIndexExact /\ PendingIsLive

--------------------------------------------------------------------------------
(* Updating one field of a row. *)

LEMMA OwnerUpdate ==
  ASSUME NEW op \in Operator, NEW a \in Addresses
  PROVE  [op EXCEPT !.owner = a] = [status |-> op.status, owner |-> a]
  BY DEF Operator

LEMMA OperatorStatusUpdate ==
  ASSUME NEW op \in Operator
  PROVE  [op EXCEPT !.status = "revoked"] = [status |-> "revoked", owner |-> op.owner]
  BY DEF Operator

LEMMA KeyUpdate ==
  ASSUME NEW bot \in Bot, NEW k \in Addresses
  PROVE  [bot EXCEPT !.botKey = k] =
           [status |-> bot.status, operatorId |-> bot.operatorId, botKey |-> k]
  BY DEF Bot

LEMMA BotStatusUpdate ==
  ASSUME NEW bot \in Bot
  PROVE  [bot EXCEPT !.status = "revoked"] =
           [status |-> "revoked", operatorId |-> bot.operatorId, botKey |-> bot.botKey]
  BY DEF Bot

LEMMA RowTypes ==
  ASSUME TypeOK, NEW r \in Registries
  PROVE  /\ \A id \in OperatorIds : operators[r][id] \in Operator
         /\ \A id \in BotIds : bots[r][id] \in Bot
  BY DEF TypeOK

\* Replacing the entry i of the row r of a table.
LEMMA CellUpdate ==
  ASSUME NEW R, NEW I, NEW V, NEW table \in [R -> [I -> V]],
         NEW r \in R, NEW i \in I, NEW v \in V
  PROVE  LET new == [table EXCEPT ![r][i] = v]
         IN  /\ new \in [R -> [I -> V]]
             /\ new[r][i] = v
             /\ \A p \in R, j \in I : ~(p = r /\ j = i) => new[p][j] = table[p][j]
  OBVIOUS

--------------------------------------------------------------------------------
(* One lemma per transaction: it preserves the invariant. *)

LEMMA DeployPreserves ==
  ASSUME RegistryInv, NEW r \in Registries, NEW prior \in Registries \cup {None},
         Deploy(r, prior)
  PROVE  RegistryInv'
<1>1. TypeOK'
  BY DEF RegistryInv, TypeOK, Deploy
<1> QED
  BY <1>1 DEF RegistryInv, BotsWellFormed, KeyIndexExact, PendingIsLive, Deploy

LEMMA RegisterOperatorPreserves ==
  ASSUME RegistryInv, NEW r \in Registries, NEW id \in OperatorIds,
         NEW sender \in Addresses, NEW value \in Values,
         RegisterOperator(r, id, sender, value)
  PROVE  RegistryInv'
<1> DEFINE row == [status |-> "active", owner |-> sender]
<1>1. /\ row \in Operator
      /\ row.status = "active"
  BY DEF Operator, Statuses
<1>2. /\ operators' \in [Registries -> [OperatorIds -> Operator]]
      /\ operators'[r][id] = row
      /\ \A p \in Registries, j \in OperatorIds :
            ~(p = r /\ j = id) => operators'[p][j] = operators[p][j]
  <2>1. operators' = [operators EXCEPT ![r][id] = row]
    BY DEF RegisterOperator
  <2> HIDE DEF row
  <2> QED
    BY <1>1, <2>1, CellUpdate DEF RegistryInv, TypeOK
<1>3. UNCHANGED <<deployed, priorRegistry, bots, pendingOperatorOwner, botKeyToId, proposedBy>>
  BY DEF RegisterOperator
<1>4. TypeOK'
  <2>1. value \in Nat
    BY NumbersAssumption DEF Values
  <2>2. forwarded' \in [Registries -> Nat]
    BY <2>1 DEF RegisterOperator, ForwardFee, RegistryInv, TypeOK
  <2> QED
    BY <1>2, <1>3, <2>2 DEF RegistryInv, TypeOK
<1>5. BotsWellFormed'
  BY <1>1, <1>2, <1>3 DEF RegistryInv, BotsWellFormed
<1>6. KeyIndexExact'
  BY <1>3 DEF RegistryInv, KeyIndexExact
<1>7. PendingIsLive'
  <2>1. operators[r][id].status = "missing"
    BY DEF RegisterOperator
  <2>2. pendingOperatorOwner[r][id] = None
    BY <2>1 DEF RegistryInv, PendingIsLive
  <2> QED
    BY <1>2, <1>3, <2>2 DEF RegistryInv, PendingIsLive
<1> QED
  BY <1>4, <1>5, <1>6, <1>7 DEF RegistryInv

LEMMA ProposePreserves ==
  ASSUME RegistryInv, NEW r \in Registries, NEW id \in OperatorIds,
         NEW sender \in Addresses, NEW newOwner \in Addresses \cup {None},
         ProposeOperatorTransfer(r, id, sender, newOwner)
  PROVE  RegistryInv'
<1>1. /\ UNCHANGED <<deployed, priorRegistry, operators, bots, botKeyToId, forwarded>>
      /\ pendingOperatorOwner' = [pendingOperatorOwner EXCEPT ![r][id] = newOwner]
      /\ proposedBy' = [proposedBy EXCEPT ![r][id] = sender]
  BY DEF ProposeOperatorTransfer
<1>2. TypeOK'
  BY <1>1 DEF RegistryInv, TypeOK
<1>3. BotsWellFormed' /\ KeyIndexExact'
  BY <1>1 DEF RegistryInv, BotsWellFormed, KeyIndexExact
<1>4. operators[r][id].status = "active" /\ operators[r][id].owner = sender
  BY RowTypes DEF RegistryInv, ProposeOperatorTransfer, OwnsActive, Operator, Statuses
<1>5. PendingIsLive'
  BY <1>1, <1>4 DEF RegistryInv, PendingIsLive, TypeOK
<1> QED
  BY <1>2, <1>3, <1>5 DEF RegistryInv

LEMMA AcceptPreserves ==
  ASSUME RegistryInv, NEW r \in Registries, NEW id \in OperatorIds,
         NEW sender \in Addresses, AcceptOperatorTransfer(r, id, sender)
  PROVE  RegistryInv'
<1> DEFINE row == [status |-> operators[r][id].status, owner |-> sender]
<1>1. operators[r][id] \in Operator
  BY RowTypes DEF RegistryInv
<1>2. row \in Operator /\ row.status = operators[r][id].status
  BY <1>1 DEF Operator
<1>3. /\ operators' \in [Registries -> [OperatorIds -> Operator]]
      /\ operators'[r][id] = row
      /\ \A p \in Registries, j \in OperatorIds :
            ~(p = r /\ j = id) => operators'[p][j] = operators[p][j]
  <2>1. operators' = [operators EXCEPT ![r][id] = row]
    BY <1>1, OwnerUpdate DEF AcceptOperatorTransfer
  <2> HIDE DEF row
  <2> QED
    BY <1>2, <2>1, CellUpdate DEF RegistryInv, TypeOK
<1>4. /\ UNCHANGED <<deployed, priorRegistry, bots, botKeyToId, forwarded>>
      /\ pendingOperatorOwner' = [pendingOperatorOwner EXCEPT ![r][id] = None]
      /\ proposedBy' = [proposedBy EXCEPT ![r][id] = None]
  BY DEF AcceptOperatorTransfer
<1>5. TypeOK'
  BY <1>3, <1>4 DEF RegistryInv, TypeOK
<1>6. BotsWellFormed'
  BY <1>2, <1>3, <1>4 DEF RegistryInv, BotsWellFormed
<1>7. KeyIndexExact'
  BY <1>4 DEF RegistryInv, KeyIndexExact
<1>8. PendingIsLive'
  BY <1>3, <1>4 DEF RegistryInv, PendingIsLive, TypeOK
<1> QED
  BY <1>5, <1>6, <1>7, <1>8 DEF RegistryInv

LEMMA RevokeOperatorPreserves ==
  ASSUME RegistryInv, NEW r \in Registries, NEW id \in OperatorIds,
         NEW sender \in Addresses, RevokeOperator(r, id, sender)
  PROVE  RegistryInv'
<1> DEFINE row == [status |-> "revoked", owner |-> operators[r][id].owner]
<1>1. operators[r][id] \in Operator
  BY RowTypes DEF RegistryInv
<1>2. row \in Operator /\ row.status = "revoked"
  BY <1>1 DEF Operator, Statuses
<1>3. /\ operators' \in [Registries -> [OperatorIds -> Operator]]
      /\ operators'[r][id] = row
      /\ \A p \in Registries, j \in OperatorIds :
            ~(p = r /\ j = id) => operators'[p][j] = operators[p][j]
  <2>1. operators' = [operators EXCEPT ![r][id] = row]
    BY <1>1, OperatorStatusUpdate DEF RevokeOperator
  <2> HIDE DEF row
  <2> QED
    BY <1>2, <2>1, CellUpdate DEF RegistryInv, TypeOK
<1>4. /\ UNCHANGED <<deployed, priorRegistry, bots, botKeyToId, forwarded>>
      /\ pendingOperatorOwner' = [pendingOperatorOwner EXCEPT ![r][id] = None]
      /\ proposedBy' = [proposedBy EXCEPT ![r][id] = None]
  BY DEF RevokeOperator
<1>5. TypeOK'
  BY <1>3, <1>4 DEF RegistryInv, TypeOK
<1>6. BotsWellFormed'
  BY <1>2, <1>3, <1>4 DEF RegistryInv, BotsWellFormed
<1>7. KeyIndexExact'
  BY <1>4 DEF RegistryInv, KeyIndexExact
<1>8. PendingIsLive'
  BY <1>3, <1>4 DEF RegistryInv, PendingIsLive, TypeOK
<1> QED
  BY <1>5, <1>6, <1>7, <1>8 DEF RegistryInv

LEMMA RegisterBotPreserves ==
  ASSUME RegistryInv, NEW r \in Registries, NEW id \in BotIds,
         NEW sender \in Addresses, NEW operatorId \in OperatorIds,
         NEW botKey \in Addresses \cup {None}, NEW value \in Values,
         RegisterBot(r, id, operatorId, botKey, sender, value)
  PROVE  RegistryInv'
<1> DEFINE row == [status |-> "active", operatorId |-> operatorId, botKey |-> botKey]
<1>1. botKey \in Addresses
  BY DEF RegisterBot
<1>2. /\ row \in Bot
      /\ row.status = "active" /\ row.operatorId = operatorId /\ row.botKey = botKey
  BY DEF Bot, Statuses
<1>3. /\ bots' \in [Registries -> [BotIds -> Bot]]
      /\ bots'[r][id] = row
      /\ \A p \in Registries, j \in BotIds :
            ~(p = r /\ j = id) => bots'[p][j] = bots[p][j]
  <2>1. bots' = [bots EXCEPT ![r][id] = row]
    BY DEF RegisterBot
  <2> HIDE DEF row
  <2> QED
    BY <1>2, <2>1, CellUpdate DEF RegistryInv, TypeOK
<1>4. /\ botKeyToId' \in [Registries -> [Addresses -> BotIds \cup {None}]]
      /\ botKeyToId'[r][botKey] = id
      /\ \A p \in Registries, j \in Addresses :
            ~(p = r /\ j = botKey) => botKeyToId'[p][j] = botKeyToId[p][j]
  <2>1. botKeyToId' = [botKeyToId EXCEPT ![r][botKey] = id]
    BY DEF RegisterBot
  <2>2. botKeyToId \in [Registries -> [Addresses -> BotIds \cup {None}]]
    BY DEF RegistryInv, TypeOK
  <2> QED
    BY <1>1, <2>1, <2>2, CellUpdate
<1>5. UNCHANGED <<deployed, priorRegistry, operators, pendingOperatorOwner, proposedBy>>
  BY DEF RegisterBot
<1>6. TypeOK'
  <2>1. value \in Nat
    BY NumbersAssumption DEF Values
  <2>2. forwarded' \in [Registries -> Nat]
    BY <2>1 DEF RegisterBot, ForwardFee, RegistryInv, TypeOK
  <2> QED
    BY <1>3, <1>4, <1>5, <2>2 DEF RegistryInv, TypeOK
<1>7. BotsWellFormed'
  <2>1. operators[r][operatorId].status # "missing"
    BY DEF RegisterBot, OwnsActive
  <2> QED
    BY <1>1, <1>2, <1>3, <1>5, <2>1 DEF RegistryInv, BotsWellFormed
<1>8. KeyIndexExact'
  <2>1. bots[r][id].status = "missing" /\ botKeyToId[r][botKey] = None
    BY DEF RegisterBot
  <2>2. KeyIndexExact /\ None \notin BotIds
    BY NoneAssumption DEF RegistryInv
  <2> HIDE DEF row
  <2> SUFFICES ASSUME NEW p \in Registries, NEW k \in Addresses, NEW b \in BotIds
               PROVE  botKeyToId'[p][k] = b
                        <=> bots'[p][b].status = "active" /\ bots'[p][b].botKey = k
    BY DEF KeyIndexExact
  <2>3. CASE ~(p = r /\ b = id) /\ ~(p = r /\ k = botKey)
    BY <1>3, <1>4, <2>2, <2>3 DEF KeyIndexExact
  <2>4. CASE p = r /\ b = id
    <3>1. /\ bots'[p][b].status = "active"
          /\ bots'[p][b].botKey = botKey
      BY <1>2, <1>3, <2>4
    <3>2. CASE k = botKey
      BY <1>4, <2>4, <3>1, <3>2
    <3>3. CASE k # botKey
      <4>1. botKeyToId[r][k] # id
        BY <2>1, <2>2 DEF KeyIndexExact
      <4> QED
        BY <1>4, <2>4, <3>1, <3>3, <4>1
    <3> QED
      BY <3>2, <3>3
  <2>5. CASE p = r /\ k = botKey /\ b # id
    BY <1>1, <1>3, <1>4, <2>1, <2>2, <2>5 DEF KeyIndexExact
  <2> QED
    BY <2>3, <2>4, <2>5
<1>9. PendingIsLive'
  BY <1>5 DEF RegistryInv, PendingIsLive
<1> QED
  BY <1>6, <1>7, <1>8, <1>9 DEF RegistryInv

LEMMA RotateBotKeyPreserves ==
  ASSUME RegistryInv, NEW r \in Registries, NEW id \in BotIds,
         NEW sender \in Addresses, NEW newKey \in Addresses \cup {None},
         RotateBotKey(r, id, newKey, sender)
  PROVE  RegistryInv'
<1> DEFINE oldKey == bots[r][id].botKey
           row    == [status |-> bots[r][id].status,
                      operatorId |-> bots[r][id].operatorId, botKey |-> newKey]
<1>1. /\ newKey \in Addresses
      /\ bots[r][id].status = "active"
      /\ botKeyToId[r][newKey] \in {None, id}
      /\ UNCHANGED <<deployed, priorRegistry, operators, pendingOperatorOwner,
                     forwarded, proposedBy>>
  BY DEF RotateBotKey
<1>2. bots[r][id] \in Bot
  BY RowTypes DEF RegistryInv
<1>3. /\ row \in Bot
      /\ row.status = "active" /\ row.operatorId = bots[r][id].operatorId
      /\ row.botKey = newKey
  BY <1>1, <1>2 DEF Bot
<1>4. oldKey \in Addresses
  BY <1>1 DEF RegistryInv, BotsWellFormed
<1>5. /\ bots' \in [Registries -> [BotIds -> Bot]]
      /\ bots'[r][id] = row
      /\ \A p \in Registries, j \in BotIds :
            ~(p = r /\ j = id) => bots'[p][j] = bots[p][j]
  <2>1. bots' = [bots EXCEPT ![r][id] = row]
    BY <1>1, <1>2, KeyUpdate DEF RotateBotKey
  <2> HIDE DEF row
  <2> QED
    BY <1>3, <2>1, CellUpdate DEF RegistryInv, TypeOK
<1>6. /\ botKeyToId' \in [Registries -> [Addresses -> BotIds \cup {None}]]
      /\ botKeyToId'[r][newKey] = id
      /\ oldKey # newKey => botKeyToId'[r][oldKey] = None
      /\ \A p \in Registries, j \in Addresses :
            ~(p = r /\ j \in {oldKey, newKey}) => botKeyToId'[p][j] = botKeyToId[p][j]
  <2>1. botKeyToId \in [Registries -> [Addresses -> BotIds \cup {None}]]
    BY DEF RegistryInv, TypeOK
  <2>2. botKeyToId' =
          [botKeyToId EXCEPT ![r] = RotatedIndex(botKeyToId[r], id, oldKey, newKey)]
    BY DEF RotateBotKey
  <2> HIDE DEF oldKey
  <2>3. LET index == RotatedIndex(botKeyToId[r], id, oldKey, newKey)
        IN  /\ index \in [Addresses -> BotIds \cup {None}]
            /\ index[newKey] = id
            /\ oldKey # newKey => index[oldKey] = None
            /\ \A j \in Addresses : j \notin {oldKey, newKey} => index[j] = botKeyToId[r][j]
    BY <1>1, <1>4, <2>1 DEF RotatedIndex
  <2> QED
    BY <2>1, <2>2, <2>3
<1>7. TypeOK'
  BY <1>1, <1>5, <1>6 DEF RegistryInv, TypeOK
<1>8. BotsWellFormed'
  BY <1>1, <1>3, <1>5 DEF RegistryInv, BotsWellFormed
<1>9. KeyIndexExact'
  <2> SUFFICES ASSUME NEW p \in Registries, NEW k \in Addresses, NEW b \in BotIds
               PROVE  botKeyToId'[p][k] = b
                        <=> bots'[p][b].status = "active" /\ bots'[p][b].botKey = k
    BY DEF KeyIndexExact
  <2>1. KeyIndexExact /\ None \notin BotIds
    BY NoneAssumption DEF RegistryInv
  <2>2. botKeyToId[r][oldKey] = id
    BY <1>1, <1>4, <2>1 DEF KeyIndexExact
  <2> HIDE DEF row
  <2>3. CASE p # r
    <3>1. bots'[p][b] = bots[p][b] /\ botKeyToId'[p][k] = botKeyToId[p][k]
      BY <1>5, <1>6, <2>3
    <3> QED
      BY <2>1, <3>1 DEF KeyIndexExact
  <2>4. CASE p = r /\ b = id
    <3>1. /\ bots'[p][b].status = "active"
          /\ bots'[p][b].botKey = newKey
      BY <1>3, <1>5, <2>4
    <3>2. CASE k = newKey
      BY <1>6, <2>4, <3>1, <3>2
    <3>3. CASE k # newKey /\ k = oldKey
      BY <1>6, <2>1, <2>4, <3>1, <3>3
    <3>4. CASE k # newKey /\ k # oldKey
      <4>1. botKeyToId[r][k] # id
        BY <2>1, <3>4 DEF KeyIndexExact
      <4> QED
        BY <1>6, <2>4, <3>1, <3>4, <4>1
    <3> QED
      BY <3>2, <3>3, <3>4
  <2>5. CASE p = r /\ b # id
    <3>1. bots'[p][b] = bots[r][b]
      BY <1>5, <2>5
    <3>2. CASE k = newKey
      <4>1. botKeyToId[r][newKey] # b
        BY <1>1, <2>1, <2>5
      <4> QED
        BY <1>1, <1>6, <2>1, <2>5, <3>1, <3>2, <4>1 DEF KeyIndexExact
    <3>3. CASE k # newKey /\ k = oldKey
      BY <1>6, <2>1, <2>2, <2>5, <3>1, <3>3 DEF KeyIndexExact
    <3>4. CASE k # newKey /\ k # oldKey
      BY <1>6, <2>1, <2>5, <3>1, <3>4 DEF KeyIndexExact
    <3> QED
      BY <3>2, <3>3, <3>4
  <2> QED
    BY <2>3, <2>4, <2>5
<1>10. PendingIsLive'
  BY <1>1 DEF RegistryInv, PendingIsLive
<1> QED
  BY <1>7, <1>8, <1>9, <1>10 DEF RegistryInv

LEMMA RevokeBotPreserves ==
  ASSUME RegistryInv, NEW r \in Registries, NEW id \in BotIds,
         NEW sender \in Addresses, RevokeBot(r, id, sender)
  PROVE  RegistryInv'
<1> DEFINE oldKey == bots[r][id].botKey
           row    == [status |-> "revoked",
                      operatorId |-> bots[r][id].operatorId, botKey |-> oldKey]
<1>1. /\ bots[r][id].status = "active"
      /\ UNCHANGED <<deployed, priorRegistry, operators, pendingOperatorOwner,
                     forwarded, proposedBy>>
  BY DEF RevokeBot
<1>2. bots[r][id] \in Bot
  BY RowTypes DEF RegistryInv
<1>3. /\ row \in Bot
      /\ row.status = "revoked" /\ row.operatorId = bots[r][id].operatorId
      /\ row.botKey = oldKey
  BY <1>2 DEF Bot, Statuses
<1>4. oldKey \in Addresses
  BY <1>1 DEF RegistryInv, BotsWellFormed
<1>5. /\ bots' \in [Registries -> [BotIds -> Bot]]
      /\ bots'[r][id] = row
      /\ \A p \in Registries, j \in BotIds :
            ~(p = r /\ j = id) => bots'[p][j] = bots[p][j]
  <2>1. bots' = [bots EXCEPT ![r][id] = row]
    BY <1>2, BotStatusUpdate DEF RevokeBot
  <2> HIDE DEF row
  <2> QED
    BY <1>3, <2>1, CellUpdate DEF RegistryInv, TypeOK
<1>6. /\ botKeyToId' \in [Registries -> [Addresses -> BotIds \cup {None}]]
      /\ botKeyToId'[r][oldKey] = None
      /\ \A p \in Registries, j \in Addresses :
            ~(p = r /\ j = oldKey) => botKeyToId'[p][j] = botKeyToId[p][j]
  <2>1. botKeyToId' = [botKeyToId EXCEPT ![r][oldKey] = None]
    BY DEF RevokeBot
  <2>2. botKeyToId \in [Registries -> [Addresses -> BotIds \cup {None}]]
    BY DEF RegistryInv, TypeOK
  <2> HIDE DEF oldKey
  <2> QED
    BY <1>4, <2>1, <2>2, CellUpdate
<1>7. TypeOK'
  BY <1>1, <1>5, <1>6 DEF RegistryInv, TypeOK
<1>8. BotsWellFormed'
  BY <1>1, <1>3, <1>5 DEF RegistryInv, BotsWellFormed
<1>9. KeyIndexExact'
  BY <1>1, <1>3, <1>4, <1>5, <1>6, NoneAssumption DEF RegistryInv, KeyIndexExact
<1>10. PendingIsLive'
  BY <1>1 DEF RegistryInv, PendingIsLive
<1> QED
  BY <1>7, <1>8, <1>9, <1>10 DEF RegistryInv

--------------------------------------------------------------------------------
(* The invariant and its consequences. *)

LEMMA InitRegistryInv == Init => RegistryInv
<1> SUFFICES ASSUME Init PROVE RegistryInv
  OBVIOUS
<1>1. TypeOK
  BY DEF Init, TypeOK, Operator, Bot, NoOperator, NoBot, Statuses
<1>2. BotsWellFormed /\ KeyIndexExact /\ PendingIsLive
  BY NoneAssumption
     DEF Init, BotsWellFormed, KeyIndexExact, PendingIsLive, NoOperator, NoBot
<1> QED
  BY <1>1, <1>2 DEF RegistryInv

LEMMA NextRegistryInv == RegistryInv /\ [Next]_vars => RegistryInv'
<1> SUFFICES ASSUME RegistryInv, [Next]_vars PROVE RegistryInv'
  OBVIOUS
<1>1. CASE Next
  BY <1>1, DeployPreserves, RegisterOperatorPreserves, ProposePreserves, AcceptPreserves,
     RevokeOperatorPreserves, RegisterBotPreserves, RotateBotKeyPreserves,
     RevokeBotPreserves
     DEF Next
<1>2. CASE UNCHANGED vars
  BY <1>2 DEF vars, RegistryInv, TypeOK, BotsWellFormed, KeyIndexExact, PendingIsLive
<1> QED
  BY <1>1, <1>2

LEMMA RegistryInvariant == Spec => []RegistryInv
  BY InitRegistryInv, NextRegistryInv, PTL DEF Spec

\* Every variable of every registry keeps its type.
THEOREM TypeCorrect == Spec => []TypeOK
<1>1. RegistryInv => TypeOK
  BY DEF RegistryInv
<1> QED
  BY RegistryInvariant, <1>1, PTL

\* For any number of registries, labels and keys: the key index is exactly the
\* inverse of the active bots' keys, through registrations, rotations (to the
\* same key as well) and revocations in any order.
THEOREM KeyIndexIsExact == Spec => []KeyIndexExact
<1>1. RegistryInv => KeyIndexExact
  BY DEF RegistryInv
<1> QED
  BY RegistryInvariant, <1>1, PTL

\* acceptOperatorTransfer never acts on a proposal of a former owner nor for a
\* dead operator, though it checks neither.
THEOREM PendingProposalsAreLive == Spec => []PendingIsLive
<1>1. RegistryInv => PendingIsLive
  BY DEF RegistryInv
<1> QED
  BY RegistryInvariant, <1>1, PTL


--------------------------------------------------------------------------------
(* What a transaction may never do. *)

\* The rows a transaction leaves alone.
LEMMA OperatorFrame ==
  ASSUME RegistryInv, Next, NEW r \in Registries, NEW id \in OperatorIds,
         operators'[r][id] # operators[r][id]
  PROVE  \E sender \in Addresses :
            \/ \E value \in Values : RegisterOperator(r, id, sender, value)
            \/ AcceptOperatorTransfer(r, id, sender)
            \/ RevokeOperator(r, id, sender)
<1>1. operators \in [Registries -> [OperatorIds -> Operator]]
  BY DEF RegistryInv, TypeOK
<1>2. ASSUME NEW p \in Registries, NEW j \in OperatorIds, NEW sender \in Addresses,
             NEW value \in Values, RegisterOperator(p, j, sender, value)
      PROVE  p = r /\ j = id
  BY <1>1, <1>2 DEF RegisterOperator
<1>3. ASSUME NEW p \in Registries, NEW j \in OperatorIds, NEW sender \in Addresses,
             AcceptOperatorTransfer(p, j, sender)
      PROVE  p = r /\ j = id
  BY <1>1, <1>3 DEF AcceptOperatorTransfer
<1>4. ASSUME NEW p \in Registries, NEW j \in OperatorIds, NEW sender \in Addresses,
             RevokeOperator(p, j, sender)
      PROVE  p = r /\ j = id
  BY <1>1, <1>4 DEF RevokeOperator
<1> QED
  BY <1>2, <1>3, <1>4
     DEF Next, Deploy, ProposeOperatorTransfer, RegisterBot, RotateBotKey, RevokeBot

LEMMA BotFrame ==
  ASSUME RegistryInv, Next, NEW r \in Registries, NEW id \in BotIds,
         bots'[r][id] # bots[r][id]
  PROVE  \E sender \in Addresses :
            \/ \E operatorId \in OperatorIds, botKey \in Addresses \cup {None},
                  value \in Values :
                  RegisterBot(r, id, operatorId, botKey, sender, value)
            \/ \E newKey \in Addresses \cup {None} : RotateBotKey(r, id, newKey, sender)
            \/ RevokeBot(r, id, sender)
<1>1. bots \in [Registries -> [BotIds -> Bot]]
  BY DEF RegistryInv, TypeOK
<1>2. ASSUME NEW p \in Registries, NEW j \in BotIds, NEW sender \in Addresses,
             NEW operatorId \in OperatorIds, NEW botKey \in Addresses \cup {None},
             NEW value \in Values, RegisterBot(p, j, operatorId, botKey, sender, value)
      PROVE  p = r /\ j = id
  BY <1>1, <1>2 DEF RegisterBot
<1>3. ASSUME NEW p \in Registries, NEW j \in BotIds, NEW sender \in Addresses,
             NEW newKey \in Addresses \cup {None}, RotateBotKey(p, j, newKey, sender)
      PROVE  p = r /\ j = id
  BY <1>1, <1>3 DEF RotateBotKey
<1>4. ASSUME NEW p \in Registries, NEW j \in BotIds, NEW sender \in Addresses,
             RevokeBot(p, j, sender)
      PROVE  p = r /\ j = id
  BY <1>1, <1>4 DEF RevokeBot
<1>5. PICK p \in Registries, j \in BotIds, sender \in Addresses :
         \/ \E operatorId \in OperatorIds, botKey \in Addresses \cup {None},
               value \in Values :
               RegisterBot(p, j, operatorId, botKey, sender, value)
         \/ \E newKey \in Addresses \cup {None} : RotateBotKey(p, j, newKey, sender)
         \/ RevokeBot(p, j, sender)
  BY DEF Next, Deploy, RegisterOperator, ProposeOperatorTransfer, AcceptOperatorTransfer,
         RevokeOperator
<1>6. p = r /\ j = id
  BY <1>2, <1>3, <1>4, <1>5
<1> QED
  BY <1>5, <1>6

\* Revoked labels keep their row for ever.
THEOREM TombstonesFinal == Spec => TombstonesAreFinal
<1>1. RegistryInv /\ [Next]_vars => [TombstonesKept]_vars
  <2> SUFFICES ASSUME RegistryInv, Next PROVE TombstonesKept
    BY DEF vars
  <2>1. ASSUME NEW r \in Registries, NEW id \in OperatorIds,
               operators[r][id].status = "revoked", operators'[r][id] # operators[r][id]
        PROVE  FALSE
    <3>1. PICK sender \in Addresses :
             \/ \E value \in Values : RegisterOperator(r, id, sender, value)
             \/ AcceptOperatorTransfer(r, id, sender)
             \/ RevokeOperator(r, id, sender)
      BY <2>1, OperatorFrame
    <3>2. pendingOperatorOwner[r][id] = None
      BY <2>1 DEF RegistryInv, PendingIsLive
    <3> QED
      BY <2>1, <3>1, <3>2
         DEF RegisterOperator, AcceptOperatorTransfer, RevokeOperator, OwnsActive
  <2>2. ASSUME NEW r \in Registries, NEW id \in BotIds,
               bots[r][id].status = "revoked", bots'[r][id] # bots[r][id]
        PROVE  FALSE
    BY <2>2, BotFrame DEF RegisterBot, RotateBotKey, RevokeBot
  <2> QED
    BY <2>1, <2>2 DEF TombstonesKept
<1> QED
  BY <1>1, RegistryInvariant, PTL DEF Spec, TombstonesAreFinal

\* An owner is replaced only by the address that the owner in office proposed.
THEOREM OwnersChangeByConsent == Spec => OwnerChangesByConsent
<1>1. RegistryInv /\ [Next]_vars => [OwnersConsent]_vars
  <2> SUFFICES ASSUME RegistryInv, Next PROVE OwnersConsent
    BY DEF vars
  <2> SUFFICES ASSUME NEW r \in Registries, NEW id \in OperatorIds,
                      operators[r][id].status # "missing",
                      operators'[r][id].owner # operators[r][id].owner
               PROVE  /\ operators'[r][id].owner = pendingOperatorOwner[r][id]
                      /\ proposedBy[r][id] = operators[r][id].owner
    BY DEF OwnersConsent
  <2>1. PICK sender \in Addresses :
           \/ \E value \in Values : RegisterOperator(r, id, sender, value)
           \/ AcceptOperatorTransfer(r, id, sender)
           \/ RevokeOperator(r, id, sender)
    BY OperatorFrame
  <2>2. operators[r][id] \in Operator /\ operators \in [Registries -> [OperatorIds -> Operator]]
    BY RowTypes DEF RegistryInv, TypeOK
  <2>3. CASE \E value \in Values : RegisterOperator(r, id, sender, value)
    BY <2>3 DEF RegisterOperator
  <2>4. CASE RevokeOperator(r, id, sender)
    <3>1. operators'[r][id] = [status |-> "revoked", owner |-> operators[r][id].owner]
      BY <2>2, <2>4, OperatorStatusUpdate DEF RevokeOperator
    <3> QED
      BY <3>1
  <2>5. CASE AcceptOperatorTransfer(r, id, sender)
    <3>1. operators'[r][id] = [status |-> operators[r][id].status, owner |-> sender]
      BY <2>2, <2>5, OwnerUpdate DEF AcceptOperatorTransfer
    <3>2. sender = pendingOperatorOwner[r][id] /\ pendingOperatorOwner[r][id] # None
      BY <2>5 DEF AcceptOperatorTransfer
    <3>3. proposedBy[r][id] = operators[r][id].owner
      BY <3>2 DEF RegistryInv, PendingIsLive
    <3> QED
      BY <3>1, <3>2, <3>3
  <2> QED
    BY <2>1, <2>3, <2>4, <2>5
<1> QED
  BY <1>1, RegistryInvariant, PTL DEF Spec, OwnerChangesByConsent

\* No transaction touches a bot of a revoked operator.
THEOREM RevocationFreezesBots == Spec => RevokedOperatorFreezesBots
<1>1. RegistryInv /\ [Next]_vars => [BotsChangeUnderActiveOperator]_vars
  <2> SUFFICES ASSUME RegistryInv, Next PROVE BotsChangeUnderActiveOperator
    BY DEF vars
  <2> SUFFICES ASSUME NEW r \in Registries, NEW id \in BotIds, bots'[r][id] # bots[r][id]
               PROVE  operators[r][bots'[r][id].operatorId].status = "active"
    BY DEF BotsChangeUnderActiveOperator
  <2>1. /\ bots \in [Registries -> [BotIds -> Bot]]
        /\ operators \in [Registries -> [OperatorIds -> Operator]]
        /\ bots[r][id] \in Bot
    BY RowTypes DEF RegistryInv, TypeOK
  <2>2. ASSUME NEW o \in OperatorIds, NEW sender \in Addresses, OwnsActive(r, o, sender)
        PROVE  operators[r][o].status = "active"
    BY <2>1, <2>2 DEF OwnsActive, Operator, Statuses
  <2>3. ASSUME NEW o \in OperatorIds, NEW k \in Addresses \cup {None},
               NEW sender \in Addresses, NEW value \in Values,
               RegisterBot(r, id, o, k, sender, value)
        PROVE  operators[r][bots'[r][id].operatorId].status = "active"
    <3>1. bots'[r][id].operatorId = o
      BY <2>1, <2>3 DEF RegisterBot
    <3> QED
      BY <2>2, <2>3, <3>1 DEF RegisterBot
  <2>4. ASSUME bots[r][id].status = "active", NEW sender \in Addresses,
               OwnsActive(r, bots[r][id].operatorId, sender),
               bots'[r][id].operatorId = bots[r][id].operatorId
        PROVE  operators[r][bots'[r][id].operatorId].status = "active"
    <3>1. bots[r][id].operatorId \in OperatorIds
      BY <2>4 DEF RegistryInv, BotsWellFormed
    <3> QED
      BY <2>2, <2>4, <3>1
  <2>5. ASSUME NEW k \in Addresses \cup {None}, NEW sender \in Addresses,
               RotateBotKey(r, id, k, sender)
        PROVE  operators[r][bots'[r][id].operatorId].status = "active"
    <3>1. k \in Addresses
      BY <2>5 DEF RotateBotKey
    <3>2. bots'[r][id] = [bots[r][id] EXCEPT !.botKey = k]
      BY <2>1, <2>5 DEF RotateBotKey
    <3>3. bots'[r][id].operatorId = bots[r][id].operatorId
      BY <2>1, <3>1, <3>2, KeyUpdate
    <3> QED
      BY <2>4, <2>5, <3>3 DEF RotateBotKey
  <2>6. ASSUME NEW sender \in Addresses, RevokeBot(r, id, sender)
        PROVE  operators[r][bots'[r][id].operatorId].status = "active"
    <3>1. bots'[r][id] = [bots[r][id] EXCEPT !.status = "revoked"]
      BY <2>1, <2>6 DEF RevokeBot
    <3>2. bots'[r][id].operatorId = bots[r][id].operatorId
      BY <2>1, <3>1, BotStatusUpdate
    <3> QED
      BY <2>4, <2>6, <3>2 DEF RevokeBot
  <2> QED
    BY <2>3, <2>5, <2>6, BotFrame
<1> QED
  BY <1>1, RegistryInvariant, PTL DEF Spec, RevokedOperatorFreezesBots

--------------------------------------------------------------------------------
(* Induction. *)

\* Every set of naturals has a least element.
LEMMA NatLeast ==
  ASSUME NEW T, T \subseteq Nat, T # {}
  PROVE  \E x \in T : \A y \in T : x <= y
<1> DEFINE R == OpToRel(<, Nat)
<1>1. IsWellFoundedOn(R, Nat)
  BY NatLessThanWellFounded
<1>2. \A x, y \in Nat : x < y => <<x, y>> \in R
  BY DEF OpToRel
<1> HIDE DEF R
<1>3. PICK x \in T : \A y \in T : ~ (<<y, x>> \in R)
  BY <1>1, WFMin
<1>4. \A y \in T : ~ (y < x)
  BY <1>2, <1>3
<1> QED
  BY <1>3, <1>4

\* Induction over the naturals, for a property given as a set: the library states
\* it for operators, which the provers cannot instantiate.
LEMMA SetInduction ==
  ASSUME NEW S, 0 \in S, \A n \in Nat : n \in S => n + 1 \in S
  PROVE  Nat \subseteq S
<1> DEFINE T == Nat \ S
<1> SUFFICES ASSUME T # {} PROVE FALSE
  OBVIOUS
<1>1. PICK x \in T : \A y \in T : x <= y
  BY NatLeast
<1>2. x # 0
  OBVIOUS
<1>3. x - 1 \in Nat /\ ~ (x <= x - 1)
  BY <1>2
<1>4. x - 1 \in S
  BY <1>1, <1>3
<1>5. (x - 1) + 1 \in S
  BY <1>3, <1>4
<1> QED
  BY <1>5

--------------------------------------------------------------------------------
(* The walk over predecessors: what Lineage computes, for a chain of links of *)
(* any length and shape, and what a successor therefore cannot do.            *)

\* The predecessor of a registry; there is none behind None.
Behind(p) == IF p = None THEN None ELSE priorRegistry[p]

\* The walks of n hops from r: the first n + 1 entries of a lineage.
Walks(r, n) ==
    {f \in [0..n -> Registries \cup {None}] :
        f[0] = r /\ \A i \in 1..n : f[i] = Behind(f[i - 1])}

LEMMA BehindType ==
  ASSUME TypeOK, NEW p \in Registries \cup {None}
  PROVE  Behind(p) \in Registries \cup {None}
  BY DEF TypeOK, Behind

LEMMA WalkExists ==
  ASSUME TypeOK, NEW r \in Registries
  PROVE  \A n \in Nat : Walks(r, n) # {}
<1> DEFINE S == {n \in Nat : Walks(r, n) # {}}
<1>1. 0 \in S
  <2>1. [i \in 0..0 |-> r] \in Walks(r, 0)
    BY DEF Walks
  <2> QED
    BY <2>1
<1>2. \A n \in Nat : n \in S => n + 1 \in S
  <2> SUFFICES ASSUME NEW n \in Nat, NEW f \in Walks(r, n)
               PROVE  Walks(r, n + 1) # {}
    OBVIOUS
  <2> DEFINE g == [i \in 0..(n + 1) |-> IF i = n + 1 THEN Behind(f[n]) ELSE f[i]]
  <2>1. f \in [0..n -> Registries \cup {None}] /\ f[0] = r
        /\ \A i \in 1..n : f[i] = Behind(f[i - 1])
    BY DEF Walks
  <2>2. Behind(f[n]) \in Registries \cup {None}
    BY <2>1, BehindType
  <2>3. g \in [0..(n + 1) -> Registries \cup {None}]
    BY <2>1, <2>2
  <2>4. g[0] = r
    BY <2>1
  <2>5. ASSUME NEW i \in 1..(n + 1) PROVE g[i] = Behind(g[i - 1])
    <3>1. CASE i = n + 1
      BY <3>1
    <3>2. CASE i # n + 1
      <4>1. i \in 1..n /\ i \in 0..(n + 1) /\ i - 1 \in 0..(n + 1) /\ i - 1 # n + 1
        BY <3>2
      <4> QED
        BY <2>1, <3>2, <4>1
    <3> QED
      BY <3>1, <3>2
  <2>6. g \in Walks(r, n + 1)
    BY <2>3, <2>4, <2>5 DEF Walks
  <2> QED
    BY <2>6
<1> HIDE DEF S
<1>3. Nat \subseteq S
  BY <1>1, <1>2, SetInduction
<1> QED
  BY <1>3 DEF S

\* Lineage is what its recursive definition says.
LEMMA LineageIsWalk ==
  ASSUME TypeOK, NEW r \in Registries
  PROVE  Lineage(r) \in Walks(r, MaxPriorHops)
<1> DEFINE Entry(h, i) == IF i = 0 THEN r
                          ELSE IF h[i - 1] = None THEN None
                          ELSE priorRegistry[h[i - 1]]
           IsHop(h) == h = [i \in 0..MaxPriorHops |-> Entry(h, i)]
           hop == CHOOSE h : IsHop(h)
<1>1. Lineage(r) = hop
  BY DEF Lineage
<1>2. PICK g : g \in Walks(r, MaxPriorHops)
  BY WalkExists, NumbersAssumption
<1>3. IsHop(g)
  <2>1. \A i \in 0..MaxPriorHops : g[i] = Entry(g, i)
    BY <1>2, NumbersAssumption DEF Walks, Behind
  <2>2. g = [i \in 0..MaxPriorHops |-> g[i]]
    BY <1>2 DEF Walks
  <2> QED
    BY <2>1, <2>2
<1>4. IsHop(hop)
  BY <1>3
<1>5. /\ DOMAIN hop = 0..MaxPriorHops
      /\ hop = [i \in DOMAIN hop |-> hop[i]]
      /\ \A i \in 0..MaxPriorHops : hop[i] = Entry(hop, i)
  <2> HIDE DEF hop, Entry
  <2> QED
    BY <1>4
<1> HIDE DEF hop
<1>6. hop[0] = r /\ \A i \in 1..MaxPriorHops : hop[i] = Behind(hop[i - 1])
  BY <1>5, NumbersAssumption DEF Behind
<1>7. \A i \in 0..MaxPriorHops : hop[i] \in Registries \cup {None}
  <2> DEFINE S == {i \in Nat : i <= MaxPriorHops => hop[i] \in Registries \cup {None}}
  <2>1. 0 \in S
    BY <1>6
  <2>2. \A i \in Nat : i \in S => i + 1 \in S
    <3> SUFFICES ASSUME NEW i \in Nat, i \in S, i + 1 <= MaxPriorHops
                 PROVE  hop[i + 1] \in Registries \cup {None}
      OBVIOUS
    <3>1. i + 1 \in 1..MaxPriorHops /\ (i + 1) - 1 = i /\ i <= MaxPriorHops
      BY NumbersAssumption
    <3>2. hop[i] \in Registries \cup {None}
      BY <3>1
    <3>3. hop[i + 1] = Behind(hop[i])
      BY <1>6, <3>1
    <3> QED
      BY <3>2, <3>3, BehindType
  <2> HIDE DEF S
  <2>3. Nat \subseteq S
    BY <2>1, <2>2, SetInduction
  <2> QED
    BY <2>3, NumbersAssumption DEF S
<1> QED
  BY <1>1, <1>5, <1>6, <1>7 DEF Walks

\* The lineage of an entry is the rest of the lineage.
LEMMA LineageContinues ==
  ASSUME TypeOK, NEW r \in Registries, NEW i \in 0..MaxPriorHops, NEW k \in i..MaxPriorHops,
         Lineage(r)[i] # None
  PROVE  Lineage(Lineage(r)[i])[k - i] = Lineage(r)[k]
<1> DEFINE p == Lineage(r)[i]
           S == {j \in Nat : i + j <= MaxPriorHops => Lineage(p)[j] = Lineage(r)[i + j]}
<1>1. Lineage(r) \in Walks(r, MaxPriorHops)
  BY LineageIsWalk
<1>2. p \in Registries
  BY <1>1 DEF Walks
<1>3. Lineage(p) \in Walks(p, MaxPriorHops)
  BY <1>2, LineageIsWalk
<1> HIDE DEF p
<1>4. /\ Lineage(p)[0] = p
      /\ \A j \in 1..MaxPriorHops : Lineage(p)[j] = Behind(Lineage(p)[j - 1])
      /\ \A j \in 1..MaxPriorHops : Lineage(r)[j] = Behind(Lineage(r)[j - 1])
  BY <1>1, <1>3 DEF Walks
<1>5. 0 \in S
  BY <1>4 DEF p
<1>6. \A j \in Nat : j \in S => j + 1 \in S
  <2> SUFFICES ASSUME NEW j \in Nat, j \in S, i + (j + 1) <= MaxPriorHops
               PROVE  Lineage(p)[j + 1] = Lineage(r)[i + (j + 1)]
    OBVIOUS
  <2>1. /\ j + 1 \in 1..MaxPriorHops /\ (j + 1) - 1 = j
        /\ i + (j + 1) \in 1..MaxPriorHops /\ (i + (j + 1)) - 1 = i + j
        /\ i + j <= MaxPriorHops
    BY NumbersAssumption
  <2>2. Lineage(p)[j] = Lineage(r)[i + j]
    BY <2>1
  <2>3. Lineage(p)[j + 1] = Behind(Lineage(p)[j])
    BY <1>4, <2>1
  <2>4. Lineage(r)[i + (j + 1)] = Behind(Lineage(r)[i + j])
    BY <1>4, <2>1
  <2> QED
    BY <2>2, <2>3, <2>4
<1> HIDE DEF S
<1>7. Nat \subseteq S
  BY <1>5, <1>6, SetInduction
<1>8. k - i \in Nat /\ i + (k - i) = k /\ k <= MaxPriorHops
  BY NumbersAssumption
<1> QED
  BY <1>7, <1>8 DEF S, p

\* A walk finds the record of the foremost predecessor.
LEMMA NearestIsForemost ==
  ASSUME TypeOK, NEW r \in Registries, NEW table, NEW id, Knowing(r, table, id) # {}
  PROVE  \E i \in 1..MaxPriorHops :
            /\ Nearest(i, RecordedHops(r, table, id))
            /\ Lineage(r)[i] \in Registries
            /\ Foremost(Lineage(r)[i], Knowing(r, table, id))
<1> DEFINE hops == RecordedHops(r, table, id)
<1>1. Lineage(r) \in [0..MaxPriorHops -> Registries \cup {None}]
  BY LineageIsWalk DEF Walks
<1>2. hops \subseteq 1..MaxPriorHops /\ hops \subseteq Nat
  BY NumbersAssumption DEF RecordedHops
<1>3. \A i \in hops : /\ Lineage(r)[i] \in Registries
                      /\ Lineage(r)[i] \in Knowing(r, table, id)
  BY <1>1, <1>2, NumbersAssumption DEF RecordedHops, Knowing, Precedes
<1>4. \A q \in Knowing(r, table, id) : \E k \in hops : Lineage(r)[k] = q
  BY NoneAssumption DEF RecordedHops, Knowing, Precedes
<1>5. hops # {}
  BY <1>4
<1>6. PICK i \in hops : \A j \in hops : i <= j
  BY <1>2, <1>5, NatLeast
<1>7. ASSUME NEW q \in Knowing(r, table, id), q # Lineage(r)[i]
      PROVE  Precedes(q, Lineage(r)[i])
  <2>1. PICK k \in hops : Lineage(r)[k] = q
    BY <1>4
  <2>2. i <= k /\ i # k /\ i \in 1..MaxPriorHops /\ k \in 1..MaxPriorHops
    BY <1>2, <1>6, <1>7, <2>1
  <2>3. k \in i..MaxPriorHops /\ i \in 0..MaxPriorHops /\ k - i \in 1..MaxPriorHops
    BY <2>2, NumbersAssumption
  <2>4. Lineage(r)[i] # None
    BY <1>3, <1>6, NoneAssumption
  <2>5. Lineage(Lineage(r)[i])[k - i] = q
    BY <2>1, <2>3, <2>4, LineageContinues
  <2> QED
    BY <2>3, <2>5 DEF Precedes
<1>8. Foremost(Lineage(r)[i], Knowing(r, table, id))
  BY <1>3, <1>6, <1>7 DEF Foremost
<1> QED
  BY <1>2, <1>3, <1>6, <1>8 DEF Nearest

LEMMA OperatorClaim ==
  ASSUME RegistryInv, NEW r \in Registries, NEW id \in OperatorIds, NEW sender \in Addresses,
         NEW value \in Values, RegisterOperator(r, id, sender, value),
         Knowing(r, operators, id) # {}
  PROVE  \E p \in Registries : /\ Foremost(p, Knowing(r, operators, id))
                               /\ operators[p][id] = operators'[r][id]
<1>1. TypeOK /\ operators \in [Registries -> [OperatorIds -> Operator]]
  BY DEF RegistryInv, TypeOK
<1>2. PICK i \in 1..MaxPriorHops :
            /\ Nearest(i, RecordedHops(r, operators, id))
            /\ Lineage(r)[i] \in Registries
            /\ Foremost(Lineage(r)[i], Knowing(r, operators, id))
  BY <1>1, NearestIsForemost
<1>3. /\ operators[Lineage(r)[i]][id].status = "active"
      /\ operators[Lineage(r)[i]][id].owner = sender
  BY <1>2 DEF RegisterOperator, EnforcePriorOperator
<1>4. operators[Lineage(r)[i]][id] = [status |-> "active", owner |-> sender]
  BY <1>1, <1>2, <1>3 DEF Operator
<1>5. operators'[r][id] = [status |-> "active", owner |-> sender]
  BY <1>1 DEF RegisterOperator
<1> QED
  BY <1>2, <1>4, <1>5

LEMMA BotClaim ==
  ASSUME RegistryInv, NEW r \in Registries, NEW id \in BotIds, NEW o \in OperatorIds,
         NEW k \in Addresses \cup {None}, NEW sender \in Addresses,
         NEW value \in Values, RegisterBot(r, id, o, k, sender, value),
         Knowing(r, bots, id) # {}
  PROVE  \E p \in Registries :
            /\ Foremost(p, Knowing(r, bots, id))
            /\ bots[p][id].status = "active"
            /\ bots[p][id].operatorId = bots'[r][id].operatorId
            /\ operators[p][bots'[r][id].operatorId] = operators[r][bots'[r][id].operatorId]
            /\ operators[r][bots'[r][id].operatorId].status = "active"
<1>1. TypeOK /\ operators \in [Registries -> [OperatorIds -> Operator]]
      /\ bots \in [Registries -> [BotIds -> Bot]]
  BY DEF RegistryInv, TypeOK
<1>2. PICK i \in 1..MaxPriorHops :
            /\ Nearest(i, RecordedHops(r, bots, id))
            /\ Lineage(r)[i] \in Registries
            /\ Foremost(Lineage(r)[i], Knowing(r, bots, id))
  BY <1>1, NearestIsForemost
<1> DEFINE p == Lineage(r)[i]
<1>3. /\ bots[p][id].status = "active" /\ bots[p][id].operatorId = o
      /\ operators[p][o].status = "active" /\ operators[p][o].owner = sender
  BY <1>2 DEF RegisterBot, EnforcePriorBot
<1>4. operators[p][o] = [status |-> "active", owner |-> sender]
  BY <1>1, <1>2, <1>3 DEF Operator
<1>5. operators[r][o] = [status |-> "active", owner |-> sender]
  BY <1>1 DEF RegisterBot, OwnsActive, Operator, Statuses
<1>6. bots'[r][id].operatorId = o
  BY <1>1 DEF RegisterBot
<1> QED
  BY <1>2, <1>3, <1>4, <1>5, <1>6

\* A label that a predecessor within reach knows passes to a successor only
\* with its owner, for lineages of any length and shape.
THEOREM NobodyUsurps == Spec => NoUsurpation
<1>1. RegistryInv /\ [Next]_vars => [OperatorsNotUsurped /\ BotsNotUsurped]_vars
  <2> SUFFICES ASSUME RegistryInv, Next PROVE OperatorsNotUsurped /\ BotsNotUsurped
    BY DEF vars
  <2>1. ASSUME NEW r \in Registries, NEW id \in OperatorIds,
               operators[r][id].status = "missing", operators'[r][id].status # "missing",
               Knowing(r, operators, id) # {}
        PROVE  \E p \in Registries : /\ Foremost(p, Knowing(r, operators, id))
                                     /\ operators[p][id] = operators'[r][id]
    <3>1. PICK sender \in Addresses :
             \/ \E value \in Values : RegisterOperator(r, id, sender, value)
             \/ AcceptOperatorTransfer(r, id, sender)
             \/ RevokeOperator(r, id, sender)
      BY <2>1, OperatorFrame
    <3>2. ~ RevokeOperator(r, id, sender)
      BY <2>1 DEF RevokeOperator, OwnsActive
    <3>3. ~ AcceptOperatorTransfer(r, id, sender)
      BY <2>1 DEF AcceptOperatorTransfer, RegistryInv, PendingIsLive
    <3> QED
      BY <2>1, <3>1, <3>2, <3>3, OperatorClaim
  <2>2. ASSUME NEW r \in Registries, NEW id \in BotIds,
               bots[r][id].status = "missing", bots'[r][id].status # "missing",
               Knowing(r, bots, id) # {}
        PROVE  \E p \in Registries :
                  /\ Foremost(p, Knowing(r, bots, id))
                  /\ bots[p][id].status = "active"
                  /\ bots[p][id].operatorId = bots'[r][id].operatorId
                  /\ operators[p][bots'[r][id].operatorId] = operators[r][bots'[r][id].operatorId]
                  /\ operators[r][bots'[r][id].operatorId].status = "active"
    <3>1. PICK sender \in Addresses :
             \/ \E o \in OperatorIds, k \in Addresses \cup {None}, value \in Values :
                   RegisterBot(r, id, o, k, sender, value)
             \/ \E k \in Addresses \cup {None} : RotateBotKey(r, id, k, sender)
             \/ RevokeBot(r, id, sender)
      BY <2>2, BotFrame
    <3>2. /\ ~ RevokeBot(r, id, sender)
          /\ \A k \in Addresses \cup {None} : ~ RotateBotKey(r, id, k, sender)
      BY <2>2 DEF RevokeBot, RotateBotKey
    <3> QED
      BY <2>2, <3>1, <3>2, BotClaim
  <2>3. OperatorsNotUsurped
    BY <2>1 DEF OperatorsNotUsurped
  <2>4. BotsNotUsurped
    BY <2>2 DEF BotsNotUsurped
  <2> QED
    BY <2>3, <2>4
<1> QED
  BY <1>1, RegistryInvariant, PTL DEF Spec, NoUsurpation

--------------------------------------------------------------------------------
(* Fees. *)

\* Only finitely many labels are ever recorded, whatever the set of labels.
FeesInv ==
    /\ \A r \in Registries : IsFiniteSet(RecordedOperators(r)) /\ IsFiniteSet(RecordedBots(r))
    /\ FeesMatchRegistrations

LEMMA OneMore ==
  ASSUME NEW n \in Nat, NEW fee \in Nat
  PROVE  fee * (n + 1) = fee * n + fee
  OBVIOUS

LEMMA InitFees == Init => FeesInv
<1> SUFFICES ASSUME Init PROVE FeesInv
  OBVIOUS
<1>1. \A r \in Registries : RecordedOperators(r) = {} /\ RecordedBots(r) = {} /\ forwarded[r] = 0
  BY DEF Init, RecordedOperators, RecordedBots, NoOperator, NoBot
<1>2. OperatorFee * 0 = 0 /\ BotFee * 0 = 0
  BY NumbersAssumption
<1> QED
  BY <1>1, <1>2, FS_EmptySet DEF FeesInv, FeesMatchRegistrations

\* A step that records no label of r and moves no fee.
LEMMA SameFees ==
  ASSUME FeesInv,
         \A r \in Registries : /\ RecordedOperators(r)' = RecordedOperators(r)
                               /\ RecordedBots(r)' = RecordedBots(r)
                               /\ forwarded'[r] = forwarded[r]
  PROVE  FeesInv'
  BY DEF FeesInv, FeesMatchRegistrations

LEMMA RegisterOperatorPays ==
  ASSUME RegistryInv, FeesInv, NEW r \in Registries, NEW id \in OperatorIds,
         NEW sender \in Addresses, NEW value \in Values,
         RegisterOperator(r, id, sender, value)
  PROVE  FeesInv'
<1>1. /\ operators \in [Registries -> [OperatorIds -> Operator]]
      /\ forwarded \in [Registries -> Nat]
  BY DEF RegistryInv, TypeOK
<1>2. id \notin RecordedOperators(r) /\ RecordedOperators(r)' = RecordedOperators(r) \cup {id}
  BY <1>1 DEF RegisterOperator, RecordedOperators
<1>3. \A p \in Registries : p # r => RecordedOperators(p)' = RecordedOperators(p)
  BY <1>1 DEF RegisterOperator, RecordedOperators
<1>4. \A p \in Registries : RecordedBots(p)' = RecordedBots(p)
  BY DEF RegisterOperator, RecordedBots
<1>5. /\ forwarded'[r] = forwarded[r] + OperatorFee
      /\ \A p \in Registries : p # r => forwarded'[p] = forwarded[p]
  BY <1>1 DEF RegisterOperator, ForwardFee
<1>6. IsFiniteSet(RecordedOperators(r)) /\ IsFiniteSet(RecordedBots(r))
  BY DEF FeesInv
<1>7. /\ IsFiniteSet(RecordedOperators(r)')
      /\ Cardinality(RecordedOperators(r)') = Cardinality(RecordedOperators(r)) + 1
  BY <1>2, <1>6, FS_AddElement
<1>8. Cardinality(RecordedOperators(r)) \in Nat /\ Cardinality(RecordedBots(r)) \in Nat
  BY <1>6, FS_CardinalityType
<1>9. forwarded'[r] = OperatorFee * Cardinality(RecordedOperators(r)')
                        + BotFee * Cardinality(RecordedBots(r)')
  <2> DEFINE n == Cardinality(RecordedOperators(r))
             b == BotFee * Cardinality(RecordedBots(r))
             f == OperatorFee * n
  <2>1. b \in Nat /\ f \in Nat
    BY <1>8, NumbersAssumption
  <2>2. OperatorFee * (n + 1) = f + OperatorFee
    BY <1>8, OneMore, NumbersAssumption
  <2>3. forwarded[r] = f + b
    BY DEF FeesInv, FeesMatchRegistrations
  <2>4. OperatorFee * Cardinality(RecordedOperators(r)') = f + OperatorFee
    BY <1>7, <2>2
  <2>5. BotFee * Cardinality(RecordedBots(r)') = b
    BY <1>4
  <2> HIDE DEF f, b
  <2> QED
    BY <1>5, <2>1, <2>3, <2>4, <2>5, NumbersAssumption
<1> QED
  BY <1>3, <1>4, <1>5, <1>7, <1>9 DEF FeesInv, FeesMatchRegistrations

LEMMA RegisterBotPays ==
  ASSUME RegistryInv, FeesInv, NEW r \in Registries, NEW id \in BotIds,
         NEW o \in OperatorIds, NEW k \in Addresses \cup {None},
         NEW sender \in Addresses, NEW value \in Values,
         RegisterBot(r, id, o, k, sender, value)
  PROVE  FeesInv'
<1>1. /\ bots \in [Registries -> [BotIds -> Bot]]
      /\ forwarded \in [Registries -> Nat]
  BY DEF RegistryInv, TypeOK
<1>2. id \notin RecordedBots(r) /\ RecordedBots(r)' = RecordedBots(r) \cup {id}
  BY <1>1 DEF RegisterBot, RecordedBots
<1>3. \A p \in Registries : p # r => RecordedBots(p)' = RecordedBots(p)
  BY <1>1 DEF RegisterBot, RecordedBots
<1>4. \A p \in Registries : RecordedOperators(p)' = RecordedOperators(p)
  BY DEF RegisterBot, RecordedOperators
<1>5. /\ forwarded'[r] = forwarded[r] + BotFee
      /\ \A p \in Registries : p # r => forwarded'[p] = forwarded[p]
  BY <1>1 DEF RegisterBot, ForwardFee
<1>6. IsFiniteSet(RecordedOperators(r)) /\ IsFiniteSet(RecordedBots(r))
  BY DEF FeesInv
<1>7. /\ IsFiniteSet(RecordedBots(r)')
      /\ Cardinality(RecordedBots(r)') = Cardinality(RecordedBots(r)) + 1
  BY <1>2, <1>6, FS_AddElement
<1>8. Cardinality(RecordedOperators(r)) \in Nat /\ Cardinality(RecordedBots(r)) \in Nat
  BY <1>6, FS_CardinalityType
<1>9. forwarded'[r] = OperatorFee * Cardinality(RecordedOperators(r)')
                        + BotFee * Cardinality(RecordedBots(r)')
  <2> DEFINE n == Cardinality(RecordedBots(r))
             f == OperatorFee * Cardinality(RecordedOperators(r))
             b == BotFee * n
  <2>1. b \in Nat /\ f \in Nat
    BY <1>8, NumbersAssumption
  <2>2. BotFee * (n + 1) = b + BotFee
    BY <1>8, OneMore, NumbersAssumption
  <2>3. forwarded[r] = f + b
    BY DEF FeesInv, FeesMatchRegistrations
  <2>4. BotFee * Cardinality(RecordedBots(r)') = b + BotFee
    BY <1>7, <2>2
  <2>5. OperatorFee * Cardinality(RecordedOperators(r)') = f
    BY <1>4
  <2> HIDE DEF f, b
  <2> QED
    BY <1>5, <2>1, <2>3, <2>4, <2>5, NumbersAssumption
<1> QED
  BY <1>3, <1>4, <1>5, <1>7, <1>9 DEF FeesInv, FeesMatchRegistrations

\* No other transaction records a label: a row that changes had a record and
\* keeps one.
LEMMA NoOtherFees ==
  ASSUME RegistryInv, FeesInv, Next,
         \A r \in Registries, id \in OperatorIds, sender \in Addresses, value \in Values :
            ~ RegisterOperator(r, id, sender, value),
         \A r \in Registries, id \in BotIds, o \in OperatorIds, k \in Addresses \cup {None},
            sender \in Addresses, value \in Values : ~ RegisterBot(r, id, o, k, sender, value)
  PROVE  FeesInv'
<1>1. UNCHANGED forwarded
  <2>1. /\ \A r \in Registries, prior \in Registries \cup {None} :
              Deploy(r, prior) => UNCHANGED forwarded
        /\ \A r \in Registries, id \in OperatorIds, sender \in Addresses :
              /\ \A newOwner \in Addresses \cup {None} :
                    ProposeOperatorTransfer(r, id, sender, newOwner) => UNCHANGED forwarded
              /\ AcceptOperatorTransfer(r, id, sender) => UNCHANGED forwarded
              /\ RevokeOperator(r, id, sender) => UNCHANGED forwarded
    BY DEF Deploy, ProposeOperatorTransfer, AcceptOperatorTransfer, RevokeOperator
  <2>2. \A r \in Registries, id \in BotIds, sender \in Addresses :
           /\ \A k \in Addresses \cup {None} :
                 RotateBotKey(r, id, k, sender) => UNCHANGED forwarded
           /\ RevokeBot(r, id, sender) => UNCHANGED forwarded
    BY DEF RotateBotKey, RevokeBot
  <2> QED
    BY <2>1, <2>2 DEF Next
<1>2. ASSUME NEW r \in Registries, NEW id \in OperatorIds
      PROVE  operators'[r][id].status # "missing" <=> operators[r][id].status # "missing"
  <2>1. operators[r][id] \in Operator /\ operators \in [Registries -> [OperatorIds -> Operator]]
    BY RowTypes DEF RegistryInv, TypeOK
  <2>2. ASSUME NEW sender \in Addresses, AcceptOperatorTransfer(r, id, sender)
        PROVE  operators'[r][id].status = operators[r][id].status
    <3>1. operators'[r][id] = [operators[r][id] EXCEPT !.owner = sender]
      BY <2>1, <2>2 DEF AcceptOperatorTransfer
    <3> QED
      BY <2>1, <3>1, OwnerUpdate
  <2>3. ASSUME NEW sender \in Addresses, RevokeOperator(r, id, sender)
        PROVE  operators'[r][id].status = "revoked" /\ operators[r][id].status # "missing"
    <3>1. operators'[r][id] = [operators[r][id] EXCEPT !.status = "revoked"]
      BY <2>1, <2>3 DEF RevokeOperator
    <3> QED
      BY <2>1, <2>3, <3>1, OperatorStatusUpdate DEF RevokeOperator, OwnsActive
  <2>4. CASE operators'[r][id] # operators[r][id]
    <3>1. PICK sender \in Addresses :
             \/ \E value \in Values : RegisterOperator(r, id, sender, value)
             \/ AcceptOperatorTransfer(r, id, sender)
             \/ RevokeOperator(r, id, sender)
      BY <2>4, OperatorFrame
    <3> QED
      BY <2>2, <2>3, <3>1
  <2> QED
    BY <2>4
<1>3. ASSUME NEW r \in Registries, NEW id \in BotIds
      PROVE  bots'[r][id].status # "missing" <=> bots[r][id].status # "missing"
  <2>1. bots[r][id] \in Bot /\ bots \in [Registries -> [BotIds -> Bot]]
    BY RowTypes DEF RegistryInv, TypeOK
  <2>2. ASSUME NEW sender \in Addresses, NEW k \in Addresses \cup {None},
               RotateBotKey(r, id, k, sender)
        PROVE  bots'[r][id].status = bots[r][id].status
    <3>1. k \in Addresses /\ bots'[r][id] = [bots[r][id] EXCEPT !.botKey = k]
      BY <2>1, <2>2 DEF RotateBotKey
    <3> QED
      BY <2>1, <3>1, KeyUpdate
  <2>3. ASSUME NEW sender \in Addresses, RevokeBot(r, id, sender)
        PROVE  bots'[r][id].status = "revoked" /\ bots[r][id].status # "missing"
    <3>1. bots'[r][id] = [bots[r][id] EXCEPT !.status = "revoked"]
      BY <2>1, <2>3 DEF RevokeBot
    <3> QED
      BY <2>1, <2>3, <3>1, BotStatusUpdate DEF RevokeBot
  <2>4. CASE bots'[r][id] # bots[r][id]
    <3>1. PICK sender \in Addresses :
             \/ \E o \in OperatorIds, k \in Addresses \cup {None}, value \in Values :
                   RegisterBot(r, id, o, k, sender, value)
             \/ \E k \in Addresses \cup {None} : RotateBotKey(r, id, k, sender)
             \/ RevokeBot(r, id, sender)
      BY <2>4, BotFrame
    <3> QED
      BY <2>2, <2>3, <3>1
  <2> QED
    BY <2>4
<1>4. \A r \in Registries : /\ RecordedOperators(r)' = RecordedOperators(r)
                            /\ RecordedBots(r)' = RecordedBots(r)
  BY <1>2, <1>3 DEF RecordedOperators, RecordedBots
<1> QED
  BY <1>1, <1>4, SameFees

LEMMA NextFees == RegistryInv /\ FeesInv /\ [Next]_vars => FeesInv'
<1> SUFFICES ASSUME RegistryInv, FeesInv, [Next]_vars PROVE FeesInv'
  OBVIOUS
<1>1. CASE UNCHANGED vars
  BY <1>1, SameFees DEF vars, RecordedOperators, RecordedBots
<1>2. CASE Next
  BY <1>2, RegisterOperatorPays, RegisterBotPays, NoOtherFees
<1> QED
  BY <1>1, <1>2

\* For any fees and any set of labels, finite or not: what the fee recipient got
\* is the sum of one fee per label recorded.
THEOREM FeesAreForwarded == Spec => []FeesMatchRegistrations
<1>1. FeesInv => FeesMatchRegistrations
  BY DEF FeesInv
<1> QED
  BY <1>1, InitFees, NextFees, RegistryInvariant, PTL DEF Spec

--------------------------------------------------------------------------------
(* The pinned registry implements IdentityFacts: the initial state maps to  *)
(* the initial state, and every transaction on any registry of the chain    *)
(* to one step of the facts or to none.                                     *)


LEMMA InitMaps == Init => Facts!FactsInit
  BY PinAssumption DEF Init, Facts!FactsInit, Facts!NoOperator, Facts!NoBot, NoOperator, NoBot

\* A transaction that leaves both rows of the pinned registry alone.
LEMMA OtherRegistryMaps ==
  ASSUME operators'[Pin] = operators[Pin], bots'[Pin] = bots[Pin]
  PROVE  UNCHANGED Facts!factsVars
  BY DEF Facts!factsVars

LEMMA OwnedIsActive ==
  ASSUME RegistryInv, NEW r \in Registries, NEW o \in OperatorIds, NEW sender \in Addresses,
         OwnsActive(r, o, sender)
  PROVE  operators[r][o].status = "active"
  BY RowTypes DEF RegistryInv, OwnsActive, Operator, Statuses

LEMMA OperatorStepMaps ==
  ASSUME RegistryInv, NEW id \in OperatorIds, NEW sender \in Addresses,
         \/ \E value \in Values : RegisterOperator(Pin, id, sender, value)
         \/ AcceptOperatorTransfer(Pin, id, sender)
         \/ RevokeOperator(Pin, id, sender)
  PROVE  Facts!FactsNext
<1>1. /\ Pin \in Registries
      /\ operators \in [Registries -> [OperatorIds -> Operator]]
  BY PinAssumption DEF RegistryInv, TypeOK
<1>2. CASE \E value \in Values : RegisterOperator(Pin, id, sender, value)
  <2>1. Facts!FactRegisterOperator(id, sender)
    BY <1>1, <1>2 DEF RegisterOperator, Facts!FactRegisterOperator
  <2> QED
    BY <2>1 DEF Facts!FactsNext
<1>3. CASE AcceptOperatorTransfer(Pin, id, sender)
  <2>1. operators[Pin][id].status = "active"
    BY <1>1, <1>3 DEF AcceptOperatorTransfer, RegistryInv, PendingIsLive
  <2>2. Facts!FactTransferOperator(id, sender)
    BY <1>1, <1>3, <2>1
       DEF AcceptOperatorTransfer, Facts!FactTransferOperator, Facts!Active
  <2> QED
    BY <2>2 DEF Facts!FactsNext
<1>4. CASE RevokeOperator(Pin, id, sender)
  <2>1. operators[Pin][id].status = "active"
    BY <1>1, <1>4, OwnedIsActive DEF RevokeOperator
  <2>2. Facts!FactRevokeOperator(id)
    BY <1>1, <1>4, <2>1 DEF RevokeOperator, Facts!FactRevokeOperator, Facts!Active
  <2> QED
    BY <2>2 DEF Facts!FactsNext
<1> QED
  BY <1>2, <1>3, <1>4

LEMMA RegisterBotMaps ==
  ASSUME RegistryInv, NEW id \in BotIds, NEW sender \in Addresses,
         NEW o \in OperatorIds, NEW k \in Addresses \cup {None}, NEW value \in Values,
         RegisterBot(Pin, id, o, k, sender, value)
  PROVE  Facts!FactsNext
<1>1. /\ Pin \in Registries
      /\ bots \in [Registries -> [BotIds -> Bot]]
  BY PinAssumption DEF RegistryInv, TypeOK
<1>2. k \in Addresses /\ botKeyToId[Pin][k] = None
  BY DEF RegisterBot
<1>3. ASSUME NEW c \in BotIds PROVE ~Facts!Bound(c, k)
  BY <1>1, <1>2, NoneAssumption
     DEF RegistryInv, KeyIndexExact, Facts!Bound, Facts!Active
<1>4. operators[Pin][o].status = "active"
  BY <1>1, OwnedIsActive DEF RegisterBot
<1>5. Facts!FactRegisterBot(id, o, k)
  BY <1>1, <1>3, <1>4 DEF RegisterBot, Facts!FactRegisterBot, Facts!Active
<1> QED
  BY <1>2, <1>5 DEF Facts!FactsNext

LEMMA RotateBotKeyMaps ==
  ASSUME RegistryInv, NEW id \in BotIds, NEW sender \in Addresses,
         NEW k \in Addresses \cup {None}, RotateBotKey(Pin, id, k, sender)
  PROVE  Facts!FactsNext
<1>1. /\ Pin \in Registries
      /\ bots \in [Registries -> [BotIds -> Bot]]
  BY PinAssumption DEF RegistryInv, TypeOK
<1>2. /\ k \in Addresses /\ botKeyToId[Pin][k] \in {None, id}
      /\ bots[Pin][id].status = "active"
  BY DEF RotateBotKey
<1>3. ASSUME NEW c \in BotIds \ {id} PROVE ~Facts!Bound(c, k)
  BY <1>1, <1>2, NoneAssumption
     DEF RegistryInv, KeyIndexExact, Facts!Bound, Facts!Active
<1>4. operators[Pin][bots[Pin][id].operatorId].status = "active"
  <2>1. bots[Pin][id].operatorId \in OperatorIds
    BY <1>1, <1>2 DEF RegistryInv, BotsWellFormed
  <2> QED
    BY <1>1, <2>1, OwnedIsActive DEF RotateBotKey
<1>5. Facts!FactRotateBotKey(id, k)
  BY <1>1, <1>2, <1>3, <1>4 DEF RotateBotKey, Facts!FactRotateBotKey, Facts!Active
<1> QED
  BY <1>2, <1>5 DEF Facts!FactsNext

LEMMA RevokeBotMaps ==
  ASSUME RegistryInv, NEW id \in BotIds, NEW sender \in Addresses,
         RevokeBot(Pin, id, sender)
  PROVE  Facts!FactsNext
<1>1. /\ Pin \in Registries
      /\ bots \in [Registries -> [BotIds -> Bot]]
      /\ bots[Pin][id].status = "active"
  BY PinAssumption DEF RegistryInv, TypeOK, RevokeBot
<1>2. operators[Pin][bots[Pin][id].operatorId].status = "active"
  <2>1. bots[Pin][id].operatorId \in OperatorIds
    BY <1>1 DEF RegistryInv, BotsWellFormed
  <2> QED
    BY <1>1, <2>1, OwnedIsActive DEF RevokeBot
<1>3. Facts!FactRevokeBot(id)
  BY <1>1, <1>2 DEF RevokeBot, Facts!FactRevokeBot, Facts!Active
<1> QED
  BY <1>3 DEF Facts!FactsNext

\* A step on one registry leaves the rows of every other registry alone.
LEMMA StepOnOneRegistry ==
  ASSUME RegistryInv, Next
  PROVE  \/ operators'[Pin] = operators[Pin] /\ bots'[Pin] = bots[Pin]
         \/ Facts!FactsNext
<1> USE PinAssumption
<1>1. /\ operators \in [Registries -> [OperatorIds -> Operator]]
      /\ bots \in [Registries -> [BotIds -> Bot]]
  BY DEF RegistryInv, TypeOK
<1> DEFINE Same == operators'[Pin] = operators[Pin] /\ bots'[Pin] = bots[Pin]
<1>2. ASSUME NEW r \in Registries, NEW prior \in Registries \cup {None}, Deploy(r, prior)
      PROVE  Same
  BY <1>2 DEF Deploy
<1>3. ASSUME NEW r \in Registries, NEW id \in OperatorIds, NEW sender \in Addresses,
             \/ \E value \in Values : RegisterOperator(r, id, sender, value)
             \/ AcceptOperatorTransfer(r, id, sender)
             \/ RevokeOperator(r, id, sender)
      PROVE  Same \/ Facts!FactsNext
  <2>1. CASE r = Pin
    BY <1>3, <2>1, OperatorStepMaps
  <2>2. CASE r # Pin
    BY <1>1, <1>3, <2>2 DEF RegisterOperator, AcceptOperatorTransfer, RevokeOperator
  <2> QED
    BY <2>1, <2>2
<1>4. ASSUME NEW r \in Registries, NEW id \in OperatorIds, NEW sender \in Addresses,
             NEW newOwner \in Addresses \cup {None},
             ProposeOperatorTransfer(r, id, sender, newOwner)
      PROVE  Same
  BY <1>4 DEF ProposeOperatorTransfer
<1>5. ASSUME NEW r \in Registries, NEW id \in BotIds, NEW sender \in Addresses,
             NEW o \in OperatorIds, NEW k \in Addresses \cup {None}, NEW value \in Values,
             RegisterBot(r, id, o, k, sender, value)
      PROVE  Same \/ Facts!FactsNext
  <2>1. CASE r = Pin
    BY <1>5, <2>1, RegisterBotMaps
  <2>2. CASE r # Pin
    BY <1>1, <1>5, <2>2 DEF RegisterBot
  <2> QED
    BY <2>1, <2>2
<1>6. ASSUME NEW r \in Registries, NEW id \in BotIds, NEW sender \in Addresses,
             NEW k \in Addresses \cup {None}, RotateBotKey(r, id, k, sender)
      PROVE  Same \/ Facts!FactsNext
  <2>1. CASE r = Pin
    BY <1>6, <2>1, RotateBotKeyMaps
  <2>2. CASE r # Pin
    BY <1>1, <1>6, <2>2 DEF RotateBotKey
  <2> QED
    BY <2>1, <2>2
<1>7. ASSUME NEW r \in Registries, NEW id \in BotIds, NEW sender \in Addresses,
             RevokeBot(r, id, sender)
      PROVE  Same \/ Facts!FactsNext
  <2>1. CASE r = Pin
    BY <1>7, <2>1, RevokeBotMaps
  <2>2. CASE r # Pin
    BY <1>1, <1>7, <2>2 DEF RevokeBot
  <2> QED
    BY <2>1, <2>2
<1> HIDE DEF Same
<1>8. Same \/ Facts!FactsNext
  BY <1>2, <1>3, <1>4, <1>5, <1>6, <1>7 DEF Next
<1> QED
  BY <1>8 DEF Same

\* What a reader of the pinned registry may rely on, for any lineage of
\* registries around it.
THEOREM PinnedRegistryImplementsFacts == Spec => ImplementsFacts
<1>1. RegistryInv /\ [Next]_vars => [Facts!FactsNext]_(Facts!factsVars)
  <2>1. CASE Next
    BY <2>1, StepOnOneRegistry, OtherRegistryMaps
  <2>2. CASE UNCHANGED vars
    BY <2>2, OtherRegistryMaps DEF vars
  <2> QED
    BY <2>1, <2>2
<1> QED
  BY InitMaps, RegistryInvariant, <1>1, PTL DEF Spec, ImplementsFacts, Facts!FactsSpec

================================================================================
