-------------------------- MODULE IdentityFactsProofs --------------------------
(***************************************************************************)
(* What every reader of a pinned registry may rely on, whatever the owners *)
(* do between two of its reads: a recorded bot keeps its operator, and an  *)
(* operator that is active now has been active since it was recorded.      *)
(***************************************************************************)
EXTENDS IdentityFacts, TLAPS

\* A recorded bot has a key and a recorded operator.
BotsHaveOperators ==
    \A b \in BotIds : bots[b].status # "missing" =>
        /\ bots[b].botKey \in Addresses
        /\ bots[b].operatorId \in OperatorIds
        /\ operators[bots[b].operatorId].status # "missing"

FactsInv == FactsTypeOK /\ BotsHaveOperators

\* No step brings an operator back: one that was recorded and is active after
\* the step was active before it.
OperatorsOnlyFade ==
    \A o \in OperatorIds : operators[o].status # "missing" =>
        /\ operators'[o].status # "missing"
        /\ Active(operators'[o]) => Active(operators[o])

\* A recorded bot stays recorded under the same operator.
BotsKeepOperators ==
    \A b \in BotIds : bots[b].status # "missing" =>
        /\ bots'[b].status # "missing"
        /\ bots'[b].operatorId = bots[b].operatorId

\* A bot's row changes only under an active operator, whose row does not change.
BotsMoveUnderOperators ==
    \A b \in BotIds : bots'[b] # bots[b] =>
        UNCHANGED operators /\ Active(operators[bots'[b].operatorId])

--------------------------------------------------------------------------------

LEMMA FactsInitInv == FactsInit => FactsInv
  BY DEF FactsInit, FactsInv, FactsTypeOK, BotsHaveOperators, OperatorRow, BotRow,
         NoOperator, NoBot, Statuses

\* Replacing one row of a table.
LEMMA RowUpdate ==
  ASSUME NEW I, NEW V, NEW table \in [I -> V], NEW i \in I, NEW v \in V
  PROVE  LET new == [table EXCEPT ![i] = v]
         IN  /\ new \in [I -> V]
             /\ new[i] = v
             /\ \A j \in I : j # i => new[j] = table[j]
  OBVIOUS

LEMMA RowEquals ==
  /\ \A op \in OperatorRow, a \in Addresses :
        [op EXCEPT !.owner = a] = [status |-> op.status, owner |-> a]
  /\ \A bot \in BotRow, k \in Addresses :
        [bot EXCEPT !.botKey = k] =
           [status |-> bot.status, operatorId |-> bot.operatorId, botKey |-> k]
  BY DEF OperatorRow, BotRow

\* A step that gives one operator another row.
LEMMA OperatorRowStep ==
  ASSUME FactsInv, NEW o \in OperatorIds, NEW v \in OperatorRow,
         operators' = [operators EXCEPT ![o] = v], UNCHANGED bots,
         v.status # "missing",
         operators[o].status # "missing" => (Active(v) => Active(operators[o]))
  PROVE  FactsInv' /\ OperatorsOnlyFade /\ BotsKeepOperators
<1>1. /\ operators' \in [OperatorIds -> OperatorRow]
      /\ operators'[o] = v
      /\ \A p \in OperatorIds : p # o => operators'[p] = operators[p]
  BY RowUpdate DEF FactsInv, FactsTypeOK
<1>2. FactsTypeOK'
  BY <1>1 DEF FactsInv, FactsTypeOK
<1>3. BotsHaveOperators'
  BY <1>1 DEF FactsInv, BotsHaveOperators
<1>4. OperatorsOnlyFade /\ BotsKeepOperators
  BY <1>1 DEF OperatorsOnlyFade, BotsKeepOperators
<1> QED
  BY <1>2, <1>3, <1>4 DEF FactsInv

\* A step that gives one bot another row.
LEMMA BotRowStep ==
  ASSUME FactsInv, NEW b \in BotIds, NEW v \in BotRow,
         bots' = [bots EXCEPT ![b] = v], UNCHANGED operators,
         v.status # "missing", v.botKey \in Addresses, v.operatorId \in OperatorIds,
         operators[v.operatorId].status # "missing",
         bots[b].status # "missing" => v.operatorId = bots[b].operatorId
  PROVE  FactsInv' /\ OperatorsOnlyFade /\ BotsKeepOperators
<1>1. /\ bots' \in [BotIds -> BotRow]
      /\ bots'[b] = v
      /\ \A c \in BotIds : c # b => bots'[c] = bots[c]
  BY RowUpdate DEF FactsInv, FactsTypeOK
<1>2. FactsTypeOK'
  BY <1>1 DEF FactsInv, FactsTypeOK
<1>3. BotsHaveOperators'
  BY <1>1 DEF FactsInv, BotsHaveOperators
<1>4. OperatorsOnlyFade /\ BotsKeepOperators
  BY <1>1 DEF OperatorsOnlyFade, BotsKeepOperators
<1> QED
  BY <1>2, <1>3, <1>4 DEF FactsInv

LEMMA OwnerStep ==
  ASSUME FactsInv, NEW o \in OperatorIds, NEW a \in Addresses,
         FactRegisterOperator(o, a) \/ FactTransferOperator(o, a)
  PROVE  FactsInv' /\ OperatorsOnlyFade /\ BotsKeepOperators
<1>1. operators[o] \in OperatorRow
  BY DEF FactsInv, FactsTypeOK
<1>2. CASE FactRegisterOperator(o, a)
  <2> DEFINE v == [status |-> "active", owner |-> a]
  <2>1. v \in OperatorRow /\ v.status # "missing"
    BY DEF OperatorRow, Statuses
  <2>2. operators' = [operators EXCEPT ![o] = v] /\ UNCHANGED bots
    BY <1>2 DEF FactRegisterOperator
  <2>3. operators[o].status = "missing"
    BY <1>2 DEF FactRegisterOperator
  <2> HIDE DEF v
  <2> QED
    BY <2>1, <2>2, <2>3, OperatorRowStep
<1>3. CASE FactTransferOperator(o, a)
  <2> DEFINE v == [status |-> operators[o].status, owner |-> a]
  <2>1. v \in OperatorRow /\ v.status = operators[o].status
    BY <1>1 DEF OperatorRow
  <2>2. operators' = [operators EXCEPT ![o] = v] /\ UNCHANGED bots
    BY <1>1, <1>3, RowEquals DEF FactTransferOperator
  <2>3. operators[o].status = "active" /\ Active(operators[o])
    BY <1>3 DEF FactTransferOperator, Active
  <2> HIDE DEF v
  <2> QED
    BY <2>1, <2>2, <2>3, OperatorRowStep
<1> QED
  BY <1>2, <1>3

LEMMA RevokeOperatorStep ==
  ASSUME FactsInv, NEW o \in OperatorIds, FactRevokeOperator(o)
  PROVE  FactsInv' /\ OperatorsOnlyFade /\ BotsKeepOperators
<1> DEFINE v == [status |-> "revoked", owner |-> operators[o].owner]
<1>1. operators[o] \in OperatorRow
  BY DEF FactsInv, FactsTypeOK
<1>2. v \in OperatorRow /\ v.status = "revoked"
  BY <1>1 DEF OperatorRow, Statuses
<1>3. [operators[o] EXCEPT !.status = "revoked"] = v
  BY <1>1 DEF OperatorRow
<1>4. operators' = [operators EXCEPT ![o] = v] /\ UNCHANGED bots
  BY <1>3 DEF FactRevokeOperator
<1>5. Active(operators[o])
  BY DEF FactRevokeOperator
<1> HIDE DEF v
<1> QED
  BY <1>2, <1>4, <1>5, OperatorRowStep

LEMMA RegisterBotStep ==
  ASSUME FactsInv, NEW b \in BotIds, NEW o \in OperatorIds, NEW k \in Addresses,
         FactRegisterBot(b, o, k)
  PROVE  FactsInv' /\ OperatorsOnlyFade /\ BotsKeepOperators
<1> DEFINE v == [status |-> "active", operatorId |-> o, botKey |-> k]
<1>1. /\ v \in BotRow /\ v.status # "missing"
      /\ v.botKey = k /\ v.operatorId = o
  BY DEF BotRow, Statuses
<1>2. bots' = [bots EXCEPT ![b] = v] /\ UNCHANGED operators
  BY DEF FactRegisterBot
<1>3. bots[b].status = "missing" /\ operators[o].status # "missing"
  BY DEF FactRegisterBot, Active
<1> HIDE DEF v
<1> QED
  BY <1>1, <1>2, <1>3, BotRowStep

\* What holds of a bot that is active.
LEMMA ActiveBot ==
  ASSUME FactsInv, NEW b \in BotIds, Active(bots[b])
  PROVE  /\ bots[b] \in BotRow /\ bots[b].status = "active"
         /\ bots[b].botKey \in Addresses /\ bots[b].operatorId \in OperatorIds
         /\ operators[bots[b].operatorId].status # "missing"
  BY DEF FactsInv, FactsTypeOK, BotsHaveOperators, Active

LEMMA RotateBotKeyStep ==
  ASSUME FactsInv, NEW b \in BotIds, NEW k \in Addresses, FactRotateBotKey(b, k)
  PROVE  FactsInv' /\ OperatorsOnlyFade /\ BotsKeepOperators
<1> DEFINE v == [status |-> bots[b].status, operatorId |-> bots[b].operatorId, botKey |-> k]
<1>1. Active(bots[b])
  BY DEF FactRotateBotKey
<1>2. /\ v \in BotRow /\ v.status = bots[b].status
      /\ v.botKey = k /\ v.operatorId = bots[b].operatorId
  BY <1>1, ActiveBot DEF BotRow
<1>3. bots' = [bots EXCEPT ![b] = v] /\ UNCHANGED operators
  BY <1>1, ActiveBot, RowEquals DEF FactRotateBotKey
<1> HIDE DEF v
<1> QED
  BY <1>1, <1>2, <1>3, ActiveBot, BotRowStep

LEMMA RevokeBotStep ==
  ASSUME FactsInv, NEW b \in BotIds, FactRevokeBot(b)
  PROVE  FactsInv' /\ OperatorsOnlyFade /\ BotsKeepOperators
<1> DEFINE v == [status |-> "revoked", operatorId |-> bots[b].operatorId,
                 botKey |-> bots[b].botKey]
<1>1. Active(bots[b])
  BY DEF FactRevokeBot
<1>2. /\ v \in BotRow /\ v.status = "revoked"
      /\ v.botKey = bots[b].botKey /\ v.operatorId = bots[b].operatorId
  BY <1>1, ActiveBot DEF BotRow, Statuses
<1>3. [bots[b] EXCEPT !.status = "revoked"] = v
  BY <1>1, ActiveBot DEF BotRow
<1>4. bots' = [bots EXCEPT ![b] = v] /\ UNCHANGED operators
  BY <1>3 DEF FactRevokeBot
<1> HIDE DEF v
<1> QED
  BY <1>1, <1>2, <1>4, ActiveBot, BotRowStep

\* Every transaction keeps the invariant, revives no operator and moves no bot.
LEMMA FactsStep ==
  ASSUME FactsInv, FactsNext
  PROVE  FactsInv' /\ OperatorsOnlyFade /\ BotsKeepOperators
  BY OwnerStep, RevokeOperatorStep, RegisterBotStep, RotateBotKeyStep, RevokeBotStep
     DEF FactsNext

LEMMA FactsFreeze ==
  ASSUME FactsInv, FactsNext
  PROVE  BotsMoveUnderOperators
<1>1. ASSUME NEW b \in BotIds, NEW o \in OperatorIds, NEW k \in Addresses,
             FactRegisterBot(b, o, k)
      PROVE  BotsMoveUnderOperators
  <2> DEFINE v == [status |-> "active", operatorId |-> o, botKey |-> k]
  <2>1. v \in BotRow /\ v.operatorId = o
    BY DEF BotRow, Statuses
  <2>2. bots' = [bots EXCEPT ![b] = v] /\ UNCHANGED operators /\ Active(operators[o])
    BY <1>1 DEF FactRegisterBot
  <2> HIDE DEF v
  <2>3. bots'[b] = v /\ \A c \in BotIds : c # b => bots'[c] = bots[c]
    BY <2>1, <2>2, RowUpdate DEF FactsInv, FactsTypeOK
  <2> QED
    BY <2>1, <2>2, <2>3 DEF BotsMoveUnderOperators
<1>2. ASSUME NEW b \in BotIds, NEW v \in BotRow, Active(bots[b]),
             Active(operators[bots[b].operatorId]), v.operatorId = bots[b].operatorId,
             bots' = [bots EXCEPT ![b] = v], UNCHANGED operators
      PROVE  BotsMoveUnderOperators
  <2>1. bots'[b] = v /\ \A c \in BotIds : c # b => bots'[c] = bots[c]
    BY <1>2, RowUpdate DEF FactsInv, FactsTypeOK
  <2> QED
    BY <1>2, <2>1 DEF BotsMoveUnderOperators
<1>3. ASSUME NEW b \in BotIds, NEW k \in Addresses, FactRotateBotKey(b, k)
      PROVE  BotsMoveUnderOperators
  <2> DEFINE v == [status |-> bots[b].status, operatorId |-> bots[b].operatorId, botKey |-> k]
  <2>1. Active(bots[b]) /\ Active(operators[bots[b].operatorId]) /\ UNCHANGED operators
    BY <1>3 DEF FactRotateBotKey
  <2>2. v \in BotRow /\ v.operatorId = bots[b].operatorId
    BY <2>1, ActiveBot DEF BotRow
  <2>3. bots' = [bots EXCEPT ![b] = v]
    BY <1>3, <2>1, ActiveBot, RowEquals DEF FactRotateBotKey
  <2> HIDE DEF v
  <2> QED
    BY <1>2, <2>1, <2>2, <2>3
<1>4. ASSUME NEW b \in BotIds, FactRevokeBot(b)
      PROVE  BotsMoveUnderOperators
  <2> DEFINE v == [status |-> "revoked", operatorId |-> bots[b].operatorId,
                   botKey |-> bots[b].botKey]
  <2>1. Active(bots[b]) /\ Active(operators[bots[b].operatorId]) /\ UNCHANGED operators
    BY <1>4 DEF FactRevokeBot
  <2>2. v \in BotRow /\ v.operatorId = bots[b].operatorId
    BY <2>1, ActiveBot DEF BotRow, Statuses
  <2>3. [bots[b] EXCEPT !.status = "revoked"] = v
    BY <2>1, ActiveBot DEF BotRow
  <2>4. bots' = [bots EXCEPT ![b] = v]
    BY <1>4, <2>3 DEF FactRevokeBot
  <2> HIDE DEF v
  <2> QED
    BY <1>2, <2>1, <2>2, <2>4
<1>5. CASE UNCHANGED bots
  BY <1>5 DEF BotsMoveUnderOperators
<1> QED
  BY <1>1, <1>3, <1>4, <1>5
     DEF FactsNext, FactRegisterOperator, FactTransferOperator, FactRevokeOperator

================================================================================
