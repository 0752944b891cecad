-------------------------- MODULE RegistryClientProofs --------------------------
(***************************************************************************)
(* Theorems about RegistryClient, for any number of operators, bots and    *)
(* calls, any lifetime of the entries and any timeout.                     *)
(*                                                                         *)
(* The invariant says what an old row is worth.  Take a row that said at   *)
(* instant t that bot b was active with key k.  Since then b has been      *)
(* entitled to k at t or later, unless its operator was revoked before t,  *)
(* and then b is frozen: it has k still (KnowsBot).  Take a row that said  *)
(* at t that operator o was active.  Then o is active, or whatever key a   *)
(* bot of o is frozen with it was entitled to at t or later                *)
(* (KnowsOperator).  Together these give one instant for two rows of       *)
(* different ages (OneInstant).                                            *)
(***************************************************************************)
EXTENDS RegistryClient, IdentityFactsProofs

KnowsBot(b, row, t) ==
    Active(row) =>
        /\ bots[b].status # "missing" /\ bots[b].operatorId = row.operatorId
        /\ row.botKey \in Addresses
        /\ \/ lastEntitled[b][row.botKey] >= t
           \/ Bound(b, row.botKey) /\ ~Active(operators[row.operatorId])

KnowsOperator(o, row, t) ==
    Active(row) =>
        /\ operators[o].status # "missing"
        /\ \/ Active(operators[o])
           \/ \A b \in BotIds, k \in Addresses :
                 bots[b].operatorId = o /\ Bound(b, k) => lastEntitled[b][k] >= t

\* When an entry that expires at e was read at the earliest.
ReadSince(e)      == e - CacheTtl - RpcTimeout
LabelReadSince(e) == e - 2 * CacheTtl - RpcTimeout

Alive(entry) == entry.expiresAt \in Int /\ now < entry.expiresAt /\ entry.expiresAt <= now + CacheTtl

BotCacheSound(b) == Fresh(botCache[b]) =>
    /\ Alive(botCache[b]) /\ botCache[b].value \in BotRow
    /\ KnowsBot(b, botCache[b].value, ReadSince(botCache[b].expiresAt))

IdCacheSound(o) == Fresh(operatorByIdCache[o]) =>
    /\ Alive(operatorByIdCache[o]) /\ operatorByIdCache[o].value \in StatusRow
    /\ KnowsOperator(o, operatorByIdCache[o].value, ReadSince(operatorByIdCache[o].expiresAt))

LabelCacheSound(o) == Fresh(operatorByLabelCache[o]) =>
    /\ Alive(operatorByLabelCache[o]) /\ operatorByLabelCache[o].value \in StatusRow
    /\ KnowsOperator(o, operatorByLabelCache[o].value,
                     LabelReadSince(operatorByLabelCache[o].expiresAt))

BotPcs      == {"bot", "botAsked", "botAnswered"}
OperatorPcs == {"operator", "operatorAsked", "operatorAnswered"}

AskedOf(v) == IF v.request.op = "init" THEN v.request.operator ELSE v.bot.operatorId

\* What the state v of a call knows.
Underway(v) ==
    v.pc # "idle" => v.request \in Request /\ v.startedAt \in Int /\ v.startedAt <= now

InTime(v) ==
    v.pc \in Answered => v.readAt \in Int /\ v.readAt <= now /\ now <= v.readAt + RpcTimeout

BotRead(v) ==
    v.pc = "botAnswered" => v.answer \in BotRow /\ KnowsBot(v.request.bot, v.answer, v.readAt)

OperatorRead(v) ==
    v.pc = "operatorAnswered" =>
        v.answer \in StatusRow /\ KnowsOperator(AskedOf(v), v.answer, v.readAt)

SenderKnown(v) ==
    v.pc \in OperatorPcs /\ v.request.op = "verify" =>
        /\ v.bot \in BotRow /\ Active(v.bot)
        /\ KnowsBot(v.request.bot, v.bot, v.startedAt - CacheTtl - RpcTimeout)

OwnerKnown(v) ==
    v.pc \in BotPcs /\ v.request.op = "init" =>
        KnowsOperator(v.request.operator, [status |-> "active"],
                      v.startedAt - 2 * CacheTtl - RpcTimeout)

Justified(v) ==
    v.pc = "accepted" =>
        /\ bots[v.request.bot].status # "missing"
        /\ bots[v.request.bot].operatorId = v.request.operator
        /\ lastEntitled[v.request.bot][v.request.key] >=
              v.startedAt - (IF v.request.op = "init" THEN 2 * CacheTtl ELSE CacheTtl) - RpcTimeout

CallSound(v) ==
    /\ Underway(v) /\ InTime(v) /\ BotRead(v) /\ OperatorRead(v)
    /\ SenderKnown(v) /\ OwnerKnown(v) /\ Justified(v)

HistorySound ==
    /\ now \in Int
    /\ lastEntitled \in [BotIds -> [Addresses -> Int]]
    /\ \A b \in BotIds, k \in Addresses :
          lastEntitled[b][k] <= now /\ (Entitled(b, k) => lastEntitled[b][k] = now)

CachesSound ==
    /\ botCache = [b \in BotIds |-> botCache[b]]
    /\ operatorByIdCache = [o \in OperatorIds |-> operatorByIdCache[o]]
    /\ operatorByLabelCache = [o \in OperatorIds |-> operatorByLabelCache[o]]
    /\ \A b \in BotIds : BotCacheSound(b)
    /\ \A o \in OperatorIds : IdCacheSound(o) /\ LabelCacheSound(o)

\* The inductive invariant.
ClientInv ==
    /\ FactsInv
    /\ HistorySound
    /\ CachesSound
    /\ call = [c \in Calls |-> call[c]]
    /\ \A c \in Calls : CallSound(call[c])

--------------------------------------------------------------------------------
(* What any step does to the chain and its history. *)

Onward ==
    /\ FactsInv' /\ HistorySound' /\ now' >= now
    /\ OperatorsOnlyFade /\ BotsKeepOperators /\ BotsMoveUnderOperators
    /\ \A b \in BotIds, k \in Addresses : lastEntitled'[b][k] >= lastEntitled[b][k]

\* Neither the chain nor the clock moves.
LEMMA StillWorld ==
  ASSUME FactsInv, HistorySound, UNCHANGED <<factsVars, now, lastEntitled>>
  PROVE  Onward
<1>1. FactsInv' /\ OperatorsOnlyFade /\ BotsKeepOperators /\ BotsMoveUnderOperators
  BY DEF FactsInv, FactsTypeOK, BotsHaveOperators, factsVars, OperatorsOnlyFade,
         BotsKeepOperators, BotsMoveUnderOperators
<1>2. HistorySound' /\ now' >= now
  BY DEF HistorySound, factsVars, Entitled, Bound, Active
<1>3. \A b \in BotIds, k \in Addresses : lastEntitled'[b][k] >= lastEntitled[b][k]
  BY DEF HistorySound
<1> QED
  BY <1>1, <1>2, <1>3 DEF Onward

\* What the history says after a step of the chain or of the clock.
LEMMA ObserveStep ==
  ASSUME HistorySound, Observe, now' \in Int, now' >= now
  PROVE  /\ HistorySound'
         /\ \A b \in BotIds, k \in Addresses : lastEntitled'[b][k] >= lastEntitled[b][k]
<1>1. lastEntitled' \in [BotIds -> [Addresses -> Int]]
  BY DEF HistorySound, Observe
<1>2. ASSUME NEW b \in BotIds, NEW k \in Addresses
      PROVE  lastEntitled'[b][k] = IF Entitled(b, k)' THEN now' ELSE lastEntitled[b][k]
  BY DEF Observe
<1>3. ASSUME NEW b \in BotIds, NEW k \in Addresses
      PROVE  /\ lastEntitled'[b][k] >= lastEntitled[b][k]
             /\ lastEntitled'[b][k] <= now'
             /\ Entitled(b, k)' => lastEntitled'[b][k] = now'
  <2>1. lastEntitled[b][k] \in Int /\ lastEntitled[b][k] <= now
    BY DEF HistorySound
  <2>2. now \in Int
    BY DEF HistorySound
  <2> QED
    BY <1>2, <2>1, <2>2
<1> QED
  BY <1>1, <1>3 DEF HistorySound

LEMMA TickWorld ==
  ASSUME FactsInv, HistorySound, UNCHANGED factsVars, now' = now + 1, Observe
  PROVE  Onward
<1>1. FactsInv' /\ OperatorsOnlyFade /\ BotsKeepOperators /\ BotsMoveUnderOperators
  BY DEF FactsInv, FactsTypeOK, BotsHaveOperators, factsVars, OperatorsOnlyFade,
         BotsKeepOperators, BotsMoveUnderOperators
<1>2. now' \in Int /\ now' >= now
  BY DEF HistorySound
<1> QED
  BY <1>1, <1>2, ObserveStep DEF Onward

LEMMA TransactWorld ==
  ASSUME FactsInv, HistorySound, FactsNext, UNCHANGED now, Observe
  PROVE  Onward
<1>1. now' \in Int /\ now' >= now
  BY DEF HistorySound
<1> QED
  BY <1>1, FactsStep, FactsFreeze, ObserveStep DEF Onward

--------------------------------------------------------------------------------
(* What a row is worth. *)

\* Knowledge is kept.
LEMMA KnowsBotKept ==
  ASSUME FactsInv, HistorySound, Onward,
         NEW b \in BotIds, NEW r \in BotRow, NEW t \in Int, KnowsBot(b, r, t)
  PROVE  KnowsBot(b, r, t)'
<1> SUFFICES ASSUME Active(r)
             PROVE  /\ bots'[b].status # "missing" /\ bots'[b].operatorId = r.operatorId
                    /\ r.botKey \in Addresses
                    /\ \/ lastEntitled'[b][r.botKey] >= t
                       \/ Bound(b, r.botKey)' /\ ~Active(operators'[r.operatorId])
  BY DEF KnowsBot
<1>1. /\ bots[b].status # "missing" /\ bots[b].operatorId = r.operatorId
      /\ r.botKey \in Addresses
  BY DEF KnowsBot
<1>2. bots'[b].status # "missing" /\ bots'[b].operatorId = r.operatorId
  BY <1>1 DEF Onward, BotsKeepOperators
<1>3. CASE lastEntitled[b][r.botKey] >= t
  <2>1. lastEntitled'[b][r.botKey] >= lastEntitled[b][r.botKey]
    BY <1>1 DEF Onward
  <2>2. lastEntitled[b][r.botKey] \in Int /\ lastEntitled'[b][r.botKey] \in Int
    BY <1>1 DEF HistorySound, Onward
  <2> QED
    BY <1>1, <1>2, <1>3, <2>1, <2>2
<1>4. CASE Bound(b, r.botKey) /\ ~Active(operators[r.operatorId])
  <2>1. r.operatorId \in OperatorIds /\ operators[r.operatorId].status # "missing"
    BY <1>1 DEF FactsInv, BotsHaveOperators
  <2>2. ~Active(operators'[r.operatorId])
    BY <1>4, <2>1 DEF Onward, OperatorsOnlyFade
  <2>3. bots'[b] = bots[b]
    BY <1>1, <1>2, <1>4 DEF Onward, BotsMoveUnderOperators
  <2> QED
    BY <1>1, <1>2, <1>4, <2>2, <2>3 DEF Bound
<1> QED
  BY <1>3, <1>4 DEF KnowsBot

LEMMA KnowsOperatorKept ==
  ASSUME FactsInv, HistorySound, Onward,
         NEW o \in OperatorIds, NEW r, NEW t \in Int, t <= now, KnowsOperator(o, r, t)
  PROVE  KnowsOperator(o, r, t)'
<1> SUFFICES ASSUME Active(r), ~Active(operators'[o])
             PROVE  /\ operators'[o].status # "missing"
                    /\ \A b \in BotIds, k \in Addresses :
                          bots'[b].operatorId = o /\ Bound(b, k)' => lastEntitled'[b][k] >= t
  <2>1. Active(operators'[o]) => operators'[o].status # "missing"
    BY DEF Active
  <2> QED
    BY <2>1 DEF KnowsOperator
<1>1. operators[o].status # "missing"
  BY DEF KnowsOperator
<1>2. operators'[o].status # "missing"
  BY <1>1 DEF Onward, OperatorsOnlyFade
<1>3. ASSUME NEW b \in BotIds, NEW k \in Addresses, bots'[b].operatorId = o, Bound(b, k)'
      PROVE  lastEntitled'[b][k] >= t
  <2>1. bots'[b] = bots[b]
    <3> SUFFICES ASSUME bots'[b] # bots[b] PROVE FALSE
      OBVIOUS
    <3>1. UNCHANGED operators /\ Active(operators[o])
      BY <1>3 DEF Onward, BotsMoveUnderOperators
    <3> QED
      BY <3>1
  <2>2. bots[b].operatorId = o /\ Bound(b, k)
    BY <1>3, <2>1 DEF Bound
  <2>3. /\ lastEntitled'[b][k] >= lastEntitled[b][k]
        /\ lastEntitled[b][k] \in Int /\ lastEntitled'[b][k] \in Int
    BY DEF HistorySound, Onward
  <2>4. lastEntitled[b][k] >= t
    <3>1. CASE Active(operators[o])
      <4>1. lastEntitled[b][k] = now
        BY <2>2, <3>1 DEF HistorySound, Entitled
      <4> QED
        BY <4>1, <2>3
    <3> QED
      BY <2>2, <3>1 DEF KnowsOperator
  <2> QED
    BY <2>3, <2>4
<1> QED
  BY <1>2, <1>3

\* A row the node has just read.
LEMMA ReadNow ==
  ASSUME FactsInv, HistorySound
  PROVE  /\ \A b \in BotIds : KnowsBot(b, bots[b], now)
         /\ \A o \in OperatorIds :
               KnowsOperator(o, [status |-> operators[o].status], now)
<1>1. ASSUME NEW b \in BotIds PROVE KnowsBot(b, bots[b], now)
  <2> SUFFICES ASSUME Active(bots[b])
               PROVE  /\ bots[b].status # "missing" /\ bots[b].botKey \in Addresses
                      /\ \/ lastEntitled[b][bots[b].botKey] >= now
                         \/ /\ Bound(b, bots[b].botKey)
                            /\ ~Active(operators[bots[b].operatorId])
    BY DEF KnowsBot
  <2>1. bots[b].status # "missing" /\ bots[b].botKey \in Addresses
    BY ActiveBot DEF Active
  <2>2. Bound(b, bots[b].botKey)
    BY DEF Bound
  <2>3. CASE Active(operators[bots[b].operatorId])
    <3>1. lastEntitled[b][bots[b].botKey] = now /\ now \in Int
      BY <2>1, <2>2, <2>3 DEF HistorySound, Entitled
    <3> QED
      BY <2>1, <3>1
  <2> QED
    BY <2>1, <2>2, <2>3
<1>2. ASSUME NEW o \in OperatorIds
      PROVE  KnowsOperator(o, [status |-> operators[o].status], now)
  BY DEF KnowsOperator, Active
<1> QED
  BY <1>1, <1>2

\* A later instant is worth more.
LEMMA Earlier ==
  ASSUME HistorySound, NEW t \in Int, NEW u \in Int, u <= t
  PROVE  /\ \A b \in BotIds : \A r : KnowsBot(b, r, t) => KnowsBot(b, r, u)
         /\ \A o \in OperatorIds : \A r : KnowsOperator(o, r, t) => KnowsOperator(o, r, u)
<1>1. \A b \in BotIds, k \in Addresses :
         lastEntitled[b][k] \in Int /\ (lastEntitled[b][k] >= t => lastEntitled[b][k] >= u)
  BY DEF HistorySound
<1> QED
  BY <1>1 DEF KnowsBot, KnowsOperator

\* Two rows of different ages make one instant.
LEMMA OneInstant ==
  ASSUME FactsInv, NEW b \in BotIds, NEW r \in BotRow, NEW p, NEW t \in Int,
         Active(r), Active(p), KnowsBot(b, r, t), KnowsOperator(r.operatorId, p, t)
  PROVE  /\ bots[b].status # "missing" /\ bots[b].operatorId = r.operatorId
         /\ lastEntitled[b][r.botKey] >= t
  BY DEF KnowsBot, KnowsOperator

--------------------------------------------------------------------------------
(* What a call knows, and keeps. *)

LEMMA RequestFields ==
  ASSUME NEW q \in Request
  PROVE  /\ q.op \in {"verify", "init"} /\ q.bot \in BotIds /\ q.key \in Addresses
         /\ q.op = "init" => q.operator \in OperatorIds
  BY DEF Request

LEMMA AskedInOperators ==
  ASSUME FactsInv, NEW v, CallSound(v), v.pc \in OperatorPcs
  PROVE  AskedOf(v) \in OperatorIds
<1>1. v.request \in Request
  BY DEF CallSound, Underway, OperatorPcs
<1>2. CASE v.request.op = "init"
  BY <1>1, <1>2, RequestFields DEF AskedOf
<1>3. CASE v.request.op = "verify"
  <2>1. /\ v.request.bot \in BotIds /\ bots[v.request.bot].status # "missing"
        /\ bots[v.request.bot].operatorId = v.bot.operatorId
    BY <1>1, <1>3, RequestFields DEF CallSound, SenderKnown, KnowsBot
  <2>2. v.bot.operatorId \in OperatorIds
    BY <2>1 DEF FactsInv, BotsHaveOperators
  <2> QED
    BY <1>3, <2>2 DEF AskedOf
<1> QED
  BY <1>1, <1>2, <1>3, RequestFields

LEMMA CallKept ==
  ASSUME ClientInv, Onward, NEW v, CallSound(v), InTime(v)'
  PROVE  CallSound(v)'
<1> USE TimesAssumption
<1>1. FactsInv /\ HistorySound /\ now \in Int /\ now' \in Int /\ now' >= now
  BY DEF ClientInv, Onward, HistorySound
<1>2. Underway(v)'
  BY <1>1 DEF CallSound, Underway
<1>3. BotRead(v)'
  <2> SUFFICES ASSUME v.pc = "botAnswered"
               PROVE  v.answer \in BotRow /\ KnowsBot(v.request.bot, v.answer, v.readAt)'
    BY DEF BotRead
  <2>1. v.request \in Request /\ v.answer \in BotRow /\ v.readAt \in Int
    BY DEF CallSound, Underway, BotRead, InTime, Answered
  <2> QED
    BY <1>1, <2>1, RequestFields, KnowsBotKept DEF CallSound, BotRead
<1>4. OperatorRead(v)'
  <2> SUFFICES ASSUME v.pc = "operatorAnswered"
               PROVE  v.answer \in StatusRow /\ KnowsOperator(AskedOf(v), v.answer, v.readAt)'
    BY DEF OperatorRead, AskedOf
  <2>1. v.answer \in StatusRow /\ v.readAt \in Int /\ v.readAt <= now
    BY DEF CallSound, OperatorRead, InTime, Answered
  <2>2. AskedOf(v) \in OperatorIds
    BY <1>1, AskedInOperators DEF OperatorPcs
  <2>3. KnowsOperator(AskedOf(v), v.answer, v.readAt)
    BY DEF CallSound, OperatorRead
  <2> QED
    BY <1>1, <2>1, <2>2, <2>3, KnowsOperatorKept
<1>5. SenderKnown(v)'
  <2> SUFFICES ASSUME v.pc \in OperatorPcs, v.request.op = "verify"
               PROVE  /\ v.bot \in BotRow /\ Active(v.bot)
                      /\ KnowsBot(v.request.bot, v.bot, v.startedAt - CacheTtl - RpcTimeout)'
    BY DEF SenderKnown
  <2>1. v.request \in Request /\ v.startedAt \in Int
    BY DEF CallSound, Underway, OperatorPcs
  <2>2. v.startedAt - CacheTtl - RpcTimeout \in Int
    BY <2>1
  <2> QED
    BY <1>1, <2>1, <2>2, RequestFields, KnowsBotKept DEF CallSound, SenderKnown
<1>6. OwnerKnown(v)'
  <2> SUFFICES ASSUME v.pc \in BotPcs, v.request.op = "init"
               PROVE  KnowsOperator(v.request.operator, [status |-> "active"],
                                    v.startedAt - 2 * CacheTtl - RpcTimeout)'
    BY DEF OwnerKnown
  <2>1. v.request \in Request /\ v.startedAt \in Int /\ v.startedAt <= now
    BY DEF CallSound, Underway, BotPcs
  <2>2. /\ v.startedAt - 2 * CacheTtl - RpcTimeout \in Int
        /\ v.startedAt - 2 * CacheTtl - RpcTimeout <= now
    BY <1>1, <2>1
  <2> QED
    BY <1>1, <2>1, <2>2, RequestFields, KnowsOperatorKept DEF CallSound, OwnerKnown
<1>7. Justified(v)'
  <2> SUFFICES ASSUME v.pc = "accepted" PROVE Justified(v)'
    BY DEF Justified
  <2>1. /\ v.request \in Request /\ v.startedAt \in Int
        /\ v.request.bot \in BotIds /\ v.request.key \in Addresses
    BY RequestFields DEF CallSound, Underway
  <2>2. /\ lastEntitled'[v.request.bot][v.request.key] >= lastEntitled[v.request.bot][v.request.key]
        /\ lastEntitled[v.request.bot][v.request.key] \in Int
        /\ lastEntitled'[v.request.bot][v.request.key] \in Int
    BY <1>1, <2>1 DEF Onward, HistorySound
  <2>3. /\ bots'[v.request.bot].status # "missing"
        /\ bots'[v.request.bot].operatorId = v.request.operator
    BY <2>1 DEF CallSound, Justified, Onward, BotsKeepOperators
  <2> QED
    BY <2>1, <2>2, <2>3 DEF CallSound, Justified
<1> QED
  BY <1>2, <1>3, <1>4, <1>5, <1>6, <1>7 DEF CallSound

\* A step of the client itself: call c goes to v, the caches stay sound.
LEMMA PutSound ==
  ASSUME ClientInv, UNCHANGED <<factsVars, now, lastEntitled>>, NEW c \in Calls, NEW v,
         CallSound(v), Put(c, v), CachesSound'
  PROVE  ClientInv'
<1>1. Onward
  BY StillWorld DEF ClientInv
<1>2. ASSUME NEW w, CallSound(w) PROVE CallSound(w)'
  <2>1. InTime(w)'
    BY <1>2 DEF CallSound, InTime
  <2> QED
    BY <1>1, <1>2, <2>1, CallKept
<1>3. ASSUME NEW d \in Calls PROVE CallSound(call[d])'
  <2>1. PICK w : w = call'[d]
    OBVIOUS
  <2>2. w = IF d = c THEN v ELSE call[d]
    BY <2>1 DEF Put, ClientInv
  <2>3. CallSound(w)
    BY <2>2 DEF ClientInv
  <2>4. CallSound(w)'
    BY <1>2, <2>3
  <2> QED
    BY <2>1, <2>4 DEF CallSound, Underway, InTime, BotRead, OperatorRead, AskedOf,
                      SenderKnown, OwnerKnown, Justified
<1>4. call' = [d \in Calls |-> call'[d]]
  BY DEF Put, ClientInv
<1> QED
  BY <1>1, <1>3, <1>4 DEF ClientInv, Onward

--------------------------------------------------------------------------------
(* The caches. *)

LEMMA BotEntryKept ==
  ASSUME ClientInv, Onward, NEW b \in BotIds, botCache'[b] = botCache[b],
         Fresh(botCache[b]) => now' < botCache[b].expiresAt
  PROVE  BotCacheSound(b)'
<1> USE TimesAssumption
<1> SUFFICES ASSUME Fresh(botCache[b])
             PROVE  /\ Alive(botCache[b])' /\ botCache[b].value \in BotRow
                    /\ KnowsBot(b, botCache[b].value, ReadSince(botCache[b].expiresAt))'
  BY DEF BotCacheSound, Fresh
<1>1. PICK e : e = botCache[b]
  OBVIOUS
<1>2. /\ Alive(e) /\ e.value \in BotRow /\ KnowsBot(b, e.value, ReadSince(e.expiresAt))
      /\ FactsInv /\ HistorySound /\ now \in Int /\ now' \in Int /\ now' >= now
  BY <1>1 DEF ClientInv, CachesSound, BotCacheSound, HistorySound, Onward
<1>3. ReadSince(e.expiresAt) \in Int
  BY <1>2 DEF Alive, ReadSince
<1>4. KnowsBot(b, e.value, ReadSince(e.expiresAt))'
  <2>1. PICK t \in Int : t = ReadSince(e.expiresAt)
    BY <1>3
  <2>2. KnowsBot(b, e.value, t)'
    BY <1>2, <2>1, KnowsBotKept
  <2> QED
    BY <2>1, <2>2 DEF ReadSince
<1>5. e.expiresAt <= now' + CacheTtl /\ now' < e.expiresAt /\ e.expiresAt \in Int
  BY <1>1, <1>2 DEF Alive
<1> QED
  BY <1>1, <1>2, <1>4, <1>5 DEF Alive, KnowsBot, ReadSince

\* For a cache of operators: entries keep what they know.
LEMMA OperatorEntryKept ==
  ASSUME ClientInv, Onward, NEW o \in OperatorIds, NEW e, NEW t \in Int, t <= now,
         Alive(e), now' < e.expiresAt, KnowsOperator(o, e.value, t)
  PROVE  Alive(e)' /\ KnowsOperator(o, e.value, t)'
<1> USE TimesAssumption
<1>1. /\ FactsInv /\ HistorySound /\ now \in Int /\ now' \in Int /\ now' >= now
  BY DEF ClientInv, HistorySound, Onward
<1>2. Alive(e)'
  BY <1>1 DEF Alive
<1> QED
  BY <1>1, <1>2, KnowsOperatorKept

LEMMA IdEntryKept ==
  ASSUME ClientInv, Onward, NEW o \in OperatorIds,
         operatorByIdCache'[o] = operatorByIdCache[o],
         Fresh(operatorByIdCache[o]) => now' < operatorByIdCache[o].expiresAt
  PROVE  IdCacheSound(o)'
<1> USE TimesAssumption
<1> SUFFICES ASSUME Fresh(operatorByIdCache[o]) PROVE IdCacheSound(o)'
  BY DEF IdCacheSound, Fresh
<1>1. PICK e : e = operatorByIdCache[o]
  OBVIOUS
<1>2. /\ Alive(e) /\ e.value \in StatusRow
      /\ KnowsOperator(o, e.value, ReadSince(e.expiresAt)) /\ now \in Int
  BY <1>1 DEF ClientInv, CachesSound, IdCacheSound, HistorySound
<1>3. PICK t \in Int : t = ReadSince(e.expiresAt) /\ t <= now
  BY <1>2 DEF Alive, ReadSince
<1>4. Alive(e)' /\ KnowsOperator(o, e.value, t)'
  BY <1>1, <1>2, <1>3, OperatorEntryKept
<1> QED
  BY <1>1, <1>2, <1>3, <1>4 DEF IdCacheSound, Alive, KnowsOperator, ReadSince

LEMMA LabelEntryKept ==
  ASSUME ClientInv, Onward, NEW o \in OperatorIds,
         operatorByLabelCache'[o] = operatorByLabelCache[o],
         Fresh(operatorByLabelCache[o]) => now' < operatorByLabelCache[o].expiresAt
  PROVE  LabelCacheSound(o)'
<1> USE TimesAssumption
<1> SUFFICES ASSUME Fresh(operatorByLabelCache[o]) PROVE LabelCacheSound(o)'
  BY DEF LabelCacheSound, Fresh
<1>1. PICK e : e = operatorByLabelCache[o]
  OBVIOUS
<1>2. /\ Alive(e) /\ e.value \in StatusRow
      /\ KnowsOperator(o, e.value, LabelReadSince(e.expiresAt)) /\ now \in Int
  BY <1>1 DEF ClientInv, CachesSound, LabelCacheSound, HistorySound
<1>3. PICK t \in Int : t = LabelReadSince(e.expiresAt) /\ t <= now
  BY <1>2 DEF Alive, LabelReadSince
<1>4. Alive(e)' /\ KnowsOperator(o, e.value, t)'
  BY <1>1, <1>2, <1>3, OperatorEntryKept
<1> QED
  BY <1>1, <1>2, <1>3, <1>4 DEF LabelCacheSound, Alive, KnowsOperator, LabelReadSince

\* An entry not touched while the clock stands still.
LEMMA StillEntries ==
  ASSUME ClientInv, Onward, now' = now
  PROVE  /\ \A b \in BotIds : botCache'[b] = botCache[b] => BotCacheSound(b)'
         /\ \A o \in OperatorIds :
               /\ operatorByIdCache'[o] = operatorByIdCache[o] => IdCacheSound(o)'
               /\ operatorByLabelCache'[o] = operatorByLabelCache[o] => LabelCacheSound(o)'
<1>1. ASSUME NEW b \in BotIds, Fresh(botCache[b]) PROVE now' < botCache[b].expiresAt
  BY <1>1 DEF ClientInv, CachesSound, BotCacheSound, Alive
<1>2. ASSUME NEW o \in OperatorIds, Fresh(operatorByIdCache[o])
      PROVE  now' < operatorByIdCache[o].expiresAt
  BY <1>2 DEF ClientInv, CachesSound, IdCacheSound, Alive
<1>3. ASSUME NEW o \in OperatorIds, Fresh(operatorByLabelCache[o])
      PROVE  now' < operatorByLabelCache[o].expiresAt
  BY <1>3 DEF ClientInv, CachesSound, LabelCacheSound, Alive
<1> QED
  BY <1>1, <1>2, <1>3, BotEntryKept, IdEntryKept, LabelEntryKept

LEMMA StillCaches ==
  ASSUME ClientInv, Onward, UNCHANGED <<now, caches>>
  PROVE  CachesSound'
  BY StillEntries DEF ClientInv, CachesSound, caches

\* What is stored.
LEMMA StoredEntry ==
  ASSUME HistorySound, CacheTtl # 0, NEW r
  PROVE  /\ Entry(r).expiresAt = now + CacheTtl /\ Entry(r).value = r /\ Alive(Entry(r))
         /\ ReadSince(Entry(r).expiresAt) = now - RpcTimeout
         /\ LabelReadSince(Entry(r).expiresAt) = now - CacheTtl - RpcTimeout
  BY TimesAssumption DEF Entry, Alive, ReadSince, LabelReadSince, HistorySound

\* What is known of a row is known after a step of the client itself.
LEMMA StillKnows ==
  ASSUME UNCHANGED <<factsVars, now, lastEntitled>>, NEW r, NEW t
  PROVE  /\ \A b \in BotIds : KnowsBot(b, r, t) => KnowsBot(b, r, t)'
         /\ \A o \in OperatorIds : KnowsOperator(o, r, t) => KnowsOperator(o, r, t)'
  BY DEF KnowsBot, KnowsOperator, Bound, factsVars

LEMMA BotStored ==
  ASSUME ClientInv, UNCHANGED <<factsVars, now, lastEntitled>>,
         NEW b \in BotIds, NEW r \in BotRow, KnowsBot(b, r, now - RpcTimeout),
         botCache' = Stored(botCache, b, r),
         UNCHANGED <<operatorByIdCache, operatorByLabelCache>>
  PROVE  CachesSound'
<1>1. Onward /\ now' = now /\ HistorySound
  BY StillWorld DEF ClientInv
<1>2. CASE CacheTtl = 0
  BY <1>1, <1>2, StillCaches DEF Stored, caches
<1>3. CASE CacheTtl # 0
  <2>1. PICK e : e = Entry(r)
    OBVIOUS
  <2>2. /\ e.expiresAt = now + CacheTtl /\ e.value = r /\ Alive(e)
        /\ ReadSince(e.expiresAt) = now - RpcTimeout
    BY <1>1, <1>3, <2>1, StoredEntry
  <2>3. botCache' = [botCache EXCEPT ![b] = e]
    BY <1>3, <2>1 DEF Stored
  <2>4. botCache' = [d \in BotIds |-> botCache'[d]] /\ botCache'[b] = e
    BY <2>3 DEF ClientInv, CachesSound
  <2>5. BotCacheSound(b)'
    <3>1. PICK t : t = ReadSince(e.expiresAt)
      OBVIOUS
    <3>2. KnowsBot(b, r, t)'
      BY <2>2, <3>1, StillKnows
    <3> QED
      BY <1>1, <2>2, <2>4, <3>1, <3>2 DEF BotCacheSound, KnowsBot, Alive, ReadSince
  <2>6. ASSUME NEW d \in BotIds, d # b PROVE BotCacheSound(d)'
    <3>1. botCache'[d] = botCache[d]
      BY <2>3, <2>6 DEF ClientInv, CachesSound
    <3> QED
      BY <1>1, <3>1, StillEntries
  <2> QED
    BY <1>1, <2>4, <2>5, <2>6, StillEntries DEF CachesSound, ClientInv
<1> QED
  BY <1>2, <1>3

\* An operator's row, stored by id or left there, and by label or left there.
LEMMA OperatorStored ==
  ASSUME ClientInv, UNCHANGED <<factsVars, now, lastEntitled, botCache>>,
         NEW o \in OperatorIds, NEW r \in StatusRow,
         \/ UNCHANGED operatorByIdCache
         \/ /\ operatorByIdCache' = Stored(operatorByIdCache, o, r)
            /\ KnowsOperator(o, r, now - RpcTimeout),
         \/ UNCHANGED operatorByLabelCache
         \/ operatorByLabelCache' = Stored(operatorByLabelCache, o, r),
         KnowsOperator(o, r, now - CacheTtl - RpcTimeout)
  PROVE  CachesSound'
<1>1. Onward /\ now' = now /\ HistorySound
  BY StillWorld DEF ClientInv
<1>2. CASE CacheTtl = 0
  BY <1>1, <1>2, StillCaches DEF Stored, caches
<1>3. CASE CacheTtl # 0
  <2>1. PICK e : e = Entry(r)
    OBVIOUS
  <2>2. /\ e.expiresAt = now + CacheTtl /\ e.value = r /\ Alive(e)
        /\ ReadSince(e.expiresAt) = now - RpcTimeout
        /\ LabelReadSince(e.expiresAt) = now - CacheTtl - RpcTimeout
    BY <1>1, <1>3, <2>1, StoredEntry
  <2>3. PICK t, u : t = ReadSince(e.expiresAt) /\ u = LabelReadSince(e.expiresAt)
    OBVIOUS
  <2>4. /\ operatorByIdCache' = operatorByIdCache \/
              (operatorByIdCache' = [operatorByIdCache EXCEPT ![o] = e] /\ KnowsOperator(o, r, t)')
        /\ operatorByLabelCache' \in {operatorByLabelCache, [operatorByLabelCache EXCEPT ![o] = e]}
        /\ KnowsOperator(o, r, u)'
    BY <1>3, <2>1, <2>2, <2>3, StillKnows DEF Stored
  <2>5. operatorByIdCache' = [p \in OperatorIds |-> operatorByIdCache'[p]]
        /\ operatorByLabelCache' = [p \in OperatorIds |-> operatorByLabelCache'[p]]
    BY <2>4 DEF ClientInv, CachesSound
  <2>6. Alive(e)'
    BY <1>1, <2>2 DEF Alive
  <2>7. ASSUME NEW p \in OperatorIds PROVE IdCacheSound(p)'
    <3>1. CASE operatorByIdCache'[p] = operatorByIdCache[p]
      BY <1>1, <3>1, StillEntries
    <3>2. CASE operatorByIdCache'[p] # operatorByIdCache[p]
      <4>1. p = o /\ operatorByIdCache'[p] = e /\ KnowsOperator(o, r, t)'
        BY <2>4, <3>2 DEF ClientInv, CachesSound
      <4> QED
        BY <2>2, <2>3, <2>6, <4>1 DEF IdCacheSound, KnowsOperator, Alive, ReadSince
    <3> QED
      BY <3>1, <3>2
  <2>8. ASSUME NEW p \in OperatorIds PROVE LabelCacheSound(p)'
    <3>1. CASE operatorByLabelCache'[p] = operatorByLabelCache[p]
      BY <1>1, <3>1, StillEntries
    <3>2. CASE operatorByLabelCache'[p] # operatorByLabelCache[p]
      <4>1. p = o /\ operatorByLabelCache'[p] = e /\ KnowsOperator(o, r, u)'
        BY <2>4, <3>2 DEF ClientInv, CachesSound
      <4> QED
        BY <2>2, <2>3, <2>6, <4>1 DEF LabelCacheSound, KnowsOperator, Alive, LabelReadSince
    <3> QED
      BY <3>1, <3>2
  <2> QED
    BY <1>1, <2>5, <2>7, <2>8, StillEntries DEF CachesSound, ClientInv
<1> QED
  BY <1>2, <1>3

--------------------------------------------------------------------------------
(* The decisions. *)

LEMMA AtFields ==
  ASSUME NEW c, NEW pc, NEW bot
  PROVE  /\ At(c, pc, bot).pc = pc /\ At(c, pc, bot).bot = bot
         /\ At(c, pc, bot).request = call[c].request
         /\ At(c, pc, bot).startedAt = call[c].startedAt
  BY DEF At

LEMMA IdleSound == CallSound(NoCall)
  BY DEF CallSound, NoCall, Underway, InTime, Answered, BotRead, OperatorRead, SenderKnown,
         OperatorPcs, OwnerKnown, BotPcs, Justified

LEMMA TakeBotSound ==
  ASSUME ClientInv, NEW c \in Calls, call[c].pc \in BotPcs, NEW r \in BotRow,
         KnowsBot(call[c].request.bot, r, call[c].startedAt - CacheTtl - RpcTimeout)
  PROVE  CallSound(TakeBot(c, r))
<1> USE TimesAssumption
<1> DEFINE q == call[c].request
           s == call[c].startedAt
<1>1. /\ q \in Request /\ s \in Int /\ s <= now /\ OwnerKnown(call[c])
      /\ FactsInv /\ HistorySound
  BY DEF ClientInv, CallSound, Underway, BotPcs
<1>2. q.op \in {"verify", "init"} /\ q.bot \in BotIds /\ q.key \in Addresses
      /\ (q.op = "init" => q.operator \in OperatorIds)
  BY <1>1, RequestFields
<1>3. CASE q.op = "init" /\ Signer(r, q) /\ r.operatorId = q.operator
  <2>1. TakeBot(c, r) = At(c, "accepted", None)
    BY <1>3 DEF TakeBot
  <2>2. PICK t \in Int : t = s - 2 * CacheTtl - RpcTimeout
    BY <1>1
  <2>3. KnowsBot(q.bot, r, t)
    <3>1. s - CacheTtl - RpcTimeout \in Int /\ t <= s - CacheTtl - RpcTimeout
      BY <1>1, <2>2
    <3> QED
      BY <1>1, <1>2, <3>1, Earlier
  <2>4. KnowsOperator(q.operator, [status |-> "active"], t) /\ Active([status |-> "active"])
    BY <1>1, <1>3, <2>2 DEF OwnerKnown, Active
  <2>5. /\ bots[q.bot].status # "missing" /\ bots[q.bot].operatorId = q.operator
        /\ lastEntitled[q.bot][q.key] >= t
    BY <1>1, <1>2, <1>3, <2>3, <2>4, OneInstant DEF Signer
  <2>6. Justified(At(c, "accepted", None))
    BY <1>3, <2>2, <2>5, AtFields DEF Justified
  <2> QED
    BY <1>1, <2>1, <2>6, AtFields
       DEF CallSound, Underway, InTime, Answered, BotRead, OperatorRead, SenderKnown,
           OperatorPcs, OwnerKnown, BotPcs
<1>4. CASE q.op = "verify" /\ Active(r)
  <2>1. TakeBot(c, r) = At(c, "operator", r)
    BY <1>4 DEF TakeBot
  <2>2. SenderKnown(At(c, "operator", r))
    BY <1>4, AtFields DEF SenderKnown
  <2> QED
    BY <1>1, <2>1, <2>2, AtFields
       DEF CallSound, Underway, InTime, Answered, BotRead, OperatorRead, OwnerKnown, BotPcs,
           Justified
<1>5. CASE TakeBot(c, r) = NoCall
  BY <1>5, IdleSound
<1> QED
  BY <1>2, <1>3, <1>4, <1>5 DEF TakeBot

LEMMA TakeOperatorSound ==
  ASSUME ClientInv, NEW c \in Calls, call[c].pc \in OperatorPcs, NEW r,
         call[c].request.op = "verify" =>
            KnowsOperator(OperatorAsked(c), r, call[c].startedAt - CacheTtl - RpcTimeout),
         call[c].request.op = "init" =>
            KnowsOperator(OperatorAsked(c), r, call[c].startedAt - 2 * CacheTtl - RpcTimeout)
  PROVE  CallSound(TakeOperator(c, r))
<1> USE TimesAssumption
<1> DEFINE q == call[c].request
           s == call[c].startedAt
<1>1. /\ q \in Request /\ s \in Int /\ s <= now /\ SenderKnown(call[c])
      /\ FactsInv /\ HistorySound
  BY DEF ClientInv, CallSound, Underway, OperatorPcs
<1>2. q.op \in {"verify", "init"} /\ q.bot \in BotIds /\ q.key \in Addresses
      /\ (q.op = "init" => q.operator \in OperatorIds)
  BY <1>1, RequestFields
<1>3. CASE q.op = "init" /\ Active(r)
  <2>1. TakeOperator(c, r) = At(c, "bot", None) /\ OperatorAsked(c) = q.operator
    BY <1>3 DEF TakeOperator, OperatorAsked
  <2>2. KnowsOperator(q.operator, [status |-> "active"], s - 2 * CacheTtl - RpcTimeout)
    BY <1>3, <2>1 DEF KnowsOperator, Active
  <2>3. OwnerKnown(At(c, "bot", None))
    BY <2>2, AtFields DEF OwnerKnown
  <2> QED
    BY <1>1, <2>1, <2>3, AtFields
       DEF CallSound, Underway, InTime, Answered, BotRead, OperatorRead, SenderKnown,
           OperatorPcs, Justified
<1>4. CASE q.op = "verify" /\ SendersMessage(call[c].bot, r, q)
  <2> DEFINE w == call[c].bot
  <2>1. TakeOperator(c, r) = At(c, "accepted", None) /\ OperatorAsked(c) = w.operatorId
    BY <1>4 DEF TakeOperator, OperatorAsked
  <2>2. PICK t \in Int : t = s - CacheTtl - RpcTimeout
    BY <1>1
  <2>3. w \in BotRow /\ Active(w) /\ KnowsBot(q.bot, w, t)
    BY <1>1, <1>4, <2>2 DEF SenderKnown
  <2>4. KnowsOperator(w.operatorId, r, t) /\ Active(r)
    BY <1>4, <2>1, <2>2 DEF SendersMessage
  <2>5. w.botKey = q.key /\ w.operatorId = q.operator
    BY <1>4 DEF SendersMessage, Signer
  <2> HIDE DEF w
  <2>6. /\ bots[q.bot].status # "missing" /\ bots[q.bot].operatorId = q.operator
        /\ lastEntitled[q.bot][q.key] >= t
    BY <1>1, <1>2, <2>3, <2>4, <2>5, OneInstant
  <2>7. Justified(At(c, "accepted", None))
    BY <1>4, <2>2, <2>6, AtFields DEF Justified
  <2> QED
    BY <1>1, <2>1, <2>7, AtFields
       DEF CallSound, Underway, InTime, Answered, BotRead, OperatorRead, SenderKnown,
           OperatorPcs, OwnerKnown, BotPcs
<1>5. CASE TakeOperator(c, r) = NoCall
  BY <1>5, IdleSound
<1> QED
  BY <1>2, <1>3, <1>4, <1>5 DEF TakeOperator

--------------------------------------------------------------------------------
(* The invariant holds. *)

LEMMA ClientInit == Init => ClientInv
<1> SUFFICES ASSUME Init PROVE ClientInv
  OBVIOUS
<1> USE TimesAssumption
<1>1. FactsInv
  BY FactsInitInv DEF Init
<1>2. HistorySound
  <2>1. Never \in Int /\ Never <= 0
    BY DEF Never
  <2>2. \A b \in BotIds, k \in Addresses : ~Entitled(b, k)
    BY DEF Init, FactsInit, NoBot, Entitled, Bound, Active
  <2> QED
    BY <2>1, <2>2 DEF Init, HistorySound
<1>3. CachesSound
  BY DEF Init, CachesSound, BotCacheSound, IdCacheSound, LabelCacheSound, Fresh
<1>4. call = [c \in Calls |-> call[c]] /\ \A c \in Calls : CallSound(call[c])
  BY IdleSound DEF Init
<1> QED
  BY <1>1, <1>2, <1>3, <1>4 DEF ClientInv

\* A call goes on and stores nothing.
LEMMA PutOnly ==
  ASSUME ClientInv, UNCHANGED <<factsVars, now, caches, lastEntitled>>,
         NEW c \in Calls, NEW v, CallSound(v), Put(c, v)
  PROVE  ClientInv'
<1>1. Onward
  BY StillWorld DEF ClientInv
<1> QED
  BY <1>1, StillCaches, PutSound

LEMMA BeginStep ==
  ASSUME ClientInv, NEW c \in Calls, NEW q \in Requests[c], Begin(c, q)
  PROVE  ClientInv'
<1> DEFINE w == [pc |-> IF q.op = "init" THEN "operator" ELSE "bot", request |-> q,
                 startedAt |-> now, bot |-> None, answer |-> None, readAt |-> 0]
<1>1. q \in Request /\ now \in Int
  BY RequestsAssumption DEF ClientInv, HistorySound
<1>2. CallSound(w)
  BY <1>1, RequestFields DEF CallSound, Underway, InTime, Answered, BotRead, OperatorRead,
     SenderKnown, OperatorPcs, OwnerKnown, BotPcs, Justified
<1>3. Put(c, w) /\ UNCHANGED <<factsVars, now, caches, lastEntitled>>
  BY DEF Begin
<1>4. PICK v : v = w
  OBVIOUS
<1> HIDE DEF w
<1> QED
  BY <1>2, <1>3, <1>4, PutOnly

LEMMA GetBotFromCacheStep ==
  ASSUME ClientInv, NEW c \in Calls, GetBotFromCache(c)
  PROVE  ClientInv'
<1> USE TimesAssumption
<1>1. /\ call[c].pc \in BotPcs /\ HistorySound
      /\ call[c].request \in Request /\ call[c].startedAt \in Int /\ call[c].startedAt <= now
  BY DEF GetBotFromCache, BotPcs, ClientInv, CallSound, Underway
<1>2. PICK b \in BotIds : b = call[c].request.bot
  BY <1>1, RequestFields
<1>3. PICK e : e = botCache[b]
  OBVIOUS
<1>4. Alive(e) /\ e.value \in BotRow /\ KnowsBot(b, e.value, ReadSince(e.expiresAt))
  BY <1>2, <1>3 DEF GetBotFromCache, ClientInv, CachesSound, BotCacheSound
<1>5. KnowsBot(b, e.value, call[c].startedAt - CacheTtl - RpcTimeout)
  <2>1. /\ call[c].startedAt - CacheTtl - RpcTimeout \in Int /\ ReadSince(e.expiresAt) \in Int
        /\ call[c].startedAt - CacheTtl - RpcTimeout <= ReadSince(e.expiresAt)
    BY <1>1, <1>4 DEF Alive, ReadSince, HistorySound
  <2> QED
    BY <1>1, <1>4, <2>1, Earlier
<1>6. PICK v : v = TakeBot(c, e.value)
  OBVIOUS
<1>7. CallSound(v)
  BY <1>1, <1>2, <1>4, <1>5, <1>6, TakeBotSound
<1> QED
  BY <1>2, <1>3, <1>6, <1>7, PutOnly DEF GetBotFromCache

LEMMA AskStep ==
  ASSUME ClientInv, NEW c \in Calls, AskBot(c) \/ AskOperator(c) \/ ReadAgain(c)
  PROVE  ClientInv'
<1>1. PICK v : /\ Put(c, v)
               /\ \/ v = At(c, "botAsked", v.bot) /\ call[c].pc \in BotPcs
                  \/ v = At(c, "operatorAsked", call[c].bot) /\ call[c].pc \in OperatorPcs
  BY AtFields DEF AskBot, AskOperator, ReadAgain, BotPcs, OperatorPcs
<1>2. CallSound(call[c])
  BY DEF ClientInv
<1>3. CallSound(v)
  BY <1>1, <1>2, AtFields
     DEF CallSound, Underway, InTime, Answered, BotRead, OperatorRead, SenderKnown, OperatorPcs,
         OwnerKnown, BotPcs, Justified
<1> QED
  BY <1>1, <1>3, PutOnly DEF AskBot, AskOperator, ReadAgain

LEMMA BotArrivesStep ==
  ASSUME ClientInv, NEW c \in Calls, BotArrives(c)
  PROVE  ClientInv'
<1> USE TimesAssumption
<1>1. /\ call[c].pc \in BotPcs /\ call[c].pc = "botAnswered" /\ HistorySound /\ now \in Int
      /\ call[c].request \in Request /\ call[c].startedAt \in Int /\ call[c].startedAt <= now
      /\ call[c].readAt \in Int /\ now <= call[c].readAt + RpcTimeout
  BY DEF BotArrives, BotPcs, ClientInv, CallSound, Underway, InTime, Answered, HistorySound
<1>2. PICK b \in BotIds : b = call[c].request.bot
  BY <1>1, RequestFields
<1>3. PICK r \in BotRow : r = call[c].answer /\ KnowsBot(b, r, call[c].readAt)
  BY <1>1, <1>2 DEF ClientInv, CallSound, BotRead
<1>4. /\ KnowsBot(b, r, now - RpcTimeout)
      /\ KnowsBot(b, r, call[c].startedAt - CacheTtl - RpcTimeout)
  <2>1. /\ now - RpcTimeout \in Int /\ now - RpcTimeout <= call[c].readAt
        /\ call[c].startedAt - CacheTtl - RpcTimeout \in Int
        /\ call[c].startedAt - CacheTtl - RpcTimeout <= call[c].readAt
    BY <1>1
  <2> QED
    BY <1>1, <1>3, <2>1, Earlier
<1>5. CachesSound'
  BY <1>2, <1>3, <1>4, BotStored DEF BotArrives
<1>6. PICK v : v = TakeBot(c, r)
  OBVIOUS
<1>7. CallSound(v)
  BY <1>1, <1>2, <1>4, <1>6, TakeBotSound
<1> QED
  BY <1>3, <1>5, <1>6, <1>7, PutSound DEF BotArrives

\* The operator a call asks about.
LEMMA OperatorCall ==
  ASSUME ClientInv, NEW c \in Calls, call[c].pc \in OperatorPcs
  PROVE  /\ OperatorAsked(c) = AskedOf(call[c]) /\ OperatorAsked(c) \in OperatorIds
         /\ call[c].request \in Request /\ now \in Int
         /\ call[c].startedAt \in Int /\ call[c].startedAt <= now
  BY AskedInOperators
     DEF ClientInv, CallSound, Underway, OperatorPcs, OperatorAsked, AskedOf, HistorySound

LEMMA GetOperatorByLabelFromCacheStep ==
  ASSUME ClientInv, NEW c \in Calls, GetOperatorByLabelFromCache(c)
  PROVE  ClientInv'
<1> USE TimesAssumption
<1>1. call[c].pc \in OperatorPcs /\ HistorySound /\ call[c].request.op = "init"
  BY DEF GetOperatorByLabelFromCache, OperatorPcs, ClientInv
<1>2. PICK o \in OperatorIds : o = OperatorAsked(c)
  BY <1>1, OperatorCall
<1>3. PICK e : e = operatorByLabelCache[o]
  OBVIOUS
<1>4. Alive(e) /\ KnowsOperator(o, e.value, LabelReadSince(e.expiresAt))
  BY <1>2, <1>3 DEF GetOperatorByLabelFromCache, ClientInv, CachesSound, LabelCacheSound
<1>5. KnowsOperator(o, e.value, call[c].startedAt - 2 * CacheTtl - RpcTimeout)
  <2>1. /\ call[c].startedAt - 2 * CacheTtl - RpcTimeout \in Int
        /\ LabelReadSince(e.expiresAt) \in Int
        /\ call[c].startedAt - 2 * CacheTtl - RpcTimeout <= LabelReadSince(e.expiresAt)
    BY <1>1, <1>4, OperatorCall DEF Alive, LabelReadSince
  <2> QED
    BY <1>1, <1>4, <2>1, Earlier
<1>6. PICK v : v = TakeOperator(c, e.value)
  OBVIOUS
<1>7. CallSound(v)
  BY <1>1, <1>2, <1>5, <1>6, TakeOperatorSound
<1> QED
  BY <1>2, <1>3, <1>6, <1>7, PutOnly DEF GetOperatorByLabelFromCache

LEMMA GetOperatorByIdFromCacheStep ==
  ASSUME ClientInv, NEW c \in Calls, GetOperatorByIdFromCache(c)
  PROVE  ClientInv'
<1> USE TimesAssumption
<1>1. call[c].pc \in OperatorPcs /\ HistorySound
  BY DEF GetOperatorByIdFromCache, OperatorPcs, ClientInv
<1>2. PICK o \in OperatorIds : o = OperatorAsked(c)
  BY <1>1, OperatorCall
<1>3. PICK e : e = operatorByIdCache[o]
  OBVIOUS
<1>4. PICK r \in StatusRow : /\ r = e.value /\ Alive(e)
                             /\ KnowsOperator(o, r, ReadSince(e.expiresAt))
  BY <1>2, <1>3 DEF GetOperatorByIdFromCache, ClientInv, CachesSound, IdCacheSound
<1>5. /\ KnowsOperator(o, r, now - CacheTtl - RpcTimeout)
      /\ KnowsOperator(o, r, call[c].startedAt - CacheTtl - RpcTimeout)
      /\ KnowsOperator(o, r, call[c].startedAt - 2 * CacheTtl - RpcTimeout)
  <2>1. /\ now - CacheTtl - RpcTimeout \in Int
        /\ now - CacheTtl - RpcTimeout <= ReadSince(e.expiresAt)
        /\ call[c].startedAt - CacheTtl - RpcTimeout \in Int
        /\ call[c].startedAt - CacheTtl - RpcTimeout <= ReadSince(e.expiresAt)
        /\ call[c].startedAt - 2 * CacheTtl - RpcTimeout \in Int
        /\ call[c].startedAt - 2 * CacheTtl - RpcTimeout <= ReadSince(e.expiresAt)
        /\ ReadSince(e.expiresAt) \in Int
    BY <1>1, <1>4, OperatorCall DEF Alive, ReadSince
  <2> QED
    BY <1>1, <1>4, <2>1, Earlier
<1>6. CachesSound'
  BY <1>2, <1>3, <1>4, <1>5, OperatorStored DEF GetOperatorByIdFromCache, StoredByLabel
<1>7. PICK v : v = TakeOperator(c, r)
  OBVIOUS
<1>8. CallSound(v)
  BY <1>1, <1>2, <1>5, <1>7, TakeOperatorSound
<1> QED
  BY <1>2, <1>3, <1>4, <1>6, <1>7, <1>8, PutSound DEF GetOperatorByIdFromCache

LEMMA OperatorArrivesStep ==
  ASSUME ClientInv, NEW c \in Calls, OperatorArrives(c)
  PROVE  ClientInv'
<1> USE TimesAssumption
<1>1. /\ call[c].pc \in OperatorPcs /\ call[c].pc = "operatorAnswered" /\ HistorySound
      /\ call[c].readAt \in Int /\ now <= call[c].readAt + RpcTimeout
  BY DEF OperatorArrives, OperatorPcs, ClientInv, CallSound, InTime, Answered
<1>2. PICK o \in OperatorIds : o = OperatorAsked(c) /\ o = AskedOf(call[c])
  BY <1>1, OperatorCall
<1>3. PICK r \in StatusRow : r = call[c].answer /\ KnowsOperator(o, r, call[c].readAt)
  BY <1>1, <1>2 DEF ClientInv, CallSound, OperatorRead
<1>4. /\ KnowsOperator(o, r, now - RpcTimeout)
      /\ KnowsOperator(o, r, now - CacheTtl - RpcTimeout)
      /\ KnowsOperator(o, r, call[c].startedAt - CacheTtl - RpcTimeout)
      /\ KnowsOperator(o, r, call[c].startedAt - 2 * CacheTtl - RpcTimeout)
  <2>1. /\ now - RpcTimeout \in Int /\ now - RpcTimeout <= call[c].readAt
        /\ now - CacheTtl - RpcTimeout \in Int
        /\ now - CacheTtl - RpcTimeout <= call[c].readAt
        /\ call[c].startedAt - CacheTtl - RpcTimeout \in Int
        /\ call[c].startedAt - CacheTtl - RpcTimeout <= call[c].readAt
        /\ call[c].startedAt - 2 * CacheTtl - RpcTimeout \in Int
        /\ call[c].startedAt - 2 * CacheTtl - RpcTimeout <= call[c].readAt
    BY <1>1, OperatorCall
  <2> QED
    BY <1>1, <1>3, <2>1, Earlier
<1>5. CachesSound'
  BY <1>2, <1>3, <1>4, OperatorStored DEF OperatorArrives, StoredByLabel
<1>6. PICK v : v = TakeOperator(c, r)
  OBVIOUS
<1>7. CallSound(v)
  BY <1>1, <1>2, <1>4, <1>6, TakeOperatorSound
<1> QED
  BY <1>3, <1>5, <1>6, <1>7, PutSound DEF OperatorArrives

LEMMA ReadFailsStep ==
  ASSUME ClientInv, NEW c \in Calls, ReadFails(c)
  PROVE  ClientInv'
  BY IdleSound, PutOnly DEF ReadFails, NoCall

LEMMA NodeReadsStep ==
  ASSUME ClientInv, NEW c \in Calls, NodeReads(c)
  PROVE  ClientInv'
<1> USE TimesAssumption
<1>1. CallSound(call[c]) /\ FactsInv /\ HistorySound /\ now \in Int
  BY DEF ClientInv, HistorySound
<1>2. CASE call[c].pc = "botAsked"
  <2>1. PICK b \in BotIds : b = call[c].request.bot
    BY <1>1, <1>2, RequestFields DEF CallSound, Underway
  <2>2. bots[b] \in BotRow /\ KnowsBot(b, bots[b], now)
    BY <1>1, ReadNow DEF FactsInv, FactsTypeOK
  <2>3. PICK v : v = [pc |-> "botAnswered", request |-> call[c].request,
                      startedAt |-> call[c].startedAt, bot |-> call[c].bot,
                      answer |-> bots[b], readAt |-> now]
    OBVIOUS
  <2>4. CallSound(v)
    BY <1>1, <1>2, <2>1, <2>2, <2>3
       DEF CallSound, Underway, InTime, Answered, BotRead, OperatorRead, SenderKnown,
           OperatorPcs, OwnerKnown, BotPcs, Justified
  <2> QED
    BY <1>2, <2>1, <2>3, <2>4, PutOnly DEF NodeReads, AnswerWith
<1>3. CASE call[c].pc = "operatorAsked"
  <2>1. PICK o \in OperatorIds : o = OperatorAsked(c) /\ o = AskedOf(call[c])
    BY <1>3, OperatorCall DEF OperatorPcs
  <2>2. PICK r : r = [status |-> operators[o].status]
    OBVIOUS
  <2>3. r \in StatusRow /\ KnowsOperator(o, r, now)
    BY <1>1, <2>2, ReadNow DEF FactsInv, FactsTypeOK, OperatorRow, StatusRow
  <2>4. PICK v : v = [pc |-> "operatorAnswered", request |-> call[c].request,
                      startedAt |-> call[c].startedAt, bot |-> call[c].bot,
                      answer |-> r, readAt |-> now]
    OBVIOUS
  <2>5. AskedOf(v) = o
    BY <2>1, <2>4 DEF AskedOf
  <2>6. CallSound(v)
    BY <1>1, <1>3, <2>3, <2>4, <2>5
       DEF CallSound, Underway, InTime, Answered, BotRead, OperatorRead, SenderKnown,
           OperatorPcs, OwnerKnown, BotPcs, Justified
  <2> QED
    BY <1>3, <2>1, <2>2, <2>4, <2>6, PutOnly DEF NodeReads, AnswerWith
<1> QED
  BY <1>2, <1>3 DEF NodeReads

\* The calls when only the world moves.
LEMMA CallsWait ==
  ASSUME ClientInv, Onward, UNCHANGED call, \A c \in Calls : InTime(call[c])', CachesSound'
  PROVE  ClientInv'
<1>1. ASSUME NEW c \in Calls PROVE CallSound(call[c])'
  <2>1. PICK v : v = call[c] /\ v = call'[c]
    OBVIOUS
  <2>2. CallSound(v) /\ InTime(v)'
    BY <2>1 DEF ClientInv, InTime
  <2>3. CallSound(v)'
    BY <2>2, CallKept
  <2> QED
    BY <2>1, <2>3 DEF CallSound, Underway, InTime, BotRead, OperatorRead, AskedOf, SenderKnown,
                      OwnerKnown, Justified
<1> QED
  BY <1>1 DEF ClientInv, Onward

LEMMA ClearCacheStep ==
  ASSUME ClientInv, ClearCache
  PROVE  ClientInv'
<1>1. Onward
  BY StillWorld DEF ClientInv, ClearCache
<1>2. CachesSound'
  BY DEF ClearCache, CachesSound, BotCacheSound, IdCacheSound, LabelCacheSound, Fresh
<1>3. \A c \in Calls : InTime(call[c])'
  BY DEF ClearCache, ClientInv, CallSound, InTime
<1> QED
  BY <1>1, <1>2, <1>3, CallsWait DEF ClearCache

LEMMA TransactStep ==
  ASSUME ClientInv, Transact
  PROVE  ClientInv'
<1>1. Onward
  BY TransactWorld DEF ClientInv, Transact
<1>2. CachesSound'
  BY <1>1, StillCaches DEF Transact
<1>3. \A c \in Calls : InTime(call[c])'
  BY DEF Transact, ClientInv, CallSound, InTime
<1> QED
  BY <1>1, <1>2, <1>3, CallsWait DEF Transact

LEMMA TickStep ==
  ASSUME ClientInv, Tick
  PROVE  ClientInv'
<1> USE TimesAssumption
<1>1. Onward
  BY TickWorld DEF ClientInv, Tick
<1>2. now \in Int /\ now' = now + 1
  BY DEF Tick, ClientInv, HistorySound
<1>3. \A c \in Calls : InTime(call[c])'
  <2> SUFFICES ASSUME NEW c \in Calls, call[c].pc \in Answered
               PROVE  /\ call[c].readAt \in Int /\ call[c].readAt <= now'
                      /\ now' <= call[c].readAt + RpcTimeout
    BY DEF InTime, Tick
  <2>1. call[c].readAt \in Int /\ call[c].readAt <= now
    BY DEF ClientInv, CallSound, InTime
  <2> QED
    BY <1>2, <2>1 DEF Tick
<1>4. CachesSound'
  <2>1. /\ botCache' = [b \in BotIds |->
              IF botCache[b] # None /\ botCache[b].expiresAt > now' THEN botCache[b] ELSE None]
        /\ operatorByIdCache' = [o \in OperatorIds |->
              IF operatorByIdCache[o] # None /\ operatorByIdCache[o].expiresAt > now'
              THEN operatorByIdCache[o] ELSE None]
        /\ operatorByLabelCache' = [o \in OperatorIds |->
              IF operatorByLabelCache[o] # None /\ operatorByLabelCache[o].expiresAt > now'
              THEN operatorByLabelCache[o] ELSE None]
    BY DEF Tick, Unexpired, ClientInv, CachesSound
  <2>2. ASSUME NEW b \in BotIds PROVE BotCacheSound(b)'
    <3>1. CASE botCache'[b] = None
      BY <3>1 DEF BotCacheSound, Fresh
    <3>2. CASE botCache'[b] # None
      <4>1. botCache'[b] = botCache[b] /\ botCache[b].expiresAt > now' /\ Fresh(botCache[b])
        BY <2>1, <3>2 DEF Fresh
      <4>2. botCache[b].expiresAt \in Int
        BY <4>1 DEF ClientInv, CachesSound, BotCacheSound, Alive
      <4> QED
        BY <1>1, <1>2, <4>1, <4>2, BotEntryKept
    <3> QED
      BY <3>1, <3>2
  <2>3. ASSUME NEW o \in OperatorIds PROVE IdCacheSound(o)'
    <3>1. CASE operatorByIdCache'[o] = None
      BY <3>1 DEF IdCacheSound, Fresh
    <3>2. CASE operatorByIdCache'[o] # None
      <4>1. /\ operatorByIdCache'[o] = operatorByIdCache[o]
            /\ operatorByIdCache[o].expiresAt > now' /\ Fresh(operatorByIdCache[o])
        BY <2>1, <3>2 DEF Fresh
      <4>2. operatorByIdCache[o].expiresAt \in Int
        BY <4>1 DEF ClientInv, CachesSound, IdCacheSound, Alive
      <4> QED
        BY <1>1, <1>2, <4>1, <4>2, IdEntryKept
    <3> QED
      BY <3>1, <3>2
  <2>4. ASSUME NEW o \in OperatorIds PROVE LabelCacheSound(o)'
    <3>1. CASE operatorByLabelCache'[o] = None
      BY <3>1 DEF LabelCacheSound, Fresh
    <3>2. CASE operatorByLabelCache'[o] # None
      <4>1. /\ operatorByLabelCache'[o] = operatorByLabelCache[o]
            /\ operatorByLabelCache[o].expiresAt > now' /\ Fresh(operatorByLabelCache[o])
        BY <2>1, <3>2 DEF Fresh
      <4>2. operatorByLabelCache[o].expiresAt \in Int
        BY <4>1 DEF ClientInv, CachesSound, LabelCacheSound, Alive
      <4> QED
        BY <1>1, <1>2, <4>1, <4>2, LabelEntryKept
    <3> QED
      BY <3>1, <3>2
  <2> QED
    BY <2>1, <2>2, <2>3, <2>4 DEF CachesSound
<1> QED
  BY <1>1, <1>3, <1>4, CallsWait DEF Tick

LEMMA ClientStep == ClientInv /\ [Next]_vars => ClientInv'
<1> SUFFICES ASSUME ClientInv, [Next]_vars PROVE ClientInv'
  OBVIOUS
<1>1. CASE UNCHANGED vars
  <2>1. Onward /\ UNCHANGED <<now, caches>> /\ UNCHANGED call
    BY <1>1, StillWorld DEF vars, ClientInv
  <2>2. \A c \in Calls : InTime(call[c])'
    BY <2>1 DEF ClientInv, CallSound, InTime
  <2> QED
    BY <2>1, <2>2, StillCaches, CallsWait
<1>2. CASE Next
  BY <1>2, BeginStep, GetBotFromCacheStep, AskStep, BotArrivesStep,
     GetOperatorByLabelFromCacheStep, GetOperatorByIdFromCacheStep, OperatorArrivesStep,
     ReadFailsStep, NodeReadsStep, ClearCacheStep, TickStep, TransactStep DEF Next
<1> QED
  BY <1>1, <1>2

\* What verifyMessage accepts was entitled at one instant within CacheTtl and one
\* timeout of the call, under the operator the message claims.
THEOREM VerifiedEntitled == Spec => []VerifiedWereEntitled
<1>1. ClientInv => VerifiedWereEntitled
  <2> SUFFICES ASSUME ClientInv, NEW c \in Calls, Accepted(c, "verify")
               PROVE  /\ lastEntitled[call[c].request.bot][call[c].request.key]
                              + CacheTtl + RpcTimeout >= call[c].startedAt
                      /\ bots[call[c].request.bot].operatorId = call[c].request.operator
    BY DEF VerifiedWereEntitled
  <2>1. Underway(call[c]) /\ Justified(call[c]) /\ call[c].pc = "accepted" /\ call[c].request.op = "verify"
    BY DEF ClientInv, CallSound, Accepted
  <2>2. /\ call[c].startedAt \in Int
        /\ lastEntitled[call[c].request.bot][call[c].request.key] \in Int
    BY <2>1, RequestFields DEF Underway, ClientInv, HistorySound
  <2> QED
    BY <2>1, <2>2, TimesAssumption DEF Justified
<1> QED
  BY <1>1, ClientInit, ClientStep, PTL DEF Spec

\* init accepts what was entitled at one instant within twice CacheTtl and one timeout
\* of the call.
THEOREM ReadyEntitled == Spec => []ReadyWereEntitled
<1>1. ClientInv => ReadyWereEntitled
  <2> SUFFICES ASSUME ClientInv, NEW c \in Calls, Accepted(c, "init")
               PROVE  /\ lastEntitled[call[c].request.bot][call[c].request.key]
                              + 2 * CacheTtl + RpcTimeout >= call[c].startedAt
                      /\ bots[call[c].request.bot].operatorId = call[c].request.operator
    BY DEF ReadyWereEntitled
  <2>1. Underway(call[c]) /\ Justified(call[c]) /\ call[c].pc = "accepted" /\ call[c].request.op = "init"
    BY DEF ClientInv, CallSound, Accepted
  <2>2. /\ call[c].startedAt \in Int
        /\ lastEntitled[call[c].request.bot][call[c].request.key] \in Int
    BY <2>1, RequestFields DEF Underway, ClientInv, HistorySound
  <2> QED
    BY <2>1, <2>2, TimesAssumption DEF Justified
<1> QED
  BY <1>1, ClientInit, ClientStep, PTL DEF Spec

--------------------------------------------------------------------------------
(* Types: what the invariant leaves open is the shape of entries and calls. *)

ShapesOK ==
    /\ now \in 0..MaxTime
    /\ botCache \in [BotIds -> EntryOf(BotRow)]
    /\ operatorByIdCache \in [OperatorIds -> EntryOf(StatusRow)]
    /\ operatorByLabelCache \in [OperatorIds -> EntryOf(StatusRow)]
    /\ call \in [Calls -> Call]

TypesInv == ClientInv /\ ShapesOK

LEMMA NoCallType == NoCall \in Call
  BY DEF NoCall, Call

LEMMA PutTypes ==
  ASSUME ShapesOK, NEW c \in Calls, NEW v \in Call, Put(c, v)
  PROVE  call' \in [Calls -> Call]
  BY DEF ShapesOK, Put

LEMMA AtType ==
  ASSUME ShapesOK, NEW c \in Calls,
         NEW p \in {"idle", "bot", "operator", "accepted"} \cup Asked \cup Answered,
         NEW row \in BotRow \cup {None}
  PROVE  At(c, p, row) \in Call
<1>1. call[c] \in Call
  BY DEF ShapesOK
<1> QED
  BY <1>1 DEF At, Call

LEMMA TakeBotType ==
  ASSUME ShapesOK, NEW c \in Calls, NEW row \in BotRow
  PROVE  TakeBot(c, row) \in Call
  BY AtType, NoCallType DEF TakeBot

LEMMA TakeOperatorType ==
  ASSUME ShapesOK, NEW c \in Calls, NEW row
  PROVE  TakeOperator(c, row) \in Call
  BY AtType, NoCallType DEF TakeOperator

LEMMA StoredType ==
  ASSUME ShapesOK, NEW Ids, NEW rows, NEW cache \in [Ids -> EntryOf(rows)],
         NEW id, NEW row \in rows
  PROVE  Stored(cache, id, row) \in [Ids -> EntryOf(rows)]
<1>1. now + CacheTtl \in 0..(MaxTime + CacheTtl)
  BY TimesAssumption DEF ShapesOK
<1>2. Entry(row) \in EntryOf(rows)
  BY <1>1 DEF Entry, EntryOf
<1> QED
  BY <1>2 DEF Stored

LEMMA UnexpiredType ==
  ASSUME NEW Ids, NEW rows, NEW cache \in [Ids -> EntryOf(rows)]
  PROVE  Unexpired(cache) \in [Ids -> EntryOf(rows)]
  BY DEF Unexpired, EntryOf

\* What a call goes on with has its type.
LEMMA CallTypes ==
  ASSUME TypesInv, NEW c \in Calls
  PROVE  /\ call[c] \in Call /\ CallSound(call[c])
         /\ call[c].pc # "idle" => call[c].request \in Request
         /\ call[c].pc = "botAnswered" => call[c].answer \in BotRow
         /\ call[c].pc = "operatorAnswered" => call[c].answer \in StatusRow
         /\ call[c].pc \in OperatorPcs => OperatorAsked(c) \in OperatorIds
<1>1. CallSound(call[c]) /\ call[c] \in Call
  BY DEF TypesInv, ClientInv, ShapesOK
<1>2. call[c].pc \in OperatorPcs => AskedOf(call[c]) \in OperatorIds
  BY <1>1, AskedInOperators DEF TypesInv, ClientInv
<1> QED
  BY <1>1, <1>2 DEF CallSound, Underway, BotRead, OperatorRead, AskedOf, OperatorAsked

LEMMA ByLabelType ==
  ASSUME TypesInv, NEW c \in Calls, NEW row \in StatusRow
  PROVE  StoredByLabel(c, row) \in [OperatorIds -> EntryOf(StatusRow)]
  BY StoredType DEF StoredByLabel, TypesInv, ShapesOK

LEMMA CallStepTypes ==
  ASSUME TypesInv, NEW c \in Calls,
         \/ GetBotFromCache(c) \/ AskBot(c) \/ BotArrives(c)
         \/ GetOperatorByLabelFromCache(c) \/ GetOperatorByIdFromCache(c)
         \/ AskOperator(c) \/ OperatorArrives(c)
         \/ ReadFails(c) \/ NodeReads(c) \/ ReadAgain(c)
  PROVE  ShapesOK'
<1>0. ShapesOK /\ call[c] \in Call /\ now \in Int
  BY CallTypes DEF TypesInv, ShapesOK
<1>1. ASSUME NEW v \in Call, Put(c, v), UNCHANGED <<now, caches>> PROVE ShapesOK'
  BY <1>0, <1>1, PutTypes DEF ShapesOK, caches
<1>2. CASE GetBotFromCache(c)
  <2>1. call[c].request.bot \in BotIds
    BY <1>2, CallTypes, RequestFields DEF GetBotFromCache
  <2>2. botCache[call[c].request.bot].value \in BotRow
    BY <1>0, <1>2, <2>1 DEF GetBotFromCache, Fresh, ShapesOK, EntryOf
  <2> QED
    BY <1>0, <1>1, <1>2, <2>2, TakeBotType DEF GetBotFromCache
<1>3. CASE AskBot(c)
  <2>1. At(c, "botAsked", None) \in Call
    BY <1>0, AtType DEF Asked
  <2> QED
    BY <1>1, <1>3, <2>1 DEF AskBot
<1>4. CASE BotArrives(c)
  <2>1. call[c].answer \in BotRow
    BY <1>4, CallTypes DEF BotArrives
  <2>2. botCache' \in [BotIds -> EntryOf(BotRow)]
    BY <1>0, <1>4, <2>1, StoredType DEF BotArrives, ShapesOK
  <2>3. call' \in [Calls -> Call]
    BY <1>0, <1>4, <2>1, PutTypes, TakeBotType DEF BotArrives
  <2> QED
    BY <1>0, <1>4, <2>2, <2>3 DEF BotArrives, ShapesOK
<1>5. CASE GetOperatorByLabelFromCache(c)
  BY <1>0, <1>1, <1>5, TakeOperatorType DEF GetOperatorByLabelFromCache
<1>6. CASE GetOperatorByIdFromCache(c)
  <2>1. OperatorAsked(c) \in OperatorIds
    BY <1>6, CallTypes DEF GetOperatorByIdFromCache, OperatorPcs
  <2>2. operatorByIdCache[OperatorAsked(c)].value \in StatusRow
    BY <1>0, <1>6, <2>1 DEF GetOperatorByIdFromCache, Fresh, ShapesOK, EntryOf
  <2>3. operatorByLabelCache' \in [OperatorIds -> EntryOf(StatusRow)]
    BY <1>6, <2>2, ByLabelType DEF GetOperatorByIdFromCache
  <2>4. call' \in [Calls -> Call]
    BY <1>0, <1>6, PutTypes, TakeOperatorType DEF GetOperatorByIdFromCache
  <2> QED
    BY <1>0, <1>6, <2>3, <2>4 DEF GetOperatorByIdFromCache, ShapesOK
<1>7. CASE AskOperator(c)
  <2>1. At(c, "operatorAsked", call[c].bot) \in Call
    BY <1>0, AtType DEF Asked, Call
  <2> QED
    BY <1>1, <1>7, <2>1 DEF AskOperator
<1>8. CASE OperatorArrives(c)
  <2>1. call[c].answer \in StatusRow
    BY <1>8, CallTypes DEF OperatorArrives
  <2>2. /\ operatorByIdCache' \in [OperatorIds -> EntryOf(StatusRow)]
        /\ operatorByLabelCache' \in [OperatorIds -> EntryOf(StatusRow)]
    BY <1>0, <1>8, <2>1, StoredType, ByLabelType DEF OperatorArrives, ShapesOK
  <2>3. call' \in [Calls -> Call]
    BY <1>0, <1>8, PutTypes, TakeOperatorType DEF OperatorArrives
  <2> QED
    BY <1>0, <1>8, <2>2, <2>3 DEF OperatorArrives, ShapesOK
<1>9. CASE ReadFails(c)
  BY <1>1, <1>9, NoCallType DEF ReadFails
<1>10. CASE NodeReads(c)
  <2>1. ASSUME NEW p \in Answered, NEW row \in BotRow \cup StatusRow, AnswerWith(c, p, row)
        PROVE  ShapesOK'
    <3>1. [pc |-> p, request |-> call[c].request, startedAt |-> call[c].startedAt,
           bot |-> call[c].bot, answer |-> row, readAt |-> now] \in Call
      BY <1>0 DEF Call
    <3> QED
      BY <1>1, <1>10, <2>1, <3>1 DEF AnswerWith, NodeReads
  <2>2. CASE call[c].pc = "botAsked" /\ AnswerWith(c, "botAnswered", bots[call[c].request.bot])
    <3> DEFINE row == bots[call[c].request.bot]
    <3>1. row \in BotRow /\ "botAnswered" \in Answered
      BY <2>2, CallTypes, RequestFields DEF TypesInv, ClientInv, FactsInv, FactsTypeOK, Answered
    <3>2. AnswerWith(c, "botAnswered", row)
      BY <2>2
    <3> HIDE DEF row
    <3> QED
      BY <2>1, <3>1, <3>2
  <2>3. CASE /\ call[c].pc = "operatorAsked"
             /\ AnswerWith(c, "operatorAnswered",
                           [status |-> operators[OperatorAsked(c)].status])
    <3> DEFINE row == [status |-> operators[OperatorAsked(c)].status]
    <3>1. operators[OperatorAsked(c)] \in OperatorRow
      BY <2>3, CallTypes DEF OperatorPcs, TypesInv, ClientInv, FactsInv, FactsTypeOK
    <3>2. row \in StatusRow /\ "operatorAnswered" \in Answered
      BY <3>1 DEF OperatorRow, StatusRow, Answered
    <3>3. AnswerWith(c, "operatorAnswered", row)
      BY <2>3
    <3> HIDE DEF row
    <3> QED
      BY <2>1, <3>2, <3>3
  <2> QED
    BY <1>10, <2>2, <2>3 DEF NodeReads
<1>11. CASE ReadAgain(c)
  <2>1. At(c, "botAsked", call[c].bot) \in Call /\ At(c, "operatorAsked", call[c].bot) \in Call
    BY <1>0, AtType DEF Asked, Call
  <2> QED
    BY <1>1, <1>11, <2>1 DEF ReadAgain
<1> QED
  BY <1>2, <1>3, <1>4, <1>5, <1>6, <1>7, <1>8, <1>9, <1>10, <1>11

LEMMA TypesStep == TypesInv /\ [Next]_vars => ShapesOK'
<1> SUFFICES ASSUME TypesInv, [Next]_vars PROVE ShapesOK'
  OBVIOUS
<1>0. ShapesOK
  BY DEF TypesInv
<1>1. ASSUME NEW c \in Calls, NEW request \in Requests[c], Begin(c, request)
      PROVE  ShapesOK'
  <2>1. request \in Request /\ now \in Int
    BY <1>0, RequestsAssumption DEF ShapesOK
  <2>2. [pc |-> IF request.op = "init" THEN "operator" ELSE "bot",
         request |-> request, startedAt |-> now,
         bot |-> None, answer |-> None, readAt |-> 0] \in Call
    BY <2>1 DEF Call
  <2> QED
    BY <1>0, <1>1, <2>2, PutTypes DEF Begin, ShapesOK, caches
<1>2. CASE ClearCache
  BY <1>0, <1>2 DEF ClearCache, ShapesOK, EntryOf
<1>3. CASE Tick
  <2>1. now' \in 0..MaxTime
    BY <1>0, <1>3, TimesAssumption DEF Tick, ShapesOK
  <2> QED
    BY <1>0, <1>3, <2>1, UnexpiredType DEF Tick, ShapesOK
<1>4. CASE Transact \/ UNCHANGED vars
  BY <1>0, <1>4 DEF Transact, vars, caches, ShapesOK
<1> QED
  BY <1>1, <1>2, <1>3, <1>4, CallStepTypes DEF Next

\* Every variable of a client keeps its type.
THEOREM TypeCorrect == Spec => []ClientTypeOK
<1>1. Init => ShapesOK
  BY TimesAssumption, NoCallType DEF Init, ShapesOK, EntryOf
<1>2. TypesInv => ClientTypeOK
  BY DEF TypesInv, ShapesOK, ClientInv, FactsInv, HistorySound, ClientTypeOK
<1> QED
  BY <1>1, <1>2, ClientInit, ClientStep, TypesStep, PTL DEF Spec, TypesInv

================================================================================
