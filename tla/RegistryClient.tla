----------------------------- MODULE RegistryClient -----------------------------
(***************************************************************************)
(* One RegistryClient with the IdentityClient on top of it                 *)
(* (packages/identity-node-client): verifyMessage and init look up rows of *)
(* the registry through three caches and decide on what they find.  Calls  *)
(* overlap; the rows one call decides on may be of different ages, and an  *)
(* old answer may overtake a new one.                                      *)
(*                                                                         *)
(* A read is sent (Asked), the node reads its state (Answered) and the     *)
(* answer arrives: no later than the HTTP timeout after it was read, or    *)
(* not at all.  viem sends a failed read again; how often does not matter. *)
(*                                                                         *)
(* Of an operator's row no call uses more than its status: StatusRow.      *)
(*                                                                         *)
(* lastEntitled is a history: the latest instant at which the chain        *)
(* entitled a key to sign for a bot.                                       *)
(***************************************************************************)
EXTENDS IdentityFacts, Integers

CONSTANTS
    Calls,        \* calls in progress at once
    Requests,     \* Requests[c]: what call c may be about
    CacheTtl,     \* cacheTtlMs; 0 is no cache
    RpcTimeout,   \* rpcTimeoutMs
    MaxTime       \* bound of the clock

ASSUME TimesAssumption == CacheTtl \in Nat /\ RpcTimeout \in Nat /\ MaxTime \in Nat

ASSUME AbsentAssumption == None \notin OperatorIds /\ None \notin Addresses

\* verify: a message from bot that claims operator, or none, and whose signature
\* recovers to key.  init: the client's own configuration.
Request ==
    [op : {"verify"}, bot : BotIds, operator : OperatorIds \cup {None}, key : Addresses]
    \cup [op : {"init"}, bot : BotIds, operator : OperatorIds, key : Addresses]

ASSUME RequestsAssumption == Requests \in [Calls -> SUBSET Request]

VARIABLES
    now,
    botCache,               \* entries by bot label
    operatorByIdCache,      \* entries by operator id
    operatorByLabelCache,   \* entries by operator label
    call,                   \* call[c]: how far call c is
    lastEntitled            \* when b last was active, with key k and an active operator

caches == <<botCache, operatorByIdCache, operatorByLabelCache>>
vars   == <<factsVars, now, caches, call, lastEntitled>>

StatusRow == [status : Statuses]

Asked    == {"botAsked", "operatorAsked"}
Answered == {"botAnswered", "operatorAnswered"}

Call == [pc : {"idle", "bot", "operator", "accepted"} \cup Asked \cup Answered,
         request : Request \cup {None}, startedAt : Int,
         bot : BotRow \cup {None},                    \* verify: the sender's row
         answer : BotRow \cup StatusRow \cup {None},   \* a read that is under way
         readAt : Int]

NoCall == [pc |-> "idle", request |-> None, startedAt |-> 0,
           bot |-> None, answer |-> None, readAt |-> 0]

EntryOf(rows) == [value : rows, expiresAt : 0..(MaxTime + CacheTtl)] \cup {None}

\* Before any instant a property goes back to.
Never == -(2 * CacheTtl + RpcTimeout + 1)

ClientTypeOK ==
    /\ FactsTypeOK
    /\ now \in 0..MaxTime
    /\ botCache \in [BotIds -> EntryOf(BotRow)]
    /\ operatorByIdCache \in [OperatorIds -> EntryOf(StatusRow)]
    /\ operatorByLabelCache \in [OperatorIds -> EntryOf(StatusRow)]
    /\ call \in [Calls -> Call]
    /\ lastEntitled \in [BotIds -> [Addresses -> Int]]

Init ==
    /\ FactsInit
    /\ now = 0
    /\ botCache = [b \in BotIds |-> None]
    /\ operatorByIdCache = [o \in OperatorIds |-> None]
    /\ operatorByLabelCache = [o \in OperatorIds |-> None]
    /\ call = [c \in Calls |-> NoCall]
    /\ lastEntitled = [b \in BotIds |-> [k \in Addresses |-> Never]]

--------------------------------------------------------------------------------
(* The caches. *)

\* An entry is served while expiresAt is in the future.  The code leaves it in its
\* map after that and never looks at it; here it goes when its time is up.
Fresh(entry) == entry # None

\* Mutant: an entry is served until another read replaces it.
NeverExpired(cache) == [id \in DOMAIN cache |-> cache[id]]

Unexpired(cache) ==
    [id \in DOMAIN cache |->
        IF cache[id] # None /\ cache[id].expiresAt > now' THEN cache[id] ELSE None]

Entry(row) == [value |-> row, expiresAt |-> now + CacheTtl]

Stored(cache, id, row) ==
    IF CacheTtl = 0 THEN cache ELSE [cache EXCEPT ![id] = Entry(row)]

--------------------------------------------------------------------------------
(* The calls. *)

OperatorAsked(c) ==
    IF call[c].request.op = "init" THEN call[c].request.operator ELSE call[c].bot.operatorId

\* The call of c goes on at pc; what it has of its own stays.
At(c, pc, bot) ==
    [pc |-> pc, request |-> call[c].request, startedAt |-> call[c].startedAt,
     bot |-> bot, answer |-> None, readAt |-> 0]

\* Mutant: a retired bot is as good as an active one.
SignerRecorded(row, request) ==
    row.status # "missing" /\ row.botKey = request.key

\* The key that signed, or the local key, is the bot's.
Signer(row, request) == Active(row) /\ row.botKey = request.key

\* What verifyMessage asks of the two rows of the sender and of the message.
SendersMessage(row, operator, request) ==
    Active(operator) /\ Signer(row, request) /\ row.operatorId = request.operator

TakeBot(c, row) ==
    LET request == call[c].request
    IN  IF request.op = "init"
        THEN IF Signer(row, request) /\ row.operatorId = request.operator
             THEN At(c, "accepted", None) ELSE NoCall
        ELSE IF Active(row) THEN At(c, "operator", row) ELSE NoCall

TakeOperator(c, row) ==
    LET request == call[c].request
    IN  IF request.op = "init"
        THEN IF Active(row) THEN At(c, "bot", None) ELSE NoCall
        ELSE IF SendersMessage(call[c].bot, row, request)
             THEN At(c, "accepted", None) ELSE NoCall

Put(c, value) == call' = [call EXCEPT ![c] = value]

Begin(c, request) ==
    /\ call[c].pc \in {"idle", "accepted"}
    /\ Put(c, [pc |-> IF request.op = "init" THEN "operator" ELSE "bot",
               request |-> request, startedAt |-> now,
               bot |-> None, answer |-> None, readAt |-> 0])
    /\ UNCHANGED <<factsVars, now, caches, lastEntitled>>

\* getBotByLabel.
GetBotFromCache(c) ==
    LET entry == botCache[call[c].request.bot]
    IN  /\ call[c].pc = "bot"
        /\ Fresh(entry)
        /\ Put(c, TakeBot(c, entry.value))
        /\ UNCHANGED <<factsVars, now, caches, lastEntitled>>

AskBot(c) ==
    /\ call[c].pc = "bot"
    /\ ~Fresh(botCache[call[c].request.bot])
    /\ Put(c, At(c, "botAsked", None))
    /\ UNCHANGED <<factsVars, now, caches, lastEntitled>>

BotArrives(c) ==
    LET row == call[c].answer
    IN  /\ call[c].pc = "botAnswered"
        /\ botCache' = Stored(botCache, call[c].request.bot, row)
        /\ Put(c, TakeBot(c, row))
        /\ UNCHANGED <<factsVars, now, operatorByIdCache, operatorByLabelCache, lastEntitled>>

\* getOperatorByLabel, which init calls, looks in a cache of its own first, and
\* keeps what getOperatorById returns, wherever that is from, for another CacheTtl.
GetOperatorByLabelFromCache(c) ==
    LET entry == operatorByLabelCache[OperatorAsked(c)]
    IN  /\ call[c].pc = "operator"
        /\ call[c].request.op = "init"
        /\ Fresh(entry)
        /\ Put(c, TakeOperator(c, entry.value))
        /\ UNCHANGED <<factsVars, now, caches, lastEntitled>>

MustAskById(c) ==
    call[c].request.op = "init" => ~Fresh(operatorByLabelCache[OperatorAsked(c)])

StoredByLabel(c, row) ==
    IF call[c].request.op = "init"
    THEN Stored(operatorByLabelCache, OperatorAsked(c), row)
    ELSE operatorByLabelCache

GetOperatorByIdFromCache(c) ==
    LET entry == operatorByIdCache[OperatorAsked(c)]
    IN  /\ call[c].pc = "operator"
        /\ MustAskById(c)
        /\ Fresh(entry)
        /\ operatorByLabelCache' = StoredByLabel(c, entry.value)
        /\ Put(c, TakeOperator(c, entry.value))
        /\ UNCHANGED <<factsVars, now, botCache, operatorByIdCache, lastEntitled>>

AskOperator(c) ==
    /\ call[c].pc = "operator"
    /\ MustAskById(c)
    /\ ~Fresh(operatorByIdCache[OperatorAsked(c)])
    /\ Put(c, At(c, "operatorAsked", call[c].bot))
    /\ UNCHANGED <<factsVars, now, caches, lastEntitled>>

OperatorArrives(c) ==
    LET row == call[c].answer
    IN  /\ call[c].pc = "operatorAnswered"
        /\ operatorByIdCache' = Stored(operatorByIdCache, OperatorAsked(c), row)
        /\ operatorByLabelCache' = StoredByLabel(c, row)
        /\ Put(c, TakeOperator(c, row))
        /\ UNCHANGED <<factsVars, now, botCache, lastEntitled>>

\* The read throws, and with it the call.
ReadFails(c) ==
    /\ call[c].pc \in Asked \cup Answered
    /\ Put(c, NoCall)
    /\ UNCHANGED <<factsVars, now, caches, lastEntitled>>

ClearCache ==
    /\ botCache' = [b \in BotIds |-> None]
    /\ operatorByIdCache' = [o \in OperatorIds |-> None]
    /\ operatorByLabelCache' = [o \in OperatorIds |-> None]
    /\ UNCHANGED <<factsVars, now, call, lastEntitled>>

--------------------------------------------------------------------------------
(* The node, the clock and the chain. *)

AnswerWith(c, pc, row) ==
    Put(c, [pc |-> pc, request |-> call[c].request, startedAt |-> call[c].startedAt,
            bot |-> call[c].bot, answer |-> row, readAt |-> now])

NodeReads(c) ==
    /\ \/ call[c].pc = "botAsked"
            /\ AnswerWith(c, "botAnswered", bots[call[c].request.bot])
       \/ call[c].pc = "operatorAsked"
            /\ AnswerWith(c, "operatorAnswered", [status |-> operators[OperatorAsked(c)].status])
    /\ UNCHANGED <<factsVars, now, caches, lastEntitled>>

\* The answer is lost and the read is sent again.
ReadAgain(c) ==
    /\ \/ call[c].pc = "botAnswered" /\ Put(c, At(c, "botAsked", call[c].bot))
       \/ call[c].pc = "operatorAnswered" /\ Put(c, At(c, "operatorAsked", call[c].bot))
    /\ UNCHANGED <<factsVars, now, caches, lastEntitled>>

Entitled(b, k) == Bound(b, k) /\ Active(operators[bots[b].operatorId])

Observe ==
    lastEntitled' = [b \in BotIds |-> [k \in Addresses |->
                        IF Entitled(b, k)' THEN now' ELSE lastEntitled[b][k]]]

\* An answer is not waited for longer than the timeout.
Tick ==
    /\ now < MaxTime
    /\ \A c \in Calls : call[c].pc \in Answered => now < call[c].readAt + RpcTimeout
    /\ now' = now + 1
    /\ botCache' = Unexpired(botCache)
    /\ operatorByIdCache' = Unexpired(operatorByIdCache)
    /\ operatorByLabelCache' = Unexpired(operatorByLabelCache)
    /\ UNCHANGED <<factsVars, call>>
    /\ Observe

Transact ==
    /\ FactsNext
    /\ UNCHANGED <<now, caches, call>>
    /\ Observe

Next ==
    \/ \E c \in Calls : \E request \in Requests[c] : Begin(c, request)
    \/ \E c \in Calls :
         \/ GetBotFromCache(c) \/ AskBot(c) \/ BotArrives(c)
         \/ GetOperatorByLabelFromCache(c) \/ GetOperatorByIdFromCache(c)
         \/ AskOperator(c) \/ OperatorArrives(c)
         \/ ReadFails(c) \/ NodeReads(c) \/ ReadAgain(c)
    \/ ClearCache
    \/ Tick
    \/ Transact

Spec == Init /\ [][Next]_vars

--------------------------------------------------------------------------------
(* Properties. *)

Accepted(c, op) == call[c].pc = "accepted" /\ call[c].request.op = op

\* A message is verified only if there was one instant, at most CacheTtl and one
\* timeout before the call, at which its key was the key of an active bot whose
\* operator was active, and the operator it claims is that one.  The two rows
\* verifyMessage decides on may come from two caches and be of different ages
\* (registry-client.ts:26: "revoked peers may still verify for up to TTL").
VerifiedWereEntitled ==
    \A c \in Calls : Accepted(c, "verify") =>
        LET request == call[c].request
        IN  /\ lastEntitled[request.bot][request.key] + CacheTtl + RpcTimeout
                  >= call[c].startedAt
            /\ bots[request.bot].operatorId = request.operator

\* init succeeds only for an identity that was entitled at one instant.  That instant
\* may be twice CacheTtl ago: the cache by label keeps for CacheTtl what the cache by
\* id has kept for nearly CacheTtl.
ReadyWereEntitled ==
    \A c \in Calls : Accepted(c, "init") =>
        LET request == call[c].request
        IN  /\ lastEntitled[request.bot][request.key] + 2 * CacheTtl + RpcTimeout
                  >= call[c].startedAt
            /\ bots[request.bot].operatorId = request.operator

================================================================================
