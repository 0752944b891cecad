---------------------------- MODULE ClankerIdentity ----------------------------
(***************************************************************************)
(* chain/src/ClankerIdentity.sol: the registries deployed on one chain.    *)
(*                                                                         *)
(* Each registry is an instance of the contract.  A registry may name a    *)
(* predecessor, and registering a label walks the predecessors.  All of    *)
(* them stay callable for ever, so an old registry keeps changing after a  *)
(* successor exists: that interleaving is what the walk has to survive.    *)
(*                                                                         *)
(* A transaction is atomic.  One that reverts changes nothing, so a revert *)
(* is the absence of a step: every `if (..) revert` is a guard.  Here      *)
(* `sender` is msg.sender and `value` is msg.value; block.timestamp is     *)
(* abstracted to the status it decides (see Statuses).                     *)
(***************************************************************************)
EXTENDS Naturals, FiniteSets

CONSTANTS
    Registries,     \* contract addresses
    OperatorIds,    \* keccak256 of operator labels
    BotIds,         \* keccak256 of bot labels
    Addresses,      \* non-zero addresses of owners and of bot keys
    MaxPriorHops,   \* MAX_PRIOR_HOPS, 16 in the contract
    OperatorFee,    \* operatorFee, wei
    BotFee,         \* botFee, wei
    None            \* address(0) and bytes32(0)

ASSUME NoneAssumption ==
    /\ None \notin Registries /\ None \notin OperatorIds
    /\ None \notin BotIds /\ None \notin Addresses

ASSUME NumbersAssumption ==
    MaxPriorHops \in Nat /\ OperatorFee \in Nat /\ BotFee \in Nat

VARIABLES
    deployed,               \* the registries whose constructor has run
    priorRegistry,          \* immutable priorRegistry of each
    operators,              \* operators[r][id]
    bots,                   \* bots[r][id]
    pendingOperatorOwner,   \* pendingOperatorOwner[r][id]
    botKeyToId,             \* botKeyToId[r][key]
    forwarded,              \* wei each registry has forwarded to feeRecipient
    proposedBy              \* history: who made the pending proposal

vars == <<deployed, priorRegistry, operators, bots, pendingOperatorOwner,
          botKeyToId, forwarded, proposedBy>>

--------------------------------------------------------------------------------
(* The storage structs; unset storage reads as zero. *)

Statuses == {"missing", "active", "revoked"}

Operator == [status : Statuses, owner : Addresses \cup {None}]
Bot      == [status : Statuses, operatorId : OperatorIds \cup {None},
             botKey : Addresses \cup {None}]

NoOperator == [status |-> "missing", owner |-> None]
NoBot      == [status |-> "missing", operatorId |-> None, botKey |-> None]

TypeOK ==
    /\ deployed \subseteq Registries
    /\ priorRegistry \in [Registries -> Registries \cup {None}]
    /\ operators \in [Registries -> [OperatorIds -> Operator]]
    /\ bots \in [Registries -> [BotIds -> Bot]]
    /\ pendingOperatorOwner \in [Registries -> [OperatorIds -> Addresses \cup {None}]]
    /\ botKeyToId \in [Registries -> [Addresses -> BotIds \cup {None}]]
    /\ forwarded \in [Registries -> Nat]
    /\ proposedBy \in [Registries -> [OperatorIds -> Addresses \cup {None}]]

Init ==
    /\ deployed = {}
    /\ priorRegistry = [r \in Registries |-> None]
    /\ operators = [r \in Registries |-> [id \in OperatorIds |-> NoOperator]]
    /\ bots = [r \in Registries |-> [id \in BotIds |-> NoBot]]
    /\ pendingOperatorOwner = [r \in Registries |-> [id \in OperatorIds |-> None]]
    /\ botKeyToId = [r \in Registries |-> [k \in Addresses |-> None]]
    /\ forwarded = [r \in Registries |-> 0]
    /\ proposedBy = [r \in Registries |-> [id \in OperatorIds |-> None]]

--------------------------------------------------------------------------------
(* The walk over predecessors. *)

\* The registry i hops behind r, or None past the genesis registry.
Lineage(r) ==
    LET hop[i \in 0..MaxPriorHops] ==
            IF i = 0 THEN r
            ELSE IF hop[i - 1] = None THEN None
            ELSE priorRegistry[hop[i - 1]]
    IN  hop

\* The hops at which `table` (operators or bots) has a record of id.
RecordedHops(r, table, id) ==
    {i \in 1..MaxPriorHops :
        Lineage(r)[i] # None /\ table[Lineage(r)[i]][id].status # "missing"}

Nearest(i, hops) == i \in hops /\ \A j \in hops : i <= j

\* Every call of the walk answers: a hop to an address without code reverts.
WalkReturns(r, table, id) ==
    \A i \in 1..MaxPriorHops :
        (\A j \in RecordedHops(r, table, id) : i <= j)
            => Lineage(r)[i] \in deployed \cup {None}

\* Mutant: only the immediate predecessor is asked.
EnforceImmediatePrior(r, id, sender) ==
    /\ WalkReturns(r, operators, id)
    /\ 1 \in RecordedHops(r, operators, id) =>
          LET op == operators[Lineage(r)[1]][id]
          IN  op.status = "active" /\ op.owner = sender

EnforcePriorOperator(r, id, sender) ==
    /\ WalkReturns(r, operators, id)
    /\ \A i \in 1..MaxPriorHops :
          Nearest(i, RecordedHops(r, operators, id)) =>
              LET op == operators[Lineage(r)[i]][id]
              IN  op.status = "active" /\ op.owner = sender

EnforcePriorBot(r, id, operatorId, sender) ==
    /\ WalkReturns(r, bots, id)
    /\ \A i \in 1..MaxPriorHops :
          Nearest(i, RecordedHops(r, bots, id)) =>
              LET p == Lineage(r)[i]
              IN  /\ bots[p][id].status = "active"
                  /\ bots[p][id].operatorId = operatorId
                  /\ operators[p][operatorId].status = "active"
                  /\ operators[p][operatorId].owner = sender

\* Mutants: the fee stays in the contract; the fee is paid back.
FeeKept(r, value) == forwarded' = forwarded
FeeRefunded(r, value) == forwarded' = [forwarded EXCEPT ![r] = @ - value]

\* The fee reaches feeRecipient or the whole transaction reverts.
ForwardFee(r, value) == forwarded' = [forwarded EXCEPT ![r] = @ + value]

\* Mutant: a revoked operator passes.
OwnsRecorded(r, id, sender) ==
    operators[r][id].status # "missing" /\ sender = operators[r][id].owner

\* onlyOwner of an active operator, as four of the functions spell it out.
OwnsActive(r, id, sender) ==
    /\ operators[r][id].status # "missing"
    /\ operators[r][id].status # "revoked"
    /\ sender = operators[r][id].owner

--------------------------------------------------------------------------------
(* The constructor and the external functions.  Only the two that register   *)
(* need to say r \in deployed: the others need a record, and so code.        *)

Deploy(r, prior) ==
    /\ r \notin deployed
    /\ prior # r
    /\ deployed' = deployed \cup {r}
    /\ priorRegistry' = [priorRegistry EXCEPT ![r] = prior]
    /\ UNCHANGED <<operators, bots, pendingOperatorOwner, botKeyToId,
                   forwarded, proposedBy>>

RegisterOperator(r, id, sender, value) ==
    /\ r \in deployed
    /\ value = OperatorFee
    /\ operators[r][id].status = "missing"
    /\ EnforcePriorOperator(r, id, sender)
    /\ operators' = [operators EXCEPT ![r][id] =
                        [status |-> "active", owner |-> sender]]
    /\ ForwardFee(r, value)
    /\ UNCHANGED <<deployed, priorRegistry, bots, pendingOperatorOwner,
                   botKeyToId, proposedBy>>

ProposeOperatorTransfer(r, id, sender, newOwner) ==
    /\ OwnsActive(r, id, sender)
    /\ newOwner # None
    /\ pendingOperatorOwner' = [pendingOperatorOwner EXCEPT ![r][id] = newOwner]
    /\ proposedBy' = [proposedBy EXCEPT ![r][id] = sender]
    /\ UNCHANGED <<deployed, priorRegistry, operators, bots, botKeyToId, forwarded>>

\* Mutant: any sender accepts.
AcceptByAnyone(r, id, sender) ==
    /\ pendingOperatorOwner[r][id] # None
    /\ operators' = [operators EXCEPT ![r][id].owner = sender]
    /\ pendingOperatorOwner' = [pendingOperatorOwner EXCEPT ![r][id] = None]
    /\ proposedBy' = [proposedBy EXCEPT ![r][id] = None]
    /\ UNCHANGED <<deployed, priorRegistry, bots, botKeyToId, forwarded>>

AcceptOperatorTransfer(r, id, sender) ==
    /\ pendingOperatorOwner[r][id] # None
    /\ sender = pendingOperatorOwner[r][id]
    /\ operators' = [operators EXCEPT ![r][id].owner = sender]
    /\ pendingOperatorOwner' = [pendingOperatorOwner EXCEPT ![r][id] = None]
    /\ proposedBy' = [proposedBy EXCEPT ![r][id] = None]
    /\ UNCHANGED <<deployed, priorRegistry, bots, botKeyToId, forwarded>>

\* Mutant: the proposal survives the revocation.
RevokeKeepsPending(r, id, sender) ==
    /\ OwnsActive(r, id, sender)
    /\ operators' = [operators EXCEPT ![r][id].status = "revoked"]
    /\ UNCHANGED <<deployed, priorRegistry, bots, pendingOperatorOwner, botKeyToId,
                   forwarded, proposedBy>>

RevokeOperator(r, id, sender) ==
    /\ OwnsActive(r, id, sender)
    /\ operators' = [operators EXCEPT ![r][id].status = "revoked"]
    /\ pendingOperatorOwner' = [pendingOperatorOwner EXCEPT ![r][id] = None]
    /\ proposedBy' = [proposedBy EXCEPT ![r][id] = None]
    /\ UNCHANGED <<deployed, priorRegistry, bots, botKeyToId, forwarded>>

RegisterBot(r, id, operatorId, botKey, sender, value) ==
    /\ r \in deployed
    /\ value = BotFee
    /\ botKey # None
    /\ OwnsActive(r, operatorId, sender)
    /\ bots[r][id].status = "missing"
    /\ EnforcePriorBot(r, id, operatorId, sender)
    /\ botKeyToId[r][botKey] = None
    /\ bots' = [bots EXCEPT ![r][id] =
                   [status |-> "active", operatorId |-> operatorId, botKey |-> botKey]]
    /\ botKeyToId' = [botKeyToId EXCEPT ![r][botKey] = id]
    /\ ForwardFee(r, value)
    /\ UNCHANGED <<deployed, priorRegistry, operators, pendingOperatorOwner, proposedBy>>

\* Mutant: the two writes swapped.
IndexClearedLast(index, id, oldKey, newKey) ==
    [[index EXCEPT ![newKey] = id] EXCEPT ![oldKey] = None]

\* The old index entry is cleared before the new one is written, so rotating
\* to the same key leaves it indexed.
RotatedIndex(index, id, oldKey, newKey) ==
    [[index EXCEPT ![oldKey] = None] EXCEPT ![newKey] = id]

RotateBotKey(r, id, newKey, sender) ==
    /\ newKey # None
    /\ bots[r][id].status = "active"
    /\ OwnsActive(r, bots[r][id].operatorId, sender)
    /\ botKeyToId[r][newKey] \in {None, id}
    /\ botKeyToId' = [botKeyToId EXCEPT ![r] =
                         RotatedIndex(@, id, bots[r][id].botKey, newKey)]
    /\ bots' = [bots EXCEPT ![r][id].botKey = newKey]
    /\ UNCHANGED <<deployed, priorRegistry, operators, pendingOperatorOwner,
                   forwarded, proposedBy>>

RevokeBot(r, id, sender) ==
    /\ bots[r][id].status = "active"
    /\ OwnsActive(r, bots[r][id].operatorId, sender)
    /\ botKeyToId' = [botKeyToId EXCEPT ![r][bots[r][id].botKey] = None]
    /\ bots' = [bots EXCEPT ![r][id].status = "revoked"]
    /\ UNCHANGED <<deployed, priorRegistry, operators, pendingOperatorOwner,
                   forwarded, proposedBy>>

--------------------------------------------------------------------------------

\* A caller may send any value: the last one stands for all that match no fee.
Values == {OperatorFee, BotFee, OperatorFee + BotFee + 1}

Next ==
    \/ \E r \in Registries, prior \in Registries \cup {None} : Deploy(r, prior)
    \/ \E r \in Registries, id \in OperatorIds, sender \in Addresses :
          \/ \E value \in Values : RegisterOperator(r, id, sender, value)
          \/ \E newOwner \in Addresses \cup {None} :
                ProposeOperatorTransfer(r, id, sender, newOwner)
          \/ AcceptOperatorTransfer(r, id, sender)
          \/ RevokeOperator(r, id, sender)
    \/ \E r \in Registries, id \in BotIds, sender \in Addresses :
          \/ \E operatorId \in OperatorIds, botKey \in Addresses \cup {None}, value \in Values :
                RegisterBot(r, id, operatorId, botKey, sender, value)
          \/ \E newKey \in Addresses \cup {None} : RotateBotKey(r, id, newKey, sender)
          \/ RevokeBot(r, id, sender)

Spec == Init /\ [][Next]_vars

--------------------------------------------------------------------------------
(* Correctness. *)

\* botKeyToId is the exact inverse of the keys of the active bots, in every
\* registry: no key serves two bots, no bot is missing from the index and no
\* entry outlives a rotation or a revocation.  registerBot, rotateBotKey and
\* revokeBot maintain the two mappings separately.
KeyIndexExact ==
    \A r \in Registries, k \in Addresses, b \in BotIds :
        botKeyToId[r][k] = b <=> bots[r][b].status = "active" /\ bots[r][b].botKey = k

\* A pending proposal is one the operator's present owner made, for an operator
\* that is active.  acceptOperatorTransfer checks neither: it relies on every
\* other path having cleared the slot.
PendingIsLive ==
    \A r \in Registries, id \in OperatorIds :
        pendingOperatorOwner[r][id] # None =>
            /\ operators[r][id].status = "active"
            /\ proposedBy[r][id] = operators[r][id].owner

\* The labels a registry has ever recorded.
RecordedOperators(r) == {id \in OperatorIds : operators[r][id].status # "missing"}
RecordedBots(r)      == {id \in BotIds : bots[r][id].status # "missing"}

\* feeRecipient has received exactly one fee for each label ever recorded, and
\* nothing for a rotation, a transfer or a revocation.
FeesMatchRegistrations ==
    \A r \in Registries :
        forwarded[r] = OperatorFee * Cardinality(RecordedOperators(r))
                         + BotFee * Cardinality(RecordedBots(r))

\* A tombstone never changes again: no transaction revives a revoked label, hands
\* it over or gives it a key (docs/registry-lifecycle.md, "Tombstones").
TombstonesKept ==
    \A r \in Registries :
        /\ \A id \in OperatorIds :
              operators[r][id].status = "revoked" => operators'[r][id] = operators[r][id]
        /\ \A id \in BotIds :
              bots[r][id].status = "revoked" => bots'[r][id] = bots[r][id]

TombstonesAreFinal == [][TombstonesKept]_vars

\* Revoking an operator freezes its bots: their rows stay as they were and no
\* bot joins it.  revokeOperator touches no bot, so readers check both rows.
BotsChangeUnderActiveOperator ==
    \A r \in Registries, id \in BotIds :
        bots'[r][id] # bots[r][id] =>
            operators[r][bots'[r][id].operatorId].status = "active"

RevokedOperatorFreezesBots == [][BotsChangeUnderActiveOperator]_vars

\* An owner changes only when the present owner proposed the new one and that
\* one accepted, whatever was proposed, accepted or revoked before.
OwnersConsent ==
    \A r \in Registries, id \in OperatorIds :
        operators[r][id].status # "missing"
          /\ operators'[r][id].owner # operators[r][id].owner =>
            /\ operators'[r][id].owner = pendingOperatorOwner[r][id]
            /\ proposedBy[r][id] = operators[r][id].owner

OwnerChangesByConsent == [][OwnersConsent]_vars

\* p stands behind r within the walk's reach.
Precedes(p, r) == \E i \in 1..MaxPriorHops : Lineage(r)[i] = p

\* The predecessors of r that have a record of id, and one of them that all the
\* others stand behind.
Knowing(r, table, id) ==
    {p \in Registries : Precedes(p, r) /\ table[p][id].status # "missing"}
Foremost(p, knowing) == p \in knowing /\ \A q \in knowing \ {p} : Precedes(q, p)

OperatorsNotUsurped ==
    \A r \in Registries, id \in OperatorIds :
        LET knowing == Knowing(r, operators, id)
        IN  operators[r][id].status = "missing" /\ operators'[r][id].status # "missing"
              /\ knowing # {} =>
                \E p \in Registries :
                    Foremost(p, knowing) /\ operators[p][id] = operators'[r][id]

BotsNotUsurped ==
    \A r \in Registries, id \in BotIds :
        LET knowing == Knowing(r, bots, id)
            o       == bots'[r][id].operatorId
        IN  bots[r][id].status = "missing" /\ bots'[r][id].status # "missing"
              /\ knowing # {} =>
                \E p \in Registries :
                    /\ Foremost(p, knowing)
                    /\ bots[p][id].status = "active" /\ bots[p][id].operatorId = o
                    /\ operators[p][o] = operators[r][o] /\ operators[r][o].status = "active"

\* "A successor cannot usurp labels" (the contract's notice): when a label that
\* some predecessor within reach knows is recorded in a successor, the sender
\* is the owner the label has in a predecessor where it is alive, and every
\* predecessor that knows it and is not that one stands behind it.  For a bot,
\* the same, under the same operator, owned by one address in both registries.
NoUsurpation == [][OperatorsNotUsurped /\ BotsNotUsurped]_vars

================================================================================
