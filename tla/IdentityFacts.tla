----------------------------- MODULE IdentityFacts -----------------------------
(***************************************************************************)
(* The Facts layer as its readers see it: what one pinned ClankerIdentity  *)
(* registry says of operators and bots, and how that may change.  Readers  *)
(* (the hub's /auth, /pair and /acl, a bot's verifyMessage) only ever call *)
(* the operators(id) and bots(id) getters, so senders, fees, predecessors, *)
(* proposals and the key index are not here.  ClankerIdentity implements   *)
(* this specification (PinnedRegistry); the modules of the hub run beside  *)
(* it.                                                                     *)
(*                                                                         *)
(* A status stands for the two timestamps of a record: "missing" is        *)
(* registeredAt = 0, "revoked" is revokedAt # 0.  The code only ever       *)
(* compares them with zero.                                                *)
(***************************************************************************)
CONSTANTS
    OperatorIds,   \* operator labels, hashed or not: only equality matters
    BotIds,        \* bot labels
    Addresses,     \* non-zero Ethereum addresses, of owners and of bot keys
    None           \* address(0), bytes32(0), null

VARIABLES
    operators,     \* operators[o]: the row operators(o) returns
    bots           \* bots[b]: the row bots(b) returns

factsVars == <<operators, bots>>

Statuses == {"missing", "active", "revoked"}

OperatorRow == [status : Statuses, owner : Addresses \cup {None}]
BotRow      == [status : Statuses, operatorId : OperatorIds \cup {None},
                botKey : Addresses \cup {None}]

NoOperator == [status |-> "missing", owner |-> None]
NoBot      == [status |-> "missing", operatorId |-> None, botKey |-> None]

Active(row) == row.status = "active"

\* k signs for b as far as the chain is concerned.
Bound(b, k) == Active(bots[b]) /\ bots[b].botKey = k

FactsTypeOK ==
    /\ operators \in [OperatorIds -> OperatorRow]
    /\ bots \in [BotIds -> BotRow]

FactsInit ==
    /\ operators = [o \in OperatorIds |-> NoOperator]
    /\ bots = [b \in BotIds |-> NoBot]

--------------------------------------------------------------------------------

FactRegisterOperator(o, a) ==
    /\ operators[o].status = "missing"
    /\ operators' = [operators EXCEPT ![o] = [status |-> "active", owner |-> a]]
    /\ UNCHANGED bots

FactTransferOperator(o, a) ==
    /\ Active(operators[o])
    /\ operators' = [operators EXCEPT ![o].owner = a]
    /\ UNCHANGED bots

FactRevokeOperator(o) ==
    /\ Active(operators[o])
    /\ operators' = [operators EXCEPT ![o].status = "revoked"]
    /\ UNCHANGED bots

FactRegisterBot(b, o, k) ==
    /\ bots[b].status = "missing"
    /\ Active(operators[o])
    /\ \A c \in BotIds : ~Bound(c, k)
    /\ bots' = [bots EXCEPT ![b] =
                   [status |-> "active", operatorId |-> o, botKey |-> k]]
    /\ UNCHANGED operators

FactRotateBotKey(b, k) ==
    /\ Active(bots[b])
    /\ Active(operators[bots[b].operatorId])
    /\ \A c \in BotIds \ {b} : ~Bound(c, k)
    /\ bots' = [bots EXCEPT ![b].botKey = k]
    /\ UNCHANGED operators

FactRevokeBot(b) ==
    /\ Active(bots[b])
    /\ Active(operators[bots[b].operatorId])
    /\ bots' = [bots EXCEPT ![b].status = "revoked"]
    /\ UNCHANGED operators

FactsNext ==
    \/ \E o \in OperatorIds, a \in Addresses :
          FactRegisterOperator(o, a) \/ FactTransferOperator(o, a)
    \/ \E o \in OperatorIds : FactRevokeOperator(o)
    \/ \E b \in BotIds, o \in OperatorIds, k \in Addresses : FactRegisterBot(b, o, k)
    \/ \E b \in BotIds, k \in Addresses : FactRotateBotKey(b, k)
    \/ \E b \in BotIds : FactRevokeBot(b)

FactsSpec == FactsInit /\ [][FactsNext]_factsVars

================================================================================
