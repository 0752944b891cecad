------------------------------- MODULE HubService -------------------------------
(***************************************************************************)
(* hub/mqtt-auth-service as the one process it is: /nonce, /pair-nonce,    *)
(* /auth and /pair (MqttAuthService) and the broker's checks on /acl       *)
(* (TransportAcl).  They share the registry, which both read, and          *)
(* the PairingStore: /pair writes the lists that a check decides by, and a *)
(* restart gives both what the file holds.                                 *)
(*                                                                         *)
(* The two modules describe the other's part of the process as changes     *)
(* that may happen at any time.  HubProofs shows that the steps taken here *)
(* are steps they allow, so that what holds of each alone holds of both    *)
(* together, and with it what relates an answer of /pair to a later check. *)
(***************************************************************************)
EXTENDS MqttAuthService, TransportAcl

serviceVars == <<factsVars, hubVars, aclVars>>

\* The store as a check reads it: an operator's own id on its list makes no
\* difference.
ListsOf(store) == [o \in OperatorIds |-> store[o] \ {o}]

ServiceInit == Init /\ AclInit

\* The check in flight, while the other handlers take a step.
Beside ==
    /\ lists' = ListsOf(allow')
    /\ UNCHANGED <<check, asked, own, other>>
    /\ AclObserve

Handle ==
    \/ \E subject \in Subjects, n \in Nonces : IssueNonce(subject, n)
    \/ \E s \in Slots : Serve(s)
    \/ Reap
    \/ Tick

ServiceRestarts == Restart /\ HubRestarts /\ lists' = ListsOf(allow')

ServiceNext ==
    \/ UNCHANGED factsVars /\ Handle /\ Beside
    \/ UNCHANGED <<factsVars, hubVars>> /\ Check
    \/ ServiceRestarts
    \/ Transact /\ Beside

ServiceSpec == ServiceInit /\ [][ServiceNext]_serviceVars

--------------------------------------------------------------------------------
(* Correctness. *)

\* The operator of the sender, and of the bot that its topic reaches.
AskingOperator  == OperatorOf(asked.username)
ReachedOperator == OperatorOf(PeerOf(asked))

\* Once /pair has told the owner of an operator that another operator is off its
\* list, no bot of that one is granted an inbox or a conversation of a bot of
\* the owner's, until a later request for the same allowance changes that: also
\* not by a check that was in flight when the answer went out, and not after a
\* restart.  (An inbox stays open to a bot that the pairing file lists by name.)
GrantGivenBack ==
    /\ check # "granted" /\ check' = "granted"
    /\ NeedsPeer(asked) /\ ~GrantedAlone(asked)
    /\ settled[ReachedOperator][AskingOperator] = "out"

RemovalsTakeEffect ==
    [][GrantGivenBack =>
          \/ AskingOperator = ReachedOperator
          \/ asked.topic.kind = "inbox" /\ AllowsBot(ReachedOperator, asked.username)]_serviceVars

================================================================================
