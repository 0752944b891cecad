------------------------------ MODULE TransportAcl ------------------------------
(***************************************************************************)
(* evaluateAcl (hub/mqtt-auth-service/src/acl.ts): whether a connected bot *)
(* may use a topic, asked by the broker on each subscription and message.  *)
(*                                                                         *)
(* A check writes nothing, so checks do not disturb each other and one at  *)
(* a time stands for all.  It reads the registry up to three times, at     *)
(* three instants, and the allow-lists at a fourth: between these the      *)
(* registry changes (IdentityFacts) and so do the lists (MqttAuthService,  *)
(* which HubProofs shows to change them as ListChanges and HubRestarts do).*)
(***************************************************************************)
EXTENDS IdentityFacts, Naturals

CONSTANTS
    AllowBotIds,   \* allowBotIds in the pairing file: no handler writes it
    Accs           \* what the broker asks for: 1 read, 2 write, 3 readwrite,
                   \* 4 subscribe; 0 is every other number

ASSUME AllowBotIdsAssumption == AllowBotIds \in [OperatorIds -> SUBSET BotIds]

ASSUME AccsAssumption == Accs \subseteq 0..4

ASSUME AclAbsentAssumption == None \notin OperatorIds /\ None \notin BotIds

VARIABLES
    lists,      \* allowOperatorIds, by operator, its own id left out
    check,      \* where the check stands, or its verdict
    asked,      \* username, topic and acc
    own,        \* the operator in the sender's row, as read
    other,      \* the operator in the peer's row, as read
    seen,       \* history: who was alive on the chain at some instant of the check
    due         \* history: the rules allowed it at every instant of the check

aclVars   == <<lists, check, asked, own, other, seen, due>>
checkVars == <<factsVars, aclVars>>

\* A topic by what the rules tell apart, with the bots it names.  "tree" is any
\* topic under bots/{b}/ but its status and inbox, the filter bots/{b}/# included;
\* a DM segment names two bots, or one bot twice; "other" matches no rule.
Topics ==
    [kind : {"status", "inbox", "tree"}, ends : {{b} : b \in BotIds}]
    \cup [kind : {"dm"}, ends : {{a, b} : a, b \in BotIds}]
    \cup [kind : {"announce", "other"}, ends : {{}}]

AclRequest == [username : BotIds, topic : Topics, acc : Accs]
Reading   == {"readBot", "readOperator", "readPeer"}
Checking  == Reading \cup {"decide"}
Decisions == {"granted", "denied", "unavailable"}

AclTypeOK ==
    /\ FactsTypeOK
    /\ lists \in [OperatorIds -> SUBSET OperatorIds]
    /\ check \in {"idle"} \cup Checking \cup Decisions
    /\ asked \in AclRequest \cup {None}
    /\ own \in OperatorIds \cup {None}
    /\ other \in OperatorIds \cup {None}
    /\ seen \subseteq {"sender", "peer"}
    /\ due \in BOOLEAN

AclInit ==
    /\ FactsInit
    /\ lists = [o \in OperatorIds |-> {}]
    /\ check = "idle"
    /\ asked = None
    /\ own = None
    /\ other = None
    /\ seen = {}
    /\ due = FALSE

--------------------------------------------------------------------------------
(* The rules, in the code's terms. *)

IsSubscribe(acc) == acc \in {1, 3, 4}
IsPublish(acc)   == acc \in {2, 3}

\* The other bot of a DM, the owner of an inbox; a bot may be its own peer.
PeerOf(req) ==
    IF req.topic.ends = {req.username} THEN req.username
    ELSE CHOOSE b \in req.topic.ends : b # req.username

\* The rules that need no other row.  A publication to announce meets none.
GrantedAlone(req) ==
    \/ IsPublish(req.acc) /\ req.topic.kind \in {"status", "inbox"}
         /\ req.topic.ends = {req.username}
    \/ IsSubscribe(req.acc) /\ req.topic.kind \in {"status", "inbox", "tree"}
         /\ req.topic.ends = {req.username}
    \/ IsSubscribe(req.acc) /\ req.topic.kind = "announce"

\* Mutant: a DM topic may only be published to.
NeedsPeerToPublish(req) ==
    \/ IsPublish(req.acc) /\ req.topic.kind = "inbox"
    \/ IsPublish(req.acc) /\ req.topic.kind = "dm" /\ req.username \in req.topic.ends

NeedsPeer(req) ==
    \/ IsPublish(req.acc) /\ req.topic.kind = "inbox"
    \/ (IsSubscribe(req.acc) \/ IsPublish(req.acc)) /\ req.topic.kind = "dm"
         /\ req.username \in req.topic.ends

AllowsOperator(owner, from) == owner = from \/ from \in lists[owner]
AllowsBot(owner, b)         == b \in AllowBotIds[owner]

\* Mutant: the sender's list is asked instead of the peer's.
AllowedBySender(req) ==
    \/ other = own
    \/ req.topic.kind = "inbox" /\
         (AllowsOperator(own, other) \/ AllowsBot(other, req.username))
    \/ req.topic.kind = "dm" /\ AllowsOperator(own, other) /\ AllowsOperator(other, own)

\* What an active peer's operator, and for a DM both operators, have to allow.
AllowedByLists(req) ==
    \/ other = own
    \/ req.topic.kind = "inbox" /\
         (AllowsOperator(other, own) \/ AllowsBot(other, req.username))
    \/ req.topic.kind = "dm" /\ AllowsOperator(own, other) /\ AllowsOperator(other, own)

--------------------------------------------------------------------------------
(* The rules, by right.  A right is what the broker is asked for: to read or *)
(* to write.                                                                 *)

OperatorOf(b) == bots[b].operatorId

Agree(o, p) == o = p \/ (o \in lists[p] /\ p \in lists[o])

\* The bots whose traffic b may read or write, with the lists as they are now.
Readable(b, topic) ==
    \/ topic.kind \in {"status", "inbox", "tree"} /\ topic.ends = {b}
    \/ topic.kind = "announce"
    \/ topic.kind = "dm" /\ b \in topic.ends
         /\ \A c \in topic.ends : Agree(OperatorOf(b), OperatorOf(c))

Writable(b, topic) ==
    \/ topic.kind \in {"status", "inbox"} /\ topic.ends = {b}
    \/ topic.kind = "inbox" /\ \A c \in topic.ends :
          \/ OperatorOf(b) \in lists[OperatorOf(c)] \cup {OperatorOf(c)}
          \/ b \in AllowBotIds[OperatorOf(c)]
    \/ topic.kind = "dm" /\ b \in topic.ends
         /\ \A c \in topic.ends : Agree(OperatorOf(b), OperatorOf(c))

\* For the rights the broker asks one at a time.
PolicyAllows(req) ==
    \/ req.acc \in {1, 4} /\ Readable(req.username, req.topic)
    \/ req.acc = 2 /\ Writable(req.username, req.topic)

SenderLive(req) == Active(bots[req.username]) /\ Active(operators[OperatorOf(req.username)])
PeersLive(req)  == \A b \in req.topic.ends :
                        b # req.username \/ req.topic.ends = {b} => Active(bots[b])

Sees(req) == {w \in {"sender", "peer"} :
                 (w = "sender" /\ SenderLive(req)) \/ (w = "peer" /\ PeersLive(req))}
Due(req)  == SenderLive(req) /\ PeersLive(req) /\ PolicyAllows(req)

\* The histories, after each step of the chain or of the lists.
AclObserve ==
    /\ seen' = IF check \in Checking THEN seen \cup Sees(asked)' ELSE seen
    /\ due' = (check \in Checking /\ due /\ Due(asked)')

--------------------------------------------------------------------------------
(* The check. *)

AclArrives(b, topic, acc) ==
    /\ check = "idle"
    /\ check' = "readBot"
    /\ LET req == [username |-> b, topic |-> topic, acc |-> acc]
       IN  asked' = req /\ seen' = Sees(req) /\ due' = Due(req)
    /\ UNCHANGED <<lists, own, other>>

\* The verdict; the handler's variables are gone.
Answer(verdict) ==
    /\ check' = verdict
    /\ own' = None /\ other' = None
    /\ UNCHANGED <<lists, asked, seen, due>>

AclProceed(place, o, p) ==
    /\ check' = place
    /\ own' = o /\ other' = p
    /\ UNCHANGED <<lists, asked, seen, due>>

AclReadsBot ==
    /\ check = "readBot"
    /\ IF Active(bots[asked.username])
       THEN AclProceed("readOperator", OperatorOf(asked.username), None)
       ELSE Answer("denied")

\* The rules, once the operator is known to be active.
Evaluate ==
    IF GrantedAlone(asked) THEN Answer("granted")
    ELSE IF NeedsPeer(asked) THEN AclProceed("readPeer", own, None)
    ELSE Answer("denied")

\* Mutant: the operator's status is not looked at.
AclReadsAnyOperator == check = "readOperator" /\ Evaluate

AclReadsOperator ==
    /\ check = "readOperator"
    /\ IF Active(operators[own]) THEN Evaluate ELSE Answer("denied")

AclReadsPeer ==
    /\ check = "readPeer"
    /\ IF Active(bots[PeerOf(asked)])
       THEN AclProceed("decide", own, OperatorOf(PeerOf(asked)))
       ELSE Answer("denied")

\* The handler goes on with the answer and reads the lists as they are then.
AclDecides ==
    /\ check = "decide"
    /\ Answer(IF AllowedByLists(asked)
              THEN "granted" ELSE "denied")

AclReadFails == check \in Reading /\ Answer("unavailable")

\* The verdict has gone to the broker.
AclDone ==
    /\ check \in Decisions
    /\ check' = "idle"
    /\ asked' = None /\ seen' = {} /\ due' = FALSE
    /\ UNCHANGED <<lists, own, other>>

\* /pair adds an operator to a list or removes one, which may have been there or
\* not.  An operator's own id on its list makes no difference: allowsOperator
\* answers before it looks, so it is left out.
ListChanges ==
    /\ \/ \E o \in OperatorIds : \E p \in OperatorIds \ {o} :
             lists' \in {[lists EXCEPT ![o] = @ \cup {p}], [lists EXCEPT ![o] = @ \ {p}]}
       \/ UNCHANGED lists
    /\ UNCHANGED <<check, asked, own, other>>
    /\ UNCHANGED factsVars
    /\ AclObserve

\* The process dies and comes back: the check gets no answer, and the lists are
\* those of the file, which misses the changes that could not be saved.
HubRestarts ==
    /\ lists' \in {new \in [OperatorIds -> SUBSET OperatorIds] :
                     \A o \in OperatorIds : o \notin new[o]}
    /\ check' = "idle"
    /\ asked' = None /\ own' = None /\ other' = None
    /\ seen' = {} /\ due' = FALSE
    /\ UNCHANGED factsVars

\* A transaction on the pinned registry.
AclTransact == FactsNext /\ UNCHANGED <<lists, check, asked, own, other>> /\ AclObserve

Check ==
    \/ \E b \in BotIds, topic \in Topics, acc \in Accs : AclArrives(b, topic, acc)
    \/ AclReadsBot
    \/ AclReadsOperator
    \/ AclReadsPeer
    \/ AclDecides
    \/ AclReadFails
    \/ AclDone

AclNext == (Check /\ UNCHANGED factsVars) \/ ListChanges \/ HubRestarts \/ AclTransact

AclSpec == AclInit /\ [][AclNext]_checkVars

--------------------------------------------------------------------------------
(* Correctness. *)

\* A granted bot had at one single instant of the check an active row and an
\* active operator, although the two are read at different instants; a granted
\* bot whose topic names another bot saw that one active at some instant too.
GrantedWereLive ==
    check = "granted" =>
        /\ "sender" \in seen
        /\ NeedsPeer(asked) /\ ~GrantedAlone(asked) => "peer" \in seen

\* A right is only granted while the lists give it: at the moment of the verdict,
\* for the operators the two bots really have on the chain, whatever happened to
\* the lists and to the registry since the rows were read.
GrantsFollowLists ==
    [][check' = "granted" /\ check # "granted" /\ asked.acc # 3 => PolicyAllows(asked)]_checkVars

\* A request that the registry and the lists allowed from its arrival on is not
\* denied: no rule shadows another, and no row that was read goes stale enough.
DueIsNotDenied == check = "denied" => ~due

================================================================================
