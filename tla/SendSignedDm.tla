----------------------------- MODULE SendSignedDm -----------------------------
(***************************************************************************)
(* The mqtt_send tool: sendSignedDm (mqtt-tools-plugin), the chain of      *)
(* sends of a bot, the cached IdentityClient and the ephemeral connection  *)
(* of each send.  An action is the code from one await to the next.        *)
(*                                                                         *)
(* Keys are numbered in the order of their rotations.  The bot's key on    *)
(* chain and the key file are changed by its operator, in either order.    *)
(* Broker, hub, registry and mqtt.js are external.                         *)
(***************************************************************************)
EXTENDS Naturals, Sequences

CONSTANTS
    MaxSends,    \* bound: calls of the tool, numbered in call order
    Bots,
    BotOf,       \* the bot whose account a call is made for
    MaxKey,      \* bound: the last key a bot rotates to
    MaxFaults    \* bound: failures of network, broker, registry and hub

ASSUME SendAssumption ==
    MaxSends \in Nat /\ BotOf \in [1 .. MaxSends -> Bots] /\ MaxKey \in Nat \ {0} /\ MaxFaults \in Nat

Sends == 1 .. MaxSends
Keys == 1 .. MaxKey
Unread == 0

VARIABLES
    at,          \* at[s]: the await the call is in
    result,
    chain,       \* chain[b]: sendChains, the calls not settled in call order
    aborted,     \* aborted[s]: context.signal; early is before the publish
    cached,      \* cached[b]: identityCache has an entry
    row,         \* row[b]: the bot's key in that entry's registry cache, or Unread
    onchain,     \* onchain[b]: the bot's registered key
    file,        \* file[b]: the key in its key file
    pass,        \* pass[s]: the key that signed the CONNECT password
    link,        \* link[s]: the ephemeral connection
    taken,       \* taken[s]: the broker has the message
    dropped,     \* history: the connection of s was lost after its CONNACK
    settled,     \* history: the last rotation was complete when s ran
    stale,       \* history: calls with settled[s] that failed for a wrong key
    faults

callVars == <<at, result, chain, pass, link, settled, stale>>
botVars  == <<cached, row>>
keyVars  == <<onchain, file>>
vars == <<callVars, botVars, keyVars, aborted, taken, dropped, faults>>

Idle == {"new", "queued", "done"}
Live == {"opening", "open"}

SendTypeOK ==
    /\ at \in [Sends -> Idle \cup {"init", "initkey", "ready", "signed", "password",
                                   "connack", "open", "puback", "closing", "hung", "lost"}]
    /\ result \in [Sends -> {"none", "ok", "error"}]
    /\ chain \in [Bots -> Seq(Sends)]
    /\ aborted \in [Sends -> {"no", "early", "late"}]
    /\ cached \in [Bots -> BOOLEAN] /\ row \in [Bots -> Keys \cup {Unread}]
    /\ onchain \in [Bots -> Keys] /\ file \in [Bots -> Keys]
    /\ pass \in [Sends -> Keys \cup {Unread}]
    /\ link \in [Sends -> Live \cup {"none", "closed"}]
    /\ taken \in [Sends -> BOOLEAN] /\ dropped \in [Sends -> BOOLEAN]
    /\ settled \in [Sends -> BOOLEAN] /\ stale \in [Bots -> Nat] /\ faults \in Nat
    /\ \A b \in Bots : ~cached[b] => row[b] = Unread

Init ==
    /\ at = [s \in Sends |-> "new"] /\ result = [s \in Sends |-> "none"]
    /\ chain = [b \in Bots |-> <<>>]
    /\ aborted = [s \in Sends |-> "no"]
    /\ cached = [b \in Bots |-> FALSE] /\ row = [b \in Bots |-> Unread]
    /\ onchain = [b \in Bots |-> 1] /\ file = [b \in Bots |-> 1]
    /\ pass = [s \in Sends |-> Unread] /\ link = [s \in Sends |-> "none"]
    /\ taken = [s \in Sends |-> FALSE] /\ dropped = [s \in Sends |-> FALSE]
    /\ settled = [s \in Sends |-> FALSE] /\ stale = [b \in Bots |-> 0]
    /\ faults = 0

Fault == faults < MaxFaults /\ faults' = faults + 1
NoFault == UNCHANGED faults

Goto(s, where) == at' = [at EXCEPT ![s] = where] /\ UNCHANGED <<result, chain>>

\* Mutant: the chain waits for the previous call to succeed.
SettleStopsChain(s, r) ==
    /\ at' = [at EXCEPT ![s] = "done"]
    /\ result' = [result EXCEPT ![s] = r]
    /\ chain' = [chain EXCEPT ![BotOf[s]] = IF r = "ok" THEN Tail(@) ELSE @]

\* The promise of the call settles and with it the head of its bot's chain.
Settle(s, r) ==
    /\ at' = [at EXCEPT ![s] = "done"]
    /\ result' = [result EXCEPT ![s] = r]
    /\ chain' = [chain EXCEPT ![BotOf[s]] = Tail(@)]

Invalidate(b) ==
    /\ cached' = [cached EXCEPT ![b] = FALSE]
    /\ row' = [row EXCEPT ![b] = Unread]

\* The call throws because the key it used is not the one on record.
WrongKey(s) ==
    /\ Settle(s, "error")
    /\ stale' = [stale EXCEPT ![BotOf[s]] = IF settled[s] THEN @ + 1 ELSE @]

Aborted(s) == aborted[s] # "no"

----------------------------------------------------------------------------
\* execute checks its arguments and signal; sendSignedDm joins the chain.
Call(s) ==
    /\ at[s] = "new" /\ \A t \in 1 .. (s - 1) : at[t] # "new"
    /\ \/ /\ at' = [at EXCEPT ![s] = "queued"]
          /\ chain' = [chain EXCEPT ![BotOf[s]] = Append(@, s)]
          /\ UNCHANGED result
       \/ /\ at' = [at EXCEPT ![s] = "done"]
          /\ result' = [result EXCEPT ![s] = "error"]
          /\ UNCHANGED chain
    /\ UNCHANGED <<botVars, keyVars, aborted, pass, link, settled, stale, taken, dropped, faults>>

\* Mutant: the call does not wait for the chain.
TurnAtOnce(s) == TRUE

\* The calls before s have settled.
Turn(s) == Head(chain[BotOf[s]]) = s

\* The chain reaches s: signal, configuration and fields, then the identity.
Start(s) ==
    LET b == BotOf[s] IN
    /\ at[s] = "queued" /\ Turn(s)
    /\ settled' = [settled EXCEPT ![s] = file[b] = MaxKey /\ onchain[b] = MaxKey]
    /\ \/ Settle(s, "error") /\ UNCHANGED botVars
       \/ /\ ~Aborted(s)
          /\ Goto(s, IF cached[b] THEN "ready" ELSE "init")
          /\ cached' = [cached EXCEPT ![b] = TRUE] /\ UNCHANGED row
    /\ UNCHANGED <<keyVars, aborted, pass, link, stale, taken, dropped, faults>>

\* IdentityClient.init: the rows of operator and bot, then the key file.
InitReads(s) ==
    LET b == BotOf[s] IN
    /\ at[s] = "init"
    /\ \/ /\ Goto(s, "initkey") /\ NoFault
          /\ row' = [row EXCEPT ![b] = onchain[b]] /\ UNCHANGED cached
       \/ Fault /\ Settle(s, "error") /\ Invalidate(b)
    /\ UNCHANGED <<keyVars, aborted, pass, link, settled, stale, taken, dropped>>

InitChecks(s) ==
    LET b == BotOf[s] IN
    /\ at[s] = "initkey"
    /\ \/ /\ file[b] = row[b]
          /\ Goto(s, "ready") /\ UNCHANGED <<botVars, stale>>
       \/ /\ file[b] # row[b]
          /\ WrongKey(s) /\ Invalidate(b)
    /\ UNCHANGED <<keyVars, aborted, pass, link, settled, taken, dropped, faults>>

\* The envelope is signed with the key the file holds now.
Signs(s) ==
    /\ at[s] = "ready"
    /\ \/ Aborted(s) /\ Settle(s, "error") /\ NoFault /\ UNCHANGED botVars
       \/ ~Aborted(s) /\ Goto(s, "signed") /\ NoFault /\ UNCHANGED botVars
       \/ ~Aborted(s) /\ Fault /\ Settle(s, "error") /\ Invalidate(BotOf[s])
    /\ UNCHANGED <<keyVars, aborted, pass, link, settled, stale, taken, dropped>>

\* connect asks for the password, which begins with the bot's row.
AsksPassword(s) ==
    LET b == BotOf[s] IN
    /\ at[s] = "signed"
    /\ \/ Aborted(s) /\ Settle(s, "error") /\ NoFault /\ UNCHANGED botVars
       \/ /\ ~Aborted(s) /\ Goto(s, "password") /\ NoFault
          /\ row' = [row EXCEPT ![b] = IF @ = Unread THEN onchain[b] ELSE @]
          /\ UNCHANGED cached
       \/ ~Aborted(s) /\ Fault /\ Settle(s, "error") /\ Invalidate(b)
    /\ UNCHANGED <<keyVars, aborted, pass, link, settled, stale, taken, dropped>>

\* Mutant: getPassword rethrows and leaves the entry.
PasswordFailsQuietly(s) == UNCHANGED botVars

\* getPassword failed: the entry goes, connect throws.
PasswordFails(s) == Invalidate(BotOf[s])

\* The key file must match the row; then the nonce is signed and CONNECT sent.
Dials(s) ==
    LET b == BotOf[s] IN
    /\ at[s] = "password"
    /\ \/ /\ file[b] = row[b]
          /\ Goto(s, "connack") /\ NoFault
          /\ pass' = [pass EXCEPT ![s] = file[b]]
          /\ link' = [link EXCEPT ![s] = "opening"]
          /\ UNCHANGED <<botVars, stale>>
       \/ /\ file[b] # row[b]
          /\ WrongKey(s) /\ PasswordFails(s) /\ NoFault
          /\ UNCHANGED <<pass, link>>
       \/ /\ Fault /\ Settle(s, "error") /\ PasswordFails(s)
          /\ UNCHANGED <<pass, link, stale>>
    /\ UNCHANGED <<keyVars, aborted, settled, taken, dropped>>

\* The hub judges the password by the chain as it is now.
Connack(s) ==
    /\ at[s] = "connack"
    /\ \/ /\ pass[s] = onchain[BotOf[s]]
          /\ Goto(s, "open")
          /\ link' = [link EXCEPT ![s] = "open"]
          /\ UNCHANGED <<botVars, stale>>
       \/ /\ pass[s] # onchain[BotOf[s]]
          /\ WrongKey(s) /\ Invalidate(BotOf[s])
          /\ link' = [link EXCEPT ![s] = "closed"]
    /\ UNCHANGED <<keyVars, aborted, pass, settled, taken, dropped, faults>>

\* The connection fails.  An error that is not about credentials keeps the
\* entry; one that closes without an error event leaves connect pending.
ConnectFails(s) ==
    /\ at[s] = "connack" /\ Fault
    /\ link' = [link EXCEPT ![s] = "closed"]
    /\ \/ Settle(s, "error") /\ (UNCHANGED botVars \/ Invalidate(BotOf[s]))
       \/ Goto(s, "hung") /\ UNCHANGED botVars
    /\ UNCHANGED <<keyVars, aborted, pass, settled, stale, taken, dropped>>

\* An await that settles with an error leads to the finally block.
Publishes(s) ==
    /\ at[s] = "open"
    /\ \/ (Aborted(s) \/ link[s] # "open") /\ Goto(s, "closing")
       \/ ~Aborted(s) /\ link[s] = "open" /\ Goto(s, "puback")
    /\ UNCHANGED <<botVars, keyVars, aborted, pass, link, settled, stale, taken, dropped, faults>>

BrokerTakes(s) ==
    /\ at[s] = "puback" /\ link[s] = "open" /\ ~taken[s]
    /\ taken' = [taken EXCEPT ![s] = TRUE]
    /\ UNCHANGED <<callVars, botVars, keyVars, aborted, dropped, faults>>

LinkDrops(s) ==
    /\ at[s] \in {"open", "puback"} /\ link[s] = "open" /\ Fault
    /\ link' = [link EXCEPT ![s] = "closed"]
    /\ dropped' = [dropped EXCEPT ![s] = TRUE]
    /\ UNCHANGED <<at, result, chain, pass, settled, stale, botVars, keyVars, aborted, taken>>

\* Mutant: publish is called without waiting for the acknowledgement.
Sent(s) == at[s] = "puback" /\ link[s] = "open"

\* publishAck: the callback of mqtt.js, which may never come on a lost connection.
Acked(s) == at[s] = "puback" /\ link[s] = "open" /\ taken[s]

PublishReturns(s) ==
    /\ \/ Acked(s) /\ at' = [at EXCEPT ![s] = "closing"]
          /\ result' = [result EXCEPT ![s] = "ok"] /\ UNCHANGED chain
       \/ /\ at[s] = "puback" /\ link[s] = "closed"
          /\ (Goto(s, "closing") \/ Goto(s, "lost"))
    /\ UNCHANGED <<botVars, keyVars, aborted, pass, link, settled, stale, taken, dropped, faults>>

\* disconnect calls back: the call returns, or throws what it threw.
Closes(s) ==
    /\ at[s] = "closing"
    /\ Settle(s, IF result[s] = "ok" THEN "ok" ELSE "error")
    /\ link' = [link EXCEPT ![s] = "closed"]
    /\ UNCHANGED <<botVars, keyVars, aborted, pass, settled, stale, taken, dropped, faults>>

----------------------------------------------------------------------------
\* The agent gives the call up.
Abort(s) ==
    /\ ~Aborted(s) /\ at[s] # "done"
    /\ aborted' = [aborted EXCEPT ![s] =
                      IF at[s] \in {"puback", "lost", "closing"} THEN "late" ELSE "early"]
    /\ UNCHANGED <<callVars, botVars, keyVars, taken, dropped, faults>>

\* The operator rotates the bot key; the key file is replaced before or after.
Rotate(b) ==
    /\ \/ onchain[b] < MaxKey /\ onchain' = [onchain EXCEPT ![b] = @ + 1] /\ UNCHANGED file
       \/ file[b] < MaxKey /\ file' = [file EXCEPT ![b] = @ + 1] /\ UNCHANGED onchain
    /\ UNCHANGED <<callVars, botVars, aborted, taken, dropped, faults>>

\* The registry cache of the entry outlives its TTL.
RowExpires(b) ==
    /\ row[b] # Unread
    /\ \A s \in Sends : BotOf[s] = b => at[s] \notin {"initkey", "password"}
    /\ row' = [row EXCEPT ![b] = Unread]
    /\ UNCHANGED <<callVars, keyVars, cached, aborted, taken, dropped, faults>>

Progress(s) ==
    \/ Start(s) \/ InitReads(s) \/ InitChecks(s) \/ Signs(s) \/ AsksPassword(s) \/ Dials(s)
    \/ Connack(s) \/ Publishes(s) \/ BrokerTakes(s) \/ PublishReturns(s) \/ Closes(s)

Next ==
    \/ \E s \in Sends : Call(s) \/ Progress(s) \/ ConnectFails(s) \/ LinkDrops(s) \/ Abort(s)
    \/ \E b \in Bots : Rotate(b) \/ RowExpires(b)

Spec == Init /\ [][Next]_vars

\* The event loop runs what is ready; registry, hub and broker answer or fail.
FairSpec == Spec /\ \A s \in Sends : WF_vars(Progress(s))

----------------------------------------------------------------------------
\* The calls of one bot run one at a time in call order: while one of them has
\* left the queue every earlier one has settled and has no connection.
OneAtATime ==
    \A s, t \in Sends :
        (BotOf[s] = BotOf[t] /\ s < t /\ at[t] \notin Idle)
            => at[s] = "done" /\ link[s] \notin Live

\* What a call is told: ok only when the broker has the message, an error with
\* the message taken only when the connection was lost while it waited, and a
\* call aborted before its publish leaves no message behind.
ToldTrue ==
    \A s \in Sends :
        /\ result[s] = "ok" => taken[s]
        /\ (result[s] = "error" /\ taken[s]) => dropped[s]
        /\ aborted[s] = "early" => ~taken[s]

\* After a rotation is complete at most one call of the bot fails for the old
\* key: the failure drops the cached identity and the next call reads the chain.
OneStaleFailure == \A b \in Bots : stale[b] <= 1

\* A queued call settles, unless it or an earlier call of its bot is stuck in
\* a connection that closed without an error or an acknowledgement.
Stuck(s) == \E t \in Sends : BotOf[t] = BotOf[s] /\ at[t] \in {"hung", "lost"}
Settles == \A s \in Sends : at[s] = "queued" ~> (at[s] = "done" \/ Stuck(s))
================================================================================
