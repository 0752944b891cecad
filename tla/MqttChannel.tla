------------------------------ MODULE MqttChannel ------------------------------
(***************************************************************************)
(* One account of the OpenClaw channel plugin and the MQTT client under    *)
(* it: startAccount and stopAccount (channel.ts), start, stop and the poll *)
(* loop (MqttChannelProvider.ts), connect, poll and disconnect             *)
(* (mqtt-node-client).                                                     *)
(*                                                                         *)
(* JavaScript runs one piece of code at a time: an action is the code from *)
(* one await to the next.  Each startAccount makes a provider of its own;  *)
(* its start, its poll loop and a stopAccount are three threads over the   *)
(* provider's fields.                                                      *)
(*                                                                         *)
(* The broker, mqtt.js and the gateway are external.  Messages are counted *)
(* and not told apart; which of them verify changes no state here.         *)
(***************************************************************************)
EXTENDS Naturals

CONSTANTS
    MaxProviders,   \* bound: how often the gateway starts the account
    MaxMessages,    \* bound: messages that arrive
    MaxFaults       \* bound: failures of network, broker, registry and hub

ASSUME BoundsAssumption == MaxProviders \in Nat /\ MaxMessages \in Nat /\ MaxFaults \in Nat

Providers == 1 .. MaxProviders
None == 0

VARIABLES
    account,         \* providers.get(accountId), or None
    task,            \* task[p]: how far startAccount is
    aborted,         \* aborted[p]: ctx.abortSignal of the start that made p
    stopping,        \* the provider a stopAccount is about, or None
    stopAt,          \* what that stopAccount waits for
    found,           \* history: what stopAccount found of p: still in start, or its loop
    pollingActive,
    loop,            \* loop[p]: how far pollMessages is; none is no pollingPromise
    dial,            \* dial[p]: how far connectAndSubscribe is
    batch,           \* batch[p]: messages of the last poll still to be handled
    client,          \* client[p]: MqttClient.client is not null
    link,            \* link[p]: the last connection mqtt.connect made
    received,        \* received[p]: the buffer MqttClient.received
    listeners,       \* listeners[p]: message listeners that polls registered on the connection
    owed,            \* history: what arrived on the connection and no poll returned
    arrivals,
    faults

threadVars == <<account, task, aborted, stopping, stopAt, found, pollingActive, loop, dial>>
clientVars == <<client, link, received, listeners, owed>>
vars == <<threadVars, batch, clientVars, arrivals, faults>>

Starting == {"init", "dial"}
Settled  == {"none", "returned", "failed"}   \* no startAccount is pending

ThreadTypes ==
    /\ account \in Providers \cup {None}
    /\ task \in [Providers -> Starting \cup {"running", "end"} \cup Settled]
    /\ aborted \in [Providers -> BOOLEAN]
    /\ stopping \in Providers \cup {None}
    /\ stopAt \in {"none", "loop", "end"}
    /\ found \in [Providers -> {"nothing", "start", "loop"}]
    /\ pollingActive \in [Providers -> BOOLEAN]
    /\ loop \in [Providers ->
            {"none", "top", "dial", "poll", "handle", "end", "wait", "done", "lost"}]
    /\ dial \in [Providers -> {"idle", "password", "connack", "suback"}]

ClientTypes ==
    /\ client \in [Providers -> BOOLEAN]
    /\ link \in [Providers -> {"none", "connecting", "open", "ending", "closed"}]

BufferTypes ==
    /\ batch \in [Providers -> Nat]
    /\ received \in [Providers -> Nat]
    /\ listeners \in [Providers -> {0, 1}]
    /\ owed \in [Providers -> Nat]
    /\ arrivals \in Nat /\ faults \in Nat

ChannelTypeOK == ThreadTypes /\ ClientTypes /\ BufferTypes

Init ==
    /\ account = None /\ stopping = None /\ stopAt = "none"
    /\ task = [p \in Providers |-> "none"]
    /\ aborted = [p \in Providers |-> FALSE]
    /\ found = [p \in Providers |-> "nothing"]
    /\ pollingActive = [p \in Providers |-> FALSE]
    /\ loop = [p \in Providers |-> "none"]
    /\ dial = [p \in Providers |-> "idle"]
    /\ batch = [p \in Providers |-> 0]
    /\ client = [p \in Providers |-> FALSE]
    /\ link = [p \in Providers |-> "none"]
    /\ received = [p \in Providers |-> 0]
    /\ listeners = [p \in Providers |-> 0]
    /\ owed = [p \in Providers |-> 0]
    /\ arrivals = 0 /\ faults = 0

Fault == faults < MaxFaults /\ faults' = faults + 1

\* MqttClient.connected.  A connection that is being ended still counts.
Connected(p) == client[p] /\ link[p] \in {"open", "ending"}

----------------------------------------------------------------------------
(* MqttClient.disconnect: nothing without a client, else end() and, when    *)
(* that calls back, no client and an empty buffer.                          *)

\* end() is called on p's connection if ends holds.
End(p, ends) ==
    link' = [link EXCEPT ![p] = IF ends /\ @ = "open" THEN "ending" ELSE @]

\* end() calls back.  A connection made in the meantime stays open.
Ended(p) ==
    /\ client'   = [client EXCEPT ![p] = FALSE]
    /\ received' = [received EXCEPT ![p] = 0]
    /\ owed'     = [owed EXCEPT ![p] = 0]
    /\ link'     = [link EXCEPT ![p] = IF @ = "ending" THEN "closed" ELSE @]
    /\ UNCHANGED listeners

----------------------------------------------------------------------------
(* What follows when connectAndSubscribe or poll throws: the catch of       *)
(* startAccount, which is stop() with no loop to wait for and the delete,   *)
(* or the catch of the poll loop.                                           *)

InStart(p) == loop[p] = "none"

\* The catch block at hand calls disconnect().
Disconnects(p) == InStart(p) \/ pollingActive[p]

\* Mutant: the catch does not delete the provider from the map.
StayRegistered == UNCHANGED account

\* providers.delete(accountId)
Unregister == account' = None

\* stop(): pollingActive = false.
\* Mutant: the flag stays.
KeepActive(p) == UNCHANGED pollingActive

Deactivate(p) == pollingActive' = [pollingActive EXCEPT ![p] = FALSE]

\* Mutant: the catch of startAccount deletes the provider without stopping it.
StartFailsUnstopped(p, hasClient) ==
    /\ task' = [task EXCEPT ![p] = "failed"]
    /\ Unregister
    /\ UNCHANGED <<pollingActive, loop>>

StartFails(p, hasClient) ==
    /\ Deactivate(p)
    /\ task' = [task EXCEPT ![p] = IF hasClient THEN "end" ELSE "failed"]
    /\ IF hasClient THEN UNCHANGED account ELSE Unregister
    /\ UNCHANGED loop

\* Mutant: the catch of the loop waits and tries again without disconnecting.
LoopFailsConnected(p, hasClient) ==
    /\ loop' = [loop EXCEPT ![p] = IF pollingActive[p] THEN "wait" ELSE "top"]
    /\ UNCHANGED <<pollingActive, task, account>>

LoopFails(p, hasClient) ==
    /\ loop' = [loop EXCEPT ![p] = IF ~pollingActive[p] THEN "top"
                                   ELSE IF hasClient THEN "end" ELSE "wait"]
    /\ UNCHANGED <<pollingActive, task, account>>

Throw(p, hasClient) ==
    /\ dial' = [dial EXCEPT ![p] = "idle"]
    /\ IF InStart(p) THEN StartFails(p, hasClient) ELSE LoopFails(p, hasClient)

----------------------------------------------------------------------------
(* startAccount.                                                            *)

\* The gateway starts the account when no earlier start is pending and no stop
\* is under way.  While the map holds a provider startAccount does nothing.
StartAccount(p) ==
    /\ task[p] = "none"
    /\ \A q \in Providers : q < p => task[q] \in {"returned", "failed"}
    /\ stopping = None
    /\ account = None
    /\ account' = p
    /\ task' = [task EXCEPT ![p] = "init"]
    /\ UNCHANGED <<aborted, stopping, stopAt, found, pollingActive, loop, dial,
                   batch, clientVars, arrivals, faults>>

\* identityClient.init() resolves; connectAndSubscribe asks for a password.
Initialized(p) ==
    /\ task[p] = "init"
    /\ task' = [task EXCEPT ![p] = "dial"]
    /\ dial' = [dial EXCEPT ![p] = "password"]
    /\ UNCHANGED <<account, aborted, stopping, stopAt, found, pollingActive, loop,
                   batch, clientVars, arrivals, faults>>

InitFails(p) ==
    /\ task[p] = "init"
    /\ Fault
    /\ Throw(p, FALSE)
    /\ UNCHANGED <<aborted, stopping, stopAt, found, batch, clientVars, arrivals>>

\* runUntilAborted returns; it does not stop the provider.
TaskReturns(p) ==
    /\ task[p] = "running"
    /\ aborted[p]
    /\ task' = [task EXCEPT ![p] = "returned"]
    /\ UNCHANGED <<account, aborted, stopping, stopAt, found, pollingActive, loop, dial,
                   batch, clientVars, arrivals, faults>>

\* The stop() in the catch of startAccount is through.
FailedStartEnded(p) ==
    /\ task[p] = "end"
    /\ Ended(p)
    /\ task' = [task EXCEPT ![p] = "failed"]
    /\ Unregister
    /\ UNCHANGED <<aborted, stopping, stopAt, found, pollingActive, loop, dial,
                   batch, arrivals, faults>>

----------------------------------------------------------------------------
(* MqttClient.poll and the poll loop.                                       *)

\* Mutant: the buffer is returned and kept.
TakeBufferCopy(p) ==
    /\ batch' = [batch EXCEPT ![p] = received[p]]
    /\ owed'  = [owed EXCEPT ![p] = @ - received[p]]
    /\ loop'  = [loop EXCEPT ![p] = "handle"]
    /\ UNCHANGED <<received, client, link, listeners>>

\* poll() with the buffer as the batch; its caller is the loop.
TakeBuffer(p) ==
    /\ batch'    = [batch EXCEPT ![p] = received[p]]
    /\ owed'     = [owed EXCEPT ![p] = @ - received[p]]
    /\ received' = [received EXCEPT ![p] = 0]
    /\ loop'     = [loop EXCEPT ![p] = "handle"]
    /\ UNCHANGED <<client, link, listeners>>

\* poll() with an empty buffer: it registers a listener and waits.
AwaitMessage(p) ==
    /\ listeners' = [listeners EXCEPT ![p] = @ + 1]
    /\ loop'      = [loop EXCEPT ![p] = "poll"]
    /\ UNCHANGED <<batch, client, link, received, owed>>

Poll(p) == IF received[p] > 0 THEN TakeBuffer(p) ELSE AwaitMessage(p)

\* Mutant: the listener of a poll that is over stays registered.
LeaveListener(p) == UNCHANGED listeners

\* finish() of poll removes its listener from the client, if there is one ...
RemoveListener(p) == listeners' = [listeners EXCEPT ![p] = @ - 1]

\* ... and throws otherwise: in a timer or a listener, where no one waits for it.
CanFinish(p) == client[p]

PollTimesOut(p) ==
    /\ loop[p] = "poll"
    /\ IF CanFinish(p)
       THEN RemoveListener(p) /\ loop' = [loop EXCEPT ![p] = "top"]
       ELSE UNCHANGED listeners /\ loop' = [loop EXCEPT ![p] = "lost"]
    /\ UNCHANGED <<account, task, aborted, stopping, stopAt, found, pollingActive, dial,
                   batch, client, link, received, owed, arrivals, faults>>

\* The listener that runs first takes the whole buffer, n messages; that of the poll
\* that waits, unless an earlier poll left its own behind.
ListenerRuns(p, n) ==
    LET mine == IF listeners[p] = 1 THEN n ELSE 0
    IN  IF loop[p] = "poll" /\ CanFinish(p)
        THEN /\ RemoveListener(p)
             /\ batch' = [batch EXCEPT ![p] = mine]
             /\ owed' = [owed EXCEPT ![p] = @ + 1 - mine]
             /\ loop' = [loop EXCEPT ![p] = IF mine > 0 THEN "handle" ELSE "top"]
        ELSE /\ owed' = [owed EXCEPT ![p] = @ + 1]
             /\ loop' = [loop EXCEPT ![p] = IF @ = "poll" THEN "lost" ELSE @]
             /\ UNCHANGED <<listeners, batch>>

MessageArrives(p) ==
    /\ link[p] \in {"open", "ending"}
    /\ arrivals < MaxMessages
    /\ arrivals' = arrivals + 1
    /\ IF listeners[p] = 0
       THEN /\ received' = [received EXCEPT ![p] = @ + 1]
            /\ owed' = [owed EXCEPT ![p] = @ + 1]
            /\ UNCHANGED <<listeners, batch, loop>>
       ELSE /\ received' = [received EXCEPT ![p] = 0]
            /\ ListenerRuns(p, received[p] + 1)
    /\ UNCHANGED <<account, task, aborted, stopping, stopAt, found, pollingActive, dial,
                   client, link, faults>>

\* One message is dropped, or verified and handed to the handler, and that returns.
MessageHandled(p) ==
    /\ loop[p] = "handle"
    /\ batch' = [batch EXCEPT ![p] = @ - 1]
    /\ loop' = [loop EXCEPT ![p] = IF batch[p] = 1 THEN "top" ELSE @]
    /\ UNCHANGED <<account, task, aborted, stopping, stopAt, found, pollingActive, dial,
                   clientVars, arrivals, faults>>

LoopStops(p) ==
    /\ loop[p] = "top"
    /\ ~pollingActive[p]
    /\ loop' = [loop EXCEPT ![p] = "done"]
    /\ UNCHANGED <<account, task, aborted, stopping, stopAt, found, pollingActive, dial,
                   batch, clientVars, arrivals, faults>>

LoopPolls(p) ==
    /\ loop[p] = "top"
    /\ pollingActive[p]
    /\ Connected(p)
    /\ Poll(p)
    /\ UNCHANGED <<account, task, aborted, stopping, stopAt, found, pollingActive, dial,
                   arrivals, faults>>

\* connect() asks for a password.
LoopReconnects(p) ==
    /\ loop[p] = "top"
    /\ pollingActive[p]
    /\ ~client[p]
    /\ loop' = [loop EXCEPT ![p] = "dial"]
    /\ dial' = [dial EXCEPT ![p] = "password"]
    /\ UNCHANGED <<account, task, aborted, stopping, stopAt, found, pollingActive,
                   batch, clientVars, arrivals, faults>>

\* connect() throws: the client of the connection that dropped is still there.
LoopFindsOldClient(p) ==
    /\ loop[p] = "top"
    /\ pollingActive[p]
    /\ client[p] /\ ~Connected(p)
    /\ Throw(p, TRUE)
    /\ UNCHANGED <<aborted, stopping, stopAt, found, batch, clientVars, arrivals, faults>>

LoopDisconnected(p) ==
    /\ loop[p] = "end"
    /\ Ended(p)
    /\ loop' = [loop EXCEPT ![p] = "wait"]
    /\ UNCHANGED <<account, task, aborted, stopping, stopAt, found, pollingActive, dial,
                   batch, arrivals, faults>>

\* Five seconds are over.
LoopRetries(p) ==
    /\ loop[p] = "wait"
    /\ loop' = [loop EXCEPT ![p] = "top"]
    /\ UNCHANGED <<account, task, aborted, stopping, stopAt, found, pollingActive, dial,
                   batch, clientVars, arrivals, faults>>

----------------------------------------------------------------------------
(* connectAndSubscribe, in start and in the loop.                           *)

PasswordIssued(p) ==
    /\ dial[p] = "password"
    /\ dial' = [dial EXCEPT ![p] = "connack"]
    /\ link' = [link EXCEPT ![p] = "connecting"]
    /\ listeners' = [listeners EXCEPT ![p] = 0]
    /\ UNCHANGED <<account, task, aborted, stopping, stopAt, found, pollingActive, loop,
                   batch, client, received, owed, arrivals, faults>>

PasswordFails(p) ==
    /\ dial[p] = "password"
    /\ Fault
    /\ Throw(p, FALSE)
    /\ UNCHANGED <<aborted, stopping, stopAt, found, batch, clientVars, arrivals>>

\* The broker closes any other connection with the client id of the bot.
OnConnect(p) ==
    /\ dial[p] = "connack"
    /\ link[p] = "connecting"
    /\ dial' = [dial EXCEPT ![p] = "suback"]
    /\ client' = [client EXCEPT ![p] = TRUE]
    /\ received' = [received EXCEPT ![p] = 0]
    /\ owed' = [owed EXCEPT ![p] = 0]
    /\ link' = [q \in Providers |->
                    IF q = p THEN "open" ELSE IF link[q] = "open" THEN "closed" ELSE link[q]]
    /\ UNCHANGED <<account, task, aborted, stopping, stopAt, found, pollingActive, loop,
                   batch, listeners, arrivals, faults>>

\* The error event comes once, before the connection is there or after.
OnError(p) ==
    /\ link[p] \in {"connecting", "open", "ending"}
    /\ Fault
    /\ client' = [client EXCEPT ![p] = FALSE]
    /\ link' = [link EXCEPT ![p] = "closed"]
    /\ IF link[p] = "connecting"
       THEN Throw(p, FALSE)
       ELSE UNCHANGED <<account, task, pollingActive, loop, dial>>
    /\ UNCHANGED <<aborted, stopping, stopAt, found, batch, received, listeners, owed, arrivals>>

\* The connection closes with no error event; mqtt.js does not connect again, and
\* a connect() that waits for it is not told.
OnClose(p) ==
    /\ link[p] \in {"connecting", "open", "ending"}
    /\ Fault
    /\ link' = [link EXCEPT ![p] = "closed"]
    /\ UNCHANGED <<threadVars, batch, client, received, listeners, owed, arrivals>>

\* start() starts the loop, whatever has happened to pollingActive; the loop polls.
Subscribed(p) ==
    /\ dial[p] = "suback"
    /\ Connected(p)
    /\ dial' = [dial EXCEPT ![p] = "idle"]
    /\ IF InStart(p)
       THEN /\ pollingActive' = [pollingActive EXCEPT ![p] = TRUE]
            /\ loop' = [loop EXCEPT ![p] = "top"]
            /\ task' = [task EXCEPT ![p] = "running"]
            /\ UNCHANGED <<batch, clientVars>>
       ELSE /\ Poll(p)
            /\ UNCHANGED <<pollingActive, task>>
    /\ UNCHANGED <<account, aborted, stopping, stopAt, found, arrivals, faults>>

\* Refused, or the connection is gone.
SubscribeFails(p) ==
    /\ dial[p] = "suback"
    /\ IF Connected(p) THEN Fault ELSE UNCHANGED faults
    /\ Throw(p, client[p])
    /\ End(p, Disconnects(p))
    /\ UNCHANGED <<aborted, stopping, stopAt, found, batch,
                   client, received, listeners, owed, arrivals>>

----------------------------------------------------------------------------
(* stopAccount, after the gateway has aborted.                              *)

Stopped ==
    /\ stopping' = None
    /\ stopAt' = "none"
    /\ Unregister

\* stop() has waited for the loop, if there was one, and disconnects.
Disconnect(p) ==
    IF client[p]
    THEN /\ stopping' = p /\ stopAt' = "end"
         /\ End(p, TRUE)
         /\ UNCHANGED account
    ELSE Stopped /\ UNCHANGED link

\* Mutant: stop() disconnects under a running loop.
AwaitsNothing(p) == FALSE

\* There is a pollingPromise.
AwaitsLoop(p) == ~InStart(p)

StopAccount(p) ==
    /\ stopping = None
    /\ account = p
    /\ aborted' = [aborted EXCEPT ![p] = TRUE]
    /\ Deactivate(p)
    /\ IF AwaitsLoop(p)
       THEN /\ stopping' = p /\ stopAt' = "loop"
            /\ UNCHANGED <<account, link>>
       ELSE Disconnect(p)
    /\ found' = [found EXCEPT ![p] = IF InStart(p) THEN "start" ELSE "loop"]
    /\ UNCHANGED <<task, loop, dial, batch, client, received, listeners, owed, arrivals, faults>>

StopSeesLoopDone(p) ==
    /\ stopping = p /\ stopAt = "loop"
    /\ loop[p] = "done"
    /\ Disconnect(p)
    /\ UNCHANGED <<task, aborted, found, pollingActive, loop, dial, batch,
                   client, received, listeners, owed, arrivals, faults>>

StopEnded(p) ==
    /\ stopping = p /\ stopAt = "end"
    /\ Ended(p)
    /\ Stopped
    /\ UNCHANGED <<task, aborted, found, pollingActive, loop, dial, batch, arrivals, faults>>

----------------------------------------------------------------------------
\* What goes on by itself, thread by thread: promises settle, timers fire, and
\* registry, hub and broker answer.
TaskStep(p) == Initialized(p) \/ TaskReturns(p) \/ FailedStartEnded(p)

LoopStep(p) ==
    \/ PollTimesOut(p) \/ MessageHandled(p)
    \/ LoopStops(p) \/ LoopPolls(p) \/ LoopReconnects(p) \/ LoopFindsOldClient(p)
    \/ LoopDisconnected(p) \/ LoopRetries(p)

DialStep(p) == PasswordIssued(p) \/ OnConnect(p) \/ Subscribed(p) \/ SubscribeFails(p)

StopStep(p) == StopSeesLoopDone(p) \/ StopEnded(p)

Next ==
    \E p \in Providers :
        \/ TaskStep(p) \/ LoopStep(p) \/ DialStep(p) \/ StopStep(p)
        \/ StartAccount(p) \/ StopAccount(p)
        \/ InitFails(p) \/ PasswordFails(p) \/ OnError(p) \/ OnClose(p)
        \/ MessageArrives(p)

Spec == Init /\ [][Next]_vars

\* No thread of the event loop waits forever for its turn.
FairSpec ==
    /\ Spec
    /\ \A p \in Providers :
          /\ WF_vars(TaskStep(p)) /\ WF_vars(LoopStep(p))
          /\ WF_vars(DialStep(p)) /\ WF_vars(StopStep(p))

----------------------------------------------------------------------------
\* p has neither a poll loop nor a connection.
Quiet(p) == loop[p] \in {"none", "done"} /\ ~client[p] /\ link[p] \in {"none", "closed"}

\* A stopAccount that found a poll loop (which may have been polling, handling,
\* reconnecting or waiting) leaves nothing of its provider behind.
StoppedIsQuiet == \A p \in Providers : found[p] = "loop" /\ stopping # p => Quiet(p)

\* A startAccount that failed, at whatever point, and even with a stopAccount next to
\* it, leaves no connection behind (README of the plugin, 0.0.4).
FailedStartIsQuiet == \A p \in Providers : task[p] = "failed" => Quiet(p)

\* The map of providers and the starts go together: a provider the gateway has not
\* aborted is registered while it runs, and a registered one is not left from a start
\* that is over, which would keep the account from starting again.
MapFollowsStarts ==
    \A p \in Providers :
        /\ task[p] = "running" /\ ~aborted[p] => account = p
        /\ account = p /\ stopping # p => task[p] \in Starting \cup {"running", "end"}

\* While a connection is up, every message that arrived on it has been returned by a
\* poll or will be: no listener of a poll that is over swallows it, none comes twice.
NothingSwallowed == \A p \in Providers : client[p] => owed[p] = received[p]

\* poll() threw where no one waits for it, or connect() waits for a connection that
\* closed without an error event.
Stuck(p) ==
    \/ loop[p] = "lost"
    \/ dial[p] = "connack" /\ link[p] = "closed"

\* The poller of a stopped provider, which connects with the same client id.
Orphan(p) == found[p] = "start" /\ stopping # p /\ loop[p] \notin {"none", "done"}

\* A running account whose connection is gone is subscribed again, in the end.
Resubscribes ==
    \A p \in Providers :
        task[p] = "running" /\ ~aborted[p]
            ~> \/ Connected(p) /\ dial[p] = "idle"
               \/ aborted[p]
               \/ Stuck(p) \/ \E q \in Providers : Orphan(q)

\* stopAccount returns.
StopReturns == \A p \in Providers : stopping = p ~> stopping # p \/ Stuck(p)

----------------------------------------------------------------------------
(* What the documents say, and the code does not do.                        *)

\* MqttChannelProvider.ts:156: stopAccount is the single teardown point.  With its
\* start settled too, a stopped provider has neither loop nor connection.
StopTearsDown ==
    \A p \in Providers : found[p] # "nothing" /\ stopping # p /\ task[p] \in Settled => Quiet(p)

================================================================================
