--------------------------- MODULE MqttChannelProofs ---------------------------
(***************************************************************************)
(* Theorems about MqttChannel, for any number of starts, messages and      *)
(* faults.                                                                 *)
(*                                                                         *)
(* The invariant is local: what is true of one provider (At) speaks of its *)
(* own fields and of the two shared ones, account and stopping.  A step is *)
(* that of one provider, so each part of At is shown for the provider that *)
(* steps (..Own), and for the others it follows from what a step of one    *)
(* provider may do to another: close its connection, and no more.          *)
(***************************************************************************)
EXTENDS MqttChannel, TLAPS

\* startAccount has not settled.
Pending(p) == task[p] \in Starting \cup {"running", "end"}

\* Buffer and listeners agree with the loop.
BufferAt(p) ==
    /\ received[p] <= owed[p]
    /\ client[p] => owed[p] = received[p]
    /\ loop[p] = "poll" => listeners[p] = 1
    /\ loop[p] \notin {"poll", "lost"} => listeners[p] = 0
    /\ loop[p] = "lost" => ~client[p]
    /\ loop[p] = "handle" => batch[p] > 0

\* The loop exists from the moment start() is through; one of start and loop dials.
ThreadAt(p) ==
    /\ InStart(p) <=> task[p] \notin {"running", "returned"}
    /\ dial[p] # "idle" <=> task[p] = "dial" \/ loop[p] = "dial"
    /\ InStart(p) => ~pollingActive[p]

\* An open connection has its client, unless a stop raced with the start; a start or
\* loop that disconnects leaves no open connection.
LinkAt(p) ==
    /\ dial[p] \in {"password", "connack"} => ~client[p]
    /\ link[p] = "connecting" => dial[p] = "connack"
    /\ task[p] \in {"none", "init"} \/ (task[p] = "dial" /\ dial[p] = "password")
         => ~client[p] /\ link[p] = "none"
    /\ link[p] \in {"open", "ending"} /\ found[p] # "start" => client[p]
    /\ InStart(p) /\ link[p] \in {"open", "ending"} => client[p]
    /\ client[p] => link[p] \in {"open", "ending", "closed"}
    /\ task[p] = "end" \/ loop[p] = "end" => link[p] \in {"ending", "closed"}
    /\ task[p] = "failed" => Quiet(p)

\* A stopAccount that found a loop disconnects once the loop is done, and for good.
StopAt(p) ==
    /\ stopping = p =>
          aborted[p] /\ found[p] # "nothing" /\ stopAt # "none" /\ account \in {p, None}
    /\ found[p] # "nothing" => aborted[p]
    /\ aborted[p] => task[p] # "none"
    /\ aborted[p] /\ account = p => stopping = p
    /\ found[p] = "loop" => ~InStart(p) /\ ~pollingActive[p]
    /\ stopping = p /\ stopAt = "loop" => found[p] = "loop"
    /\ stopping = p /\ stopAt = "end" /\ found[p] = "loop" =>
          loop[p] = "done" /\ link[p] \in {"ending", "closed"}
    /\ stopping = p /\ stopAt = "end" /\ InStart(p) =>
          link[p] \in {"ending", "closed"} /\ dial[p] \notin {"password", "connack"}
    /\ found[p] = "loop" /\ stopping # p => Quiet(p)

\* The map holds the provider whose start is pending, until it is aborted.
MapAt(p) ==
    /\ Pending(p) /\ ~aborted[p] => account = p
    /\ account = p => task[p] # "none"
    /\ account = p /\ stopping # p => Pending(p)

At(p) == BufferAt(p) /\ ThreadAt(p) /\ LinkAt(p) /\ StopAt(p) /\ MapAt(p)

\* The gateway starts the account again when the earlier starts are settled.
OneByOne ==
    \A p, q \in Providers : q < p /\ task[p] # "none" => task[q] \in {"returned", "failed"}

\* The inductive invariant.
ChannelInv ==
    /\ ChannelTypeOK
    /\ stopping = None => stopAt = "none"
    /\ OneByOne
    /\ \A p \in Providers : At(p)

\* The steps of one provider.
Step(p) ==
    \/ TaskStep(p) \/ LoopStep(p) \/ DialStep(p) \/ StopStep(p)
    \/ StartAccount(p) \/ StopAccount(p)
    \/ InitFails(p) \/ PasswordFails(p) \/ OnError(p) \/ OnClose(p)
    \/ MessageArrives(p)

\* The number that stands for no provider is none.
LEMMA NoneIsNoProvider == None \notin Providers
BY DEF None, Providers

\* Providers are numbered in the order of their starts.
LEMMA ProvidersAreOrdered ==
  ASSUME BoundsAssumption, NEW p \in Providers, NEW q \in Providers
  PROVE  p = q \/ p < q \/ q < p
BY DEF Providers, BoundsAssumption

--------------------------------------------------------------------------------
(* Types. *)

\* The catch blocks keep the types of what they write.
LEMMA ThrowTypes ==
  ASSUME ThreadTypes, NEW p \in Providers, NEW hasClient \in BOOLEAN, Throw(p, hasClient),
         UNCHANGED <<aborted, stopping, stopAt, found>>
  PROVE  ThreadTypes'
<1>1. CASE InStart(p)
  BY <1>1 DEF ThreadTypes, Throw, StartFails, Deactivate, Unregister, None, Starting, Settled
<1>2. CASE ~InStart(p)
  BY <1>2 DEF ThreadTypes, Throw, LoopFails
<1> QED
  BY <1>1, <1>2

\* poll() takes no more than has arrived, and registers one listener.
LEMMA PollTypes ==
  ASSUME BufferTypes, NEW p \in Providers, Poll(p), listeners[p] = 0, received[p] <= owed[p],
         UNCHANGED <<arrivals, faults>>
  PROVE  BufferTypes'
<1>1. CASE received[p] > 0
  BY <1>1 DEF Poll, TakeBuffer, BufferTypes
<1>2. CASE ~(received[p] > 0)
  BY <1>2 DEF Poll, AwaitMessage, BufferTypes
<1> QED
  BY <1>1, <1>2

\* Every step keeps the types of what the threads write.
LEMMA ThreadTypesKept ==
  ASSUME ThreadTypes, ClientTypes, NEW p \in Providers, Step(p)
  PROVE  ThreadTypes'
<1> USE DEF threadVars, clientVars
<1>0. client[p] \in BOOLEAN
  BY DEF ClientTypes
<1>1. CASE Initialized(p)
  BY <1>1 DEF Initialized, ThreadTypes, Starting, Settled
<1>2. CASE TaskReturns(p)
  BY <1>2 DEF TaskReturns, ThreadTypes, Starting, Settled
<1>3. CASE FailedStartEnded(p)
  BY <1>3
     DEF FailedStartEnded, Ended, Unregister, ThreadTypes, Starting, Settled, None
<1>4. CASE PollTimesOut(p)
  BY <1>4 DEF PollTimesOut, CanFinish, RemoveListener, ThreadTypes, Starting, Settled
<1>5. CASE MessageHandled(p)
  BY <1>5 DEF MessageHandled, ThreadTypes, Starting, Settled
<1>6. CASE LoopStops(p)
  BY <1>6 DEF LoopStops, ThreadTypes, Starting, Settled
<1>7. CASE LoopPolls(p)
  <2>1. Poll(p) => loop' = [loop EXCEPT ![p] = "handle"] \/ loop' = [loop EXCEPT ![p] = "poll"]
    BY DEF Poll, TakeBuffer, AwaitMessage
  <2> QED
    BY <1>7, <2>1 DEF LoopPolls, ThreadTypes, Starting, Settled
<1>8. CASE LoopReconnects(p)
  BY <1>8 DEF LoopReconnects, ThreadTypes, Starting, Settled
<1>9. CASE LoopFindsOldClient(p)
  BY <1>9, <1>0, ThrowTypes DEF LoopFindsOldClient
<1>10. CASE LoopDisconnected(p)
  BY <1>10 DEF LoopDisconnected, Ended, ThreadTypes, Starting, Settled
<1>11. CASE LoopRetries(p)
  BY <1>11 DEF LoopRetries, ThreadTypes, Starting, Settled
<1>12. CASE PasswordIssued(p)
  BY <1>12 DEF PasswordIssued, ThreadTypes, Starting, Settled
<1>13. CASE OnConnect(p)
  BY <1>13 DEF OnConnect, ThreadTypes, Starting, Settled
<1>14. CASE Subscribed(p)
  <2>1. Poll(p) => loop' = [loop EXCEPT ![p] = "handle"] \/ loop' = [loop EXCEPT ![p] = "poll"]
    BY DEF Poll, TakeBuffer, AwaitMessage
  <2> QED
    BY <1>14, <2>1 DEF Subscribed, ThreadTypes, Starting, Settled
<1>15. CASE SubscribeFails(p)
  BY <1>15, <1>0, ThrowTypes DEF SubscribeFails
<1>16. CASE StopSeesLoopDone(p)
  BY <1>16
     DEF StopSeesLoopDone, Disconnect, Stopped, Unregister, End, ThreadTypes,
         Starting, Settled, None
<1>17. CASE StopEnded(p)
  BY <1>17
     DEF StopEnded, Ended, Stopped, Unregister, ThreadTypes, Starting, Settled, None
<1>18. CASE StartAccount(p)
  BY <1>18 DEF StartAccount, ThreadTypes, Starting, Settled
<1>19. CASE StopAccount(p)
  BY <1>19
     DEF StopAccount, Deactivate, AwaitsLoop, Disconnect, Stopped, Unregister, End,
         ThreadTypes, Starting, Settled, None
<1>20. CASE InitFails(p)
  BY <1>20, <1>0, ThrowTypes DEF InitFails
<1>21. CASE PasswordFails(p)
  BY <1>21, <1>0, ThrowTypes DEF PasswordFails
<1>22. CASE OnError(p)
  <2>1. CASE link[p] = "connecting"
    BY <1>22, <2>1, ThrowTypes DEF OnError
  <2>2. CASE link[p] # "connecting"
    BY <1>22, <2>2 DEF OnError, ThreadTypes
  <2> QED
    BY <2>1, <2>2
<1>23. CASE OnClose(p)
  BY <1>23 DEF OnClose, Fault, ThreadTypes, Starting, Settled
<1>24. CASE MessageArrives(p)
  <2>1. \/ loop' = loop
        \/ \E at \in {"handle", "top", "lost"} : loop' = [loop EXCEPT ![p] = at]
    BY <1>24 DEF MessageArrives, ListenerRuns, ThreadTypes
  <2> QED
    BY <1>24, <2>1 DEF MessageArrives, ThreadTypes
<1> QED
  BY <1>1, <1>2, <1>3, <1>4, <1>5, <1>6, <1>7, <1>8, <1>9, <1>10, <1>11, <1>12,
     <1>13, <1>14, <1>15, <1>16, <1>17, <1>18, <1>19, <1>20, <1>21, <1>22, <1>23,
     <1>24
     DEF Step, TaskStep, LoopStep, DialStep, StopStep

\* Every step keeps the types of client and connection.
LEMMA ClientTypesKept ==
  ASSUME ClientTypes, NEW p \in Providers, Step(p)
  PROVE  ClientTypes'
<1> USE DEF ClientTypes, threadVars, clientVars
<1>1. CASE Initialized(p)
  BY <1>1 DEF Initialized
<1>2. CASE TaskReturns(p)
  BY <1>2 DEF TaskReturns
<1>3. CASE FailedStartEnded(p)
  BY <1>3 DEF FailedStartEnded, Ended
<1>4. CASE PollTimesOut(p)
  BY <1>4 DEF PollTimesOut
<1>5. CASE MessageHandled(p)
  BY <1>5 DEF MessageHandled
<1>6. CASE LoopStops(p)
  BY <1>6 DEF LoopStops
<1>7. CASE LoopPolls(p)
  BY <1>7 DEF LoopPolls, Poll, TakeBuffer, AwaitMessage
<1>8. CASE LoopReconnects(p)
  BY <1>8 DEF LoopReconnects
<1>9. CASE LoopFindsOldClient(p)
  BY <1>9 DEF LoopFindsOldClient
<1>10. CASE LoopDisconnected(p)
  BY <1>10 DEF LoopDisconnected, Ended
<1>11. CASE LoopRetries(p)
  BY <1>11 DEF LoopRetries
<1>12. CASE PasswordIssued(p)
  BY <1>12 DEF PasswordIssued
<1>13. CASE OnConnect(p)
  BY <1>13 DEF OnConnect
<1>14. CASE Subscribed(p)
  BY <1>14 DEF Subscribed, Poll, TakeBuffer, AwaitMessage
<1>15. CASE SubscribeFails(p)
  BY <1>15 DEF SubscribeFails, End
<1>16. CASE StopSeesLoopDone(p)
  BY <1>16 DEF StopSeesLoopDone, Disconnect, End
<1>17. CASE StopEnded(p)
  BY <1>17 DEF StopEnded, Ended
<1>18. CASE StartAccount(p)
  BY <1>18 DEF StartAccount
<1>19. CASE StopAccount(p)
  BY <1>19 DEF StopAccount, Disconnect, End
<1>20. CASE InitFails(p)
  BY <1>20 DEF InitFails
<1>21. CASE PasswordFails(p)
  BY <1>21 DEF PasswordFails
<1>22. CASE OnError(p)
  BY <1>22 DEF OnError
<1>23. CASE OnClose(p)
  BY <1>23 DEF OnClose
<1>24. CASE MessageArrives(p)
  BY <1>24 DEF MessageArrives
<1> QED
  BY <1>1, <1>2, <1>3, <1>4, <1>5, <1>6, <1>7, <1>8, <1>9, <1>10, <1>11, <1>12,
     <1>13, <1>14, <1>15, <1>16, <1>17, <1>18, <1>19, <1>20, <1>21, <1>22, <1>23,
     <1>24
     DEF Step, TaskStep, LoopStep, DialStep, StopStep

\* Every step keeps the types of the buffers: no poll takes what has not arrived.
LEMMA BufferTypesKept ==
  ASSUME BoundsAssumption, BufferTypes, NEW p \in Providers, BufferAt(p), ThreadAt(p), Step(p)
  PROVE  BufferTypes'
<1> USE DEF threadVars, clientVars
<1>1. CASE Initialized(p)
  BY <1>1 DEF Initialized, BufferTypes
<1>2. CASE TaskReturns(p)
  BY <1>2 DEF TaskReturns, BufferTypes
<1>3. CASE FailedStartEnded(p)
  BY <1>3 DEF FailedStartEnded, Ended, BufferTypes
<1>4. CASE PollTimesOut(p)
  BY <1>4 DEF PollTimesOut, CanFinish, RemoveListener, BufferAt, BufferTypes
<1>5. CASE MessageHandled(p)
  BY <1>5 DEF MessageHandled, BufferAt, BufferTypes
<1>6. CASE LoopStops(p)
  BY <1>6 DEF LoopStops, BufferTypes
<1>7. CASE LoopPolls(p)
  BY <1>7, PollTypes DEF LoopPolls, BufferAt
<1>8. CASE LoopReconnects(p)
  BY <1>8 DEF LoopReconnects, BufferTypes
<1>9. CASE LoopFindsOldClient(p)
  BY <1>9 DEF LoopFindsOldClient, BufferTypes
<1>10. CASE LoopDisconnected(p)
  BY <1>10 DEF LoopDisconnected, Ended, BufferTypes
<1>11. CASE LoopRetries(p)
  BY <1>11 DEF LoopRetries, BufferTypes
<1>12. CASE PasswordIssued(p)
  BY <1>12 DEF PasswordIssued, BufferTypes
<1>13. CASE OnConnect(p)
  BY <1>13 DEF OnConnect, BufferTypes
<1>14. CASE Subscribed(p)
  <2>1. CASE InStart(p)
    BY <1>14, <2>1 DEF Subscribed, BufferTypes
  <2>2. CASE ~InStart(p)
    BY <1>14, <2>2, PollTypes DEF Subscribed, BufferAt, ThreadAt, InStart
  <2> QED
    BY <2>1, <2>2
<1>15. CASE SubscribeFails(p)
  BY <1>15 DEF SubscribeFails, Fault, BufferTypes, BoundsAssumption
<1>16. CASE StopSeesLoopDone(p)
  BY <1>16 DEF StopSeesLoopDone, BufferTypes
<1>17. CASE StopEnded(p)
  BY <1>17 DEF StopEnded, Ended, BufferTypes
<1>18. CASE StartAccount(p)
  BY <1>18 DEF StartAccount, BufferTypes
<1>19. CASE StopAccount(p)
  BY <1>19 DEF StopAccount, BufferTypes
<1>20. CASE InitFails(p)
  BY <1>20 DEF InitFails, Fault, BufferTypes, BoundsAssumption
<1>21. CASE PasswordFails(p)
  BY <1>21 DEF PasswordFails, Fault, BufferTypes, BoundsAssumption
<1>22. CASE OnError(p)
  BY <1>22 DEF OnError, Fault, BufferTypes, BoundsAssumption
<1>23. CASE OnClose(p)
  BY <1>23 DEF OnClose, Fault, BufferTypes, BoundsAssumption
<1>24. CASE MessageArrives(p)
  <2> USE DEF MessageArrives, ListenerRuns, CanFinish, RemoveListener, BufferAt, BufferTypes, BoundsAssumption
  <2>1. CASE listeners[p] = 0
    BY <1>24, <2>1
  <2>2. CASE listeners[p] = 1 /\ loop[p] = "poll" /\ client[p]
    BY <1>24, <2>2
  <2>3. CASE listeners[p] = 1 /\ ~(loop[p] = "poll" /\ client[p])
    BY <1>24, <2>3
  <2> QED
    BY <2>1, <2>2, <2>3
<1> QED
  BY <1>1, <1>2, <1>3, <1>4, <1>5, <1>6, <1>7, <1>8, <1>9, <1>10, <1>11, <1>12,
     <1>13, <1>14, <1>15, <1>16, <1>17, <1>18, <1>19, <1>20, <1>21, <1>22, <1>23,
     <1>24
     DEF Step, TaskStep, LoopStep, DialStep, StopStep

--------------------------------------------------------------------------------
(* What a step of p does to another provider. *)

\* No field of another provider changes; its connection may close.
LEMMA OthersUntouched ==
  ASSUME ThreadTypes, ClientTypes, BufferTypes, NEW p \in Providers, NEW q \in Providers, q # p,
         Step(p)
  PROVE  /\ task'[q] = task[q] /\ aborted'[q] = aborted[q] /\ found'[q] = found[q]
         /\ pollingActive'[q] = pollingActive[q] /\ loop'[q] = loop[q] /\ dial'[q] = dial[q]
         /\ batch'[q] = batch[q] /\ client'[q] = client[q] /\ received'[q] = received[q]
         /\ listeners'[q] = listeners[q] /\ owed'[q] = owed[q]
         /\ link'[q] # link[q] => link[q] = "open" /\ link'[q] = "closed"
<1> USE DEF threadVars, clientVars, ThreadTypes, ClientTypes, BufferTypes
<1>1. CASE Initialized(p)
  BY <1>1 DEF Initialized
<1>2. CASE TaskReturns(p)
  BY <1>2 DEF TaskReturns
<1>3. CASE FailedStartEnded(p)
  BY <1>3 DEF FailedStartEnded, Ended
<1>4. CASE PollTimesOut(p)
  BY <1>4 DEF PollTimesOut, RemoveListener
<1>5. CASE MessageHandled(p)
  BY <1>5 DEF MessageHandled
<1>6. CASE LoopStops(p)
  BY <1>6 DEF LoopStops
<1>7. CASE LoopPolls(p)
  BY <1>7 DEF LoopPolls, Poll, TakeBuffer, AwaitMessage
<1>8. CASE LoopReconnects(p)
  BY <1>8 DEF LoopReconnects
<1>9. CASE LoopFindsOldClient(p)
  BY <1>9 DEF LoopFindsOldClient, Throw, StartFails, LoopFails, Deactivate
<1>10. CASE LoopDisconnected(p)
  BY <1>10 DEF LoopDisconnected, Ended
<1>11. CASE LoopRetries(p)
  BY <1>11 DEF LoopRetries
<1>12. CASE PasswordIssued(p)
  BY <1>12 DEF PasswordIssued
<1>13. CASE OnConnect(p)
  BY <1>13 DEF OnConnect
<1>14. CASE Subscribed(p)
  BY <1>14 DEF Subscribed, Poll, TakeBuffer, AwaitMessage
<1>15. CASE SubscribeFails(p)
  BY <1>15 DEF SubscribeFails, Throw, StartFails, LoopFails, Deactivate, End
<1>16. CASE StopSeesLoopDone(p)
  BY <1>16 DEF StopSeesLoopDone, Disconnect, End
<1>17. CASE StopEnded(p)
  BY <1>17 DEF StopEnded, Ended
<1>18. CASE StartAccount(p)
  BY <1>18 DEF StartAccount
<1>19. CASE StopAccount(p)
  BY <1>19 DEF StopAccount, Deactivate, Disconnect, End
<1>20. CASE InitFails(p)
  BY <1>20 DEF InitFails, Throw, StartFails, LoopFails, Deactivate
<1>21. CASE PasswordFails(p)
  BY <1>21 DEF PasswordFails, Throw, StartFails, LoopFails, Deactivate
<1>22. CASE OnError(p)
  BY <1>22 DEF OnError, Throw, StartFails, LoopFails, Deactivate
<1>23. CASE OnClose(p)
  BY <1>23 DEF OnClose
<1>24. CASE MessageArrives(p)
  BY <1>24 DEF MessageArrives, ListenerRuns, RemoveListener
<1> QED
  BY <1>1, <1>2, <1>3, <1>4, <1>5, <1>6, <1>7, <1>8, <1>9, <1>10, <1>11, <1>12,
     <1>13, <1>14, <1>15, <1>16, <1>17, <1>18, <1>19, <1>20, <1>21, <1>22, <1>23,
     <1>24
     DEF Step, TaskStep, LoopStep, DialStep, StopStep

\* The shared fields: a start takes the free map, a start that fails clears it, and so
\* does a stop, which is about the provider in the map or the one it began with.
LEMMA SharedSteps ==
  ASSUME ThreadTypes, stopping = None => stopAt = "none",
         NEW p \in Providers, None # p, ThreadAt(p), LinkAt(p), Step(p)
  PROVE  \/ UNCHANGED <<account, stopping, stopAt>>
         \/ stopping = None /\ account = None /\ account' = p /\ UNCHANGED <<stopping, stopAt>>
         \/ Pending(p) /\ account' = None /\ UNCHANGED <<stopping, stopAt>>
         \/ /\ (stopping = None /\ account = p) \/ stopping = p
            /\ (stopping' = p /\ account' = account) \/ (stopping' = None /\ account' = None)
<1> USE DEF threadVars, clientVars, ThreadTypes, ThreadAt, Pending, InStart, Starting, Settled
<1>1. CASE Initialized(p)
  BY <1>1 DEF Initialized
<1>2. CASE TaskReturns(p)
  BY <1>2 DEF TaskReturns
<1>3. CASE FailedStartEnded(p)
  BY <1>3 DEF FailedStartEnded, Unregister
<1>4. CASE PollTimesOut(p)
  BY <1>4 DEF PollTimesOut
<1>5. CASE MessageHandled(p)
  BY <1>5 DEF MessageHandled
<1>6. CASE LoopStops(p)
  BY <1>6 DEF LoopStops
<1>7. CASE LoopPolls(p)
  BY <1>7 DEF LoopPolls
<1>8. CASE LoopReconnects(p)
  BY <1>8 DEF LoopReconnects
<1>9. CASE LoopFindsOldClient(p)
  BY <1>9 DEF LoopFindsOldClient, Throw, StartFails, LoopFails, Unregister
<1>10. CASE LoopDisconnected(p)
  BY <1>10 DEF LoopDisconnected
<1>11. CASE LoopRetries(p)
  BY <1>11 DEF LoopRetries
<1>12. CASE PasswordIssued(p)
  BY <1>12 DEF PasswordIssued
<1>13. CASE OnConnect(p)
  BY <1>13 DEF OnConnect
<1>14. CASE Subscribed(p)
  BY <1>14 DEF Subscribed
<1>15. CASE SubscribeFails(p)
  BY <1>15 DEF SubscribeFails, Throw, StartFails, LoopFails, Unregister, Disconnects
<1>16. CASE StopSeesLoopDone(p)
  <2>1. CASE client[p]
    BY <1>16, <2>1 DEF StopSeesLoopDone, Disconnect, End
  <2>2. CASE ~client[p]
    BY <1>16, <2>2 DEF StopSeesLoopDone, Disconnect, Stopped, Unregister
  <2> QED
    BY <2>1, <2>2
<1>17. CASE StopEnded(p)
  BY <1>17 DEF StopEnded, Stopped, Unregister
<1>18. CASE StartAccount(p)
  BY <1>18 DEF StartAccount
<1>19. CASE StopAccount(p)
  <2>1. CASE AwaitsLoop(p)
    BY <1>19, <2>1 DEF StopAccount, AwaitsLoop
  <2>2. CASE ~AwaitsLoop(p) /\ client[p]
    BY <1>19, <2>2 DEF StopAccount, AwaitsLoop, Disconnect, End
  <2>3. CASE ~AwaitsLoop(p) /\ ~client[p]
    BY <1>19, <2>3 DEF StopAccount, AwaitsLoop, Disconnect, Stopped, Unregister
  <2> QED
    BY <2>1, <2>2, <2>3
<1>20. CASE InitFails(p)
  BY <1>20 DEF InitFails, Throw, StartFails, LoopFails, Unregister
<1>21. CASE PasswordFails(p)
  BY <1>21 DEF PasswordFails, Throw, StartFails, LoopFails, Unregister
<1>22. CASE OnError(p)
  <2>1. CASE link[p] # "connecting"
    BY <1>22, <2>1 DEF OnError
  <2>2. CASE link[p] = "connecting" /\ InStart(p)
    BY <1>22, <2>2 DEF OnError, Throw, StartFails, Unregister, LinkAt
  <2>3. CASE link[p] = "connecting" /\ ~InStart(p)
    BY <1>22, <2>3 DEF OnError, Throw, LoopFails
  <2> QED
    BY <2>1, <2>2, <2>3
<1>23. CASE OnClose(p)
  BY <1>23 DEF OnClose
<1>24. CASE MessageArrives(p)
  BY <1>24 DEF MessageArrives, ListenerRuns
<1> QED
  BY <1>1, <1>2, <1>3, <1>4, <1>5, <1>6, <1>7, <1>8, <1>9, <1>10, <1>11, <1>12,
     <1>13, <1>14, <1>15, <1>16, <1>17, <1>18, <1>19, <1>20, <1>21, <1>22, <1>23,
     <1>24
     DEF Step, TaskStep, LoopStep, DialStep, StopStep

\* A task moves on only while it is pending; it begins with StartAccount.
LEMMA TaskSteps ==
  ASSUME ThreadTypes, NEW p \in Providers, ThreadAt(p), LinkAt(p), Step(p)
  PROVE  task'[p] = task[p] \/ Pending(p) \/ StartAccount(p)
<1> USE DEF threadVars, ThreadTypes, ThreadAt, Pending, InStart, Starting, Settled
<1>1. CASE Initialized(p)
  BY <1>1 DEF Initialized
<1>2. CASE TaskReturns(p)
  BY <1>2 DEF TaskReturns
<1>3. CASE FailedStartEnded(p)
  BY <1>3 DEF FailedStartEnded
<1>4. CASE PollTimesOut(p)
  BY <1>4 DEF PollTimesOut
<1>5. CASE MessageHandled(p)
  BY <1>5 DEF MessageHandled
<1>6. CASE LoopStops(p)
  BY <1>6 DEF LoopStops
<1>7. CASE LoopPolls(p)
  BY <1>7 DEF LoopPolls
<1>8. CASE LoopReconnects(p)
  BY <1>8 DEF LoopReconnects
<1>9. CASE LoopFindsOldClient(p)
  BY <1>9 DEF LoopFindsOldClient, Throw, StartFails, LoopFails
<1>10. CASE LoopDisconnected(p)
  BY <1>10 DEF LoopDisconnected
<1>11. CASE LoopRetries(p)
  BY <1>11 DEF LoopRetries
<1>12. CASE PasswordIssued(p)
  BY <1>12 DEF PasswordIssued
<1>13. CASE OnConnect(p)
  BY <1>13 DEF OnConnect
<1>14. CASE Subscribed(p)
  BY <1>14 DEF Subscribed
<1>15. CASE SubscribeFails(p)
  BY <1>15 DEF SubscribeFails, Throw, StartFails, LoopFails
<1>16. CASE StopSeesLoopDone(p)
  BY <1>16 DEF StopSeesLoopDone
<1>17. CASE StopEnded(p)
  BY <1>17 DEF StopEnded
<1>18. CASE StartAccount(p)
  BY <1>18 DEF StartAccount
<1>19. CASE StopAccount(p)
  BY <1>19 DEF StopAccount
<1>20. CASE InitFails(p)
  BY <1>20 DEF InitFails, Throw, StartFails, LoopFails
<1>21. CASE PasswordFails(p)
  BY <1>21 DEF PasswordFails, Throw, StartFails, LoopFails
<1>22. CASE OnError(p)
  <2>1. CASE link[p] # "connecting"
    BY <1>22, <2>1 DEF OnError
  <2>2. CASE link[p] = "connecting" /\ InStart(p)
    BY <1>22, <2>2 DEF LinkAt
  <2>3. CASE link[p] = "connecting" /\ ~InStart(p)
    BY <1>22, <2>3 DEF OnError, Throw, LoopFails
  <2> QED
    BY <2>1, <2>2, <2>3
<1>23. CASE OnClose(p)
  BY <1>23 DEF OnClose
<1>24. CASE MessageArrives(p)
  BY <1>24 DEF MessageArrives
<1> QED
  BY <1>1, <1>2, <1>3, <1>4, <1>5, <1>6, <1>7, <1>8, <1>9, <1>10, <1>11, <1>12,
     <1>13, <1>14, <1>15, <1>16, <1>17, <1>18, <1>19, <1>20, <1>21, <1>22, <1>23,
     <1>24
     DEF Step, TaskStep, LoopStep, DialStep, StopStep

\* No stop under way waits for anything.
LEMMA NoneAtRest ==
  ASSUME stopping = None => stopAt = "none", NEW p \in Providers, None # p, ThreadAt(p), ThreadTypes,
         Step(p)
  PROVE  stopping' = None => stopAt' = "none"
<1>1. CASE UNCHANGED <<stopping, stopAt>>
  BY <1>1
<1>2. CASE StopAccount(p)
  BY <1>2 DEF StopAccount, Disconnect, Stopped
<1>3. CASE StopSeesLoopDone(p)
  BY <1>3 DEF StopSeesLoopDone, Disconnect, Stopped
<1>4. CASE StopEnded(p)
  BY <1>4 DEF StopEnded, Stopped
<1>5. UNCHANGED <<stopping, stopAt>> \/ StopAccount(p) \/ StopStep(p)
  <2> USE DEF threadVars
  <2>1. CASE Initialized(p)
    BY <2>1 DEF Initialized
  <2>2. CASE TaskReturns(p)
    BY <2>2 DEF TaskReturns
  <2>3. CASE FailedStartEnded(p)
    BY <2>3 DEF FailedStartEnded
  <2>4. CASE PollTimesOut(p)
    BY <2>4 DEF PollTimesOut
  <2>5. CASE MessageHandled(p)
    BY <2>5 DEF MessageHandled
  <2>6. CASE LoopStops(p)
    BY <2>6 DEF LoopStops
  <2>7. CASE LoopPolls(p)
    BY <2>7 DEF LoopPolls
  <2>8. CASE LoopReconnects(p)
    BY <2>8 DEF LoopReconnects
  <2>9. CASE LoopFindsOldClient(p)
    BY <2>9 DEF LoopFindsOldClient
  <2>10. CASE LoopDisconnected(p)
    BY <2>10 DEF LoopDisconnected
  <2>11. CASE LoopRetries(p)
    BY <2>11 DEF LoopRetries
  <2>12. CASE PasswordIssued(p)
    BY <2>12 DEF PasswordIssued
  <2>13. CASE OnConnect(p)
    BY <2>13 DEF OnConnect
  <2>14. CASE Subscribed(p)
    BY <2>14 DEF Subscribed
  <2>15. CASE SubscribeFails(p)
    BY <2>15 DEF SubscribeFails
  <2>16. CASE StartAccount(p)
    BY <2>16 DEF StartAccount
  <2>17. CASE InitFails(p)
    BY <2>17 DEF InitFails
  <2>18. CASE PasswordFails(p)
    BY <2>18 DEF PasswordFails
  <2>19. CASE OnError(p)
    BY <2>19 DEF OnError
  <2>20. CASE OnClose(p)
    BY <2>20 DEF OnClose
  <2>21. CASE MessageArrives(p)
    BY <2>21 DEF MessageArrives
  <2> QED
    BY <2>1, <2>2, <2>3, <2>4, <2>5, <2>6, <2>7, <2>8, <2>9, <2>10, <2>11, <2>12, <2>13, <2>14, <2>15, <2>16, <2>17, <2>18, <2>19, <2>20, <2>21
       DEF Step, TaskStep, LoopStep, DialStep
<1> QED
  BY <1>1, <1>2, <1>3, <1>4, <1>5 DEF StopStep

\* Starts stay one after the other.
LEMMA OneByOneKept ==
  ASSUME BoundsAssumption, ThreadTypes, OneByOne, NEW p \in Providers, ThreadAt(p),
         LinkAt(p), ClientTypes, BufferTypes, Step(p)
  PROVE  OneByOne'
<1> SUFFICES ASSUME NEW a \in Providers, NEW b \in Providers, b < a, task'[a] # "none"
             PROVE  task'[b] \in {"returned", "failed"}
  BY DEF OneByOne
<1>1. \A q \in Providers : q # p => task'[q] = task[q]
  BY OthersUntouched
<1>2. a # b
  BY DEF Providers, BoundsAssumption
<1>3. CASE StartAccount(p)
  <2>1. task[p] = "none" /\ \A q \in Providers : q < p => task[q] \in {"returned", "failed"}
    BY <1>3 DEF StartAccount
  <2>2. CASE a = p
    BY <1>1, <1>2, <2>1, <2>2
  <2>3. CASE a # p
    <3>1. task[b] \in {"returned", "failed"}
      BY <1>1, <2>3 DEF OneByOne
    <3> QED
      BY <1>1, <2>1, <3>1
  <2> QED
    BY <2>2, <2>3
<1>4. CASE task'[p] = task[p]
  BY <1>1, <1>4 DEF OneByOne
<1>5. CASE Pending(p)
  <2>1. task[p] # "none" /\ task[p] \notin {"returned", "failed"}
    BY <1>5 DEF Pending, Starting
  <2>2. task[a] # "none"
    BY <1>1, <2>1
  <2>3. task[b] \in {"returned", "failed"}
    BY <2>2 DEF OneByOne
  <2> QED
    BY <1>1, <2>1, <2>3
<1> QED
  BY <1>3, <1>4, <1>5, TaskSteps

\* What holds of a provider still does after a step of another.
LEMMA OthersKept ==
  ASSUME BoundsAssumption, ThreadTypes, ClientTypes, BufferTypes, OneByOne,
         stopping = None => stopAt = "none",
         NEW p \in Providers, NEW q \in Providers, q # p, At(p), At(q), Step(p)
  PROVE  At(q)'
<1>0. None # p /\ None # q
  BY NoneIsNoProvider
<1>1. /\ task'[q] = task[q] /\ aborted'[q] = aborted[q] /\ found'[q] = found[q]
      /\ pollingActive'[q] = pollingActive[q] /\ loop'[q] = loop[q] /\ dial'[q] = dial[q]
      /\ batch'[q] = batch[q] /\ client'[q] = client[q] /\ received'[q] = received[q]
      /\ listeners'[q] = listeners[q] /\ owed'[q] = owed[q]
      /\ link'[q] # link[q] => link[q] = "open" /\ link'[q] = "closed"
  BY OthersUntouched
<1>2. \/ UNCHANGED <<account, stopping, stopAt>>
      \/ stopping = None /\ account = None /\ account' = p /\ UNCHANGED <<stopping, stopAt>>
      \/ Pending(p) /\ account' = None /\ UNCHANGED <<stopping, stopAt>>
      \/ /\ (stopping = None /\ account = p) \/ stopping = p
         /\ (stopping' = p /\ account' = account) \/ (stopping' = None /\ account' = None)
  BY <1>0, SharedSteps DEF At
<1>3. ~(Pending(p) /\ Pending(q))
  BY ProvidersAreOrdered DEF OneByOne, Pending, Starting
<1>4. stopping = p => account \in {p, None}
  BY DEF At, StopAt
<1>5. BufferAt(q)'
  BY <1>1 DEF At, BufferAt
<1>6. ThreadAt(q)'
  BY <1>1 DEF At, ThreadAt, InStart
<1>7. LinkAt(q)'
  BY <1>1 DEF At, LinkAt, InStart, Quiet
<1>8. StopAt(q)'
  <2>1. stopping' = q <=> stopping = q
    BY <1>0, <1>2
  <2>2. stopping = q => stopAt' = stopAt /\ account' \in {account, None}
    BY <1>0, <1>2
  <2>3. account' = q => account = q
    BY <1>0, <1>2
  <2> QED
    BY <1>0, <1>1, <2>1, <2>2, <2>3 DEF At, StopAt, InStart, Quiet
<1>9. MapAt(q)'
  <2>1. account = q /\ Pending(q) => account' = q
    BY <1>0, <1>2, <1>3, <1>4
  <2>2. account' = q => account = q
    BY <1>0, <1>2
  <2>3. stopping' = q <=> stopping = q
    BY <1>0, <1>2
  <2> QED
    BY <1>1, <2>1, <2>2, <2>3 DEF At, MapAt, Pending
<1> QED
  BY <1>5, <1>6, <1>7, <1>8, <1>9 DEF At

--------------------------------------------------------------------------------
(* What a step of p does to p. *)

\* A step of p keeps its buffer and its listener in agreement with its loop.
LEMMA BufferOwn ==
  ASSUME ThreadTypes, ClientTypes, BufferTypes, stopping = None => stopAt = "none",
         NEW p \in Providers, None # p, BufferAt(p), ThreadAt(p), LinkAt(p), Step(p)
  PROVE  BufferAt(p)'
<1> USE DEF BufferAt, ThreadAt, LinkAt, InStart, Starting, Settled, threadVars,
            clientVars, ThreadTypes, ClientTypes, BufferTypes
<1>1. CASE Initialized(p)
  BY <1>1 DEF Initialized
<1>2. CASE TaskReturns(p)
  BY <1>2 DEF TaskReturns
<1>3. CASE FailedStartEnded(p)
  BY <1>3 DEF FailedStartEnded, Ended, Unregister
<1>4. CASE PollTimesOut(p)
  BY <1>4 DEF PollTimesOut, CanFinish, RemoveListener
<1>5. CASE MessageHandled(p)
  BY <1>5 DEF MessageHandled
<1>6. CASE LoopStops(p)
  BY <1>6 DEF LoopStops
<1>7. CASE LoopPolls(p)
  <2> USE <1>7 DEF LoopPolls, Connected, Poll, TakeBuffer, AwaitMessage
  <2>1. CASE loop[p] = "none"
    BY <2>1
  <2>2. CASE loop[p] # "none" /\ received[p] > 0
    BY <2>2
  <2>3. CASE loop[p] # "none" /\ ~(received[p] > 0)
    BY <2>3
  <2> QED
    BY <2>1, <2>2, <2>3
<1>8. CASE LoopReconnects(p)
  BY <1>8 DEF LoopReconnects
<1>9. CASE LoopFindsOldClient(p)
  <2> USE <1>9 DEF LoopFindsOldClient, Connected, Throw, StartFails, LoopFails,
          Deactivate, Unregister
  <2>1. CASE loop[p] = "none"
    BY <2>1
  <2>2. CASE loop[p] # "none" /\ pollingActive[p]
    BY <2>2
  <2>3. CASE loop[p] # "none" /\ ~pollingActive[p]
    BY <2>3
  <2> QED
    BY <2>1, <2>2, <2>3
<1>10. CASE LoopDisconnected(p)
  BY <1>10 DEF LoopDisconnected, Ended
<1>11. CASE LoopRetries(p)
  BY <1>11 DEF LoopRetries
<1>12. CASE PasswordIssued(p)
  BY <1>12 DEF PasswordIssued
<1>13. CASE OnConnect(p)
  BY <1>13 DEF OnConnect
<1>14. CASE Subscribed(p)
  <2> USE <1>14 DEF Subscribed, Connected, Poll, TakeBuffer, AwaitMessage
  <2>1. CASE loop[p] = "none"
    BY <2>1
  <2>2. CASE loop[p] # "none" /\ received[p] > 0
    BY <2>2
  <2>3. CASE loop[p] # "none" /\ ~(received[p] > 0)
    BY <2>3
  <2> QED
    BY <2>1, <2>2, <2>3
<1>15. CASE SubscribeFails(p)
  <2> USE <1>15 DEF SubscribeFails, Connected, Fault, Throw, StartFails, LoopFails,
          Deactivate, Unregister, End, Disconnects
  <2>1. CASE loop[p] = "none"
    BY <2>1
  <2>2. CASE loop[p] # "none" /\ pollingActive[p]
    BY <2>2
  <2>3. CASE loop[p] # "none" /\ ~pollingActive[p]
    BY <2>3
  <2> QED
    BY <2>1, <2>2, <2>3
<1>16. CASE StopSeesLoopDone(p)
  <2> USE <1>16 DEF StopSeesLoopDone, Disconnect, Stopped, Unregister, End
  <2>1. CASE client[p]
    BY <2>1
  <2>2. CASE ~client[p]
    BY <2>2
  <2> QED
    BY <2>1, <2>2
<1>17. CASE StopEnded(p)
  BY <1>17 DEF StopEnded, Ended, Stopped, Unregister
<1>18. CASE StartAccount(p)
  BY <1>18 DEF StartAccount
<1>19. CASE StopAccount(p)
  <2> USE <1>19 DEF StopAccount, Deactivate, AwaitsLoop, Disconnect, Stopped,
          Unregister, End
  <2>1. CASE client[p]
    BY <2>1
  <2>2. CASE ~client[p]
    BY <2>2
  <2> QED
    BY <2>1, <2>2
<1>20. CASE InitFails(p)
  <2> USE <1>20 DEF InitFails, Fault, Throw, StartFails, LoopFails, Deactivate,
          Unregister
  <2>1. CASE loop[p] = "none"
    BY <2>1
  <2>2. CASE loop[p] # "none" /\ pollingActive[p]
    BY <2>2
  <2>3. CASE loop[p] # "none" /\ ~pollingActive[p]
    BY <2>3
  <2> QED
    BY <2>1, <2>2, <2>3
<1>21. CASE PasswordFails(p)
  <2> USE <1>21 DEF PasswordFails, Fault, Throw, StartFails, LoopFails, Deactivate,
          Unregister
  <2>1. CASE loop[p] = "none"
    BY <2>1
  <2>2. CASE loop[p] # "none" /\ pollingActive[p]
    BY <2>2
  <2>3. CASE loop[p] # "none" /\ ~pollingActive[p]
    BY <2>3
  <2> QED
    BY <2>1, <2>2, <2>3
<1>22. CASE OnError(p)
  <2> USE <1>22 DEF OnError, Fault, Throw, StartFails, LoopFails, Deactivate,
          Unregister
  <2>1. CASE loop[p] = "none"
    BY <2>1
  <2>2. CASE loop[p] # "none" /\ pollingActive[p]
    BY <2>2
  <2>3. CASE loop[p] # "none" /\ ~pollingActive[p]
    BY <2>3
  <2> QED
    BY <2>1, <2>2, <2>3
<1>23. CASE OnClose(p)
  BY <1>23 DEF OnClose, Fault
<1>24. CASE MessageArrives(p)
  <2> USE <1>24 DEF MessageArrives, ListenerRuns, CanFinish, RemoveListener
  <2>1. CASE listeners[p] = 0
    BY <2>1
  <2>2. CASE listeners[p] = 1 /\ loop[p] = "poll" /\ client[p]
    BY <2>2
  <2>3. CASE listeners[p] = 1 /\ ~(loop[p] = "poll" /\ client[p])
    BY <2>3
  <2> QED
    BY <2>1, <2>2, <2>3
<1> QED
  BY <1>1, <1>2, <1>3, <1>4, <1>5, <1>6, <1>7, <1>8, <1>9, <1>10, <1>11, <1>12,
     <1>13, <1>14, <1>15, <1>16, <1>17, <1>18, <1>19, <1>20, <1>21, <1>22, <1>23,
     <1>24
     DEF Step, TaskStep, LoopStep, DialStep, StopStep

\* A step of p keeps its start and its loop in agreement.
LEMMA ThreadOwn ==
  ASSUME ThreadTypes, ClientTypes, BufferTypes, stopping = None => stopAt = "none",
         NEW p \in Providers, None # p, ThreadAt(p), LinkAt(p), StopAt(p), Step(p)
  PROVE  ThreadAt(p)'
<1> USE DEF ThreadAt, LinkAt, StopAt, InStart, Starting, Settled, threadVars,
            clientVars, ThreadTypes, ClientTypes, BufferTypes
<1>1. CASE Initialized(p)
  BY <1>1 DEF Initialized
<1>2. CASE TaskReturns(p)
  BY <1>2 DEF TaskReturns
<1>3. CASE FailedStartEnded(p)
  BY <1>3 DEF FailedStartEnded, Ended, Unregister
<1>4. CASE PollTimesOut(p)
  BY <1>4 DEF PollTimesOut, CanFinish, RemoveListener
<1>5. CASE MessageHandled(p)
  BY <1>5 DEF MessageHandled
<1>6. CASE LoopStops(p)
  BY <1>6 DEF LoopStops
<1>7. CASE LoopPolls(p)
  <2> USE <1>7 DEF LoopPolls, Connected, Poll, TakeBuffer, AwaitMessage
  <2>1. CASE loop[p] = "none"
    BY <2>1
  <2>2. CASE loop[p] # "none" /\ received[p] > 0
    BY <2>2
  <2>3. CASE loop[p] # "none" /\ ~(received[p] > 0)
    BY <2>3
  <2> QED
    BY <2>1, <2>2, <2>3
<1>8. CASE LoopReconnects(p)
  BY <1>8 DEF LoopReconnects
<1>9. CASE LoopFindsOldClient(p)
  <2> USE <1>9 DEF LoopFindsOldClient, Connected, Throw, StartFails, LoopFails,
          Deactivate, Unregister
  <2>1. CASE loop[p] = "none"
    BY <2>1
  <2>2. CASE loop[p] # "none" /\ pollingActive[p]
    BY <2>2
  <2>3. CASE loop[p] # "none" /\ ~pollingActive[p]
    BY <2>3
  <2> QED
    BY <2>1, <2>2, <2>3
<1>10. CASE LoopDisconnected(p)
  BY <1>10 DEF LoopDisconnected, Ended
<1>11. CASE LoopRetries(p)
  BY <1>11 DEF LoopRetries
<1>12. CASE PasswordIssued(p)
  BY <1>12 DEF PasswordIssued
<1>13. CASE OnConnect(p)
  BY <1>13 DEF OnConnect
<1>14. CASE Subscribed(p)
  <2> USE <1>14 DEF Subscribed, Connected, Poll, TakeBuffer, AwaitMessage
  <2>1. CASE loop[p] = "none"
    BY <2>1
  <2>2. CASE loop[p] # "none" /\ received[p] > 0
    BY <2>2
  <2>3. CASE loop[p] # "none" /\ ~(received[p] > 0)
    BY <2>3
  <2> QED
    BY <2>1, <2>2, <2>3
<1>15. CASE SubscribeFails(p)
  <2> USE <1>15 DEF SubscribeFails, Connected, Fault, Throw, StartFails, LoopFails,
          Deactivate, Unregister, End, Disconnects
  <2>1. CASE loop[p] = "none"
    BY <2>1
  <2>2. CASE loop[p] # "none" /\ pollingActive[p]
    BY <2>2
  <2>3. CASE loop[p] # "none" /\ ~pollingActive[p]
    BY <2>3
  <2> QED
    BY <2>1, <2>2, <2>3
<1>16. CASE StopSeesLoopDone(p)
  <2> USE <1>16 DEF StopSeesLoopDone, Disconnect, Stopped, Unregister, End
  <2>1. CASE client[p]
    BY <2>1
  <2>2. CASE ~client[p]
    BY <2>2
  <2> QED
    BY <2>1, <2>2
<1>17. CASE StopEnded(p)
  BY <1>17 DEF StopEnded, Ended, Stopped, Unregister
<1>18. CASE StartAccount(p)
  BY <1>18 DEF StartAccount
<1>19. CASE StopAccount(p)
  <2> USE <1>19 DEF StopAccount, Deactivate, AwaitsLoop, Disconnect, Stopped,
          Unregister, End
  <2>1. CASE client[p]
    BY <2>1
  <2>2. CASE ~client[p]
    BY <2>2
  <2> QED
    BY <2>1, <2>2
<1>20. CASE InitFails(p)
  <2> USE <1>20 DEF InitFails, Fault, Throw, StartFails, LoopFails, Deactivate,
          Unregister
  <2>1. CASE loop[p] = "none"
    BY <2>1
  <2>2. CASE loop[p] # "none" /\ pollingActive[p]
    BY <2>2
  <2>3. CASE loop[p] # "none" /\ ~pollingActive[p]
    BY <2>3
  <2> QED
    BY <2>1, <2>2, <2>3
<1>21. CASE PasswordFails(p)
  <2> USE <1>21 DEF PasswordFails, Fault, Throw, StartFails, LoopFails, Deactivate,
          Unregister
  <2>1. CASE loop[p] = "none"
    BY <2>1
  <2>2. CASE loop[p] # "none" /\ pollingActive[p]
    BY <2>2
  <2>3. CASE loop[p] # "none" /\ ~pollingActive[p]
    BY <2>3
  <2> QED
    BY <2>1, <2>2, <2>3
<1>22. CASE OnError(p)
  <2> USE <1>22 DEF OnError, Fault, Throw, StartFails, LoopFails, Deactivate,
          Unregister
  <2>1. CASE loop[p] = "none"
    BY <2>1
  <2>2. CASE loop[p] # "none" /\ pollingActive[p]
    BY <2>2
  <2>3. CASE loop[p] # "none" /\ ~pollingActive[p]
    BY <2>3
  <2> QED
    BY <2>1, <2>2, <2>3
<1>23. CASE OnClose(p)
  BY <1>23 DEF OnClose, Fault
<1>24. CASE MessageArrives(p)
  <2> USE <1>24 DEF MessageArrives, ListenerRuns, CanFinish, RemoveListener
  <2>1. CASE listeners[p] = 0
    BY <2>1
  <2>2. CASE listeners[p] = 1 /\ loop[p] = "poll" /\ client[p]
    BY <2>2
  <2>3. CASE listeners[p] = 1 /\ ~(loop[p] = "poll" /\ client[p])
    BY <2>3
  <2> QED
    BY <2>1, <2>2, <2>3
<1> QED
  BY <1>1, <1>2, <1>3, <1>4, <1>5, <1>6, <1>7, <1>8, <1>9, <1>10, <1>11, <1>12,
     <1>13, <1>14, <1>15, <1>16, <1>17, <1>18, <1>19, <1>20, <1>21, <1>22, <1>23,
     <1>24
     DEF Step, TaskStep, LoopStep, DialStep, StopStep

\* A step of p keeps its client and its connection in agreement.
LEMMA LinkOwn ==
  ASSUME ThreadTypes, ClientTypes, BufferTypes, stopping = None => stopAt = "none",
         NEW p \in Providers, None # p, LinkAt(p), ThreadAt(p), StopAt(p), MapAt(p),
         Step(p)
  PROVE  LinkAt(p)'
<1> USE DEF LinkAt, ThreadAt, StopAt, MapAt, Pending, Quiet, Connected, InStart,
            Starting, Settled, threadVars, clientVars, ThreadTypes, ClientTypes,
            BufferTypes
<1>1. CASE Initialized(p)
  BY <1>1 DEF Initialized
<1>2. CASE TaskReturns(p)
  BY <1>2 DEF TaskReturns
<1>3. CASE FailedStartEnded(p)
  BY <1>3 DEF FailedStartEnded, Ended, Unregister
<1>4. CASE PollTimesOut(p)
  BY <1>4 DEF PollTimesOut, CanFinish, RemoveListener
<1>5. CASE MessageHandled(p)
  BY <1>5 DEF MessageHandled
<1>6. CASE LoopStops(p)
  BY <1>6 DEF LoopStops
<1>7. CASE LoopPolls(p)
  <2> USE <1>7 DEF LoopPolls, Poll, TakeBuffer, AwaitMessage
  <2>1. CASE loop[p] = "none"
    BY <2>1
  <2>2. CASE loop[p] # "none" /\ received[p] > 0
    BY <2>2
  <2>3. CASE loop[p] # "none" /\ ~(received[p] > 0)
    BY <2>3
  <2> QED
    BY <2>1, <2>2, <2>3
<1>8. CASE LoopReconnects(p)
  BY <1>8 DEF LoopReconnects
<1>9. CASE LoopFindsOldClient(p)
  <2> USE <1>9 DEF LoopFindsOldClient, Throw, StartFails, LoopFails, Deactivate,
          Unregister
  <2>1. CASE loop[p] = "none"
    BY <2>1
  <2>2. CASE loop[p] # "none" /\ pollingActive[p]
    BY <2>2
  <2>3. CASE loop[p] # "none" /\ ~pollingActive[p]
    BY <2>3
  <2> QED
    BY <2>1, <2>2, <2>3
<1>10. CASE LoopDisconnected(p)
  BY <1>10 DEF LoopDisconnected, Ended
<1>11. CASE LoopRetries(p)
  BY <1>11 DEF LoopRetries
<1>12. CASE PasswordIssued(p)
  BY <1>12 DEF PasswordIssued
<1>13. CASE OnConnect(p)
  BY <1>13 DEF OnConnect
<1>14. CASE Subscribed(p)
  <2> USE <1>14 DEF Subscribed, Poll, TakeBuffer, AwaitMessage
  <2>1. CASE loop[p] = "none"
    BY <2>1
  <2>2. CASE loop[p] # "none" /\ received[p] > 0
    BY <2>2
  <2>3. CASE loop[p] # "none" /\ ~(received[p] > 0)
    BY <2>3
  <2> QED
    BY <2>1, <2>2, <2>3
<1>15. CASE SubscribeFails(p)
  <2> USE <1>15 DEF SubscribeFails, Fault, Throw, StartFails, LoopFails, Deactivate,
          Unregister, End, Disconnects
  <2>1. CASE loop[p] = "none"
    BY <2>1
  <2>2. CASE loop[p] # "none" /\ pollingActive[p]
    BY <2>2
  <2>3. CASE loop[p] # "none" /\ ~pollingActive[p]
    BY <2>3
  <2> QED
    BY <2>1, <2>2, <2>3
<1>16. CASE StopSeesLoopDone(p)
  <2> USE <1>16 DEF StopSeesLoopDone, Disconnect, Stopped, Unregister, End
  <2>1. CASE client[p]
    BY <2>1
  <2>2. CASE ~client[p]
    BY <2>2
  <2> QED
    BY <2>1, <2>2
<1>17. CASE StopEnded(p)
  BY <1>17 DEF StopEnded, Ended, Stopped, Unregister
<1>18. CASE StartAccount(p)
  BY <1>18 DEF StartAccount
<1>19. CASE StopAccount(p)
  <2> USE <1>19 DEF StopAccount, Deactivate, AwaitsLoop, Disconnect, Stopped,
          Unregister, End
  <2>1. CASE client[p]
    BY <2>1
  <2>2. CASE ~client[p]
    BY <2>2
  <2> QED
    BY <2>1, <2>2
<1>20. CASE InitFails(p)
  <2> USE <1>20 DEF InitFails, Fault, Throw, StartFails, LoopFails, Deactivate,
          Unregister
  <2>1. CASE loop[p] = "none"
    BY <2>1
  <2>2. CASE loop[p] # "none" /\ pollingActive[p]
    BY <2>2
  <2>3. CASE loop[p] # "none" /\ ~pollingActive[p]
    BY <2>3
  <2> QED
    BY <2>1, <2>2, <2>3
<1>21. CASE PasswordFails(p)
  <2> USE <1>21 DEF PasswordFails, Fault, Throw, StartFails, LoopFails, Deactivate,
          Unregister
  <2>1. CASE loop[p] = "none"
    BY <2>1
  <2>2. CASE loop[p] # "none" /\ pollingActive[p]
    BY <2>2
  <2>3. CASE loop[p] # "none" /\ ~pollingActive[p]
    BY <2>3
  <2> QED
    BY <2>1, <2>2, <2>3
<1>22. CASE OnError(p)
  <2> USE <1>22 DEF OnError, Fault, Throw, StartFails, LoopFails, Deactivate,
          Unregister
  <2>1. CASE loop[p] = "none"
    BY <2>1
  <2>2. CASE loop[p] # "none" /\ pollingActive[p]
    BY <2>2
  <2>3. CASE loop[p] # "none" /\ ~pollingActive[p]
    BY <2>3
  <2> QED
    BY <2>1, <2>2, <2>3
<1>23. CASE OnClose(p)
  BY <1>23 DEF OnClose, Fault
<1>24. CASE MessageArrives(p)
  <2> USE <1>24 DEF MessageArrives, ListenerRuns, CanFinish, RemoveListener
  <2>1. CASE listeners[p] = 0
    BY <2>1
  <2>2. CASE listeners[p] = 1 /\ loop[p] = "poll" /\ client[p]
    BY <2>2
  <2>3. CASE listeners[p] = 1 /\ ~(loop[p] = "poll" /\ client[p])
    BY <2>3
  <2> QED
    BY <2>1, <2>2, <2>3
<1> QED
  BY <1>1, <1>2, <1>3, <1>4, <1>5, <1>6, <1>7, <1>8, <1>9, <1>10, <1>11, <1>12,
     <1>13, <1>14, <1>15, <1>16, <1>17, <1>18, <1>19, <1>20, <1>21, <1>22, <1>23,
     <1>24
     DEF Step, TaskStep, LoopStep, DialStep, StopStep

\* A step of p keeps what a stopAccount may rely on.
LEMMA StopOwn ==
  ASSUME ThreadTypes, ClientTypes, BufferTypes, stopping = None => stopAt = "none",
         NEW p \in Providers, None # p, StopAt(p), LinkAt(p), ThreadAt(p), MapAt(p),
         Step(p)
  PROVE  StopAt(p)'
<1> USE DEF StopAt, LinkAt, ThreadAt, MapAt, Pending, Quiet, InStart, Starting,
            Settled, threadVars, clientVars, ThreadTypes, ClientTypes, BufferTypes
<1>1. CASE Initialized(p)
  BY <1>1 DEF Initialized
<1>2. CASE TaskReturns(p)
  BY <1>2 DEF TaskReturns
<1>3. CASE FailedStartEnded(p)
  BY <1>3 DEF FailedStartEnded, Ended, Unregister
<1>4. CASE PollTimesOut(p)
  BY <1>4 DEF PollTimesOut, CanFinish, RemoveListener
<1>5. CASE MessageHandled(p)
  BY <1>5 DEF MessageHandled
<1>6. CASE LoopStops(p)
  BY <1>6 DEF LoopStops
<1>7. CASE LoopPolls(p)
  <2> USE <1>7 DEF LoopPolls, Connected, Poll, TakeBuffer, AwaitMessage
  <2>1. CASE loop[p] = "none"
    BY <2>1
  <2>2. CASE loop[p] # "none" /\ received[p] > 0
    BY <2>2
  <2>3. CASE loop[p] # "none" /\ ~(received[p] > 0)
    BY <2>3
  <2> QED
    BY <2>1, <2>2, <2>3
<1>8. CASE LoopReconnects(p)
  BY <1>8 DEF LoopReconnects
<1>9. CASE LoopFindsOldClient(p)
  <2> USE <1>9 DEF LoopFindsOldClient, Connected, Throw, StartFails, LoopFails,
          Deactivate, Unregister
  <2>1. CASE loop[p] = "none"
    BY <2>1
  <2>2. CASE loop[p] # "none" /\ pollingActive[p]
    BY <2>2
  <2>3. CASE loop[p] # "none" /\ ~pollingActive[p]
    BY <2>3
  <2> QED
    BY <2>1, <2>2, <2>3
<1>10. CASE LoopDisconnected(p)
  BY <1>10 DEF LoopDisconnected, Ended
<1>11. CASE LoopRetries(p)
  BY <1>11 DEF LoopRetries
<1>12. CASE PasswordIssued(p)
  BY <1>12 DEF PasswordIssued
<1>13. CASE OnConnect(p)
  BY <1>13 DEF OnConnect
<1>14. CASE Subscribed(p)
  <2> USE <1>14 DEF Subscribed, Connected, Poll, TakeBuffer, AwaitMessage
  <2>1. CASE loop[p] = "none"
    BY <2>1
  <2>2. CASE loop[p] # "none" /\ received[p] > 0
    BY <2>2
  <2>3. CASE loop[p] # "none" /\ ~(received[p] > 0)
    BY <2>3
  <2> QED
    BY <2>1, <2>2, <2>3
<1>15. CASE SubscribeFails(p)
  <2> USE <1>15 DEF SubscribeFails, Connected, Fault, Throw, StartFails, LoopFails,
          Deactivate, Unregister, End, Disconnects
  <2>1. CASE loop[p] = "none"
    BY <2>1
  <2>2. CASE loop[p] # "none" /\ pollingActive[p]
    BY <2>2
  <2>3. CASE loop[p] # "none" /\ ~pollingActive[p]
    BY <2>3
  <2> QED
    BY <2>1, <2>2, <2>3
<1>16. CASE StopSeesLoopDone(p)
  <2> USE <1>16 DEF StopSeesLoopDone, Disconnect, Stopped, Unregister, End
  <2>1. CASE client[p]
    BY <2>1
  <2>2. CASE ~client[p]
    BY <2>2
  <2> QED
    BY <2>1, <2>2
<1>17. CASE StopEnded(p)
  BY <1>17 DEF StopEnded, Ended, Stopped, Unregister
<1>18. CASE StartAccount(p)
  BY <1>18 DEF StartAccount
<1>19. CASE StopAccount(p)
  <2> USE <1>19 DEF StopAccount, Deactivate, AwaitsLoop, Disconnect, Stopped,
          Unregister, End
  <2>1. CASE client[p]
    BY <2>1
  <2>2. CASE ~client[p]
    BY <2>2
  <2> QED
    BY <2>1, <2>2
<1>20. CASE InitFails(p)
  <2> USE <1>20 DEF InitFails, Fault, Throw, StartFails, LoopFails, Deactivate,
          Unregister
  <2>1. CASE loop[p] = "none"
    BY <2>1
  <2>2. CASE loop[p] # "none" /\ pollingActive[p]
    BY <2>2
  <2>3. CASE loop[p] # "none" /\ ~pollingActive[p]
    BY <2>3
  <2> QED
    BY <2>1, <2>2, <2>3
<1>21. CASE PasswordFails(p)
  <2> USE <1>21 DEF PasswordFails, Fault, Throw, StartFails, LoopFails, Deactivate,
          Unregister
  <2>1. CASE loop[p] = "none"
    BY <2>1
  <2>2. CASE loop[p] # "none" /\ pollingActive[p]
    BY <2>2
  <2>3. CASE loop[p] # "none" /\ ~pollingActive[p]
    BY <2>3
  <2> QED
    BY <2>1, <2>2, <2>3
<1>22. CASE OnError(p)
  <2> USE <1>22 DEF OnError, Fault, Throw, StartFails, LoopFails, Deactivate,
          Unregister
  <2>1. CASE loop[p] = "none"
    BY <2>1
  <2>2. CASE loop[p] # "none" /\ pollingActive[p]
    BY <2>2
  <2>3. CASE loop[p] # "none" /\ ~pollingActive[p]
    BY <2>3
  <2> QED
    BY <2>1, <2>2, <2>3
<1>23. CASE OnClose(p)
  BY <1>23 DEF OnClose, Fault
<1>24. CASE MessageArrives(p)
  <2> USE <1>24 DEF MessageArrives, ListenerRuns, CanFinish, RemoveListener
  <2>1. CASE listeners[p] = 0
    BY <2>1
  <2>2. CASE listeners[p] = 1 /\ loop[p] = "poll" /\ client[p]
    BY <2>2
  <2>3. CASE listeners[p] = 1 /\ ~(loop[p] = "poll" /\ client[p])
    BY <2>3
  <2> QED
    BY <2>1, <2>2, <2>3
<1> QED
  BY <1>1, <1>2, <1>3, <1>4, <1>5, <1>6, <1>7, <1>8, <1>9, <1>10, <1>11, <1>12,
     <1>13, <1>14, <1>15, <1>16, <1>17, <1>18, <1>19, <1>20, <1>21, <1>22, <1>23,
     <1>24
     DEF Step, TaskStep, LoopStep, DialStep, StopStep

\* A step of p keeps the map in agreement with its start.
LEMMA MapOwn ==
  ASSUME ThreadTypes, ClientTypes, BufferTypes, stopping = None => stopAt = "none",
         NEW p \in Providers, None # p, MapAt(p), StopAt(p), ThreadAt(p), Step(p)
  PROVE  MapAt(p)'
<1> USE DEF MapAt, StopAt, ThreadAt, Pending, InStart, Starting, Settled,
            threadVars, clientVars, ThreadTypes, ClientTypes, BufferTypes
<1>1. CASE Initialized(p)
  BY <1>1 DEF Initialized
<1>2. CASE TaskReturns(p)
  BY <1>2 DEF TaskReturns
<1>3. CASE FailedStartEnded(p)
  BY <1>3 DEF FailedStartEnded, Ended, Unregister
<1>4. CASE PollTimesOut(p)
  BY <1>4 DEF PollTimesOut, CanFinish, RemoveListener
<1>5. CASE MessageHandled(p)
  BY <1>5 DEF MessageHandled
<1>6. CASE LoopStops(p)
  BY <1>6 DEF LoopStops
<1>7. CASE LoopPolls(p)
  <2> USE <1>7 DEF LoopPolls, Connected, Poll, TakeBuffer, AwaitMessage
  <2>1. CASE loop[p] = "none"
    BY <2>1
  <2>2. CASE loop[p] # "none" /\ received[p] > 0
    BY <2>2
  <2>3. CASE loop[p] # "none" /\ ~(received[p] > 0)
    BY <2>3
  <2> QED
    BY <2>1, <2>2, <2>3
<1>8. CASE LoopReconnects(p)
  BY <1>8 DEF LoopReconnects
<1>9. CASE LoopFindsOldClient(p)
  <2> USE <1>9 DEF LoopFindsOldClient, Connected, Throw, StartFails, LoopFails,
          Deactivate, Unregister
  <2>1. CASE loop[p] = "none"
    BY <2>1
  <2>2. CASE loop[p] # "none" /\ pollingActive[p]
    BY <2>2
  <2>3. CASE loop[p] # "none" /\ ~pollingActive[p]
    BY <2>3
  <2> QED
    BY <2>1, <2>2, <2>3
<1>10. CASE LoopDisconnected(p)
  BY <1>10 DEF LoopDisconnected, Ended
<1>11. CASE LoopRetries(p)
  BY <1>11 DEF LoopRetries
<1>12. CASE PasswordIssued(p)
  BY <1>12 DEF PasswordIssued
<1>13. CASE OnConnect(p)
  BY <1>13 DEF OnConnect
<1>14. CASE Subscribed(p)
  <2> USE <1>14 DEF Subscribed, Connected, Poll, TakeBuffer, AwaitMessage
  <2>1. CASE loop[p] = "none"
    BY <2>1
  <2>2. CASE loop[p] # "none" /\ received[p] > 0
    BY <2>2
  <2>3. CASE loop[p] # "none" /\ ~(received[p] > 0)
    BY <2>3
  <2> QED
    BY <2>1, <2>2, <2>3
<1>15. CASE SubscribeFails(p)
  <2> USE <1>15 DEF SubscribeFails, Connected, Fault, Throw, StartFails, LoopFails,
          Deactivate, Unregister, End, Disconnects
  <2>1. CASE loop[p] = "none"
    BY <2>1
  <2>2. CASE loop[p] # "none" /\ pollingActive[p]
    BY <2>2
  <2>3. CASE loop[p] # "none" /\ ~pollingActive[p]
    BY <2>3
  <2> QED
    BY <2>1, <2>2, <2>3
<1>16. CASE StopSeesLoopDone(p)
  <2> USE <1>16 DEF StopSeesLoopDone, Disconnect, Stopped, Unregister, End
  <2>1. CASE client[p]
    BY <2>1
  <2>2. CASE ~client[p]
    BY <2>2
  <2> QED
    BY <2>1, <2>2
<1>17. CASE StopEnded(p)
  BY <1>17 DEF StopEnded, Ended, Stopped, Unregister
<1>18. CASE StartAccount(p)
  BY <1>18 DEF StartAccount
<1>19. CASE StopAccount(p)
  <2> USE <1>19 DEF StopAccount, Deactivate, AwaitsLoop, Disconnect, Stopped,
          Unregister, End
  <2>1. CASE client[p]
    BY <2>1
  <2>2. CASE ~client[p]
    BY <2>2
  <2> QED
    BY <2>1, <2>2
<1>20. CASE InitFails(p)
  <2> USE <1>20 DEF InitFails, Fault, Throw, StartFails, LoopFails, Deactivate,
          Unregister
  <2>1. CASE loop[p] = "none"
    BY <2>1
  <2>2. CASE loop[p] # "none" /\ pollingActive[p]
    BY <2>2
  <2>3. CASE loop[p] # "none" /\ ~pollingActive[p]
    BY <2>3
  <2> QED
    BY <2>1, <2>2, <2>3
<1>21. CASE PasswordFails(p)
  <2> USE <1>21 DEF PasswordFails, Fault, Throw, StartFails, LoopFails, Deactivate,
          Unregister
  <2>1. CASE loop[p] = "none"
    BY <2>1
  <2>2. CASE loop[p] # "none" /\ pollingActive[p]
    BY <2>2
  <2>3. CASE loop[p] # "none" /\ ~pollingActive[p]
    BY <2>3
  <2> QED
    BY <2>1, <2>2, <2>3
<1>22. CASE OnError(p)
  <2> USE <1>22 DEF OnError, Fault, Throw, StartFails, LoopFails, Deactivate,
          Unregister
  <2>1. CASE loop[p] = "none"
    BY <2>1
  <2>2. CASE loop[p] # "none" /\ pollingActive[p]
    BY <2>2
  <2>3. CASE loop[p] # "none" /\ ~pollingActive[p]
    BY <2>3
  <2> QED
    BY <2>1, <2>2, <2>3
<1>23. CASE OnClose(p)
  BY <1>23 DEF OnClose, Fault
<1>24. CASE MessageArrives(p)
  <2> USE <1>24 DEF MessageArrives, ListenerRuns, CanFinish, RemoveListener
  <2>1. CASE listeners[p] = 0
    BY <2>1
  <2>2. CASE listeners[p] = 1 /\ loop[p] = "poll" /\ client[p]
    BY <2>2
  <2>3. CASE listeners[p] = 1 /\ ~(loop[p] = "poll" /\ client[p])
    BY <2>3
  <2> QED
    BY <2>1, <2>2, <2>3
<1> QED
  BY <1>1, <1>2, <1>3, <1>4, <1>5, <1>6, <1>7, <1>8, <1>9, <1>10, <1>11, <1>12,
     <1>13, <1>14, <1>15, <1>16, <1>17, <1>18, <1>19, <1>20, <1>21, <1>22, <1>23,
     <1>24
     DEF Step, TaskStep, LoopStep, DialStep, StopStep

--------------------------------------------------------------------------------
(* The invariant. *)

\* The invariant holds before the first start.
LEMMA InvHoldsAtFirst == BoundsAssumption /\ Init => ChannelInv
<1> SUFFICES ASSUME BoundsAssumption, Init
             PROVE  ChannelInv
  OBVIOUS
<1>1. ChannelTypeOK
  BY DEF Init, ChannelTypeOK, ThreadTypes, ClientTypes, BufferTypes, Starting, Settled
<1>2. ASSUME NEW p \in Providers
      PROVE  At(p)
  BY NoneIsNoProvider
     DEF Init, At, BufferAt, ThreadAt, LinkAt, StopAt, MapAt, InStart, Pending, Starting, Quiet
<1> QED
  BY <1>1, <1>2 DEF Init, ChannelInv, OneByOne

\* Every step keeps the invariant.
LEMMA InvKept == BoundsAssumption /\ ChannelInv /\ [Next]_vars => ChannelInv'
<1> SUFFICES ASSUME BoundsAssumption, ChannelInv, [Next]_vars
             PROVE  ChannelInv'
  OBVIOUS
<1>1. ThreadTypes /\ ClientTypes /\ BufferTypes /\ OneByOne
  BY DEF ChannelInv, ChannelTypeOK
<1>2. stopping = None => stopAt = "none"
  BY DEF ChannelInv
<1>3. \A p \in Providers : At(p)
  BY DEF ChannelInv
<1>4. CASE UNCHANGED vars
  BY <1>4
     DEF ChannelInv, vars, threadVars, clientVars, ChannelTypeOK, ThreadTypes, ClientTypes,
         BufferTypes, OneByOne, At, BufferAt, ThreadAt, LinkAt, StopAt, MapAt, InStart, Pending,
         Quiet
<1>5. ASSUME NEW p \in Providers, Step(p)
      PROVE  ChannelInv'
  <2>1. None # p /\ BufferAt(p) /\ ThreadAt(p) /\ LinkAt(p) /\ StopAt(p) /\ MapAt(p)
    BY <1>3, NoneIsNoProvider DEF At
  <2>2. ChannelTypeOK'
    BY <1>1, <1>5, <2>1, ThreadTypesKept, ClientTypesKept, BufferTypesKept DEF ChannelTypeOK
  <2>3. (stopping = None => stopAt = "none")'
    BY <1>1, <1>2, <1>5, <2>1, NoneAtRest
  <2>4. OneByOne'
    BY <1>1, <1>5, <2>1, OneByOneKept
  <2>5. At(p)'
    BY <1>1, <1>2, <1>5, <2>1, BufferOwn, ThreadOwn, LinkOwn, StopOwn, MapOwn DEF At
  <2>6. ASSUME NEW q \in Providers, q # p
        PROVE  At(q)'
    BY <1>1, <1>2, <1>3, <1>5, <2>6, OthersKept
  <2> QED
    BY <2>2, <2>3, <2>4, <2>5, <2>6 DEF ChannelInv
<1> QED
  BY <1>4, <1>5 DEF Next, Step

\* The invariant holds throughout: at every await of start, loop and stop.
THEOREM ChannelInvHolds == Spec => []ChannelInv
<1>1. Init => ChannelInv
  BY InvHoldsAtFirst, BoundsAssumption
<1>2. ChannelInv /\ [Next]_vars => ChannelInv'
  BY InvKept, BoundsAssumption
<1> QED
  BY <1>1, <1>2, PTL DEF Spec

\* Type correctness.
THEOREM TypeCorrect == Spec => []ChannelTypeOK
<1>1. ChannelInv => ChannelTypeOK
  BY DEF ChannelInv
<1> QED
  BY <1>1, ChannelInvHolds, PTL

\* A stopAccount that found a poll loop tears the provider down, wherever the loop was.
THEOREM StopsTearDown == Spec => []StoppedIsQuiet
<1>1. ChannelInv => StoppedIsQuiet
  BY DEF ChannelInv, At, StopAt, StoppedIsQuiet
<1> QED
  BY <1>1, ChannelInvHolds, PTL

\* A start that failed leaves no loop and no connection.
THEOREM FailedStartsTearDown == Spec => []FailedStartIsQuiet
<1>1. ChannelInv => FailedStartIsQuiet
  BY DEF ChannelInv, At, LinkAt, FailedStartIsQuiet
<1> QED
  BY <1>1, ChannelInvHolds, PTL

\* The map of providers follows the starts.
THEOREM MapHoldsTheRunning == Spec => []MapFollowsStarts
<1>1. ChannelInv => MapFollowsStarts
  BY DEF ChannelInv, At, MapAt, MapFollowsStarts, Pending
<1> QED
  BY <1>1, ChannelInvHolds, PTL

\* No message that arrives on a live connection is swallowed between two polls.
THEOREM PollsReturnEverything == Spec => []NothingSwallowed
<1>1. ChannelInv => NothingSwallowed
  BY DEF ChannelInv, At, BufferAt, NothingSwallowed
<1> QED
  BY <1>1, ChannelInvHolds, PTL

--------------------------------------------------------------------------------
(* What StopReturns and Resubscribes rest on: a loop that is waited for, or that *)
(* should be polling, never waits for nothing.                                   *)

\* The loop is at an await that is answered: a timer, a batch, a callback, or a
\* connection that is asked for.
Moves(p) ==
    /\ loop[p] \notin {"none", "lost"}
    /\ loop[p] = "dial" => \/ dial[p] \in {"password", "suback"}
                           \/ dial[p] = "connack" /\ link[p] = "connecting"

\* Unless it is stuck: the loop that a stopAccount waits for goes on to its end, and
\* that of a running account nobody stopped goes on and is not asked to end.
LoopsMove ==
    \A p \in Providers : ~Stuck(p) =>
        /\ stopping = p /\ stopAt = "loop" => Moves(p)
        /\ task[p] = "running" /\ ~aborted[p] =>
              Moves(p) /\ pollingActive[p] /\ loop[p] # "done"

\* A connect() that waits has a connection, and the loop of an account that was not
\* stopped is told to go on.
LoopAt(p) ==
    /\ dial[p] = "connack" => link[p] # "none"
    /\ loop[p] # "none" /\ ~aborted[p] => pollingActive[p] /\ loop[p] # "done"

\* The steps of a provider, by what they do to LoopAt.
LEMMA LoopOwn ==
  ASSUME ThreadTypes, ClientTypes, NEW p \in Providers, None # p, At(p), LoopAt(p), Step(p)
  PROVE  LoopAt(p)'
<1> USE DEF threadVars, clientVars, ThreadTypes, ClientTypes, LoopAt, InStart
<1>0. client[p] \in BOOLEAN /\ ThreadAt(p) /\ LinkAt(p) /\ StopAt(p)
  BY DEF At
<1>1. CASE TaskStep(p)
  BY <1>0, <1>1 DEF TaskStep, Initialized, TaskReturns, FailedStartEnded, Ended, LinkAt, ThreadAt
<1>2. CASE PollTimesOut(p) \/ MessageHandled(p) \/ MessageArrives(p)
  BY <1>2 DEF PollTimesOut, MessageHandled, MessageArrives, ListenerRuns
<1>3. CASE LoopStops(p) \/ LoopReconnects(p) \/ LoopRetries(p) \/ LoopDisconnected(p)
  BY <1>3 DEF LoopStops, LoopReconnects, LoopRetries, LoopDisconnected, Ended
<1>4. CASE LoopPolls(p)
  BY <1>4 DEF LoopPolls, Poll, TakeBuffer, AwaitMessage
<1>5. CASE LoopFindsOldClient(p)
  BY <1>5 DEF LoopFindsOldClient, Throw, LoopFails
<1>6. CASE PasswordIssued(p) \/ OnConnect(p)
  BY <1>6 DEF PasswordIssued, OnConnect
<1>7. CASE Subscribed(p)
  BY <1>7 DEF Subscribed, Poll, TakeBuffer, AwaitMessage
<1>8. CASE SubscribeFails(p)
  BY <1>8 DEF SubscribeFails, Throw, StartFails, LoopFails, Deactivate, End
<1>9. CASE StopSeesLoopDone(p) \/ StopEnded(p)
  BY <1>9 DEF StopSeesLoopDone, StopEnded, Disconnect, Stopped, Ended, End
<1>10. CASE StartAccount(p) \/ OnClose(p)
  BY <1>10 DEF StartAccount, OnClose
<1>11. CASE StopAccount(p)
  BY <1>11 DEF StopAccount, Deactivate, Disconnect, Stopped, End
<1>12. CASE InitFails(p) \/ PasswordFails(p)
  BY <1>12 DEF InitFails, PasswordFails, Throw, StartFails, LoopFails, Deactivate
<1>13. CASE OnError(p)
  BY <1>13 DEF OnError, Throw, StartFails, LoopFails, Deactivate
<1> QED
  BY <1>1, <1>2, <1>3, <1>4, <1>5, <1>6, <1>7, <1>8, <1>9, <1>10, <1>11, <1>12, <1>13
     DEF Step, LoopStep, DialStep, StopStep

\* Every loop has what it waits for.
LEMMA LoopKept ==
  ASSUME BoundsAssumption, ChannelInv, \A p \in Providers : LoopAt(p), [Next]_vars
  PROVE  \A p \in Providers : LoopAt(p)'
<1>1. CASE UNCHANGED vars
  BY <1>1 DEF vars, threadVars, clientVars, LoopAt
<1>2. ASSUME NEW p \in Providers, Step(p), NEW q \in Providers PROVE LoopAt(q)'
  <2>1. ThreadTypes /\ ClientTypes /\ BufferTypes /\ At(p) /\ None # p
    BY NoneIsNoProvider DEF ChannelInv, ChannelTypeOK
  <2>2. CASE q = p
    BY <1>2, <2>1, <2>2, LoopOwn
  <2>3. CASE q # p
    <3>1. /\ aborted'[q] = aborted[q] /\ pollingActive'[q] = pollingActive[q]
          /\ loop'[q] = loop[q] /\ dial'[q] = dial[q]
          /\ link'[q] # link[q] => link[q] = "open" /\ link'[q] = "closed"
      BY <1>2, <2>1, <2>3, OthersUntouched
    <3> QED
      BY <3>1 DEF LoopAt
  <2> QED
    BY <2>2, <2>3
<1> QED
  BY <1>1, <1>2 DEF Next, Step

\* No poll loop that somebody counts on stops short of being stuck.
THEOREM LoopsKeepMoving == Spec => []LoopsMove
<1>1. ASSUME ChannelInv, \A p \in Providers : LoopAt(p), NEW p \in Providers, ~Stuck(p)
      PROVE  /\ stopping = p /\ stopAt = "loop" => Moves(p)
             /\ task[p] = "running" /\ ~aborted[p] =>
                   Moves(p) /\ pollingActive[p] /\ loop[p] # "done"
  <2>1. ThreadAt(p) /\ LinkAt(p) /\ StopAt(p) /\ ThreadTypes /\ ClientTypes
    BY <1>1 DEF ChannelInv, At, ChannelTypeOK
  <2>2. ASSUME loop[p] = "dial", found[p] # "start"
        PROVE  dial[p] \in {"password", "suback"} \/ (dial[p] = "connack" /\ link[p] = "connecting")
    <3>1. dial[p] \in {"password", "connack", "suback"}
      BY <2>1, <2>2 DEF ThreadAt, ThreadTypes
    <3>2. dial[p] = "connack" => link[p] = "connecting"
      BY <1>1, <2>1, <2>2 DEF LinkAt, LoopAt, Stuck, ClientTypes
    <3> QED
      BY <3>1, <3>2
  <2>3. loop[p] # "lost"
    BY <1>1 DEF Stuck
  <2>4. stopping = p /\ stopAt = "loop" => found[p] = "loop" /\ loop[p] # "none"
    BY <2>1 DEF StopAt, InStart
  <2>5. task[p] = "running" => loop[p] # "none"
    BY <2>1 DEF ThreadAt, InStart
  <2>6. ~aborted[p] => found[p] = "nothing"
    BY <2>1 DEF StopAt
  <2> QED
    BY <1>1, <2>2, <2>3, <2>4, <2>5, <2>6 DEF Moves, LoopAt
<1>2. ChannelInv /\ (\A p \in Providers : LoopAt(p)) => LoopsMove
  BY <1>1 DEF LoopsMove
<1>3. Init => \A p \in Providers : LoopAt(p)
  BY DEF Init, LoopAt
<1>4. ChannelInv /\ (\A p \in Providers : LoopAt(p)) /\ [Next]_vars => (\A p \in Providers : LoopAt(p))'
  BY LoopKept, BoundsAssumption
<1> QED
  BY <1>2, <1>3, <1>4, ChannelInvHolds, PTL DEF Spec

================================================================================
