-------------------------- MODULE SendSignedDmProofs --------------------------
(***************************************************************************)
(* Theorems about SendSignedDm, for any number of bots, calls, rotations   *)
(* and faults.                                                             *)
(*                                                                         *)
(* Two invariants carry them.  QueueInv: the chain of a bot holds its      *)
(* unsettled calls in call order, and all but the first are queued.  So    *)
(* the call that steps is alone with the bot's cached identity, and what   *)
(* is true of one call and its bot (CallAt, BotAt) survives the steps of   *)
(* the others.                                                             *)
(***************************************************************************)
EXTENDS SendSignedDm, TLAPS, SequenceTheorems

Working == {"init", "initkey", "ready", "signed", "password", "connack", "open", "puback",
            "closing", "hung", "lost"}

\* The types, without the last conjunct of SendTypeOK, which is not inductive alone.
Types ==
    /\ at \in [Sends -> {"new", "queued", "done"} \cup Working]
    /\ result \in [Sends -> {"none", "ok", "error"}]
    /\ chain \in [Bots -> Seq(Sends)]
    /\ aborted \in [Sends -> {"no", "early", "late"}]
    /\ cached \in [Bots -> BOOLEAN] /\ row \in [Bots -> Keys \cup {Unread}]
    /\ onchain \in [Bots -> Keys] /\ file \in [Bots -> Keys]
    /\ pass \in [Sends -> Keys \cup {Unread}]
    /\ link \in [Sends -> {"opening", "open", "none", "closed"}]
    /\ taken \in [Sends -> BOOLEAN] /\ dropped \in [Sends -> BOOLEAN]
    /\ settled \in [Sends -> BOOLEAN] /\ stale \in [Bots -> Nat] /\ faults \in Nat

\* Calls come in the order of their numbers.
CallsInOrder == \A s, t \in Sends : s < t /\ at[s] = "new" => at[t] = "new"

\* The chain of a bot: its unsettled calls in call order, the first may run.
ChainAt(b) ==
    /\ \A i, j \in 1 .. Len(chain[b]) : i < j => chain[b][i] < chain[b][j]
    /\ \A i \in 1 .. Len(chain[b]) :
          /\ BotOf[chain[b][i]] = b /\ at[chain[b][i]] \notin {"new", "done"}
          /\ i # 1 => at[chain[b][i]] = "queued"

InChain(s) ==
    at[s] \notin {"new", "done"} => \E i \in 1 .. Len(chain[BotOf[s]]) : chain[BotOf[s]][i] = s

QueueInv ==
    /\ CallsInOrder
    /\ \A b \in Bots : ChainAt(b)
    /\ \A s \in Sends : InChain(s)

\* A call that works, or whose turn it is.
Runs(s) ==
    at[s] \in Working \/ (at[s] = "queued" /\ chain[BotOf[s]] # <<>> /\ Head(chain[BotOf[s]]) = s)

LinkAt(s) == link[s] \in Live => at[s] \in {"connack", "open", "puback", "closing"}

\* What a call was told and how far it got.
ToldAt(s) ==
    /\ result[s] = "ok" => taken[s]
    /\ result[s] # "none" => at[s] \in {"closing", "done"}
    /\ at[s] = "closing" => result[s] # "error"
    /\ taken[s] => at[s] \in {"puback", "closing", "lost", "done"}
    /\ taken[s] /\ at[s] \in {"closing", "done"} => result[s] = "ok" \/ dropped[s]
    /\ at[s] \in {"puback", "lost"} => link[s] = "open" \/ dropped[s]
    /\ at[s] = "lost" => dropped[s]
    /\ aborted[s] = "early" => ~taken[s] /\ at[s] \notin {"puback", "lost"}

\* A call that needs the cached identity has it, and a row where it compares one.
EntryAt(s) ==
    /\ at[s] \in {"init", "initkey", "ready", "signed", "password"} => cached[BotOf[s]]
    /\ at[s] \in {"initkey", "password"} => row[BotOf[s]] # Unread

Rotated(b) == file[b] = MaxKey /\ onchain[b] = MaxKey

\* After a failure for the old key the calls of a bot use the last one.
StaleAt(s) ==
    /\ settled[s] => Rotated(BotOf[s])
    /\ stale[BotOf[s]] # 0 /\ at[s] = "connack" => pass[s] = MaxKey

CallAt(s) == LinkAt(s) /\ ToldAt(s) /\ EntryAt(s) /\ StaleAt(s)

BotAt(b) ==
    /\ ~cached[b] => row[b] = Unread
    /\ stale[b] <= 1
    /\ stale[b] # 0 => Rotated(b) /\ row[b] \in {Unread, MaxKey}

\* The inductive invariant.
SendInv ==
    /\ Types /\ QueueInv
    /\ \A s \in Sends : CallAt(s)
    /\ \A b \in Bots : BotAt(b)

----------------------------------------------------------------------------
(* The queue *)

\* BotOf is a function to Bots.
LEMMA BotOfType == ASSUME NEW s \in Sends PROVE BotOf[s] \in Bots /\ s \in Nat
BY SendAssumption DEF Sends

\* The head of a chain.
LEMMA HeadIsFirst == ASSUME NEW S, NEW q \in Seq(S), q # <<>> PROVE Head(q) = q[1] /\ Len(q) \in Nat \ {0}
OBVIOUS

\* A queued call is in a chain that is not empty.
LEMMA RunnerExists ==
  ASSUME Types, QueueInv, NEW s \in Sends, at[s] = "queued"
  PROVE  chain[BotOf[s]] # <<>>
<1>1. PICK i \in 1 .. Len(chain[BotOf[s]]) : chain[BotOf[s]][i] = s
  BY DEF QueueInv, InChain
<1>2. Len(<<>>) = 0 /\ 1 .. 0 = {}
  OBVIOUS
<1> QED
  BY <1>1, <1>2

\* The call that runs is the first of its chain, and the only one of its bot.
LEMMA RunnerIsAlone ==
  ASSUME Types, QueueInv, NEW s \in Sends, Runs(s)
  PROVE  /\ chain[BotOf[s]] # <<>> /\ Len(chain[BotOf[s]]) \in Nat \ {0} /\ chain[BotOf[s]][1] = s
         /\ at[s] \notin {"new", "done"}
         /\ \A t \in Sends \ {s} : BotOf[t] = BotOf[s] => at[t] \notin Working
<1>1. BotOf[s] \in Bots /\ chain[BotOf[s]] \in Seq(Sends)
  BY BotOfType DEF Types
<1>2. chain[BotOf[s]] # <<>> /\ Len(chain[BotOf[s]]) \in Nat \ {0} /\ chain[BotOf[s]][1] = s
  <2>1. CASE at[s] \in Working
    <3>1. PICK i \in 1 .. Len(chain[BotOf[s]]) : chain[BotOf[s]][i] = s
      BY <2>1 DEF QueueInv, InChain, Working
    <3>2. i = 1
      BY <1>1, <2>1, <3>1 DEF QueueInv, ChainAt, Working
    <3> QED
      BY <1>1, <3>1, <3>2
  <2>2. CASE at[s] = "queued" /\ chain[BotOf[s]] # <<>> /\ Head(chain[BotOf[s]]) = s
    BY <1>1, <2>2, HeadIsFirst
  <2> QED
    BY <2>1, <2>2 DEF Runs
<1>3. ASSUME NEW t \in Sends \ {s}, BotOf[t] = BotOf[s], at[t] \in Working PROVE FALSE
  <2>1. PICK i \in 1 .. Len(chain[BotOf[s]]) : chain[BotOf[s]][i] = t
    BY <1>3 DEF QueueInv, InChain, Working
  <2>2. i # 1
    BY <1>2, <2>1
  <2> QED
    BY <1>1, <1>3, <2>1, <2>2 DEF QueueInv, ChainAt, Working
<1>4. at[s] \notin {"new", "done"}
  BY DEF Runs, Working
<1> QED
  BY <1>2, <1>3, <1>4

\* The first call of a chain goes on.
LEMMA QueueGoesOn ==
  ASSUME Types, QueueInv, NEW s \in Sends, Runs(s), NEW w \in Working,
         at' = [at EXCEPT ![s] = w], UNCHANGED chain
  PROVE  QueueInv'
<1>1. \A t \in Sends : at'[t] = IF t = s THEN w ELSE at[t]
  BY DEF Types
<1>2. at[s] \notin {"new", "done"} /\ chain[BotOf[s]][1] = s /\ w \notin {"new", "done"}
  BY RunnerIsAlone DEF Working
<1>3. CallsInOrder'
  BY <1>1, <1>2 DEF QueueInv, CallsInOrder
<1>4. ASSUME NEW b \in Bots PROVE ChainAt(b)'
  <2>1. \A i \in 1 .. Len(chain[b]) : chain[b][i] \in Sends
    BY DEF Types
  <2>2. ASSUME NEW i \in 1 .. Len(chain[b]), chain[b][i] = s PROVE i = 1
    <3>1. b = BotOf[s]
      BY <2>2 DEF QueueInv, ChainAt
    <3>2. Len(chain[b]) \in Nat \ {0}
      BY <3>1, RunnerIsAlone
    <3> QED
      BY <1>2, <2>2, <3>1, <3>2, BotOfType DEF QueueInv, ChainAt
  <2> QED
    BY <1>1, <1>2, <2>1, <2>2 DEF QueueInv, ChainAt
<1>5. ASSUME NEW t \in Sends PROVE InChain(t)'
  BY <1>1, <1>2 DEF QueueInv, InChain
<1> QED
  BY <1>3, <1>4, <1>5 DEF QueueInv

\* The first call of a chain settles.
LEMMA QueueSettles ==
  ASSUME Types, QueueInv, NEW s \in Sends, Runs(s),
         at' = [at EXCEPT ![s] = "done"], chain' = [chain EXCEPT ![BotOf[s]] = Tail(@)]
  PROVE  QueueInv' /\ chain' \in [Bots -> Seq(Sends)]
<1> DEFINE q == chain[BotOf[s]]
<1>1. \A t \in Sends : at'[t] = IF t = s THEN "done" ELSE at[t]
  BY DEF Types
<1>2. /\ at[s] \notin {"new", "done"} /\ q[1] = s /\ q # <<>> /\ Len(q) \in Nat \ {0}
      /\ BotOf[s] \in Bots /\ q \in Seq(Sends)
  BY RunnerIsAlone, BotOfType DEF Types
<1>3. /\ Tail(q) \in Seq(Sends) /\ Len(Tail(q)) = Len(q) - 1
      /\ \A i \in 1 .. Len(Tail(q)) : Tail(q)[i] = q[i + 1]
  BY <1>2, HeadTailProperties
<1>4. \A b \in Bots : chain'[b] = IF b = BotOf[s] THEN Tail(q) ELSE chain[b]
  BY DEF Types
<1>5. chain' \in [Bots -> Seq(Sends)]
  BY <1>2, <1>3 DEF Types
<1>6. CallsInOrder'
  BY <1>1, <1>2 DEF QueueInv, CallsInOrder
<1>7. ASSUME NEW b \in Bots PROVE ChainAt(b)'
  <2>1. CASE b = BotOf[s]
    <3> HIDE DEF q
    <3>0. chain'[b] = Tail(q)
      BY <1>4, <2>1
    <3>1. \A i \in 1 .. Len(q) : q[i] \in Sends
      BY <1>2
    <3>2. /\ \A i, j \in 1 .. Len(q) : i < j => q[i] < q[j]
          /\ \A i \in 1 .. Len(q) : BotOf[q[i]] = b /\ at[q[i]] \notin {"new", "done"}
                                    /\ (i # 1 => at[q[i]] = "queued")
      BY <2>1 DEF QueueInv, ChainAt, q
    <3>3. ASSUME NEW i \in 1 .. Len(Tail(q))
          PROVE  /\ i + 1 \in 1 .. Len(q) /\ Tail(q)[i] = q[i + 1]
                 /\ BotOf[q[i + 1]] = b /\ at'[q[i + 1]] = "queued"
      <4>1. i + 1 \in 1 .. Len(q) /\ i + 1 # 1 /\ 1 \in 1 .. Len(q) /\ 1 < i + 1 /\ Tail(q)[i] = q[i + 1]
        BY <1>2, <1>3
      <4>2. q[1] < q[i + 1] /\ q[i + 1] \in Sends /\ s \in Nat
        BY <3>1, <3>2, <4>1, BotOfType
      <4>3. q[i + 1] # s
        BY <1>2, <4>2
      <4> QED
        BY <1>1, <3>2, <4>1, <4>2, <4>3
    <3>4. \A i, j \in 1 .. Len(Tail(q)) : i < j => Tail(q)[i] < Tail(q)[j]
      <4> SUFFICES ASSUME NEW i \in 1 .. Len(Tail(q)), NEW j \in 1 .. Len(Tail(q)), i < j
                   PROVE  Tail(q)[i] < Tail(q)[j]
        OBVIOUS
      <4>1. i + 1 < j + 1
        BY <1>2, <1>3
      <4> QED
        BY <3>2, <3>3, <4>1
    <3> QED
      BY <3>0, <3>3, <3>4 DEF ChainAt
  <2>2. CASE b # BotOf[s]
    <3>1. chain'[b] = chain[b] /\ \A i \in 1 .. Len(chain[b]) : chain[b][i] \in Sends
      BY <1>4, <2>2 DEF Types
    <3>2. \A i \in 1 .. Len(chain[b]) : chain[b][i] # s
      BY <2>2 DEF QueueInv, ChainAt
    <3> QED
      BY <1>1, <3>1, <3>2 DEF QueueInv, ChainAt
  <2> QED
    BY <2>1, <2>2
<1>8. ASSUME NEW t \in Sends PROVE InChain(t)'
  <2> SUFFICES ASSUME at'[t] \notin {"new", "done"}
               PROVE  \E i \in 1 .. Len(chain'[BotOf[t]]) : chain'[BotOf[t]][i] = t
    BY DEF InChain
  <2>1. t # s /\ at[t] \notin {"new", "done"} /\ BotOf[t] \in Bots
    BY <1>1, BotOfType
  <2>2. PICK i \in 1 .. Len(chain[BotOf[t]]) : chain[BotOf[t]][i] = t
    BY <2>1 DEF QueueInv, InChain
  <2>3. CASE BotOf[t] = BotOf[s]
    <3> HIDE DEF q
    <3>1. i \in 1 .. Len(q) /\ q[i] = t /\ i # 1
      BY <1>2, <2>1, <2>2, <2>3 DEF q
    <3>2. i - 1 \in 1 .. Len(Tail(q)) /\ (i - 1) + 1 = i
      BY <1>2, <1>3, <3>1
    <3>3. Tail(q)[i - 1] = t
      BY <1>3, <3>1, <3>2
    <3> QED
      BY <1>4, <2>1, <2>3, <3>2, <3>3
  <2>4. CASE BotOf[t] # BotOf[s]
    BY <1>4, <2>1, <2>2, <2>4
  <2> QED
    BY <2>3, <2>4
<1> QED
  BY <1>5, <1>6, <1>7, <1>8 DEF QueueInv

\* A call joins the end of its chain.
LEMMA QueueGrows ==
  ASSUME Types, QueueInv, NEW s \in Sends, at[s] = "new", \A t \in 1 .. (s - 1) : at[t] # "new",
         at' = [at EXCEPT ![s] = "queued"], chain' = [chain EXCEPT ![BotOf[s]] = Append(@, s)]
  PROVE  QueueInv' /\ chain' \in [Bots -> Seq(Sends)]
<1> DEFINE q == chain[BotOf[s]]
           r == Append(q, s)
<1>1. \A t \in Sends : at'[t] = IF t = s THEN "queued" ELSE at[t]
  BY DEF Types
<1>2. BotOf[s] \in Bots /\ q \in Seq(Sends) /\ Len(q) \in Nat /\ \A i \in 1 .. Len(q) : q[i] \in Sends
  BY BotOfType DEF Types
<1>3. /\ r \in Seq(Sends) /\ Len(r) = Len(q) + 1 /\ r[Len(q) + 1] = s
      /\ \A i \in 1 .. Len(q) : r[i] = q[i]
  BY <1>2, AppendProperties
<1>4. \A b \in Bots : chain'[b] = IF b = BotOf[s] THEN r ELSE chain[b]
  BY DEF Types
<1>5. chain' \in [Bots -> Seq(Sends)]
  BY <1>2, <1>3 DEF Types
<1>6. CallsInOrder'
  <2> SUFFICES ASSUME NEW x \in Sends, NEW y \in Sends, x < y, at'[x] = "new" PROVE at'[y] = "new"
    BY DEF CallsInOrder
  <2>1. x # s /\ at[x] = "new" /\ at[y] = "new"
    BY <1>1 DEF QueueInv, CallsInOrder
  <2>2. y # s
    BY <2>1, SendAssumption DEF Sends
  <2> QED
    BY <1>1, <2>1, <2>2
<1>7. ASSUME NEW t \in Sends, at[t] \notin {"new", "done"} PROVE t < s
  <2>1. t # s
    BY <1>7
  <2>2. ~(s < t)
    BY <1>7 DEF QueueInv, CallsInOrder
  <2> QED
    BY <2>1, <2>2, BotOfType
<1>8. ASSUME NEW b \in Bots PROVE ChainAt(b)'
  <2>1. CASE b = BotOf[s]
    <3> HIDE DEF q, r
    <3>0. chain'[b] = r
      BY <1>4, <2>1
    <3>1. /\ \A i, j \in 1 .. Len(q) : i < j => q[i] < q[j]
          /\ \A i \in 1 .. Len(q) : BotOf[q[i]] = b /\ at[q[i]] \notin {"new", "done"}
                                    /\ (i # 1 => at[q[i]] = "queued")
      BY <2>1 DEF QueueInv, ChainAt, q
    <3>2. \A i \in 1 .. Len(q) : q[i] < s
      BY <1>2, <1>7, <3>1
    <3>3. ASSUME NEW i \in 1 .. Len(r)
          PROVE  BotOf[r[i]] = b /\ at'[r[i]] \notin {"new", "done"} /\ (i # 1 => at'[r[i]] = "queued")
      <4>1. CASE i \in 1 .. Len(q)
        <5>1. r[i] = q[i] /\ q[i] \in Sends /\ at[q[i]] # "new" /\ q[i] # s
          BY <1>2, <1>3, <3>1, <4>1
        <5> QED
          BY <1>1, <3>1, <4>1, <5>1
      <4>2. CASE i = Len(q) + 1
        BY <1>1, <1>3, <2>1, <4>2
      <4> QED
        BY <1>2, <1>3, <4>1, <4>2
    <3>4. ASSUME NEW i \in 1 .. Len(r), NEW j \in 1 .. Len(r), i < j PROVE r[i] < r[j]
      <4>1. i \in 1 .. Len(q) /\ r[i] = q[i]
        BY <1>2, <1>3, <3>4
      <4>2. CASE j \in 1 .. Len(q)
        BY <1>3, <3>1, <3>4, <4>1, <4>2
      <4>3. CASE j = Len(q) + 1
        BY <1>3, <3>2, <4>1, <4>3
      <4> QED
        BY <1>2, <1>3, <4>2, <4>3
    <3> QED
      BY <3>0, <3>3, <3>4 DEF ChainAt
  <2>2. CASE b # BotOf[s]
    <3> HIDE DEF q, r
    <3>1. chain'[b] = chain[b] /\ \A i \in 1 .. Len(chain[b]) : chain[b][i] \in Sends
      BY <1>4, <2>2 DEF Types
    <3>2. ChainAt(b) /\ \A i \in 1 .. Len(chain[b]) : chain[b][i] # s
      BY <2>2 DEF QueueInv, ChainAt
    <3>3. \A i \in 1 .. Len(chain[b]) : at'[chain[b][i]] = at[chain[b][i]]
      BY <1>1, <3>1, <3>2
    <3> QED
      BY <3>1, <3>2, <3>3 DEF ChainAt
  <2> QED
    BY <2>1, <2>2
<1>9. ASSUME NEW t \in Sends PROVE InChain(t)'
  <2> SUFFICES ASSUME at'[t] \notin {"new", "done"}
               PROVE  \E i \in 1 .. Len(chain'[BotOf[t]]) : chain'[BotOf[t]][i] = t
    BY DEF InChain
  <2>0. BotOf[t] \in Bots
    BY BotOfType
  <2>1. CASE t = s
    <3>1. Len(q) + 1 \in 1 .. Len(r)
      BY <1>2, <1>3
    <3> QED
      BY <1>2, <1>3, <1>4, <2>1, <3>1
  <2>2. CASE t # s
    <3>1. PICK i \in 1 .. Len(chain[BotOf[t]]) : chain[BotOf[t]][i] = t
      BY <1>1, <2>2 DEF QueueInv, InChain
    <3>2. CASE BotOf[t] = BotOf[s]
      <4>1. i \in 1 .. Len(r) /\ r[i] = t
        BY <1>2, <1>3, <3>1, <3>2
      <4> QED
        BY <1>4, <2>0, <3>2, <4>1
    <3>3. CASE BotOf[t] # BotOf[s]
      BY <1>4, <2>0, <3>1, <3>3
    <3> QED
      BY <3>2, <3>3
  <2> QED
    BY <2>1, <2>2
<1> QED
  BY <1>5, <1>6, <1>8, <1>9 DEF QueueInv

----------------------------------------------------------------------------
(* One step *)

\* What a step of call s leaves alone.
Frame(s) ==
    /\ \A t \in Sends \ {s} :
          /\ at'[t] = at[t] /\ result'[t] = result[t] /\ aborted'[t] = aborted[t]
          /\ pass'[t] = pass[t] /\ link'[t] = link[t] /\ taken'[t] = taken[t]
          /\ dropped'[t] = dropped[t] /\ settled'[t] = settled[t]
    /\ \A b \in Bots \ {BotOf[s]} :
          cached'[b] = cached[b] /\ row'[b] = row[b] /\ stale'[b] = stale[b]
    /\ UNCHANGED keyVars

\* The other calls keep what is true of them while s runs.
LEMMA OthersKeep ==
  ASSUME SendInv, NEW s \in Sends, Runs(s), Frame(s)
  PROVE  /\ \A t \in Sends \ {s} : CallAt(t)'
         /\ \A b \in Bots \ {BotOf[s]} : BotAt(b)'
<1>1. ASSUME NEW t \in Sends \ {s} PROVE CallAt(t)'
  <2>1. CallAt(t) /\ BotOf[t] \in Bots
    BY BotOfType DEF SendInv
  <2>2. LinkAt(t)' /\ ToldAt(t)'
    BY <2>1 DEF Frame, CallAt, LinkAt, ToldAt
  <2>3. CASE BotOf[t] = BotOf[s]
    <3>1. at'[t] \notin Working
      BY <2>3, RunnerIsAlone DEF SendInv, Frame
    <3> QED
      BY <2>1, <2>2, <3>1 DEF Frame, CallAt, EntryAt, StaleAt, Rotated, keyVars, Working
  <2>4. CASE BotOf[t] # BotOf[s]
    BY <2>1, <2>2, <2>4 DEF Frame, CallAt, EntryAt, StaleAt, Rotated, keyVars
  <2> QED
    BY <2>3, <2>4
<1>2. ASSUME NEW b \in Bots \ {BotOf[s]} PROVE BotAt(b)'
  BY DEF SendInv, Frame, BotAt, Rotated, keyVars
<1> QED
  BY <1>1, <1>2

\* What is left to show of a step of call s.
LEMMA StepKeeps ==
  ASSUME SendInv, NEW s \in Sends, Runs(s), Frame(s),
         Types', QueueInv', CallAt(s)', BotAt(BotOf[s])'
  PROVE  SendInv'
BY OthersKeep DEF SendInv

\* The state a running call steps from.
LEMMA Before ==
  ASSUME SendInv, NEW s \in Sends
  PROVE  Types /\ QueueInv /\ CallAt(s) /\ BotAt(BotOf[s]) /\ BotOf[s] \in Bots
BY BotOfType DEF SendInv

----------------------------------------------------------------------------
(* The actions *)

\* The numbers of the keys.
LEMMA KeyType == MaxKey \in Keys /\ Unread \notin Keys /\ Keys \subseteq Nat
BY SendAssumption DEF Keys, Unread

\* Nothing but a wrong key counts as a stale failure.
LEMMA SettleKeeps ==
  ASSUME SendInv, NEW s \in Sends, Runs(s), NEW r \in {"ok", "error"}, Settle(s, r)
  PROVE  QueueInv' /\ chain' \in [Bots -> Seq(Sends)] /\ at' \in [Sends -> {"new", "queued", "done"} \cup Working]
         /\ result' \in [Sends -> {"none", "ok", "error"}] /\ at'[s] = "done" /\ result'[s] = r
BY Before, QueueSettles DEF Settle, Types

\* at moves on.
LEMMA GotoKeeps ==
  ASSUME SendInv, NEW s \in Sends, Runs(s), NEW w \in Working, Goto(s, w)
  PROVE  QueueInv' /\ chain' = chain /\ at' \in [Sends -> {"new", "queued", "done"} \cup Working]
         /\ result' = result /\ at'[s] = w
BY Before, QueueGoesOn DEF Goto, Types

\* The chain reaches the call.
LEMMA StartKeeps == ASSUME SendInv, NEW s \in Sends, Start(s) PROVE SendInv'
<1>1. Runs(s) /\ at[s] \in Working \cup {"queued"}
  BY Before, RunnerExists DEF Start, Runs, Turn, Working
<1>2. Frame(s)
  BY Before DEF Start, Frame, Settle, Goto, WrongKey, Invalidate, PasswordFails, Types, callVars, botVars, keyVars
<1>3. \/ \E r \in {"ok", "error"} : Settle(s, r)
      \/ \E w \in Working : Goto(s, w)
  BY DEF Start, WrongKey, Working
<1>4. Types' /\ QueueInv'
  <2>1. /\ QueueInv' /\ chain' \in [Bots -> Seq(Sends)]
        /\ at' \in [Sends -> {"new", "queued", "done"} \cup Working]
        /\ result' \in [Sends -> {"none", "ok", "error"}]
    BY <1>1, <1>3, Before, SettleKeeps, GotoKeeps DEF Types
  <2>2. cached' \in [Bots -> BOOLEAN] /\ row' \in [Bots -> Keys \cup {Unread}]
    BY Before, KeyType DEF Start, WrongKey, Invalidate, PasswordFails, Types, callVars, botVars
  <2>3. stale' \in [Bots -> Nat] /\ faults' \in Nat
    <3>1. stale' \in [Bots -> Nat]
      <4>1. \/ stale' = stale
            \/ stale' = [stale EXCEPT ![BotOf[s]] = IF settled[s] THEN @ + 1 ELSE @]
        BY DEF Start, WrongKey, callVars
      <4>2. (IF settled[s] THEN stale[BotOf[s]] + 1 ELSE stale[BotOf[s]]) \in Nat /\ stale \in [Bots -> Nat]
        BY Before DEF Types
      <4> QED
        BY <4>1, <4>2
    <3>2. faults' \in Nat
      BY Before DEF Start, Fault, NoFault, Types
    <3> QED
      BY <3>1, <3>2
  <2>4. pass' \in [Sends -> Keys \cup {Unread}] /\ link' \in [Sends -> {"opening", "open", "none", "closed"}]
    BY Before, KeyType DEF Start, Types, callVars
  <2>5. /\ aborted' = aborted /\ taken' = taken /\ dropped' = dropped /\ UNCHANGED keyVars
        /\ settled' \in [Sends -> BOOLEAN]
    BY Before DEF Start, Types, callVars
  <2> QED
    BY <2>1, <2>2, <2>3, <2>4, <2>5, Before DEF Types, keyVars
<1>5. CallAt(s)'
  BY Before, KeyType DEF Start, Settle, Goto, WrongKey, Invalidate, PasswordFails, Aborted, Types, callVars, botVars, keyVars,
     CallAt, LinkAt, ToldAt, EntryAt, StaleAt, BotAt, Rotated, Working, Live
<1>6. BotAt(BotOf[s])'
  BY Before, KeyType DEF Start, Settle, Goto, WrongKey, Invalidate, PasswordFails, Types, callVars, botVars, keyVars,
     CallAt, EntryAt, StaleAt, BotAt, Rotated
<1> QED
  BY <1>1, <1>2, <1>4, <1>5, <1>6, StepKeeps

\* init reads the rows.
LEMMA InitReadsKeeps == ASSUME SendInv, NEW s \in Sends, InitReads(s) PROVE SendInv'
<1>1. Runs(s) /\ at[s] \in Working \cup {"queued"}
  BY Before DEF InitReads, Runs, Turn, Working
<1>2. Frame(s)
  BY Before DEF InitReads, Frame, Settle, Goto, WrongKey, Invalidate, PasswordFails, Types, callVars, botVars, keyVars
<1>3. \/ \E r \in {"ok", "error"} : Settle(s, r)
      \/ \E w \in Working : Goto(s, w)
  BY DEF InitReads, WrongKey, Working
<1>4. Types' /\ QueueInv'
  <2>1. /\ QueueInv' /\ chain' \in [Bots -> Seq(Sends)]
        /\ at' \in [Sends -> {"new", "queued", "done"} \cup Working]
        /\ result' \in [Sends -> {"none", "ok", "error"}]
    BY <1>1, <1>3, Before, SettleKeeps, GotoKeeps DEF Types
  <2>2. cached' \in [Bots -> BOOLEAN] /\ row' \in [Bots -> Keys \cup {Unread}]
    BY Before, KeyType DEF InitReads, WrongKey, Invalidate, PasswordFails, Types, callVars, botVars
  <2>3. stale' \in [Bots -> Nat] /\ faults' \in Nat
    <3>1. stale' \in [Bots -> Nat]
      <4>1. \/ stale' = stale
            \/ stale' = [stale EXCEPT ![BotOf[s]] = IF settled[s] THEN @ + 1 ELSE @]
        BY DEF InitReads, WrongKey, callVars
      <4>2. (IF settled[s] THEN stale[BotOf[s]] + 1 ELSE stale[BotOf[s]]) \in Nat /\ stale \in [Bots -> Nat]
        BY Before DEF Types
      <4> QED
        BY <4>1, <4>2
    <3>2. faults' \in Nat
      BY Before DEF InitReads, Fault, NoFault, Types
    <3> QED
      BY <3>1, <3>2
  <2>4. pass' \in [Sends -> Keys \cup {Unread}] /\ link' \in [Sends -> {"opening", "open", "none", "closed"}]
    BY Before, KeyType DEF InitReads, Types, callVars
  <2>5. /\ aborted' = aborted /\ taken' = taken /\ dropped' = dropped /\ UNCHANGED keyVars
        /\ settled' \in [Sends -> BOOLEAN]
    BY Before DEF InitReads, Types, callVars
  <2> QED
    BY <2>1, <2>2, <2>3, <2>4, <2>5, Before DEF Types, keyVars
<1>5. CallAt(s)'
  BY Before, KeyType DEF InitReads, Settle, Goto, WrongKey, Invalidate, PasswordFails, Aborted, Types, callVars, botVars, keyVars,
     CallAt, LinkAt, ToldAt, EntryAt, StaleAt, BotAt, Rotated, Working, Live
<1>6. BotAt(BotOf[s])'
  BY Before, KeyType DEF InitReads, Settle, Goto, WrongKey, Invalidate, PasswordFails, Types, callVars, botVars, keyVars,
     CallAt, EntryAt, StaleAt, BotAt, Rotated
<1> QED
  BY <1>1, <1>2, <1>4, <1>5, <1>6, StepKeeps

\* init compares the key file.
LEMMA InitChecksKeeps == ASSUME SendInv, NEW s \in Sends, InitChecks(s) PROVE SendInv'
<1>1. Runs(s) /\ at[s] \in Working \cup {"queued"}
  BY Before DEF InitChecks, Runs, Turn, Working
<1>2. Frame(s)
  BY Before DEF InitChecks, Frame, Settle, Goto, WrongKey, Invalidate, PasswordFails, Types, callVars, botVars, keyVars
<1>3. \/ \E r \in {"ok", "error"} : Settle(s, r)
      \/ \E w \in Working : Goto(s, w)
  BY DEF InitChecks, WrongKey, Working
<1>4. Types' /\ QueueInv'
  <2>1. /\ QueueInv' /\ chain' \in [Bots -> Seq(Sends)]
        /\ at' \in [Sends -> {"new", "queued", "done"} \cup Working]
        /\ result' \in [Sends -> {"none", "ok", "error"}]
    BY <1>1, <1>3, Before, SettleKeeps, GotoKeeps DEF Types
  <2>2. cached' \in [Bots -> BOOLEAN] /\ row' \in [Bots -> Keys \cup {Unread}]
    BY Before, KeyType DEF InitChecks, WrongKey, Invalidate, PasswordFails, Types, callVars, botVars
  <2>3. stale' \in [Bots -> Nat] /\ faults' \in Nat
    <3>1. stale' \in [Bots -> Nat]
      <4>1. \/ stale' = stale
            \/ stale' = [stale EXCEPT ![BotOf[s]] = IF settled[s] THEN @ + 1 ELSE @]
        BY DEF InitChecks, WrongKey, callVars
      <4>2. (IF settled[s] THEN stale[BotOf[s]] + 1 ELSE stale[BotOf[s]]) \in Nat /\ stale \in [Bots -> Nat]
        BY Before DEF Types
      <4> QED
        BY <4>1, <4>2
    <3>2. faults' \in Nat
      BY Before DEF InitChecks, Fault, NoFault, Types
    <3> QED
      BY <3>1, <3>2
  <2>4. pass' \in [Sends -> Keys \cup {Unread}] /\ link' \in [Sends -> {"opening", "open", "none", "closed"}]
    BY Before, KeyType DEF InitChecks, Types, callVars
  <2>5. /\ aborted' = aborted /\ taken' = taken /\ dropped' = dropped /\ UNCHANGED keyVars
        /\ settled' \in [Sends -> BOOLEAN]
    BY Before DEF InitChecks, Types, callVars
  <2> QED
    BY <2>1, <2>2, <2>3, <2>4, <2>5, Before DEF Types, keyVars
<1>5. CallAt(s)'
  BY Before, KeyType DEF InitChecks, Settle, Goto, WrongKey, Invalidate, PasswordFails, Aborted, Types, callVars, botVars, keyVars,
     CallAt, LinkAt, ToldAt, EntryAt, StaleAt, BotAt, Rotated, Working, Live
<1>6. BotAt(BotOf[s])'
  BY Before, KeyType DEF InitChecks, Settle, Goto, WrongKey, Invalidate, PasswordFails, Types, callVars, botVars, keyVars,
     CallAt, EntryAt, StaleAt, BotAt, Rotated
<1> QED
  BY <1>1, <1>2, <1>4, <1>5, <1>6, StepKeeps

\* The envelope is signed.
LEMMA SignsKeeps == ASSUME SendInv, NEW s \in Sends, Signs(s) PROVE SendInv'
<1>1. Runs(s) /\ at[s] \in Working \cup {"queued"}
  BY Before DEF Signs, Runs, Turn, Working
<1>2. Frame(s)
  BY Before DEF Signs, Frame, Settle, Goto, WrongKey, Invalidate, PasswordFails, Types, callVars, botVars, keyVars
<1>3. \/ \E r \in {"ok", "error"} : Settle(s, r)
      \/ \E w \in Working : Goto(s, w)
  BY DEF Signs, WrongKey, Working
<1>4. Types' /\ QueueInv'
  <2>1. /\ QueueInv' /\ chain' \in [Bots -> Seq(Sends)]
        /\ at' \in [Sends -> {"new", "queued", "done"} \cup Working]
        /\ result' \in [Sends -> {"none", "ok", "error"}]
    BY <1>1, <1>3, Before, SettleKeeps, GotoKeeps DEF Types
  <2>2. cached' \in [Bots -> BOOLEAN] /\ row' \in [Bots -> Keys \cup {Unread}]
    BY Before, KeyType DEF Signs, WrongKey, Invalidate, PasswordFails, Types, callVars, botVars
  <2>3. stale' \in [Bots -> Nat] /\ faults' \in Nat
    <3>1. stale' \in [Bots -> Nat]
      <4>1. \/ stale' = stale
            \/ stale' = [stale EXCEPT ![BotOf[s]] = IF settled[s] THEN @ + 1 ELSE @]
        BY DEF Signs, WrongKey, callVars
      <4>2. (IF settled[s] THEN stale[BotOf[s]] + 1 ELSE stale[BotOf[s]]) \in Nat /\ stale \in [Bots -> Nat]
        BY Before DEF Types
      <4> QED
        BY <4>1, <4>2
    <3>2. faults' \in Nat
      BY Before DEF Signs, Fault, NoFault, Types
    <3> QED
      BY <3>1, <3>2
  <2>4. pass' \in [Sends -> Keys \cup {Unread}] /\ link' \in [Sends -> {"opening", "open", "none", "closed"}]
    BY Before, KeyType DEF Signs, Types, callVars
  <2>5. /\ aborted' = aborted /\ taken' = taken /\ dropped' = dropped /\ UNCHANGED keyVars
        /\ settled' \in [Sends -> BOOLEAN]
    BY Before DEF Signs, Types, callVars
  <2> QED
    BY <2>1, <2>2, <2>3, <2>4, <2>5, Before DEF Types, keyVars
<1>5. CallAt(s)'
  BY Before, KeyType DEF Signs, Settle, Goto, WrongKey, Invalidate, PasswordFails, Aborted, Types, callVars, botVars, keyVars,
     CallAt, LinkAt, ToldAt, EntryAt, StaleAt, BotAt, Rotated, Working, Live
<1>6. BotAt(BotOf[s])'
  BY Before, KeyType DEF Signs, Settle, Goto, WrongKey, Invalidate, PasswordFails, Types, callVars, botVars, keyVars,
     CallAt, EntryAt, StaleAt, BotAt, Rotated
<1> QED
  BY <1>1, <1>2, <1>4, <1>5, <1>6, StepKeeps

\* The password needs the bot's row.
LEMMA AsksPasswordKeeps == ASSUME SendInv, NEW s \in Sends, AsksPassword(s) PROVE SendInv'
<1>1. Runs(s) /\ at[s] \in Working \cup {"queued"}
  BY Before DEF AsksPassword, Runs, Turn, Working
<1>2. Frame(s)
  BY Before DEF AsksPassword, Frame, Settle, Goto, WrongKey, Invalidate, PasswordFails, Types, callVars, botVars, keyVars
<1>3. \/ \E r \in {"ok", "error"} : Settle(s, r)
      \/ \E w \in Working : Goto(s, w)
  BY DEF AsksPassword, WrongKey, Working
<1>4. Types' /\ QueueInv'
  <2>1. /\ QueueInv' /\ chain' \in [Bots -> Seq(Sends)]
        /\ at' \in [Sends -> {"new", "queued", "done"} \cup Working]
        /\ result' \in [Sends -> {"none", "ok", "error"}]
    BY <1>1, <1>3, Before, SettleKeeps, GotoKeeps DEF Types
  <2>2. cached' \in [Bots -> BOOLEAN] /\ row' \in [Bots -> Keys \cup {Unread}]
    BY Before, KeyType DEF AsksPassword, WrongKey, Invalidate, PasswordFails, Types, callVars, botVars
  <2>3. stale' \in [Bots -> Nat] /\ faults' \in Nat
    <3>1. stale' \in [Bots -> Nat]
      <4>1. \/ stale' = stale
            \/ stale' = [stale EXCEPT ![BotOf[s]] = IF settled[s] THEN @ + 1 ELSE @]
        BY DEF AsksPassword, WrongKey, callVars
      <4>2. (IF settled[s] THEN stale[BotOf[s]] + 1 ELSE stale[BotOf[s]]) \in Nat /\ stale \in [Bots -> Nat]
        BY Before DEF Types
      <4> QED
        BY <4>1, <4>2
    <3>2. faults' \in Nat
      BY Before DEF AsksPassword, Fault, NoFault, Types
    <3> QED
      BY <3>1, <3>2
  <2>4. pass' \in [Sends -> Keys \cup {Unread}] /\ link' \in [Sends -> {"opening", "open", "none", "closed"}]
    BY Before, KeyType DEF AsksPassword, Types, callVars
  <2>5. /\ aborted' = aborted /\ taken' = taken /\ dropped' = dropped /\ UNCHANGED keyVars
        /\ settled' \in [Sends -> BOOLEAN]
    BY Before DEF AsksPassword, Types, callVars
  <2> QED
    BY <2>1, <2>2, <2>3, <2>4, <2>5, Before DEF Types, keyVars
<1>5. CallAt(s)'
  BY Before, KeyType DEF AsksPassword, Settle, Goto, WrongKey, Invalidate, PasswordFails, Aborted, Types, callVars, botVars, keyVars,
     CallAt, LinkAt, ToldAt, EntryAt, StaleAt, BotAt, Rotated, Working, Live
<1>6. BotAt(BotOf[s])'
  BY Before, KeyType DEF AsksPassword, Settle, Goto, WrongKey, Invalidate, PasswordFails, Types, callVars, botVars, keyVars,
     CallAt, EntryAt, StaleAt, BotAt, Rotated
<1> QED
  BY <1>1, <1>2, <1>4, <1>5, <1>6, StepKeeps

\* CONNECT is sent.
LEMMA DialsKeeps == ASSUME SendInv, NEW s \in Sends, Dials(s) PROVE SendInv'
<1>1. Runs(s) /\ at[s] \in Working \cup {"queued"}
  BY Before DEF Dials, Runs, Turn, Working
<1>2. Frame(s)
  BY Before DEF Dials, Frame, Settle, Goto, WrongKey, Invalidate, PasswordFails, Types, callVars, botVars, keyVars
<1>3. \/ \E r \in {"ok", "error"} : Settle(s, r)
      \/ \E w \in Working : Goto(s, w)
  BY DEF Dials, WrongKey, Working
<1>4. Types' /\ QueueInv'
  <2>1. /\ QueueInv' /\ chain' \in [Bots -> Seq(Sends)]
        /\ at' \in [Sends -> {"new", "queued", "done"} \cup Working]
        /\ result' \in [Sends -> {"none", "ok", "error"}]
    BY <1>1, <1>3, Before, SettleKeeps, GotoKeeps DEF Types
  <2>2. cached' \in [Bots -> BOOLEAN] /\ row' \in [Bots -> Keys \cup {Unread}]
    BY Before, KeyType DEF Dials, WrongKey, Invalidate, PasswordFails, Types, callVars, botVars
  <2>3. stale' \in [Bots -> Nat] /\ faults' \in Nat
    <3>1. stale' \in [Bots -> Nat]
      <4>1. \/ stale' = stale
            \/ stale' = [stale EXCEPT ![BotOf[s]] = IF settled[s] THEN @ + 1 ELSE @]
        BY DEF Dials, WrongKey, callVars
      <4>2. (IF settled[s] THEN stale[BotOf[s]] + 1 ELSE stale[BotOf[s]]) \in Nat /\ stale \in [Bots -> Nat]
        BY Before DEF Types
      <4> QED
        BY <4>1, <4>2
    <3>2. faults' \in Nat
      BY Before DEF Dials, Fault, NoFault, Types
    <3> QED
      BY <3>1, <3>2
  <2>4. pass' \in [Sends -> Keys \cup {Unread}] /\ link' \in [Sends -> {"opening", "open", "none", "closed"}]
    BY Before, KeyType DEF Dials, Types, callVars
  <2>5. /\ aborted' = aborted /\ taken' = taken /\ dropped' = dropped /\ UNCHANGED keyVars
        /\ settled' \in [Sends -> BOOLEAN]
    BY Before DEF Dials, Types, callVars
  <2> QED
    BY <2>1, <2>2, <2>3, <2>4, <2>5, Before DEF Types, keyVars
<1>5. CallAt(s)'
  BY Before, KeyType DEF Dials, Settle, Goto, WrongKey, Invalidate, PasswordFails, Aborted, Types, callVars, botVars, keyVars,
     CallAt, LinkAt, ToldAt, EntryAt, StaleAt, BotAt, Rotated, Working, Live
<1>6. BotAt(BotOf[s])'
  BY Before, KeyType DEF Dials, Settle, Goto, WrongKey, Invalidate, PasswordFails, Types, callVars, botVars, keyVars,
     CallAt, EntryAt, StaleAt, BotAt, Rotated
<1> QED
  BY <1>1, <1>2, <1>4, <1>5, <1>6, StepKeeps

\* The hub answers.
LEMMA ConnackKeeps == ASSUME SendInv, NEW s \in Sends, Connack(s) PROVE SendInv'
<1>1. Runs(s) /\ at[s] \in Working \cup {"queued"}
  BY Before DEF Connack, Runs, Turn, Working
<1>2. Frame(s)
  BY Before DEF Connack, Frame, Settle, Goto, WrongKey, Invalidate, PasswordFails, Types, callVars, botVars, keyVars
<1>3. \/ \E r \in {"ok", "error"} : Settle(s, r)
      \/ \E w \in Working : Goto(s, w)
  BY DEF Connack, WrongKey, Working
<1>4. Types' /\ QueueInv'
  <2>1. /\ QueueInv' /\ chain' \in [Bots -> Seq(Sends)]
        /\ at' \in [Sends -> {"new", "queued", "done"} \cup Working]
        /\ result' \in [Sends -> {"none", "ok", "error"}]
    BY <1>1, <1>3, Before, SettleKeeps, GotoKeeps DEF Types
  <2>2. cached' \in [Bots -> BOOLEAN] /\ row' \in [Bots -> Keys \cup {Unread}]
    BY Before, KeyType DEF Connack, WrongKey, Invalidate, PasswordFails, Types, callVars, botVars
  <2>3. stale' \in [Bots -> Nat] /\ faults' \in Nat
    <3>1. stale' \in [Bots -> Nat]
      <4>1. \/ stale' = stale
            \/ stale' = [stale EXCEPT ![BotOf[s]] = IF settled[s] THEN @ + 1 ELSE @]
        BY DEF Connack, WrongKey, callVars
      <4>2. (IF settled[s] THEN stale[BotOf[s]] + 1 ELSE stale[BotOf[s]]) \in Nat /\ stale \in [Bots -> Nat]
        BY Before DEF Types
      <4> QED
        BY <4>1, <4>2
    <3>2. faults' \in Nat
      BY Before DEF Connack, Fault, NoFault, Types
    <3> QED
      BY <3>1, <3>2
  <2>4. pass' \in [Sends -> Keys \cup {Unread}] /\ link' \in [Sends -> {"opening", "open", "none", "closed"}]
    BY Before, KeyType DEF Connack, Types, callVars
  <2>5. /\ aborted' = aborted /\ taken' = taken /\ dropped' = dropped /\ UNCHANGED keyVars
        /\ settled' \in [Sends -> BOOLEAN]
    BY Before DEF Connack, Types, callVars
  <2> QED
    BY <2>1, <2>2, <2>3, <2>4, <2>5, Before DEF Types, keyVars
<1>5. CallAt(s)'
  BY Before, KeyType DEF Connack, Settle, Goto, WrongKey, Invalidate, PasswordFails, Aborted, Types, callVars, botVars, keyVars,
     CallAt, LinkAt, ToldAt, EntryAt, StaleAt, BotAt, Rotated, Working, Live
<1>6. BotAt(BotOf[s])'
  BY Before, KeyType DEF Connack, Settle, Goto, WrongKey, Invalidate, PasswordFails, Types, callVars, botVars, keyVars,
     CallAt, EntryAt, StaleAt, BotAt, Rotated
<1> QED
  BY <1>1, <1>2, <1>4, <1>5, <1>6, StepKeeps

\* The connection fails.
LEMMA ConnectFailsKeeps == ASSUME SendInv, NEW s \in Sends, ConnectFails(s) PROVE SendInv'
<1>1. Runs(s) /\ at[s] \in Working \cup {"queued"}
  BY Before DEF ConnectFails, Runs, Turn, Working
<1>2. Frame(s)
  BY Before DEF ConnectFails, Frame, Settle, Goto, WrongKey, Invalidate, PasswordFails, Types, callVars, botVars, keyVars
<1>3. \/ \E r \in {"ok", "error"} : Settle(s, r)
      \/ \E w \in Working : Goto(s, w)
  BY DEF ConnectFails, WrongKey, Working
<1>4. Types' /\ QueueInv'
  <2>1. /\ QueueInv' /\ chain' \in [Bots -> Seq(Sends)]
        /\ at' \in [Sends -> {"new", "queued", "done"} \cup Working]
        /\ result' \in [Sends -> {"none", "ok", "error"}]
    BY <1>1, <1>3, Before, SettleKeeps, GotoKeeps DEF Types
  <2>2. cached' \in [Bots -> BOOLEAN] /\ row' \in [Bots -> Keys \cup {Unread}]
    BY Before, KeyType DEF ConnectFails, WrongKey, Invalidate, PasswordFails, Types, callVars, botVars
  <2>3. stale' \in [Bots -> Nat] /\ faults' \in Nat
    <3>1. stale' \in [Bots -> Nat]
      <4>1. \/ stale' = stale
            \/ stale' = [stale EXCEPT ![BotOf[s]] = IF settled[s] THEN @ + 1 ELSE @]
        BY DEF ConnectFails, WrongKey, callVars
      <4>2. (IF settled[s] THEN stale[BotOf[s]] + 1 ELSE stale[BotOf[s]]) \in Nat /\ stale \in [Bots -> Nat]
        BY Before DEF Types
      <4> QED
        BY <4>1, <4>2
    <3>2. faults' \in Nat
      BY Before DEF ConnectFails, Fault, NoFault, Types
    <3> QED
      BY <3>1, <3>2
  <2>4. pass' \in [Sends -> Keys \cup {Unread}] /\ link' \in [Sends -> {"opening", "open", "none", "closed"}]
    BY Before, KeyType DEF ConnectFails, Types, callVars
  <2>5. /\ aborted' = aborted /\ taken' = taken /\ dropped' = dropped /\ UNCHANGED keyVars
        /\ settled' \in [Sends -> BOOLEAN]
    BY Before DEF ConnectFails, Types, callVars
  <2> QED
    BY <2>1, <2>2, <2>3, <2>4, <2>5, Before DEF Types, keyVars
<1>5. CallAt(s)'
  BY Before, KeyType DEF ConnectFails, Settle, Goto, WrongKey, Invalidate, PasswordFails, Aborted, Types, callVars, botVars, keyVars,
     CallAt, LinkAt, ToldAt, EntryAt, StaleAt, BotAt, Rotated, Working, Live
<1>6. BotAt(BotOf[s])'
  BY Before, KeyType DEF ConnectFails, Settle, Goto, WrongKey, Invalidate, PasswordFails, Types, callVars, botVars, keyVars,
     CallAt, EntryAt, StaleAt, BotAt, Rotated
<1> QED
  BY <1>1, <1>2, <1>4, <1>5, <1>6, StepKeeps

\* publishAck is called.
LEMMA PublishesKeeps == ASSUME SendInv, NEW s \in Sends, Publishes(s) PROVE SendInv'
<1>1. Runs(s) /\ at[s] \in Working \cup {"queued"}
  BY Before DEF Publishes, Runs, Turn, Working
<1>2. Frame(s)
  BY Before DEF Publishes, Frame, Settle, Goto, WrongKey, Invalidate, PasswordFails, Types, callVars, botVars, keyVars
<1>3. \/ \E r \in {"ok", "error"} : Settle(s, r)
      \/ \E w \in Working : Goto(s, w)
  BY DEF Publishes, WrongKey, Working
<1>4. Types' /\ QueueInv'
  <2>1. /\ QueueInv' /\ chain' \in [Bots -> Seq(Sends)]
        /\ at' \in [Sends -> {"new", "queued", "done"} \cup Working]
        /\ result' \in [Sends -> {"none", "ok", "error"}]
    BY <1>1, <1>3, Before, SettleKeeps, GotoKeeps DEF Types
  <2>2. cached' \in [Bots -> BOOLEAN] /\ row' \in [Bots -> Keys \cup {Unread}]
    BY Before, KeyType DEF Publishes, WrongKey, Invalidate, PasswordFails, Types, callVars, botVars
  <2>3. stale' \in [Bots -> Nat] /\ faults' \in Nat
    <3>1. stale' \in [Bots -> Nat]
      <4>1. \/ stale' = stale
            \/ stale' = [stale EXCEPT ![BotOf[s]] = IF settled[s] THEN @ + 1 ELSE @]
        BY DEF Publishes, WrongKey, callVars
      <4>2. (IF settled[s] THEN stale[BotOf[s]] + 1 ELSE stale[BotOf[s]]) \in Nat /\ stale \in [Bots -> Nat]
        BY Before DEF Types
      <4> QED
        BY <4>1, <4>2
    <3>2. faults' \in Nat
      BY Before DEF Publishes, Fault, NoFault, Types
    <3> QED
      BY <3>1, <3>2
  <2>4. pass' \in [Sends -> Keys \cup {Unread}] /\ link' \in [Sends -> {"opening", "open", "none", "closed"}]
    BY Before, KeyType DEF Publishes, Types, callVars
  <2>5. /\ aborted' = aborted /\ taken' = taken /\ dropped' = dropped /\ UNCHANGED keyVars
        /\ settled' \in [Sends -> BOOLEAN]
    BY Before DEF Publishes, Types, callVars
  <2> QED
    BY <2>1, <2>2, <2>3, <2>4, <2>5, Before DEF Types, keyVars
<1>5. CallAt(s)'
  BY Before, KeyType DEF Publishes, Settle, Goto, WrongKey, Invalidate, PasswordFails, Aborted, Types, callVars, botVars, keyVars,
     CallAt, LinkAt, ToldAt, EntryAt, StaleAt, BotAt, Rotated, Working, Live
<1>6. BotAt(BotOf[s])'
  BY Before, KeyType DEF Publishes, Settle, Goto, WrongKey, Invalidate, PasswordFails, Types, callVars, botVars, keyVars,
     CallAt, EntryAt, StaleAt, BotAt, Rotated
<1> QED
  BY <1>1, <1>2, <1>4, <1>5, <1>6, StepKeeps

\* disconnect calls back.
LEMMA ClosesKeeps == ASSUME SendInv, NEW s \in Sends, Closes(s) PROVE SendInv'
<1>1. Runs(s) /\ at[s] \in Working \cup {"queued"}
  BY Before DEF Closes, Runs, Turn, Working
<1>2. Frame(s)
  BY Before DEF Closes, Frame, Settle, Goto, WrongKey, Invalidate, PasswordFails, Types, callVars, botVars, keyVars
<1>3. \/ \E r \in {"ok", "error"} : Settle(s, r)
      \/ \E w \in Working : Goto(s, w)
  BY DEF Closes, WrongKey, Working
<1>4. Types' /\ QueueInv'
  <2>1. /\ QueueInv' /\ chain' \in [Bots -> Seq(Sends)]
        /\ at' \in [Sends -> {"new", "queued", "done"} \cup Working]
        /\ result' \in [Sends -> {"none", "ok", "error"}]
    BY <1>1, <1>3, Before, SettleKeeps, GotoKeeps DEF Types
  <2>2. cached' \in [Bots -> BOOLEAN] /\ row' \in [Bots -> Keys \cup {Unread}]
    BY Before, KeyType DEF Closes, WrongKey, Invalidate, PasswordFails, Types, callVars, botVars
  <2>3. stale' \in [Bots -> Nat] /\ faults' \in Nat
    <3>1. stale' \in [Bots -> Nat]
      <4>1. \/ stale' = stale
            \/ stale' = [stale EXCEPT ![BotOf[s]] = IF settled[s] THEN @ + 1 ELSE @]
        BY DEF Closes, WrongKey, callVars
      <4>2. (IF settled[s] THEN stale[BotOf[s]] + 1 ELSE stale[BotOf[s]]) \in Nat /\ stale \in [Bots -> Nat]
        BY Before DEF Types
      <4> QED
        BY <4>1, <4>2
    <3>2. faults' \in Nat
      BY Before DEF Closes, Fault, NoFault, Types
    <3> QED
      BY <3>1, <3>2
  <2>4. pass' \in [Sends -> Keys \cup {Unread}] /\ link' \in [Sends -> {"opening", "open", "none", "closed"}]
    BY Before, KeyType DEF Closes, Types, callVars
  <2>5. /\ aborted' = aborted /\ taken' = taken /\ dropped' = dropped /\ UNCHANGED keyVars
        /\ settled' \in [Sends -> BOOLEAN]
    BY Before DEF Closes, Types, callVars
  <2> QED
    BY <2>1, <2>2, <2>3, <2>4, <2>5, Before DEF Types, keyVars
<1>5. CallAt(s)'
  BY Before, KeyType DEF Closes, Settle, Goto, WrongKey, Invalidate, PasswordFails, Aborted, Types, callVars, botVars, keyVars,
     CallAt, LinkAt, ToldAt, EntryAt, StaleAt, BotAt, Rotated, Working, Live
<1>6. BotAt(BotOf[s])'
  BY Before, KeyType DEF Closes, Settle, Goto, WrongKey, Invalidate, PasswordFails, Types, callVars, botVars, keyVars,
     CallAt, EntryAt, StaleAt, BotAt, Rotated
<1> QED
  BY <1>1, <1>2, <1>4, <1>5, <1>6, StepKeeps

\* execute refuses the call, or it joins the chain.
LEMMA CallKeeps == ASSUME SendInv, NEW s \in Sends, Call(s) PROVE SendInv'
<1>1. /\ Frame(s) /\ at[s] = "new" /\ BotOf[s] \in Bots
      /\ UNCHANGED <<botVars, keyVars, aborted, pass, link, settled, stale, taken, dropped, faults>>
  BY Before DEF Call, Frame, Types, botVars, keyVars
<1>2. CASE /\ at' = [at EXCEPT ![s] = "queued"] /\ UNCHANGED result
           /\ chain' = [chain EXCEPT ![BotOf[s]] = Append(@, s)]
  <2>1. QueueInv' /\ chain' \in [Bots -> Seq(Sends)]
    BY <1>1, <1>2, Before, QueueGrows DEF Call
  <2>2. \A t \in Sends : at'[t] = IF t = s THEN "queued" ELSE at[t]
    BY <1>2, Before DEF Types
  <2>3. Types'
    BY <1>1, <1>2, <2>1, Before DEF Types, botVars, keyVars
  <2>4. ASSUME NEW t \in Sends PROVE CallAt(t)'
    BY <1>1, <1>2, <2>2, Before DEF SendInv, CallAt, LinkAt, ToldAt, EntryAt, StaleAt, Rotated, Live, botVars, keyVars
  <2>5. ASSUME NEW b \in Bots PROVE BotAt(b)'
    BY <1>1 DEF SendInv, BotAt, Rotated, botVars, keyVars
  <2> QED
    BY <2>1, <2>3, <2>4, <2>5 DEF SendInv
<1>3. CASE /\ at' = [at EXCEPT ![s] = "done"] /\ UNCHANGED chain
           /\ result' = [result EXCEPT ![s] = "error"]
  <2>1. \A t \in Sends : /\ at'[t] = IF t = s THEN "done" ELSE at[t]
                         /\ result'[t] = IF t = s THEN "error" ELSE result[t]
    BY <1>3, Before DEF Types
  <2>2. QueueInv'
    <3>1. CallsInOrder'
      <4> SUFFICES ASSUME NEW x \in Sends, NEW y \in Sends, x < y, at'[x] = "new" PROVE at'[y] = "new"
        BY DEF CallsInOrder
      <4>1. x # s /\ at[x] = "new" /\ at[y] = "new"
        BY <2>1, Before DEF QueueInv, CallsInOrder
      <4>2. y # s
        BY <4>1, SendAssumption DEF Sends, Call
      <4> QED
        BY <2>1, <4>1, <4>2
    <3>2. ASSUME NEW b \in Bots PROVE ChainAt(b)'
      <4>1. ChainAt(b) /\ chain'[b] = chain[b] /\ \A i \in 1 .. Len(chain[b]) : chain[b][i] \in Sends
        BY <1>3, Before DEF Types, QueueInv
      <4>2. \A i \in 1 .. Len(chain[b]) : at'[chain[b][i]] = at[chain[b][i]]
        BY <1>1, <2>1, <4>1 DEF ChainAt
      <4> QED
        BY <4>1, <4>2 DEF ChainAt
    <3>3. ASSUME NEW t \in Sends PROVE InChain(t)'
      BY <1>3, <2>1, Before DEF QueueInv, InChain
    <3> QED
      BY <3>1, <3>2, <3>3 DEF QueueInv
  <2>3. Types'
    BY <1>1, <1>3, Before DEF Types, botVars, keyVars
  <2>4. ASSUME NEW t \in Sends PROVE CallAt(t)'
    BY <1>1, <1>3, <2>1, Before DEF SendInv, CallAt, LinkAt, ToldAt, EntryAt, StaleAt, Rotated, Live, botVars, keyVars
  <2>5. ASSUME NEW b \in Bots PROVE BotAt(b)'
    BY <1>1 DEF SendInv, BotAt, Rotated, botVars, keyVars
  <2> QED
    BY <2>2, <2>3, <2>4, <2>5 DEF SendInv
<1> QED
  BY <1>2, <1>3 DEF Call

\* The queue depends on at and chain alone.
LEMMA QueueStays == ASSUME QueueInv, UNCHANGED <<at, chain>> PROVE QueueInv'
BY DEF QueueInv, CallsInOrder, ChainAt, InChain

\* The broker takes the message.
LEMMA BrokerTakesKeeps == ASSUME SendInv, NEW s \in Sends, BrokerTakes(s) PROVE SendInv'
<1>1. Runs(s) /\ Frame(s)
  BY Before DEF BrokerTakes, Runs, Working, Frame, Types, callVars, botVars, keyVars
<1>2. Types' /\ QueueInv'
  BY Before, QueueStays DEF BrokerTakes, Types, callVars, botVars, keyVars
<1>3. CallAt(s)' /\ BotAt(BotOf[s])'
  BY Before DEF BrokerTakes, Types, callVars, botVars, keyVars, CallAt, LinkAt, ToldAt, EntryAt, StaleAt, BotAt, Rotated, Live
<1> QED
  BY <1>1, <1>2, <1>3, StepKeeps

\* The connection is lost.
LEMMA LinkDropsKeeps == ASSUME SendInv, NEW s \in Sends, LinkDrops(s) PROVE SendInv'
<1>1. Runs(s) /\ Frame(s)
  BY Before DEF LinkDrops, Runs, Working, Frame, Types, botVars, keyVars
<1>2. Types' /\ QueueInv'
  BY Before, QueueStays DEF LinkDrops, Fault, Types, botVars, keyVars
<1>3. CallAt(s)' /\ BotAt(BotOf[s])'
  BY Before DEF LinkDrops, Types, botVars, keyVars, CallAt, LinkAt, ToldAt, EntryAt, StaleAt, BotAt, Rotated, Live
<1> QED
  BY <1>1, <1>2, <1>3, StepKeeps

\* publishAck settles, or never does.
LEMMA PublishReturnsKeeps == ASSUME SendInv, NEW s \in Sends, PublishReturns(s) PROVE SendInv'
<1>1. Runs(s) /\ Frame(s)
  BY Before DEF PublishReturns, Acked, Goto, Runs, Working, Frame, Types, botVars, keyVars
<1>2. \E w \in {"closing", "lost"} : at' = [at EXCEPT ![s] = w] /\ UNCHANGED chain
  BY DEF PublishReturns, Goto
<1>3. QueueInv'
  BY <1>1, <1>2, Before, QueueGoesOn DEF Working
<1>4. Types'
  BY <1>2, Before DEF PublishReturns, Goto, Types, Working, botVars, keyVars
<1>5. CallAt(s)' /\ BotAt(BotOf[s])'
  BY Before DEF PublishReturns, Acked, Goto, Types, botVars, keyVars, CallAt, LinkAt, ToldAt, EntryAt, StaleAt,
     BotAt, Rotated, Live
<1> QED
  BY <1>1, <1>3, <1>4, <1>5, StepKeeps

\* The agent aborts.
LEMMA AbortKeeps == ASSUME SendInv, NEW s \in Sends, Abort(s) PROVE SendInv'
<1>1. Types' /\ QueueInv'
  <2>1. Types'
    BY DEF SendInv, Abort, Types, callVars, botVars, keyVars
  <2> QED
    BY <2>1, QueueStays DEF SendInv, Abort, callVars
<1>2. ASSUME NEW t \in Sends PROVE CallAt(t)'
  BY DEF SendInv, Abort, Aborted, Types, callVars, botVars, keyVars, CallAt, LinkAt, ToldAt, EntryAt, StaleAt, Rotated, Live
<1>3. ASSUME NEW b \in Bots PROVE BotAt(b)'
  BY DEF SendInv, Abort, BotAt, Rotated, callVars, botVars, keyVars
<1> QED
  BY <1>1, <1>2, <1>3 DEF SendInv

\* A rotation begins or is completed.
LEMMA RotateKeeps == ASSUME SendInv, NEW b \in Bots, Rotate(b) PROVE SendInv'
<1>1. ASSUME NEW c \in Bots, Rotated(c) PROVE Rotated(c)'
  <2>1. b # c
    BY <1>1, SendAssumption DEF Rotate, Rotated
  <2> QED
    BY <1>1, <2>1 DEF SendInv, Types, Rotate, Rotated
<1>2. Types'
  <2>1. \A k \in Keys : k < MaxKey => k + 1 \in Keys
    BY SendAssumption DEF Keys
  <2>2. CASE onchain[b] < MaxKey /\ onchain' = [onchain EXCEPT ![b] = @ + 1] /\ UNCHANGED file
    <3>1. onchain[b] + 1 \in Keys /\ onchain \in [Bots -> Keys]
      BY <2>1, <2>2 DEF SendInv, Types
    <3> QED
      BY <2>2, <3>1 DEF SendInv, Rotate, Types, callVars, botVars
  <2>3. CASE file[b] < MaxKey /\ file' = [file EXCEPT ![b] = @ + 1] /\ UNCHANGED onchain
    <3>1. file[b] + 1 \in Keys /\ file \in [Bots -> Keys]
      BY <2>1, <2>3 DEF SendInv, Types
    <3> QED
      BY <2>3, <3>1 DEF SendInv, Rotate, Types, callVars, botVars
  <2> QED
    BY <2>2, <2>3 DEF Rotate
<1>3. QueueInv'
  BY QueueStays DEF SendInv, Rotate, callVars
<1>4. ASSUME NEW t \in Sends PROVE CallAt(t)'
  BY <1>1, BotOfType DEF SendInv, Rotate, callVars, botVars, CallAt, LinkAt, ToldAt, EntryAt, StaleAt
<1>5. ASSUME NEW c \in Bots PROVE BotAt(c)'
  BY <1>1 DEF SendInv, Rotate, BotAt, callVars, botVars
<1> QED
  BY <1>2, <1>3, <1>4, <1>5 DEF SendInv

\* A row expires in the cache while no call compares it.
LEMMA RowExpiresKeeps == ASSUME SendInv, NEW b \in Bots, RowExpires(b) PROVE SendInv'
<1>1. \A c \in Bots : row'[c] = IF c = b THEN Unread ELSE row[c]
  BY DEF SendInv, Types, RowExpires
<1>2. Types'
  BY DEF SendInv, RowExpires, Types, callVars, keyVars
<1>3. QueueInv'
  BY QueueStays DEF SendInv, RowExpires, callVars
<1>4. ASSUME NEW t \in Sends PROVE CallAt(t)'
  BY <1>1, BotOfType DEF SendInv, RowExpires, callVars, keyVars, CallAt, LinkAt, ToldAt, EntryAt, StaleAt, Rotated
<1>5. ASSUME NEW c \in Bots PROVE BotAt(c)'
  BY <1>1 DEF SendInv, RowExpires, BotAt, Rotated, callVars, keyVars
<1> QED
  BY <1>2, <1>3, <1>4, <1>5 DEF SendInv

----------------------------------------------------------------------------
(* The theorems *)

\* The invariant holds at first.
LEMMA InitSatisfiesInv == Init => SendInv
<1> SUFFICES ASSUME Init PROVE SendInv
  OBVIOUS
<1>1. Types
  BY KeyType, SendAssumption DEF Init, Types, Keys
<1>2. \A b \in Bots : chain[b] = <<>>
  BY DEF Init
<1>3. Len(<<>>) = 0 /\ 1 .. 0 = {}
  OBVIOUS
<1>4. QueueInv
  <2>1. \A b \in Bots : ChainAt(b)
    BY <1>2, <1>3 DEF ChainAt
  <2>2. CallsInOrder /\ \A s \in Sends : InChain(s)
    BY DEF Init, CallsInOrder, InChain
  <2> QED
    BY <2>1, <2>2 DEF QueueInv
<1>5. ASSUME NEW s \in Sends PROVE CallAt(s)
  BY BotOfType DEF Init, CallAt, LinkAt, ToldAt, EntryAt, StaleAt, Live
<1>6. ASSUME NEW b \in Bots PROVE BotAt(b)
  BY DEF Init, BotAt
<1> QED
  BY <1>1, <1>4, <1>5, <1>6 DEF SendInv

\* No step breaks the invariant.
LEMMA StepsPreserveInv == SendInv /\ [Next]_vars => SendInv'
<1> SUFFICES ASSUME SendInv, [Next]_vars PROVE SendInv'
  OBVIOUS
<1>1. ASSUME NEW s \in Sends, Call(s) \/ Progress(s) \/ ConnectFails(s) \/ LinkDrops(s) \/ Abort(s) PROVE SendInv'
  BY <1>1, CallKeeps, StartKeeps, InitReadsKeeps, InitChecksKeeps, SignsKeeps, AsksPasswordKeeps, DialsKeeps,
     ConnackKeeps, ConnectFailsKeeps, PublishesKeeps, BrokerTakesKeeps, LinkDropsKeeps, PublishReturnsKeeps,
     ClosesKeeps, AbortKeeps DEF Progress
<1>2. ASSUME NEW b \in Bots, Rotate(b) \/ RowExpires(b) PROVE SendInv'
  BY <1>2, RotateKeeps, RowExpiresKeeps
<1>3. ASSUME UNCHANGED vars PROVE SendInv'
  <2>1. Types' /\ QueueInv'
    BY <1>3, QueueStays DEF vars, callVars, botVars, keyVars, SendInv, Types
  <2>2. ASSUME NEW t \in Sends PROVE CallAt(t)'
    BY <1>3 DEF vars, callVars, botVars, keyVars, SendInv, CallAt, LinkAt, ToldAt, EntryAt, StaleAt, Rotated
  <2>3. ASSUME NEW c \in Bots PROVE BotAt(c)'
    BY <1>3 DEF vars, callVars, botVars, keyVars, SendInv, BotAt, Rotated
  <2> QED
    BY <2>1, <2>2, <2>3 DEF SendInv
<1> QED
  BY <1>1, <1>2, <1>3 DEF Next

\* SendInv is an invariant.
LEMMA Invariance == Spec => []SendInv
BY InitSatisfiesInv, StepsPreserveInv, PTL DEF Spec

\* The state stays within its types, and a bot without a cached identity has no
\* cached row (identityCache).
THEOREM TypeCorrect == Spec => []SendTypeOK
<1>1. SendInv => SendTypeOK
  BY DEF SendInv, Types, BotAt, SendTypeOK, Idle, Live, Working
<1> QED
  BY <1>1, Invariance, PTL

\* enqueueSend runs the calls of a bot one at a time in call order: whatever a
\* call runs into, the earlier ones have settled and left no connection.
THEOREM CallsRunOneAtATime == Spec => []OneAtATime
<1>1. ASSUME SendInv, NEW s \in Sends, NEW t \in Sends, BotOf[s] = BotOf[t], s < t, at[t] \notin Idle
      PROVE  at[s] = "done" /\ link[s] \notin Live
  <2>1. Runs(t) /\ s # t
    BY <1>1, BotOfType DEF SendInv, Types, Runs, Idle
  <2>2. /\ chain[BotOf[t]][1] = t /\ at[t] \notin {"new", "done"} /\ Len(chain[BotOf[t]]) \in Nat \ {0}
    BY <1>1, <2>1, RunnerIsAlone DEF SendInv
  <2>3. at[s] # "new"
    BY <1>1, <2>2 DEF SendInv, QueueInv, CallsInOrder
  <2>4. at[s] = "done"
    <3> SUFFICES ASSUME at[s] # "done" PROVE FALSE
      OBVIOUS
    <3>1. PICK i \in 1 .. Len(chain[BotOf[t]]) : chain[BotOf[t]][i] = s
      BY <1>1, <2>3 DEF SendInv, QueueInv, InChain
    <3>2. 1 < i /\ 1 \in 1 .. Len(chain[BotOf[t]])
      BY <2>1, <2>2, <3>1
    <3>3. t < s
      <4>1. BotOf[t] \in Bots
        BY BotOfType
      <4>2. \A j, k \in 1 .. Len(chain[BotOf[t]]) : j < k => chain[BotOf[t]][j] < chain[BotOf[t]][k]
        BY <1>1, <4>1 DEF SendInv, QueueInv, ChainAt
      <4> QED
        BY <2>2, <3>1, <3>2, <4>2
    <3> QED
      BY <1>1, <3>3, BotOfType
  <2> QED
    BY <1>1, <2>4 DEF SendInv, CallAt, LinkAt
<1>2. SendInv => OneAtATime
  BY <1>1 DEF OneAtATime
<1> QED
  BY <1>2, Invariance, PTL

\* What mqtt_send answers: ok only for a message the broker has, an error for one
\* it has only when the connection was lost, and an abort in time stops the message.
THEOREM CallersAreToldTheTruth == Spec => []ToldTrue
<1>1. SendInv => ToldTrue
  BY DEF SendInv, Types, CallAt, ToldAt, ToldTrue
<1> QED
  BY <1>1, Invariance, PTL

\* However often the key rotates, once the last rotation is complete at most one
\* call fails for an old key, because each such failure drops the cached identity.
THEOREM AtMostOneStaleFailure == Spec => []OneStaleFailure
<1>1. SendInv => OneStaleFailure
  BY DEF SendInv, BotAt, OneStaleFailure
<1> QED
  BY <1>1, Invariance, PTL

----------------------------------------------------------------------------
(* What Settles rests on: the queue of a bot never waits for nothing. *)

\* The await that s is in is answered, or has been: its connection is open, so that
\* the broker answers, or closed, so that the wait for it ends.
Moves(s) ==
    /\ at[s] \notin {"new", "done", "hung", "lost"}
    /\ at[s] = "queued" => Turn(s)
    /\ at[s] = "puback" => link[s] \in {"open", "closed"}

\* A queued call waits for a call of its bot, no later than itself, that moves or is
\* stuck: whatever becomes of a call, enqueueSend goes on with the next.
QueuesMove ==
    \A s \in Sends : at[s] = "queued" =>
        \E t \in 1 .. s : /\ BotOf[t] = BotOf[s]
                          /\ Moves(t) \/ at[t] \in {"hung", "lost"}

\* A call that may publish has a connection, if only a lost one.
Dialled == \A s \in Sends : at[s] \in {"open", "puback"} => link[s] \in {"open", "closed"}

\* Only a call whose CONNECT was accepted comes to publish.
LEMMA DialledStep == Types /\ Dialled /\ [Next]_vars => Dialled'
<1> SUFFICES ASSUME Types, Dialled, [Next]_vars, NEW s \in Sends,
                    at'[s] \in {"open", "puback"}
             PROVE  link'[s] \in {"open", "closed"}
  BY DEF Dialled
<1> USE DEF Types, Dialled, callVars, botVars, keyVars, Goto, Settle, WrongKey
<1>1. CASE UNCHANGED vars
  BY <1>1 DEF vars
<1>2. ASSUME NEW t \in Sends, Call(t) PROVE link'[s] \in {"open", "closed"}
  BY <1>2 DEF Call
<1>3. ASSUME NEW t \in Sends, Start(t) PROVE link'[s] \in {"open", "closed"}
  BY <1>3 DEF Start
<1>4. ASSUME NEW t \in Sends, InitReads(t) \/ InitChecks(t) PROVE link'[s] \in {"open", "closed"}
  BY <1>4 DEF InitReads, InitChecks
<1>5. ASSUME NEW t \in Sends, Signs(t) \/ AsksPassword(t) PROVE link'[s] \in {"open", "closed"}
  BY <1>5 DEF Signs, AsksPassword
<1>6. ASSUME NEW t \in Sends, Dials(t) PROVE link'[s] \in {"open", "closed"}
  BY <1>6 DEF Dials
<1>7. ASSUME NEW t \in Sends, Connack(t) \/ ConnectFails(t) PROVE link'[s] \in {"open", "closed"}
  BY <1>7 DEF Connack, ConnectFails
<1>8. ASSUME NEW t \in Sends, Publishes(t) \/ PublishReturns(t) PROVE link'[s] \in {"open", "closed"}
  BY <1>8 DEF Publishes, PublishReturns
<1>9. ASSUME NEW t \in Sends, LinkDrops(t) \/ Closes(t) PROVE link'[s] \in {"open", "closed"}
  BY <1>9 DEF LinkDrops, Closes
<1>10. ASSUME NEW t \in Sends, BrokerTakes(t) \/ Abort(t) PROVE link'[s] \in {"open", "closed"}
  BY <1>10 DEF BrokerTakes, Abort
<1>11. ASSUME NEW b \in Bots, Rotate(b) \/ RowExpires(b) PROVE link'[s] \in {"open", "closed"}
  BY <1>11 DEF Rotate, RowExpires
<1> QED
  BY <1>1, <1>2, <1>3, <1>4, <1>5, <1>6, <1>7, <1>8, <1>9, <1>10, <1>11 DEF Next, Progress

\* The first of the chain that a queued call is in is no later than the call.
LEMMA FirstOfChain ==
  ASSUME Types, QueueInv, NEW s \in Sends, at[s] = "queued"
  PROVE  \E t \in Sends : /\ t <= s /\ BotOf[t] = BotOf[s] /\ at[t] \notin {"new", "done"}
                          /\ t = Head(chain[BotOf[t]])
<1>1. BotOf[s] \in Bots /\ chain[BotOf[s]] \in Seq(Sends) /\ ChainAt(BotOf[s])
  BY BotOfType DEF Types, QueueInv
<1>2. PICK i \in 1 .. Len(chain[BotOf[s]]) : chain[BotOf[s]][i] = s
  BY DEF QueueInv, InChain
<1>3. chain[BotOf[s]] # <<>>
  BY RunnerExists
<1> DEFINE t == chain[BotOf[s]][1]
<1>4. Head(chain[BotOf[s]]) = t /\ 1 \in 1 .. Len(chain[BotOf[s]])
  BY <1>1, <1>3, HeadIsFirst
<1>5. t \in Sends
  BY <1>1, <1>4
<1>6. BotOf[t] = BotOf[s] /\ at[t] \notin {"new", "done"}
  BY <1>1, <1>4 DEF ChainAt
<1>7. i = 1 \/ t < s
  BY <1>1, <1>2, <1>4 DEF ChainAt
<1>8. t <= s
  BY <1>2, <1>5, <1>7 DEF Sends
<1> QED
  BY <1>4, <1>5, <1>6, <1>8

\* No queue of sends waits for nothing.
THEOREM NoQueueStops == Spec => []QueuesMove
<1>1. ASSUME SendInv, Dialled, NEW s \in Sends, at[s] = "queued"
      PROVE  \E t \in 1 .. s : BotOf[t] = BotOf[s] /\ (Moves(t) \/ at[t] \in {"hung", "lost"})
  <2>1. PICK t \in Sends : /\ t <= s /\ BotOf[t] = BotOf[s] /\ at[t] \notin {"new", "done"}
                           /\ t = Head(chain[BotOf[t]])
    BY <1>1, FirstOfChain DEF SendInv
  <2>2. t \in 1 .. s
    BY <2>1 DEF Sends
  <2>3. Moves(t) \/ at[t] \in {"hung", "lost"}
    BY <1>1, <2>1 DEF Moves, Turn, Dialled
  <2> QED
    BY <2>1, <2>2, <2>3
<1>2. SendInv /\ Dialled => QueuesMove
  BY <1>1 DEF QueuesMove
<1>3. SendInv => Types
  BY DEF SendInv
<1>4. Init => Dialled
  BY DEF Init, Dialled
<1> QED
  BY <1>2, <1>3, <1>4, DialledStep, Invariance, PTL DEF Spec

================================================================================
