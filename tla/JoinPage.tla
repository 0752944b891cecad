------------------------------- MODULE JoinPage -------------------------------
(***************************************************************************)
(* The Join page: the steps of the form (JoinApp.tsx), its look-ups of the *)
(* names an address owns (owned.ts), the mint of an operator and a bot     *)
(* (chain.ts) and the bot key it holds until it is saved (pending-key.ts). *)
(*                                                                         *)
(* An action is one event of the page: a click, or the code from one await *)
(* to the next.  Look-ups and mints keep running when the page moves on.   *)
(* The registry and its event log are shared with everybody else; wallet,  *)
(* login vendor and RPC node are external.  The node answers log searches  *)
(* from an index that lags behind the chain (owned.ts:270).                *)
(***************************************************************************)
EXTENDS Naturals, Sequences, FiniteSets

CONSTANTS
    Accounts, Ops, Bots, None,
    FromBlock,     \* SEPOLIA_FAST_FROM_BLOCK: the first block a look-up searches
    MaxLookups,    \* bound: look-ups started
    MaxMints,      \* bound: mints started
    MaxTurns       \* bound: operator events, look-ups and mints together

ASSUME JoinAssumption ==
    /\ None \notin Accounts \cup Ops \cup Bots \cup 1..MaxMints
    /\ {FromBlock, MaxLookups, MaxMints, MaxTurns} \subseteq Nat /\ FromBlock > 0

Lookups == 1 .. MaxLookups
Mints   == 1 .. MaxMints

VARIABLES
    log,           \* the event of each block: of an operator, or Foreign
    owner,         \* owner[op]: its owner, or None when not registered
    revoked,       \* operators that are revoked
    botKey,        \* botKey[bot]: None, or the mint whose key it is registered with
    session,       \* the address of the wallet signed in, or None
    step, adding,  \* adding is namesMode = "add-bot", kept with operatorAlreadyOurs
    opLabel, botLabel,
    owned,         \* the operators listed as "Your names"
    funded,        \* the last budget that was set says funded
    busy,
    lookup,        \* lookup[l]: a run of refreshOwned
    mint,          \* mint[n]: a run of onMint
    pending,       \* pending-key.ts: the mint whose key it holds, or None
    downloaded,    \* mints whose key was downloaded
    interrupted    \* history: mints whose receipt did not come, or whose page closed

chainVars == <<log, owner, revoked, botKey>>
formVars  == <<step, adding, opLabel, botLabel>>
keyVars   == <<pending, downloaded, interrupted>>
vars == <<chainVars, formVars, keyVars, session, owned, funded, busy, lookup, mint>>

NoLookup == [at |-> "none", owner |-> None, by |-> "none", cancelled |-> FALSE,
             to |-> 0, seen |-> 0, mine |-> {}, rows |-> {}]
NoMint == [at |-> "none", owner |-> None, op |-> None, bot |-> None]
LookupDone == [NoLookup EXCEPT !.at = "done"]
MintDone == [NoMint EXCEPT !.at = "done"]

\* A block without an operator event.
Foreign == [t |-> "foreign", op |-> None, to |-> None]
Event == [t : {"registered", "transferred", "revoked"}, op : Ops, to : Accounts] \cup {Foreign}

\* seen is a height up to which every search of the look-up saw the log, mine
\* what has been its owner's from its start: no code reads the two.
Lookup == [at : {"none", "scan", "rows", "done"}, owner : Accounts \cup {None},
           by : {"none", "effect", "home"}, cancelled : BOOLEAN, to : Nat, seen : Nat,
           mine : SUBSET Ops, rows : SUBSET Ops]
Mint == [at : {"none", "reads", "signOp", "waitOp", "signBot", "waitBot", "done"},
         owner : Accounts \cup {None}, op : Ops \cup {None}, bot : Bots \cup {None}]

JoinTypeOK ==
    /\ log \in Seq(Event)
    /\ owner \in [Ops -> Accounts \cup {None}] /\ revoked \subseteq Ops
    /\ botKey \in [Bots -> Mints \cup {None}]
    /\ session \in Accounts \cup {None}
    /\ step \in {"login", "loading", "home", "names", "fund", "minting", "done"}
    /\ {adding, funded, busy} \subseteq BOOLEAN
    /\ opLabel \in Ops \cup {None} /\ botLabel \in Bots \cup {None}
    /\ owned \subseteq Ops
    /\ lookup \in [Lookups -> Lookup] /\ mint \in [Mints -> Mint]
    /\ pending \in Mints \cup {None} /\ downloaded \subseteq Mints /\ interrupted \subseteq Mints

PageInit ==
    /\ session = None /\ step = "login" /\ adding = FALSE
    /\ opLabel = None /\ botLabel = None /\ owned = {} /\ funded = FALSE /\ busy = FALSE
    /\ pending = None

\* The registry is deployed below FromBlock or right at it.
Init ==
    /\ \E n \in 0 .. FromBlock - 1 : log = [i \in 1..n |-> Foreign]
    /\ owner = [o \in Ops |-> None] /\ revoked = {}
    /\ botKey = [b \in Bots |-> None]
    /\ PageInit
    /\ lookup = [l \in Lookups |-> NoLookup] /\ mint = [n \in Mints |-> NoMint]
    /\ downloaded = {} /\ interrupted = {}

\* What counts against the bound on turns.
MoreTurns ==
    Cardinality({i \in DOMAIN log : log[i] # Foreign})
        + Cardinality({l \in Lookups : lookup[l].at # "none"})
        + Cardinality({n \in Mints : mint[n].at # "none"}) < MaxTurns

----------------------------------------------------------------------------
(* The registry. *)

Owns(a, op) == owner[op] = a /\ op \notin revoked

\* An operator event; running look-ups remember what stays their owner's.
Emit(t, op, to) ==
    /\ MoreTurns
    /\ log' = Append(log, [t |-> t, op |-> op, to |-> to])
    /\ owner' = [owner EXCEPT ![op] = to]

StillMine(ops) ==
    lookup' = [l \in Lookups |->
                 IF lookup[l].at = "scan" THEN [lookup[l] EXCEPT !.mine = @ \ ops]
                 ELSE lookup[l]]

\* Transactions of others, and of these accounts by other means.
Transact ==
    /\ \E op \in Ops :
        \/ \E a \in Accounts : owner[op] = None /\ Emit("registered", op, a)
             /\ UNCHANGED <<revoked, botKey, lookup>>
        \/ \E a \in Accounts : owner[op] \notin {None, a} /\ op \notin revoked
             /\ Emit("transferred", op, a) /\ StillMine({op}) /\ UNCHANGED <<revoked, botKey>>
        \/ owner[op] # None /\ op \notin revoked /\ Emit("revoked", op, owner[op])
             /\ revoked' = revoked \cup {op} /\ StillMine({op}) /\ UNCHANGED botKey
    /\ UNCHANGED <<formVars, keyVars, session, owned, funded, busy, mint>>

----------------------------------------------------------------------------
(* owned.ts.  The last block searched is fixed when a look-up starts, but   *)
(* each search has the events only up to the height the index that answers  *)
(* it has reached.  Rows are read from storage after the searches.          *)

\* Mutant: the chunks begin one block too high.
SearchedAfter(h) == {i \in DOMAIN log : FromBlock < i /\ i <= h}

Searched(h) == {i \in DOMAIN log : FromBlock <= i /\ i <= h}

\* OperatorRegistered by a, whose event has the label too.
RegisteredTo(a, h) ==
    {log[i].op : i \in {j \in Searched(h) : log[j].t = "registered" /\ log[j].to = a}}

\* OperatorTransferred to a.
TransferredTo(a, h) ==
    {log[i].op : i \in {j \in Searched(h) : log[j].t = "transferred" /\ log[j].to = a}}

\* OperatorRegistered by id, for the label of one that came by transfer.
Labelled(op, h) == \E i \in Searched(h) : log[i].t = "registered" /\ log[i].op = op

\* What the searches of l may have found, each at a height of its own.
Names(l, seen) ==
    LET a == lookup[l].owner  H == seen .. lookup[l].to IN
    {RegisteredTo(a, r) \cup {op \in TransferredTo(a, t) : Labelled(op, n[op])} :
        r \in H, t \in H, n \in [Ops -> H]}

ReadsRows(l) ==
    /\ lookup[l].at = "scan"
    /\ \E seen \in 0 .. lookup[l].to : \E names \in Names(l, seen) :
          lookup' = [lookup EXCEPT ![l].at = "rows", ![l].to = 0, ![l].seen = seen,
                        ![l].rows = {op \in names : Owns(lookup[l].owner, op)}]
    /\ UNCHANGED <<chainVars, formVars, keyVars, session, owned, funded, busy, mint>>

\* A look-up by a starts: by the effect that follows the owner, or by goHome.
\* The effect's own earlier runs are cancelled.
StartLookup(a, by) ==
    MoreTurns /\ \E l \in Lookups :
        /\ lookup[l].at = "none" /\ \A k \in Lookups : k < l => lookup[k].at # "none"
        /\ lookup' = [k \in Lookups |->
             IF k = l THEN [NoLookup EXCEPT !.at = "scan", !.owner = a, !.by = by,
                              !.to = Len(log), !.mine = {op \in Ops : Owns(a, op)}]
             ELSE [lookup[k] EXCEPT !.cancelled = @ \/ (by = "effect" /\ lookup[k].by = "effect")]]

\* Where a look-up leads: setOwned in any case, the step unless cancelled.
Shows(l, ops) ==
    /\ owned' = ops
    /\ IF lookup[l].by = "effect" /\ lookup[l].cancelled
       THEN UNCHANGED <<step, adding>>
       ELSE /\ step' = IF ops # {} THEN "home" ELSE "names"
            /\ adding' = (adding /\ ops # {})

\* Mutant: a look-up that fails shows its warning and leaves the step alone.
ShowsFailure(l) ==
    /\ lookup[l].at \in {"scan", "rows"}
    /\ owned' = {} /\ UNCHANGED <<step, adding>>

\* loadOwnedIdentities answers with an error, or after 25 s, with no names.
Fails(l) == lookup[l].at \in {"scan", "rows"} /\ Shows(l, {})

LookupEnds(l) ==
    /\ \/ lookup[l].at = "rows" /\ Shows(l, lookup[l].rows)
       \/ Fails(l)
    /\ lookup' = [lookup EXCEPT ![l] = LookupDone]
    /\ UNCHANGED <<chainVars, keyVars, session, opLabel, botLabel, funded, busy, mint>>

----------------------------------------------------------------------------
(* The session and the steps of the form. *)

\* The wallet in use changes to a: by login, or in the wallet.
OwnerChanges(a) ==
    /\ session # a
    /\ session' = a
    /\ step' = "loading"
    /\ StartLookup(a, "effect")
    /\ UNCHANGED <<chainVars, keyVars, adding, opLabel, botLabel, owned, funded, busy, mint>>

\* onSignOut, with the end of the session that its last await brings.
SignOut ==
    /\ session # None
    /\ session' = None
    /\ pending' = None /\ owned' = {}
    /\ step' = "login" /\ adding' = FALSE /\ opLabel' = None /\ botLabel' = None
    /\ lookup' = [l \in Lookups |->
          [lookup[l] EXCEPT !.cancelled = @ \/ lookup[l].by = "effect"]]
    /\ UNCHANGED <<chainVars, funded, busy, mint, downloaded, interrupted>>

Shown(where) == session # None /\ step = where

Form(where, to) ==
    /\ Shown(where) /\ step' = to
    /\ UNCHANGED <<chainVars, keyVars, session, owned, funded, busy, lookup, mint>>

Skip == Form("loading", "names") /\ adding' = FALSE /\ UNCHANGED <<opLabel, botLabel>>

StartNewName == adding' = FALSE /\ opLabel' = None
StartAddComputer == adding' = TRUE /\ \E op \in owned : opLabel' = op

AtHome == Form("home", "names") /\ botLabel' = None /\ (StartNewName \/ StartAddComputer)

ContinueNames ==
    /\ \E op \in Ops : (adding => op = opLabel) /\ opLabel' = op
    /\ \E b \in Bots : botLabel' = b
    /\ UNCHANGED adding

AtNames ==
    \/ owned # {} /\ Form("names", "home") /\ UNCHANGED <<adding, opLabel, botLabel>>
    \/ Form("names", "fund") /\ ContinueNames

BackFromFund ==
    /\ ~busy /\ Form("fund", IF owned # {} /\ adding THEN "home" ELSE "names")
    /\ UNCHANGED <<adding, opLabel, botLabel>>

GoHome ==
    /\ Shown("home") \/ Shown("done")
    /\ step' = "loading"
    /\ StartLookup(session, "home")
    /\ UNCHANGED <<chainVars, keyVars, session, adding, opLabel, botLabel, owned, funded, busy, mint>>

\* refreshBudget, every 8 s at the fund step: what the balance makes of it.
RefreshBudget ==
    /\ Shown("fund") /\ funded' \in BOOLEAN
    /\ UNCHANGED <<chainVars, formVars, keyVars, session, owned, busy, lookup, mint>>

----------------------------------------------------------------------------
(* onMint and mintOperatorAndBot. *)

\* Mutant: the button is disabled by the step only.
EnabledByStep == funded /\ step = "fund"

MintEnabled == funded /\ ~busy

StartMint ==
    /\ Shown("fund") /\ MintEnabled /\ MoreTurns
    /\ \E n \in Mints :
        /\ mint[n].at = "none" /\ \A k \in Mints : k < n => mint[k].at # "none"
        /\ mint' = [mint EXCEPT ![n] = [at |-> "reads", owner |-> session,
                                        op |-> opLabel, bot |-> botLabel]]
    /\ busy' = TRUE /\ step' = "minting"
    /\ UNCHANGED <<chainVars, keyVars, session, adding, opLabel, botLabel, owned, funded, lookup>>

MintGoes(n, at) ==
    /\ mint' = [mint EXCEPT ![n].at = at]
    /\ UNCHANGED <<formVars, owned, busy, pending, downloaded>>

\* It throws: the catch and finally of onMint.
MintThrows(n) ==
    /\ mint' = [mint EXCEPT ![n] = MintDone]
    /\ step' = "fund" /\ busy' = FALSE
    /\ UNCHANGED <<adding, opLabel, botLabel, owned, pending, downloaded>>

\* ensureWalletClient, the label checks and the two reads: the operator must be
\* free or the caller's, the bot free.  A wallet on another chain throws too.
MintReads(n) ==
    LET m == mint[n] IN
    /\ m.at = "reads"
    /\ \/ m.op # None /\ m.bot # None
          /\ owner[m.op] \in {None, m.owner} /\ botKey[m.bot] = None
          /\ MintGoes(n, IF owner[m.op] = None THEN "signOp" ELSE "signBot")
       \/ MintThrows(n)
    /\ UNCHANGED <<chainVars, interrupted, lookup>>

\* registerOperator is approved and mined, or refused by wallet or registry.
MintSignsOp(n) ==
    LET m == mint[n] IN
    /\ m.at = "signOp"
    /\ \/ owner[m.op] = None /\ Emit("registered", m.op, m.owner) /\ MintGoes(n, "waitOp")
       \/ UNCHANGED <<log, owner>> /\ MintThrows(n)
    /\ UNCHANGED <<revoked, botKey, interrupted, lookup>>

\* registerBot, likewise.
MintSignsBot(n) ==
    LET m == mint[n] IN
    /\ m.at = "signBot"
    /\ \/ Owns(m.owner, m.op) /\ botKey[m.bot] = None
          /\ botKey' = [botKey EXCEPT ![m.bot] = n] /\ MintGoes(n, "waitBot")
       \/ UNCHANGED botKey /\ MintThrows(n)
    /\ UNCHANGED <<log, owner, revoked, interrupted, lookup>>

\* waitOk throws though the transaction is mined.
ReceiptFails(n) ==
    /\ mint[n].at \in {"waitOp", "waitBot"}
    /\ MintThrows(n) /\ interrupted' = interrupted \cup {n}
    /\ UNCHANGED <<chainVars, session, funded, lookup>>

\* Mutant: a mint that ends after the form has moved on is not shown.
MintedOnScreen(n) ==
    /\ mint' = [mint EXCEPT ![n] = MintDone]
    /\ pending' = n /\ busy' = FALSE
    /\ IF step = "minting" THEN downloaded' = downloaded \cup {n} /\ step' = "done"
       ELSE UNCHANGED <<downloaded, step>>
    /\ owned' = owned \cup {mint[n].op}
    /\ UNCHANGED <<adding, opLabel, botLabel>>

\* The mint returns: the key is held and what is held is downloaded.
Minted(n) ==
    /\ mint' = [mint EXCEPT ![n] = MintDone]
    /\ pending' = n /\ downloaded' = downloaded \cup {n}
    /\ owned' = owned \cup {mint[n].op}
    /\ step' = "done" /\ busy' = FALSE
    /\ UNCHANGED <<adding, opLabel, botLabel>>

MintWaits(n) ==
    /\ \/ mint[n].at = "waitOp" /\ MintGoes(n, "signBot")
       \/ mint[n].at = "waitBot" /\ Minted(n)
    /\ UNCHANGED <<chainVars, interrupted, lookup>>

MintStep(n) ==
    /\ MintReads(n) \/ MintSignsOp(n) \/ MintSignsBot(n) \/ MintWaits(n)
    /\ UNCHANGED <<session, funded>>

ConfirmSaved ==
    /\ step = "done" /\ pending # None
    /\ pending' = None
    /\ UNCHANGED <<chainVars, formVars, session, owned, funded, busy, lookup, mint, downloaded, interrupted>>

\* The tab is closed or reloaded: beforeunload clears the key, the rest goes.
PageCloses ==
    /\ session # None
    /\ session' = None /\ step' = "login" /\ adding' = FALSE
    /\ opLabel' = None /\ botLabel' = None /\ owned' = {} /\ funded' = FALSE /\ busy' = FALSE
    /\ pending' = None
    /\ lookup' = [l \in Lookups |-> IF lookup[l].at \in {"scan", "rows"}
                                    THEN LookupDone ELSE lookup[l]]
    /\ interrupted' = interrupted \cup {n \in Mints : mint[n].at \in {"waitOp", "waitBot"}}
    /\ mint' = [n \in Mints |-> IF mint[n].at = "none" THEN NoMint ELSE MintDone]
    /\ UNCHANGED <<chainVars, downloaded>>

Next ==
    \/ Transact \/ SignOut \/ Skip \/ AtHome \/ AtNames \/ BackFromFund
    \/ GoHome \/ RefreshBudget \/ StartMint \/ ConfirmSaved \/ PageCloses
    \/ \E a \in Accounts : OwnerChanges(a)
    \/ \E l \in Lookups : ReadsRows(l) \/ LookupEnds(l)
    \/ \E n \in Mints : MintStep(n) \/ ReceiptFails(n)

Spec == Init /\ [][Next]_vars

\* Promise.race with the timer ends every look-up.
FairSpec == Spec /\ \A l \in Lookups : WF_vars(LookupEnds(l))

----------------------------------------------------------------------------
\* A bot registered with a key of this page: the key was downloaded, or its
\* mint still runs, or the receipt of a mined transaction never came.
KeyOutlivesMint ==
    \A b \in Bots : botKey[b] \in Mints =>
        \/ botKey[b] \in downloaded
        \/ mint[botKey[b]].at = "waitBot"
        \/ botKey[b] \in interrupted

\* No two mints run at once, whatever late look-ups do to the step.
OneMint == Cardinality({n \in Mints : mint[n].at \notin {"none", "done"}}) <= 1

\* A look-up misses no operator that was its owner's from its start until its
\* rows were read, if all its searches had reached an event that gave the owner
\* the operator, and the operator was registered at FromBlock or later.  The
\* index may lag, the operator may have been away and come back in between.
LookupComplete ==
    \A l \in Lookups : lookup[l].at = "rows" =>
        \A op \in lookup[l].mine :
            /\ \E j \in DOMAIN log : /\ FromBlock <= j
                                     /\ log[j].t = "registered" /\ log[j].op = op
            /\ \E i \in 1..lookup[l].seen : /\ log[i].t \in {"registered", "transferred"}
                                            /\ log[i].op = op /\ log[i].to = lookup[l].owner
            => op \in lookup[l].rows

\* The page never stays at "Looking up names".
LoadingEnds == Shown("loading") ~> ~Shown("loading")

================================================================================
