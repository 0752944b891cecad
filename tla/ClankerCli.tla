------------------------------ MODULE ClankerCli ------------------------------
(***************************************************************************)
(* The operator's command line (clanker-cli): commands in several          *)
(* terminals share one CLANKER_HOME, the OpenClaw key folder, the registry *)
(* and the wallet vendor.  They take no lock.  An action is the code from  *)
(* one await to the next, cut where a crash between two files matters.     *)
(*                                                                         *)
(* One operator label and one bot label.  An address is a vendor wallet or *)
(* the number of the command that generated its key.  The network is not   *)
(* local and the shell sets no key.  Vendor, chain and user are external.  *)
(***************************************************************************)
EXTENDS Naturals

CONSTANTS
    Terminals,
    Wallets,        \* accounts a user may approve in the browser
    Mine,           \* the one an earlier login used
    File,           \* the key pointer of operator.json that names op.key
    None,
    MaxCommands,    \* bound: commands started
    MaxPolls,       \* polls before the deadline of login or fund
    MaxStops        \* bound: commands that die (crash, Ctrl-C, request without answer)

ASSUME CliAssumption ==
    /\ {MaxCommands, MaxPolls, MaxStops} \subseteq Nat
    /\ Mine \in Wallets /\ File # None
    /\ \A x \in {File, None} : x \notin Wallets /\ x \notin Nat
    /\ None \notin [wallet : Wallets, token : Nat]

Serials == 1 .. MaxCommands
Old == 0                \* a key of an earlier setup or mint
Held == MaxCommands + 1 \* the key a bot is rotated to, which the CLI never sees
Gone == MaxCommands + 2 \* the bot is revoked
Addresses == Wallets \cup Serials \cup {Old}

VARIABLES
    home,       \* the files of CLANKER_HOME
    openclaw,   \* ~/.openclaw/keys/<bot>.key
    chain,      \* the label's owner, the address it is offered to, the bot's key
    live,       \* refresh tokens the vendor accepts
    tokens,     \* refresh tokens issued
    cmd,        \* the command each terminal runs
    serial,     \* commands started
    wiped,      \* history: reset --openclaw-keys deleted the bot's key
    lost,       \* history: a command died between the vendor's answer and the file
    stops

world == <<openclaw, chain, live, tokens, serial, wiped, lost, stops>>
vars == <<home, cmd, world>>

Session == [wallet : Wallets, token : Nat]
Home == [config : BOOLEAN,
         operator : [owner : Addresses, key : Wallets \cup {File, None}] \cup {None},
         opKey : Serials \cup {Old, None},
         session : Session \cup {None},
         link : {"none", "link", "copy"}]

\* What reset removes, in this order.
Rank == [session |-> 1, pointer |-> 2, config |-> 3, operator |-> 4, opKey |-> 5, keys |-> 6,
         openclaw |-> 7]
Targets == DOMAIN Rank

\* A command: plan is the address it means to act as, by the one that acted,
\* ptr the key pointer it will store, moved whether another command changed
\* the home under it.
Idle == [pc |-> "idle", op |-> "none", plan |-> None, by |-> None, ptr |-> None, sess |-> None,
         todo |-> {}, n |-> 0, force |-> "no", key |-> Old, moved |-> FALSE]
Signers == {"mintOp", "propose", "accept", "mintBot", "change"}
Pcs == {"idle", "resolve", "key", "link", "send", "access", "refresh", "refreshed", "refused", "rpc",
        "mined", "reverted", "poll", "save", "own", "fund", "gen", "check", "config", "profile", "rm"}

Command == [pc : Pcs, op : Signers \cup {"none", "login", "setup", "reset", "fund"},
            plan : Addresses \cup {None}, by : Addresses \cup {None},
            ptr : Wallets \cup {File, None}, sess : Session \cup {None}, todo : SUBSET Targets,
            n : 0 .. MaxPolls + 1, force : {"no", "yes", "force"}, key : Serials \cup {Old},
            moved : BOOLEAN]
Chain == [owner : Addresses \cup {None}, offer : Wallets \cup {None},
          bot : Serials \cup {Old, Held, Gone, None}]

CliTypeOK ==
    /\ home \in Home /\ openclaw \in Serials \cup {Old, None}
    /\ chain \in Chain
    /\ live \subseteq Nat /\ tokens \in Nat /\ serial \in 0 .. MaxCommands
    /\ cmd \in [Terminals -> Command]
    /\ \A c \in Terminals :
          /\ cmd[c].pc \in {"refresh", "refreshed", "refused", "rpc", "save", "own"} => cmd[c].sess # None
          /\ cmd[c].pc = "rm" => cmd[c].todo # {}
    /\ wiped \in BOOLEAN /\ lost \in BOOLEAN /\ stops \in Nat

\* A new home; one with a network and a login; one whose operator is minted,
\* from the wallet or from a key that setup generated, the former with or
\* without a bot.
Init ==
    LET new == [config |-> FALSE, operator |-> None, opKey |-> None, session |-> None, link |-> "none"]
        set == [new EXCEPT !.config = TRUE]
        in == [set EXCEPT !.session = [wallet |-> Mine, token |-> 0]]
        vault == [in EXCEPT !.operator = [owner |-> Mine, key |-> Mine]]
        keyed == [set EXCEPT !.operator = [owner |-> Old, key |-> File], !.opKey = Old]
    IN
    /\ \/ home \in {new, in} /\ chain = [owner |-> None, offer |-> None, bot |-> None] /\ openclaw = None
       \/ /\ home \in {vault, keyed}
          /\ chain = [owner |-> home.operator.owner, offer |-> None, bot |-> None] /\ openclaw = None
       \/ /\ home = [vault EXCEPT !.link = "link"]
          /\ chain = [owner |-> Mine, offer |-> None, bot |-> Old] /\ openclaw = Old
    /\ live = {0} /\ tokens = 0
    /\ cmd = [c \in Terminals |-> Idle] /\ serial = 0
    /\ wiped = FALSE /\ lost = FALSE /\ stops = 0

\* Command c becomes new and leaves the home as h.
Do(c, new, h) ==
    /\ home' = h
    /\ cmd' = [t \in Terminals |->
                  IF t = c THEN new
                  ELSE [cmd[t] EXCEPT !.moved = @ \/ (h # home /\ cmd[t].op \notin {"none", "login", "fund"})]]

Goto(c, pc) == [cmd[c] EXCEPT !.pc = pc]
At(c, pc) == cmd[c].pc = pc
Moves(c, pc) == Do(c, Goto(c, pc), home) /\ UNCHANGED world
Ends(c) == Do(c, Idle, home) /\ UNCHANGED world

Starts(c, new) ==
    /\ At(c, "idle") /\ serial < MaxCommands /\ serial' = serial + 1
    /\ Do(c, new, home)
    /\ UNCHANGED <<openclaw, chain, live, tokens, wiped, lost, stops>>

----------------------------------------------------------------------------
(* login: force holds whether --operator was given. *)

StartLogin(c) == \E named \in {"no", "yes"} :
    Starts(c, [Idle EXCEPT !.pc = "poll", !.op = "login", !.force = named])

Pending(c) == cmd[c].n < MaxPolls /\ Do(c, [cmd[c] EXCEPT !.n = @ + 1], home) /\ UNCHANGED world

\* pollDeviceToken: pending, approved by one of the user's accounts, denied or
\* past the deadline.
PollsDevice(c) ==
    /\ At(c, "poll")
    /\ \/ Pending(c)
       \/ Ends(c)
       \/ \E w \in Wallets :
             /\ cmd[c].n < MaxPolls
             /\ tokens' = tokens + 1 /\ live' = live \cup {tokens + 1}
             /\ Do(c, [Goto(c, "save") EXCEPT !.n = 0, !.sess = [wallet |-> w, token |-> tokens + 1]], home)
             /\ UNCHANGED <<openclaw, chain, serial, wiped, lost, stops>>

\* The session is stored before its owner is compared with operator.json.
SavesLogin(c) ==
    /\ At(c, "save")
    /\ Do(c, Goto(c, "own"), [home EXCEPT !.session = cmd[c].sess])
    /\ UNCHANGED world

\* An operator.json of another owner fails the login; otherwise it is written
\* when it existed or a label was given.  setup goes on with the address.
NotesLogin(c) ==
    LET w == cmd[c].sess.wallet
        next == IF cmd[c].op = "login" THEN Idle
                ELSE [Goto(c, "check") EXCEPT !.plan = w, !.ptr = w, !.sess = None]
    IN
    /\ At(c, "own")
    /\ IF home.operator # None /\ home.operator.owner # w THEN Ends(c)
       ELSE /\ Do(c, next, IF home.operator # None \/ (cmd[c].op = "login" /\ cmd[c].force = "yes")
                           THEN [home EXCEPT !.operator = [owner |-> w, key |-> w]]
                           ELSE home)
            /\ UNCHANGED world

----------------------------------------------------------------------------
(* setup *)

\* Given --force, or in the wizard, files are replaced; given --yes, config.json
\* and operator.json are, and op.key is not.  The owner is a generated key, the
\* key file there is, an address that is pasted or kept, or a login.
NewSetup(force) == [Idle EXCEPT !.op = "setup", !.force = force]

SetupGenerates(c, force) == Starts(c, [NewSetup(force) EXCEPT !.pc = "gen", !.key = serial + 1])

SetupByKeyFile(c, force) ==
    /\ force # "yes" /\ home.opKey # None
    /\ Starts(c, [NewSetup(force) EXCEPT !.pc = "check", !.plan = home.opKey, !.ptr = File])

SetupByAddress(c, force) ==
    /\ force # "yes"
    /\ \E a \in Wallets \cup (IF home.operator = None THEN {} ELSE {home.operator.owner}) :
           Starts(c, [NewSetup(force) EXCEPT !.pc = "check", !.plan = a])

SetupByLogin(c, force) == force = "force" /\ Starts(c, [NewSetup(force) EXCEPT !.pc = "poll"])

StartSetup(c) == \E force \in {"no", "yes", "force"} :
    \/ SetupGenerates(c, force) \/ SetupByKeyFile(c, force)
    \/ SetupByAddress(c, force) \/ SetupByLogin(c, force)

GeneratesKey(c) ==
    /\ At(c, "gen")
    /\ IF home.opKey # None /\ cmd[c].force # "force" THEN Ends(c)
       ELSE /\ Do(c, [Goto(c, "check") EXCEPT !.plan = cmd[c].key, !.ptr = File],
                  [home EXCEPT !.opKey = cmd[c].key])
            /\ UNCHANGED world

\* The label belongs to the chosen owner or to nobody.
ChecksOwner(c) ==
    /\ At(c, "check")
    /\ IF chain.owner \in {None, cmd[c].plan} THEN Moves(c, "config") ELSE Ends(c)

\* buildKeyPointer wants the key file, the wizard also that it is the owner's.
NoKeyFile(c) == cmd[c].ptr = File /\ home.opKey = None
OtherKey(c) == cmd[c].ptr = File /\ home.opKey # cmd[c].plan /\ cmd[c].force = "force"

\* applySetup refuses to replace unasked.
WouldReplace(c) == cmd[c].force = "no" /\ (home.config \/ home.operator # None)

WritesConfig(c) ==
    /\ At(c, "config")
    /\ \/ (NoKeyFile(c) \/ OtherKey(c) \/ WouldReplace(c)) /\ Ends(c)
       \/ /\ ~NoKeyFile(c) /\ ~WouldReplace(c)
          /\ Do(c, Goto(c, "profile"), [home EXCEPT !.config = TRUE]) /\ UNCHANGED world

WritesProfile(c) ==
    /\ At(c, "profile")
    /\ Do(c, Idle, [home EXCEPT !.operator = [owner |-> cmd[c].plan, key |-> cmd[c].ptr]])
    /\ UNCHANGED world

\* clanker init writes the network alone.
InitProfile(c) == \E force \in BOOLEAN :
    /\ At(c, "idle") /\ serial < MaxCommands /\ serial' = serial + 1
    /\ Do(c, Idle, [home EXCEPT !.config = TRUE])
    /\ force \/ ~home.config
    /\ UNCHANGED <<openclaw, chain, live, tokens, wiped, lost, stops>>

----------------------------------------------------------------------------
(* operator mint, transfer propose and transfer accept; bot mint, bot rotate  *)
(* and bot revoke, of which the last two are "change".                        *)

StartSigner(c) == \E op \in Signers :
    Starts(c, [Idle EXCEPT !.pc = "resolve", !.op = op, !.key = serial + 1])

\* The key file operator.json points to, or else the vendor session.
Pointed == IF home.operator # None /\ home.operator.key = File THEN File
           ELSE IF home.session # None THEN home.session.wallet ELSE None
SignerAddress == IF Pointed = File THEN home.opKey ELSE Pointed

\* Mutant: operator.json is believed about the owner.
FitsByFile(addr) == addr # None

\* The signer is the owner operator.json names, by the wallet it names.
Fits(addr) ==
    /\ addr # None
    /\ home.operator # None => /\ home.operator.owner = addr
                               /\ home.operator.key \in {File, None, addr}

\* Without a registry in config.json, without a signer that fits, with a
\* balance too small for the mint, or when the user declines, the command ends.
\* The preview of a mint resolves the same way before and can only refuse.
ResolvesSigner(c) ==
    LET pc == IF cmd[c].op = "mintBot" THEN "key" ELSE IF Pointed = File THEN "send" ELSE "access"
        owner == IF home.operator = None THEN SignerAddress ELSE home.operator.owner
    IN
    /\ At(c, "resolve")
    /\ \/ /\ home.config /\ Fits(SignerAddress)
          /\ Do(c, [Goto(c, pc) EXCEPT !.plan = owner, !.ptr = Pointed], home)
          /\ UNCHANGED world
       \/ Ends(c)

\* Mutant: a key file that exists is overwritten.
OverwritesBotKey(c) ==
    /\ At(c, "key")
    /\ openclaw' = cmd[c].key
    /\ Do(c, Goto(c, "link"), home)
    /\ UNCHANGED <<chain, live, tokens, serial, wiped, lost, stops>>

\* writeBotKeyFiles refuses when either file exists; a link whose target is
\* gone does not count as existing.
WritesBotKey(c) ==
    /\ At(c, "key")
    /\ IF openclaw # None \/ home.link = "copy" THEN Ends(c)
       ELSE /\ openclaw' = cmd[c].key
            /\ Do(c, Goto(c, "link"), home)
            /\ UNCHANGED <<chain, live, tokens, serial, wiped, lost, stops>>

\* The second place gets a symlink, or a copy where links fail; both fail on a
\* dangling link, and the first file stays.
LinksBotKey(c) ==
    /\ At(c, "link")
    /\ IF home.link # "none" THEN Ends(c)
       ELSE /\ \E l \in {"link", "copy"} :
                  Do(c, Goto(c, IF cmd[c].ptr = File THEN "send" ELSE "access"), [home EXCEPT !.link = l])
            /\ UNCHANGED world

----------------------------------------------------------------------------
(* The vendor session *)

\* The session is loaded again; near the end of its hour it is refreshed.
EnsuresAccess(c) ==
    /\ At(c, "access")
    /\ IF home.session = None THEN Ends(c)
       ELSE /\ \E pc \in {"rpc", "refresh"} : Do(c, [Goto(c, pc) EXCEPT !.sess = home.session], home)
            /\ UNCHANGED world

\* The vendor spends a live token and issues the next one.
Rotates(c) ==
    /\ cmd[c].sess.token \in live
    /\ tokens' = tokens + 1
    /\ live' = (live \ {cmd[c].sess.token}) \cup {tokens + 1}
    /\ Do(c, [Goto(c, "refreshed") EXCEPT !.sess.token = tokens + 1], home)
    /\ UNCHANGED <<openclaw, chain, serial, wiped, lost, stops>>

\* It refuses a spent one.  A live one, too, may meet an error status (429, 5xx)
\* or a body without an access token, and may have been spent for it.
Declines(c) ==
    /\ live' \in {live, live \ {cmd[c].sess.token}}
    /\ Do(c, Goto(c, "refused"), home)
    /\ UNCHANGED <<openclaw, chain, tokens, serial, wiped, lost, stops>>

PrivyRefreshes(c) == At(c, "refresh") /\ (Rotates(c) \/ Declines(c))

\* Mutant: the new access token is stored with the old refresh token.
SavesAccessOnly(c) ==
    /\ At(c, "refreshed")
    /\ Moves(c, "rpc")

SavesRefresh(c) ==
    /\ At(c, "refreshed")
    /\ Do(c, Goto(c, "rpc"), [home EXCEPT !.session = cmd[c].sess])
    /\ UNCHANGED world

\* Whatever was wrong with the answer, the session in the file is cleared,
\* whichever it is by now and whether it would still work.
ClearsRefused(c) ==
    /\ At(c, "refused")
    /\ Do(c, Idle, [home EXCEPT !.session = None])
    /\ UNCHANGED world

\* What the registry makes of a transaction.
Registers(op, by) ==
    \/ op = "mintOp" /\ chain.owner = None
    \/ op = "propose" /\ chain.owner = by
    \/ op = "accept" /\ chain.offer = by
    \/ op = "mintBot" /\ chain.owner = by /\ chain.bot = None
    \/ op = "change" /\ chain.owner = by /\ chain.bot \notin {None, Gone}

Registered(op, by, key) ==
    CASE op = "mintOp" -> {[chain EXCEPT !.owner = by]}
      [] op = "propose" -> {[chain EXCEPT !.offer = w] : w \in Wallets}
      [] op = "accept" -> {[chain EXCEPT !.owner = by, !.offer = None]}
      [] op = "mintBot" -> {[chain EXCEPT !.bot = key]}
      [] op = "change" -> {[chain EXCEPT !.bot = b] : b \in {Held, Gone}}

Mines(c, by) ==
    LET good == Registers(cmd[c].op, by) IN
    /\ chain' \in IF good THEN Registered(cmd[c].op, by, cmd[c].key) ELSE {chain}
    /\ Do(c, [Goto(c, IF good THEN "mined" ELSE "reverted") EXCEPT !.by = by], home)
    /\ UNCHANGED <<openclaw, live, tokens, serial, wiped, lost, stops>>

\* Mutant: every 401 is followed by another try.
RefusesAgain(c) == Do(c, [Goto(c, "refresh") EXCEPT !.n = @ + 1], home) /\ UNCHANGED world

\* The first 401 leads to a refresh and a second try, the second to an error.
Refuses(c) ==
    IF cmd[c].n > 0 THEN Ends(c)
    ELSE Do(c, [Goto(c, "refresh") EXCEPT !.n = 1], home) /\ UNCHANGED world

\* The wallet of the session in hand signs and the vendor broadcasts.
WalletRpc(c) == At(c, "rpc") /\ (Mines(c, cmd[c].sess.wallet) \/ Refuses(c))

LocalSends(c) == At(c, "send") /\ Mines(c, cmd[c].plan)

\* A revert throws; after a mint or an accept operator.json names the signer
\* as owner.
Receipt(c) ==
    \/ At(c, "reverted") /\ Ends(c)
    \/ At(c, "mined") /\ cmd[c].op \notin {"mintOp", "accept"} /\ Ends(c)
    \/ /\ At(c, "mined") /\ cmd[c].op \in {"mintOp", "accept"}
       /\ Do(c, Idle, [home EXCEPT !.operator = [owner |-> cmd[c].plan, key |-> cmd[c].ptr]])
       /\ UNCHANGED world

----------------------------------------------------------------------------
(* reset, logout, fund *)

Partly == {"session", "pointer"}
Files == Partly \cup {"config", "operator"}


\* logout and reset --session, --keep-keys, plain.
Resets == {Partly, Files, Files \cup {"opKey", "keys"}}

\* OpenClaw keys are removed when the flag asks for them, and are listed before
\* anything is removed.
StartReset(c) ==
    \E todo \in Resets, keys \in (IF openclaw = None THEN {{}} ELSE {{}, {"openclaw"}}) :
        Starts(c, [Idle EXCEPT !.pc = "rm", !.op = "reset", !.todo = todo \cup keys])

\* Mutant: keys first.
IsLast(todo, what) == \A other \in todo : Rank[other] <= Rank[what]

IsFirst(todo, what) == \A other \in todo : Rank[what] <= Rank[other]

Without(what) ==
    CASE what = "session" -> [home EXCEPT !.session = None]
      [] what = "config" -> [home EXCEPT !.config = FALSE]
      [] what = "operator" -> [home EXCEPT !.operator = None]
      [] what = "opKey" -> [home EXCEPT !.opKey = None]
      [] what = "keys" -> [home EXCEPT !.link = "none"]
      [] what = "openclaw" -> home
      [] what = "pointer" -> IF home.operator = None \/ home.operator.key \notin Wallets THEN home
                             ELSE [home EXCEPT !.operator.key = None]

Removes(c) == \E what \in cmd[c].todo :
    LET rest == cmd[c].todo \ {what} IN
    /\ At(c, "rm") /\ IsFirst(cmd[c].todo, what)
    /\ openclaw' = IF what = "openclaw" THEN None ELSE openclaw
    /\ wiped' = (wiped \/ what = "openclaw")
    /\ Do(c, IF rest = {} THEN Idle ELSE [cmd[c] EXCEPT !.todo = rest], Without(what))
    /\ UNCHANGED <<chain, live, tokens, serial, lost, stops>>

StartFund(c) ==
    /\ home.config /\ home.operator # None
    /\ Starts(c, [Idle EXCEPT !.pc = "fund", !.op = "fund"])

\* The balance is read until it covers the mint or the deadline passes.
AwaitsFunds(c) ==
    /\ At(c, "fund")
    /\ Ends(c) \/ Pending(c)

----------------------------------------------------------------------------
\* The stored token may be spent for the answer that c holds: the file is due to
\* get the next token, or none.
Owed(c) ==
    \/ At(c, "refreshed")
    \/ At(c, "refused") /\ home.session # None /\ home.session.token = cmd[c].sess.token

\* A crash, an interrupt, a request without any answer, or an answer that the
\* command does not catch, but for those to a refresh: nothing more is written.
Stops(c) ==
    /\ ~At(c, "idle") /\ stops < MaxStops /\ stops' = stops + 1
    /\ lost' = (lost \/ Owed(c))
    /\ Do(c, Idle, home)
    /\ UNCHANGED <<openclaw, chain, live, tokens, serial, wiped>>

Start(c) ==
    \/ StartLogin(c) \/ StartSetup(c) \/ InitProfile(c) \/ StartSigner(c) \/ StartReset(c) \/ StartFund(c)

Progress(c) ==
    \/ PollsDevice(c) \/ SavesLogin(c) \/ NotesLogin(c)
    \/ GeneratesKey(c) \/ ChecksOwner(c) \/ WritesConfig(c) \/ WritesProfile(c)
    \/ ResolvesSigner(c) \/ WritesBotKey(c) \/ LinksBotKey(c)
    \/ EnsuresAccess(c) \/ PrivyRefreshes(c) \/ SavesRefresh(c) \/ ClearsRefused(c)
    \/ WalletRpc(c) \/ LocalSends(c) \/ Receipt(c) \/ Removes(c) \/ AwaitsFunds(c)

Next == \E c \in Terminals : Start(c) \/ Progress(c) \/ Stops(c)

Spec == Init /\ [][Next]_vars

----------------------------------------------------------------------------
(* Properties *)

\* The key of a bot minted here is in the OpenClaw folder for as long as it is
\* the registered one, whatever fails after the broadcast (the key is stored
\* first, chain-identity.mjs), unless reset was told to delete it.
BotKeyOnDisk == chain.bot \notin {Held, Gone, None} /\ ~wiped => openclaw = chain.bot

\* What a command signs is signed by the owner in operator.json or the address
\* it showed, unless another command changed the home under it: the signer
\* loads the session again and compares it only with itself.
SignedAsPlanned == \A c \in Terminals :
    cmd[c].by # None /\ ~cmd[c].moved => cmd[c].by = cmd[c].plan

\* The stored refresh token is one the vendor accepts, however many commands
\* refresh at once and whatever answers they get, except while an answer to its
\* use is on the way to the file or after a command died with it.
StoredTokenLive ==
    home.session # None /\ ~lost /\ (\A c \in Terminals : ~Owed(c))
        => home.session.token \in live

Dangling(h) == h.operator # None /\ h.operator.key = File /\ h.opKey = None

\* However a command is interrupted, operator.json is not left pointing to an
\* op.key that is gone, unless another command wrote under it.
PointerHasKey ==
    [][ ~Dangling(home) /\ Dangling(home')
        => \E c \in Terminals : cmd[c].moved /\ cmd'[c] # cmd[c] ]_vars

================================================================================
