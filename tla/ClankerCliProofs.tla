---------------------------- MODULE ClankerCliProofs ----------------------------
(***************************************************************************)
(* Theorems about ClankerCli, for any number of terminals, wallets,        *)
(* commands and crashes.                                                   *)
(*                                                                         *)
(* An action is one command's: it replaces that command's record, and the  *)
(* home, and of the others it changes only moved (DoEffect).  Besides the  *)
(* types there are three invariants that do not need each other: where the *)
(* bot key is (KeyInv), which tokens are alive and who holds them          *)
(* (TokenInv), and what a command may believe of the home as long as       *)
(* nobody changed it under the command (PlanInv).                          *)
(***************************************************************************)
EXTENDS ClankerCli, TLAPS

SignerPcs == {"resolve", "key", "link", "send", "access", "refresh", "refreshed", "refused", "rpc",
              "mined", "reverted"}

\* What a command's pc says of its other fields.
Stage(m) ==
    /\ m.pc \in {"refresh", "refreshed", "refused", "rpc", "save", "own"} => m.sess # None
    /\ m.pc = "rm" => m.todo # {} /\ m.op = "reset"
    /\ m.pc \in {"poll", "save", "own"} => m.op \in {"login", "setup"}
    /\ m.pc \in {"gen", "check", "config", "profile"} => m.op = "setup"
    /\ m.pc \in SignerPcs => m.op \in Signers
    /\ m.pc \in {"check", "config", "profile"} \cup (SignerPcs \ {"resolve"}) => m.plan # None
    /\ m.pc \in {"key", "link"} => m.op = "mintBot"
    /\ m.pc \in {"access", "refresh", "refreshed", "refused", "rpc"} => m.ptr # File

WorldTypes ==
    /\ openclaw \in Serials \cup {Old, None}
    /\ chain \in Chain
    /\ live \subseteq Nat /\ tokens \in Nat /\ serial \in 0 .. MaxCommands
    /\ wiped \in BOOLEAN /\ lost \in BOOLEAN /\ stops \in Nat

Types ==
    /\ WorldTypes
    /\ home \in Home
    /\ cmd \in [Terminals -> Command]
    /\ \A c \in Terminals : Stage(cmd[c])

\* The other commands see at most that the home changed.
Others(c) == \A t \in Terminals \ {c} :
    /\ cmd'[t] \in Command
    /\ cmd'[t].pc = cmd[t].pc /\ cmd'[t].op = cmd[t].op /\ cmd'[t].plan = cmd[t].plan
    /\ cmd'[t].by = cmd[t].by /\ cmd'[t].ptr = cmd[t].ptr /\ cmd'[t].sess = cmd[t].sess
    /\ cmd'[t].todo = cmd[t].todo /\ cmd'[t].key = cmd[t].key
    /\ ~cmd'[t].moved => ~cmd[t].moved /\ (home' = home \/ cmd[t].op \in {"none", "login", "fund"})

----------------------------------------------------------------------------
(* Types *)

\* What Do does.
LEMMA DoEffect ==
  ASSUME cmd \in [Terminals -> Command], NEW c \in Terminals, NEW new, NEW h, Do(c, new, h)
  PROVE  home' = h /\ cmd'[c] = new /\ Others(c) /\ cmd' = [t \in Terminals |-> cmd'[t]]
<1>1. home' = h /\ cmd'[c] = new /\ cmd' = [t \in Terminals |-> cmd'[t]]
  BY DEF Do
<1>2. ASSUME NEW t \in Terminals \ {c}
      PROVE  cmd'[t] = [cmd[t] EXCEPT !.moved = @ \/ (h # home /\ cmd[t].op \notin {"none", "login", "fund"})]
  BY DEF Do
<1>3. ASSUME NEW m \in Command, NEW b \in BOOLEAN
      PROVE  LET new2 == [m EXCEPT !.moved = b]
             IN  /\ new2 \in Command
                 /\ new2.pc = m.pc /\ new2.op = m.op /\ new2.plan = m.plan /\ new2.by = m.by
                 /\ new2.ptr = m.ptr /\ new2.sess = m.sess /\ new2.todo = m.todo /\ new2.key = m.key
                 /\ new2.moved = b
  BY DEF Command
<1>4. Others(c)
  <2>1. SUFFICES ASSUME NEW t \in Terminals \ {c}
                 PROVE  /\ cmd'[t] \in Command
                        /\ cmd'[t].pc = cmd[t].pc /\ cmd'[t].op = cmd[t].op /\ cmd'[t].plan = cmd[t].plan
                        /\ cmd'[t].by = cmd[t].by /\ cmd'[t].ptr = cmd[t].ptr /\ cmd'[t].sess = cmd[t].sess
                        /\ cmd'[t].todo = cmd[t].todo /\ cmd'[t].key = cmd[t].key
                        /\ ~cmd'[t].moved => ~cmd[t].moved /\ (home' = home \/ cmd[t].op \in {"none", "login", "fund"})
    BY DEF Others
  <2> DEFINE b == cmd[t].moved \/ (h # home /\ cmd[t].op \notin {"none", "login", "fund"})
  <2>2. cmd[t] \in Command /\ cmd[t].moved \in BOOLEAN /\ b \in BOOLEAN
    BY DEF Command
  <2>3. cmd'[t] = [cmd[t] EXCEPT !.moved = b]
    BY <1>2
  <2>4. ~b => ~cmd[t].moved /\ (home' = home \/ cmd[t].op \in {"none", "login", "fund"})
    BY <1>1
  <2> HIDE DEF b
  <2> QED
    BY <1>3, <2>2, <2>3, <2>4
<1> QED
  BY <1>1, <1>4

\* The constants are apart from each other.
LEMMA Apart ==
  /\ None \notin Addresses /\ File \notin Wallets /\ File # None /\ Mine \in Wallets
  /\ Serials \subseteq Nat /\ Old \in Nat /\ None \notin Nat /\ None \notin Session
  /\ MaxCommands \in Nat /\ MaxPolls \in Nat /\ MaxStops \in Nat
  /\ Wallets \subseteq Addresses /\ Serials \subseteq Addresses /\ Old \in Addresses
BY CliAssumption DEF Addresses, Serials, Old, Session

\* A step that leaves the world as it was.
LEMMA WorldStays == ASSUME WorldTypes, UNCHANGED world PROVE WorldTypes'
BY DEF WorldTypes, world

\* Types hold after a step when they hold of what it writes.
LEMMA TypesGoOn ==
  ASSUME Types, NEW c \in Terminals, NEW new \in Command, NEW h \in Home, Do(c, new, h),
         Stage(new), WorldTypes'
  PROVE  Types'
<1>1. home' = h /\ cmd'[c] = new /\ Others(c) /\ cmd' = [t \in Terminals |-> cmd'[t]]
  BY DoEffect DEF Types
<1>2. ASSUME NEW t \in Terminals PROVE cmd'[t] \in Command /\ Stage(cmd'[t])
  <2>1. CASE t = c
    BY <1>1, <2>1
  <2>2. CASE t # c
    BY <1>1, <2>2 DEF Others, Types, Stage
  <2> QED
    BY <2>1, <2>2
<1>3. cmd' \in [Terminals -> Command]
  BY <1>1, <1>2
<1> QED
  BY <1>1, <1>2, <1>3 DEF Types

\* A command that is not there.
LEMMA IdleTyped == Idle \in Command /\ Stage(Idle) /\ Idle.pc = "idle" /\ Idle.op = "none" /\ Idle.by = None /\ Idle.sess = None
BY CliAssumption DEF Idle, Command, Pcs, Signers, Serials, Old, Stage, SignerPcs

\* A command ends.
LEMMA EndsTyped == ASSUME Types, NEW c \in Terminals, Ends(c) PROVE Types'
BY IdleTyped, TypesGoOn, WorldStays DEF Ends, Types

\* The record of a command that goes to pc.
LEMMA GotoTyped ==
  ASSUME Types, NEW c \in Terminals, NEW pc \in Pcs
  PROVE  /\ Goto(c, pc) \in Command /\ Goto(c, pc).pc = pc /\ Goto(c, pc).op = cmd[c].op
         /\ Goto(c, pc).plan = cmd[c].plan /\ Goto(c, pc).by = cmd[c].by /\ Goto(c, pc).ptr = cmd[c].ptr
         /\ Goto(c, pc).sess = cmd[c].sess /\ Goto(c, pc).todo = cmd[c].todo
         /\ Goto(c, pc).key = cmd[c].key /\ Goto(c, pc).moved = cmd[c].moved
         /\ Goto(c, pc).force = cmd[c].force /\ Goto(c, pc).n = cmd[c].n
BY DEF Types, Goto, Command

(* Editing the record of a command, field by field. *)

WithSess(m, s) == [m EXCEPT !.sess = s]
WithN(m, n) == [m EXCEPT !.n = n]
WithBy(m, a) == [m EXCEPT !.by = a]
WithPlan(m, a) == [m EXCEPT !.plan = a]
WithPtr(m, p) == [m EXCEPT !.ptr = p]
WithPc(m, pc) == [m EXCEPT !.pc = pc]
WithKey(m, k) == [m EXCEPT !.key = k]

\* Another session.
LEMMA EditSess ==
  ASSUME NEW m \in Command, NEW s \in Session \cup {None}
  PROVE  LET new == WithSess(m, s)
         IN  /\ new \in Command /\ new.sess = s
             /\ new.pc = m.pc /\ new.op = m.op /\ new.plan = m.plan /\ new.by = m.by /\ new.ptr = m.ptr /\ new.todo = m.todo /\ new.key = m.key
<1>1. WithSess(m, s) \in Command
  BY DEF WithSess, Command
<1> QED
  BY <1>1 DEF WithSess, Command

\* Another counter.
LEMMA EditN ==
  ASSUME NEW m \in Command, NEW n \in 0 .. MaxPolls + 1
  PROVE  LET new == WithN(m, n)
         IN  /\ new \in Command
             /\ new.pc = m.pc /\ new.op = m.op /\ new.plan = m.plan /\ new.by = m.by /\ new.ptr = m.ptr /\ new.sess = m.sess /\ new.todo = m.todo /\ new.key = m.key
<1>1. WithN(m, n) \in Command
  BY DEF WithN, Command
<1> QED
  BY <1>1 DEF WithN, Command

\* Who signed.
LEMMA EditBy ==
  ASSUME NEW m \in Command, NEW a \in Addresses
  PROVE  LET new == WithBy(m, a)
         IN  /\ new \in Command /\ new.by = a
             /\ new.pc = m.pc /\ new.op = m.op /\ new.plan = m.plan /\ new.ptr = m.ptr /\ new.sess = m.sess /\ new.todo = m.todo /\ new.key = m.key
<1>1. WithBy(m, a) \in Command
  BY DEF WithBy, Command
<1> QED
  BY <1>1 DEF WithBy, Command

\* Who is meant to sign.
LEMMA EditPlan ==
  ASSUME NEW m \in Command, NEW a \in Addresses
  PROVE  LET new == WithPlan(m, a)
         IN  /\ new \in Command /\ new.plan = a
             /\ new.pc = m.pc /\ new.op = m.op /\ new.by = m.by /\ new.ptr = m.ptr /\ new.sess = m.sess /\ new.todo = m.todo /\ new.key = m.key
<1>1. WithPlan(m, a) \in Command
  BY DEF WithPlan, Command
<1> QED
  BY <1>1 DEF WithPlan, Command

\* The key pointer.
LEMMA EditPtr ==
  ASSUME NEW m \in Command, NEW p \in Wallets \cup {File, None}
  PROVE  LET new == WithPtr(m, p)
         IN  /\ new \in Command /\ new.ptr = p
             /\ new.pc = m.pc /\ new.op = m.op /\ new.plan = m.plan /\ new.by = m.by /\ new.sess = m.sess /\ new.todo = m.todo /\ new.key = m.key
<1>1. WithPtr(m, p) \in Command
  BY DEF WithPtr, Command
<1> QED
  BY <1>1 DEF WithPtr, Command

\* Another pc.
LEMMA EditPc ==
  ASSUME NEW m \in Command, NEW pc \in Pcs
  PROVE  LET new == WithPc(m, pc)
         IN  /\ new \in Command /\ new.pc = pc
             /\ new.op = m.op /\ new.plan = m.plan /\ new.by = m.by /\ new.ptr = m.ptr /\ new.sess = m.sess /\ new.todo = m.todo /\ new.key = m.key
<1>1. WithPc(m, pc) \in Command
  BY DEF WithPc, Command
<1> QED
  BY <1>1 DEF WithPc, Command

\* Another key.
LEMMA EditKey ==
  ASSUME NEW m \in Command, NEW k \in Serials
  PROVE  LET new == WithKey(m, k)
         IN  /\ new \in Command /\ new.key = k
             /\ new.pc = m.pc /\ new.op = m.op /\ new.plan = m.plan /\ new.by = m.by /\ new.ptr = m.ptr /\ new.sess = m.sess /\ new.todo = m.todo
<1>1. WithKey(m, k) \in Command
  BY DEF WithKey, Command
<1> QED
  BY <1>1 DEF WithKey, Command

\* Every way a command starts.
LEMMA StartTyped ==
  ASSUME Types, NEW c \in Terminals, NEW new \in Command, Stage(new), Starts(c, new)
  PROVE  Types'
<1>1. WorldTypes'
  BY CliAssumption DEF Starts, Types, WorldTypes
<1> QED
  BY <1>1, TypesGoOn DEF Starts, Types

\* The starts.
LEMMA StartsTyped == ASSUME Types, NEW c \in Terminals, Start(c) PROVE Types'
<1> USE DEF Stage, SignerPcs, Signers, Pcs, Command, Idle
<1>1. CASE StartLogin(c)
  <2>1. PICK named \in {"no", "yes"} :
          Starts(c, [Idle EXCEPT !.pc = "poll", !.op = "login", !.force = named])
    BY <1>1 DEF StartLogin
  <2>2. [Idle EXCEPT !.pc = "poll", !.op = "login", !.force = named] \in Command
    BY IdleTyped
  <2> QED
    BY <2>1, <2>2, StartTyped
<1>2. CASE StartSetup(c)
  <2>1. PICK force \in {"no", "yes", "force"} :
          \/ SetupGenerates(c, force) \/ SetupByKeyFile(c, force)
          \/ SetupByAddress(c, force) \/ SetupByLogin(c, force)
    BY <1>2 DEF StartSetup
  <2> DEFINE n == NewSetup(force)
  <2>2. n \in Command /\ n.op = "setup" /\ n.ptr = None /\ n.todo = {} /\ n.sess = None
    BY IdleTyped DEF NewSetup
  <2> HIDE DEF Command, Idle
  <2>3. CASE SetupGenerates(c, force)
    <3>1. serial + 1 \in Serials
      BY <2>3, Apart DEF SetupGenerates, Starts, Types, WorldTypes, Serials
    <3> DEFINE new == [n EXCEPT !.pc = "gen", !.key = serial + 1]
    <3>2. Starts(c, new)
      BY <2>3 DEF SetupGenerates
    <3> HIDE DEF n
    <3>4. new = WithKey(WithPc(n, "gen"), serial + 1)
      BY DEF WithKey, WithPc
    <3> HIDE DEF new
    <3>3. new \in Command /\ new.pc = "gen" /\ new.op = "setup"
      BY <2>2, <3>1, <3>4, EditPc, EditKey
    <3> HIDE DEF new
    <3> QED
      BY <3>2, <3>3, StartTyped
  <2>4. CASE SetupByKeyFile(c, force)
    <3>1. home.opKey \in Serials \cup {Old}
      BY <2>4 DEF SetupByKeyFile, Types, Home
    <3> DEFINE new == [n EXCEPT !.pc = "check", !.plan = home.opKey, !.ptr = File]
    <3>2. Starts(c, new)
      BY <2>4 DEF SetupByKeyFile
    <3> HIDE DEF n
    <3>4. new = WithPtr(WithPlan(WithPc(n, "check"), home.opKey), File)
      BY DEF WithPtr, WithPlan, WithPc
    <3> HIDE DEF new
    <3>3. new \in Command /\ new.pc = "check" /\ new.op = "setup" /\ new.plan # None
      <4> DEFINE g == WithPc(n, "check")
      <4>1. g \in Command /\ g.pc = "check" /\ g.op = "setup"
        BY <2>2, EditPc
      <4> HIDE DEF g
      <4> DEFINE k == WithPlan(g, home.opKey)
      <4>2. home.opKey \in Addresses /\ home.opKey # None
        BY <3>1, Apart DEF Addresses
      <4>3. k \in Command /\ k.pc = "check" /\ k.op = "setup" /\ k.plan = home.opKey
        BY <4>1, <4>2, EditPlan
      <4> HIDE DEF k
      <4>4. new = WithPtr(k, File)
        BY <3>4 DEF k, g
      <4> QED
        BY <4>2, <4>3, <4>4, EditPtr
    <3> HIDE DEF new
    <3> QED
      BY <3>2, <3>3, StartTyped
  <2>5. CASE SetupByAddress(c, force)
    <3>1. PICK a \in Addresses : Starts(c, [NewSetup(force) EXCEPT !.pc = "check", !.plan = a])
      BY <2>5, Apart DEF SetupByAddress, Types, Home
    <3> DEFINE new == [n EXCEPT !.pc = "check", !.plan = a]
    <3> HIDE DEF n
    <3>5. new = WithPlan(WithPc(n, "check"), a)
      BY DEF WithPlan, WithPc
    <3> HIDE DEF new
    <3>3. new \in Command /\ new.pc = "check" /\ new.op = "setup" /\ new.plan # None
      <4> DEFINE g == WithPc(n, "check")
      <4>1. g \in Command /\ g.pc = "check" /\ g.op = "setup"
        BY <2>2, EditPc
      <4> HIDE DEF g
      <4>2. new = WithPlan(g, a)
        BY <3>5 DEF g
      <4>3. a \in Addresses /\ a # None
        BY <3>1, Apart
      <4> QED
        BY <4>1, <4>2, <4>3, EditPlan
    <3>4. Starts(c, new)
      BY <3>1 DEF n, new
    <3> HIDE DEF new
    <3> QED
      BY <3>3, <3>4, StartTyped
  <2>6. CASE SetupByLogin(c, force)
    <3> DEFINE new == [n EXCEPT !.pc = "poll"]
    <3>2. Starts(c, new)
      BY <2>6 DEF SetupByLogin
    <3> HIDE DEF n
    <3>4. new = WithPc(n, "poll")
      BY DEF WithPc
    <3> HIDE DEF new
    <3>3. new \in Command /\ new.pc = "poll" /\ new.op = "setup"
      BY <2>2, <3>4, EditPc
    <3> HIDE DEF new
    <3> QED
      BY <3>2, <3>3, StartTyped
  <2> QED
    BY <2>1, <2>3, <2>4, <2>5, <2>6
<1>3. CASE InitProfile(c)
  <2>1. Do(c, Idle, [home EXCEPT !.config = TRUE])
    BY <1>3 DEF InitProfile
  <2>2. [home EXCEPT !.config = TRUE] \in Home
    BY DEF Types, Home
  <2>3. WorldTypes'
    BY <1>3, CliAssumption DEF InitProfile, Types, WorldTypes
  <2> HIDE DEF Stage, Command, Idle
  <2> QED
    BY <2>1, <2>2, <2>3, IdleTyped, TypesGoOn
<1>4. CASE StartSigner(c)
  <2>1. PICK op \in Signers : Starts(c, [Idle EXCEPT !.pc = "resolve", !.op = op, !.key = serial + 1])
    BY <1>4 DEF StartSigner
  <2>2. serial + 1 \in Serials
    BY <2>1, Apart DEF Starts, Types, WorldTypes, Serials
  <2>3. [Idle EXCEPT !.pc = "resolve", !.op = op, !.key = serial + 1] \in Command
    BY IdleTyped, <2>2
  <2> QED
    BY <2>1, <2>3, StartTyped
<1>5. CASE StartReset(c)
  <2>1. PICK todo \in SUBSET Targets :
          todo # {} /\ Starts(c, [Idle EXCEPT !.pc = "rm", !.op = "reset", !.todo = todo])
    <3>1. PICK part \in Resets, keys \in {{}, {"openclaw"}} :
            Starts(c, [Idle EXCEPT !.pc = "rm", !.op = "reset", !.todo = part \cup keys])
      BY <1>5 DEF StartReset
    <3>2. part \cup keys \in SUBSET Targets /\ part \cup keys # {}
      BY DEF Resets, Partly, Files, Targets, Rank
    <3> QED
      BY <3>1, <3>2
  <2>2. [Idle EXCEPT !.pc = "rm", !.op = "reset", !.todo = todo] \in Command
    BY IdleTyped
  <2> QED
    BY <2>1, <2>2, StartTyped
<1>6. CASE StartFund(c)
  <2>1. [Idle EXCEPT !.pc = "fund", !.op = "fund"] \in Command
    BY IdleTyped
  <2> QED
    BY <1>6, <2>1, StartTyped DEF StartFund
<1> QED
  BY <1>1, <1>2, <1>3, <1>4, <1>5, <1>6 DEF Start

\* login, setup: the steps that follow.
LEMMA LoginTyped ==
  ASSUME Types, NEW c \in Terminals, PollsDevice(c) \/ SavesLogin(c) \/ NotesLogin(c)
  PROVE  Types'
<1> DEFINE m == cmd[c]
<1>0. m \in Command /\ home \in Home /\ Stage(m)
  BY DEF Types
<1>1. CASE PollsDevice(c)
  <2>1. ASSUME Pending(c) PROVE Types'
    <3>1. [m EXCEPT !.n = @ + 1] \in Command /\ Stage([m EXCEPT !.n = @ + 1])
      BY <1>0, <2>1, Apart DEF Pending, Command, Stage
    <3> QED
      BY <1>0, <2>1, <3>1, TypesGoOn, WorldStays DEF Pending, Types
  <2>2. ASSUME NEW w \in Wallets,
               tokens' = tokens + 1, live' = live \cup {tokens + 1},
               Do(c, [Goto(c, "save") EXCEPT !.n = 0, !.sess = [wallet |-> w, token |-> tokens + 1]], home),
               UNCHANGED <<openclaw, chain, serial, wiped, lost, stops>>
        PROVE  Types'
    <3>1. [wallet |-> w, token |-> tokens + 1] \in Session
      BY DEF Session, Types, WorldTypes
    <3> DEFINE new == [Goto(c, "save") EXCEPT !.n = 0, !.sess = [wallet |-> w, token |-> tokens + 1]]
    <3> DEFINE g == Goto(c, "save")
    <3>7. m.op \in {"login", "setup"}
      BY <1>0, <1>1 DEF PollsDevice, At, Stage
    <3>5. g \in Command /\ g.pc = "save" /\ g.op = m.op
      BY GotoTyped DEF Pcs
    <3> DEFINE sess == [wallet |-> w, token |-> tokens + 1]
    <3>6. new = WithSess(WithN(g, 0), sess)
      BY DEF WithSess, WithN
    <3> HIDE DEF g, sess
    <3>8. sess \in Session /\ sess # None
      BY <3>1, Apart DEF sess
    <3> HIDE DEF new
    <3>2. new \in Command /\ new.pc = "save" /\ new.op = m.op /\ new.sess # None
      BY <3>5, <3>6, <3>8, Apart, EditN, EditSess
    <3>9. Do(c, new, home)
      BY <2>2 DEF new
    <3>3. Stage(new)
      BY <3>2, <3>7 DEF Stage, SignerPcs
    <3>4. WorldTypes'
      BY <2>2 DEF WorldTypes, Types
    <3> QED
      BY <1>0, <3>2, <3>3, <3>4, <3>9, TypesGoOn
  <2> QED
    BY <1>1, <2>1, <2>2, EndsTyped DEF PollsDevice
<1>2. CASE SavesLogin(c)
  <2>1. m.sess \in Session /\ m.op \in {"login", "setup"}
    BY <1>0, <1>2 DEF SavesLogin, At, Stage, Command
  <2>2. [home EXCEPT !.session = m.sess] \in Home
    BY <1>0, <2>1 DEF Home
  <2>3. Goto(c, "own") \in Command /\ Stage(Goto(c, "own"))
    BY <1>0, <2>1, Apart DEF Goto, Command, Pcs, Stage, SignerPcs
  <2> QED
    BY <1>2, <2>2, <2>3, TypesGoOn, WorldStays DEF SavesLogin, Types
<1>3. CASE NotesLogin(c)
  <2>1. m.sess \in Session /\ m.sess.wallet \in Wallets /\ m.op \in {"login", "setup"}
    BY <1>0, <1>3 DEF NotesLogin, At, Stage, Command, Session
  <2> DEFINE w == m.sess.wallet
  <2> DEFINE next == IF m.op = "login" THEN Idle
                     ELSE [Goto(c, "check") EXCEPT !.plan = w, !.ptr = w, !.sess = None]
  <2> DEFINE h == IF home.operator # None \/ (m.op = "login" /\ m.force = "yes")
                  THEN [home EXCEPT !.operator = [owner |-> w, key |-> w]] ELSE home
  <2>2. h \in Home
    BY <1>0, <2>1, Apart DEF Home
  <2>3. [Goto(c, "check") EXCEPT !.plan = w, !.ptr = w, !.sess = None] \in Command
    BY <1>0, <2>1, Apart DEF Goto, Command, Pcs
  <2>4. m.op = "setup" => Stage([Goto(c, "check") EXCEPT !.plan = w, !.ptr = w, !.sess = None])
    BY <1>0, <2>1, Apart DEF Goto, Command, Stage, SignerPcs
  <2>5. next \in Command /\ Stage(next)
    BY <2>1, <2>3, <2>4, IdleTyped
  <2>6. Ends(c) \/ (Do(c, next, h) /\ UNCHANGED world)
    BY <1>3 DEF NotesLogin
  <2> HIDE DEF next, h
  <2> QED
    BY <2>2, <2>5, <2>6, TypesGoOn, WorldStays, EndsTyped DEF Types
<1> QED
  BY <1>1, <1>2, <1>3

\* setup.
LEMMA SetupTyped ==
  ASSUME Types, NEW c \in Terminals,
         GeneratesKey(c) \/ ChecksOwner(c) \/ WritesConfig(c) \/ WritesProfile(c)
  PROVE  Types'
<1> DEFINE m == cmd[c]
<1>0. m \in Command /\ home \in Home /\ Stage(m)
  BY DEF Types
<1>1. CASE GeneratesKey(c)
  <2> DEFINE new == [Goto(c, "check") EXCEPT !.plan = m.key, !.ptr = File]
  <2>1. Ends(c) \/ (Do(c, new, [home EXCEPT !.opKey = m.key]) /\ UNCHANGED world)
    BY <1>1 DEF GeneratesKey
  <2>2. [home EXCEPT !.opKey = m.key] \in Home
    BY <1>0 DEF Home, Command
  <2>3. new \in Command
    BY <1>0, Apart DEF Goto, Command, Pcs
  <2>4. Stage(new)
    BY <1>0, <1>1, Apart DEF Goto, Command, Stage, SignerPcs, GeneratesKey, At
  <2> QED
    BY <2>1, <2>2, <2>3, <2>4, TypesGoOn, WorldStays, EndsTyped DEF Types
<1>2. CASE ChecksOwner(c)
  <2>1. Goto(c, "config") \in Command /\ Stage(Goto(c, "config"))
    BY <1>0, <1>2 DEF Goto, Command, Pcs, Stage, SignerPcs, ChecksOwner, At
  <2> QED
    BY <1>0, <1>2, <2>1, TypesGoOn, WorldStays, EndsTyped DEF ChecksOwner, Moves, Types
<1>3. CASE WritesConfig(c)
  <2>1. Goto(c, "profile") \in Command /\ Stage(Goto(c, "profile"))
    BY <1>0, <1>3 DEF Goto, Command, Pcs, Stage, SignerPcs, WritesConfig, At
  <2>2. [home EXCEPT !.config = TRUE] \in Home
    BY <1>0 DEF Home
  <2> QED
    BY <1>3, <2>1, <2>2, TypesGoOn, WorldStays, EndsTyped DEF WritesConfig, Types
<1>4. CASE WritesProfile(c)
  <2>1. [home EXCEPT !.operator = [owner |-> m.plan, key |-> m.ptr]] \in Home
    BY <1>0, <1>4 DEF Home, Command, Stage, WritesProfile, At
  <2> QED
    BY <1>4, <2>1, IdleTyped, TypesGoOn, WorldStays DEF WritesProfile, Types
<1> QED
  BY <1>1, <1>2, <1>3, <1>4

\* What resolving a signer finds.
LEMMA ResolvedTyped ==
  ASSUME home \in Home, Fits(SignerAddress)
  PROVE  /\ Pointed \in Wallets \cup {File} /\ SignerAddress \in Addresses
         /\ (IF home.operator = None THEN SignerAddress ELSE home.operator.owner) = SignerAddress
         /\ Pointed = File => home.opKey # None
         /\ Pointed # File => home.session # None /\ home.session.wallet = SignerAddress
BY Apart DEF Home, Session, Fits, SignerAddress, Pointed, Addresses

\* The signer and the files of a bot key.
LEMMA SignerTyped ==
  ASSUME Types, NEW c \in Terminals,
         ResolvesSigner(c) \/ WritesBotKey(c) \/ LinksBotKey(c)
  PROVE  Types'
<1> DEFINE m == cmd[c]
<1>0. m \in Command /\ home \in Home /\ Stage(m)
  BY DEF Types
<1>1. CASE ResolvesSigner(c)
  <2> DEFINE pc == IF m.op = "mintBot" THEN "key" ELSE IF Pointed = File THEN "send" ELSE "access"
  <2> DEFINE new == [Goto(c, pc) EXCEPT !.plan = SignerAddress, !.ptr = Pointed]
  <2>1. ASSUME Fits(SignerAddress), Do(c, new, home), UNCHANGED world PROVE Types'
    <3>1. pc \in {"key", "send", "access"} /\ (pc = "key" => m.op = "mintBot") /\ (pc = "access" => Pointed # File)
      OBVIOUS
    <3>2. new \in Command /\ new.pc = pc /\ new.op = m.op /\ new.plan = SignerAddress /\ new.ptr = Pointed
      <4> DEFINE g == Goto(c, pc)
      <4> HIDE DEF pc
      <4>1. g \in Command /\ g.pc = pc /\ g.op = m.op
        BY <3>1, GotoTyped DEF Pcs
      <4> HIDE DEF g
      <4>2. Pointed \in Wallets \cup {File, None} /\ SignerAddress \in Addresses
        BY <1>0, <2>1, ResolvedTyped
      <4>3. new = WithPtr(WithPlan(g, SignerAddress), Pointed)
        BY DEF g, WithPtr, WithPlan
      <4> HIDE DEF new
      <4> QED
        BY <4>1, <4>2, <4>3, EditPlan, EditPtr
    <3>3. Stage(new)
      <4>1. m.op \in Signers /\ SignerAddress # None
        BY <1>0, <1>1, <2>1, ResolvedTyped, Apart DEF ResolvesSigner, At, Stage, SignerPcs
      <4> HIDE DEF new, pc
      <4> QED
        BY <3>1, <3>2, <4>1 DEF Stage, SignerPcs
    <3> HIDE DEF new
    <3> QED
      BY <1>0, <2>1, <3>2, <3>3, TypesGoOn, WorldStays DEF Types
  <2>2. Ends(c) \/ (Fits(SignerAddress) /\ Do(c, new, home) /\ UNCHANGED world)
    BY <1>0, <1>1, ResolvedTyped DEF ResolvesSigner
  <2> QED
    BY <2>1, <2>2, EndsTyped
<1>2. CASE WritesBotKey(c)
  <2>1. CASE Ends(c)
    BY <2>1, EndsTyped
  <2>2. CASE /\ openclaw' = m.key /\ Do(c, Goto(c, "link"), home)
             /\ UNCHANGED <<chain, live, tokens, serial, wiped, lost, stops>>
    <3>1. Goto(c, "link") \in Command /\ Stage(Goto(c, "link"))
      BY <1>0, <1>2 DEF Goto, Command, Pcs, Stage, SignerPcs, WritesBotKey, At
    <3>2. WorldTypes'
      BY <1>0, <2>2 DEF WorldTypes, Types, Command
    <3> QED
      BY <1>0, <2>2, <3>1, <3>2, TypesGoOn
  <2> QED
    BY <1>2, <2>1, <2>2 DEF WritesBotKey
<1>3. CASE LinksBotKey(c)
  <2>1. CASE Ends(c)
    BY <2>1, EndsTyped
  <2>2. ASSUME NEW l \in {"link", "copy"}, UNCHANGED world,
               Do(c, Goto(c, IF m.ptr = File THEN "send" ELSE "access"), [home EXCEPT !.link = l])
        PROVE  Types'
    <3> DEFINE pc == IF m.ptr = File THEN "send" ELSE "access"
    <3>1. pc \in {"send", "access"} /\ (pc = "access" => m.ptr # File)
      OBVIOUS
    <3>2. Goto(c, pc) \in Command /\ Stage(Goto(c, pc))
      <4> HIDE DEF pc
      <4> QED
        BY <1>0, <1>3, <3>1 DEF Goto, Command, Pcs, Stage, SignerPcs, LinksBotKey, At
    <3>3. [home EXCEPT !.link = l] \in Home
      BY <1>0 DEF Home
    <3> QED
      BY <2>2, <3>2, <3>3, TypesGoOn, WorldStays DEF Types
  <2> QED
    BY <1>3, <2>1, <2>2 DEF LinksBotKey
<1> QED
  BY <1>1, <1>2, <1>3

\* The vendor session.
LEMMA SessionTyped ==
  ASSUME Types, NEW c \in Terminals,
         EnsuresAccess(c) \/ PrivyRefreshes(c) \/ SavesRefresh(c) \/ ClearsRefused(c)
  PROVE  Types'
<1> DEFINE m == cmd[c]
<1>0. m \in Command /\ home \in Home /\ Stage(m) /\ tokens \in Nat
  BY DEF Types, WorldTypes
<1>1. CASE EnsuresAccess(c)
  <2>1. ASSUME NEW pc \in {"rpc", "refresh"}, home.session # None,
               Do(c, [Goto(c, pc) EXCEPT !.sess = home.session], home), UNCHANGED world
        PROVE  Types'
    <3>1. [Goto(c, pc) EXCEPT !.sess = home.session] \in Command
      <4>1. [Goto(c, pc) EXCEPT !.sess = home.session] = WithSess(Goto(c, pc), home.session)
        BY DEF WithSess
      <4>2. Goto(c, pc) \in Command /\ home.session \in Session \cup {None}
        BY <1>0, GotoTyped DEF Pcs, Home
      <4> QED
        BY <4>1, <4>2, EditSess
    <3>2. Stage([Goto(c, pc) EXCEPT !.sess = home.session])
      BY <1>0, <1>1, <2>1 DEF Goto, Command, Stage, SignerPcs, EnsuresAccess, At
    <3> QED
      BY <1>0, <2>1, <3>1, <3>2, TypesGoOn, WorldStays DEF Types
  <2> QED
    BY <1>1, <2>1, EndsTyped DEF EnsuresAccess
<1>2. CASE PrivyRefreshes(c)
  <2> DEFINE new == [Goto(c, "refreshed") EXCEPT !.sess.token = tokens + 1]
  <2>0. m.pc = "refresh" /\ m.sess \in Session
    BY <1>0, <1>2 DEF PrivyRefreshes, At, Stage, Command
  <2>1. ASSUME tokens' = tokens + 1, live' = (live \ {m.sess.token}) \cup {tokens + 1},
               Do(c, new, home), UNCHANGED <<openclaw, chain, serial, wiped, lost, stops>>
        PROVE  Types'
    <3>1. [m.sess EXCEPT !.token = tokens + 1] \in Session
      BY <1>0, <2>0 DEF Session
    <3>2. new = [Goto(c, "refreshed") EXCEPT !.sess = [m.sess EXCEPT !.token = tokens + 1]]
      BY <1>0 DEF Goto, Command
    <3>3. new \in Command
      BY <1>0, <3>1, <3>2 DEF Goto, Command, Pcs
    <3>4. Stage(new)
      BY <1>0, <2>0, <3>1, <3>2, Apart DEF Goto, Command, Stage, SignerPcs
    <3>5. WorldTypes'
      BY <2>1 DEF WorldTypes, Types
    <3> HIDE DEF new
    <3> QED
      BY <1>0, <2>1, <3>3, <3>4, <3>5, TypesGoOn
  <2>2. ASSUME Declines(c) PROVE Types'
    <3>1. Goto(c, "refused") \in Command /\ Stage(Goto(c, "refused"))
      BY <1>0, <2>0 DEF Goto, Command, Pcs, Stage, SignerPcs
    <3>2. WorldTypes'
      BY <2>2 DEF Declines, WorldTypes, Types
    <3> QED
      BY <1>0, <2>2, <3>1, <3>2, TypesGoOn DEF Declines
  <2> QED
    BY <1>2, <2>1, <2>2 DEF PrivyRefreshes, Rotates
<1>3. CASE SavesRefresh(c)
  <2>1. Goto(c, "rpc") \in Command /\ Stage(Goto(c, "rpc"))
    BY <1>0, <1>3 DEF Goto, Command, Pcs, Stage, SignerPcs, SavesRefresh, At
  <2>2. [home EXCEPT !.session = m.sess] \in Home
    BY <1>0 DEF Home, Command
  <2> QED
    BY <1>3, <2>1, <2>2, TypesGoOn, WorldStays DEF SavesRefresh, Types
<1>4. CASE ClearsRefused(c)
  <2>1. [home EXCEPT !.session = None] \in Home
    BY <1>0 DEF Home
  <2> QED
    BY <1>4, <2>1, IdleTyped, TypesGoOn, WorldStays DEF ClearsRefused, Types
<1> QED
  BY <1>1, <1>2, <1>3, <1>4

\* A transaction writes a chain.
LEMMA MinesTyped ==
  ASSUME Types, NEW c \in Terminals, NEW by \in Addresses, cmd[c].op \in Signers, cmd[c].plan # None,
         Mines(c, by)
  PROVE  Types'
<1> DEFINE m == cmd[c]
<1> DEFINE pc == IF Registers(m.op, by) THEN "mined" ELSE "reverted"
<1>0. m \in Command /\ home \in Home /\ Stage(m) /\ chain \in Chain
  BY DEF Types, WorldTypes
<1>1. chain' \in Chain
  <2>1. CASE ~Registers(m.op, by)
    BY <1>0, <2>1 DEF Mines
  <2>2. CASE Registers(m.op, by)
    <3>1. chain' \in Registered(m.op, by, m.key) /\ m.key \in Serials \cup {Old}
      BY <1>0, <2>2 DEF Mines, Command
    <3>2. ASSUME NEW a \in Addresses \cup {None}, NEW w \in Wallets \cup {None},
                 NEW b \in Serials \cup {Old, Held, Gone, None}
          PROVE  /\ [chain EXCEPT !.owner = a] \in Chain /\ [chain EXCEPT !.offer = w] \in Chain
                 /\ [chain EXCEPT !.bot = b] \in Chain
      BY <1>0 DEF Chain
    <3>3. CASE m.op = "mintOp"
      BY <3>1, <3>2, <3>3 DEF Registered
    <3>4. CASE m.op = "propose"
      BY <3>1, <3>2, <3>4 DEF Registered
    <3>5. CASE m.op = "accept"
      <4>1. chain' = [[chain EXCEPT !.owner = by] EXCEPT !.offer = None]
        BY <3>1, <3>5 DEF Registered
      <4> DEFINE accepted == [chain EXCEPT !.owner = by]
      <4>2. accepted \in Chain
        BY <3>2
      <4> HIDE DEF accepted
      <4>3. [accepted EXCEPT !.offer = None] \in Chain
        BY <4>2 DEF Chain
      <4> QED
        BY <4>1, <4>3 DEF accepted
    <3>6. CASE m.op = "mintBot"
      BY <3>1, <3>2, <3>6 DEF Registered
    <3>7. CASE m.op = "change"
      BY <3>1, <3>2, <3>7 DEF Registered
    <3> QED
      BY <3>3, <3>4, <3>5, <3>6, <3>7 DEF Signers
  <2> QED
    BY <2>1, <2>2
<1>2. WorldTypes'
  BY <1>1 DEF Mines, WorldTypes, Types
<1>3. pc \in {"mined", "reverted"} /\ Do(c, [Goto(c, pc) EXCEPT !.by = by], home)
  BY DEF Mines
<1> HIDE DEF pc
<1> DEFINE g == Goto(c, pc)
<1>4. g \in Command /\ g.pc = pc /\ g.op = m.op /\ g.plan = m.plan
  BY <1>3, GotoTyped DEF Pcs
<1> HIDE DEF g
<1> DEFINE new == [g EXCEPT !.by = by]
<1>8. new = WithBy(g, by)
  BY DEF WithBy
<1>5. new \in Command /\ new.pc = pc /\ new.op = m.op /\ new.plan = m.plan
  BY <1>4, <1>8, EditBy
<1>7. Do(c, new, home)
  BY <1>3 DEF g
<1> HIDE DEF new
<1>6. Stage(new)
  BY <1>3, <1>5 DEF Stage, SignerPcs
<1> QED
  BY <1>0, <1>2, <1>5, <1>6, <1>7, TypesGoOn

\* A refused request.
LEMMA RefusesTyped ==
  ASSUME Types, NEW c \in Terminals, At(c, "rpc"), Refuses(c)
  PROVE  Types'
<1> DEFINE m == cmd[c]
<1>0. m \in Command /\ home \in Home /\ Stage(m)
  BY DEF Types
<1> DEFINE g == Goto(c, "refresh")
<1> DEFINE new == [g EXCEPT !.n = 1]
<1>2. /\ g \in Command /\ g.pc = "refresh" /\ g.op = m.op /\ g.plan = m.plan
      /\ g.sess = m.sess /\ g.ptr = m.ptr
  BY GotoTyped DEF Pcs
<1>5. new = [Goto(c, "refresh") EXCEPT !.n = 1]
  OBVIOUS
<1> HIDE DEF g
<1>3. /\ new \in Command /\ new.pc = "refresh" /\ new.op = m.op /\ new.plan = m.plan
      /\ new.sess = m.sess /\ new.ptr = m.ptr
  BY <1>2, EditN, Apart DEF WithN
<1> HIDE DEF new
<1>4. Stage(new)
  BY <1>0, <1>3 DEF Stage, SignerPcs, At
<1>1. [Goto(c, "refresh") EXCEPT !.n = 1] \in Command /\ Stage([Goto(c, "refresh") EXCEPT !.n = 1])
  BY <1>3, <1>4, <1>5
<1> QED
  BY <1>0, <1>1, EndsTyped, TypesGoOn, WorldStays DEF Refuses, Types

\* The transactions and what follows.
LEMMA TransactTyped ==
  ASSUME Types, NEW c \in Terminals, WalletRpc(c) \/ LocalSends(c) \/ Receipt(c)
  PROVE  Types'
<1> DEFINE m == cmd[c]
<1>0. m \in Command /\ home \in Home /\ Stage(m)
  BY DEF Types
<1>1. CASE WalletRpc(c)
  <2>1. m.sess \in Session /\ m.op \in Signers /\ m.plan # None
    BY <1>0, <1>1 DEF WalletRpc, At, Stage, SignerPcs, Command
  <2>2. m.sess.wallet \in Addresses
    BY <2>1, Apart DEF Session
  <2> QED
    BY <1>1, <2>1, <2>2, MinesTyped, RefusesTyped DEF WalletRpc
<1>2. CASE LocalSends(c)
  <2>1. m.plan \in Addresses /\ m.op \in Signers /\ m.plan # None
    BY <1>0, <1>2 DEF LocalSends, At, Stage, SignerPcs, Command
  <2> QED
    BY <1>2, <2>1, MinesTyped DEF LocalSends
<1>3. CASE Receipt(c)
  <2>1. CASE Ends(c)
    BY <2>1, EndsTyped
  <2>2. CASE /\ At(c, "mined")
             /\ Do(c, Idle, [home EXCEPT !.operator = [owner |-> m.plan, key |-> m.ptr]])
             /\ UNCHANGED world
    <3>1. [home EXCEPT !.operator = [owner |-> m.plan, key |-> m.ptr]] \in Home
      BY <1>0, <2>2 DEF Home, Command, Stage, SignerPcs, At
    <3> QED
      BY <2>2, <3>1, IdleTyped, TypesGoOn, WorldStays DEF Types
  <2> QED
    BY <1>3, <2>1, <2>2 DEF Receipt
<1> QED
  BY <1>1, <1>2, <1>3

\* What a reset leaves of the home.
LEMMA WithoutTyped == ASSUME home \in Home, NEW what \in Targets PROVE Without(what) \in Home
BY DEF Without, Home, Targets, Rank

\* reset, fund and the end of a command.
LEMMA RestTyped ==
  ASSUME Types, NEW c \in Terminals, Removes(c) \/ AwaitsFunds(c) \/ Stops(c)
  PROVE  Types'
<1> DEFINE m == cmd[c]
<1>0. m \in Command /\ home \in Home /\ Stage(m)
  BY DEF Types
<1>1. CASE Removes(c)
  <2>1. PICK what \in m.todo :
          /\ At(c, "rm")
          /\ openclaw' = IF what = "openclaw" THEN None ELSE openclaw
          /\ wiped' = (wiped \/ what = "openclaw")
          /\ Do(c, IF m.todo \ {what} = {} THEN Idle ELSE [m EXCEPT !.todo = m.todo \ {what}], Without(what))
          /\ UNCHANGED <<chain, live, tokens, serial, lost, stops>>
    BY <1>1 DEF Removes
  <2>2. Without(what) \in Home
    BY <1>0, WithoutTyped DEF Command
  <2>3. WorldTypes'
    BY <2>1 DEF WorldTypes, Types
  <2> DEFINE left == [m EXCEPT !.todo = m.todo \ {what}]
  <2>4. left \in Command
    BY <1>0 DEF Command
  <2>5. m.todo \ {what} # {} => Stage(left)
    BY <1>0, <2>1 DEF Command, Stage, SignerPcs, At
  <2> DEFINE new == IF m.todo \ {what} = {} THEN Idle ELSE left
  <2>6. new \in Command /\ Stage(new) /\ Do(c, new, Without(what))
    BY <2>1, <2>4, <2>5, IdleTyped
  <2> HIDE DEF new
  <2> QED
    BY <2>2, <2>3, <2>6, TypesGoOn
<1>2. CASE AwaitsFunds(c)
  <2>1. ASSUME Pending(c) PROVE Types'
    <3>1. [m EXCEPT !.n = @ + 1] \in Command /\ Stage([m EXCEPT !.n = @ + 1])
      BY <1>0, <2>1, Apart DEF Pending, Command, Stage
    <3> QED
      BY <1>0, <2>1, <3>1, TypesGoOn, WorldStays DEF Pending, Types
  <2> QED
    BY <1>2, <2>1, EndsTyped DEF AwaitsFunds
<1>3. CASE Stops(c)
  <2>1. WorldTypes' /\ Do(c, Idle, home)
    BY <1>3 DEF Stops, WorldTypes, Types
  <2> QED
    BY <1>0, <2>1, IdleTyped, TypesGoOn
<1> QED
  BY <1>1, <1>2, <1>3

\* Types hold at first.
LEMMA InitTyped == Init => Types
<1> SUFFICES ASSUME Init PROVE Types
  OBVIOUS
<1> DEFINE new == [config |-> FALSE, operator |-> None, opKey |-> None, session |-> None, link |-> "none"]
<1> DEFINE set == [new EXCEPT !.config = TRUE]
<1> DEFINE in == [set EXCEPT !.session = [wallet |-> Mine, token |-> 0]]
<1> DEFINE vault == [in EXCEPT !.operator = [owner |-> Mine, key |-> Mine]]
<1> DEFINE keyed == [set EXCEPT !.operator = [owner |-> Old, key |-> File], !.opKey = Old]
<1>1. new \in Home /\ set \in Home
  BY DEF Home
<1>2. in \in Home
  BY <1>1, Apart DEF Home, Session
<1>3. vault \in Home /\ [vault EXCEPT !.link = "link"] \in Home /\ keyed \in Home
  BY <1>1, <1>2, Apart DEF Home
<1>4. /\ vault.operator.owner = Mine /\ keyed.operator.owner = Old
  OBVIOUS
<1>5. home \in {new, in, vault, keyed, [vault EXCEPT !.link = "link"]}
  BY DEF Init
<1>6. home \in Home
  BY <1>1, <1>2, <1>3, <1>5
<1>7. /\ openclaw \in {None, Old}
      /\ \E a \in Addresses \cup {None}, b \in {None, Old} : chain = [owner |-> a, offer |-> None, bot |-> b]
  <2>1. CASE home \in {new, in} /\ chain = [owner |-> None, offer |-> None, bot |-> None] /\ openclaw = None
    BY <2>1
  <2>2. CASE /\ home \in {vault, keyed}
             /\ chain = [owner |-> home.operator.owner, offer |-> None, bot |-> None] /\ openclaw = None
    <3>1. home.operator.owner \in Addresses
      BY <1>4, <2>2, Apart
    <3> QED
      BY <2>2, <3>1
  <2>3. CASE chain = [owner |-> Mine, offer |-> None, bot |-> Old] /\ openclaw = Old
    BY <2>3, Apart
  <2> QED
    BY <2>1, <2>2, <2>3 DEF Init
<1>9. chain \in Chain
  BY <1>7 DEF Chain
<1>8. WorldTypes
  <2>1. live = {0} /\ tokens = 0 /\ serial = 0 /\ stops = 0
    BY DEF Init
  <2>2. wiped \in BOOLEAN /\ lost \in BOOLEAN
    BY DEF Init
  <2>3. live \subseteq Nat /\ tokens \in Nat /\ serial \in 0 .. MaxCommands /\ stops \in Nat
    BY <2>1, Apart
  <2>4. openclaw \in Serials \cup {Old, None}
    BY <1>7
  <2> QED
    BY <1>9, <2>2, <2>3, <2>4 DEF WorldTypes
<1> QED
  BY <1>6, <1>8, IdleTyped DEF Init, Types

\* Every step keeps them.
LEMMA NextTyped == ASSUME Types, [Next]_vars PROVE Types'
<1>1. CASE UNCHANGED vars
  BY <1>1 DEF vars, world, Types, WorldTypes
<1>2. ASSUME NEW c \in Terminals, Start(c) \/ Progress(c) \/ Stops(c) PROVE Types'
  BY <1>2, StartsTyped, LoginTyped, SetupTyped, SignerTyped, SessionTyped, TransactTyped, RestTyped
     DEF Progress
<1> QED
  BY <1>1, <1>2 DEF Next

----------------------------------------------------------------------------
(* Where the bot key is *)

\* A bot mint that has stored its key finds it there.
KeyAt(m) ==
    m.op = "mintBot" /\ m.pc \in {"link", "send", "access", "refresh", "refreshed", "rpc"} /\ ~wiped
        => openclaw = m.key

KeyInv == BotKeyOnDisk /\ \A c \in Terminals : KeyAt(cmd[c])

\* A step that touches neither the key nor the chain.
LEMMA KeysGoOn ==
  ASSUME Types, KeyInv, NEW c \in Terminals, NEW new, NEW h, Do(c, new, h),
         UNCHANGED <<openclaw, chain, wiped>>, KeyAt(new)
  PROVE  KeyInv'
<1>1. cmd'[c] = new /\ Others(c)
  BY DoEffect DEF Types
<1>2. ASSUME NEW t \in Terminals PROVE KeyAt(cmd[t])'
  BY <1>1 DEF Others, KeyInv, KeyAt
<1> QED
  BY <1>2 DEF KeyInv, BotKeyOnDisk

\* A command ends.
LEMMA EndsKeepsKeys == ASSUME Types, KeyInv, NEW c \in Terminals, Ends(c) PROVE KeyInv'
BY KeysGoOn, IdleTyped DEF Ends, world, KeyAt

\* A command starts.
LEMMA StartsKeepKeys == ASSUME Types, KeyInv, NEW c \in Terminals, Start(c) PROVE KeyInv'
<1>1. ASSUME NEW new, Starts(c, new), new.pc \in {"poll", "gen", "check", "resolve", "rm", "fund"} PROVE KeyInv'
  BY <1>1, KeysGoOn DEF Starts, KeyAt
<1>2. CASE InitProfile(c)
  BY <1>2, KeysGoOn, IdleTyped DEF InitProfile, KeyAt
<1> QED
  BY <1>1, <1>2
     DEF Start, StartLogin, StartSetup, SetupGenerates, SetupByKeyFile, SetupByAddress, SetupByLogin,
         NewSetup, StartSigner, StartReset, StartFund, Idle

\* Steps that go on to a pc where no key is at stake, or with the same command.
LEMMA QuietKeepsKeys ==
  ASSUME Types, KeyInv, NEW c \in Terminals,
         \/ PollsDevice(c) \/ SavesLogin(c) \/ NotesLogin(c) \/ GeneratesKey(c) \/ ChecksOwner(c)
         \/ WritesConfig(c) \/ WritesProfile(c) \/ LinksBotKey(c) \/ EnsuresAccess(c) \/ PrivyRefreshes(c)
         \/ SavesRefresh(c) \/ ClearsRefused(c) \/ Receipt(c) \/ AwaitsFunds(c) \/ Stops(c)
  PROVE  KeyInv'
<1> DEFINE m == cmd[c]
<1>0. m \in Command /\ Stage(m) /\ KeyAt(m)
  BY DEF Types, KeyInv
<1>1. CASE PollsDevice(c) \/ AwaitsFunds(c)
  <2>1. ASSUME Pending(c), m.pc \in {"poll", "fund"} PROVE KeyInv'
    BY <1>0, <2>1, KeysGoOn DEF Pending, world, KeyAt, Command
  <2>2. ASSUME NEW w,
               Do(c, [Goto(c, "save") EXCEPT !.n = 0, !.sess = [wallet |-> w, token |-> tokens + 1]], home),
               UNCHANGED <<openclaw, chain, wiped>>
        PROVE  KeyInv'
    BY <1>0, <2>2, KeysGoOn DEF KeyAt, Goto, Command
  <2> QED
    BY <1>1, <2>1, <2>2, EndsKeepsKeys DEF PollsDevice, AwaitsFunds, At
<1>2. CASE SavesLogin(c)
  BY <1>0, <1>2, KeysGoOn DEF SavesLogin, world, KeyAt, Goto, Command
<1>3. CASE NotesLogin(c)
  BY <1>0, <1>3, KeysGoOn, EndsKeepsKeys, IdleTyped DEF NotesLogin, world, KeyAt, Goto, Command
<1>4. CASE GeneratesKey(c)
  BY <1>0, <1>4, KeysGoOn, EndsKeepsKeys DEF GeneratesKey, world, KeyAt, Goto, Command
<1>5. CASE ChecksOwner(c) \/ WritesConfig(c)
  BY <1>0, <1>5, KeysGoOn, EndsKeepsKeys DEF ChecksOwner, WritesConfig, Moves, world, KeyAt, Goto, Command
<1>6. CASE WritesProfile(c) \/ ClearsRefused(c) \/ Receipt(c) \/ Stops(c)
  BY <1>6, KeysGoOn, EndsKeepsKeys, IdleTyped DEF WritesProfile, ClearsRefused, Receipt, Stops, world, KeyAt
<1>7. CASE LinksBotKey(c)
  BY <1>0, <1>7, KeysGoOn, EndsKeepsKeys DEF LinksBotKey, At, world, KeyAt, Goto, Command
<1>8. CASE EnsuresAccess(c)
  BY <1>0, <1>8, KeysGoOn, EndsKeepsKeys DEF EnsuresAccess, At, world, KeyAt, Goto, Command
<1>9. CASE PrivyRefreshes(c)
  BY <1>0, <1>9, KeysGoOn DEF PrivyRefreshes, Rotates, Declines, At, KeyAt, Goto, Command
<1>10. CASE SavesRefresh(c)
  BY <1>0, <1>10, KeysGoOn DEF SavesRefresh, At, world, KeyAt, Goto, Command
<1> QED
  BY <1>1, <1>2, <1>3, <1>4, <1>5, <1>6, <1>7, <1>8, <1>9, <1>10

\* A key is only written where there is none, and a bot on record has one there.
LEMMA WritesBotKeyKeepsKeys == ASSUME Types, KeyInv, NEW c \in Terminals, WritesBotKey(c) PROVE KeyInv'
<1> DEFINE m == cmd[c]
<1>0. m \in Command /\ chain \in Chain
  BY DEF Types, WorldTypes
<1>1. CASE Ends(c)
  BY <1>1, EndsKeepsKeys
<1>2. CASE openclaw = None /\ openclaw' = m.key /\ Do(c, Goto(c, "link"), home) /\ UNCHANGED <<chain, wiped>>
  <2>1. cmd'[c] = Goto(c, "link") /\ Others(c)
    BY <1>2, DoEffect DEF Types
  <2>2. ASSUME NEW t \in Terminals PROVE KeyAt(cmd[t])'
    <3>1. CASE t = c
      BY <1>0, <1>2, <2>1, <3>1 DEF KeyAt, Goto, Command
    <3>2. CASE t # c
      <4>1. cmd[t].key \in Addresses
        BY DEF Types, Command, Addresses
      <4> QED
        BY <1>2, <2>1, <3>2, <4>1, Apart DEF Others, KeyAt, KeyInv
    <3> QED
      BY <3>1, <3>2
  <2>3. BotKeyOnDisk'
    BY <1>0, <1>2, Apart DEF BotKeyOnDisk, KeyInv, Chain, Addresses
  <2> QED
    BY <2>2, <2>3 DEF KeyInv
<1> QED
  BY <1>1, <1>2 DEF WritesBotKey

\* What is registered is the key that was stored.
LEMMA MinesKeepsKeys ==
  ASSUME Types, KeyInv, NEW c \in Terminals, NEW by, cmd[c].pc \in {"send", "rpc"}, Mines(c, by)
  PROVE  KeyInv'
<1> DEFINE m == cmd[c]
<1> DEFINE pc == IF Registers(m.op, by) THEN "mined" ELSE "reverted"
<1>0. m \in Command /\ chain \in Chain /\ KeyAt(m) /\ m.op \in Signers
  BY DEF Types, WorldTypes, KeyInv, Stage, SignerPcs
<1>1. pc \in {"mined", "reverted"} /\ Do(c, [Goto(c, pc) EXCEPT !.by = by], home) /\ UNCHANGED <<openclaw, wiped>>
  BY DEF Mines
<1>2. cmd'[c] = [Goto(c, pc) EXCEPT !.by = by] /\ Others(c)
  BY <1>1, DoEffect DEF Types
<1> HIDE DEF pc
<1>6. cmd'[c].pc = pc
  BY <1>0, <1>2 DEF Goto, Command
<1>3. ASSUME NEW t \in Terminals PROVE KeyAt(cmd[t])'
  BY <1>1, <1>2, <1>6 DEF Others, KeyInv, KeyAt
<1>4. \/ chain' = chain
      \/ chain'.bot \in {chain.bot, Held, Gone}
      \/ m.op = "mintBot" /\ chain'.bot = m.key
  <2>1. CASE Registers(m.op, by)
    <3>1. chain' \in Registered(m.op, by, m.key)
      BY <2>1 DEF Mines
    <3> QED
      BY <1>0, <3>1 DEF Registered, Chain, Signers
  <2>2. CASE ~Registers(m.op, by)
    BY <2>2 DEF Mines
  <2> QED
    BY <2>1, <2>2
<1>5. BotKeyOnDisk'
  BY <1>0, <1>1, <1>4 DEF KeyInv, BotKeyOnDisk, KeyAt
<1> QED
  BY <1>3, <1>5 DEF KeyInv

\* The steps that use the signer.
LEMMA SignerKeepsKeys ==
  ASSUME Types, KeyInv, NEW c \in Terminals, ResolvesSigner(c) \/ WalletRpc(c) \/ LocalSends(c)
  PROVE  KeyInv'
<1> DEFINE m == cmd[c]
<1>0. m \in Command /\ KeyAt(m)
  BY DEF Types, KeyInv
<1>1. CASE ResolvesSigner(c)
  <2> DEFINE pc == IF m.op = "mintBot" THEN "key" ELSE IF Pointed = File THEN "send" ELSE "access"
  <2>1. PICK owner : \/ Ends(c)
                     \/ Do(c, [Goto(c, pc) EXCEPT !.plan = owner, !.ptr = Pointed], home) /\ UNCHANGED world
    BY <1>1 DEF ResolvesSigner
  <2>2. m.op = "mintBot" => pc = "key"
    OBVIOUS
  <2> HIDE DEF pc
  <2>3. KeyAt([Goto(c, pc) EXCEPT !.plan = owner, !.ptr = Pointed])
    BY <1>0, <2>2 DEF KeyAt, Goto, Command
  <2> QED
    BY <2>1, <2>3, KeysGoOn, EndsKeepsKeys DEF world
<1>2. CASE LocalSends(c)
  BY <1>2, MinesKeepsKeys DEF LocalSends, At
<1>3. CASE WalletRpc(c)
  <2>1. ASSUME Refuses(c) PROVE KeyInv'
    BY <1>0, <1>3, <2>1, KeysGoOn, EndsKeepsKeys DEF Refuses, WalletRpc, At, world, KeyAt, Goto, Command
  <2> QED
    BY <1>3, <2>1, MinesKeepsKeys DEF WalletRpc, At
<1> QED
  BY <1>1, <1>2, <1>3

\* reset.
LEMMA RemovesKeepsKeys == ASSUME Types, KeyInv, NEW c \in Terminals, Removes(c) PROVE KeyInv'
<1> DEFINE m == cmd[c]
<1>0. m \in Command /\ Stage(m)
  BY DEF Types
<1>1. PICK what \in m.todo :
          /\ At(c, "rm")
          /\ openclaw' = IF what = "openclaw" THEN None ELSE openclaw
          /\ wiped' = (wiped \/ what = "openclaw")
          /\ Do(c, IF m.todo \ {what} = {} THEN Idle ELSE [m EXCEPT !.todo = m.todo \ {what}], Without(what))
          /\ UNCHANGED <<chain, live, tokens, serial, lost, stops>>
  BY DEF Removes
<1>2. CASE what = "openclaw"
  BY <1>1, <1>2 DEF KeyInv, KeyAt, BotKeyOnDisk
<1>3. CASE what # "openclaw"
  <2>1. UNCHANGED <<openclaw, chain, wiped>>
    BY <1>1, <1>3 DEF Types, WorldTypes
  <2>2. KeyAt(IF m.todo \ {what} = {} THEN Idle ELSE [m EXCEPT !.todo = m.todo \ {what}])
    BY <1>0, <1>1, IdleTyped DEF KeyAt, At, Stage, Command
  <2> QED
    BY <1>1, <2>1, <2>2, KeysGoOn
<1> QED
  BY <1>2, <1>3

\* Every step.
LEMMA NextKeepsKeys == ASSUME Types, KeyInv, [Next]_vars PROVE KeyInv'
<1>1. CASE UNCHANGED vars
  BY <1>1 DEF vars, world, KeyInv, KeyAt, BotKeyOnDisk
<1>2. ASSUME NEW c \in Terminals, Start(c) \/ Progress(c) \/ Stops(c) PROVE KeyInv'
  BY <1>2, StartsKeepKeys, QuietKeepsKeys, WritesBotKeyKeepsKeys, SignerKeepsKeys, RemovesKeepsKeys
     DEF Progress
<1> QED
  BY <1>1, <1>2 DEF Next

----------------------------------------------------------------------------
(* Refresh tokens *)

Fresh == {"save", "refreshed"}

\* A command's token was issued, and one the file does not have yet is alive.
TokenAt(m) ==
    /\ m.sess # None => m.sess.token <= tokens
    /\ m.pc \in Fresh => /\ m.sess.token \in live
                         /\ home.session # None => home.session.token # m.sess.token

\* Such a token is nobody else's.
Unshared(m, other) == m.pc \in Fresh /\ other.sess # None => other.sess.token # m.sess.token

TokenInv ==
    /\ live \subseteq 0 .. tokens
    /\ home.session # None => home.session.token <= tokens
    /\ StoredTokenLive
    /\ \A c \in Terminals : TokenAt(cmd[c])
    /\ \A c, t \in Terminals : c # t => Unshared(cmd[c], cmd[t])

\* Sessions have numbered tokens.
LEMMA SessionTypes ==
  ASSUME Types
  PROVE  /\ tokens \in Nat /\ live \subseteq Nat
         /\ home.session # None => home.session \in Session /\ home.session.token \in Nat
         /\ \A c \in Terminals : /\ cmd[c].sess # None => cmd[c].sess \in Session /\ cmd[c].sess.token \in Nat
                                 /\ cmd[c].pc \in Fresh \cup {"refused", "refresh"} => cmd[c].sess # None
BY DEF Types, WorldTypes, Home, Command, Session, Stage, Fresh

\* A step that issues, spends and stores no token.
LEMMA TokensGoOn ==
  ASSUME Types, TokenInv, NEW c \in Terminals, NEW new, NEW h, Do(c, new, h),
         UNCHANGED <<live, tokens>>, h.session \in {home.session, None},
         new.sess \in {None, cmd[c].sess, home.session}, new.pc \notin Fresh,
         lost => lost', Owed(c) => lost' \/ h.session = None
  PROVE  TokenInv'
<1>1. home' = h /\ cmd'[c] = new /\ Others(c)
  BY DoEffect DEF Types
<1>2. ASSUME NEW t \in Terminals PROVE TokenAt(cmd[t])'
  <2>1. CASE t = c
    BY <1>1, <2>1 DEF TokenInv, TokenAt
  <2>2. CASE t # c
    BY <1>1, <2>2 DEF Others, TokenInv, TokenAt
  <2> QED
    BY <2>1, <2>2
<1>3. ASSUME NEW t \in Terminals, NEW u \in Terminals, t # u PROVE Unshared(cmd[t], cmd[u])'
  <2>1. CASE t = c
    BY <1>1, <2>1 DEF Unshared
  <2>2. CASE u = c
    <3>1. TokenAt(cmd[t]) /\ Unshared(cmd[t], cmd[c])
      BY <1>3, <2>2 DEF TokenInv
    <3> QED
      BY <1>1, <1>3, <2>2, <3>1 DEF Others, Unshared, TokenAt
  <2>3. CASE t # c /\ u # c
    BY <1>1, <1>3, <2>3 DEF Others, TokenInv, Unshared
  <2> QED
    BY <2>1, <2>2, <2>3
<1>4. StoredTokenLive'
  <2>1. SUFFICES ASSUME home'.session # None, ~lost', \A t \in Terminals : ~Owed(t)'
                 PROVE  home'.session.token \in live'
    BY DEF StoredTokenLive
  <2>2. home'.session = home.session
    BY <1>1, <2>1
  <2>3. \A t \in Terminals : ~Owed(t)
    BY <1>1, <2>1, <2>2 DEF Others, Owed, At
  <2> QED
    BY <2>1, <2>2, <2>3 DEF TokenInv, StoredTokenLive
<1> QED
  BY <1>1, <1>2, <1>3, <1>4 DEF TokenInv

\* A fresh token is stored.
LEMMA TokenIsSaved ==
  ASSUME Types, TokenInv, NEW c \in Terminals, NEW new, NEW h, Do(c, new, h),
         UNCHANGED <<live, tokens, lost>>, cmd[c].pc \in Fresh, h.session = cmd[c].sess,
         new.sess = cmd[c].sess, new.pc \notin Fresh \cup {"refused"}
  PROVE  TokenInv'
<1>1. home' = h /\ cmd'[c] = new /\ Others(c)
  BY DoEffect DEF Types
<1>2. cmd[c].sess # None /\ cmd[c].sess.token \in live /\ cmd[c].sess.token <= tokens
  BY SessionTypes DEF TokenInv, TokenAt
<1>3. ASSUME NEW t \in Terminals PROVE TokenAt(cmd[t])'
  <2>1. CASE t = c
    BY <1>1, <1>2, <2>1 DEF TokenAt
  <2>2. CASE t # c
    <3>1. TokenAt(cmd[t]) /\ Unshared(cmd[t], cmd[c])
      BY <2>2 DEF TokenInv
    <3> QED
      BY <1>1, <1>2, <2>2, <3>1 DEF Others, TokenAt, Unshared
  <2> QED
    BY <2>1, <2>2
<1>4. ASSUME NEW t \in Terminals, NEW u \in Terminals, t # u PROVE Unshared(cmd[t], cmd[u])'
  <2>1. CASE t = c
    BY <1>1, <2>1 DEF Unshared
  <2>2. CASE t # c
    BY <1>1, <1>4, <2>2 DEF Others, TokenInv, Unshared
  <2> QED
    BY <2>1, <2>2
<1>5. StoredTokenLive'
  BY <1>1, <1>2 DEF StoredTokenLive
<1> QED
  BY <1>1, <1>2, <1>3, <1>4, <1>5 DEF TokenInv

\* A token is issued, and the one the command holds may be spent for it.
LEMMA TokenIsIssued ==
  ASSUME Types, TokenInv, NEW c \in Terminals, NEW new, Do(c, new, home), NEW spent,
         \/ spent = {} /\ cmd[c].pc \notin {"refreshed", "refused"}
         \/ spent = {cmd[c].sess.token} /\ cmd[c].pc = "refresh" /\ new.pc = "refreshed",
         tokens' = tokens + 1, live' = (live \ spent) \cup {tokens + 1}, UNCHANGED lost,
         new.pc \in Fresh, new.sess # None, new.sess.token = tokens + 1
  PROVE  TokenInv'
<1>1. home' = home /\ cmd'[c] = new /\ Others(c)
  BY DoEffect DEF Types
<1>2. tokens \in Nat /\ live \subseteq 0 .. tokens /\ live' \subseteq 0 .. tokens'
  <2>1. tokens \in Nat /\ live \subseteq 0 .. tokens
    BY SessionTypes DEF TokenInv
  <2>2. ASSUME NEW x \in live' PROVE x \in 0 .. tokens'
    <3>1. x \in live \/ x = tokens + 1
      BY <2>2
    <3>2. x \in Nat /\ x <= tokens + 1
      BY <2>1, <3>1
    <3>3. tokens' = tokens + 1 /\ tokens' \in Nat
      BY <2>1
    <3> QED
      BY <3>2, <3>3
  <2>3. tokens' \in Nat
    BY <2>1
  <2> QED
    BY <2>1, <2>2, <2>3
<1>3. ASSUME NEW t \in Terminals PROVE TokenAt(cmd[t])'
  <2>1. CASE t = c
    BY <1>1, <1>2, <2>1, SessionTypes DEF TokenAt, TokenInv, Fresh
  <2>2. CASE t # c
    <3>1. TokenAt(cmd[t]) /\ Unshared(cmd[t], cmd[c])
      BY <2>2 DEF TokenInv
    <3>2. cmd'[t].sess = cmd[t].sess /\ cmd'[t].pc = cmd[t].pc
      BY <1>1, <2>2 DEF Others
    <3>3. cmd[t].sess # None => cmd[t].sess.token \in Nat /\ cmd[t].sess.token <= tokens
      BY <3>1, SessionTypes DEF TokenAt
    <3>4. cmd[t].pc \in Fresh => cmd[t].sess.token \in live'
      BY <3>1, SessionTypes DEF TokenAt, Unshared
    <3> QED
      BY <1>1, <1>2, <3>1, <3>2, <3>3, <3>4 DEF TokenAt
  <2> QED
    BY <2>1, <2>2
<1>4. ASSUME NEW t \in Terminals, NEW u \in Terminals, t # u PROVE Unshared(cmd[t], cmd[u])'
  <2>1. CASE t = c
    <3>1. cmd'[u].sess = cmd[u].sess
      BY <1>1, <1>4, <2>1 DEF Others
    <3>2. cmd[u].sess # None => cmd[u].sess.token \in Nat /\ cmd[u].sess.token <= tokens
      BY SessionTypes DEF TokenInv, TokenAt
    <3> QED
      BY <1>1, <1>2, <2>1, <3>1, <3>2 DEF Unshared
  <2>2. CASE u = c
    <3>1. cmd'[t].sess = cmd[t].sess /\ cmd'[t].pc = cmd[t].pc
      BY <1>1, <1>4, <2>2 DEF Others
    <3>2. cmd[t].sess # None => cmd[t].sess.token \in Nat /\ cmd[t].sess.token <= tokens
      BY SessionTypes DEF TokenInv, TokenAt
    <3> QED
      BY <1>1, <1>2, <2>2, <3>1, <3>2, SessionTypes DEF Unshared
  <2>3. CASE t # c /\ u # c
    BY <1>1, <1>4, <2>3 DEF Others, TokenInv, Unshared
  <2> QED
    BY <2>1, <2>2, <2>3
<1>5. StoredTokenLive'
  <2>1. SUFFICES ASSUME home'.session # None, ~lost', \A t \in Terminals : ~Owed(t)'
                 PROVE  home'.session.token \in live'
    BY DEF StoredTokenLive
  <2>2. spent = {} /\ cmd[c].pc # "refused"
    BY <1>1, <2>1 DEF Owed, At
  <2>3. \A t \in Terminals : ~Owed(t)
    BY <1>1, <2>1, <2>2 DEF Others, Owed, At
  <2> QED
    BY <1>1, <2>1, <2>2, <2>3 DEF TokenInv, StoredTokenLive
<1>6. home.session # None => home.session.token <= tokens'
  BY <1>2, SessionTypes DEF TokenInv
<1> QED
  BY <1>1, <1>2, <1>3, <1>4, <1>5, <1>6 DEF TokenInv

\* The vendor answers with an error, and may have spent the token.
LEMMA TokenIsDeclined ==
  ASSUME Types, TokenInv, NEW c \in Terminals, cmd[c].pc = "refresh", Declines(c)
  PROVE  TokenInv'
<1> DEFINE new == Goto(c, "refused")
<1>0. new.sess = cmd[c].sess /\ new.pc = "refused" /\ Do(c, new, home) /\ UNCHANGED <<tokens, lost>>
  BY DEF Types, Goto, Command, Declines
<1>1. home' = home /\ cmd'[c] = new /\ Others(c)
  BY <1>0, DoEffect DEF Types
<1>2. live' \in {live, live \ {cmd[c].sess.token}}
  BY DEF Declines
<1> HIDE DEF new
<1>3. ASSUME NEW t \in Terminals PROVE TokenAt(cmd[t])'
  <2>1. CASE t = c
    BY <1>0, <1>1, <2>1 DEF TokenInv, TokenAt, Fresh
  <2>2. CASE t # c
    <3>1. TokenAt(cmd[t]) /\ Unshared(cmd[t], cmd[c]) /\ cmd[c].sess # None
      BY <2>2, SessionTypes DEF TokenInv
    <3> QED
      BY <1>0, <1>1, <1>2, <2>2, <3>1 DEF Others, TokenAt, Unshared
  <2> QED
    BY <2>1, <2>2
<1>4. ASSUME NEW t \in Terminals, NEW u \in Terminals, t # u PROVE Unshared(cmd[t], cmd[u])'
  BY <1>0, <1>1, <1>4 DEF Others, TokenInv, Unshared, Fresh
<1>5. StoredTokenLive'
  <2>1. SUFFICES ASSUME home'.session # None, ~lost', \A t \in Terminals : ~Owed(t)'
                 PROVE  home'.session.token \in live'
    BY DEF StoredTokenLive
  <2>2. home.session.token # cmd[c].sess.token
    BY <1>0, <1>1, <2>1 DEF Owed, At
  <2>3. \A t \in Terminals : ~Owed(t)
    BY <1>0, <1>1, <2>1 DEF Others, Owed, At
  <2> QED
    BY <1>0, <1>1, <1>2, <2>1, <2>2, <2>3 DEF TokenInv, StoredTokenLive
<1> QED
  BY <1>0, <1>1, <1>2, <1>3, <1>4, <1>5 DEF TokenInv

\* A command ends that holds no answer to a refresh.
LEMMA EndsKeepsTokens ==
  ASSUME Types, TokenInv, NEW c \in Terminals, cmd[c].pc \notin {"refreshed", "refused"}, Ends(c)
  PROVE  TokenInv'
BY TokensGoOn, IdleTyped DEF Ends, world, Fresh, Owed, At

\* A command starts.
LEMMA StartsKeepTokens == ASSUME Types, TokenInv, NEW c \in Terminals, Start(c) PROVE TokenInv'
<1>1. ASSUME NEW new, Starts(c, new), new.sess = None,
             new.pc \in {"poll", "gen", "check", "resolve", "rm", "fund"}
      PROVE  TokenInv'
  BY <1>1, TokensGoOn DEF Starts, Fresh, At, Owed
<1>2. CASE InitProfile(c)
  <2> DEFINE h == [home EXCEPT !.config = TRUE]
  <2>1. h.session = home.session
    BY DEF Types, Home
  <2>2. Do(c, Idle, h) /\ UNCHANGED <<live, tokens, lost>> /\ cmd[c].pc = "idle"
    BY <1>2 DEF InitProfile, At
  <2> HIDE DEF h
  <2> QED
    BY <2>1, <2>2, TokensGoOn, IdleTyped DEF Fresh, Owed, At
<1> QED
  BY <1>1, <1>2
     DEF Start, StartLogin, StartSetup, SetupGenerates, SetupByKeyFile, SetupByAddress, SetupByLogin,
         NewSetup, StartSigner, StartReset, StartFund, Idle

\* The steps that hand tokens on.
LEMMA SessionKeepsTokens ==
  ASSUME Types, TokenInv, NEW c \in Terminals,
         PollsDevice(c) \/ SavesLogin(c) \/ PrivyRefreshes(c) \/ SavesRefresh(c)
  PROVE  TokenInv'
<1> DEFINE m == cmd[c]
<1>0. m \in Command /\ Stage(m) /\ home \in Home
  BY DEF Types
<1>1. CASE PollsDevice(c)
  <2>1. ASSUME Pending(c) PROVE TokenInv'
    BY <1>0, <1>1, <2>1, TokensGoOn DEF PollsDevice, At, Pending, world, Command, Fresh, Owed
  <2>2. ASSUME NEW w, tokens' = tokens + 1, live' = live \cup {tokens + 1}, UNCHANGED lost,
               Do(c, [Goto(c, "save") EXCEPT !.n = 0, !.sess = [wallet |-> w, token |-> tokens + 1]], home),
               w \in Wallets
        PROVE  TokenInv'
    <3> DEFINE new == [Goto(c, "save") EXCEPT !.n = 0, !.sess = [wallet |-> w, token |-> tokens + 1]]
    <3>1. new.pc = "save" /\ new.sess = [wallet |-> w, token |-> tokens + 1]
      BY <1>0 DEF Goto, Command
    <3>2. new.sess # None /\ new.sess.token = tokens + 1
      <4>1. [wallet |-> w, token |-> tokens + 1] \in Session
        BY <2>2, SessionTypes DEF Session
      <4> QED
        BY <3>1, <4>1, Apart
    <3>3. live' = (live \ {}) \cup {tokens + 1}
      BY <2>2
    <3> HIDE DEF new
    <3> QED
      BY <1>1, <2>2, <3>1, <3>2, <3>3, TokenIsIssued DEF Fresh, PollsDevice, At, new
  <2> QED
    BY <1>1, <2>1, <2>2, EndsKeepsTokens DEF PollsDevice, At
<1>2. CASE SavesLogin(c)
  <2>1. [home EXCEPT !.session = m.sess].session = m.sess
    BY <1>0 DEF Home
  <2>2. Goto(c, "own").sess = m.sess /\ Goto(c, "own").pc = "own"
    BY <1>0 DEF Goto, Command
  <2> QED
    BY <1>2, <2>1, <2>2, TokenIsSaved DEF SavesLogin, At, world, Fresh
<1>3. CASE PrivyRefreshes(c)
  <2>1. CASE Rotates(c)
    <3> DEFINE new == [Goto(c, "refreshed") EXCEPT !.sess.token = tokens + 1]
    <3>1. m.sess \in Session
      BY <1>3, SessionTypes DEF PrivyRefreshes, At
    <3>2. [m.sess EXCEPT !.token = tokens + 1] \in Session /\ [m.sess EXCEPT !.token = tokens + 1].token = tokens + 1
      BY <3>1, SessionTypes DEF Session
    <3>3. new.pc = "refreshed" /\ new.sess = [m.sess EXCEPT !.token = tokens + 1]
      BY <1>0 DEF Goto, Command
    <3>4. new.sess # None /\ new.sess.token = tokens + 1
      BY <3>2, <3>3, Apart
    <3>5. /\ tokens' = tokens + 1 /\ live' = (live \ {m.sess.token}) \cup {tokens + 1}
          /\ Do(c, new, home) /\ UNCHANGED lost /\ m.pc = "refresh"
      BY <1>3, <2>1 DEF PrivyRefreshes, Rotates, At
    <3> HIDE DEF new
    <3> QED
      BY <3>3, <3>4, <3>5, TokenIsIssued DEF Fresh
  <2> QED
    BY <1>3, <2>1, TokenIsDeclined DEF PrivyRefreshes, At
<1>4. CASE SavesRefresh(c)
  <2>1. [home EXCEPT !.session = m.sess].session = m.sess
    BY <1>0 DEF Home
  <2>2. Goto(c, "rpc").sess = m.sess /\ Goto(c, "rpc").pc = "rpc"
    BY <1>0 DEF Goto, Command
  <2> QED
    BY <1>4, <2>1, <2>2, TokenIsSaved DEF SavesRefresh, At, world, Fresh
<1> QED
  BY <1>1, <1>2, <1>3, <1>4

\* The session survives what else is written to the home, or is removed.
LEMMA HomeEdits ==
  ASSUME home \in Home
  PROVE  /\ \A x : /\ [home EXCEPT !.operator = x].session = home.session
                   /\ [home EXCEPT !.opKey = x].session = home.session
                   /\ [home EXCEPT !.config = x].session = home.session
                   /\ [home EXCEPT !.link = x].session = home.session
         /\ [home EXCEPT !.session = None].session = None
         /\ \A what \in Targets : Without(what).session \in {home.session, None}
<1>1. \A what \in Targets : Without(what).session \in {home.session, None}
  BY DEF Home, Without, Targets, Rank
<1> QED
  BY <1>1 DEF Home

\* The other steps.
LEMMA QuietKeepsTokens ==
  ASSUME Types, TokenInv, NEW c \in Terminals,
         \/ NotesLogin(c) \/ GeneratesKey(c) \/ ChecksOwner(c) \/ WritesConfig(c) \/ WritesProfile(c)
         \/ ResolvesSigner(c) \/ WritesBotKey(c) \/ LinksBotKey(c) \/ EnsuresAccess(c) \/ ClearsRefused(c)
         \/ WalletRpc(c) \/ LocalSends(c) \/ Receipt(c) \/ Removes(c) \/ AwaitsFunds(c) \/ Stops(c)
  PROVE  TokenInv'
<1> DEFINE m == cmd[c]
<1>0. m \in Command /\ Stage(m) /\ home \in Home
  BY DEF Types
<1>g. ASSUME NEW pc \in Pcs PROVE Goto(c, pc).sess = m.sess /\ Goto(c, pc).pc = pc
  BY GotoTyped
<1>m. ASSUME NEW by, m.pc \in {"send", "rpc"}, Mines(c, by) PROVE TokenInv'
  <2> DEFINE pc == IF Registers(m.op, by) THEN "mined" ELSE "reverted"
  <2>1. pc \in {"mined", "reverted"} /\ Do(c, [Goto(c, pc) EXCEPT !.by = by], home) /\ UNCHANGED <<live, tokens, lost>>
    BY <1>m DEF Mines
  <2> HIDE DEF pc
  <2>2. [Goto(c, pc) EXCEPT !.by = by].sess = m.sess /\ [Goto(c, pc) EXCEPT !.by = by].pc = pc
    BY <1>0 DEF Goto, Command
  <2> QED
    BY <1>m, <2>1, <2>2, TokensGoOn DEF Fresh, Owed, At
<1>1. CASE NotesLogin(c)
  <2> DEFINE w == m.sess.wallet
  <2> DEFINE next == IF m.op = "login" THEN Idle
                     ELSE [Goto(c, "check") EXCEPT !.plan = w, !.ptr = w, !.sess = None]
  <2> DEFINE h == IF home.operator # None \/ (m.op = "login" /\ m.force = "yes")
                  THEN [home EXCEPT !.operator = [owner |-> w, key |-> w]] ELSE home
  <2>1. next.sess = None /\ next.pc \in {"idle", "check"}
    BY <1>0, IdleTyped DEF Goto, Command
  <2>2. h.session = home.session
    BY <1>0, HomeEdits
  <2>3. Ends(c) \/ (Do(c, next, h) /\ UNCHANGED world)
    BY <1>1 DEF NotesLogin
  <2> HIDE DEF next, h
  <2> QED
    BY <1>1, <2>1, <2>2, <2>3, TokensGoOn, EndsKeepsTokens DEF NotesLogin, At, world, Fresh, Owed
<1>2. CASE GeneratesKey(c)
  <2> DEFINE new == [Goto(c, "check") EXCEPT !.plan = m.key, !.ptr = File]
  <2>1. new.sess = m.sess /\ new.pc = "check"
    BY <1>0 DEF Goto, Command
  <2> DEFINE h == [home EXCEPT !.opKey = m.key]
  <2>2. Ends(c) \/ (Do(c, new, h) /\ UNCHANGED world)
    BY <1>2 DEF GeneratesKey
  <2>3. h.session = home.session
    BY <1>0 DEF Home
  <2> HIDE DEF new, h
  <2> QED
    BY <1>2, <2>1, <2>2, <2>3, TokensGoOn, EndsKeepsTokens DEF GeneratesKey, At, world, Fresh, Owed
<1>3. CASE ChecksOwner(c)
  BY <1>3, <1>g, TokensGoOn, EndsKeepsTokens DEF ChecksOwner, Moves, At, world, Fresh, Pcs, Owed
<1>4. CASE WritesConfig(c)
  <2> DEFINE h == [home EXCEPT !.config = TRUE]
  <2>1. Ends(c) \/ (Do(c, Goto(c, "profile"), h) /\ UNCHANGED world)
    BY <1>4 DEF WritesConfig
  <2>2. h.session = home.session
    BY <1>0 DEF Home
  <2> HIDE DEF h
  <2> QED
    BY <1>4, <1>g, <2>1, <2>2, TokensGoOn, EndsKeepsTokens DEF WritesConfig, At, world, Fresh, Pcs, Owed
<1>5. CASE WritesProfile(c)
  BY <1>0, <1>5, HomeEdits, IdleTyped, TokensGoOn DEF WritesProfile, At, world, Fresh, Owed
<1>6. CASE ResolvesSigner(c)
  <2> DEFINE pc == IF m.op = "mintBot" THEN "key" ELSE IF Pointed = File THEN "send" ELSE "access"
  <2>1. PICK owner : \/ Ends(c)
                     \/ Do(c, [Goto(c, pc) EXCEPT !.plan = owner, !.ptr = Pointed], home) /\ UNCHANGED world
    BY <1>6 DEF ResolvesSigner
  <2>2. pc \in {"key", "send", "access"}
    OBVIOUS
  <2> HIDE DEF pc
  <2> DEFINE new == [Goto(c, pc) EXCEPT !.plan = owner, !.ptr = Pointed]
  <2>3. new.sess = m.sess /\ new.pc = pc
    BY <1>0 DEF Goto, Command
  <2>4. Ends(c) \/ (Do(c, new, home) /\ UNCHANGED world)
    BY <2>1
  <2> HIDE DEF new
  <2> QED
    BY <1>6, <2>2, <2>3, <2>4, TokensGoOn, EndsKeepsTokens DEF ResolvesSigner, At, world, Fresh, Owed
<1>7. CASE WritesBotKey(c)
  BY <1>7, <1>g, TokensGoOn, EndsKeepsTokens DEF WritesBotKey, At, Fresh, Pcs, Owed
<1>8. CASE LinksBotKey(c)
  <2> DEFINE pc == IF m.ptr = File THEN "send" ELSE "access"
  <2>1. pc \in {"send", "access"} /\ pc \in Pcs
    BY DEF Pcs
  <2>2. Ends(c) \/ \E l : Do(c, Goto(c, pc), [home EXCEPT !.link = l]) /\ UNCHANGED world
    BY <1>8 DEF LinksBotKey
  <2> HIDE DEF pc
  <2>3. ASSUME NEW l, Do(c, Goto(c, pc), [home EXCEPT !.link = l]), UNCHANGED world PROVE TokenInv'
    <3> DEFINE h == [home EXCEPT !.link = l]
    <3>1. h.session = home.session
      BY <1>0 DEF Home
    <3>2. Do(c, Goto(c, pc), h)
      BY <2>3
    <3> HIDE DEF h
    <3> QED
      BY <1>8, <1>g, <2>1, <2>3, <3>1, <3>2, TokensGoOn DEF LinksBotKey, At, world, Fresh, Owed
  <2> QED
    BY <1>8, <2>2, <2>3, EndsKeepsTokens DEF LinksBotKey, At
<1>9. CASE EnsuresAccess(c)
  <2>1. ASSUME NEW pc \in {"rpc", "refresh"}, Do(c, [Goto(c, pc) EXCEPT !.sess = home.session], home), UNCHANGED world
        PROVE  TokenInv'
    <3> DEFINE new == [Goto(c, pc) EXCEPT !.sess = home.session]
    <3>1. new.sess = home.session /\ new.pc = pc
      BY <1>0 DEF Goto, Command
    <3>2. Do(c, new, home)
      BY <2>1
    <3> HIDE DEF new
    <3> QED
      BY <1>9, <2>1, <3>1, <3>2, TokensGoOn DEF EnsuresAccess, At, world, Fresh, Owed
  <2> QED
    BY <1>9, <2>1, EndsKeepsTokens DEF EnsuresAccess, At
<1>10. CASE ClearsRefused(c)
  BY <1>0, <1>10, HomeEdits, IdleTyped, TokensGoOn DEF ClearsRefused, At, world, Fresh, Owed
<1>11. CASE WalletRpc(c)
  <2>1. ASSUME Refuses(c) PROVE TokenInv'
    <3> DEFINE new == [Goto(c, "refresh") EXCEPT !.n = 1]
    <3>1. new.sess = m.sess /\ new.pc = "refresh"
      BY <1>0 DEF Goto, Command
    <3>2. Ends(c) \/ (Do(c, new, home) /\ UNCHANGED world)
      BY <2>1 DEF Refuses
    <3> HIDE DEF new
    <3> QED
      BY <1>11, <3>1, <3>2, TokensGoOn, EndsKeepsTokens DEF WalletRpc, At, world, Fresh, Owed
  <2> QED
    BY <1>11, <1>m, <2>1 DEF WalletRpc, At
<1>12. CASE LocalSends(c)
  BY <1>12, <1>m DEF LocalSends, At
<1>13. CASE Receipt(c)
  <2> DEFINE h == [home EXCEPT !.operator = [owner |-> m.plan, key |-> m.ptr]]
  <2>1. Ends(c) \/ (Do(c, Idle, h) /\ UNCHANGED world)
    BY <1>13 DEF Receipt
  <2>2. h.session = home.session
    BY <1>0 DEF Home
  <2> HIDE DEF h
  <2> QED
    BY <1>13, <2>1, <2>2, IdleTyped, TokensGoOn, EndsKeepsTokens DEF Receipt, At, world, Fresh, Owed
<1>14. CASE Removes(c)
  <2>1. PICK what \in m.todo :
          /\ At(c, "rm")
          /\ Do(c, IF m.todo \ {what} = {} THEN Idle ELSE [m EXCEPT !.todo = m.todo \ {what}], Without(what))
          /\ UNCHANGED <<live, tokens, lost>>
    BY <1>14 DEF Removes
  <2> DEFINE new == IF m.todo \ {what} = {} THEN Idle ELSE [m EXCEPT !.todo = m.todo \ {what}]
  <2>2. new.sess \in {None, m.sess} /\ new.pc \in {"idle", m.pc}
    BY <1>0, IdleTyped DEF Command
  <2>3. Do(c, new, Without(what)) /\ what \in Targets
    BY <1>0, <2>1 DEF Command
  <2> HIDE DEF new
  <2> QED
    BY <1>0, <2>1, <2>2, <2>3, HomeEdits, TokensGoOn DEF At, Fresh, Owed
<1>15. CASE AwaitsFunds(c)
  <2>1. ASSUME Pending(c) PROVE TokenInv'
    BY <1>0, <1>15, <2>1, TokensGoOn DEF AwaitsFunds, At, Pending, world, Command, Fresh, Owed
  <2> QED
    BY <1>15, <2>1, EndsKeepsTokens DEF AwaitsFunds, At
<1>16. CASE Stops(c)
  BY <1>16, IdleTyped, TokensGoOn DEF Stops, At, Fresh, Owed
<1> QED
  BY <1>1, <1>2, <1>3, <1>4, <1>5, <1>6, <1>7, <1>8, <1>9, <1>10, <1>11, <1>12, <1>13, <1>14, <1>15, <1>16

\* Every step.
LEMMA NextKeepsTokens == ASSUME Types, TokenInv, [Next]_vars PROVE TokenInv'
<1>1. CASE UNCHANGED vars
  BY <1>1 DEF vars, world, TokenInv, TokenAt, Unshared, StoredTokenLive, Owed, At
<1>2. ASSUME NEW c \in Terminals, Start(c) \/ Progress(c) \/ Stops(c) PROVE TokenInv'
  BY <1>2, StartsKeepTokens, SessionKeepsTokens, QuietKeepsTokens DEF Progress
<1> QED
  BY <1>1, <1>2 DEF Next

----------------------------------------------------------------------------
(* What a command believes of the home *)

SetupPcs == {"check", "config", "profile"}

\* As long as nobody changed the home under it, a command m finds home h as it
\* read it: the session is the planned wallet's, the key file it points to is
\* there, and a reset removes the profile before the key.
PlanOf(m, h) == ~m.moved =>
    /\ m.by # None => m.by = m.plan /\ m.pc \in {"mined", "reverted"}
    /\ m.pc \in {"key", "link", "access"} /\ m.ptr # File /\ h.session # None => h.session.wallet = m.plan
    /\ m.pc \in {"refresh", "refreshed", "rpc"} => m.sess.wallet = m.plan
    /\ m.pc \in {"key", "link", "send", "mined"} \cup SetupPcs /\ m.ptr = File => h.opKey # None
    /\ m.pc = "rm" /\ "opKey" \in m.todo /\ "operator" \notin m.todo => h.operator = None

PlanInv == \A c \in Terminals : PlanOf(cmd[c], home)

\* The others' beliefs survive a command's step: it marks those it disturbs.
LEMMA PlansGoOn ==
  ASSUME Types, PlanInv, NEW c \in Terminals, NEW new, NEW h, Do(c, new, h), PlanOf(new, h)
  PROVE  PlanInv'
<1>1. home' = h /\ cmd'[c] = new /\ Others(c)
  BY DoEffect DEF Types
<1>2. ASSUME NEW t \in Terminals, t # c PROVE PlanOf(cmd'[t], home')
  <2>1. PlanOf(cmd[t], home) /\ Stage(cmd[t])
    BY DEF PlanInv, Types
  <2>2. SUFFICES ASSUME ~cmd'[t].moved PROVE PlanOf(cmd'[t], home')
    BY DEF PlanOf
  <2>3. ~cmd[t].moved /\ (home' = home \/ cmd[t].op \in {"none", "login", "fund"})
    BY <1>1, <1>2, <2>2 DEF Others
  <2>4. CASE home' = home
    BY <1>1, <1>2, <2>1, <2>3, <2>4 DEF Others, PlanOf
  <2>5. CASE cmd[t].op \in {"none", "login", "fund"}
    <3>1. cmd[t].pc \notin SignerPcs \cup SetupPcs \cup {"rm"}
      BY <2>1, <2>5 DEF Stage, Signers, SetupPcs
    <3> QED
      BY <1>1, <1>2, <2>1, <2>3, <3>1 DEF Others, PlanOf, SignerPcs, SetupPcs
  <2> QED
    BY <2>3, <2>4, <2>5
<1> QED
  BY <1>1, <1>2 DEF PlanInv

\* A command that is not there believes nothing.
LEMMA IdlePlansNothing == ASSUME NEW h PROVE PlanOf(Idle, h)
BY IdleTyped DEF PlanOf, SetupPcs

\* A command ends.
LEMMA EndsKeepsPlans == ASSUME Types, PlanInv, NEW c \in Terminals, Ends(c) PROVE PlanInv'
BY IdlePlansNothing, PlansGoOn DEF Ends

\* A command starts.
LEMMA StartsKeepPlans == ASSUME Types, PlanInv, NEW c \in Terminals, Start(c) PROVE PlanInv'
<1>1. ASSUME NEW new, Starts(c, new), new.by = None, new.pc \in {"poll", "gen", "resolve", "fund"} PROVE PlanInv'
  <2>1. PlanOf(new, home)
    BY <1>1 DEF PlanOf, SetupPcs
  <2> QED
    BY <1>1, <2>1, PlansGoOn DEF Starts
<1>2. ASSUME NEW new, Starts(c, new), new.by = None, new.pc = "check", new.ptr = File => home.opKey # None
      PROVE  PlanInv'
  <2>1. PlanOf(new, home)
    BY <1>2 DEF PlanOf, SetupPcs
  <2> QED
    BY <1>2, <2>1, PlansGoOn DEF Starts
<1>3. CASE StartSetup(c)
  BY <1>1, <1>2, <1>3, Apart
     DEF StartSetup, SetupGenerates, SetupByKeyFile, SetupByAddress, SetupByLogin, NewSetup, Idle
<1>4. CASE StartReset(c)
  <2>1. PICK todo \in Resets, keys \in {{}, {"openclaw"}} :
          Starts(c, [Idle EXCEPT !.pc = "rm", !.op = "reset", !.todo = todo \cup keys])
    BY <1>4 DEF StartReset
  <2> DEFINE new == [Idle EXCEPT !.pc = "rm", !.op = "reset", !.todo = todo \cup keys]
  <2>2. new.by = None /\ new.pc = "rm" /\ new.todo = todo \cup keys
    BY DEF Idle
  <2>3. "opKey" \in todo \cup keys => "operator" \in todo \cup keys
    BY <2>1 DEF Resets, Files, Partly
  <2>4. Do(c, new, home)
    BY <2>1 DEF Starts
  <2> HIDE DEF new
  <2>5. PlanOf(new, home)
    BY <2>2, <2>3 DEF PlanOf, SetupPcs
  <2> QED
    BY <2>4, <2>5, PlansGoOn
<1>5. CASE InitProfile(c)
  BY <1>5, IdlePlansNothing, PlansGoOn DEF InitProfile
<1> QED
  BY <1>1, <1>3, <1>4, <1>5 DEF Start, StartLogin, StartSigner, StartFund, Idle

\* A step that leaves by alone, and goes where little is believed.
LEMMA PlansQuiet ==
  ASSUME Types, PlanInv, NEW c \in Terminals, NEW new, NEW h, Do(c, new, h),
         cmd[c].pc \notin {"mined", "reverted"}, new.by = cmd[c].by, new.moved = cmd[c].moved,
         new.pc \in {"poll", "save", "own", "fund", "refused"} \cup {"rm"} \cup SetupPcs,
         new.pc \in SetupPcs /\ new.ptr = File => cmd[c].moved \/ h.opKey # None,
         new.pc = "rm" /\ "opKey" \in new.todo /\ "operator" \notin new.todo => cmd[c].moved \/ h.operator = None
  PROVE  PlanInv'
<1>1. ~cmd[c].moved => cmd[c].by = None
  BY DEF PlanInv, PlanOf
<1>2. PlanOf(new, h)
  BY <1>1 DEF PlanOf, SetupPcs
<1> QED
  BY <1>2, PlansGoOn

\* login and setup.
LEMMA SetupKeepsPlans ==
  ASSUME Types, PlanInv, NEW c \in Terminals,
         \/ PollsDevice(c) \/ SavesLogin(c) \/ NotesLogin(c)
         \/ GeneratesKey(c) \/ ChecksOwner(c) \/ WritesConfig(c) \/ WritesProfile(c)
  PROVE  PlanInv'
<1> DEFINE m == cmd[c]
<1>0. m \in Command /\ Stage(m) /\ home \in Home /\ PlanOf(m, home)
  BY DEF Types, PlanInv
<1>g. ASSUME NEW pc \in Pcs
      PROVE  /\ Goto(c, pc).by = m.by /\ Goto(c, pc).moved = m.moved /\ Goto(c, pc).pc = pc
             /\ Goto(c, pc).ptr = m.ptr
  BY GotoTyped
<1>1. CASE PollsDevice(c)
  <2>1. ASSUME NEW w, Do(c, [Goto(c, "save") EXCEPT !.n = 0, !.sess = [wallet |-> w, token |-> tokens + 1]], home)
        PROVE  PlanInv'
    <3> DEFINE new == [Goto(c, "save") EXCEPT !.n = 0, !.sess = [wallet |-> w, token |-> tokens + 1]]
    <3>1. new.by = m.by /\ new.moved = m.moved /\ new.pc = "save"
      BY <1>0 DEF Goto, Command
    <3>2. Do(c, new, home)
      BY <2>1
    <3> HIDE DEF new
    <3> QED
      BY <1>1, <3>1, <3>2, PlansQuiet DEF PollsDevice, At, SetupPcs
  <2>2. ASSUME Pending(c) PROVE PlanInv'
    <3> DEFINE new == [m EXCEPT !.n = m.n + 1]
    <3>1. new.by = m.by /\ new.moved = m.moved /\ new.pc = m.pc
      BY <1>0 DEF Command
    <3>2. Do(c, new, home)
      BY <2>2 DEF Pending
    <3> HIDE DEF new
    <3> QED
      BY <1>1, <3>1, <3>2, PlansQuiet DEF PollsDevice, At, SetupPcs
  <2> QED
    BY <1>1, <2>1, <2>2, EndsKeepsPlans DEF PollsDevice
<1>2. CASE SavesLogin(c)
  BY <1>2, <1>g, PlansQuiet DEF SavesLogin, At, SetupPcs, Pcs
<1>3. CASE NotesLogin(c)
  <2> DEFINE w == m.sess.wallet
  <2> DEFINE new == [Goto(c, "check") EXCEPT !.plan = w, !.ptr = w, !.sess = None]
  <2>1. new.by = m.by /\ new.moved = m.moved /\ new.pc = "check" /\ new.ptr = w
    BY <1>0 DEF Goto, Command
  <2>2. w # File /\ m.pc = "own"
    BY <1>0, <1>3, Apart DEF NotesLogin, At, Stage, Command, Session
  <2>3. PICK h : Ends(c) \/ Do(c, Idle, h) \/ Do(c, new, h)
    BY <1>3 DEF NotesLogin
  <2> HIDE DEF new
  <2> QED
    BY <2>1, <2>2, <2>3, PlansQuiet, PlansGoOn, IdlePlansNothing, EndsKeepsPlans DEF SetupPcs
<1>4. CASE GeneratesKey(c)
  <2> DEFINE new == [Goto(c, "check") EXCEPT !.plan = m.key, !.ptr = File]
  <2> DEFINE h == [home EXCEPT !.opKey = m.key]
  <2>1. new.by = m.by /\ new.moved = m.moved /\ new.pc = "check" /\ new.ptr = File
    BY <1>0 DEF Goto, Command
  <2>2. h.opKey = m.key /\ m.key # None
    BY <1>0, Apart DEF Home, Command
  <2>3. Ends(c) \/ Do(c, new, h)
    BY <1>4 DEF GeneratesKey
  <2>4. m.pc = "gen"
    BY <1>4 DEF GeneratesKey, At
  <2> HIDE DEF new, h
  <2> QED
    BY <2>1, <2>2, <2>3, <2>4, PlansQuiet, EndsKeepsPlans DEF SetupPcs
<1>5. CASE ChecksOwner(c)
  BY <1>0, <1>5, <1>g, PlansQuiet, EndsKeepsPlans DEF ChecksOwner, Moves, At, SetupPcs, Pcs, PlanOf
<1>6. CASE WritesConfig(c)
  <2> DEFINE h == [home EXCEPT !.config = TRUE]
  <2>1. Ends(c) \/ Do(c, Goto(c, "profile"), h)
    BY <1>6 DEF WritesConfig
  <2>2. h.opKey = home.opKey
    BY <1>0 DEF Home
  <2> HIDE DEF h
  <2> QED
    BY <1>0, <1>6, <1>g, <2>1, <2>2, PlansQuiet, EndsKeepsPlans DEF WritesConfig, At, SetupPcs, Pcs, PlanOf
<1>7. CASE WritesProfile(c)
  BY <1>7, IdlePlansNothing, PlansGoOn DEF WritesProfile
<1> QED
  BY <1>1, <1>2, <1>3, <1>4, <1>5, <1>6, <1>7

\* The signer and the files of a bot key.
LEMMA SignerKeepsPlans ==
  ASSUME Types, PlanInv, NEW c \in Terminals, ResolvesSigner(c) \/ WritesBotKey(c) \/ LinksBotKey(c)
  PROVE  PlanInv'
<1> DEFINE m == cmd[c]
<1>0. m \in Command /\ Stage(m) /\ home \in Home /\ PlanOf(m, home)
  BY DEF Types, PlanInv
<1>g. ASSUME NEW pc \in Pcs
      PROVE  /\ Goto(c, pc).by = m.by /\ Goto(c, pc).moved = m.moved /\ Goto(c, pc).pc = pc
             /\ Goto(c, pc).ptr = m.ptr /\ Goto(c, pc).plan = m.plan
  BY GotoTyped
<1>1. CASE ResolvesSigner(c)
  <2> DEFINE pc == IF m.op = "mintBot" THEN "key" ELSE IF Pointed = File THEN "send" ELSE "access"
  <2> DEFINE owner == IF home.operator = None THEN SignerAddress ELSE home.operator.owner
  <2> DEFINE new == [Goto(c, pc) EXCEPT !.plan = owner, !.ptr = Pointed]
  <2>1. SUFFICES ASSUME Fits(SignerAddress), Do(c, new, home) PROVE PlanInv'
    BY <1>1, EndsKeepsPlans DEF ResolvesSigner
  <2>2. new.by = m.by /\ new.moved = m.moved /\ new.pc = pc /\ new.ptr = Pointed /\ new.plan = owner
    BY <1>0 DEF Goto, Command
  <2>3. owner = SignerAddress /\ pc \in {"key", "send", "access"}
    BY <1>0, <2>1, ResolvedTyped
  <2>4. /\ Pointed = File => home.opKey # None
        /\ Pointed # File => home.session.wallet = SignerAddress
    BY <1>0, <2>1, ResolvedTyped
  <2>5. m.pc = "resolve"
    BY <1>1 DEF ResolvesSigner, At
  <2> HIDE DEF new, owner, pc
  <2>6. PlanOf(new, home)
    BY <1>0, <2>2, <2>3, <2>4, <2>5 DEF PlanOf, SetupPcs
  <2> QED
    BY <2>1, <2>6, PlansGoOn
<1>2. CASE WritesBotKey(c)
  <2>1. PlanOf(Goto(c, "link"), home)
    BY <1>0, <1>2, <1>g DEF WritesBotKey, At, Pcs, PlanOf, SetupPcs
  <2> QED
    BY <1>2, <2>1, PlansGoOn, EndsKeepsPlans DEF WritesBotKey
<1>3. CASE LinksBotKey(c)
  <2> DEFINE pc == IF m.ptr = File THEN "send" ELSE "access"
  <2>1. pc \in {"send", "access"} /\ pc \in Pcs /\ (pc = "access" => m.ptr # File)
    BY DEF Pcs
  <2>2. Ends(c) \/ \E l : Do(c, Goto(c, pc), [home EXCEPT !.link = l])
    BY <1>3 DEF LinksBotKey
  <2> HIDE DEF pc
  <2>3. ASSUME NEW l, Do(c, Goto(c, pc), [home EXCEPT !.link = l]) PROVE PlanInv'
    <3> DEFINE h == [home EXCEPT !.link = l]
    <3>1. h.session = home.session /\ h.opKey = home.opKey
      BY <1>0 DEF Home
    <3>2. Do(c, Goto(c, pc), h)
      BY <2>3
    <3> HIDE DEF h
    <3>3. PlanOf(Goto(c, pc), h)
      BY <1>0, <1>3, <1>g, <2>1, <3>1 DEF LinksBotKey, At, PlanOf, SetupPcs
    <3> QED
      BY <3>2, <3>3, PlansGoOn
  <2> QED
    BY <2>2, <2>3, EndsKeepsPlans
<1> QED
  BY <1>1, <1>2, <1>3

\* The vendor session and what it signs.
LEMMA SessionKeepsPlans ==
  ASSUME Types, PlanInv, NEW c \in Terminals,
         \/ EnsuresAccess(c) \/ PrivyRefreshes(c) \/ SavesRefresh(c) \/ ClearsRefused(c)
         \/ WalletRpc(c) \/ LocalSends(c) \/ Receipt(c)
  PROVE  PlanInv'
<1> DEFINE m == cmd[c]
<1>0. m \in Command /\ Stage(m) /\ home \in Home /\ PlanOf(m, home)
  BY DEF Types, PlanInv
<1>g. ASSUME NEW pc \in Pcs
      PROVE  /\ Goto(c, pc).by = m.by /\ Goto(c, pc).moved = m.moved /\ Goto(c, pc).pc = pc
             /\ Goto(c, pc).ptr = m.ptr /\ Goto(c, pc).plan = m.plan /\ Goto(c, pc).sess = m.sess
  BY GotoTyped
<1>m. ASSUME NEW by, m.pc \in {"send", "rpc"}, ~m.moved => by = m.plan, Mines(c, by) PROVE PlanInv'
  <2> DEFINE pc == IF Registers(m.op, by) THEN "mined" ELSE "reverted"
  <2> DEFINE new == [Goto(c, pc) EXCEPT !.by = by]
  <2>1. pc \in {"mined", "reverted"} /\ Do(c, new, home)
    BY <1>m DEF Mines
  <2>2. new.by = by /\ new.moved = m.moved /\ new.pc = pc /\ new.ptr = m.ptr /\ new.plan = m.plan
    BY <1>0 DEF Goto, Command
  <2>3. m.ptr = File => m.pc = "send"
    BY <1>0, <1>m DEF Stage
  <2> HIDE DEF new, pc
  <2>4. PlanOf(new, home)
    BY <1>0, <1>m, <2>1, <2>2, <2>3 DEF PlanOf, SetupPcs
  <2> QED
    BY <2>1, <2>4, PlansGoOn
<1>1. CASE EnsuresAccess(c)
  <2>1. ASSUME NEW pc \in {"rpc", "refresh"}, Do(c, [Goto(c, pc) EXCEPT !.sess = home.session], home),
               home.session # None
        PROVE  PlanInv'
    <3> DEFINE new == [Goto(c, pc) EXCEPT !.sess = home.session]
    <3>1. new.by = m.by /\ new.moved = m.moved /\ new.pc = pc /\ new.ptr = m.ptr /\ new.plan = m.plan
          /\ new.sess = home.session
      BY <1>0 DEF Goto, Command
    <3>2. Do(c, new, home) /\ m.pc = "access" /\ m.ptr # File
      BY <1>0, <1>1, <2>1 DEF EnsuresAccess, At, Stage
    <3> HIDE DEF new
    <3>3. PlanOf(new, home)
      BY <1>0, <2>1, <3>1, <3>2 DEF PlanOf, SetupPcs
    <3> QED
      BY <3>2, <3>3, PlansGoOn
  <2> QED
    BY <1>1, <2>1, EndsKeepsPlans DEF EnsuresAccess
<1>2. CASE PrivyRefreshes(c)
  <2>1. CASE Rotates(c)
    <3> DEFINE new == [Goto(c, "refreshed") EXCEPT !.sess.token = tokens + 1]
    <3>1. m.sess \in Session /\ m.pc = "refresh"
      BY <1>2, SessionTypes DEF PrivyRefreshes, At
    <3>2. [m.sess EXCEPT !.token = tokens + 1].wallet = m.sess.wallet
      BY <3>1 DEF Session
    <3>3. new.pc = "refreshed" /\ new.sess = [m.sess EXCEPT !.token = tokens + 1]
          /\ new.by = m.by /\ new.moved = m.moved /\ new.plan = m.plan
      BY <1>0 DEF Goto, Command
    <3>4. Do(c, new, home)
      BY <2>1 DEF Rotates
    <3> HIDE DEF new
    <3>5. new.sess.wallet = m.sess.wallet
      BY <3>2, <3>3
    <3>6. PlanOf(new, home)
      BY <1>0, <3>1, <3>3, <3>5 DEF PlanOf, SetupPcs
    <3> QED
      BY <3>4, <3>6, PlansGoOn
  <2>2. CASE Declines(c)
    BY <1>2, <1>g, <2>2, PlansQuiet DEF PrivyRefreshes, Declines, At, SetupPcs, Pcs
  <2> QED
    BY <1>2, <2>1, <2>2 DEF PrivyRefreshes
<1>3. CASE SavesRefresh(c)
  <2>1. ASSUME NEW h PROVE PlanOf(Goto(c, "rpc"), h)
    BY <1>0, <1>3, <1>g DEF SavesRefresh, At, Pcs, PlanOf, SetupPcs
  <2> QED
    BY <1>3, <2>1, PlansGoOn DEF SavesRefresh
<1>4. CASE ClearsRefused(c)
  BY <1>4, IdlePlansNothing, PlansGoOn DEF ClearsRefused
<1>5. CASE WalletRpc(c)
  <2>1. m.pc = "rpc"
    BY <1>5 DEF WalletRpc, At
  <2>2. ASSUME Refuses(c) PROVE PlanInv'
    <3> DEFINE new == [Goto(c, "refresh") EXCEPT !.n = 1]
    <3>1. new.by = m.by /\ new.moved = m.moved /\ new.pc = "refresh" /\ new.plan = m.plan /\ new.sess = m.sess
      BY <1>0 DEF Goto, Command
    <3>2. Ends(c) \/ Do(c, new, home)
      BY <2>2 DEF Refuses
    <3> HIDE DEF new
    <3>3. PlanOf(new, home)
      BY <1>0, <2>1, <3>1 DEF PlanOf, SetupPcs
    <3> QED
      BY <3>2, <3>3, PlansGoOn, EndsKeepsPlans
  <2>3. ~m.moved => m.sess.wallet = m.plan
    BY <1>0, <2>1 DEF PlanOf
  <2> QED
    BY <1>5, <1>m, <2>1, <2>2, <2>3 DEF WalletRpc
<1>6. CASE LocalSends(c)
  BY <1>6, <1>m DEF LocalSends, At
<1>7. CASE Receipt(c)
  BY <1>7, IdlePlansNothing, PlansGoOn, EndsKeepsPlans DEF Receipt
<1> QED
  BY <1>1, <1>2, <1>3, <1>4, <1>5, <1>6, <1>7

\* reset removes operator.json before op.key.
LEMMA RemovesKeepsPlans == ASSUME Types, PlanInv, NEW c \in Terminals, Removes(c) PROVE PlanInv'
<1> DEFINE m == cmd[c]
<1>0. m \in Command /\ Stage(m) /\ home \in Home /\ PlanOf(m, home)
  BY DEF Types, PlanInv
<1>1. PICK what \in m.todo :
        /\ m.pc = "rm"
        /\ Do(c, IF m.todo \ {what} = {} THEN Idle ELSE [m EXCEPT !.todo = m.todo \ {what}], Without(what))
  BY DEF Removes, At
<1>2. what \in Targets
  BY <1>0 DEF Command
<1>3. Without("operator").operator = None
  BY <1>0 DEF Home, Without
<1>4. home.operator = None => Without(what).operator = None
  BY <1>0, <1>2 DEF Home, Without, Targets, Rank
<1>5. CASE m.todo \ {what} = {}
  BY <1>1, <1>5, IdlePlansNothing, PlansGoOn
<1>6. CASE m.todo \ {what} # {}
  <2> DEFINE new == [m EXCEPT !.todo = m.todo \ {what}]
  <2>1. new.by = m.by /\ new.moved = m.moved /\ new.pc = "rm" /\ new.todo = m.todo \ {what}
    BY <1>0, <1>1 DEF Command
  <2>2. Do(c, new, Without(what))
    BY <1>1, <1>6
  <2> HIDE DEF new
  <2>3. "opKey" \in new.todo /\ "operator" \notin new.todo => m.moved \/ Without(what).operator = None
    BY <1>0, <1>1, <1>3, <1>4, <2>1 DEF PlanOf
  <2> QED
    BY <1>1, <2>1, <2>2, <2>3, PlansQuiet DEF SetupPcs
<1> QED
  BY <1>5, <1>6

\* Every step.
LEMMA NextKeepsPlans == ASSUME Types, PlanInv, [Next]_vars PROVE PlanInv'
<1>1. CASE UNCHANGED vars
  BY <1>1 DEF vars, PlanInv
<1>2. ASSUME NEW c \in Terminals, AwaitsFunds(c) \/ Stops(c) PROVE PlanInv'
  <2>1. ASSUME AwaitsFunds(c), Pending(c) PROVE PlanInv'
    <3> DEFINE new == [cmd[c] EXCEPT !.n = cmd[c].n + 1]
    <3>1. new.by = cmd[c].by /\ new.moved = cmd[c].moved /\ new.pc = "fund"
      BY <2>1 DEF AwaitsFunds, At, Types, Command
    <3>2. Do(c, new, home)
      BY <2>1 DEF Pending
    <3> HIDE DEF new
    <3> QED
      BY <2>1, <3>1, <3>2, PlansQuiet DEF AwaitsFunds, At, SetupPcs
  <2> QED
    BY <1>2, <2>1, EndsKeepsPlans, IdlePlansNothing, PlansGoOn DEF AwaitsFunds, Stops
<1>3. ASSUME NEW c \in Terminals, Start(c) \/ Progress(c) \/ Stops(c) PROVE PlanInv'
  BY <1>2, <1>3, StartsKeepPlans, SetupKeepsPlans, SignerKeepsPlans, SessionKeepsPlans, RemovesKeepsPlans
     DEF Progress
<1> QED
  BY <1>1, <1>3 DEF Next

----------------------------------------------------------------------------
(* The theorems *)

CliInv == Types /\ KeyInv /\ TokenInv /\ PlanInv

\* The invariants hold at first.
LEMMA InitKeys == Init => KeyInv
BY Apart, IdleTyped DEF Init, KeyInv, KeyAt, BotKeyOnDisk, Old, Held, Gone

\* And the tokens: one is out, in the file or not.
LEMMA InitTokens == Init => TokenInv
<1>1. SUFFICES ASSUME Init PROVE TokenInv
  OBVIOUS
<1>2. home.session # None => home.session.token = 0
  <2> DEFINE new == [config |-> FALSE, operator |-> None, opKey |-> None, session |-> None, link |-> "none"]
  <2> DEFINE set == [new EXCEPT !.config = TRUE]
  <2> DEFINE in == [set EXCEPT !.session = [wallet |-> Mine, token |-> 0]]
  <2> DEFINE vault == [in EXCEPT !.operator = [owner |-> Mine, key |-> Mine]]
  <2> DEFINE keyed == [set EXCEPT !.operator = [owner |-> Old, key |-> File], !.opKey = Old]
  <2>1. home \in {new, in, vault, keyed, [vault EXCEPT !.link = "link"]}
    BY <1>1 DEF Init
  <2>2. new.session = None /\ keyed.session = None /\ in.session.token = 0
    OBVIOUS
  <2>3. vault.session.token = 0 /\ [vault EXCEPT !.link = "link"].session.token = 0
    OBVIOUS
  <2> HIDE DEF new, keyed, in, vault
  <2> QED
    BY <2>1, <2>2, <2>3
<1>3. \A c \in Terminals : cmd[c] = Idle
  BY <1>1 DEF Init
<1>4. live = {0} /\ tokens = 0
  BY <1>1 DEF Init
<1> QED
  BY <1>2, <1>3, <1>4, IdleTyped DEF TokenInv, TokenAt, Unshared, StoredTokenLive, Fresh

\* And the plans: there are none.
LEMMA InitPlans == Init => PlanInv
BY IdlePlansNothing DEF Init, PlanInv

\* Every reachable state satisfies them.
THEOREM CliInvariant == Spec => []CliInv
<1>1. Init => CliInv
  BY InitTyped, InitKeys, InitTokens, InitPlans DEF CliInv
<1>2. CliInv /\ [Next]_vars => CliInv'
  BY NextTyped, NextKeepsKeys, NextKeepsTokens, NextKeepsPlans DEF CliInv
<1> QED
  BY <1>1, <1>2, PTL DEF Spec

\* The variables have their types.
THEOREM TypeCorrect == Spec => []CliTypeOK
<1>1. CliInv => CliTypeOK
  BY DEF CliInv, Types, WorldTypes, Stage, CliTypeOK
<1> QED
  BY <1>1, CliInvariant, PTL

\* The key of the minted bot stays in the OpenClaw folder.
THEOREM BotKeysOnDisk == Spec => []BotKeyOnDisk
<1>1. CliInv => BotKeyOnDisk
  BY DEF CliInv, KeyInv
<1> QED
  BY <1>1, CliInvariant, PTL

\* The stored refresh token is one the vendor accepts.
THEOREM StoredTokensAreLive == Spec => []StoredTokenLive
<1>1. CliInv => StoredTokenLive
  BY DEF CliInv, TokenInv
<1> QED
  BY <1>1, CliInvariant, PTL

\* An undisturbed command signs as the address it showed.
THEOREM SignersAsPlanned == Spec => []SignedAsPlanned
<1>1. CliInv => SignedAsPlanned
  BY DEF CliInv, PlanInv, PlanOf, SignedAsPlanned
<1> QED
  BY <1>1, CliInvariant, PTL

\* What an action does to operator.json and to op.key.
LEMMA ProfileLost ==
  ASSUME CliInv, [Next]_vars, ~Dangling(home), Dangling(home')
  PROVE  \E c \in Terminals : WritesProfile(c) \/ Receipt(c) \/ Removes(c)
<1> SUFFICES ASSUME \A c \in Terminals : ~WritesProfile(c) /\ ~Receipt(c) /\ ~Removes(c) PROVE FALSE
  OBVIOUS
<1>1. home \in Home /\ \A c \in Terminals : cmd[c] \in Command /\ Stage(cmd[c])
  BY DEF CliInv, Types
<1>2. PICK c \in Terminals : Start(c) \/ Progress(c) \/ Stops(c)
  BY DEF Next, vars
<1>3. home' # home
  OBVIOUS
<1>4. ~(home'.operator = home.operator /\ home'.opKey = home.opKey)
  BY DEF Dangling
<1>5. CASE Start(c)
  BY <1>1, <1>3, <1>4, <1>5
     DEF Start, StartLogin, StartSetup, SetupGenerates, SetupByKeyFile, SetupByAddress, SetupByLogin,
         StartSigner, StartReset, StartFund, Starts, Do, InitProfile, Home
<1>6. CASE SavesLogin(c) \/ SavesRefresh(c) \/ ClearsRefused(c) \/ WritesConfig(c) \/ LinksBotKey(c)
  BY <1>1, <1>3, <1>4, <1>6 DEF SavesLogin, SavesRefresh, ClearsRefused, WritesConfig, LinksBotKey, Ends, Do, Home
<1>7. CASE NotesLogin(c)
  <2> DEFINE w == cmd[c].sess.wallet
  <2>1. home' = [home EXCEPT !.operator = [owner |-> w, key |-> w]]
    BY <1>3, <1>7 DEF NotesLogin, Ends, Do
  <2>2. w # File
    BY <1>1, <1>7, Apart DEF NotesLogin, At, Stage, Command, Session
  <2>3. home'.operator = [owner |-> w, key |-> w]
    BY <1>1, <2>1 DEF Home
  <2> QED
    BY <2>2, <2>3 DEF Dangling
<1>8. CASE GeneratesKey(c)
  <2>1. home' = [home EXCEPT !.opKey = cmd[c].key]
    BY <1>3, <1>8 DEF GeneratesKey, Ends, Do
  <2>2. home'.opKey = cmd[c].key /\ cmd[c].key # None
    BY <1>1, <2>1, Apart DEF Home, Command
  <2> QED
    BY <2>2 DEF Dangling
<1>9. CASE \/ PollsDevice(c) \/ ChecksOwner(c) \/ ResolvesSigner(c) \/ WritesBotKey(c) \/ EnsuresAccess(c)
           \/ PrivyRefreshes(c) \/ WalletRpc(c) \/ LocalSends(c) \/ AwaitsFunds(c) \/ Stops(c)
  BY <1>3, <1>9
     DEF PollsDevice, ChecksOwner, ResolvesSigner, WritesBotKey, EnsuresAccess, PrivyRefreshes, Rotates, Declines, WalletRpc,
         LocalSends, AwaitsFunds, Stops, Pending, Moves, Ends, Mines, Refuses, Do
<1> QED
  BY <1>2, <1>5, <1>6, <1>7, <1>8, <1>9 DEF Progress

\* operator.json is left without the key it names only under another command.
THEOREM PointersHaveKeys == Spec => PointerHasKey
<1> DEFINE A == ~Dangling(home) /\ Dangling(home')
                => \E c \in Terminals : cmd[c].moved /\ cmd'[c] # cmd[c]
<1>1. CliInv /\ [Next]_vars => A
  <2>1. SUFFICES ASSUME CliInv, [Next]_vars, ~Dangling(home), Dangling(home')
                 PROVE  \E c \in Terminals : cmd[c].moved /\ cmd'[c] # cmd[c]
    OBVIOUS
  <2>2. PICK c \in Terminals : WritesProfile(c) \/ Receipt(c) \/ Removes(c)
    BY <2>1, ProfileLost
  <2> DEFINE m == cmd[c]
  <2>3. home \in Home /\ m \in Command /\ Stage(m) /\ PlanOf(m, home) /\ cmd \in [Terminals -> Command]
    BY <2>1 DEF CliInv, Types, PlanInv
  <2>4. CASE WritesProfile(c) \/ Receipt(c)
    <3> DEFINE h == [home EXCEPT !.operator = [owner |-> m.plan, key |-> m.ptr]]
    <3>1. Do(c, Idle, home) \/ Do(c, Idle, h)
      BY <2>4 DEF WritesProfile, Receipt, Ends
    <3>2. home' = h
      BY <2>1, <3>1 DEF Do
    <3>3. h.operator = [owner |-> m.plan, key |-> m.ptr] /\ h.opKey = home.opKey
      BY <2>3 DEF Home
    <3>4. m.ptr = File /\ home.opKey = None
      BY <2>1, <3>2, <3>3 DEF Dangling
    <3>5. m.pc \in {"profile", "mined", "reverted"}
      BY <2>4 DEF WritesProfile, Receipt, At
    <3>6. m.pc # "reverted"
      BY <2>1, <2>4 DEF Receipt, At, Ends, Do, WritesProfile
    <3>7. m.moved
      BY <2>3, <3>4, <3>5, <3>6 DEF PlanOf, SetupPcs
    <3>8. cmd'[c] = Idle /\ m.pc # "idle"
      BY <2>3, <3>1, <3>5, DoEffect
    <3> QED
      BY <3>7, <3>8, IdleTyped
  <2>5. CASE Removes(c)
    <3>1. PICK what \in m.todo :
            /\ m.pc = "rm" /\ IsFirst(m.todo, what)
            /\ Do(c, IF m.todo \ {what} = {} THEN Idle ELSE [m EXCEPT !.todo = m.todo \ {what}], Without(what))
      BY <2>5 DEF Removes, At
    <3>2. what \in Targets /\ home' = Without(what)
      BY <2>3, <3>1 DEF Command, Do
    <3>3. what = "opKey" /\ home.operator # None
      <4>1. CASE what = "opKey"
        <5>1. home'.operator = home.operator
          BY <2>3, <3>2, <4>1 DEF Home, Without
        <5> QED
          BY <2>1, <4>1, <5>1 DEF Dangling
      <4>2. CASE what = "operator"
        <5>1. home'.operator = None
          BY <2>3, <3>2, <4>2 DEF Home, Without
        <5> QED
          BY <2>1, <5>1 DEF Dangling
      <4>3. CASE what = "pointer"
        <5>1. CASE home.operator = None \/ home.operator.key \notin Wallets
          BY <2>1, <3>2, <4>3, <5>1 DEF Without
        <5>2. CASE home.operator # None /\ home.operator.key \in Wallets
          <6>1. home' = [home EXCEPT !.operator.key = None]
            BY <3>2, <4>3, <5>2 DEF Without
          <6>2. home'.operator.key = None
            BY <2>3, <5>2, <6>1 DEF Home
          <6> QED
            BY <2>1, <6>2, Apart DEF Dangling
        <5> QED
          BY <5>1, <5>2
      <4>4. CASE what \in {"session", "config", "keys", "openclaw"}
        <5>1. home'.operator = home.operator /\ home'.opKey = home.opKey
          BY <2>3, <3>2, <4>4 DEF Home, Without
        <5> QED
          BY <2>1, <5>1 DEF Dangling
      <4> QED
        BY <3>2, <4>1, <4>2, <4>3, <4>4 DEF Targets, Rank
    <3>4. "opKey" \in m.todo /\ "operator" \notin m.todo
      BY <3>1, <3>3 DEF IsFirst, Rank
    <3>5. m.moved
      BY <2>3, <3>1, <3>3, <3>4 DEF PlanOf
    <3>6. cmd'[c].todo # m.todo
      <4>1. CASE m.todo \ {what} = {}
        BY <2>3, <3>1, <4>1, DoEffect DEF Idle
      <4>2. CASE m.todo \ {what} # {}
        <5> DEFINE new == [m EXCEPT !.todo = m.todo \ {what}]
        <5>1. new.todo = m.todo \ {what}
          BY <2>3 DEF Command
        <5>2. Do(c, new, Without(what))
          BY <3>1, <4>2
        <5> HIDE DEF new
        <5>3. cmd'[c] = new
          BY <2>3, <5>2, DoEffect
        <5> QED
          BY <3>1, <5>1, <5>3
      <4> QED
        BY <4>1, <4>2
    <3> QED
      BY <3>5, <3>6
  <2> QED
    BY <2>2, <2>4, <2>5
<1>2. CliInv /\ [Next]_vars => [A]_vars
  BY <1>1
<1>3. Spec => [][A]_vars
  BY <1>2, CliInvariant, PTL DEF Spec
<1> QED
  BY <1>3 DEF PointerHasKey

=================================================================================
