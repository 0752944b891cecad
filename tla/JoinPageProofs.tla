----------------------------- MODULE JoinPageProofs -----------------------------
(***************************************************************************)
(* Theorems about the Join page, for any number of accounts, operators and *)
(* bots and any bounds.                                                    *)
(*                                                                         *)
(* OneMint needs what the button stands for (MintInv): the page is busy as *)
(* long as a mint runs, so that no second one starts.  KeyOutlivesMint is  *)
(* inductive with the types, which name the mint that a key on the chain   *)
(* is of.  LookupComplete needs the event log (LookupInv): an operator has *)
(* no event before its registration, so that searches that have reached an *)
(* event that gave it to its owner have reached its label too.             *)
(***************************************************************************)
EXTENDS JoinPage, FiniteSetTheorems, TLAPS

\* What the registry and the look-ups know of each other.
ChainTypeOK ==
    /\ log \in Seq(Event)
    /\ owner \in [Ops -> Accounts \cup {None}]
    /\ revoked \subseteq Ops
    /\ botKey \in [Bots -> Mints \cup {None}]

FormTypeOK ==
    /\ session \in Accounts \cup {None}
    /\ step \in {"login", "loading", "home", "names", "fund", "minting", "done"}
    /\ adding \in BOOLEAN /\ funded \in BOOLEAN /\ busy \in BOOLEAN
    /\ opLabel \in Ops \cup {None} /\ botLabel \in Bots \cup {None}
    /\ owned \subseteq Ops

RunTypeOK ==
    /\ lookup \in [Lookups -> Lookup]
    /\ mint \in [Mints -> Mint]
    /\ pending \in Mints \cup {None} /\ downloaded \subseteq Mints /\ interrupted \subseteq Mints

\* What a mint that has read the registry was started with.
Signs(n) == mint[n].at \notin {"none", "reads", "done"}
MintsAreNamed == \A n \in Mints : /\ mint[n].at \notin {"none", "done"} => mint[n].owner \in Accounts
                                  /\ Signs(n) => mint[n].op \in Ops /\ mint[n].bot \in Bots

TypeInv == ChainTypeOK /\ FormTypeOK /\ RunTypeOK /\ MintsAreNamed

LEMMA TypeInvIsType == TypeInv <=> JoinTypeOK /\ MintsAreNamed
  BY DEF TypeInv, ChainTypeOK, FormTypeOK, RunTypeOK, JoinTypeOK

LEMMA EmptyRecords == NoLookup \in Lookup /\ LookupDone \in Lookup /\ NoMint \in Mint /\ MintDone \in Mint
  BY DEF NoLookup, LookupDone, Lookup, NoMint, MintDone, Mint

LEMMA TypeInit == Init => TypeInv
<1> SUFFICES ASSUME Init PROVE TypeInv
  OBVIOUS
<1>1. ChainTypeOK
  <2>1. PICK n \in 0 .. FromBlock - 1 : log = [i \in 1..n |-> Foreign]
    BY DEF Init
  <2>2. n \in Nat
    BY <2>1, JoinAssumption
  <2>3. log \in Seq(Event)
    BY <2>1, <2>2 DEF Event
  <2> QED
    BY <2>3 DEF Init, ChainTypeOK
<1>2. FormTypeOK
  BY DEF Init, PageInit, FormTypeOK
<1>3. RunTypeOK
  BY EmptyRecords DEF Init, PageInit, RunTypeOK
<1>4. MintsAreNamed
  BY DEF Init, MintsAreNamed, Signs, NoMint
<1> QED
  BY <1>1, <1>2, <1>3, <1>4 DEF TypeInv

LEMMA EventType ==
  ASSUME TypeInv, NEW i \in DOMAIN log
  PROVE  i \in 1..Len(log) /\ log[i] \in Event /\ (log[i].t # "foreign" => log[i].op \in Ops)
<1>1. \A S : \A s \in Seq(S) : \A j \in DOMAIN s : j \in 1..Len(s) /\ s[j] \in S
  OBVIOUS
<1>2. i \in 1..Len(log) /\ log[i] \in Event
  BY <1>1 DEF TypeInv, ChainTypeOK
<1> QED
  BY <1>2 DEF Event, Foreign

LEMMA EmitType ==
  ASSUME TypeInv, NEW t \in {"registered", "transferred", "revoked"}, NEW op \in Ops,
         NEW to \in Accounts, Emit(t, op, to)
  PROVE  log' \in Seq(Event) /\ owner' \in [Ops -> Accounts \cup {None}]
<1>1. [t |-> t, op |-> op, to |-> to] \in Event
  BY DEF Event
<1> QED
  BY <1>1 DEF Emit, TypeInv, ChainTypeOK

\* What is left alone keeps its type.
LEMMA Untouched ==
  ASSUME TypeInv
  PROVE  /\ UNCHANGED chainVars => ChainTypeOK'
         /\ UNCHANGED <<formVars, session, owned, funded, busy>> => FormTypeOK'
         /\ UNCHANGED <<keyVars, lookup, mint>> => RunTypeOK'
         /\ UNCHANGED mint => MintsAreNamed'
  BY DEF TypeInv, ChainTypeOK, FormTypeOK, RunTypeOK, MintsAreNamed, Signs, chainVars,
         formVars, keyVars

LEMMA LookupExcept ==
  ASSUME NEW r \in Lookup
  PROVE  /\ \A ops : [r EXCEPT !.mine = @ \ ops] \in Lookup
         /\ \A b \in BOOLEAN : [r EXCEPT !.cancelled = b] \in Lookup
         /\ \A ops \in SUBSET Ops, seen \in Nat :
              [r EXCEPT !.at = "rows", !.to = 0, !.seen = seen, !.rows = ops] \in Lookup
  BY DEF Lookup

LEMMA StillMineType ==
  ASSUME TypeInv, NEW ops, StillMine(ops)
  PROVE  lookup' \in [Lookups -> Lookup]
  BY LookupExcept DEF TypeInv, RunTypeOK, StillMine

LEMMA TransactType ==
  ASSUME TypeInv, Transact
  PROVE  TypeInv'
<1>1. PICK op \in Ops :
        \/ \E a \in Accounts : owner[op] = None /\ Emit("registered", op, a)
             /\ UNCHANGED <<revoked, botKey, lookup>>
        \/ \E a \in Accounts : owner[op] \notin {None, a} /\ op \notin revoked
             /\ Emit("transferred", op, a) /\ StillMine({op}) /\ UNCHANGED <<revoked, botKey>>
        \/ owner[op] # None /\ op \notin revoked /\ Emit("revoked", op, owner[op])
             /\ revoked' = revoked \cup {op} /\ StillMine({op}) /\ UNCHANGED botKey
  BY DEF Transact
<1>2. owner[op] # None => owner[op] \in Accounts
  BY DEF TypeInv, ChainTypeOK
<1>3. ChainTypeOK'
  BY <1>1, <1>2, EmitType DEF TypeInv, ChainTypeOK
<1>4. lookup' \in [Lookups -> Lookup]
  BY <1>1, StillMineType DEF TypeInv, RunTypeOK
<1>5. UNCHANGED <<formVars, keyVars, session, owned, funded, busy, mint>>
  BY DEF Transact
<1>6. RunTypeOK'
  BY <1>4, <1>5 DEF TypeInv, RunTypeOK, keyVars
<1> QED
  BY <1>3, <1>5, <1>6, Untouched DEF TypeInv

LEMMA StartLookupType ==
  ASSUME TypeInv, NEW a \in Accounts, NEW by \in {"effect", "home"}, StartLookup(a, by)
  PROVE  lookup' \in [Lookups -> Lookup]
<1>1. PICK l \in Lookups :
        lookup' = [k \in Lookups |->
             IF k = l THEN [NoLookup EXCEPT !.at = "scan", !.owner = a, !.by = by,
                              !.to = Len(log), !.mine = {op \in Ops : Owns(a, op)}]
             ELSE [lookup[k] EXCEPT !.cancelled = @ \/ (by = "effect" /\ lookup[k].by = "effect")]]
  BY DEF StartLookup
<1>2. Len(log) \in Nat
  BY DEF TypeInv, ChainTypeOK
<1>3. [NoLookup EXCEPT !.at = "scan", !.owner = a, !.by = by,
                       !.to = Len(log), !.mine = {op \in Ops : Owns(a, op)}] \in Lookup
  BY <1>2 DEF NoLookup, Lookup
<1> QED
  BY <1>1, <1>3, LookupExcept DEF TypeInv, RunTypeOK

\* What is listed: of what the searches gave, each at a height that is no lower
\* than seen, the operators that storage has with the owner.
LEMMA ReadsRowsOf ==
  ASSUME TypeInv, NEW l \in Lookups, ReadsRows(l)
  PROVE  \E seen \in Nat, rows \in SUBSET Ops :
           /\ seen <= lookup[l].to
           /\ lookup' = [lookup EXCEPT ![l] = [lookup[l] EXCEPT !.at = "rows", !.to = 0,
                                                               !.seen = seen, !.rows = rows]]
           /\ \E r, t \in seen .. lookup[l].to, n \in [Ops -> seen .. lookup[l].to] :
                rows = {op \in RegisteredTo(lookup[l].owner, r)
                                 \cup {p \in TransferredTo(lookup[l].owner, t) : Labelled(p, n[p])} :
                          Owns(lookup[l].owner, op)}
<1>0. PICK seen \in 0 .. lookup[l].to : \E names \in Names(l, seen) :
        lookup' = [lookup EXCEPT ![l].at = "rows", ![l].to = 0, ![l].seen = seen,
                      ![l].rows = {op \in names : Owns(lookup[l].owner, op)}]
  BY DEF ReadsRows
<1>1. PICK names \in Names(l, seen) :
        lookup' = [lookup EXCEPT ![l].at = "rows", ![l].to = 0, ![l].seen = seen,
                      ![l].rows = {op \in names : Owns(lookup[l].owner, op)}]
  BY <1>0
<1> DEFINE H == seen .. lookup[l].to
           a == lookup[l].owner
           rows == {op \in names : Owns(a, op)}
<1>2. PICK r \in H, t \in H, n \in [Ops -> H] :
        names = RegisteredTo(a, r) \cup {p \in TransferredTo(a, t) : Labelled(p, n[p])}
  BY DEF Names
<1>3. rows \in SUBSET Ops
  <2>1. \A h : \A i \in Searched(h) : log[i].t # "foreign" => log[i].op \in Ops
    BY EventType DEF Searched
  <2>2. RegisteredTo(a, r) \subseteq Ops /\ TransferredTo(a, t) \subseteq Ops
    BY <2>1 DEF RegisteredTo, TransferredTo
  <2> QED
    BY <1>2, <2>2
<1>4. lookup' = [lookup EXCEPT ![l] = [lookup[l] EXCEPT !.at = "rows", !.to = 0,
                                                        !.seen = seen, !.rows = rows]]
  BY <1>1 DEF TypeInv, RunTypeOK, Lookup
<1>5. seen \in Nat /\ seen <= lookup[l].to
  BY DEF TypeInv, RunTypeOK, Lookup
<1>6. \E r1, t1 \in H, n1 \in [Ops -> H] :
        rows = {op \in RegisteredTo(a, r1)
                         \cup {p \in TransferredTo(a, t1) : Labelled(p, n1[p])} : Owns(a, op)}
  BY <1>2
<1> HIDE DEF rows
<1> WITNESS seen \in Nat, rows \in SUBSET Ops
<1> QED
  BY <1>4, <1>5, <1>6

LEMMA LookupType ==
  ASSUME TypeInv, NEW l \in Lookups, ReadsRows(l) \/ LookupEnds(l)
  PROVE  TypeInv'
<1>1. CASE ReadsRows(l)
  <2>1. PICK seen \in Nat, rows \in SUBSET Ops :
          lookup' = [lookup EXCEPT ![l] = [lookup[l] EXCEPT !.at = "rows", !.to = 0,
                                                            !.seen = seen, !.rows = rows]]
    BY <1>1, ReadsRowsOf
  <2>2. lookup' \in [Lookups -> Lookup]
    BY <2>1, LookupExcept DEF TypeInv, RunTypeOK
  <2>3. RunTypeOK'
    BY <1>1, <2>2 DEF ReadsRows, TypeInv, RunTypeOK, keyVars
  <2> QED
    BY <1>1, <2>3, Untouched DEF ReadsRows, TypeInv
<1>2. CASE LookupEnds(l)
  <2>1. lookup' \in [Lookups -> Lookup]
    BY <1>2, EmptyRecords DEF LookupEnds, TypeInv, RunTypeOK
  <2>2. RunTypeOK'
    BY <1>2, <2>1 DEF LookupEnds, TypeInv, RunTypeOK, keyVars
  <2>3. lookup[l].rows \subseteq Ops
    BY DEF TypeInv, RunTypeOK, Lookup
  <2>4. FormTypeOK'
    BY <1>2, <2>3 DEF LookupEnds, Fails, Shows, TypeInv, FormTypeOK
  <2> QED
    BY <1>2, <2>2, <2>4, Untouched DEF LookupEnds, TypeInv
<1> QED
  BY <1>1, <1>2

\* The clicks and the budget.
LEMMA FormType ==
  ASSUME TypeInv, Skip \/ AtHome \/ AtNames \/ BackFromFund \/ RefreshBudget
  PROVE  TypeInv'
<1>1. UNCHANGED <<chainVars, keyVars, lookup, mint>>
  BY DEF Skip, AtHome, AtNames, BackFromFund, RefreshBudget, Form
<1>2. FormTypeOK'
  BY DEF Skip, AtHome, AtNames, BackFromFund, RefreshBudget, Form, StartNewName,
         StartAddComputer, ContinueNames, TypeInv, FormTypeOK, formVars
<1> QED
  BY <1>1, <1>2, Untouched DEF TypeInv

LEMMA SessionType ==
  ASSUME TypeInv, \/ \E a \in Accounts : OwnerChanges(a)
                  \/ SignOut \/ GoHome \/ ConfirmSaved \/ PageCloses
  PROVE  TypeInv'
<1>1. ASSUME NEW a \in Accounts, OwnerChanges(a) PROVE TypeInv'
  <2>1. RunTypeOK'
    BY <1>1, StartLookupType DEF OwnerChanges, TypeInv, RunTypeOK, keyVars
  <2>2. FormTypeOK'
    BY <1>1 DEF OwnerChanges, TypeInv, FormTypeOK
  <2> QED
    BY <1>1, <2>1, <2>2, Untouched DEF OwnerChanges, TypeInv
<1>2. CASE GoHome
  <2>1. session \in Accounts
    BY <1>2 DEF GoHome, Shown, TypeInv, FormTypeOK
  <2>2. RunTypeOK'
    BY <1>2, <2>1, StartLookupType DEF GoHome, TypeInv, RunTypeOK, keyVars
  <2>3. FormTypeOK'
    BY <1>2 DEF GoHome, TypeInv, FormTypeOK
  <2> QED
    BY <1>2, <2>2, <2>3, Untouched DEF GoHome, TypeInv
<1>3. CASE SignOut
  <2>1. \A l \in Lookups : (lookup[l].cancelled \/ lookup[l].by = "effect") \in BOOLEAN
    OBVIOUS
  <2>2. RunTypeOK'
    BY <1>3, <2>1, LookupExcept DEF SignOut, TypeInv, RunTypeOK
  <2>3. FormTypeOK'
    BY <1>3 DEF SignOut, TypeInv, FormTypeOK
  <2> QED
    BY <1>3, <2>2, <2>3, Untouched DEF SignOut, TypeInv
<1>4. CASE ConfirmSaved
  <2>1. RunTypeOK'
    BY <1>4 DEF ConfirmSaved, TypeInv, RunTypeOK
  <2> QED
    BY <1>4, <2>1, Untouched DEF ConfirmSaved, TypeInv
<1>5. CASE PageCloses
  <2>1. RunTypeOK'
    BY <1>5, EmptyRecords DEF PageCloses, TypeInv, RunTypeOK
  <2>2. FormTypeOK'
    BY <1>5 DEF PageCloses, TypeInv, FormTypeOK
  <2>3. MintsAreNamed'
    BY <1>5 DEF PageCloses, MintsAreNamed, Signs, NoMint, MintDone
  <2> QED
    BY <1>5, <2>1, <2>2, <2>3, Untouched DEF PageCloses, TypeInv
<1> QED
  BY <1>1, <1>2, <1>3, <1>4, <1>5

LEMMA MintGoesType ==
  ASSUME TypeInv, NEW n \in Mints, NEW at \in {"signOp", "waitOp", "signBot", "waitBot"},
         MintGoes(n, at), mint[n].at \notin {"none", "done"},
         mint[n].op \in Ops, mint[n].bot \in Bots, UNCHANGED <<session, funded, interrupted, lookup>>
  PROVE  FormTypeOK' /\ RunTypeOK' /\ MintsAreNamed'
<1>1. mint[n] \in Mint /\ mint' = [mint EXCEPT ![n] = [mint[n] EXCEPT !.at = at]]
  BY DEF MintGoes, TypeInv, RunTypeOK
<1> DEFINE m == [mint[n] EXCEPT !.at = at]
<1>2. m \in Mint /\ m.op = mint[n].op /\ m.bot = mint[n].bot /\ m.owner = mint[n].owner
  BY <1>1 DEF Mint
<1> HIDE DEF m
<1>3. mint' \in [Mints -> Mint] /\ mint'[n] = m /\ \A k \in Mints : k # n => mint'[k] = mint[k]
  BY <1>1, <1>2 DEF TypeInv, RunTypeOK, m
<1>4. MintsAreNamed'
  BY <1>2, <1>3 DEF TypeInv, MintsAreNamed, Signs
<1> QED
  BY <1>3, <1>4 DEF MintGoes, TypeInv, FormTypeOK, RunTypeOK, formVars

LEMMA MintEndsType ==
  ASSUME TypeInv, NEW n \in Mints, mint' = [mint EXCEPT ![n] = MintDone]
  PROVE  mint' \in [Mints -> Mint] /\ MintsAreNamed'
  BY EmptyRecords DEF TypeInv, RunTypeOK, MintsAreNamed, Signs, MintDone, NoMint

LEMMA MintThrowsType ==
  ASSUME TypeInv, NEW n \in Mints, MintThrows(n), interrupted' \subseteq Mints,
         UNCHANGED <<session, funded, lookup>>
  PROVE  FormTypeOK' /\ RunTypeOK' /\ MintsAreNamed'
  BY MintEndsType DEF MintThrows, TypeInv, FormTypeOK, RunTypeOK

LEMMA StartMintType ==
  ASSUME TypeInv, StartMint
  PROVE  TypeInv'
<1>1. PICK n \in Mints :
        mint' = [mint EXCEPT ![n] = [at |-> "reads", owner |-> session,
                                     op |-> opLabel, bot |-> botLabel]]
  BY DEF StartMint
<1>2. session \in Accounts
  BY DEF StartMint, Shown, TypeInv, FormTypeOK
<1> DEFINE m == [at |-> "reads", owner |-> session, op |-> opLabel, bot |-> botLabel]
<1>3. m \in Mint /\ m.at = "reads" /\ m.owner \in Accounts
  BY <1>2 DEF Mint, TypeInv, FormTypeOK
<1>4. mint' = [mint EXCEPT ![n] = m]
  BY <1>1
<1> HIDE DEF m
<1>5. mint' \in [Mints -> Mint] /\ MintsAreNamed'
  BY <1>3, <1>4 DEF TypeInv, RunTypeOK, MintsAreNamed, Signs
<1>6. RunTypeOK' /\ FormTypeOK'
  BY <1>5 DEF StartMint, TypeInv, RunTypeOK, FormTypeOK, keyVars
<1> QED
  BY <1>5, <1>6, Untouched DEF StartMint, TypeInv

LEMMA MintType ==
  ASSUME TypeInv, NEW n \in Mints, MintStep(n) \/ ReceiptFails(n)
  PROVE  TypeInv'
<1>1. CASE MintReads(n) /\ UNCHANGED <<session, funded>>
  <2>1. FormTypeOK' /\ RunTypeOK' /\ MintsAreNamed'
    <3>1. CASE MintThrows(n)
      BY <1>1, <3>1, MintThrowsType DEF MintReads, TypeInv, RunTypeOK
    <3>2. CASE ~ MintThrows(n)
      <4>1. mint[n].op \in Ops /\ mint[n].bot \in Bots
        BY <1>1, <3>2 DEF MintReads, TypeInv, RunTypeOK, Mint
      <4> QED
        BY <1>1, <3>2, <4>1, MintGoesType DEF MintReads
    <3> QED
      BY <3>1, <3>2
  <2> QED
    BY <1>1, <2>1, Untouched DEF MintReads, TypeInv
<1>2. CASE MintSignsOp(n) /\ UNCHANGED <<session, funded>>
  <2>1. mint[n].op \in Ops /\ mint[n].bot \in Bots /\ mint[n].owner \in Accounts
    BY <1>2 DEF MintSignsOp, TypeInv, MintsAreNamed, Signs
  <2>2. FormTypeOK' /\ RunTypeOK' /\ MintsAreNamed'
    <3>1. CASE MintThrows(n)
      BY <1>2, <3>1, MintThrowsType DEF MintSignsOp, TypeInv, RunTypeOK
    <3>2. CASE ~ MintThrows(n)
      BY <1>2, <2>1, <3>2, MintGoesType DEF MintSignsOp
    <3> QED
      BY <3>1, <3>2
  <2>3. ChainTypeOK'
    BY <1>2, <2>1, EmitType DEF MintSignsOp, TypeInv, ChainTypeOK
  <2> QED
    BY <2>2, <2>3 DEF TypeInv
<1>3. CASE MintSignsBot(n) /\ UNCHANGED <<session, funded>>
  <2>1. mint[n].op \in Ops /\ mint[n].bot \in Bots
    BY <1>3 DEF MintSignsBot, TypeInv, MintsAreNamed, Signs
  <2>2. FormTypeOK' /\ RunTypeOK' /\ MintsAreNamed'
    <3>1. CASE MintThrows(n)
      BY <1>3, <3>1, MintThrowsType DEF MintSignsBot, TypeInv, RunTypeOK
    <3>2. CASE ~ MintThrows(n)
      BY <1>3, <2>1, <3>2, MintGoesType DEF MintSignsBot
    <3> QED
      BY <3>1, <3>2
  <2>3. ChainTypeOK'
    BY <1>3, <2>1 DEF MintSignsBot, TypeInv, ChainTypeOK
  <2> QED
    BY <2>2, <2>3 DEF TypeInv
<1>4. CASE MintWaits(n) /\ UNCHANGED <<session, funded>>
  <2>1. mint[n].op \in Ops /\ mint[n].bot \in Bots
    BY <1>4 DEF MintWaits, TypeInv, MintsAreNamed, Signs
  <2>2. FormTypeOK' /\ RunTypeOK' /\ MintsAreNamed'
    <3>1. CASE MintGoes(n, "signBot")
      BY <1>4, <2>1, <3>1, MintGoesType DEF MintWaits
    <3>2. CASE Minted(n)
      BY <1>4, <2>1, <3>2, MintEndsType DEF MintWaits, Minted, TypeInv, FormTypeOK, RunTypeOK
    <3> QED
      BY <1>4, <3>1, <3>2 DEF MintWaits
  <2> QED
    BY <1>4, <2>2, Untouched DEF MintWaits, TypeInv
<1>5. CASE ReceiptFails(n)
  BY <1>5, MintThrowsType, Untouched DEF ReceiptFails, TypeInv, RunTypeOK
<1> QED
  BY <1>1, <1>2, <1>3, <1>4, <1>5 DEF MintStep

LEMMA TypeStep == TypeInv /\ [Next]_vars => TypeInv'
<1> SUFFICES ASSUME TypeInv, [Next]_vars PROVE TypeInv'
  OBVIOUS
<1>1. CASE UNCHANGED vars
  BY <1>1, Untouched DEF vars, TypeInv
<1> QED
  BY <1>1, TransactType, LookupType, FormType, SessionType, StartMintType, MintType DEF Next

\* Every variable of the page keeps its type, the records of its runs included.
THEOREM JoinTypes == Spec => []JoinTypeOK
  BY TypeInit, TypeStep, TypeInvIsType, PTL DEF Spec

--------------------------------------------------------------------------------
(* Mints. *)

Running(n) == mint[n].at \notin {"none", "done"}

\* A mint that runs keeps the page busy, and it is the only one.
MintInv ==
    /\ \A n \in Mints : Running(n) => busy
    /\ \A m, n \in Mints : Running(m) /\ Running(n) => m = n

LEMMA MintInit == Init => MintInv
  BY DEF Init, MintInv, Running, NoMint

LEMMA MintAt ==
  ASSUME TypeInv, NEW n \in Mints, NEW at, MintGoes(n, at)
  PROVE  mint'[n].at = at /\ \A k \in Mints \ {n} : mint'[k] = mint[k]
  BY DEF MintGoes, TypeInv, RunTypeOK, Mint

LEMMA MintEnds ==
  ASSUME TypeInv, NEW n \in Mints, mint' = [mint EXCEPT ![n] = MintDone]
  PROVE  mint'[n].at = "done" /\ \A k \in Mints \ {n} : mint'[k] = mint[k]
  BY DEF MintDone, NoMint, TypeInv, RunTypeOK

\* A step of a running mint: it goes on, or it was the only one.
LEMMA MintStepRuns ==
  ASSUME TypeInv, NEW n \in Mints, MintStep(n) \/ ReceiptFails(n)
  PROVE  /\ Running(n)
         /\ \A k \in Mints \ {n} : mint'[k] = mint[k]
         /\ Running(n)' => busy' = busy
<1>1. Running(n)
  BY DEF MintStep, ReceiptFails, MintReads, MintSignsOp, MintSignsBot, MintWaits, Running
<1>2. \/ \E at \in {"signOp", "waitOp", "signBot", "waitBot"} : MintGoes(n, at)
      \/ MintThrows(n) \/ Minted(n)
  BY DEF MintStep, ReceiptFails, MintReads, MintSignsOp, MintSignsBot, MintWaits
<1>3. CASE MintThrows(n) \/ Minted(n)
  BY <1>1, <1>3, MintEnds DEF MintThrows, Minted, Running
<1>4. ASSUME NEW at, MintGoes(n, at)
      PROVE  busy' = busy /\ \A k \in Mints \ {n} : mint'[k] = mint[k]
  BY <1>4, MintAt DEF MintGoes
<1> QED
  BY <1>1, <1>2, <1>3, <1>4

LEMMA MintInvStep == TypeInv /\ MintInv /\ [Next]_vars => MintInv'
<1> SUFFICES ASSUME TypeInv, MintInv, [Next]_vars PROVE MintInv'
  OBVIOUS
<1>1. CASE UNCHANGED <<mint, busy>>
  BY <1>1 DEF MintInv, Running
<1>2. CASE StartMint
  <2>1. PICK n \in Mints :
          mint' = [mint EXCEPT ![n] = [at |-> "reads", owner |-> session,
                                       op |-> opLabel, bot |-> botLabel]]
    BY <1>2 DEF StartMint
  <2>2. busy' = TRUE /\ ~ busy
    BY <1>2 DEF StartMint, MintEnabled
  <2>3. \A k \in Mints \ {n} : mint'[k] = mint[k]
    BY <2>1 DEF TypeInv, RunTypeOK
  <2> QED
    BY <2>2, <2>3 DEF MintInv, Running
<1>3. CASE PageCloses
  <2>1. \A n \in Mints : mint'[n] = NoMint \/ mint'[n] = MintDone
    BY <1>3 DEF PageCloses
  <2> QED
    BY <2>1 DEF MintInv, Running, NoMint, MintDone
<1>4. ASSUME NEW n \in Mints, MintStep(n) \/ ReceiptFails(n)
      PROVE  MintInv'
  <2>1. /\ Running(n) /\ \A k \in Mints \ {n} : mint'[k] = mint[k]
        /\ Running(n)' => busy' = busy
    BY <1>4, MintStepRuns
  <2>2. \A k \in Mints \ {n} : ~ Running(k)'
    BY <2>1 DEF MintInv, Running
  <2> QED
    BY <2>1, <2>2 DEF MintInv
<1>5. CASE Transact \/ SignOut \/ Skip \/ AtHome \/ AtNames \/ BackFromFund \/ GoHome
             \/ RefreshBudget \/ ConfirmSaved
  BY <1>1, <1>5 DEF Transact, SignOut, Skip, AtHome, AtNames, BackFromFund, GoHome,
                    RefreshBudget, ConfirmSaved, Form
<1>6. CASE \/ \E a \in Accounts : OwnerChanges(a)
           \/ \E l \in Lookups : ReadsRows(l) \/ LookupEnds(l)
  BY <1>1, <1>6 DEF OwnerChanges, ReadsRows, LookupEnds
<1>7. CASE UNCHANGED vars
  BY <1>1, <1>7 DEF vars
<1> QED
  BY <1>2, <1>3, <1>4, <1>5, <1>6, <1>7 DEF Next

\* However late a look-up moves the form back, no second mint starts.
THEOREM MintsRunAlone == Spec => []OneMint
<1>1. MintInv => OneMint
  <2> SUFFICES ASSUME MintInv PROVE OneMint
    OBVIOUS
  <2> DEFINE S == {n \in Mints : mint[n].at \notin {"none", "done"}}
  <2>1. \A m, n \in S : m = n
    BY DEF MintInv, Running
  <2>2. S = {} \/ \E x : S = {x}
    <3> HIDE DEF S
    <3> QED
      BY <2>1
  <2> HIDE DEF S
  <2>3. Cardinality(S) <= 1
    <3>1. CASE S = {}
      BY <3>1, FS_EmptySet
    <3>2. ASSUME NEW x, S = {x} PROVE Cardinality(S) <= 1
      <4>1. Cardinality({x}) = 1
        BY FS_Singleton
      <4> QED
        BY <3>2, <4>1
    <3> QED
      BY <2>2, <3>1, <3>2
  <2> QED
    BY <2>3 DEF S, OneMint
<1> QED
  BY <1>1, TypeInit, TypeStep, MintInit, MintInvStep, PTL DEF Spec

--------------------------------------------------------------------------------
(* Keys. *)

LEMMA KeyStep == TypeInv /\ KeyOutlivesMint /\ [Next]_vars => KeyOutlivesMint'
<1> SUFFICES ASSUME TypeInv, KeyOutlivesMint, [Next]_vars PROVE KeyOutlivesMint'
  OBVIOUS
<1>1. CASE UNCHANGED <<botKey, mint, downloaded, interrupted>>
  BY <1>1 DEF KeyOutlivesMint
<1>2. CASE StartMint
  <2>1. PICK n \in Mints :
          /\ mint[n].at = "none"
          /\ mint' = [mint EXCEPT ![n] = [at |-> "reads", owner |-> session,
                                          op |-> opLabel, bot |-> botLabel]]
    BY <1>2 DEF StartMint
  <2>2. \A k \in Mints \ {n} : mint'[k] = mint[k]
    BY <2>1 DEF TypeInv, RunTypeOK
  <2>3. UNCHANGED <<botKey, downloaded, interrupted>>
    BY <1>2 DEF StartMint, chainVars, keyVars
  <2> QED
    BY <2>1, <2>2, <2>3 DEF KeyOutlivesMint
<1>3. CASE PageCloses
  BY <1>3 DEF PageCloses, KeyOutlivesMint, chainVars
<1>4. ASSUME NEW n \in Mints, MintStep(n) \/ ReceiptFails(n)
      PROVE  KeyOutlivesMint'
  <2>1. \A k \in Mints \ {n} : mint'[k] = mint[k]
    BY <1>4, MintStepRuns
  <2>2. CASE MintReads(n) \/ MintSignsOp(n)
    BY <2>1, <2>2 DEF MintReads, MintSignsOp, MintGoes, MintThrows, KeyOutlivesMint, chainVars
  <2>3. CASE MintSignsBot(n)
    <3>1. UNCHANGED <<downloaded, interrupted>> /\ mint[n].at = "signBot"
      BY <2>3 DEF MintSignsBot, MintGoes, MintThrows
    <3>2. \A b \in Bots : botKey'[b] # n => botKey'[b] = botKey[b]
      BY <2>3 DEF MintSignsBot, TypeInv, ChainTypeOK
    <3>3. CASE MintGoes(n, "waitBot")
      BY <2>1, <3>1, <3>2, <3>3, MintAt DEF KeyOutlivesMint
    <3>4. CASE UNCHANGED botKey
      BY <2>1, <3>1, <3>4 DEF KeyOutlivesMint
    <3> QED
      BY <2>3, <3>3, <3>4 DEF MintSignsBot
  <2>4. CASE MintWaits(n)
    <3>1. UNCHANGED <<botKey, interrupted>>
      BY <2>4 DEF MintWaits, chainVars
    <3>2. CASE mint[n].at = "waitOp" /\ MintGoes(n, "signBot")
      BY <2>1, <3>1, <3>2 DEF MintGoes, KeyOutlivesMint
    <3>3. CASE Minted(n)
      BY <2>1, <3>1, <3>3 DEF Minted, KeyOutlivesMint
    <3> QED
      BY <2>4, <3>2, <3>3 DEF MintWaits
  <2>5. CASE ReceiptFails(n)
    BY <2>1, <2>5 DEF ReceiptFails, MintThrows, KeyOutlivesMint, chainVars
  <2> QED
    BY <1>4, <2>2, <2>3, <2>4, <2>5 DEF MintStep
<1>5. CASE Transact \/ SignOut \/ Skip \/ AtHome \/ AtNames \/ BackFromFund \/ GoHome
             \/ RefreshBudget \/ ConfirmSaved
  BY <1>1, <1>5 DEF Transact, Emit, SignOut, Skip, AtHome, AtNames, BackFromFund, GoHome,
                    RefreshBudget, ConfirmSaved, Form, chainVars, keyVars
<1>6. CASE \/ \E a \in Accounts : OwnerChanges(a)
           \/ \E l \in Lookups : ReadsRows(l) \/ LookupEnds(l)
  BY <1>1, <1>6 DEF OwnerChanges, ReadsRows, LookupEnds, chainVars, keyVars
<1>7. CASE UNCHANGED vars
  BY <1>1, <1>7 DEF vars, chainVars, keyVars
<1> QED
  BY <1>2, <1>3, <1>4, <1>5, <1>6, <1>7 DEF Next

\* A key that a bot is registered with is never lost without a trace.
THEOREM KeysOutliveMints == Spec => []KeyOutlivesMint
<1>1. Init => KeyOutlivesMint
  BY JoinAssumption DEF Init, KeyOutlivesMint, Mints
<1> QED
  BY <1>1, TypeInit, TypeStep, KeyStep, PTL DEF Spec

--------------------------------------------------------------------------------
(* Look-ups. *)

Registers(i, op) == log[i].t = "registered" /\ log[i].op = op
Gives(i, op, a)  == log[i].t \in {"registered", "transferred"} /\ log[i].op = op /\ log[i].to = a

\* An operator with an event is registered, none of its events is before its
\* registration.
LogInv ==
    \A op \in Ops : \A i \in 1..Len(log) : log[i].op = op =>
        /\ owner[op] # None
        /\ \A j \in 1..Len(log) : Registers(j, op) => j <= i

\* While it searches, a look-up knows what stayed its owner's.
Scans(l) ==
    /\ lookup[l].to <= Len(log)
    /\ \A op \in lookup[l].mine : lookup[l].owner # None /\ Owns(lookup[l].owner, op)

\* It lists of them what its searches saw come to its owner.
Found(l) ==
    /\ lookup[l].seen <= Len(log)
    /\ \A op \in lookup[l].mine :
        /\ owner[op] # None
        /\ \A j \in 1..Len(log), i \in 1..lookup[l].seen :
              j >= FromBlock /\ Registers(j, op) /\ Gives(i, op, lookup[l].owner)
                => op \in lookup[l].rows

\* A step that leaves the record of a look-up alone, but for cancelled and mine.
SameLookup(l) ==
    /\ lookup'[l].at = lookup[l].at /\ lookup'[l].owner = lookup[l].owner
    /\ lookup'[l].to = lookup[l].to /\ lookup'[l].seen = lookup[l].seen
    /\ lookup'[l].rows = lookup[l].rows

LookupInv ==
    /\ LogInv
    /\ \A l \in Lookups : /\ lookup[l].at = "scan" => Scans(l)
                          /\ lookup[l].at = "rows" => Found(l)

LEMMA LookupInit == Init => LookupInv
<1> SUFFICES ASSUME Init PROVE LookupInv
  OBVIOUS
<1>1. PICK n \in 0 .. FromBlock - 1 : log = [i \in 1..n |-> Foreign]
  BY DEF Init
<1>2. n \in Nat /\ Len(log) = n
  BY <1>1, JoinAssumption
<1>3. \A i \in 1..Len(log) : log[i].op \notin Ops
  BY <1>1, <1>2, JoinAssumption DEF Foreign
<1> QED
  BY <1>3 DEF Init, LookupInv, LogInv, NoLookup

\* What an event adds to the log.
LEMMA EmitLog ==
  ASSUME TypeInv, NEW t, NEW op \in Ops, NEW to, Emit(t, op, to)
  PROVE  /\ Len(log) \in Nat /\ Len(log') = Len(log) + 1
         /\ \A i \in 1..Len(log) : log'[i] = log[i]
         /\ log'[Len(log')] = [t |-> t, op |-> op, to |-> to]
         /\ owner'[op] = to /\ \A p \in Ops \ {op} : owner'[p] = owner[p]
<1> DEFINE e == [t |-> t, op |-> op, to |-> to]
<1>1. \A s : \A S : \A x : s \in Seq(S) =>
        /\ Len(s) \in Nat /\ Len(Append(s, x)) = Len(s) + 1
        /\ \A i \in 1..Len(s) : Append(s, x)[i] = s[i]
        /\ Append(s, x)[Len(s) + 1] = x
  OBVIOUS
<1>2. log' = Append(log, e) /\ owner' = [owner EXCEPT ![op] = to]
  BY DEF Emit
<1> HIDE DEF e
<1>3. /\ Len(log) \in Nat /\ Len(log') = Len(log) + 1
      /\ \A i \in 1..Len(log) : log'[i] = log[i]
      /\ log'[Len(log) + 1] = e
  BY <1>1, <1>2 DEF TypeInv, ChainTypeOK
<1> QED
  BY <1>2, <1>3 DEF TypeInv, ChainTypeOK, e

\* An event of an operator: its registration, or one that keeps it registered.
LEMMA EmitLogInv ==
  ASSUME TypeInv, LookupInv, NEW t, NEW op \in Ops, NEW to \in Accounts, Emit(t, op, to),
         t = "registered" => owner[op] = None
  PROVE  LogInv'
<1>1. /\ Len(log) \in Nat /\ Len(log') = Len(log) + 1
      /\ \A i \in 1..Len(log) : log'[i] = log[i]
      /\ log'[Len(log')] = [t |-> t, op |-> op, to |-> to]
      /\ owner'[op] = to /\ \A p \in Ops \ {op} : owner'[p] = owner[p]
  BY EmitLog
<1>2. SUFFICES ASSUME NEW p \in Ops, NEW i \in 1..Len(log'), log'[i].op = p
               PROVE  owner'[p] # None /\ \A j \in 1..Len(log') : Registers(j, p)' => j <= i
  BY DEF LogInv
<1>3. to # None
  BY JoinAssumption
<1>4. CASE i = Len(log')
  BY <1>1, <1>2, <1>3, <1>4
<1>5. CASE i # Len(log')
  <2>1. i \in 1..Len(log) /\ log[i].op = p
    BY <1>1, <1>2, <1>5
  <2>2. owner[p] # None /\ \A j \in 1..Len(log) : Registers(j, p) => j <= i
    BY <2>1 DEF LookupInv, LogInv
  <2>3. owner'[p] # None
    BY <1>1, <1>3, <2>2
  <2>4. ASSUME NEW j \in 1..Len(log'), Registers(j, p)'
        PROVE  j <= i
    <3>1. j # Len(log')
      BY <1>1, <2>2, <2>4 DEF Registers
    <3>2. j \in 1..Len(log) /\ Registers(j, p)
      BY <1>1, <2>4, <3>1 DEF Registers
    <3> QED
      BY <2>2, <3>2
  <2> QED
    BY <2>3, <2>4
<1> QED
  BY <1>4, <1>5

\* A look-up that loses op, unless the event registers it.
LEMMA EmitLookup ==
  ASSUME TypeInv, LookupInv, NEW t, NEW op \in Ops, NEW to \in Accounts, Emit(t, op, to),
         revoked' \subseteq revoked \cup {op},
         NEW l \in Lookups, SameLookup(l), lookup'[l].mine \subseteq lookup[l].mine,
         t = "registered" => owner[op] = None,
         t # "registered" /\ lookup[l].at = "scan" => op \notin lookup'[l].mine
  PROVE  /\ lookup'[l].at = "scan" => Scans(l)'
         /\ lookup'[l].at = "rows" => Found(l)'
<1>1. /\ Len(log) \in Nat /\ Len(log') = Len(log) + 1
      /\ \A i \in 1..Len(log) : log'[i] = log[i]
      /\ log'[Len(log')] = [t |-> t, op |-> op, to |-> to]
      /\ owner'[op] = to /\ \A p \in Ops \ {op} : owner'[p] = owner[p]
  BY EmitLog
<1>2. lookup[l].mine \subseteq Ops /\ lookup[l].to \in Nat /\ lookup[l].seen \in Nat
  BY DEF TypeInv, RunTypeOK, Lookup
<1>3. ASSUME lookup[l].at = "scan" PROVE Scans(l)'
  <2>1. Scans(l)
    BY <1>3 DEF LookupInv
  <2>2. ASSUME NEW p \in lookup'[l].mine
        PROVE  lookup[l].owner # None /\ Owns(lookup[l].owner, p)'
    <3>1. p \in Ops /\ lookup[l].owner # None /\ Owns(lookup[l].owner, p)
      BY <1>2, <2>1 DEF Scans
    <3>2. p # op
      <4>1. CASE t = "registered"
        BY <3>1, <4>1 DEF Owns
      <4>2. CASE t # "registered"
        BY <1>3, <4>2
      <4> QED
        BY <4>1, <4>2
    <3>3. owner'[p] = owner[p] /\ p \notin revoked'
      BY <1>1, <3>1, <3>2 DEF Owns
    <3> QED
      BY <3>1, <3>3 DEF Owns, SameLookup
  <2>3. lookup[l].to <= Len(log')
    BY <1>1, <1>2, <2>1 DEF Scans
  <2> QED
    BY <2>2, <2>3 DEF Scans, SameLookup
<1>4. ASSUME lookup[l].at = "rows" PROVE Found(l)'
  <2>1. Found(l)
    BY <1>4 DEF LookupInv
  <2>2. ASSUME NEW p \in lookup'[l].mine
        PROVE  /\ owner'[p] # None
               /\ \A j \in 1..Len(log'), i \in 1..lookup[l].seen :
                     j >= FromBlock /\ Registers(j, p)' /\ Gives(i, p, lookup[l].owner)'
                       => p \in lookup[l].rows
    <3>1. p \in lookup[l].mine /\ p \in Ops /\ owner[p] # None
      BY <1>2, <2>1 DEF Found
    <3>2. owner'[p] # None
      BY <1>1, <3>1, JoinAssumption
    <3>3. ASSUME NEW j \in 1..Len(log'), NEW i \in 1..lookup[l].seen, j >= FromBlock,
                 Registers(j, p)', Gives(i, p, lookup[l].owner)'
          PROVE  p \in lookup[l].rows
      <4>1. j # Len(log')
        BY <1>1, <3>1, <3>3 DEF Registers
      <4>2. j \in 1..Len(log) /\ Registers(j, p)
        BY <1>1, <3>3, <4>1 DEF Registers
      <4>3. i \in 1..Len(log)
        BY <1>1, <1>2, <2>1, <3>3 DEF Found
      <4>4. Gives(i, p, lookup[l].owner)
        BY <1>1, <3>3, <4>3 DEF Gives, SameLookup
      <4> QED
        BY <2>1, <3>1, <3>3, <4>2, <4>4 DEF Found
    <3> QED
      BY <3>2, <3>3
  <2>3. lookup[l].seen <= Len(log')
    BY <1>1, <1>2, <2>1 DEF Found
  <2> QED
    BY <2>2, <2>3 DEF Found, SameLookup
<1> QED
  BY <1>3, <1>4 DEF SameLookup

\* A look-up that does not move while the registry does not change.
LEMMA StillLookup ==
  ASSUME LookupInv, UNCHANGED chainVars, NEW l \in Lookups,
         SameLookup(l), lookup'[l].mine = lookup[l].mine
  PROVE  /\ lookup'[l].at = "scan" => Scans(l)'
         /\ lookup'[l].at = "rows" => Found(l)'
  BY DEF LookupInv, Scans, Found, Registers, Gives, Owns, SameLookup, chainVars

LEMMA StillLog ==
  ASSUME LookupInv, UNCHANGED <<log, owner>>
  PROVE  LogInv'
  BY DEF LookupInv, LogInv, Registers

LEMMA StartFinds ==
  ASSUME TypeInv, LookupInv, NEW a \in Accounts, NEW by \in {"effect", "home"},
         StartLookup(a, by), UNCHANGED chainVars
  PROVE  LookupInv'
<1>1. PICK l \in Lookups :
        lookup' = [k \in Lookups |->
             IF k = l THEN [NoLookup EXCEPT !.at = "scan", !.owner = a, !.by = by,
                              !.to = Len(log), !.mine = {op \in Ops : Owns(a, op)}]
             ELSE [lookup[k] EXCEPT !.cancelled = @ \/ (by = "effect" /\ lookup[k].by = "effect")]]
  BY DEF StartLookup
<1>2. ASSUME NEW k \in Lookups, k # l
      PROVE  /\ lookup'[k].at = "scan" => Scans(k)'
             /\ lookup'[k].at = "rows" => Found(k)'
  <2>1. lookup[k] \in Lookup
    BY DEF TypeInv, RunTypeOK
  <2>2. SameLookup(k) /\ lookup'[k].mine = lookup[k].mine
    BY <1>1, <1>2, <2>1 DEF Lookup, SameLookup
  <2> QED
    BY <2>2, StillLookup
<1>3. /\ lookup'[l].at = "scan" /\ lookup'[l].owner = a /\ lookup'[l].to = Len(log)
      /\ lookup'[l].mine = {op \in Ops : Owns(a, op)}
  BY <1>1 DEF NoLookup
<1>4. Scans(l)'
  <2>1. UNCHANGED <<log, owner, revoked>>
    BY DEF chainVars
  <2>2. Len(log) \in Nat
    BY DEF TypeInv, ChainTypeOK
  <2>3. a # None
    BY JoinAssumption
  <2> QED
    BY <1>3, <2>1, <2>2, <2>3 DEF Scans, Owns
<1>5. LogInv'
  BY StillLog DEF chainVars
<1> QED
  BY <1>2, <1>3, <1>4, <1>5 DEF LookupInv

LEMMA RowsAreFound ==
  ASSUME TypeInv, LookupInv, NEW l \in Lookups, ReadsRows(l)
  PROVE  LookupInv'
<1> DEFINE a == lookup[l].owner
<1>0. UNCHANGED chainVars /\ lookup[l].at = "scan"
  BY DEF ReadsRows
<1>1. PICK seen \in Nat, rows \in SUBSET Ops :
        /\ seen <= lookup[l].to
        /\ lookup' = [lookup EXCEPT ![l] = [lookup[l] EXCEPT !.at = "rows", !.to = 0,
                                                            !.seen = seen, !.rows = rows]]
        /\ \E r, t \in seen .. lookup[l].to, n \in [Ops -> seen .. lookup[l].to] :
             rows = {op \in RegisteredTo(a, r)
                              \cup {p \in TransferredTo(a, t) : Labelled(p, n[p])} : Owns(a, op)}
  BY ReadsRowsOf
<1>2. /\ lookup'[l].at = "rows" /\ lookup'[l].rows = rows /\ lookup'[l].seen = seen
      /\ lookup'[l].mine = lookup[l].mine /\ lookup'[l].owner = a
      /\ \A k \in Lookups \ {l} : lookup'[k] = lookup[k]
  <2>1. lookup[l] \in Lookup
    BY DEF TypeInv, RunTypeOK
  <2> QED
    BY <1>1, <2>1 DEF TypeInv, RunTypeOK, Lookup
<1>3. Scans(l) /\ lookup[l].mine \subseteq Ops /\ lookup[l].to \in Nat
      /\ Len(log) \in Nat /\ DOMAIN log = 1..Len(log) /\ FromBlock \in Nat
  BY <1>0, JoinAssumption DEF LookupInv, TypeInv, RunTypeOK, ChainTypeOK, Lookup
<1>4. ASSUME NEW op \in lookup[l].mine, NEW j \in 1..Len(log), NEW i \in 1..seen,
             j >= FromBlock, Registers(j, op), Gives(i, op, a)
      PROVE  op \in rows
  <2>1. PICK r \in seen .. lookup[l].to, t \in seen .. lookup[l].to,
             n \in [Ops -> seen .. lookup[l].to] :
          rows = {p \in RegisteredTo(a, r)
                          \cup {q \in TransferredTo(a, t) : Labelled(q, n[q])} : Owns(a, p)}
    BY <1>1
  <2>2. op \in Ops /\ Owns(a, op)
    BY <1>3 DEF Scans
  <2>3. i \in 1..Len(log)
    BY <1>1, <1>3 DEF Scans
  <2>4. j <= i
    BY <2>2, <2>3, <1>4 DEF LookupInv, LogInv, Gives
  <2>5. n[op] \in seen .. lookup[l].to
    BY <2>2
  <2>6. i \in Searched(r) /\ i \in Searched(t) /\ j \in Searched(n[op])
    BY <1>3, <1>4, <2>3, <2>4, <2>5 DEF Searched
  <2>7. CASE log[i].t = "registered"
    <3>1. op \in RegisteredTo(a, r)
      BY <1>4, <2>6, <2>7 DEF RegisteredTo, Gives
    <3> QED
      BY <2>1, <2>2, <3>1
  <2>8. CASE log[i].t = "transferred"
    <3>1. op \in TransferredTo(a, t)
      BY <1>4, <2>6, <2>8 DEF TransferredTo, Gives
    <3>2. Labelled(op, n[op])
      BY <1>4, <2>6 DEF Labelled, Registers
    <3> QED
      BY <2>1, <2>2, <3>1, <3>2
  <2> QED
    BY <1>4, <2>7, <2>8 DEF Gives
<1>5. Found(l)'
  <2>1. UNCHANGED <<log, owner>> /\ seen <= Len(log)
    BY <1>0, <1>1, <1>3 DEF Scans, chainVars
  <2>2. \A op \in lookup[l].mine : owner[op] # None
    BY <1>3 DEF Scans, Owns
  <2> QED
    BY <1>2, <1>4, <2>1, <2>2 DEF Found, Registers, Gives
<1>6. LogInv'
  BY <1>0, StillLog DEF chainVars
<1>7. ASSUME NEW k \in Lookups
      PROVE  /\ lookup'[k].at = "scan" => Scans(k)'
             /\ lookup'[k].at = "rows" => Found(k)'
  <2>1. CASE k = l
    BY <1>2, <1>5, <2>1
  <2>2. CASE k # l
    BY <1>0, <1>2, <2>2, StillLookup DEF SameLookup
  <2> QED
    BY <2>1, <2>2
<1> QED
  BY <1>6, <1>7 DEF LookupInv

\* The registry does not change, and look-ups at most end or are cancelled.
LEMMA LookupsUntouched ==
  ASSUME TypeInv, LookupInv, UNCHANGED <<log, owner, revoked>>,
         \A l \in Lookups : \/ lookup'[l].at = "done"
                            \/ SameLookup(l) /\ lookup'[l].mine = lookup[l].mine
  PROVE  LookupInv'
<1>1. LogInv'
  BY StillLog
<1>2. ASSUME NEW l \in Lookups
      PROVE  /\ lookup'[l].at = "scan" => Scans(l)'
             /\ lookup'[l].at = "rows" => Found(l)'
  BY DEF LookupInv, Scans, Found, Registers, Gives, Owns, SameLookup
<1> QED
  BY <1>1, <1>2 DEF LookupInv

LEMMA TransactFinds ==
  ASSUME TypeInv, LookupInv, Transact
  PROVE  LookupInv'
<1>1. PICK op \in Ops :
        \/ \E a \in Accounts : owner[op] = None /\ Emit("registered", op, a)
             /\ UNCHANGED <<revoked, botKey, lookup>>
        \/ \E a \in Accounts : owner[op] \notin {None, a} /\ op \notin revoked
             /\ Emit("transferred", op, a) /\ StillMine({op}) /\ UNCHANGED <<revoked, botKey>>
        \/ owner[op] # None /\ op \notin revoked /\ Emit("revoked", op, owner[op])
             /\ revoked' = revoked \cup {op} /\ StillMine({op}) /\ UNCHANGED botKey
  BY DEF Transact
<1>2. PICK t \in {"registered", "transferred", "revoked"}, a \in Accounts :
        /\ Emit(t, op, a) /\ revoked' \subseteq revoked \cup {op}
        /\ \/ t = "registered" /\ owner[op] = None /\ UNCHANGED lookup
           \/ t # "registered" /\ StillMine({op})
  <2>1. owner[op] # None => owner[op] \in Accounts
    BY DEF TypeInv, ChainTypeOK
  <2> QED
    BY <1>1, <2>1
<1>3. LogInv'
  BY <1>2, EmitLogInv
<1>4. ASSUME NEW l \in Lookups
      PROVE  /\ lookup'[l].at = "scan" => Scans(l)'
             /\ lookup'[l].at = "rows" => Found(l)'
  <2>1. CASE t = "registered" /\ owner[op] = None /\ UNCHANGED lookup
    <3>1. SameLookup(l) /\ lookup'[l].mine \subseteq lookup[l].mine
      BY <2>1 DEF SameLookup
    <3>2. t = "registered" /\ owner[op] = None
      BY <2>1
    <3>3. Emit(t, op, a) /\ revoked' \subseteq revoked \cup {op}
      BY <1>2
    <3> QED
      BY <3>1, <3>2, <3>3, EmitLookup
  <2>2. CASE t # "registered" /\ StillMine({op})
    <3>1. lookup[l] \in Lookup
      BY DEF TypeInv, RunTypeOK
    <3>2. /\ SameLookup(l) /\ lookup'[l].mine \subseteq lookup[l].mine
          /\ lookup[l].at = "scan" => op \notin lookup'[l].mine
      BY <2>2, <3>1 DEF StillMine, Lookup, SameLookup
    <3> QED
      BY <1>2, <2>2, <3>2, EmitLookup
  <2> QED
    BY <1>2, <2>1, <2>2
<1> QED
  BY <1>3, <1>4 DEF LookupInv

LEMMA MintFinds ==
  ASSUME TypeInv, LookupInv, NEW n \in Mints, MintStep(n) \/ ReceiptFails(n)
  PROVE  LookupInv'
<1>1. UNCHANGED lookup
  BY DEF MintStep, ReceiptFails, MintReads, MintSignsOp, MintSignsBot, MintWaits
<1>2. CASE UNCHANGED <<log, owner, revoked>>
  BY <1>1, <1>2, LookupsUntouched DEF SameLookup
<1>3. ASSUME mint[n].at = "signOp", owner[mint[n].op] = None,
             Emit("registered", mint[n].op, mint[n].owner), UNCHANGED revoked
      PROVE  LookupInv'
  <2>1. mint[n].op \in Ops /\ mint[n].owner \in Accounts
    BY <1>3 DEF TypeInv, MintsAreNamed, Signs
  <2>2. LogInv'
    BY <1>3, <2>1, EmitLogInv
  <2>3. ASSUME NEW l \in Lookups
        PROVE  /\ lookup'[l].at = "scan" => Scans(l)'
               /\ lookup'[l].at = "rows" => Found(l)'
    <3>1. SameLookup(l) /\ lookup'[l].mine \subseteq lookup[l].mine
      BY <1>1 DEF SameLookup
    <3>2. revoked' \subseteq revoked \cup {mint[n].op}
      BY <1>3
    <3> QED
      BY <1>3, <2>1, <3>1, <3>2, EmitLookup
  <2> QED
    BY <2>2, <2>3 DEF LookupInv
<1> QED
  BY <1>2, <1>3
     DEF MintStep, ReceiptFails, MintReads, MintSignsOp, MintSignsBot, MintWaits, chainVars

LEMMA LookupStep == TypeInv /\ LookupInv /\ [Next]_vars => LookupInv'
<1> SUFFICES ASSUME TypeInv, LookupInv, [Next]_vars PROVE LookupInv'
  OBVIOUS
<1>1. CASE UNCHANGED <<chainVars, lookup>>
  BY <1>1, LookupsUntouched DEF chainVars, SameLookup
<1>2. ASSUME NEW a \in Accounts, OwnerChanges(a) PROVE LookupInv'
  BY <1>2, StartFinds DEF OwnerChanges
<1>3. CASE GoHome
  <2>1. session \in Accounts
    BY <1>3 DEF GoHome, Shown, TypeInv, FormTypeOK
  <2> QED
    BY <1>3, <2>1, StartFinds DEF GoHome
<1>4. CASE SignOut
  <2>1. ASSUME NEW l \in Lookups
        PROVE  SameLookup(l) /\ lookup'[l].mine = lookup[l].mine
    <3>1. lookup[l] \in Lookup
      BY DEF TypeInv, RunTypeOK
    <3> QED
      BY <1>4, <3>1 DEF SignOut, Lookup, SameLookup
  <2> QED
    BY <1>4, <2>1, LookupsUntouched DEF SignOut, chainVars
<1>5. CASE PageCloses
  <2>1. \A l \in Lookups : lookup'[l] = LookupDone \/ lookup'[l] = lookup[l]
    BY <1>5 DEF PageCloses
  <2> QED
    BY <1>5, <2>1, LookupsUntouched DEF PageCloses, chainVars, LookupDone, NoLookup, SameLookup
<1>6. ASSUME NEW l \in Lookups, LookupEnds(l) PROVE LookupInv'
  <2>1. \A k \in Lookups : lookup'[k] = LookupDone \/ lookup'[k] = lookup[k]
    BY <1>6 DEF LookupEnds, TypeInv, RunTypeOK
  <2> QED
    BY <1>6, <2>1, LookupsUntouched DEF LookupEnds, chainVars, LookupDone, NoLookup, SameLookup
<1>7. CASE Skip \/ AtHome \/ AtNames \/ BackFromFund \/ RefreshBudget \/ ConfirmSaved \/ StartMint
  BY <1>1, <1>7
     DEF Skip, AtHome, AtNames, BackFromFund, RefreshBudget, ConfirmSaved, StartMint, Form
<1>8. CASE UNCHANGED vars
  BY <1>1, <1>8 DEF vars
<1> QED
  BY <1>2, <1>3, <1>4, <1>5, <1>6, <1>7, <1>8, RowsAreFound, TransactFinds, MintFinds DEF Next

\* A look-up shows every operator that stayed its owner's and that its searches
\* have seen come to the owner, however far behind the index that answers them
\* is and whatever the registry did while it ran.
THEOREM LookupsAreComplete == Spec => []LookupComplete
<1>1. TypeInv /\ LookupInv => LookupComplete
  <2> SUFFICES ASSUME TypeInv, LookupInv, NEW l \in Lookups, lookup[l].at = "rows",
                      NEW op \in lookup[l].mine,
                      NEW j \in DOMAIN log, FromBlock <= j, log[j].t = "registered", log[j].op = op,
                      NEW i \in 1..lookup[l].seen, log[i].t \in {"registered", "transferred"},
                      log[i].op = op, log[i].to = lookup[l].owner
               PROVE  op \in lookup[l].rows
    BY DEF LookupComplete
  <2>1. j \in 1..Len(log) /\ j >= FromBlock
    BY EventType, JoinAssumption
  <2> QED
    BY <2>1 DEF LookupInv, Found, Registers, Gives
<1> QED
  BY <1>1, TypeInit, TypeStep, LookupInit, LookupStep, PTL DEF Spec

--------------------------------------------------------------------------------
(* What LoadingEnds rests on: while the page looks up names, a look-up runs     *)
(* that will show another step when it ends.                                    *)

Owed(l) ==
    /\ lookup[l].at \in {"scan", "rows"}
    /\ ~(lookup[l].by = "effect" /\ lookup[l].cancelled)

\* The page shows "Looking up names" only while a look-up runs that may still
\* set the step: a cancelled one ends without (JoinApp.tsx:130).
LoadingIsOwed == Shown("loading") => \E l \in Lookups : Owed(l)

\* A step that the page goes on to leaves "Looking up names", or that look-up owes it.
LEMMA OwedStays ==
  ASSUME LoadingIsOwed, session' = session,
         step' = step \/ step' # "loading",
         \A l \in Lookups : Owed(l) => Owed(l)'
  PROVE  LoadingIsOwed'
  BY DEF LoadingIsOwed, Shown

LEMMA StartOwes ==
  ASSUME TypeInv, NEW a, NEW by, StartLookup(a, by)
  PROVE  \E l \in Lookups : Owed(l)'
<1>1. PICK l \in Lookups :
        lookup' = [k \in Lookups |->
             IF k = l THEN [NoLookup EXCEPT !.at = "scan", !.owner = a, !.by = by,
                              !.to = Len(log), !.mine = {op \in Ops : Owns(a, op)}]
             ELSE [lookup[k] EXCEPT !.cancelled = @ \/ (by = "effect" /\ lookup[k].by = "effect")]]
  BY DEF StartLookup
<1>2. lookup'[l].at = "scan" /\ lookup'[l].cancelled = FALSE
  BY <1>1 DEF NoLookup
<1> QED
  BY <1>2 DEF Owed

LEMMA TransactOwes ==
  ASSUME TypeInv, LoadingIsOwed, Transact
  PROVE  LoadingIsOwed'
<1>1. ASSUME NEW l \in Lookups, Owed(l) PROVE Owed(l)'
  <2>1. lookup[l] \in Lookup
    BY DEF TypeInv, RunTypeOK
  <2> QED
    BY <1>1, <2>1 DEF Transact, StillMine, Owed, Lookup
<1>2. UNCHANGED <<session, step>>
  BY DEF Transact, formVars
<1> QED
  BY <1>1, <1>2, OwedStays

LEMMA LookupOwes ==
  ASSUME TypeInv, LoadingIsOwed, NEW l \in Lookups, ReadsRows(l) \/ LookupEnds(l)
  PROVE  LoadingIsOwed'
<1>0. lookup[l] \in Lookup /\ lookup \in [Lookups -> Lookup]
  BY DEF TypeInv, RunTypeOK
<1>1. CASE ReadsRows(l)
  <2>1. \A k \in Lookups : Owed(k) => Owed(k)'
    <3>1. PICK seen \in Nat, rows \in SUBSET Ops :
            lookup' = [lookup EXCEPT ![l] = [lookup[l] EXCEPT !.at = "rows", !.to = 0,
                                                              !.seen = seen, !.rows = rows]]
      BY <1>1, ReadsRowsOf
    <3>2. /\ lookup'[l].at = "rows" /\ lookup'[l].by = lookup[l].by
          /\ lookup'[l].cancelled = lookup[l].cancelled
          /\ \A k \in Lookups \ {l} : lookup'[k] = lookup[k]
      BY <1>0, <3>1 DEF Lookup
    <3> QED
      BY <3>2 DEF Owed
  <2>2. UNCHANGED <<session, step>>
    BY <1>1 DEF ReadsRows, formVars
  <2> QED
    BY <2>1, <2>2, OwedStays
<1>2. CASE LookupEnds(l)
  <2>1. PICK ops : Shows(l, ops)
    BY <1>2 DEF LookupEnds, Fails
  <2>2. \A k \in Lookups \ {l} : Owed(k) => Owed(k)'
    BY <1>0, <1>2 DEF LookupEnds, Owed
  <2>3. session' = session /\ lookup[l].at \in {"scan", "rows"}
    BY <1>2 DEF LookupEnds, Fails
  <2>4. CASE Owed(l)
    BY <2>1, <2>4 DEF Shows, Owed, LoadingIsOwed, Shown
  <2>5. CASE ~Owed(l)
    <3>1. step' = step
      BY <2>1, <2>3, <2>5 DEF Shows, Owed
    <3> QED
      BY <2>2, <2>3, <2>5, <3>1, OwedStays
  <2> QED
    BY <2>4, <2>5
<1> QED
  BY <1>1, <1>2

LEMMA MintOwes ==
  ASSUME LoadingIsOwed, NEW n \in Mints, MintStep(n) \/ ReceiptFails(n)
  PROVE  LoadingIsOwed'
<1>1. UNCHANGED <<session, lookup>>
  BY DEF MintStep, ReceiptFails, MintReads, MintSignsOp, MintSignsBot, MintWaits
<1>2. step' = step \/ step' # "loading"
  BY DEF MintStep, ReceiptFails, MintReads, MintSignsOp, MintSignsBot, MintWaits, MintGoes,
         MintThrows, Minted, formVars
<1> QED
  BY <1>1, <1>2, OwedStays DEF Owed

LEMMA LoadingStep == TypeInv /\ LoadingIsOwed /\ [Next]_vars => LoadingIsOwed'
<1> SUFFICES ASSUME TypeInv, LoadingIsOwed, [Next]_vars PROVE LoadingIsOwed'
  OBVIOUS
<1>1. ASSUME NEW a \in Accounts, OwnerChanges(a) PROVE LoadingIsOwed'
  BY <1>1, StartOwes DEF OwnerChanges, LoadingIsOwed
<1>2. CASE GoHome
  BY <1>2, StartOwes DEF GoHome, LoadingIsOwed
<1>3. CASE SignOut \/ PageCloses
  BY <1>3 DEF SignOut, PageCloses, LoadingIsOwed, Shown
<1>4. CASE Skip \/ AtHome \/ AtNames \/ BackFromFund \/ RefreshBudget \/ ConfirmSaved \/ StartMint
  <2>1. UNCHANGED <<session, lookup>>
    BY <1>4 DEF Skip, AtHome, AtNames, BackFromFund, RefreshBudget, ConfirmSaved, StartMint, Form
  <2>2. step' = step \/ step' # "loading"
    BY <1>4 DEF Skip, AtHome, AtNames, BackFromFund, RefreshBudget, ConfirmSaved, StartMint,
                Form, formVars
  <2> QED
    BY <2>1, <2>2, OwedStays DEF Owed
<1>5. CASE UNCHANGED vars
  BY <1>5, OwedStays DEF vars, formVars, Owed
<1> QED
  BY <1>1, <1>2, <1>3, <1>4, <1>5, TransactOwes, LookupOwes, MintOwes DEF Next

\* The page never looks up names with no look-up left to end it.
THEOREM LoadingIsAlwaysOwed == Spec => []LoadingIsOwed
<1>1. Init => LoadingIsOwed
  BY DEF Init, PageInit, LoadingIsOwed, Shown
<1> QED
  BY <1>1, TypeInit, TypeStep, LoadingStep, PTL DEF Spec

================================================================================
