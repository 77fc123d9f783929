----------------------------- MODULE BooksProofs -----------------------------
(***************************************************************************)
(* Proofs about Books for every chart of accounts and every number of      *)
(* concurrent postings, reversals and changes of type: the stored balances *)
(* are those of the ledger, and the reports add up over them.              *)
(***************************************************************************)
EXTENDS Books, LedgerLemmas

USE BooksAssumption

----------------------------------------------------------------------------
(* The inductive invariant *)

Account == [type : AccountTypes, isActive : BOOLEAN, balance : Int]
Opened  == {a \in Accounts : Exists(a)}

\* A posting of balanced lines on accounts there are.
PostingOK(post) ==
    /\ post \in Postings /\ Balanced(post.lines)
    /\ \A a \in Accounts : Touches(post.lines, a) => Exists(a)

TablesOK ==
    /\ account \in [Accounts -> Account \cup {None}]
    /\ journal \in [EntryIds -> Postings \cup {None, Gone}]
    /\ disturbed \subseteq Accounts
    /\ IsFiniteSet(Opened) /\ DOMAIN Chart \subseteq Opened
    /\ IsFiniteSet(Entries) /\ \A e \in Entries : PostingOK(journal[e])

\* What request r knows: an entry to be posted has a key of its own, and one to
\* be reversed is as it was found, or gone.
Knows(r) ==
    /\ r.pc = "updating" => r.id \in Opened /\ r.body \in Bodies
    /\ r.pc \in {"posting", "reversing"} => r.id \in EntryIds /\ PostingOK(r.post)
    /\ r.pc = "posting" => journal[r.id] = None
    /\ r.pc = "reversing" => journal[r.id] \in {r.post, Gone}

KeysApart ==
    \A p, q \in Procs : p # q /\ At(p, "posting") /\ At(q, "posting") => req[p].id # req[q].id

IInv ==
    /\ TablesOK
    /\ DOMAIN req = Procs
    /\ \A p \in Procs : Knows(req[p])
    /\ KeysApart
    /\ LedgerEndsAtBalance

----------------------------------------------------------------------------
(* Lemmas *)

\* Lines of a posting have integer amounts.
LEMMA PostingAmounts == ASSUME NEW post \in Postings PROVE HasAmounts(post.lines)
<1>1. \A l \in Line : l.amount \in Int
      BY DEF Line
<1>2. post.lines \in Seq(Line)
      OBVIOUS
<1> QED BY <1>1, <1>2, SequenceHasAmounts

\* Every entry there is has the lines of a posting.
LEMMA EntriesPosted == TablesOK => \A e \in Entries : e \in EntryIds /\ journal[e] \in Postings
BY DEF TablesOK, Entries

\* The ledger of an account moves with its lines and its type only.
LEMMA LedgerKept ==
    ASSUME NEW a \in Accounts, Entries' = Entries, \A e \in Entries : journal'[e] = journal[e],
           Types'[a] = Types[a]
    PROVE  LedgerBalance(a)' = LedgerBalance(a)
<1>1. PICK f, g : /\ f = [e \in Entries |-> Delta(Types, journal[e].lines, a)]
                  /\ g = [e \in Entries' |-> Delta(Types', journal'[e].lines, a)]
      OBVIOUS
<1>2. ASSUME NEW e \in Entries
      PROVE  Delta(Types, journal[e].lines, a) = Delta(Types', journal'[e].lines, a)
      BY DeltaOfType
<1>3. f = g
      BY <1>1, <1>2
<1> QED BY <1>1, <1>3 DEF LedgerBalance

\* An entry more, an entry less.
LEMMA LedgerGrows ==
    ASSUME TablesOK, NEW a \in Accounts, NEW e \in EntryIds \ Entries, NEW post \in Postings,
           journal' = [journal EXCEPT ![e] = post], Types'[a] = Types[a]
    PROVE  LedgerBalance(a)' = LedgerBalance(a) + Delta(Types, post.lines, a)
<1>1. PICK f, g : /\ f = [x \in Entries |-> Delta(Types, journal[x].lines, a)]
                  /\ g = [x \in Entries' |-> Delta(Types', journal'[x].lines, a)]
      OBVIOUS
<1>2. Entries' = Entries \cup {e} /\ journal'[e] = post
      BY DEF Entries, TablesOK
<1>3. \A x \in Entries : x \in Entries' /\ x # e /\ journal'[x] = journal[x] /\ journal[x] \in Postings
      BY <1>2, EntriesPosted DEF TablesOK
<1>4. \A x \in Entries' : journal'[x] \in Postings
      BY <1>2, <1>3
<1>5. \A x \in Entries' : g[x] \in Int /\ g[x] = Delta(Types, journal'[x].lines, a)
      BY <1>1, <1>4, PostingAmounts, DeltaInt, DeltaOfType
<1>6. \A x \in Entries : g[x] = f[x]
      BY <1>1, <1>3, <1>5
<1>7. /\ IsFiniteSet(DOMAIN f) /\ e \notin DOMAIN f /\ DOMAIN g = DOMAIN f \cup {e}
      /\ \A x \in DOMAIN g : g[x] \in Int
      /\ \A x \in DOMAIN f : g[x] = f[x]
      BY <1>1, <1>2, <1>5, <1>6 DEF TablesOK
<1>8. SumFunction(g) = SumFunction(f) + g[e]
      BY <1>7, SumGrows
<1>9. g[e] = Delta(Types, post.lines, a)
      BY <1>2, <1>5
<1> QED BY <1>1, <1>8, <1>9 DEF LedgerBalance

\* What an entry that is reversed had done to a ledger is taken back.
LEMMA LedgerShrinks ==
    ASSUME TablesOK, NEW a \in Accounts, NEW e \in Entries,
           journal' = [journal EXCEPT ![e] = Gone], Types'[a] = Types[a]
    PROVE  LedgerBalance(a)' = LedgerBalance(a) - Delta(Types, journal[e].lines, a)
<1>1. PICK f, g : /\ f = [x \in Entries |-> Delta(Types, journal[x].lines, a)]
                  /\ g = [x \in Entries' |-> Delta(Types', journal'[x].lines, a)]
      OBVIOUS
<1>2. Entries' = Entries \ {e} /\ Entries = Entries' \cup {e}
      BY DEF Entries, TablesOK
<1>3. \A x \in Entries : journal[x] \in Postings
      BY EntriesPosted
<1>4. \A x \in Entries : x # e => journal'[x] = journal[x]
      BY DEF TablesOK, Entries
<1>5. \A x \in Entries : f[x] \in Int /\ f[x] = Delta(Types, journal[x].lines, a)
      BY <1>1, <1>3, PostingAmounts, DeltaInt
<1>6. ASSUME NEW x \in Entries' PROVE f[x] = g[x]
  <2>1. x \in Entries /\ x # e /\ journal'[x] = journal[x]
        BY <1>2, <1>4
  <2>2. Delta(Types, journal[x].lines, a) = Delta(Types', journal[x].lines, a)
        BY DeltaOfType
  <2> QED BY <1>1, <2>1, <2>2
<1>7. IsFiniteSet(Entries')
      BY <1>2, FS_Subset DEF TablesOK
<1>8. /\ IsFiniteSet(DOMAIN g) /\ e \notin DOMAIN g /\ DOMAIN f = DOMAIN g \cup {e}
      /\ \A x \in DOMAIN f : f[x] \in Int
      /\ \A x \in DOMAIN g : f[x] = g[x]
      BY <1>1, <1>2, <1>5, <1>6, <1>7
<1>9. SumFunction(f) = SumFunction(g) + f[e]
      BY <1>8, SumGrows
<1>10. SumFunction(g) \in Int /\ f[e] \in Int
  <2>1. \A x \in DOMAIN g : g[x] \in Int
        BY <1>8
  <2>2. IsFiniteSet(DOMAIN g)
        BY <1>8
  <2>3. SumFunction(g) \in Int
        BY <2>1, <2>2, SumFunctionInt
  <2> QED BY <1>5, <2>3
<1> QED BY <1>1, <1>5, <1>9, <1>10 DEF LedgerBalance

\* An account no entry is on has nothing on its ledger.
LEMMA LedgerEmpty ==
    ASSUME NEW a \in Accounts, IsFiniteSet(Entries'),
           \A e \in Entries' : journal'[e] \in Postings /\ ~Touches(journal'[e].lines, a)
    PROVE  LedgerBalance(a)' = 0
<1>1. PICK f : f = [e \in Entries' |-> Delta(Types', journal'[e].lines, a)]
      OBVIOUS
<1>2. ASSUME NEW e \in Entries' PROVE Delta(Types', journal'[e].lines, a) = 0
  <2>1. HasAmounts(journal'[e].lines) /\ \A j \in DOMAIN journal'[e].lines : journal'[e].lines[j].account # a
        BY PostingAmounts DEF Touches
  <2> QED BY <2>1, DeltaOfNone
<1>3. IsFiniteSet(DOMAIN f) /\ \A x \in DOMAIN f : f[x] \in Nat /\ f[x] = 0
      BY <1>1, <1>2
<1>4. SumFunction(f) = 0
      BY <1>3, SumFunctionNat
<1> QED BY <1>1, <1>4 DEF LedgerBalance

\* The end of a ledger is an integer.
LEMMA LedgerInt == ASSUME TablesOK, NEW a \in Accounts PROVE LedgerBalance(a) \in Int
<1>1. PICK f : f = [e \in Entries |-> Delta(Types, journal[e].lines, a)]
      OBVIOUS
<1>2. IsFiniteSet(DOMAIN f) /\ \A x \in DOMAIN f : f[x] \in Int
      BY <1>1, EntriesPosted, PostingAmounts, DeltaInt DEF TablesOK
<1>3. SumFunction(f) \in Int
      BY <1>2, SumFunctionInt
<1> QED BY <1>1, <1>3 DEF LedgerBalance

----------------------------------------------------------------------------
(* Steps *)

\* What is known stays known while accounts are only added and the entry of the
\* request stays as it is.
LEMMA KnowsKept ==
    ASSUME Opened \subseteq Opened', NEW r, Knows(r), journal'[r.id] = journal[r.id]
    PROVE  Knows(r)'
<1>1. \A post : PostingOK(post) => PostingOK(post)'
      BY DEF PostingOK, Opened, Touches, Balanced, SideTotal
<1> QED BY <1>1 DEF Knows

\* A request that goes on with what it knows.
LEMMA RequestsGo ==
    ASSUME DOMAIN req = Procs, NEW p \in Procs, NEW r, Goes(p, r), Knows(r)',
           \A q \in Procs : q # p => \A x : x = req[q] => Knows(x)'
    PROVE  DOMAIN req' = Procs /\ (\A q \in Procs : Knows(req[q]))'
<1>1. DOMAIN req' = Procs /\ req'[p] = r /\ \A q \in Procs : q # p => req'[q] = req[q]
      BY DEF Goes
<1>2. ASSUME NEW q \in Procs, NEW x, x = req'[q] PROVE Knows(x)'
      BY <1>1, <1>2
<1> QED BY <1>1, <1>2

\* Keys stay apart when a request stops posting, or goes on with a key of its own.
LEMMA KeysKept ==
    ASSUME DOMAIN req = Procs, KeysApart, NEW p \in Procs, NEW r, Goes(p, r),
           r.pc = "posting" => \A q \in Procs : req[q].id # r.id
    PROVE  KeysApart'
BY DEF KeysApart, Goes, At

LEMMA IdleKnows == Knows(Idle) /\ Knows(Idle)' /\ Idle.pc = "idle"
BY DEF Knows, Idle

\* The types of accounts there were, and the accounts there are.
LEMMA TypesSame ==
    ASSUME account' = account PROVE Types' = Types /\ Opened' = Opened
BY DEF Types, Opened, Exists

LEMMA EntriesSame ==
    ASSUME journal' = journal PROVE Entries' = Entries /\ \A e \in Entries : journal'[e] = journal[e]
BY DEF Entries

\* A step that leaves the tables alone.
LEMMA TablesKept ==
    ASSUME TablesOK, LedgerEndsAtBalance, UNCHANGED <<account, journal, disturbed>>
    PROVE  TablesOK' /\ LedgerEndsAtBalance'
<1>1. Types' = Types /\ Opened' = Opened /\ Entries' = Entries /\ \A e \in Entries : journal'[e] = journal[e]
      BY TypesSame, EntriesSame
<1>2. TablesOK'
      BY <1>1 DEF TablesOK, PostingOK, Touches, Balanced, SideTotal, Exists, Account
<1>3. ASSUME NEW a \in Accounts \ disturbed', Exists(a)' PROVE (account[a].balance = LedgerBalance(a))'
      BY <1>1, <1>3, LedgerKept DEF LedgerEndsAtBalance, Exists
<1> QED BY <1>2, <1>3 DEF LedgerEndsAtBalance

\* A request that only reads.
LEMMA ReadStep ==
    ASSUME IInv, NEW p \in Procs, NEW r, Goes(p, r), Knows(r),
           r.pc = "posting" => \A q \in Procs : req[q].id # r.id,
           UNCHANGED <<account, journal, disturbed>>
    PROVE  IInv'
<1>1. TablesOK' /\ LedgerEndsAtBalance'
      BY TablesKept DEF IInv
<1>2. Opened \subseteq Opened'
      BY TypesSame
<1>3. \A x : Knows(x) => Knows(x)'
      BY <1>2, KnowsKept
<1>4. DOMAIN req = Procs /\ \A q \in Procs : Knows(req[q])
      BY DEF IInv
<1>5. \A q \in Procs : q # p => \A x : x = req[q] => Knows(x)'
      BY <1>3, <1>4
<1>6. DOMAIN req' = Procs /\ (\A q \in Procs : Knows(req[q]))'
      BY <1>3, <1>4, <1>5, RequestsGo
<1>7. KeysApart'
      BY <1>4, KeysKept DEF IInv
<1> QED BY <1>1, <1>6, <1>7 DEF IInv

LEMMA UpdateReadStep ==
    ASSUME IInv, NEW p \in Procs, NEW a \in Accounts, NEW body \in Bodies, UpdateRead(p, a, body)
    PROVE  IInv'
<1>1. PICK r : r = [Idle EXCEPT !.pc = "updating", !.id = a, !.body = body,
                       !.typeChanged = body.type \notin {None, account[a].type}]
      OBVIOUS
<1>2. r.pc = "updating" /\ r.id = a /\ r.body = body
      BY <1>1 DEF Idle
<1>3. Knows(r)
      BY <1>2 DEF Knows, UpdateRead, Opened
<1>4. Goes(p, r) /\ UNCHANGED <<account, journal, disturbed>>
      BY <1>1 DEF UpdateRead
<1> QED BY <1>2, <1>3, <1>4, ReadStep

LEMMA PostReadStep ==
    ASSUME IInv, NEW p \in Procs, NEW e \in EntryIds, NEW post \in Postings, PostRead(p, e, post)
    PROVE  IInv'
<1>1. PICK r : r = [Idle EXCEPT !.pc = "posting", !.id = e, !.post = post, !.types = TypesFor(post.lines)]
      OBVIOUS
<1>2. r.pc = "posting" /\ r.id = e /\ r.post = post
      BY <1>1 DEF Idle
<1>3. Knows(r)
      BY <1>2 DEF Knows, PostRead, PostingOK, Accepted
<1>4. Goes(p, r) /\ UNCHANGED <<account, journal, disturbed>> /\ \A q \in Procs : req[q].id # r.id
      BY <1>1, <1>2 DEF PostRead
<1> QED BY <1>2, <1>3, <1>4, ReadStep

LEMMA ReverseReadStep ==
    ASSUME IInv, NEW p \in Procs, NEW e \in EntryIds, ReverseRead(p, e)
    PROVE  IInv'
<1>1. PICK r : r = [Idle EXCEPT !.pc = "reversing", !.id = e, !.post = journal[e],
                       !.types = TypesFor(journal[e].lines)]
      OBVIOUS
<1>2. r.pc = "reversing" /\ r.id = e /\ r.post = journal[e]
      BY <1>1 DEF Idle
<1>3. PostingOK(r.post)
      BY <1>2 DEF ReverseRead, IInv, TablesOK
<1>4. Knows(r)
      BY <1>2, <1>3 DEF Knows
<1>5. Goes(p, r) /\ UNCHANGED <<account, journal, disturbed>>
      BY <1>1 DEF ReverseRead
<1> QED BY <1>2, <1>4, <1>5, ReadStep

LEMMA AbortStep == ASSUME IInv, NEW p \in Procs, Abort(p) PROVE IInv'
<1>1. Goes(p, Idle) /\ UNCHANGED <<account, journal, disturbed>>
      BY DEF Abort
<1> QED BY <1>1, IdleKnows, ReadStep

LEMMA StutterStep == ASSUME IInv, UNCHANGED vars PROVE IInv'
<1>1. UNCHANGED <<account, journal, disturbed>> /\ req' = req
      BY DEF vars
<1>2. TablesOK' /\ LedgerEndsAtBalance'
      BY <1>1, TablesKept DEF IInv
<1>3. Opened \subseteq Opened' /\ DOMAIN req' = Procs
      BY <1>1, TypesSame DEF IInv
<1>4. \A x : Knows(x) => Knows(x)'
      BY <1>1, <1>3, KnowsKept
<1>5. ASSUME NEW q \in Procs, NEW x, x = req'[q] PROVE Knows(x)'
      BY <1>1, <1>4, <1>5 DEF IInv
<1>6. KeysApart'
      BY <1>1 DEF IInv, KeysApart, At
<1> QED BY <1>2, <1>3, <1>5, <1>6 DEF IInv

\* The tables when only rows of accounts change, and none is closed.
LEMMA AccountsChange ==
    ASSUME TablesOK, journal' = journal, account' \in [Accounts -> Account \cup {None}],
           disturbed' \subseteq Accounts, Opened \subseteq Opened', IsFiniteSet(Opened')
    PROVE  TablesOK'
<1>1. \A post : PostingOK(post) => PostingOK(post)'
      BY DEF PostingOK, Opened, Touches, Balanced, SideTotal
<1>2. Entries' = Entries
      BY EntriesSame
<1>3. \A e \in Entries' : PostingOK(journal[e])'
      BY <1>1, <1>2 DEF TablesOK
<1> QED BY <1>2, <1>3 DEF TablesOK

\* No request of the books goes on.
LEMMA RequestsWait ==
    ASSUME IInv, req' = req, Opened \subseteq Opened', \A e \in EntryIds : journal'[e] = journal[e]
    PROVE  DOMAIN req' = Procs /\ (\A q \in Procs : Knows(req[q]))' /\ KeysApart'
<1>1. \A x : Knows(x) => Knows(x)'
  <2>1. \A post : PostingOK(post) => PostingOK(post)'
        BY DEF PostingOK, Opened, Touches, Balanced, SideTotal
  <2> QED BY <2>1 DEF Knows
<1>2. ASSUME NEW q \in Procs, NEW x, x = req'[q] PROVE Knows(x)'
      BY <1>1, <1>2 DEF IInv
<1>3. KeysApart'
      BY DEF IInv, KeysApart, At
<1> QED BY <1>2, <1>3 DEF IInv

LEMMA CreateStep ==
    ASSUME IInv, NEW a \in Accounts, NEW type \in AccountTypes, Create(a, type)
    PROVE  IInv'
<1>1. /\ account' = [account EXCEPT ![a] = NewAccount(type)]
      /\ journal' = journal /\ req' = req /\ disturbed' = disturbed /\ a \notin Opened
      BY DEF Create, Opened
<1>2. NewAccount(type) \in Account /\ NewAccount(type).type = type /\ NewAccount(type).balance = 0
      BY DEF NewAccount, Account
<1>3. NewAccount(type) # None
      BY <1>2 DEF Account
<1>4. account' \in [Accounts -> Account \cup {None}] /\ Opened' = Opened \cup {a}
      BY <1>1, <1>2, <1>3 DEF IInv, TablesOK, Opened, Exists
<1>5. IsFiniteSet(Opened') /\ Opened \subseteq Opened'
      BY <1>4, FS_AddElement DEF IInv, TablesOK
<1>6. TablesOK'
      BY <1>1, <1>4, <1>5, AccountsChange DEF IInv, TablesOK
<1>7. DOMAIN req' = Procs /\ (\A q \in Procs : Knows(req[q]))' /\ KeysApart'
      BY <1>1, <1>5, RequestsWait
<1>8. Entries' = Entries /\ \A e \in Entries : journal'[e] = journal[e]
      BY <1>1, EntriesSame
<1>9. ASSUME NEW b \in Accounts \ disturbed', Exists(b)' PROVE (account[b].balance = LedgerBalance(b))'
  <2>1. CASE b # a
    <3>1. Types'[b] = Types[b] /\ account'[b] = account[b] /\ Exists(b)
          BY <1>1, <1>9, <2>1 DEF IInv, TablesOK, Types, Exists
    <3>2. LedgerBalance(b)' = LedgerBalance(b)
          BY <1>8, <3>1, LedgerKept
    <3> QED BY <1>1, <1>9, <3>1, <3>2 DEF IInv, LedgerEndsAtBalance
  <2>2. CASE b = a
    <3>1. \A e \in Entries' : journal'[e] \in Postings /\ ~Touches(journal'[e].lines, a)
          BY <1>1, <1>8 DEF IInv, TablesOK, PostingOK, Opened, Touches
    <3>2. IsFiniteSet(Entries')
          BY <1>6 DEF TablesOK
    <3>3. LedgerBalance(a)' = 0
          BY <3>1, <3>2, LedgerEmpty
    <3>4. account'[a].balance = 0
          BY <1>1, <1>2 DEF IInv, TablesOK
    <3> QED BY <2>2, <3>3, <3>4
  <2> QED BY <2>1, <2>2
<1> QED BY <1>6, <1>7, <1>9 DEF IInv, LedgerEndsAtBalance

LEMMA SeedStep ==
    ASSUME IInv, NEW a \in Accounts, Seed(a)
    PROVE  IInv'
<1>1. /\ account' = [account EXCEPT ![a].type = Chart[a]]
      /\ disturbed' = IF account[a].type = Chart[a] THEN disturbed ELSE disturbed \cup {a}
      /\ journal' = journal /\ req' = req /\ a \in DOMAIN Chart /\ a \in Opened
      BY DEF Seed, IInv, TablesOK
<1>2. PICK row : row = account[a]
      OBVIOUS
<1>3. row \in Account /\ account' = [account EXCEPT ![a] = [row EXCEPT !.type = Chart[a]]]
      BY <1>1, <1>2 DEF IInv, TablesOK, Opened, Exists
<1>4. PICK seeded : seeded = [row EXCEPT !.type = Chart[a]]
      OBVIOUS
<1>5. seeded \in Account /\ seeded # None /\ seeded.balance = row.balance /\ seeded.type = Chart[a]
  <2>1. Chart[a] \in AccountTypes
        BY <1>1
  <2> QED BY <1>3, <1>4, <2>1 DEF Account
<1>6. account' \in [Accounts -> Account \cup {None}] /\ Opened' = Opened
      BY <1>1, <1>2, <1>3, <1>4, <1>5 DEF IInv, TablesOK, Opened, Exists
<1>7. TablesOK'
      BY <1>1, <1>6, AccountsChange DEF IInv, TablesOK
<1>8. DOMAIN req' = Procs /\ (\A q \in Procs : Knows(req[q]))' /\ KeysApart'
      BY <1>1, <1>6, RequestsWait
<1>9. Entries' = Entries /\ \A e \in Entries : journal'[e] = journal[e]
      BY <1>1, EntriesSame
<1>10. ASSUME NEW b \in Accounts \ disturbed', Exists(b)' PROVE (account[b].balance = LedgerBalance(b))'
  <2>1. account'[b].balance = account[b].balance /\ Exists(b)
        BY <1>2, <1>3, <1>4, <1>5, <1>6, <1>10 DEF IInv, TablesOK, Exists, Opened
  <2>2. Types'[b] = Types[b]
        BY <1>1, <1>2, <1>3, <1>4, <1>5, <1>6, <1>10, <2>1 DEF IInv, TablesOK, Types, Exists
  <2>3. b \notin disturbed
        BY <1>1, <1>10
  <2>4. LedgerBalance(b)' = LedgerBalance(b)
        BY <1>9, <2>2, LedgerKept
  <2> QED BY <2>1, <2>3, <2>4 DEF IInv, LedgerEndsAtBalance
<1> QED BY <1>7, <1>8, <1>10 DEF IInv, LedgerEndsAtBalance

LEMMA ResetStep == ASSUME IInv, Reset PROVE IInv'
<1>1. /\ journal' = [e \in EntryIds |-> IF journal[e] = None THEN None ELSE Gone]
      /\ account' = [a \in Accounts |-> IF Exists(a) THEN [account[a] EXCEPT !.balance = 0] ELSE None]
      /\ disturbed' = {} /\ req' = req
      BY DEF Reset
<1>2. ASSUME NEW a \in Accounts, Exists(a)
      PROVE  account'[a] \in Account /\ account'[a] # None /\ account'[a].balance = 0
  <2>1. PICK row : row = account[a] /\ row \in Account
        BY <1>2 DEF IInv, TablesOK, Exists
  <2>2. account'[a] = [row EXCEPT !.balance = 0]
        BY <1>1, <1>2, <2>1
  <2> QED BY <2>1, <2>2 DEF Account
<1>3. \A a \in Accounts : ~Exists(a) => account'[a] = None
      BY <1>1
<1>4. Opened' = Opened
      BY <1>2, <1>3 DEF Opened, Exists
<1>5. account' \in [Accounts -> Account \cup {None}]
      BY <1>1, <1>2, <1>3
<1>6. Entries' = {}
      BY <1>1 DEF Entries
<1>7. IsFiniteSet(Entries')
      BY <1>6, FS_EmptySet
<1>8. journal' \in [EntryIds -> Postings \cup {None, Gone}]
      BY <1>1
<1>9. TablesOK'
      BY <1>1, <1>4, <1>5, <1>6, <1>7, <1>8 DEF IInv, TablesOK
<1>10. ASSUME NEW r, Knows(r) PROVE Knows(r)'
  <2>1. \A post : PostingOK(post) => PostingOK(post)'
        BY <1>4 DEF PostingOK, Opened, Touches, Balanced, SideTotal
  <2>2. r.pc = "posting" => journal'[r.id] = None
        BY <1>1, <1>10 DEF Knows
  <2>3. r.pc = "reversing" => journal'[r.id] \in {r.post, Gone}
        BY <1>1, <1>10 DEF Knows, PostingOK
  <2> QED BY <1>4, <1>10, <2>1, <2>2, <2>3 DEF Knows
<1>11. ASSUME NEW q \in Procs, NEW x, x = req'[q] PROVE Knows(x)'
       BY <1>1, <1>10, <1>11 DEF IInv
<1>12. KeysApart' /\ DOMAIN req' = Procs
       BY <1>1 DEF IInv, KeysApart, At
<1>13. ASSUME NEW b \in Accounts \ disturbed', Exists(b)' PROVE (account[b].balance = LedgerBalance(b))'
  <2>1. b \in Opened
        BY <1>4, <1>13 DEF Opened
  <2>2. account'[b].balance = 0
        BY <1>2, <2>1 DEF Opened
  <2>3. LedgerBalance(b)' = 0
        BY <1>6, <1>7, LedgerEmpty
  <2> QED BY <2>2, <2>3
<1> QED BY <1>9, <1>11, <1>12, <1>13 DEF IInv, LedgerEndsAtBalance

\* A change of type that was found before the update recomputes the balance; one
\* that came in between leaves it, and the account is disturbed.
LEMMA UpdateCommitStep ==
    ASSUME IInv, NEW p \in Procs, UpdateCommit(p)
    PROVE  IInv'
<1>1. PICK a, row, type, new :
        /\ a = req[p].id /\ row = account[a]
        /\ type = Given(req[p].body.type, row.type)
        /\ new = [type |-> type, isActive |-> Given(req[p].body.isActive, row.isActive),
                  balance |-> IF req[p].typeChanged THEN Recomputed(a, type) ELSE row.balance]
      OBVIOUS
<1>2. a \in Accounts /\ Exists(a) /\ row \in Account /\ req[p].body \in Bodies
      BY <1>1 DEF IInv, UpdateCommit, Knows, At, Opened, TablesOK, Exists
<1>3. /\ account' = [account EXCEPT ![a] = new]
      /\ disturbed' = IF req[p].typeChanged THEN disturbed \ {a}
                      ELSE IF type # row.type THEN disturbed \cup {a} ELSE disturbed
      /\ Goes(p, Idle) /\ journal' = journal
      BY <1>1, <1>2 DEF UpdateCommit, IInv, TablesOK
<1>4. type \in AccountTypes /\ Given(req[p].body.isActive, row.isActive) \in BOOLEAN
  <2>1. PICK body : body = req[p].body /\ body \in Bodies
        BY <1>2
  <2>2. body.type \in {None} \cup AccountTypes /\ body.isActive \in {None} \cup BOOLEAN
        BY <2>1
  <2>3. row.type \in AccountTypes /\ row.isActive \in BOOLEAN
        BY <1>2 DEF Account
  <2>4. type \in AccountTypes
        BY <1>1, <2>1, <2>2, <2>3 DEF Given
  <2>5. Given(body.isActive, row.isActive) \in BOOLEAN
        BY <2>2, <2>3 DEF Given
  <2> QED BY <2>1, <2>4, <2>5
<1>5. Recomputed(a, type) \in Int
  <2>1. PICK f, types : types = [Types EXCEPT ![a] = type] /\ f = [e \in Entries |-> Delta(types, journal[e].lines, a)]
        OBVIOUS
  <2>2. IsFiniteSet(DOMAIN f) /\ \A x \in DOMAIN f : f[x] \in Int
        BY <2>1, EntriesPosted, PostingAmounts, DeltaInt DEF IInv, TablesOK
  <2>3. SumFunction(f) \in Int
        BY <2>2, SumFunctionInt
  <2> QED BY <2>1, <2>3 DEF Recomputed
<1>6. new \in Account
      BY <1>1, <1>2, <1>4, <1>5 DEF Account
<1>7. new # None /\ new.type = type
      BY <1>1, <1>6 DEF Account
<1>8. Types' = [Types EXCEPT ![a] = type]
      BY <1>1, <1>2, <1>3, <1>7 DEF Types, Exists, IInv, TablesOK
<1>9. Recomputed(a, type) = LedgerBalance(a)'
      BY <1>3, <1>8 DEF Recomputed, LedgerBalance, Entries
<1>10. account' \in [Accounts -> Account \cup {None}] /\ Opened' = Opened
      BY <1>2, <1>3, <1>6, <1>7 DEF IInv, TablesOK, Opened, Exists
<1>11. TablesOK'
      BY <1>2, <1>3, <1>10, AccountsChange DEF IInv, TablesOK
<1>12. DOMAIN req = Procs /\ \A q \in Procs : Knows(req[q])
      BY DEF IInv
<1>13. \A x : Knows(x) => Knows(x)'
      BY <1>3, <1>10, KnowsKept
<1>14. \A q \in Procs : q # p => \A x : x = req[q] => Knows(x)'
      BY <1>12, <1>13
<1>15. DOMAIN req' = Procs /\ (\A q \in Procs : Knows(req[q]))'
      BY <1>3, <1>12, <1>14, IdleKnows, RequestsGo
<1>16. KeysApart'
      BY <1>3, <1>12, IdleKnows, KeysKept DEF IInv
<1>17. ASSUME NEW b \in Accounts \ disturbed', Exists(b)' PROVE (account[b].balance = LedgerBalance(b))'
  <2>1. Entries' = Entries /\ \A e \in Entries : journal'[e] = journal[e]
        BY <1>3, EntriesSame
  <2>2. CASE b # a
    <3>1. account'[b] = account[b] /\ Exists(b) /\ b \notin disturbed /\ Types'[b] = Types[b]
          BY <1>3, <1>17, <2>2 DEF IInv, TablesOK, Exists, Types
    <3>2. LedgerBalance(b)' = LedgerBalance(b)
          BY <2>1, <3>1, LedgerKept
    <3> QED BY <3>1, <3>2 DEF IInv, LedgerEndsAtBalance
  <2>3. CASE b = a /\ req[p].typeChanged
    <3>1. account'[a].balance = Recomputed(a, type)
          BY <1>1, <1>2, <1>3, <2>3 DEF IInv, TablesOK
    <3> QED BY <1>9, <2>3, <3>1
  <2>4. CASE b = a /\ ~req[p].typeChanged
    <3>1. type = row.type /\ a \notin disturbed
          BY <1>3, <1>17, <2>4
    <3>2. Types'[a] = Types[a]
          BY <1>1, <1>2, <1>8, <3>1 DEF Types
    <3>3. account'[a].balance = account[a].balance
          BY <1>1, <1>2, <1>3, <2>4 DEF IInv, TablesOK
    <3>4. LedgerBalance(a)' = LedgerBalance(a)
          BY <1>2, <2>1, <3>2, LedgerKept
    <3> QED BY <1>2, <2>4, <3>1, <3>3, <3>4 DEF IInv, LedgerEndsAtBalance
  <2> QED BY <2>2, <2>3, <2>4
<1> QED BY <1>11, <1>15, <1>16, <1>17 DEF IInv, LedgerEndsAtBalance

\* What a posting or a reversal makes of the accounts.
LEMMA IncrementedAccounts ==
    ASSUME TablesOK, NEW r, PostingOK(r.post), NEW sign \in {1, -1}, account' = Incremented(r, sign)
    PROVE  /\ account' \in [Accounts -> Account \cup {None}]
           /\ Opened' = Opened /\ Types' = Types
           /\ \A a \in Accounts : ~Touches(r.post.lines, a) => account'[a] = account[a]
           /\ \A a \in Accounts : Touches(r.post.lines, a) =>
                 /\ Exists(a)
                 /\ Delta(r.types, r.post.lines, a) \in Int
                 /\ account'[a].balance = account[a].balance + sign * Delta(r.types, r.post.lines, a)
<1>1. \A a \in Accounts : ~Touches(r.post.lines, a) => account'[a] = account[a]
      BY DEF Incremented
<1>2. ASSUME NEW a \in Accounts, Touches(r.post.lines, a)
      PROVE  /\ Exists(a) /\ Delta(r.types, r.post.lines, a) \in Int
             /\ account'[a] \in Account /\ account'[a] # None /\ account'[a].type = account[a].type
             /\ account'[a].balance = account[a].balance + sign * Delta(r.types, r.post.lines, a)
  <2>1. Exists(a) /\ account[a] \in Account
        BY <1>2 DEF PostingOK, TablesOK, Exists
  <2>2. Delta(r.types, r.post.lines, a) \in Int
        BY PostingAmounts, DeltaInt DEF PostingOK
  <2>3. PICK row, d : row = account[a] /\ d = Delta(r.types, r.post.lines, a)
        OBVIOUS
  <2>4. account'[a] = [row EXCEPT !.balance = @ + sign * d]
        BY <1>2, <2>3 DEF Incremented
  <2>5. row \in Account /\ d \in Int
        BY <2>1, <2>2, <2>3
  <2>6. account'[a] \in Account /\ account'[a].type = row.type /\ account'[a].balance = row.balance + sign * d
        BY <2>4, <2>5 DEF Account
  <2> QED BY <2>1, <2>2, <2>3, <2>6 DEF Account
<1>3. account' \in [Accounts -> Account \cup {None}]
  <2>1. \A a \in Accounts : account'[a] \in Account \cup {None}
        BY <1>1, <1>2 DEF TablesOK
  <2> QED BY <2>1 DEF Incremented
<1>4. \A a \in Accounts : Exists(a)' = Exists(a) /\ (Exists(a) => account'[a].type = account[a].type)
      BY <1>1, <1>2 DEF Exists
<1>5. Opened' = Opened /\ Types' = Types
      BY <1>4 DEF Opened, Types
<1> QED BY <1>1, <1>2, <1>3, <1>5

LEMMA PostCommitStep ==
    ASSUME IInv, NEW p \in Procs, PostCommit(p)
    PROVE  IInv'
<1>1. PICK r : r = req[p]
      OBVIOUS
<1>2. /\ r.pc = "posting" /\ r.id \in EntryIds /\ PostingOK(r.post) /\ journal[r.id] = None
      /\ r.post \in Postings
      BY <1>1 DEF IInv, Knows, PostCommit, At, PostingOK
<1>3. /\ journal' = [journal EXCEPT ![r.id] = r.post]
      /\ account' = Incremented(r, 1) /\ disturbed' = disturbed \cup Misread(p) /\ Goes(p, Idle)
      BY <1>1 DEF PostCommit
<1>4. r.id \notin Entries /\ r.post \notin {None, Gone}
      BY <1>2 DEF Entries
<1>5. Entries' = Entries \cup {r.id} /\ \A e \in EntryIds : e # r.id => journal'[e] = journal[e]
      BY <1>2, <1>3, <1>4 DEF IInv, TablesOK, Entries
<1>6. /\ account' \in [Accounts -> Account \cup {None}]
      /\ Opened' = Opened /\ Types' = Types
      /\ \A a \in Accounts : ~Touches(r.post.lines, a) => account'[a] = account[a]
      /\ \A a \in Accounts : Touches(r.post.lines, a) =>
            /\ Exists(a)
            /\ Delta(r.types, r.post.lines, a) \in Int
            /\ account'[a].balance = account[a].balance + 1 * Delta(r.types, r.post.lines, a)
      BY <1>2, <1>3, IncrementedAccounts DEF IInv
<1>7. \A post : PostingOK(post) => PostingOK(post)'
      BY <1>6 DEF PostingOK, Opened, Touches, Balanced, SideTotal
<1>8. TablesOK'
  <2>1. journal' \in [EntryIds -> Postings \cup {None, Gone}]
        BY <1>2, <1>3 DEF IInv, TablesOK
  <2>2. IsFiniteSet(Entries')
        BY <1>5, FS_AddElement DEF IInv, TablesOK
  <2>3. \A e \in Entries' : PostingOK(journal'[e])
        BY <1>2, <1>3, <1>5 DEF IInv, TablesOK, Entries
  <2>4. \A e \in Entries' : PostingOK(journal[e])'
        BY <1>7, <2>3
  <2>5. disturbed' \subseteq Accounts
        BY <1>3 DEF Misread, IInv, TablesOK
  <2> QED BY <1>6, <2>1, <2>2, <2>4, <2>5 DEF IInv, TablesOK
<1>9. DOMAIN req = Procs /\ \A q \in Procs : Knows(req[q])
      BY DEF IInv
<1>10. ASSUME NEW q \in Procs, q # p, NEW x, x = req[q] PROVE Knows(x)'
  <2>1. Knows(x) /\ (x.pc = "posting" => x.id # r.id)
        BY <1>1, <1>2, <1>9, <1>10 DEF IInv, KeysApart, At
  <2>2. x.pc = "posting" => x.id \in EntryIds /\ journal'[x.id] = None
        BY <1>5, <2>1 DEF Knows
  <2>3. x.pc = "reversing" => x.id # r.id
        BY <1>2, <2>1 DEF Knows, PostingOK
  <2>4. x.pc = "reversing" => journal'[x.id] \in {x.post, Gone}
        BY <1>5, <2>1, <2>3 DEF Knows
  <2> QED BY <1>6, <1>7, <2>1, <2>2, <2>4 DEF Knows
<1>11. DOMAIN req' = Procs /\ (\A q \in Procs : Knows(req[q]))'
       BY <1>3, <1>9, <1>10, IdleKnows, RequestsGo
<1>12. KeysApart'
       BY <1>3, <1>9, IdleKnows, KeysKept DEF IInv
<1>13. ASSUME NEW a \in Accounts \ disturbed', Exists(a)' PROVE (account[a].balance = LedgerBalance(a))'
  <2>1. a \notin disturbed /\ Exists(a) /\ a \in Accounts
        BY <1>3, <1>6, <1>13 DEF Opened
  <2>2. account[a].balance = LedgerBalance(a) /\ LedgerBalance(a) \in Int
        BY <2>1, LedgerInt DEF IInv, LedgerEndsAtBalance
  <2>3. LedgerBalance(a)' = LedgerBalance(a) + Delta(Types, r.post.lines, a)
        BY <1>2, <1>3, <1>4, <1>6, <2>1, LedgerGrows DEF IInv
  <2>4. CASE ~Touches(r.post.lines, a)
    <3>1. HasAmounts(r.post.lines) /\ \A j \in DOMAIN r.post.lines : r.post.lines[j].account # a
          BY <1>2, <2>4, PostingAmounts DEF Touches
    <3>2. Delta(Types, r.post.lines, a) = 0
          BY <3>1, DeltaOfNone
    <3> QED BY <1>6, <2>1, <2>2, <2>3, <2>4, <3>2
  <2>5. CASE Touches(r.post.lines, a)
    <3>1. r.types[a] = Types[a]
          BY <1>1, <1>3, <1>13, <2>1, <2>5 DEF Misread, Types
    <3>2. Delta(r.types, r.post.lines, a) = Delta(Types, r.post.lines, a)
          BY <3>1, DeltaOfType
    <3> QED BY <1>6, <2>1, <2>2, <2>3, <2>5, <3>2
  <2> QED BY <2>4, <2>5
<1> QED BY <1>8, <1>11, <1>12, <1>13 DEF IInv, LedgerEndsAtBalance

LEMMA ReverseCommitStep ==
    ASSUME IInv, NEW p \in Procs, ReverseCommit(p)
    PROVE  IInv'
<1>1. PICK r : r = req[p]
      OBVIOUS
<1>2. /\ r.pc = "reversing" /\ r.id \in Entries /\ r.id \in EntryIds /\ PostingOK(r.post)
      /\ journal[r.id] = r.post /\ r.post \in Postings
      BY <1>1 DEF IInv, Knows, ReverseCommit, At, Entries, PostingOK
<1>3. /\ journal' = [journal EXCEPT ![r.id] = Gone]
      /\ account' = Incremented(r, -1) /\ disturbed' = disturbed \cup Misread(p) /\ Goes(p, Idle)
      BY <1>1 DEF ReverseCommit
<1>4. Entries' = Entries \ {r.id} /\ \A e \in EntryIds : e # r.id => journal'[e] = journal[e]
      BY <1>2, <1>3 DEF IInv, TablesOK, Entries
<1>5. /\ account' \in [Accounts -> Account \cup {None}]
      /\ Opened' = Opened /\ Types' = Types
      /\ \A a \in Accounts : ~Touches(r.post.lines, a) => account'[a] = account[a]
      /\ \A a \in Accounts : Touches(r.post.lines, a) =>
            /\ Exists(a)
            /\ Delta(r.types, r.post.lines, a) \in Int
            /\ account'[a].balance = account[a].balance + (-1) * Delta(r.types, r.post.lines, a)
      BY <1>2, <1>3, IncrementedAccounts DEF IInv
<1>6. \A post : PostingOK(post) => PostingOK(post)'
      BY <1>5 DEF PostingOK, Opened, Touches, Balanced, SideTotal
<1>7. TablesOK'
  <2>1. journal' \in [EntryIds -> Postings \cup {None, Gone}]
        BY <1>2, <1>3 DEF IInv, TablesOK
  <2>2. IsFiniteSet(Entries')
        BY <1>4, FS_Subset DEF IInv, TablesOK
  <2>3. \A e \in Entries' : PostingOK(journal'[e])
        BY <1>2, <1>3, <1>4 DEF IInv, TablesOK, Entries
  <2>4. \A e \in Entries' : PostingOK(journal[e])'
        BY <1>6, <2>3
  <2>5. disturbed' \subseteq Accounts
        BY <1>3 DEF Misread, IInv, TablesOK
  <2> QED BY <1>5, <2>1, <2>2, <2>4, <2>5 DEF IInv, TablesOK
<1>8. DOMAIN req = Procs /\ \A q \in Procs : Knows(req[q])
      BY DEF IInv
<1>9. ASSUME NEW q \in Procs, q # p, NEW x, x = req[q] PROVE Knows(x)'
  <2>1. Knows(x)
        BY <1>8, <1>9
  <2>2. x.pc = "posting" => x.id # r.id /\ x.id \in EntryIds
        BY <1>2, <2>1 DEF Knows, Entries
  <2>3. x.pc = "posting" => journal'[x.id] = None
        BY <1>4, <2>1, <2>2 DEF Knows
  <2>4. x.pc = "reversing" => journal'[x.id] \in {x.post, Gone}
        BY <1>2, <1>3, <1>4, <2>1 DEF Knows, IInv, TablesOK
  <2> QED BY <1>5, <1>6, <2>1, <2>3, <2>4 DEF Knows
<1>10. DOMAIN req' = Procs /\ (\A q \in Procs : Knows(req[q]))'
       BY <1>3, <1>8, <1>9, IdleKnows, RequestsGo
<1>11. KeysApart'
       BY <1>3, <1>8, IdleKnows, KeysKept DEF IInv
<1>12. ASSUME NEW a \in Accounts \ disturbed', Exists(a)' PROVE (account[a].balance = LedgerBalance(a))'
  <2>1. a \notin disturbed /\ Exists(a) /\ a \in Accounts
        BY <1>3, <1>5, <1>12 DEF Opened
  <2>2. account[a].balance = LedgerBalance(a) /\ LedgerBalance(a) \in Int
        BY <2>1, LedgerInt DEF IInv, LedgerEndsAtBalance
  <2>3. LedgerBalance(a)' = LedgerBalance(a) - Delta(Types, r.post.lines, a)
        BY <1>2, <1>3, <1>5, <2>1, LedgerShrinks DEF IInv
  <2>4. CASE ~Touches(r.post.lines, a)
    <3>1. HasAmounts(r.post.lines) /\ \A j \in DOMAIN r.post.lines : r.post.lines[j].account # a
          BY <1>2, <2>4, PostingAmounts DEF Touches
    <3>2. Delta(Types, r.post.lines, a) = 0
          BY <3>1, DeltaOfNone
    <3> QED BY <1>5, <2>1, <2>2, <2>3, <2>4, <3>2
  <2>5. CASE Touches(r.post.lines, a)
    <3>1. r.types[a] = Types[a]
          BY <1>1, <1>3, <1>12, <2>1, <2>5 DEF Misread, Types
    <3>2. Delta(r.types, r.post.lines, a) = Delta(Types, r.post.lines, a)
          BY <3>1, DeltaOfType
    <3> QED BY <1>5, <2>1, <2>2, <2>3, <2>5, <3>2
  <2> QED BY <2>4, <2>5
<1> QED BY <1>7, <1>10, <1>11, <1>12 DEF IInv, LedgerEndsAtBalance

LEMMA InitInv == Init => IInv
<1> SUFFICES ASSUME Init PROVE IInv
    OBVIOUS
<1>1. Entries = {} /\ \A p \in Procs : req[p] = Idle
      BY DEF Init, Entries
<1>2. \A type \in AccountTypes : NewAccount(type) \in Account /\ NewAccount(type).balance = 0 /\ NewAccount(type) # None
  <2>1. \A type \in AccountTypes : NewAccount(type) \in Account /\ NewAccount(type).balance = 0
        BY DEF NewAccount, Account
  <2> QED BY <2>1 DEF Account
<1>3. Opened = DOMAIN Chart
      BY <1>2 DEF Init, Opened, Exists
<1>4. IsFiniteSet(Opened)
      BY <1>3
<1>5. IsFiniteSet(Entries)
      BY <1>1, FS_EmptySet
<1>6. account \in [Accounts -> Account \cup {None}]
      BY <1>2 DEF Init
<1>7. TablesOK
      BY <1>1, <1>3, <1>4, <1>5, <1>6 DEF Init, TablesOK
<1>8. ASSUME NEW a \in Accounts, Exists(a) PROVE account[a].balance = LedgerBalance(a)
  <2>1. account[a].balance = 0
        BY <1>2, <1>3, <1>8 DEF Init, Opened
  <2>2. PICK f : f = [e \in Entries |-> Delta(Types, journal[e].lines, a)]
        OBVIOUS
  <2>3. IsFiniteSet(DOMAIN f) /\ \A x \in DOMAIN f : f[x] \in Nat /\ f[x] = 0
        BY <1>1, <1>5, <2>2
  <2>4. SumFunction(f) = 0
        BY <2>3, SumFunctionNat
  <2> QED BY <2>1, <2>2, <2>4 DEF LedgerBalance
<1>9. KeysApart /\ DOMAIN req = Procs
      BY <1>1, IdleKnows DEF Init, KeysApart, At
<1> QED BY <1>1, <1>7, <1>8, <1>9, IdleKnows DEF IInv, LedgerEndsAtBalance

LEMMA NextInv == IInv /\ [Next]_vars => IInv'
<1> SUFFICES ASSUME IInv, [Next]_vars PROVE IInv'
    OBVIOUS
<1>1. CASE UNCHANGED vars
      BY <1>1, StutterStep
<1>2. ASSUME NEW a \in Accounts, NEW type \in AccountTypes, Create(a, type) PROVE IInv'
      BY <1>2, CreateStep
<1>3. ASSUME NEW a \in Accounts, Seed(a) PROVE IInv'
      BY <1>3, SeedStep
<1>4. CASE Reset
      BY <1>4, ResetStep
<1>5. ASSUME NEW p \in Procs, Step(p) PROVE IInv'
      BY <1>5, UpdateReadStep, UpdateCommitStep, PostReadStep, PostCommitStep, ReverseReadStep,
         ReverseCommitStep, AbortStep DEF Step
<1> QED BY <1>1, <1>2, <1>3, <1>4, <1>5 DEF Next

\* The strengthened invariant holds in every reachable state.
THEOREM Invariance == Spec => []IInv
<1> QED BY InitInv, NextInv, PTL DEF Spec

\* Rows of accounts have a type and an amount, entries are what a service posted.
THEOREM TypeCorrect == Spec => []TypeOK
<1>1. IInv => TypeOK
      BY DEF IInv, TablesOK, TypeOK, Exists, Account, PostingOK
<1> QED BY <1>1, Invariance, PTL

\* Whatever is posted, reversed, seeded, reset and changed of type at the same
\* time, the stored balance of an undisturbed account is where its ledger ends.
THEOREM BalancesEndLedgers == Spec => []LedgerEndsAtBalance
<1>1. IInv => LedgerEndsAtBalance
      BY DEF IInv
<1> QED BY <1>1, Invariance, PTL

----------------------------------------------------------------------------
(* Reports *)

\* The accounts of some types, and what an entry does to them.
OfType(type) == {a \in Accounts : Types[a] = type}

Moved(type) ==
    [e \in Entries |-> SumFunction([a \in OfType(type) |-> Delta(Types, journal[e].lines, a)])]

Within(months) == {e \in Entries : journal[e].month \in months}

\* The profit of an entry.
Earned == [e \in Entries |-> Moved("REVENUE")[e] - Moved("EXPENSE")[e]]

LEMMA OfTypeOpened == ASSUME NEW type \in AccountTypes PROVE OfType(type) \subseteq Opened
BY DEF OfType, Opened, Types

LEMMA MovedInt ==
    ASSUME TablesOK, NEW type \in AccountTypes, NEW e \in Entries
    PROVE  Moved(type)[e] \in Int
<1>1. PICK f : f = [a \in OfType(type) |-> Delta(Types, journal[e].lines, a)]
      OBVIOUS
<1>2. IsFiniteSet(OfType(type))
      BY OfTypeOpened, FS_Subset DEF TablesOK
<1>3. IsFiniteSet(DOMAIN f) /\ \A a \in DOMAIN f : f[a] \in Int
      BY <1>1, <1>2, EntriesPosted, PostingAmounts, DeltaInt
<1>4. SumFunction(f) \in Int
      BY <1>3, SumFunctionInt
<1> QED BY <1>1, <1>4 DEF Moved

LEMMA WithinFinite == ASSUME TablesOK, NEW months PROVE IsFiniteSet(Within(months))
BY FS_Subset DEF TablesOK, Within

LEMMA TotalIsMoved ==
    ASSUME TablesOK, NEW type, NEW months
    PROVE  Total(type, months) = SumFunctionOnSet(Moved(type), Within(months))
<1>1. PICK f : f = [e \in Within(months) |->
                      SumFunction([a \in OfType(type) |-> Delta(Types, journal[e].lines, a)])]
      OBVIOUS
<1>2. Total(type, months) = SumFunction(f)
      BY <1>1 DEF Total, Within, OfType
<1>3. \A e \in Within(months) : f[e] = Moved(type)[e]
      BY <1>1 DEF Moved, Within
<1>4. SumFunctionOnSet(f, Within(months)) = SumFunctionOnSet(Moved(type), Within(months))
      BY <1>3, WithinFinite, SumSame
<1>5. DOMAIN f = Within(months)
      BY <1>1
<1> QED BY <1>2, <1>4, <1>5, SumOverDomain

\* The net profit of some months is what their entries earned.
LEMMA NetProfitIsEarned ==
    ASSUME TablesOK, NEW months
    PROVE  NetProfit(months) = SumFunctionOnSet(Earned, Within(months))
<1>1. PICK r, x, n, S : r = Moved("REVENUE") /\ x = Moved("EXPENSE") /\ n = Earned /\ S = Within(months)
      OBVIOUS
<1>2. \A e \in S : r[e] \in Int /\ x[e] \in Int
      BY <1>1, MovedInt DEF Within, AccountTypes
<1>3. \A e \in S : n[e] = r[e] - x[e]
      BY <1>1 DEF Earned, Within
<1>4. IsFiniteSet(S)
      BY <1>1, WithinFinite
<1>5. \A e \in S : n[e] \in Int /\ x[e] \in Int /\ r[e] = n[e] + x[e]
      BY <1>2, <1>3
<1>6. SumFunctionOnSet(r, S) = SumFunctionOnSet(n, S) + SumFunctionOnSet(x, S)
      BY <1>4, <1>5, SumPlus
<1>7. \A e \in S : n[e] \in Int
      BY <1>5
<1>8. \A e \in S : x[e] \in Int
      BY <1>5
<1>9. SumFunctionOnSet(n, S) \in Int /\ SumFunctionOnSet(x, S) \in Int
      BY <1>4, <1>7, <1>8, SumInt
<1> QED BY <1>1, <1>6, <1>9, TotalIsMoved DEF NetProfit

LEMMA EarnedInt == ASSUME TablesOK, NEW e \in Entries PROVE Earned[e] \in Int
BY MovedInt DEF Earned, AccountTypes

\* Months and years.
LEMMA MonthOfYear ==
    ASSUME NEW i \in Nat, NEW y \in Nat
    PROVE  /\ i \in monthYearRange(None, y) <=> i \div 12 = y
           /\ (i % 12) + 1 \in 1..12 /\ i \div 12 \in Nat
           /\ i \div 12 = y => monthYearRange((i % 12) + 1, y) = {i}
<1>1. y # None /\ (i % 12) + 1 # None
  <2>1. (i % 12) + 1 \in Nat
        OBVIOUS
  <2> QED BY <2>1
<1>2. monthYearRange(None, y) = (12 * y)..(12 * (y + 1) - 1)
      BY <1>1 DEF monthYearRange
<1>3. monthYearRange((i % 12) + 1, y) = (12 * y + ((i % 12) + 1) - 1)..(12 * y + ((i % 12) + 1) - 1)
      BY <1>1 DEF monthYearRange
<1>4. i = 12 * (i \div 12) + (i % 12) /\ i % 12 \in 0..11 /\ i \div 12 \in Nat
      OBVIOUS
<1>5. i \in monthYearRange(None, y) <=> i \div 12 = y
  <2>1. PICK d, r : d = i \div 12 /\ r = i % 12
        OBVIOUS
  <2>2. d \in Nat /\ r \in 0..11 /\ i = 12 * d + r
        BY <1>4, <2>1
  <2>3. i \in (12 * y)..(12 * (y + 1) - 1) <=> d = y
    <3>1. CASE d = y
          BY <2>2, <3>1
    <3>2. CASE d > y
          BY <2>2, <3>2
    <3>3. CASE d < y
          BY <2>2, <3>3
    <3> QED BY <2>2, <3>1, <3>2, <3>3
  <2> QED BY <1>2, <2>1, <2>3
<1>6. ASSUME i \div 12 = y PROVE monthYearRange((i % 12) + 1, y) = {i}
  <2>1. 12 * y + ((i % 12) + 1) - 1 = i
        BY <1>4, <1>6
  <2>2. i..i = {i}
        OBVIOUS
  <2> QED BY <1>3, <2>1, <2>2
<1> QED BY <1>4, <1>5, <1>6

\* An entry's month.
LEMMA EntryMonth == ASSUME TablesOK, NEW e \in Entries PROVE journal[e].month \in Nat
BY EntriesPosted

\* The twelve net profits of a year.
LEMMA TrendOfYear ==
    ASSUME TablesOK, NEW y \in Nat
    PROVE  SumFunction(MonthlyTrend(y)) = ProfitLoss(None, y)
<1>1. PICK S, R, n : S = Within(R) /\ R = monthYearRange(None, y) /\ n = Earned
      OBVIOUS
<1>2. PICK key, t : key = [e \in S |-> (journal[e].month % 12) + 1] /\ t = MonthlyTrend(y)
      OBVIOUS
<1>3. IsFiniteSet(S)
      BY <1>1, WithinFinite
<1>4. PICK T : T = 1..12 /\ IsFiniteSet(T)
  <2>1. 1 \in Int /\ 12 \in Int
        OBVIOUS
  <2>2. IsFiniteSet(1..12)
        BY <2>1, FS_Interval
  <2> QED BY <2>2
<1>5. \A e \in S : key[e] \in T
  <2>1. TAKE e \in S
  <2>2. journal[e].month \in Nat
        BY <1>1, EntryMonth DEF Within
  <2>3. (journal[e].month % 12) + 1 \in 1..12
        BY <2>2, MonthOfYear
  <2> QED BY <1>2, <1>4, <2>3
<1>6. \A e \in S : n[e] \in Int
      BY <1>1, EarnedInt DEF Within
<1>7. ASSUME NEW m \in T PROVE t[m] = SumFunctionOnSet(n, {e \in S : key[e] = m})
  <2>1. PICK months : months = {i \in R : i % 12 = m - 1}
        OBVIOUS
  <2>2. t[m] = NetProfit(months)
        BY <1>1, <1>2, <1>4, <2>1 DEF MonthlyTrend
  <2>3. NetProfit(months) = SumFunctionOnSet(n, Within(months))
        BY <1>1, NetProfitIsEarned
  <2>4. ASSUME NEW e \in Entries
        PROVE  journal[e].month \in months <=> journal[e].month \in R /\ (journal[e].month % 12) + 1 = m
    <3>1. PICK i, r : i = journal[e].month /\ r = i % 12 /\ i \in Nat
          BY EntryMonth
    <3>2. r \in 0..11
          BY <3>1
    <3>3. r = m - 1 <=> r + 1 = m
          BY <1>4, <3>2
    <3> QED BY <2>1, <3>1, <3>3
  <2>5. Within(months) = {e \in S : key[e] = m}
        BY <1>1, <1>2, <2>4 DEF Within
  <2> QED BY <2>2, <2>3, <2>5
<1>8. SumFunctionOnSet(n, S) = SumFunctionOnSet(t, T)
  <2>1. IsFiniteSet(T)
        BY <1>4
  <2>2. KeyedSums(n, S, key, t, T)
        BY <1>5, <1>6, <1>7 DEF KeyedSums
  <2> QED BY <1>3, <2>1, <2>2, SumByKey
<1>9. DOMAIN t = T
      BY <1>2, <1>4 DEF MonthlyTrend
<1>10. ProfitLoss(None, y) = SumFunctionOnSet(n, S)
      BY <1>1, NetProfitIsEarned DEF ProfitLoss
<1> QED BY <1>2, <1>8, <1>9, <1>10, SumOverDomain

\* A month of the trend is the month's own report.
LEMMA TrendOfMonth ==
    ASSUME NEW i \in Nat, NEW y \in Nat, i \div 12 = y
    PROVE  MonthlyTrend(y)[(i % 12) + 1] = ProfitLoss((i % 12) + 1, y)
<1>1. PICK m, R : m = (i % 12) + 1 /\ R = monthYearRange(None, y)
      OBVIOUS
<1>2. m \in 1..12 /\ monthYearRange(m, y) = {i} /\ i \in R
      BY <1>1, MonthOfYear
<1>3. \A k \in R : k \in Nat
  <2>1. y # None
        OBVIOUS
  <2> QED BY <1>1, <2>1 DEF monthYearRange
<1>4. ASSUME NEW k \in R, k % 12 = m - 1 PROVE k = i
  <2>1. k \div 12 = y /\ k \in Nat
        BY <1>1, <1>3, <1>4, MonthOfYear
  <2>2. k = 12 * (k \div 12) + (k % 12) /\ k % 12 \in 0..11
        BY <2>1
  <2>3. i = 12 * (i \div 12) + (i % 12) /\ i % 12 \in 0..11
        OBVIOUS
  <2>4. k % 12 = i % 12
        BY <1>1, <1>4, <2>3
  <2> QED BY <2>1, <2>2, <2>3, <2>4
<1>5. i % 12 = m - 1
  <2>1. i % 12 \in 0..11
        OBVIOUS
  <2> QED BY <1>1, <2>1
<1>6. {k \in R : k % 12 = m - 1} = {i}
      BY <1>2, <1>4, <1>5
<1>7. MonthlyTrend(y)[m] = NetProfit({k \in R : k % 12 = m - 1})
      BY <1>1, <1>2 DEF MonthlyTrend
<1> QED BY <1>1, <1>2, <1>6, <1>7 DEF ProfitLoss

\* The years there are entries of, and all time.
LEMMA YearsOfAllTime ==
    ASSUME TablesOK
    PROVE  LET years == {journal[e].month \div 12 : e \in Entries}
           IN  SumFunction([y \in years |-> ProfitLoss(None, y)]) = ProfitLoss(None, None)
<1>1. PICK n, years, key, parts :
        /\ n = Earned /\ years = {journal[e].month \div 12 : e \in Entries}
        /\ key = [e \in Entries |-> journal[e].month \div 12]
        /\ parts = [y \in years |-> ProfitLoss(None, y)]
      OBVIOUS
<1>2. IsFiniteSet(years)
  <2>1. key \in Surjection(Entries, years)
        BY <1>1 DEF Surjection
  <2> QED BY <2>1, FS_Surjection DEF TablesOK
<1>3. IsFiniteSet(Entries)
      BY DEF TablesOK
<1>4. \A e \in Entries : key[e] \in years
      BY <1>1
<1>5. \A e \in Entries : n[e] \in Int
      BY <1>1, EarnedInt
<1>6. ASSUME NEW y \in years PROVE parts[y] = SumFunctionOnSet(n, {e \in Entries : key[e] = y})
  <2>1. y \in Nat
        BY <1>1, EntryMonth, MonthOfYear
  <2>2. parts[y] = SumFunctionOnSet(n, Within(monthYearRange(None, y)))
        BY <1>1, NetProfitIsEarned DEF ProfitLoss
  <2>3. Within(monthYearRange(None, y)) = {e \in Entries : key[e] = y}
        BY <1>1, <2>1, EntryMonth, MonthOfYear DEF Within
  <2> QED BY <2>2, <2>3
<1>7. SumFunctionOnSet(n, Entries) = SumFunctionOnSet(parts, years)
  <2>1. KeyedSums(n, Entries, key, parts, years)
        BY <1>4, <1>5, <1>6 DEF KeyedSums
  <2> QED BY <1>2, <1>3, <2>1, SumByKey
<1>8. Within(monthYearRange(None, None)) = Entries
      BY EntryMonth DEF Within, monthYearRange
<1>9. ProfitLoss(None, None) = SumFunctionOnSet(n, Entries)
      BY <1>1, <1>8, NetProfitIsEarned DEF ProfitLoss
<1>10. DOMAIN parts = years
      BY <1>1
<1> QED BY <1>1, <1>7, <1>9, <1>10, SumOverDomain

LEMMA TrendsAddUp == TablesOK => TrendAddsUp
<1> SUFFICES ASSUME TablesOK PROVE TrendAddsUp
    OBVIOUS
<1>1. PICK Months, years : /\ Months = {post.month : post \in Postings}
                           /\ years = {journal[e].month \div 12 : e \in Entries}
      OBVIOUS
<1>2. \A i \in Months : i \in Nat /\ i \div 12 \in Nat
      BY <1>1, MonthOfYear
<1>3. \A y \in {m \div 12 : m \in Months} :
        /\ SumFunction(MonthlyTrend(y)) = ProfitLoss(None, y)
        /\ \A i \in Months : i \div 12 = y => MonthlyTrend(y)[(i % 12) + 1] = ProfitLoss((i % 12) + 1, y)
      BY <1>2, TrendOfYear, TrendOfMonth
<1>4. SumFunction([y \in years |-> ProfitLoss(None, y)]) = ProfitLoss(None, None)
      BY <1>1, YearsOfAllTime
<1> QED BY <1>1, <1>3, <1>4 DEF TrendAddsUp

\* A year's report is the sum of its months, and that of all time the sum of the
\* years: no entry is in two of them or in none.
THEOREM TrendsAlwaysAddUp == Spec => []TrendAddsUp
<1>1. IInv => TrendAddsUp
      BY TrendsAddUp DEF IInv
<1> QED BY <1>1, Invariance, PTL

----------------------------------------------------------------------------
(* Retained earnings *)

\* The balances, and the amounts they are above zero on the debit side.
Balances == [a \in Opened |-> account[a].balance]

Signed(a, n) == IF RaisedByDebit(Types[a]) THEN n ELSE -n

\* The ledger of an account, entry by entry.
LEMMA LedgerRow ==
    ASSUME TablesOK, LedgerEndsAtBalance, disturbed = {}, NEW a \in Opened,
           NEW row, \A e \in Entries : row[e] = Delta(Types, journal[e].lines, a)
    PROVE  SumFunctionOnSet(row, Entries) = Balances[a] /\ Balances[a] \in Int
<1>1. PICK f : f = [e \in Entries |-> Delta(Types, journal[e].lines, a)]
      OBVIOUS
<1>2. a \in Accounts /\ Exists(a) /\ Balances[a] = account[a].balance /\ account[a].balance \in Int
      BY DEF Opened, Balances, TablesOK, Account, Exists
<1>3. account[a].balance = SumFunction(f)
      BY <1>1, <1>2 DEF LedgerEndsAtBalance, LedgerBalance
<1>4. DOMAIN f = Entries /\ \A e \in Entries : row[e] = f[e]
      BY <1>1
<1>5. SumFunctionOnSet(row, Entries) = SumFunctionOnSet(f, Entries)
      BY <1>4, SumSame DEF TablesOK
<1> QED BY <1>2, <1>3, <1>4, <1>5, SumOverDomain

LEMMA EntryDelta == ASSUME TablesOK, NEW e \in Entries, NEW a PROVE Delta(Types, journal[e].lines, a) \in Int
BY EntriesPosted, PostingAmounts, DeltaInt

\* What the entries come to over the accounts of a type is what these have.
LEMMA TotalIsStored ==
    ASSUME TablesOK, LedgerEndsAtBalance, disturbed = {}, NEW type \in AccountTypes
    PROVE  Total(type, Nat) = SumFunctionOnSet(Balances, OfType(type))
<1>1. PICK S, T, b, m : S = OfType(type) /\ T = Entries /\ b = Balances /\ m = Moved(type)
      OBVIOUS
<1>2. PICK f, g : /\ f = [a \in S |-> [e \in T |-> Delta(Types, journal[e].lines, a)]]
                  /\ g = [e \in T |-> [a \in S |-> Delta(Types, journal[e].lines, a)]]
      OBVIOUS
<1>3. IsFiniteSet(S) /\ IsFiniteSet(T) /\ S \subseteq Opened
      BY <1>1, OfTypeOpened, FS_Subset DEF TablesOK
<1>4. \A a \in S : \A e \in T : f[a][e] \in Int /\ g[e][a] = f[a][e]
      BY <1>1, <1>2, EntryDelta
<1>5. ASSUME NEW a \in S PROVE b[a] = SumFunctionOnSet(f[a], T)
  <2>1. \A e \in Entries : f[a][e] = Delta(Types, journal[e].lines, a)
        BY <1>1, <1>2
  <2>2. SumFunctionOnSet(f[a], Entries) = Balances[a]
        BY <1>3, <2>1, LedgerRow
  <2> QED BY <1>1, <2>2
<1>6. ASSUME NEW e \in T PROVE m[e] = SumFunctionOnSet(g[e], S)
  <2>1. g[e] = [a \in S |-> Delta(Types, journal[e].lines, a)] /\ DOMAIN g[e] = S
        BY <1>2
  <2>2. m[e] = SumFunction(g[e])
        BY <1>1, <2>1 DEF Moved
  <2> QED BY <2>1, <2>2, SumOverDomain
<1>7. SumsOf(f, g, S, T, b, m)
      BY <1>4, <1>5, <1>6 DEF SumsOf
<1>8. SumFunctionOnSet(b, S) = SumFunctionOnSet(m, T)
      BY <1>3, <1>7, SumSwaps
<1>9. Within(Nat) = T
      BY <1>1, EntryMonth DEF Within
<1> QED BY <1>1, <1>8, <1>9, TotalIsMoved

\* The balance sheet sums up all accounts of some types, if those it leaves out
\* have nothing.
LEMMA StoredIsAll ==
    ASSUME TablesOK, \A a \in Accounts : Exists(a) /\ ~account[a].isActive => account[a].balance = 0,
           NEW types
    PROVE  Stored(types) = SumFunctionOnSet(Balances, {a \in Opened : account[a].type \in types})
<1>1. PICK S, R, b, f :
        /\ S = {a \in Opened : account[a].type \in types}
        /\ R = {a \in Accounts : Exists(a) /\ account[a].isActive /\ account[a].type \in types}
        /\ b = Balances /\ f = [a \in R |-> account[a].balance]
      OBVIOUS
<1>2. Stored(types) = SumFunction(f) /\ DOMAIN f = R
      BY <1>1 DEF Stored
<1>3. R \in SUBSET S /\ IsFiniteSet(S) /\ IsFiniteSet(R)
      BY <1>1, FS_Subset DEF TablesOK, Opened
<1>4. \A a \in S : b[a] \in Int
      BY <1>1 DEF Balances, TablesOK, Opened, Exists, Account
<1>5. \A a \in S \ R : b[a] = 0
      BY <1>1 DEF Balances, Opened
<1>6. \A a \in R : f[a] = b[a]
      BY <1>1 DEF Balances, Opened
<1>7. SumFunctionOnSet(f, R) = SumFunctionOnSet(b, R)
      BY <1>3, <1>6, SumSame
<1>8. SumFunctionOnSet(b, S) = SumFunctionOnSet(b, R)
      BY <1>3, <1>4, <1>5, SumSupport
<1> QED BY <1>1, <1>2, <1>7, <1>8, SumOverDomain

\* Debits and credits of all accounts together are even.
LEMMA BooksCancel ==
    ASSUME TablesOK, LedgerEndsAtBalance, disturbed = {},
           NEW s, \A a \in Opened : s[a] = Signed(a, Balances[a])
    PROVE  SumFunctionOnSet(s, Opened) = 0
<1>1. PICK S, T, z : S = Opened /\ T = Entries /\ z = [e \in T |-> 0]
      OBVIOUS
<1>2. PICK f, g : /\ f = [a \in S |-> [e \in T |-> Signed(a, Delta(Types, journal[e].lines, a))]]
                  /\ g = [e \in T |-> [a \in S |-> Signed(a, Delta(Types, journal[e].lines, a))]]
      OBVIOUS
<1>3. IsFiniteSet(S) /\ IsFiniteSet(T)
      BY <1>1 DEF TablesOK
<1>4. \A a \in S : \A e \in T : f[a][e] \in Int /\ g[e][a] = f[a][e]
  <2>1. \A a, n : n \in Int => Signed(a, n) \in Int
        BY DEF Signed
  <2>2. \A a \in S : \A e \in T : Signed(a, Delta(Types, journal[e].lines, a)) \in Int
        BY <1>1, <2>1, EntryDelta
  <2> QED BY <1>2, <2>2
<1>5. ASSUME NEW a \in S PROVE s[a] = SumFunctionOnSet(f[a], T)
  <2>1. PICK row : row = [e \in T |-> Delta(Types, journal[e].lines, a)]
        OBVIOUS
  <2>2. \A e \in T : row[e] \in Int
        BY <1>1, <2>1, EntryDelta
  <2>3. \A e \in Entries : row[e] = Delta(Types, journal[e].lines, a)
        BY <1>1, <2>1
  <2>4. SumFunctionOnSet(row, T) = Balances[a]
        BY <1>1, <2>3, LedgerRow
  <2>5. CASE RaisedByDebit(Types[a])
    <3>1. \A e \in T : f[a][e] = row[e]
          BY <1>2, <2>1, <2>5 DEF Signed
    <3>2. SumFunctionOnSet(f[a], T) = SumFunctionOnSet(row, T)
          BY <1>3, <3>1, SumSame
    <3> QED BY <1>1, <2>4, <2>5, <3>2 DEF Signed
  <2>6. CASE ~RaisedByDebit(Types[a])
    <3>1. \A e \in T : row[e] \in Int /\ f[a][e] = -row[e]
          BY <1>2, <2>1, <2>2, <2>6 DEF Signed
    <3>2. SumFunctionOnSet(f[a], T) = -SumFunctionOnSet(row, T)
          BY <1>3, <3>1, SumNegated
    <3> QED BY <1>1, <2>4, <2>6, <3>2 DEF Signed
  <2> QED BY <2>5, <2>6
<1>6. ASSUME NEW e \in T PROVE z[e] = SumFunctionOnSet(g[e], S)
  <2>1. PICK lines, types, d : lines = journal[e].lines /\ types = Types /\ d = g[e]
        OBVIOUS
  <2>2. journal[e] \in Postings /\ PostingOK(journal[e])
        BY <1>1, EntriesPosted DEF TablesOK
  <2>3. HasAmounts(lines) /\ Balanced(lines)
        BY <2>1, <2>2, PostingAmounts DEF PostingOK
  <2>4. \A i \in DOMAIN lines : lines[i].side \in {"DEBIT", "CREDIT"} /\ lines[i].account \in Accounts
    <3>1. lines \in Seq(Line)
          BY <2>1, <2>2
    <3>2. \A i \in DOMAIN lines : lines[i] \in Line
          BY <3>1
    <3> QED BY <3>2 DEF Line
  <2>5. \A i \in DOMAIN lines : lines[i].side \in {"DEBIT", "CREDIT"}
        BY <2>4
  <2>6. \A i \in DOMAIN lines : lines[i].account \in S
        BY <1>1, <2>1, <2>2, <2>4 DEF PostingOK, Touches, Opened
  <2>7. \A a \in S : d[a] = IF RaisedByDebit(types[a]) THEN Delta(types, lines, a) ELSE -Delta(types, lines, a)
        BY <1>2, <2>1 DEF Signed
  <2>8. SumFunctionOnSet(d, S) = 0
        BY <1>3, <2>3, <2>5, <2>6, <2>7, EntryCancels
  <2> QED BY <1>1, <2>1, <2>8
<1>7. SumsOf(f, g, S, T, s, z)
      BY <1>4, <1>5, <1>6 DEF SumsOf
<1>8. SumFunctionOnSet(s, S) = SumFunctionOnSet(z, T)
      BY <1>3, <1>7, SumSwaps
<1>9. \A e \in T : z[e] \in Nat /\ z[e] = 0
      BY <1>1
<1>10. SumFunctionOnSet(z, T) = 0
      BY <1>3, <1>9, SumNat
<1> QED BY <1>1, <1>8, <1>10

\* The figure that balances the sheet is the profit.
LEMMA SheetBalances ==
    ASSUME TablesOK, LedgerEndsAtBalance, disturbed = {},
           \A a \in Accounts : Exists(a) /\ ~account[a].isActive => account[a].balance = 0
    PROVE  BalanceSheet.retainedEarnings = ProfitLoss(None, None)
<1>1. PICK b, s, S : b = Balances /\ S = Opened /\ s = [a \in S |-> Signed(a, b[a])]
      OBVIOUS
<1>2. PICK AB, X, L, Q, R :
        /\ AB = {a \in Opened : account[a].type \in {"ASSET", "BANK"}}
        /\ L = {a \in Opened : account[a].type \in {"LIABILITY"}}
        /\ Q = {a \in Opened : account[a].type \in {"EQUITY"}}
        /\ X = OfType("EXPENSE") /\ R = OfType("REVENUE")
      OBVIOUS
<1>3. IsFiniteSet(S) /\ \A a \in S : b[a] \in Int
      BY <1>1 DEF Balances, TablesOK, Opened, Exists, Account
<1>4. \A a \in S : Types[a] = account[a].type /\ account[a].type \in AccountTypes /\ a \in Accounts
      BY <1>1 DEF Types, TablesOK, Opened, Exists, Account
<1>5. /\ AB \subseteq S /\ X \subseteq S /\ L \subseteq S /\ Q \subseteq S /\ R \subseteq S
      /\ S = (AB \cup X) \cup ((L \cup Q) \cup R)
      /\ AB \cap X = {} /\ L \cap Q = {} /\ (L \cup Q) \cap R = {}
      /\ (AB \cup X) \cap ((L \cup Q) \cup R) = {}
  <2>1. X = {a \in S : account[a].type = "EXPENSE"} /\ R = {a \in S : account[a].type = "REVENUE"}
        BY <1>1, <1>2, <1>4, OfTypeOpened DEF OfType, AccountTypes
  <2> QED BY <1>1, <1>2, <1>4, <2>1 DEF AccountTypes
<1>6. PICK D, C, N : D = AB \cup X /\ N = L \cup Q /\ C = N \cup R
      OBVIOUS
<1>7. IsFiniteSet(AB) /\ IsFiniteSet(X) /\ IsFiniteSet(L) /\ IsFiniteSet(Q) /\ IsFiniteSet(R)
      /\ IsFiniteSet(D) /\ IsFiniteSet(N) /\ IsFiniteSet(C)
      BY <1>3, <1>5, <1>6, FS_Subset
<1>8. SumFunctionOnSet(b, D) = SumFunctionOnSet(b, AB) + SumFunctionOnSet(b, X)
  <2>1. AB \cap X = {} /\ \A a \in AB \cup X : b[a] \in Int
        BY <1>3, <1>5
  <2> QED BY <1>6, <1>7, <2>1, SumJoins
<1>9. SumFunctionOnSet(b, N) = SumFunctionOnSet(b, L) + SumFunctionOnSet(b, Q)
  <2>1. L \cap Q = {} /\ \A a \in L \cup Q : b[a] \in Int
        BY <1>3, <1>5
  <2> QED BY <1>6, <1>7, <2>1, SumJoins
<1>10. SumFunctionOnSet(b, C) = SumFunctionOnSet(b, N) + SumFunctionOnSet(b, R)
  <2>1. N \cap R = {} /\ \A a \in N \cup R : b[a] \in Int
        BY <1>3, <1>5, <1>6
  <2> QED BY <1>6, <1>7, <2>1, SumJoins
<1>11. \A a \in D : s[a] = b[a]
  <2>1. \A a \in D : a \in S /\ RaisedByDebit(Types[a])
        BY <1>1, <1>2, <1>4, <1>5, <1>6 DEF RaisedByDebit, OfType
  <2> QED BY <1>1, <2>1 DEF Signed
<1>12. \A a \in C : s[a] = -b[a]
  <2>1. \A a \in C : a \in S /\ ~RaisedByDebit(Types[a])
        BY <1>1, <1>2, <1>4, <1>5, <1>6 DEF RaisedByDebit, OfType
  <2> QED BY <1>1, <2>1 DEF Signed
<1>13. SumFunctionOnSet(s, S) = SumFunctionOnSet(s, D) + SumFunctionOnSet(s, C)
  <2>1. S = D \cup C /\ D \cap C = {}
        BY <1>5, <1>6
  <2>2. \A a \in D \cup C : s[a] \in Int
        BY <1>3, <1>11, <1>12, <2>1
  <2> QED BY <1>7, <2>1, <2>2, SumJoins
<1>14. SumFunctionOnSet(s, D) = SumFunctionOnSet(b, D)
       BY <1>7, <1>11, SumSame
<1>15. SumFunctionOnSet(s, C) = -SumFunctionOnSet(b, C)
  <2>1. \A a \in C : b[a] \in Int /\ s[a] = -b[a]
        BY <1>3, <1>5, <1>6, <1>12
  <2> QED BY <1>7, <2>1, SumNegated
<1>16. SumFunctionOnSet(s, S) = 0
  <2>1. \A a \in Opened : s[a] = Signed(a, Balances[a])
        BY <1>1
  <2>2. SumFunctionOnSet(s, Opened) = 0
        BY <2>1, BooksCancel
  <2> QED BY <1>1, <2>2
<1>17. /\ Stored({"ASSET", "BANK"}) = SumFunctionOnSet(b, AB)
       /\ Stored({"LIABILITY"}) = SumFunctionOnSet(b, L)
       /\ Stored({"EQUITY"}) = SumFunctionOnSet(b, Q)
       BY <1>1, <1>2, StoredIsAll
<1>18. /\ Total("REVENUE", Nat) = SumFunctionOnSet(b, R)
       /\ Total("EXPENSE", Nat) = SumFunctionOnSet(b, X)
       BY <1>1, <1>2, TotalIsStored DEF AccountTypes
<1>19. /\ SumFunctionOnSet(b, AB) \in Int /\ SumFunctionOnSet(b, X) \in Int
       /\ SumFunctionOnSet(b, L) \in Int /\ SumFunctionOnSet(b, Q) \in Int
       /\ SumFunctionOnSet(b, R) \in Int
  <2>1. \A T : T \subseteq S => \A a \in T : b[a] \in Int
        BY <1>3
  <2> QED BY <1>5, <1>7, <2>1, SumInt
<1>20. SumFunctionOnSet(b, AB) - SumFunctionOnSet(b, L) - SumFunctionOnSet(b, Q) =
          SumFunctionOnSet(b, R) - SumFunctionOnSet(b, X)
       BY <1>8, <1>9, <1>10, <1>13, <1>14, <1>15, <1>16, <1>19
<1>21. BalanceSheet.retainedEarnings = Stored({"ASSET", "BANK"}) - Stored({"LIABILITY"}) - Stored({"EQUITY"})
       BY DEF BalanceSheet
<1>22. ProfitLoss(None, None) = Total("REVENUE", Nat) - Total("EXPENSE", Nat)
       BY DEF ProfitLoss, NetProfit, monthYearRange
<1> QED BY <1>17, <1>18, <1>20, <1>21, <1>22

\* The balance sheet finds its retained earnings by subtraction and the profit
\* report adds up entries: they agree, whatever has been posted, reversed and
\* changed of type.
THEOREM SheetShowsProfit == Spec => []RetainedEarningsAreProfit
<1>1. IInv => RetainedEarningsAreProfit
      BY SheetBalances DEF IInv, RetainedEarningsAreProfit
<1> QED BY <1>1, Invariance, PTL

=============================================================================
