--------------------------- MODULE AccountsProofs ---------------------------
(* Theorems of Accounts as ProfileEvents drives it, for any keys, workers,  *)
(* orders, cards, mixes of operations and accounts to begin with.           *)
EXTENDS ProfileEvents, SequenceTheorems, TLAPS

-----------------------------------------------------------------------------
(* The inductive invariant.                                                 *)

(* An id that a handler holds was handed out.                               *)
Known(a) == a \in AccountIDs /\ accounts[a].state # "none"

(* The order a handler has in hand was inserted, and is its account's as    *)
(* long as that account is there.                                           *)
Holds(j) ==
    /\ j.order \in Orders
    /\ orders[j.order].account # 0
    /\ Exists(j.account) => orders[j.order].account = j.account

(* What a handler has read, at the statement it comes to.                   *)
Fits(j) ==
    /\ j.at \in {"lookup", "read", "insert", "again", "patch"} => j.key \in Keys
    /\ j.at \in {"order", "patch", "delete", "transaction", "card", "destination", "merge"} =>
          Known(j.account)
    /\ j.at \in {"transaction", "card"} => Holds(j)
    /\ j.at = "attach" =>
          /\ j.order \in Orders /\ j.card \in Cards
          /\ cards[j.card] # 0 /\ cards[j.card] = orders[j.order].account
    /\ j.at \in {"destination", "merge"} => j.key \in Keys /\ j.other \in Keys /\ j.key # j.other
    /\ j.at = "merge" => Known(j.into)
    /\ j.at \in {"find", "commit"} => j.key \in Keys /\ j.other \in Keys
    /\ j.at \in {"find", "commit"} /\ j.op = "revert" => trace.status # "none"
    /\ j.at = "write" => \A o \in Orders : j.seen[o] = 0 \/ j.seen[o] \in AccountIDs

JobsFit == \A w \in Workers : Fits(job[w])

(* An order id that was not handed out has no columns; an order's account   *)
(* was handed out; a trace names two keys.                                  *)
RowsFit ==
    /\ \A o \in Orders : orders[o].account = 0 =>
          orders[o].card = NoCard /\ orders[o].userkey = NoKey /\ transactions[o] = 0
    /\ \A o \in Orders : orders[o].account \in AccountIDs => Known(orders[o].account)
    /\ trace.status # "none" => trace.old \in Keys /\ trace.new \in Keys

AccountsInv ==
    /\ TypeOK
    /\ JobsFit
    /\ RowsFit
    /\ OneAccountPerKey
    /\ RowsOfOneAccount
    /\ UserKeyFollows

(* The consumer handles events, each of a key; what is in the queue and not *)
(* acknowledged is the first of the stream.                                 *)
ConsumerKeyed == job[Consumer].op # "none" => job[Consumer].key \in Keys

EventsInv ==
    /\ EventsTypeOK
    /\ AccountsInv
    /\ ConsumerKeyed
    /\ delivered => stream # <<>>

-----------------------------------------------------------------------------
(* What a step leaves of what the handlers under way have read: an id       *)
(* handed out stays so, an account that went does not come back, an order   *)
(* leaves its account only as that account goes, a card goes with it, and a *)
(* rename performed is not forgotten.                                       *)
Steady ==
    /\ \A a : Known(a) => Known(a)' /\ (Exists(a)' => Exists(a))
    /\ \A o \in Orders : orders[o].account # 0 =>
          /\ orders'[o].account # 0
          /\ \A a : orders[o].account = a => orders'[o].account = a \/ ~Exists(a)'
    /\ \A c \in Cards, o \in Orders :
          cards[c] # 0 /\ cards[c] = orders[o].account =>
             cards'[c] # 0 /\ cards'[c] = orders'[o].account
    /\ trace.status # "none" => trace'.status # "none"

LEMMA SteadyFits ==
    ASSUME NEW j \in Job, Fits(j), Steady
    PROVE  Fits(j)'
<1>1. \A a : Known(a) => Known(a)'
    BY DEF Steady
<1>2. Holds(j) /\ Known(j.account) => Holds(j)'
    <2> SUFFICES ASSUME Holds(j), Known(j.account)
                 PROVE  Holds(j)'
        OBVIOUS
    <2>1. j.order \in Orders /\ orders'[j.order].account # 0
        BY DEF Holds, Steady
    <2>2. ASSUME Exists(j.account)'
          PROVE  orders'[j.order].account = j.account
        <3>1. Exists(j.account)
            BY <2>2 DEF Steady
        <3>2. orders[j.order].account = j.account
            BY <3>1 DEF Holds
        <3> DEFINE a == j.account
        <3>3. orders[j.order].account = a /\ Exists(a)'
            BY <2>2, <3>2
        <3> HIDE DEF a
        <3>4. orders'[j.order].account = a \/ ~Exists(a)'
            BY <3>3 DEF Steady, Holds
        <3> QED
            BY <3>3, <3>4 DEF a
    <2> QED
        BY <2>1, <2>2 DEF Holds
<1>3. j.at \in {"transaction", "card"} => Holds(j)'
    BY <1>2 DEF Fits
<1>4. j.at = "attach" => cards'[j.card] # 0 /\ cards'[j.card] = orders'[j.order].account
    BY DEF Fits, Steady
<1> QED
    BY <1>1, <1>3, <1>4 DEF Fits, Steady

(* The other handlers' reads hold after a steady step; the worker's own are *)
(* shown of each step.                                                      *)
LEMMA SteadyJobs ==
    ASSUME job \in [Workers -> Job], JobsFit, Steady,
           NEW w \in Workers, NEW j \in Job, job' = [job EXCEPT ![w] = j], Fits(j)'
    PROVE  job' \in [Workers -> Job] /\ JobsFit'
<1>1. job' \in [Workers -> Job]
    OBVIOUS
<1>2. ASSUME NEW v \in Workers
      PROVE  Fits(job[v])'
    <2>1. CASE v = w
        <3>1. job'[v] = j
            BY <2>1
        <3> QED
            BY <3>1 DEF Fits, Holds, Known, Exists
    <2>2. CASE v # w
        <3>1. PICK i \in Job : i = job[v]
            OBVIOUS
        <3>2. job'[v] = i
            BY <2>2, <3>1
        <3>3. Fits(i)
            BY <3>1 DEF JobsFit
        <3>4. Fits(i)'
            BY <3>3, SteadyFits
        <3> QED
            BY <3>2, <3>4 DEF Fits, Holds, Known, Exists
    <2> QED
        BY <2>1, <2>2
<1> QED
    BY <1>1, <1>2 DEF JobsFit

LEMMA SteadySame ==
    ASSUME job \in [Workers -> Job], JobsFit, Steady, job' = job
    PROVE  JobsFit'
<1>1. ASSUME NEW v \in Workers
      PROVE  Fits(job[v])'
    <2>1. PICK i \in Job : i = job[v]
        OBVIOUS
    <2>2. Fits(i)'
        BY <2>1, SteadyFits DEF JobsFit
    <2> QED
        BY <2>1, <2>2 DEF Fits, Holds, Known, Exists
<1> QED
    BY <1>1 DEF JobsFit

(* Of a handler that answers nothing is asked.                              *)
LEMMA IdleFits ==
    ASSUME AccountsAssumption
    PROVE  IdleJob \in Job /\ Fits(IdleJob) /\ Fits(IdleJob)'
<1>1. 0 \in 0 .. Removed /\ 0 \in 0 .. MaxAccounts
    BY DEF Removed, AccountsAssumption
<1>2. IdleJob \in Job
    BY <1>1 DEF IdleJob, Job
<1> QED
    BY <1>2 DEF IdleJob, Fits

(* What a statement of a rename, or the refresh, sees.                      *)
LEMMA SeenFits ==
    ASSUME AccountsAssumption, TypeOK
    PROVE  /\ \A k : UnderKey(k) \in [Orders -> 0 .. Removed]
           /\ [o \in Orders |-> IF Exists(orders[o].account) THEN orders[o].account ELSE 0]
                \in [Orders -> 0 .. Removed]
           /\ [a \in AccountIDs |-> accounts[a].key] \in [AccountIDs -> Keys \cup {NoKey}]
<1>1. 0 \in 0 .. Removed
    BY DEF Removed, AccountsAssumption
<1>2. ASSUME NEW o \in Orders
      PROVE  orders[o].account \in 0 .. Removed
    BY DEF TypeOK, OrderRow
<1>3. ASSUME NEW a \in AccountIDs
      PROVE  accounts[a].key \in Keys \cup {NoKey}
    BY DEF TypeOK, AccountRow
<1> QED
    BY <1>1, <1>2, <1>3 DEF UnderKey

-----------------------------------------------------------------------------
(* The steps that read, or fail: the tables are as they were.               *)

Quiet == UNCHANGED <<tables, orphaned, misnamed, mix>>

LEMMA QuietSteady ==
    ASSUME Quiet
    PROVE  Steady
    BY DEF Quiet, tables, Steady, Known, Exists

LEMMA QuietTables ==
    ASSUME Quiet, profiles' \in [Keys -> Nat], job' \in [Workers -> Job], JobsFit', AccountsInv
    PROVE  AccountsInv'
<1>1. TypeOK'
    BY DEF AccountsInv, TypeOK, Quiet, tables
<1>2. RowsFit'
    BY DEF AccountsInv, RowsFit, Quiet, tables, Known
<1>3. OneAccountPerKey'
    BY DEF AccountsInv, OneAccountPerKey, Quiet, tables, WithKey, Exists
<1>4. RowsOfOneAccount'
    BY DEF AccountsInv, RowsOfOneAccount, Quiet, tables, OrderExists, Exists
<1>5. UserKeyFollows'
    BY DEF AccountsInv, UserKeyFollows, Quiet, tables, Disagrees, Exists
<1> QED
    BY <1>1, <1>2, <1>3, <1>4, <1>5 DEF AccountsInv

LEMMA QuietStep ==
    ASSUME AccountsInv, Quiet, UNCHANGED profiles,
           NEW w \in Workers, NEW j \in Job, job' = [job EXCEPT ![w] = j], Fits(j)
    PROVE  AccountsInv'
<1>1. Steady
    BY QuietSteady
<1>2. Fits(j)'
    BY <1>1, SteadyFits
<1>3. job' \in [Workers -> Job] /\ JobsFit'
    BY <1>1, <1>2, SteadyJobs DEF AccountsInv, TypeOK
<1> QED
    BY <1>3, QuietTables DEF AccountsInv, TypeOK

-----------------------------------------------------------------------------
(* A handler goes on to another statement with what it has read since.      *)

Ats == {"none", "lookup", "read", "insert", "again", "patch", "delete", "order", "transaction",
        "card", "attach", "destination", "merge", "find", "commit", "write"}

LEMMA JobAt ==
    ASSUME NEW j \in Job, NEW at \in Ats
    PROVE  \E i \in Job :
              /\ i = [j EXCEPT !.at = at]
              /\ i.at = at /\ i.key = j.key
<1>1. PICK i : i = [j EXCEPT !.at = at]
    OBVIOUS
<1>2. i \in Job
    BY <1>1 DEF Job, Ats
<1>3. i.at = at /\ i.key = j.key
    BY <1>1 DEF Job, Ats
<1> QED
    BY <1>1, <1>2, <1>3

-----------------------------------------------------------------------------
(* Where a handler goes with an account it has found or made.               *)
LEMMA ProceedJob ==
    ASSUME AccountsAssumption, job \in [Workers -> Job],
           NEW w \in Workers, NEW a \in AccountIDs, NEW created \in BOOLEAN,
           job[w].key \in Keys, Proceed(w, a, created)
    PROVE  \E j \in Job : /\ job' = [job EXCEPT ![w] = j]
                          /\ Known(a) => Fits(j)
                          /\ Known(a)' => Fits(j)'
<1> DEFINE at == AfterAccount(job[w].op, created)
           j == IF at = "none" THEN IdleJob ELSE [job[w] EXCEPT !.at = at, !.account = a]
<1>1. job' = [job EXCEPT ![w] = j]
    BY DEF Proceed
<1>2. at \in {"order", "patch", "delete", "none"}
    BY DEF AfterAccount
<1>3. CASE at = "none"
    BY <1>1, <1>3, IdleFits
<1>4. CASE at # "none"
    <2>0. job[w] \in Job /\ at \in Ats
        BY <1>2 DEF Ats
    <2> HIDE DEF at
    <2>a. PICK h \in Job : h = job[w]
        OBVIOUS
    <2>b. PICK i : i = [h EXCEPT !.at = at, !.account = a]
        OBVIOUS
    <2>c. a \in 0 .. MaxAccounts
        BY DEF AccountIDs, AccountsAssumption
    <2>d. i \in Job
        BY <2>0, <2>b, <2>c DEF Job, Ats
    <2>1. i.at = at /\ i.key = h.key /\ i.account = a
        BY <2>b DEF Job
    <2>2. i.at \in {"order", "patch", "delete"} /\ i.key \in Keys
        BY <1>2, <1>4, <2>1, <2>a
    <2>3. (Known(a) => Fits(i)) /\ (Known(a)' => Fits(i)')
        BY <2>1, <2>2 DEF Fits
    <2>4. job' = [job EXCEPT ![w] = i]
        BY <1>1, <1>4, <2>a, <2>b
    <2> QED
        BY <2>3, <2>4, <2>d
<1> QED
    BY <1>3, <1>4

LEMMA FoundAreKnown ==
    \A k, a : a \in WithKey(k) =>
        Known(a) /\ Exists(a) /\ k # NoKey /\ accounts[a].key = k
    BY DEF WithKey, Known, Exists

LEMMA RequestKeeps ==
    ASSUME AccountsAssumption, AccountsInv, NEW w \in Workers, Request(w)
    PROVE  AccountsInv'
<1> USE AccountsAssumption
<1>0. job \in [Workers -> Job] /\ mix.keys \subseteq Keys
    BY DEF AccountsInv, TypeOK, AccountsAssumption
<1>1. ASSUME NEW k \in mix.keys, BeginCheckout(w, k) \/ BeginOffline(w, k)
      PROVE  AccountsInv'
    <2>1. PICK op \in {"checkout", "offline"} :
             /\ job' = [job EXCEPT ![w] = [IdleJob EXCEPT !.op = op, !.at = "lookup", !.key = k]]
             /\ Quiet /\ UNCHANGED profiles
        BY <1>1 DEF BeginCheckout, BeginOffline, Begin, Quiet
    <2>2. k \in Keys
        BY <1>0
    <2>3. PICK j : j = [IdleJob EXCEPT !.op = op, !.at = "lookup", !.key = k]
        OBVIOUS
    <2>4. j \in Job /\ j.at = "lookup" /\ j.key = k
        BY <2>2, <2>3, IdleFits DEF Job, IdleJob
    <2>5. Fits(j)
        BY <2>2, <2>4 DEF Fits
    <2> QED
        BY <2>1, <2>3, <2>4, <2>5, QuietStep
<1>2. ASSUME NEW o \in Orders, BeginToken(w, o)
      PROVE  AccountsInv'
    <2>1. PICK a \in AccountIDs : a = orders[o].account
        BY <1>2 DEF BeginToken, Exists
    <2>a. a \in 0 .. MaxAccounts
        BY DEF AccountIDs, AccountsAssumption
    <2>b. PICK j : j = [IdleJob EXCEPT !.op = "token", !.at = "card", !.order = o, !.account = a]
        OBVIOUS
    <2>2. j \in Job /\ j.at = "card" /\ j.order = o /\ j.account = a
        BY <2>a, <2>b, IdleFits DEF Job, IdleJob
    <2>3. Fits(j)
        BY <1>2, <2>1, <2>2 DEF Fits, Holds, BeginToken, Exists, Known, OrderExists
    <2> QED
        BY <1>2, <2>1, <2>2, <2>3, <2>b, QuietStep DEF BeginToken, Begin, Quiet
<1>3. ASSUME NEW source \in Keys, NEW destination \in Keys,
             BeginMerge(w, source, destination)
      PROVE  AccountsInv'
    <2>1. PICK a \in WithKey(source) :
             Begin(w, [IdleJob EXCEPT !.op = "merge", !.at = "destination", !.key = source,
                                      !.other = destination, !.account = a])
        BY <1>3 DEF BeginMerge
    <2>2. Known(a) /\ a \in AccountIDs
        BY <2>1, FoundAreKnown DEF Known
    <2>a. a \in 0 .. MaxAccounts
        BY <2>2 DEF AccountIDs, AccountsAssumption
    <2>b. PICK j : j = [IdleJob EXCEPT !.op = "merge", !.at = "destination", !.key = source,
                                       !.other = destination, !.account = a]
        OBVIOUS
    <2>3. j \in Job /\ j.at = "destination" /\ j.key = source /\ j.other = destination
          /\ j.account = a
        BY <2>a, <2>b, IdleFits DEF Job, IdleJob
    <2>5. Fits(j)
        BY <1>3, <2>2, <2>3 DEF Fits, BeginMerge
    <2> QED
        BY <1>3, <2>1, <2>3, <2>5, <2>b, QuietStep DEF BeginMerge, Begin, Quiet
<1>4. CASE ReadTrace(w)
    <2>1. trace.old \in Keys /\ trace.new \in Keys
        BY <1>4 DEF ReadTrace, AccountsInv, RowsFit
    <2>a. PICK j : j = [IdleJob EXCEPT !.op = "revert", !.at = "find", !.key = trace.new,
                                       !.other = trace.old]
        OBVIOUS
    <2>2. j \in Job /\ j.at = "find" /\ j.key = trace.new /\ j.other = trace.old
        BY <2>1, <2>a, IdleFits DEF Job, IdleJob
    <2>4. Fits(j)
        BY <1>4, <2>1, <2>2 DEF Fits, ReadTrace
    <2> QED
        BY <1>4, <2>2, <2>4, <2>a, QuietStep DEF ReadTrace, Begin, Quiet
<1>5. CASE Cut(w)
    BY <1>5, IdleFits, QuietStep DEF Cut, Answer, Quiet
<1>6. ASSUME NEW old \in Keys, NEW new \in Keys, BeginRename(w, old, new)
      PROVE  AccountsInv'
    <2>1. PICK seen \in [Orders -> 0 .. Removed] : seen = UnderKey(old)
        BY SeenFits DEF AccountsInv
    <2>2. PICK j : j = [IdleJob EXCEPT !.op = "rename", !.at = "commit", !.key = old,
                                       !.other = new, !.seen = seen]
        OBVIOUS
    <2>3. j \in Job /\ j.at = "commit" /\ j.op = "rename" /\ j.key = old /\ j.other = new
        BY <2>2, IdleFits DEF Job, IdleJob
    <2>4. Fits(j)
        BY <2>3 DEF Fits
    <2> QED
        BY <1>6, <2>1, <2>2, <2>3, <2>4, QuietStep DEF BeginRename, Begin, Quiet
<1>7. CASE BeginRefresh(w)
    <2>1. PICK seen \in [Orders -> 0 .. Removed] :
             seen = [o \in Orders |-> IF Exists(orders[o].account)
                                      THEN orders[o].account ELSE 0]
        BY SeenFits DEF AccountsInv
    <2>2. PICK keys \in [AccountIDs -> Keys \cup {NoKey}] :
             keys = [a \in AccountIDs |-> accounts[a].key]
        BY SeenFits DEF AccountsInv
    <2>3. PICK j : j = [IdleJob EXCEPT !.op = "refresh", !.at = "write", !.seen = seen,
                                       !.keys = keys]
        OBVIOUS
    <2>4. j \in Job /\ j.at = "write" /\ j.seen = seen
        BY <2>3, IdleFits DEF Job, IdleJob
    <2>5. \A o \in Orders : seen[o] = 0 \/ seen[o] \in AccountIDs
        BY <2>1 DEF Exists
    <2>6. Fits(j)
        BY <2>4, <2>5 DEF Fits
    <2> QED
        BY <1>7, <2>1, <2>2, <2>3, <2>4, <2>6, QuietStep DEF BeginRefresh, Begin, Quiet
<1> QED
    BY <1>1, <1>2, <1>3, <1>4, <1>5, <1>6, <1>7 DEF Request

LEMMA FindOrdersKeeps ==
    ASSUME AccountsAssumption, AccountsInv, NEW w \in Workers, FindOrders(w)
    PROVE  AccountsInv'
<1>0. /\ job[w].at = "find" /\ job[w].op = "revert"
      /\ Quiet /\ UNCHANGED profiles
    BY DEF FindOrders, At, Quiet
<1>1. PICK seen \in [Orders -> 0 .. Removed] : seen = UnderKey(job[w].key)
    BY SeenFits DEF AccountsInv
<1>2. PICK h \in Job : h = job[w]
    BY DEF AccountsInv, TypeOK
<1>3. PICK j : j = [h EXCEPT !.at = "commit", !.seen = seen]
    OBVIOUS
<1>4. j \in Job /\ j.at = "commit" /\ j.op = h.op /\ j.key = h.key /\ j.other = h.other
    BY <1>3 DEF Job
<1>5. Fits(h)
    BY <1>2 DEF AccountsInv, JobsFit
<1>6. Fits(j)
    BY <1>0, <1>2, <1>4, <1>5 DEF Fits
<1>7. job' = [job EXCEPT ![w] = [@ EXCEPT !.at = "commit", !.seen = seen]]
    BY <1>1 DEF FindOrders
<1>8. job' = [job EXCEPT ![w] = j]
    BY <1>2, <1>3, <1>7
<1> QED
    BY <1>0, <1>4, <1>6, <1>8, QuietStep

LEMMA LookupKeeps ==
    ASSUME AccountsAssumption, AccountsInv, NEW w \in Workers, GetAccountIDByKeycloakID(w)
    PROVE  AccountsInv'
<1> USE AccountsAssumption
<1>0. job \in [Workers -> Job] /\ job[w].key \in Keys /\ Quiet /\ UNCHANGED profiles
    BY DEF AccountsInv, TypeOK, GetAccountIDByKeycloakID, Quiet, JobsFit, Fits
<1>1. ASSUME NEW a \in WithKey(job[w].key), Proceed(w, a, FALSE)
      PROVE  AccountsInv'
    <2>1. Known(a) /\ a \in AccountIDs
        BY FoundAreKnown DEF Known
    <2>2. PICK j \in Job : job' = [job EXCEPT ![w] = j] /\ (Known(a) => Fits(j))
        BY <1>0, <1>1, <2>1, ProceedJob
    <2> QED
        BY <1>0, <2>1, <2>2, QuietStep
<1>2. ASSUME NEW at \in {"read", "insert"}, Goto(w, at)
      PROVE  AccountsInv'
    <2>0. job[w] \in Job /\ at \in Ats
        BY <1>0 DEF Ats
    <2>1. PICK j \in Job : j = [job[w] EXCEPT !.at = at] /\ j.at = at /\ j.key = job[w].key
        BY <2>0, JobAt
    <2>3. Fits(j)
        BY <1>0, <2>1 DEF Fits
    <2> QED
        BY <1>0, <1>2, <2>1, <2>3, QuietStep DEF Goto
<1>3. CASE Answer(w)
    BY <1>0, <1>3, IdleFits, QuietStep DEF Answer
<1> QED
    BY <1>1, <1>2, <1>3 DEF GetAccountIDByKeycloakID

LEMMA ProfileKeeps ==
    ASSUME AccountsAssumption, AccountsInv, NEW w \in Workers, LookupProfile(w)
    PROVE  AccountsInv'
<1> USE AccountsAssumption
<1>0. job \in [Workers -> Job] /\ job[w].key \in Keys /\ Quiet /\ UNCHANGED profiles
      /\ profiles \in [Keys -> Nat]
    BY DEF AccountsInv, TypeOK, LookupProfile, Quiet, JobsFit, Fits
<1>1. CASE Answer(w)
    BY <1>0, <1>1, IdleFits, QuietStep DEF Answer
<1>2. ASSUME NEW at \in {"lookup", "insert"},
             job' = [job EXCEPT ![w].data = profiles[job[w].key], ![w].at = at]
      PROVE  AccountsInv'
    <2>a. PICK h \in Job : h = job[w]
        BY <1>0
    <2>b. PICK d \in Nat : d = profiles[job[w].key]
        BY <1>0
    <2>c. PICK j : j = [h EXCEPT !.data = d, !.at = at]
        OBVIOUS
    <2>1. j \in Job /\ j.at = at /\ j.key = h.key
        BY <2>c DEF Job
    <2>3. Fits(j)
        BY <1>0, <2>1, <2>a DEF Fits
    <2>4. job' = [job EXCEPT ![w] = [@ EXCEPT !.data = d, !.at = at]]
        BY <1>2, <2>b
    <2>5. job' = [job EXCEPT ![w] = j]
        BY <2>4, <2>a, <2>c
    <2> QED
        BY <1>0, <2>1, <2>3, <2>5, QuietStep
<1> QED
    BY <1>1, <1>2 DEF LookupProfile

LEMMA LookupAgainKeeps ==
    ASSUME AccountsAssumption, AccountsInv, NEW w \in Workers, LookupAgain(w)
    PROVE  AccountsInv'
<1> USE AccountsAssumption
<1>0. job \in [Workers -> Job] /\ job[w].key \in Keys /\ Quiet /\ UNCHANGED profiles
    BY DEF AccountsInv, TypeOK, LookupAgain, Quiet, JobsFit, Fits
<1>1. ASSUME NEW a \in WithKey(job[w].key), Proceed(w, a, FALSE)
      PROVE  AccountsInv'
    <2>1. Known(a) /\ a \in AccountIDs
        BY FoundAreKnown DEF Known
    <2>2. PICK j \in Job : job' = [job EXCEPT ![w] = j] /\ (Known(a) => Fits(j))
        BY <1>0, <1>1, <2>1, ProceedJob
    <2> QED
        BY <1>0, <2>1, <2>2, QuietStep
<1>2. CASE Answer(w)
    BY <1>0, <1>2, IdleFits, QuietStep DEF Answer
<1> QED
    BY <1>1, <1>2 DEF LookupAgain, AfterConflict

LEMMA DestinationKeeps ==
    ASSUME AccountsAssumption, AccountsInv, NEW w \in Workers, ReadDestination(w)
    PROVE  AccountsInv'
<1> USE AccountsAssumption
<1>0. job \in [Workers -> Job] /\ Fits(job[w]) /\ job[w].at = "destination"
      /\ Quiet /\ UNCHANGED profiles
    BY DEF AccountsInv, TypeOK, ReadDestination, At, Quiet, JobsFit
<1>1. ASSUME NEW b \in WithKey(job[w].other),
             job' = [job EXCEPT ![w].at = "merge", ![w].into = b]
      PROVE  AccountsInv'
    <2>1. Known(b) /\ b \in AccountIDs
        BY FoundAreKnown DEF Known
    <2>a. PICK h \in Job : h = job[w]
        BY <1>0
    <2>b. PICK j : j = [h EXCEPT !.at = "merge", !.into = b]
        OBVIOUS
    <2>c. b \in 0 .. MaxAccounts
        BY <2>1 DEF AccountIDs, AccountsAssumption
    <2>2. /\ j \in Job /\ j.at = "merge" /\ j.into = b
          /\ j.key = h.key /\ j.other = h.other /\ j.account = h.account
        BY <2>b, <2>c DEF Job
    <2>4. Fits(j)
        BY <1>0, <2>1, <2>2, <2>a DEF Fits
    <2> QED
        BY <1>0, <1>1, <2>2, <2>4, <2>a, <2>b, QuietStep
<1>2. CASE Answer(w)
    BY <1>0, <1>2, IdleFits, QuietStep DEF Answer
<1> QED
    BY <1>1, <1>2 DEF ReadDestination

-----------------------------------------------------------------------------
(* The steps that write one account.                                        *)

TablesFit == RowsFit /\ OneAccountPerKey /\ RowsOfOneAccount /\ UserKeyFollows

(* No account is made of one that went, and none goes.                      *)
LEMMA AccountEdit ==
    ASSUME AccountsInv, UNCHANGED <<orders, cards, transactions, trace, orphaned>>,
           \A a \in AccountIDs : Known(a) => Known(a)' /\ (Exists(a)' <=> Exists(a))
    PROVE  Steady /\ RowsFit' /\ RowsOfOneAccount'
<1>1. Steady
    BY DEF Steady, Known
<1>2. RowsFit'
    <2>1. \A o \in Orders : orders[o].account \in AccountIDs => Known(orders[o].account)
        BY DEF AccountsInv, RowsFit
    <2>2. \A o \in Orders : orders'[o].account \in AccountIDs => Known(orders'[o].account)
        BY <2>1
    <2>3. ASSUME NEW o \in Orders, orders'[o].account \in AccountIDs
          PROVE  Known(orders[o].account)'
        <3>1. PICK a \in AccountIDs : a = orders[o].account
            BY <2>3
        <3>2. Known(a)'
            BY <2>1, <3>1
        <3> QED
            BY <3>1, <3>2 DEF Known
    <2> QED
        BY <2>3 DEF AccountsInv, RowsFit
<1>3. RowsOfOneAccount'
    <2> SUFFICES ASSUME NEW o \in Orders, OrderExists(o)'
                 PROVE  /\ Exists(orders[o].account)' \/ o \in orphaned
                        /\ orders[o].card # NoCard => cards[orders[o].card] = orders[o].account
                        /\ transactions[o] # 0 => transactions[o] = orders[o].account
        BY DEF RowsOfOneAccount
    <2>1. OrderExists(o)
        BY DEF OrderExists
    <2>2. PICK a : a = orders[o].account
        OBVIOUS
    <2>3. Exists(a) => Exists(a)'
        BY DEF Exists, Known
    <2> QED
        BY <2>1, <2>2, <2>3 DEF AccountsInv, RowsOfOneAccount, Exists
<1> QED
    BY <1>1, <1>2, <1>3

LEMMA InsertKeeps ==
    ASSUME AccountsAssumption, AccountsInv, NEW a, NEW k \in Keys, NEW data \in Nat,
           Insert(a, k, data), WithKey(k) = {},
           UNCHANGED <<orders, cards, transactions, trace, orphaned, misnamed>>
    PROVE  /\ accounts' \in [AccountIDs -> AccountRow] /\ TablesFit' /\ Steady
           /\ a \in AccountIDs /\ Known(a)'
<1>0. accounts \in [AccountIDs -> AccountRow] /\ a \in AccountIDs /\ ~Known(a)
    BY DEF AccountsInv, TypeOK, Insert, Fresh, Known
<1>1. NewAccount(k, data) \in AccountRow /\ NewAccount(k, data).state = "live"
      /\ NewAccount(k, data).key = k
    BY DEF NewAccount, AccountRow
<1>2. accounts' \in [AccountIDs -> AccountRow]
    BY <1>0, <1>1 DEF Insert
<1>3. accounts'[a].state = "live" /\ accounts'[a].key = k
    BY <1>0, <1>1 DEF Insert
<1>4. \A b \in AccountIDs : b # a => accounts'[b] = accounts[b]
    BY <1>0 DEF Insert
<1>5. \A b \in AccountIDs : Known(b) => b # a /\ Known(b)' /\ (Exists(b)' <=> Exists(b))
    BY <1>0, <1>4 DEF Known, Exists
<1>6. Steady /\ RowsFit' /\ RowsOfOneAccount'
    BY <1>5, AccountEdit
<1>7. OneAccountPerKey'
    <2>1. \A b \in AccountIDs : Exists(b) => accounts[b].key # k \/ k = NoKey
        BY DEF WithKey
    <2>2. k # NoKey
        BY DEF AccountsAssumption
    <2>3. \A b, c \in AccountIDs :
             Exists(b)' /\ Exists(c)' /\ accounts'[c].key = accounts'[b].key
             /\ accounts'[b].key # NoKey => b = c
        BY <2>1, <2>2, <1>3, <1>4 DEF Exists, AccountsInv, OneAccountPerKey, WithKey
    <2> QED
        BY <2>3 DEF OneAccountPerKey, WithKey
<1>8. UserKeyFollows'
    <2> SUFFICES ASSUME NEW o \in Orders, Disagrees(o)'
                 PROVE  o \in misnamed'
        BY DEF UserKeyFollows
    <2>1. PICK b \in AccountIDs : b = orders[o].account
        BY DEF Disagrees, Exists
    <2>2. Known(b) /\ b # a
        BY <2>1, <1>5 DEF AccountsInv, RowsFit
    <2>3. Disagrees(o)
        BY <2>1, <2>2, <1>4 DEF Disagrees, Exists
    <2> QED
        BY <2>3 DEF AccountsInv, UserKeyFollows
<1> QED
    BY <1>0, <1>2, <1>3, <1>6, <1>7, <1>8 DEF TablesFit, Known

LEMMA PatchKeeps ==
    ASSUME AccountsAssumption, AccountsInv, NEW a, NEW k \in Keys \cup {NoKey},
           NEW data \in Nat, Patched(a, k, data),
           UNCHANGED <<cards, transactions, trace, orphaned>>
    PROVE  /\ accounts' \in [AccountIDs -> AccountRow] /\ misnamed' \subseteq Orders
           /\ TablesFit' /\ Steady
<1>0. accounts \in [AccountIDs -> AccountRow] /\ a \in AccountIDs /\ misnamed \subseteq Orders
      /\ Exists(a) /\ WithKey(k) \subseteq {a}
    BY DEF AccountsInv, TypeOK, Patched, Exists
<1>2. PICK was \in AccountRow : was = accounts[a]
    BY <1>0
<1>d. PICK d \in Nat : d = IF data \in Cleared THEN was.data ELSE data
    BY DEF AccountRow
<1>1. PICK row : row = [was EXCEPT !.key = k, !.data = d]
    OBVIOUS
<1>3. row \in AccountRow /\ row.key = k /\ row.state = accounts[a].state
    BY <1>1, <1>2 DEF AccountRow
<1>4. accounts' = [accounts EXCEPT ![a] = row]
    BY <1>1, <1>2, <1>d DEF Patched
<1>5. accounts' \in [AccountIDs -> AccountRow]
    BY <1>0, <1>3, <1>4
<1>6. accounts'[a].state = accounts[a].state /\ accounts'[a].key = k
      /\ \A b \in AccountIDs : b # a => accounts'[b] = accounts[b]
    BY <1>0, <1>3, <1>4
<1>7. \A b \in AccountIDs : (Known(b)' <=> Known(b)) /\ (Exists(b)' <=> Exists(b))
    BY <1>6 DEF Known, Exists
<1>8. Steady /\ RowsFit' /\ RowsOfOneAccount'
    BY <1>7, AccountEdit DEF Patched
<1>9. OneAccountPerKey'
    <2>1. \A b \in AccountIDs : Exists(b) /\ accounts[b].key = k /\ k # NoKey => b = a
        BY <1>0 DEF WithKey
    <2>2. \A b, c \in AccountIDs :
             Exists(b) /\ Exists(c) /\ accounts[c].key = accounts[b].key
             /\ accounts[b].key # NoKey => b = c
        BY DEF AccountsInv, OneAccountPerKey, WithKey
    <2>3. \A b, c \in AccountIDs :
             Exists(b)' /\ Exists(c)' /\ accounts'[c].key = accounts'[b].key
             /\ accounts'[b].key # NoKey => b = c
        BY <2>1, <2>2, <1>6, <1>7
    <2> QED
        BY <2>3 DEF OneAccountPerKey, WithKey
<1>10. UserKeyFollows' /\ misnamed' \subseteq Orders
    BY <1>0 DEF Patched, MayPart, UserKeyFollows
<1> QED
    BY <1>5, <1>8, <1>9, <1>10 DEF TablesFit

LEMMA SoftDeleteKeeps ==
    ASSUME AccountsInv, NEW a \in AccountIDs, SoftDeleted(a),
           UNCHANGED <<orders, cards, transactions, trace, orphaned, misnamed>>
    PROVE  accounts' \in [AccountIDs -> AccountRow] /\ TablesFit' /\ Steady
<1>0. accounts \in [AccountIDs -> AccountRow]
    BY DEF AccountsInv, TypeOK
<1>1. PICK row : row = [accounts[a] EXCEPT !.state = "deleted"]
    OBVIOUS
<1>2. accounts[a] \in AccountRow
    BY <1>0
<1>3. row \in AccountRow /\ row.key = accounts[a].key /\ row.state = "deleted"
    BY <1>1, <1>2 DEF AccountRow
<1>4. accounts' = IF Exists(a) THEN [accounts EXCEPT ![a] = row] ELSE accounts
    BY <1>1 DEF SoftDeleted
<1>5. accounts' \in [AccountIDs -> AccountRow]
    BY <1>0, <1>3, <1>4
<1>6. \A b \in AccountIDs : (Known(b)' <=> Known(b)) /\ (Exists(b)' <=> Exists(b))
                            /\ accounts'[b].key = accounts[b].key
    <2>1. ASSUME NEW b \in AccountIDs, accounts'[b] = accounts[b]
          PROVE  (Known(b)' <=> Known(b)) /\ (Exists(b)' <=> Exists(b))
                 /\ accounts'[b].key = accounts[b].key
        BY <2>1 DEF Known, Exists
    <2>2. ASSUME Exists(a)
          PROVE  (Known(a)' <=> Known(a)) /\ (Exists(a)' <=> Exists(a))
                 /\ accounts'[a].key = accounts[a].key
        BY <2>2, <1>0, <1>3, <1>4 DEF Known, Exists
    <2>3. \A b \in AccountIDs : accounts'[b] = accounts[b] \/ (b = a /\ Exists(a))
        BY <1>0, <1>4
    <2> QED
        BY <2>1, <2>2, <2>3
<1>7. Steady /\ RowsFit' /\ RowsOfOneAccount'
    BY <1>6, AccountEdit
<1>8. OneAccountPerKey'
    BY <1>6 DEF AccountsInv, OneAccountPerKey, WithKey
<1>9. UserKeyFollows'
    <2> SUFFICES ASSUME NEW o \in Orders, Disagrees(o)'
                 PROVE  o \in misnamed'
        BY DEF UserKeyFollows
    <2>1. PICK b \in AccountIDs : b = orders[o].account
        BY DEF Disagrees, Exists
    <2>2. Disagrees(o)
        BY <2>1, <1>6 DEF Disagrees, Exists
    <2> QED
        BY <2>2 DEF AccountsInv, UserKeyFollows
<1> QED
    BY <1>5, <1>7, <1>8, <1>9 DEF TablesFit

-----------------------------------------------------------------------------
(* The handlers' steps that write one account or one row of the others.     *)

LEMMA TypeOfStep ==
    ASSUME AccountsInv, UNCHANGED mix,
           accounts' \in [AccountIDs -> AccountRow], orders' \in [Orders -> OrderRow],
           cards' \in [Cards -> 0 .. Removed], transactions' \in [Orders -> 0 .. Removed],
           trace' \in [old : Keys \cup {NoKey}, new : Keys \cup {NoKey},
                       status : {"none", "success", "reverted"}],
           profiles' \in [Keys -> Nat], job' \in [Workers -> Job],
           orphaned' \subseteq Orders, misnamed' \subseteq Orders
    PROVE  TypeOK'
    BY DEF AccountsInv, TypeOK

LEMMA CreateKeeps ==
    ASSUME AccountsAssumption, AccountsInv, NEW w \in Workers, createAccountForKey(w)
    PROVE  AccountsInv'
<1> USE AccountsAssumption
<1>0. /\ job \in [Workers -> Job] /\ job[w].key \in Keys /\ job[w].data \in Nat
      /\ UNCHANGED <<orders, cards, transactions, trace, profiles, orphaned, misnamed, mix>>
    BY DEF AccountsInv, TypeOK, createAccountForKey, JobsFit, Fits, Job
<1>1. ASSUME WithKey(job[w].key) = {}, NEW a \in AccountIDs,
             Insert(a, job[w].key, job[w].data), Proceed(w, a, TRUE)
      PROVE  AccountsInv'
    <2>1. /\ accounts' \in [AccountIDs -> AccountRow] /\ TablesFit' /\ Steady /\ Known(a)'
        <3>1. PICK k \in Keys : k = job[w].key
            BY <1>0
        <3>2. PICK d \in Nat : d = job[w].data
            BY <1>0
        <3> QED
            BY <1>0, <1>1, <3>1, <3>2, InsertKeeps
    <2>2. PICK j \in Job : job' = [job EXCEPT ![w] = j] /\ (Known(a)' => Fits(j)')
        BY <1>0, <1>1, ProceedJob
    <2>3. job' \in [Workers -> Job] /\ JobsFit'
        BY <1>0, <2>1, <2>2, SteadyJobs DEF AccountsInv
    <2>4. TypeOK'
        BY <1>0, <2>1, <2>3 DEF AccountsInv, TypeOK
    <2> QED
        BY <2>1, <2>3, <2>4 DEF AccountsInv, TablesFit
<1>2. ASSUME Goto(w, "again"), UNCHANGED accounts
      PROVE  AccountsInv'
    <2>0. job[w] \in Job /\ "again" \in Ats
        BY <1>0 DEF Ats
    <2>1. PICK j \in Job : j = [job[w] EXCEPT !.at = "again"] /\ j.at = "again"
                           /\ j.key = job[w].key
        BY <2>0, JobAt
    <2>2. Fits(j)
        BY <1>0, <2>1 DEF Fits
    <2>3. Quiet
        BY <1>0, <1>2 DEF Quiet, tables
    <2> QED
        BY <1>0, <1>2, <2>1, <2>2, <2>3, QuietStep DEF Goto
<1> QED
    BY <1>1, <1>2 DEF createAccountForKey

(* What is left of a step after which the handler answers.                  *)
LEMMA Answered ==
    ASSUME AccountsAssumption, AccountsInv, NEW w \in Workers, Answer(w), Steady, TablesFit',
           UNCHANGED <<profiles, mix>>,
           accounts' \in [AccountIDs -> AccountRow], orders' \in [Orders -> OrderRow],
           cards' \in [Cards -> 0 .. Removed], transactions' \in [Orders -> 0 .. Removed],
           trace' \in [old : Keys \cup {NoKey}, new : Keys \cup {NoKey},
                       status : {"none", "success", "reverted"}],
           orphaned' \subseteq Orders, misnamed' \subseteq Orders
    PROVE  AccountsInv'
<1>1. job' \in [Workers -> Job] /\ JobsFit'
    BY IdleFits, SteadyJobs DEF Answer, AccountsInv, TypeOK
<1>2. TypeOK'
    BY <1>1, TypeOfStep DEF AccountsInv, TypeOK
<1> QED
    BY <1>1, <1>2 DEF AccountsInv, TablesFit

LEMMA PatchAccountKeeps ==
    ASSUME AccountsAssumption, AccountsInv, NEW w \in Workers, PatchAccount(w)
    PROVE  AccountsInv'
<1>0. /\ job[w].key \in Keys /\ job[w].data \in Nat /\ Answer(w)
      /\ UNCHANGED <<cards, transactions, trace, profiles, orphaned, mix>>
    BY DEF AccountsInv, TypeOK, PatchAccount, JobsFit, Fits, Job
<1>1. CASE Patched(job[w].account, job[w].key, job[w].data)
    <2>1. PICK k \in Keys, d \in Nat : k = job[w].key /\ d = job[w].data
        BY <1>0
    <2>a. PICK a : a = job[w].account
        OBVIOUS
    <2>2. Patched(a, k, d)
        BY <1>1, <2>1, <2>a
    <2>3. /\ accounts' \in [AccountIDs -> AccountRow] /\ misnamed' \subseteq Orders
          /\ TablesFit' /\ Steady
        BY <1>0, <2>2, PatchKeeps
    <2>4. UNCHANGED orders
        BY <2>2 DEF Patched
    <2> QED
        BY <1>0, <2>3, <2>4, Answered DEF AccountsInv, TypeOK
<1>2. CASE UNCHANGED <<accounts, orders, misnamed>>
    BY <1>0, <1>2, IdleFits, QuietStep DEF Quiet, tables, Answer
<1> QED
    BY <1>1, <1>2 DEF PatchAccount

LEMMA SoftDeleteAccountKeeps ==
    ASSUME AccountsAssumption, AccountsInv, NEW w \in Workers, SoftDeleteAccount(w)
    PROVE  AccountsInv'
<1>1. PICK a \in AccountIDs : a = job[w].account
    BY DEF AccountsInv, SoftDeleteAccount, JobsFit, Fits, Known
<1>2. accounts' \in [AccountIDs -> AccountRow] /\ TablesFit' /\ Steady
    <2>1. SoftDeleted(a)
        BY <1>1 DEF SoftDeleteAccount
    <2> QED
        BY <2>1, SoftDeleteKeeps DEF SoftDeleteAccount
<1> QED
    BY <1>2, Answered DEF SoftDeleteAccount, AccountsInv, TypeOK

-----------------------------------------------------------------------------

LEMMA InsertOrderKeeps ==
    ASSUME AccountsAssumption, AccountsInv, NEW w \in Workers, InsertOrder(w)
    PROVE  AccountsInv'
<1> USE AccountsAssumption
<1>0. /\ job \in [Workers -> Job] /\ orders \in [Orders -> OrderRow] /\ job[w].at = "order"
      /\ UNCHANGED <<accounts, cards, transactions, trace, profiles, misnamed, mix>>
      /\ orphaned \subseteq Orders
    BY DEF AccountsInv, TypeOK, InsertOrder
<1>1. PICK a \in AccountIDs : a = job[w].account /\ Known(a)
    BY <1>0 DEF AccountsInv, JobsFit, Fits, Known
<1>2. PICK o \in Orders :
         /\ orders[o].account = 0
         /\ orders' = [orders EXCEPT ![o].account = a]
         /\ orphaned' = orphaned \cup {x \in {o} : ~Exists(a)}
         /\ job' = [job EXCEPT ![w] = IF @.op = "checkout"
                                      THEN [@ EXCEPT !.at = "transaction", !.order = o]
                                      ELSE IdleJob]
    BY <1>1 DEF InsertOrder
<1>3. PICK row : row = [orders[o] EXCEPT !.account = a]
    OBVIOUS
<1>4. a \in 0 .. Removed /\ a # 0 /\ a # Removed
    BY DEF AccountIDs, Removed, AccountsAssumption
<1>5. orders[o] \in OrderRow
    BY <1>0
<1>6. row \in OrderRow /\ row.account = a /\ row.userkey = orders[o].userkey
      /\ row.card = orders[o].card
    BY <1>3, <1>4, <1>5 DEF OrderRow
<1>7. orders' = [orders EXCEPT ![o] = row] /\ orders' \in [Orders -> OrderRow]
    BY <1>0, <1>2, <1>3, <1>6
<1>8. orders'[o] = row /\ \A x \in Orders : x # o => orders'[x] = orders[x]
    BY <1>0, <1>7
<1>9. row.userkey = NoKey /\ row.card = NoCard /\ transactions[o] = 0
    BY <1>2, <1>6 DEF AccountsInv, RowsFit
<1>10. Steady
    BY <1>0, <1>2, <1>4, <1>6, <1>8 DEF Steady, Known, Exists
<1>11. RowsFit'
    BY <1>0, <1>1, <1>4, <1>6, <1>8 DEF AccountsInv, RowsFit, Known
<1>12. OneAccountPerKey'
    BY <1>0 DEF AccountsInv, OneAccountPerKey, WithKey, Exists
<1>13. RowsOfOneAccount'
    BY <1>0, <1>2, <1>6, <1>8, <1>9 DEF AccountsInv, RowsOfOneAccount, OrderExists, Exists
<1>14. UserKeyFollows'
    BY <1>0, <1>8, <1>9 DEF AccountsInv, UserKeyFollows, Disagrees, Exists
<1>15. \E j \in Job : job' = [job EXCEPT ![w] = j] /\ Fits(j)'
    <2>1. PICK h \in Job : h = job[w]
        BY <1>0
    <2>2. CASE h.op = "checkout"
        <3>1. PICK j : j = [h EXCEPT !.at = "transaction", !.order = o]
            OBVIOUS
        <3>2. j \in Job /\ j.at = "transaction" /\ j.order = o /\ j.account = h.account
            BY <3>1 DEF Job
        <3>3. job' = [job EXCEPT ![w] = j]
            BY <1>2, <2>1, <2>2, <3>1
        <3>4. orders'[o].account = a /\ Known(a)'
            BY <1>0, <1>1, <1>6, <1>8 DEF Known
        <3>5. Fits(j)'
            BY <1>1, <1>4, <2>1, <3>2, <3>4 DEF Fits, Holds
        <3> QED
            BY <3>2, <3>3, <3>5
    <2>3. CASE h.op # "checkout"
        BY <1>2, <2>1, <2>3, IdleFits
    <2> QED
        BY <2>2, <2>3
<1>16. job' \in [Workers -> Job] /\ JobsFit'
    BY <1>0, <1>10, <1>15, SteadyJobs DEF AccountsInv
<1>17. TypeOK'
    BY <1>0, <1>2, <1>7, <1>16 DEF AccountsInv, TypeOK
<1> QED
    BY <1>11, <1>12, <1>13, <1>14, <1>16, <1>17 DEF AccountsInv

LEMMA InsertTransactionKeeps ==
    ASSUME AccountsAssumption, AccountsInv, NEW w \in Workers, InsertTransaction(w)
    PROVE  AccountsInv'
<1> USE AccountsAssumption
<1>0. /\ transactions \in [Orders -> 0 .. Removed] /\ job[w].at = "transaction" /\ Answer(w)
      /\ UNCHANGED <<accounts, orders, cards, trace, profiles, orphaned, misnamed, mix>>
    BY DEF AccountsInv, TypeOK, InsertTransaction
<1>1. PICK a \in AccountIDs : a = job[w].account
    BY <1>0 DEF AccountsInv, JobsFit, Fits, Known
<1>2. PICK o \in Orders : o = job[w].order
    BY <1>0 DEF AccountsInv, JobsFit, Fits, Holds
<1>3. orders[o].account # 0 /\ (Exists(a) => orders[o].account = a)
    BY <1>0, <1>1, <1>2 DEF AccountsInv, JobsFit, Fits, Holds
<1>4. transactions' = IF Exists(a) /\ OrderExists(o)
                      THEN [transactions EXCEPT ![o] = a] ELSE transactions
    BY <1>1, <1>2 DEF InsertTransaction
<1>5. a \in 0 .. Removed
    BY DEF AccountIDs, Removed, AccountsAssumption
<1>6. transactions' \in [Orders -> 0 .. Removed]
    BY <1>0, <1>4, <1>5
<1>7. \A x \in Orders : transactions'[x] = transactions[x]
                        \/ (x = o /\ transactions'[x] = orders[x].account)
    BY <1>0, <1>3, <1>4
<1>8. Steady
    BY <1>0 DEF Steady, Known, Exists
<1>9. RowsFit'
    BY <1>0, <1>3, <1>7 DEF AccountsInv, RowsFit, Known
<1>10. OneAccountPerKey' /\ UserKeyFollows'
    BY <1>0 DEF AccountsInv, OneAccountPerKey, WithKey, Exists, UserKeyFollows, Disagrees
<1>11. RowsOfOneAccount'
    BY <1>0, <1>7 DEF AccountsInv, RowsOfOneAccount, OrderExists, Exists
<1> QED
    BY <1>0, <1>6, <1>8, <1>9, <1>10, <1>11, Answered DEF AccountsInv, TypeOK, TablesFit

LEMMA CreateCardKeeps ==
    ASSUME AccountsAssumption, AccountsInv, NEW w \in Workers, CreateCardDetails(w)
    PROVE  AccountsInv'
<1> USE AccountsAssumption
<1>0. /\ job \in [Workers -> Job] /\ cards \in [Cards -> 0 .. Removed] /\ job[w].at = "card"
      /\ UNCHANGED <<accounts, orders, transactions, trace, profiles, orphaned, misnamed, mix>>
    BY DEF AccountsInv, TypeOK, CreateCardDetails
<1>1. PICK a \in AccountIDs : a = job[w].account
    BY <1>0 DEF AccountsInv, JobsFit, Fits, Known
<1>2. PICK c \in Cards :
         /\ cards[c] = 0 /\ Exists(a)
         /\ cards' = [cards EXCEPT ![c] = a]
         /\ job' = [job EXCEPT ![w].at = "attach", ![w].card = c]
    BY <1>1 DEF CreateCardDetails
<1>3. PICK h \in Job : h = job[w]
    BY <1>0
<1>4. PICK j : j = [h EXCEPT !.at = "attach", !.card = c]
    OBVIOUS
<1>5. j \in Job /\ j.at = "attach" /\ j.order = h.order /\ j.card = c
    BY <1>4 DEF Job
<1>6. job' = [job EXCEPT ![w] = [@ EXCEPT !.at = "attach", !.card = c]]
    BY <1>2
<1>7. job' = [job EXCEPT ![w] = j]
    BY <1>3, <1>4, <1>6
<1>8. h.order \in Orders /\ orders[h.order].account = a
    BY <1>0, <1>1, <1>2, <1>3 DEF AccountsInv, JobsFit, Fits, Holds
<1>9. a # 0 /\ a \in 0 .. Removed
    BY DEF AccountIDs, Removed, AccountsAssumption
<1>10. /\ cards' \in [Cards -> 0 .. Removed] /\ cards'[c] = a
       /\ \A x \in Cards : cards[x] # 0 => cards'[x] = cards[x]
    BY <1>0, <1>2, <1>9
<1>11. Fits(j)'
    BY <1>0, <1>5, <1>8, <1>9, <1>10 DEF Fits
<1>12. Steady
    BY <1>0, <1>10 DEF Steady, Known, Exists
<1>13. job' \in [Workers -> Job] /\ JobsFit'
    BY <1>0, <1>5, <1>7, <1>11, <1>12, SteadyJobs DEF AccountsInv
<1>14. TypeOK'
    BY <1>0, <1>10, <1>13 DEF AccountsInv, TypeOK
<1>15. RowsFit'
    BY <1>0 DEF AccountsInv, RowsFit, Known
<1>16. OneAccountPerKey' /\ UserKeyFollows'
    BY <1>0 DEF AccountsInv, OneAccountPerKey, WithKey, Exists, UserKeyFollows, Disagrees
<1>17. RowsOfOneAccount'
    BY <1>0, <1>10 DEF AccountsInv, RowsOfOneAccount, OrderExists, Exists, TypeOK, OrderRow
<1> QED
    BY <1>13, <1>14, <1>15, <1>16, <1>17 DEF AccountsInv

LEMMA AttachCardKeeps ==
    ASSUME AccountsAssumption, AccountsInv, NEW w \in Workers, AttachCard(w)
    PROVE  AccountsInv'
<1>0. /\ orders \in [Orders -> OrderRow] /\ job[w].at = "attach" /\ Answer(w)
      /\ UNCHANGED <<accounts, cards, transactions, trace, profiles, orphaned, misnamed, mix>>
    BY DEF AccountsInv, TypeOK, AttachCard
<1>1. PICK o \in Orders, c \in Cards : o = job[w].order /\ c = job[w].card
    BY <1>0 DEF AccountsInv, JobsFit, Fits
<1>2. cards[c] # 0 /\ cards[c] = orders[o].account
    BY <1>0, <1>1 DEF AccountsInv, JobsFit, Fits
<1>3. CASE ~OrderExists(o)
    <2>1. UNCHANGED orders
        BY <1>1, <1>3 DEF AttachCard
    <2> QED
        BY <1>0, <2>1, IdleFits, QuietStep DEF Quiet, tables, Answer
<1>4. CASE OrderExists(o)
    <2>1. PICK row : row = [orders[o] EXCEPT !.card = c]
        OBVIOUS
    <2>2. orders[o] \in OrderRow
        BY <1>0
    <2>3. row \in OrderRow /\ row.card = c /\ row.account = orders[o].account
          /\ row.userkey = orders[o].userkey
        BY <2>1, <2>2 DEF OrderRow
    <2>4. orders' = [orders EXCEPT ![o] = row]
        BY <1>1, <1>4, <2>1 DEF AttachCard
    <2>5. orders' \in [Orders -> OrderRow]
        BY <1>0, <2>3, <2>4
    <2>6. \A x \in Orders : orders'[x].account = orders[x].account
                            /\ orders'[x].userkey = orders[x].userkey
                            /\ (orders'[x].card = orders[x].card \/ (x = o /\ orders'[x].card = c))
        BY <1>0, <2>3, <2>4
    <2>7. Steady
        BY <1>0, <2>6 DEF Steady, Known, Exists
    <2>8. RowsFit'
        BY <1>0, <1>2, <2>6 DEF AccountsInv, RowsFit, Known
    <2>9. OneAccountPerKey' /\ UserKeyFollows'
        BY <1>0, <2>6 DEF AccountsInv, OneAccountPerKey, WithKey, Exists, UserKeyFollows,
                          Disagrees
    <2>10. RowsOfOneAccount'
        BY <1>0, <1>2, <2>6 DEF AccountsInv, RowsOfOneAccount, OrderExists, Exists
    <2> QED
        BY <1>0, <2>5, <2>7, <2>8, <2>9, <2>10, Answered DEF AccountsInv, TypeOK, TablesFit
<1> QED
    BY <1>3, <1>4

LEMMA RefreshKeeps ==
    ASSUME AccountsAssumption, AccountsInv, NEW w \in Workers,
           UpdateOrdersUserKeyFromAccounts(w)
    PROVE  AccountsInv'
<1>0. /\ orders \in [Orders -> OrderRow] /\ accounts \in [AccountIDs -> AccountRow]
      /\ misnamed \subseteq Orders /\ Answer(w)
      /\ UNCHANGED <<accounts, cards, transactions, trace, profiles, orphaned, mix>>
    BY DEF AccountsInv, TypeOK, UpdateOrdersUserKeyFromAccounts
<1>a. PICK keys \in [AccountIDs -> Keys \cup {NoKey}] : keys = job[w].keys
    BY DEF AccountsInv, TypeOK, Job
<1>b. PICK written : written = {o \in Orders : /\ job[w].seen[o] # 0
                                             /\ job[w].seen[o] = orders[o].account}
    OBVIOUS
<1>c. /\ orders' = [o \in Orders |-> IF o \in written
            THEN [orders[o] EXCEPT !.userkey = keys[orders[o].account]] ELSE orders[o]]
      /\ misnamed' = (misnamed \ written) \cup
            {o \in written : accounts[orders[o].account].key # keys[orders[o].account]}
    BY <1>a, <1>b DEF UpdateOrdersUserKeyFromAccounts
<1>d. written \subseteq Orders /\ \A o \in written : orders[o].account \in AccountIDs
    <2>1. \A o \in Orders : job[w].seen[o] = 0 \/ job[w].seen[o] \in AccountIDs
        BY DEF UpdateOrdersUserKeyFromAccounts, At, AccountsInv, JobsFit, Fits
    <2> QED
        BY <1>b, <2>1
<1>1. ASSUME NEW o \in Orders
      PROVE  /\ orders'[o].account = orders[o].account /\ orders'[o].card = orders[o].card
             /\ o \notin written => orders'[o] = orders[o]
             /\ o \in written => orders'[o].userkey = keys[orders[o].account]
    <2>1. PICK row \in OrderRow : row = orders[o]
        BY <1>0
    <2>2. CASE o \in written
        <3>1. PICK k : k = keys[row.account]
            OBVIOUS
        <3>2. orders'[o] = [row EXCEPT !.userkey = k]
            BY <1>c, <2>1, <2>2, <3>1
        <3> QED
            BY <2>1, <2>2, <3>1, <3>2 DEF OrderRow
    <2>3. CASE o \notin written
        BY <1>c, <2>1, <2>3
    <2> QED
        BY <2>2, <2>3
<1>2. orders' \in [Orders -> OrderRow]
    <2>1. ASSUME NEW o \in Orders
          PROVE  orders'[o] \in OrderRow
        <3>1. PICK row \in OrderRow : row = orders[o]
            BY <1>0
        <3>2. CASE o \notin written
            BY <1>1, <3>1, <3>2
        <3>3. CASE o \in written /\ row.account \in AccountIDs
            <4>1. PICK k \in Keys \cup {NoKey} : k = keys[row.account]
                BY <1>a, <3>3
            <4>2. orders'[o] = [row EXCEPT !.userkey = k]
                BY <1>c, <3>1, <3>3, <4>1
            <4> QED
                BY <4>2 DEF OrderRow
        <3> QED
            BY <1>d, <3>1, <3>2, <3>3
    <2> QED
        BY <1>c, <2>1
<1>3. Steady
    BY <1>0, <1>1 DEF Steady, Known, Exists
<1>4. RowsFit'
    <2>1. 0 \notin AccountIDs
        BY DEF AccountIDs
    <2>2. \A o \in Orders : orders[o].account = 0 => orders'[o] = orders[o]
        BY <1>1, <1>d, <2>1
    <2>3. \A o \in Orders : orders'[o].account = 0 =>
             orders'[o].card = NoCard /\ orders'[o].userkey = NoKey /\ transactions'[o] = 0
        BY <1>0, <1>1, <2>2 DEF AccountsInv, RowsFit
    <2> QED
        BY <1>0, <1>1, <2>3 DEF AccountsInv, RowsFit, Known
<1>5. OneAccountPerKey'
    BY <1>0 DEF AccountsInv, OneAccountPerKey, WithKey, Exists
<1>6. RowsOfOneAccount'
    BY <1>0, <1>1 DEF AccountsInv, RowsOfOneAccount, OrderExists, Exists
<1>7. UserKeyFollows'
    <2>1. ASSUME NEW o \in Orders, Disagrees(o)'
          PROVE  o \in misnamed'
        <3>1. CASE o \in written
            BY <1>0, <1>1, <1>c, <2>1, <3>1 DEF Disagrees
        <3>2. CASE o \notin written
            <4>1. Disagrees(o)
                BY <1>0, <1>1, <2>1, <3>2 DEF Disagrees, Exists
            <4> QED
                BY <1>c, <3>2, <4>1 DEF AccountsInv, UserKeyFollows
        <3> QED
            BY <3>1, <3>2
    <2> QED
        BY <2>1 DEF UserKeyFollows
<1>8. misnamed' \subseteq Orders
    BY <1>0, <1>c, <1>d
<1> QED
    BY <1>0, <1>2, <1>3, <1>4, <1>5, <1>6, <1>7, <1>8, Answered
    DEF AccountsInv, TypeOK, TablesFit

-----------------------------------------------------------------------------
(* A row that is moved is moved with the order it belongs to.               *)

LEMMA MoveMoves ==
    ASSUME NEW S, NEW owners \in [S -> 0 .. Removed], NEW a, NEW b \in 0 .. Removed
    PROVE  /\ Move(owners, a, b) \in [S -> 0 .. Removed]
           /\ \A x \in S : Move(owners, a, b)[x] = IF owners[x] = a THEN b ELSE owners[x]
    BY DEF Move

(* An account goes, and what it owned has another owner, or is removed.     *)
LEMMA AccountGoes ==
    ASSUME AccountsAssumption, AccountsInv, NEW a \in AccountIDs, NEW b \in 0 .. Removed, b # 0,
           b \in AccountIDs => Known(b), Known(a),
           accounts' = IF Exists(a) THEN [accounts EXCEPT ![a].state = "gone"] ELSE accounts,
           cards' = Move(cards, a, b), transactions' = Move(transactions, a, b),
           \A o \in Orders :
              /\ orders'[o].account = IF orders[o].account = a THEN b ELSE orders[o].account
              /\ orders'[o].card = orders[o].card
              /\ orders[o].userkey = NoKey => orders'[o].userkey = NoKey,
           \A o \in Orders : OrderExists(o)' =>
              Exists(orders[o].account)' \/ o \in orphaned',
           UNCHANGED trace
    PROVE  /\ accounts' \in [AccountIDs -> AccountRow]
           /\ cards' \in [Cards -> 0 .. Removed] /\ transactions' \in [Orders -> 0 .. Removed]
           /\ Steady /\ RowsFit' /\ OneAccountPerKey' /\ RowsOfOneAccount'
           /\ \A x \in AccountIDs : accounts'[x].key = accounts[x].key
                                    /\ (Exists(x)' <=> Exists(x) /\ x # a)
<1>0. /\ accounts \in [AccountIDs -> AccountRow] /\ cards \in [Cards -> 0 .. Removed]
      /\ transactions \in [Orders -> 0 .. Removed]
    BY DEF AccountsInv, TypeOK
<1>1. PICK row : row = [accounts[a] EXCEPT !.state = "gone"]
    OBVIOUS
<1>2. accounts[a] \in AccountRow
    BY <1>0
<1>3. row \in AccountRow /\ row.state = "gone" /\ row.key = accounts[a].key
    BY <1>1, <1>2 DEF AccountRow
<1>4. accounts' = IF Exists(a) THEN [accounts EXCEPT ![a] = row] ELSE accounts
    BY <1>1
<1>5. accounts' \in [AccountIDs -> AccountRow]
    BY <1>0, <1>3, <1>4
<1>6. ASSUME NEW x \in AccountIDs
      PROVE  /\ accounts'[x].key = accounts[x].key
             /\ Exists(x)' <=> Exists(x) /\ x # a
             /\ Known(x) => Known(x)'
    <2>1. CASE x # a
        <3>1. accounts'[x] = accounts[x]
            BY <1>0, <1>4, <2>1
        <3> QED
            BY <2>1, <3>1 DEF Exists, Known
    <2>2. CASE x = a /\ Exists(a)
        <3>1. accounts'[x] = row
            BY <1>0, <1>4, <2>2
        <3> QED
            BY <1>3, <2>2, <3>1 DEF Exists, Known
    <2>3. CASE x = a /\ ~Exists(a)
        BY <1>4, <2>3 DEF Exists, Known
    <2> QED
        BY <2>1, <2>2, <2>3
<1>7. /\ cards' \in [Cards -> 0 .. Removed] /\ transactions' \in [Orders -> 0 .. Removed]
      /\ \A c \in Cards : cards'[c] = IF cards[c] = a THEN b ELSE cards[c]
      /\ \A o \in Orders : transactions'[o] = IF transactions[o] = a THEN b ELSE transactions[o]
    BY <1>0, MoveMoves
<1>8. Steady
    <2>1. \A x : Known(x) => Known(x)' /\ (Exists(x)' => Exists(x))
        BY <1>6 DEF Known
    <2>2. ~Exists(a)'
        BY <1>6
    <2> QED
        BY <1>7, <2>1, <2>2 DEF Steady
<1>9. RowsFit'
    <2>1. ASSUME NEW o \in Orders, orders'[o].account \in AccountIDs
          PROVE  Known(orders[o].account)'
        <3>1. PICK x \in AccountIDs : x = orders'[o].account
            BY <2>1
        <3>2. Known(x)
            BY <3>1 DEF AccountsInv, RowsFit
        <3>3. Known(x)'
            BY <1>6, <3>2
        <3> QED
            BY <3>1, <3>3 DEF Known
    <2> QED
        BY <1>7, <2>1 DEF AccountsInv, RowsFit
<1>10. OneAccountPerKey'
    BY <1>6 DEF AccountsInv, OneAccountPerKey, WithKey
<1>11. RowsOfOneAccount'
    <2> SUFFICES ASSUME NEW o \in Orders, OrderExists(o)'
                 PROVE  /\ Exists(orders[o].account)' \/ o \in orphaned'
                        /\ orders'[o].card # NoCard =>
                              cards'[orders'[o].card] = orders'[o].account
                        /\ transactions'[o] # 0 => transactions'[o] = orders'[o].account
        BY DEF RowsOfOneAccount
    <2>1. Exists(orders[o].account)' \/ o \in orphaned'
        OBVIOUS
    <2>a. a # 0 /\ a # Removed
        BY DEF AccountIDs, Removed, AccountsAssumption
    <2>2. OrderExists(o)
        BY <2>a DEF OrderExists
    <2>3. orders[o].card # NoCard => orders[o].card \in Cards
        BY DEF AccountsInv, TypeOK, OrderRow
    <2>4. orders'[o].card # NoCard => cards'[orders'[o].card] = orders'[o].account
        BY <1>7, <2>2, <2>3 DEF AccountsInv, RowsOfOneAccount
    <2>5. transactions'[o] # 0 => transactions'[o] = orders'[o].account
        BY <1>7, <2>2, <2>a DEF AccountsInv, RowsOfOneAccount
    <2> QED
        BY <2>1, <2>4, <2>5
<1> QED
    BY <1>5, <1>6, <1>7, <1>8, <1>9, <1>10, <1>11

LEMMA MergeKeeps ==
    ASSUME AccountsAssumption, AccountsInv, NEW w \in Workers, Merge(w)
    PROVE  AccountsInv'
<1> USE AccountsAssumption
<1>0. /\ orders \in [Orders -> OrderRow] /\ job[w].at = "merge" /\ Answer(w)
      /\ orphaned \subseteq Orders /\ misnamed \subseteq Orders
      /\ UNCHANGED <<trace, profiles, mix>>
    BY DEF AccountsInv, TypeOK, Merge, At
<1>1. PICK a \in AccountIDs, b \in AccountIDs : a = job[w].account /\ b = job[w].into
    BY <1>0 DEF AccountsInv, JobsFit, Fits, Known
<1>2. PICK k \in Keys, l \in Keys : k = job[w].key /\ l = job[w].other
    BY <1>0 DEF AccountsInv, JobsFit, Fits
<1>3. Known(a) /\ Known(b) /\ k # l
    BY <1>0, <1>1, <1>2 DEF AccountsInv, JobsFit, Fits
<1> DEFINE remains == Exists(b) /\ b # a
<1>4. /\ cards' = Move(cards, a, b) /\ transactions' = Move(transactions, a, b)
      /\ orders' = MovedOrders(a, b, k, l)
      /\ accounts' = IF Exists(a) THEN [accounts EXCEPT ![a].state = "gone"] ELSE accounts
      /\ orphaned' = IF remains THEN {o \in orphaned : orders[o].account # a}
                     ELSE orphaned \cup {o \in Orders : orders[o].account = a}
    BY <1>1, <1>2 DEF Merge, MovedCards
<1>5. \/ /\ Exists(a) /\ accounts[a].key = k /\ Exists(b) /\ accounts[b].key = l
         /\ UNCHANGED misnamed
      \/ MayPart
    BY <1>1, <1>2 DEF Merge
<1>6. b \in 0 .. Removed /\ b # 0 /\ a # 0 /\ a # Removed
    BY DEF AccountIDs, Removed, AccountsAssumption
<1>7. ASSUME NEW o \in Orders
      PROVE  /\ orders'[o] \in OrderRow /\ orders'[o].card = orders[o].card
             /\ orders'[o].account = IF orders[o].account = a THEN b ELSE orders[o].account
             /\ orders'[o].userkey = IF orders[o].userkey = k THEN l ELSE orders[o].userkey
    <2>1. PICK row \in OrderRow : row = orders[o]
        BY <1>0
    <2>2. orders'[o] = [row EXCEPT !.account = IF @ = a THEN b ELSE @,
                                   !.userkey = IF @ = k THEN l ELSE @]
        BY <1>4, <2>1 DEF MovedOrders
    <2>3. PICK x \in 0 .. Removed, u \in Keys \cup {NoKey} :
             /\ x = IF row.account = a THEN b ELSE row.account
             /\ u = IF row.userkey = k THEN l ELSE row.userkey
        BY <1>6 DEF OrderRow
    <2>4. orders'[o] = [row EXCEPT !.account = x, !.userkey = u]
        BY <2>2, <2>3 DEF OrderRow
    <2> QED
        BY <2>1, <2>3, <2>4 DEF OrderRow
<1>8. orders' \in [Orders -> OrderRow]
    BY <1>4, <1>7 DEF MovedOrders
<1>9. k # NoKey
    BY DEF AccountsAssumption
<1>10. \A o \in Orders :
          /\ orders'[o].account = IF orders[o].account = a THEN b ELSE orders[o].account
          /\ orders'[o].card = orders[o].card
          /\ orders[o].userkey = NoKey => orders'[o].userkey = NoKey
    BY <1>7, <1>9
<1>11. \A x \in AccountIDs : Exists(x) /\ x # a => Exists(x)'
    BY <1>4 DEF Exists, AccountsInv, TypeOK
<1>12. ASSUME NEW o \in Orders, OrderExists(o)'
       PROVE  Exists(orders[o].account)' \/ o \in orphaned'
    <2>1. OrderExists(o)
        BY <1>6, <1>7, <1>12 DEF OrderExists
    <2>2. PICK x : x = orders[o].account
        OBVIOUS
    <2>3. CASE x = a
        <3>1. CASE remains
            <4>1. Exists(b)'
                BY <1>11, <3>1
            <4> QED
                BY <1>7, <2>2, <2>3, <4>1 DEF Exists
        <3>2. CASE ~remains
            BY <1>4, <2>2, <2>3, <3>2
        <3> QED
            BY <3>1, <3>2
    <2>4. CASE x # a
        <3>1. Exists(x) \/ o \in orphaned
            BY <2>1, <2>2 DEF AccountsInv, RowsOfOneAccount
        <3>2. Exists(x) => Exists(x)'
            BY <1>11, <2>4 DEF Exists
        <3>3. o \in orphaned => o \in orphaned'
            BY <1>4, <2>2, <2>4
        <3>4. orders'[o].account = x
            BY <1>7, <2>2, <2>4
        <3> QED
            BY <3>1, <3>2, <3>3, <3>4 DEF Exists
    <2> QED
        BY <2>3, <2>4
<1>13. /\ accounts' \in [AccountIDs -> AccountRow]
       /\ cards' \in [Cards -> 0 .. Removed] /\ transactions' \in [Orders -> 0 .. Removed]
       /\ Steady /\ RowsFit' /\ OneAccountPerKey' /\ RowsOfOneAccount'
       /\ \A x \in AccountIDs : accounts'[x].key = accounts[x].key
                                /\ (Exists(x)' <=> Exists(x) /\ x # a)
    <2>1. \A o \in Orders : OrderExists(o)' => Exists(orders[o].account)' \/ o \in orphaned'
        BY <1>12
    <2>2. b \in AccountIDs => Known(b)
        BY <1>3
    <2>3. UNCHANGED trace
        BY <1>0
    <2>4. /\ cards' = Move(cards, a, b) /\ transactions' = Move(transactions, a, b)
          /\ accounts' = IF Exists(a) THEN [accounts EXCEPT ![a].state = "gone"] ELSE accounts
        BY <1>4
    <2> HIDE DEF remains
    <2> QED
        BY <1>3, <1>6, <1>10, <2>1, <2>2, <2>3, <2>4, AccountGoes
<1>14. UserKeyFollows' /\ misnamed' \subseteq Orders
    <2>1. CASE MayPart
        BY <1>0, <2>1 DEF MayPart, UserKeyFollows
    <2>2. CASE /\ Exists(a) /\ accounts[a].key = k /\ Exists(b) /\ accounts[b].key = l
               /\ UNCHANGED misnamed
        <3>1. a # b
            BY <1>3, <2>2
        <3>2. ASSUME NEW o \in Orders, Disagrees(o)'
              PROVE  o \in misnamed
            <4>1. PICK x \in AccountIDs : x = orders[o].account
                BY <1>7, <3>2 DEF Disagrees, Exists
            <4>2. CASE x = a
                <5>1. orders'[o].account = b
                    BY <1>7, <4>1, <4>2
                <5>2. orders'[o].userkey # l /\ orders'[o].userkey # NoKey
                    BY <1>13, <2>2, <3>2, <5>1 DEF Disagrees
                <5>3. orders[o].userkey # k /\ orders[o].userkey # NoKey
                    BY <1>7, <1>10, <5>2
                <5>4. Disagrees(o)
                    BY <2>2, <4>1, <4>2, <5>3 DEF Disagrees
                <5> QED
                    BY <5>4 DEF AccountsInv, UserKeyFollows
            <4>3. CASE x # a
                <5>1. orders'[o].account = x
                    BY <1>7, <4>1, <4>3
                <5>2. Exists(x) /\ orders'[o].userkey # accounts[x].key
                      /\ orders'[o].userkey # NoKey
                    BY <1>13, <3>2, <5>1 DEF Disagrees, Exists
                <5>3. orders[o].userkey # accounts[x].key
                    <6>1. CASE orders[o].userkey = k
                        <7>1. accounts[x].key # k
                            BY <1>9, <2>2, <4>3, <5>2 DEF AccountsInv, OneAccountPerKey, WithKey
                        <7> QED
                            BY <6>1, <7>1
                    <6>2. CASE orders[o].userkey # k
                        BY <1>7, <5>2, <6>2
                    <6> QED
                        BY <6>1, <6>2
                <5>4. Disagrees(o)
                    BY <1>10, <4>1, <5>2, <5>3 DEF Disagrees
                <5> QED
                    BY <5>4 DEF AccountsInv, UserKeyFollows
            <4> QED
                BY <4>2, <4>3
        <3> QED
            BY <1>0, <2>2, <3>2 DEF UserKeyFollows
    <2> QED
        BY <1>5, <2>1, <2>2
<1>15. orphaned' \subseteq Orders
    BY <1>0, <1>4
<1> QED
    BY <1>0, <1>8, <1>13, <1>14, <1>15, Answered DEF AccountsInv, TypeOK, TablesFit

LEMMA HardDeleteKeeps ==
    ASSUME AccountsAssumption, AccountsInv, NEW a \in AccountIDs, HardDelete(a)
    PROVE  AccountsInv'
<1> USE AccountsAssumption
<1>0. /\ orders \in [Orders -> OrderRow] /\ Exists(a)
      /\ UNCHANGED <<trace, profiles, job, orphaned, misnamed, mix>>
    BY DEF AccountsInv, TypeOK, HardDelete
<1>1. Removed \in 0 .. Removed /\ Removed # 0 /\ Removed \notin AccountIDs
    BY DEF AccountIDs, Removed, AccountsAssumption
<1>2. /\ cards' = Move(cards, a, Removed) /\ transactions' = Move(transactions, a, Removed)
      /\ accounts' = IF Exists(a) THEN [accounts EXCEPT ![a].state = "gone"] ELSE accounts
    BY <1>0 DEF HardDelete, Erased
<1>3. ASSUME NEW o \in Orders
      PROVE  /\ orders'[o] \in OrderRow /\ orders'[o].card = orders[o].card
             /\ orders'[o].userkey = orders[o].userkey
             /\ orders'[o].account = IF orders[o].account = a THEN Removed
                                     ELSE orders[o].account
    <2>1. PICK row \in OrderRow : row = orders[o]
        BY <1>0
    <2>2. PICK x \in 0 .. Removed : x = IF row.account = a THEN Removed ELSE row.account
        BY <1>1 DEF OrderRow
    <2>3. orders'[o] = [row EXCEPT !.account = x]
        BY <2>1, <2>2 DEF HardDelete, Erased, Move
    <2> QED
        BY <2>1, <2>2, <2>3 DEF OrderRow
<1>4. orders' \in [Orders -> OrderRow]
    BY <1>3 DEF HardDelete
<1>5. \A x \in AccountIDs : Exists(x) /\ x # a => Exists(x)'
    BY <1>2 DEF Exists, AccountsInv, TypeOK
<1>6. ASSUME NEW o \in Orders, OrderExists(o)'
      PROVE  Exists(orders[o].account)' \/ o \in orphaned'
    <2>1. PICK x : x = orders[o].account
        OBVIOUS
    <2>2. x # a /\ OrderExists(o) /\ orders'[o].account = x
        BY <1>3, <1>6, <2>1 DEF OrderExists
    <2>3. Exists(x) \/ o \in orphaned
        BY <2>1, <2>2 DEF AccountsInv, RowsOfOneAccount
    <2>4. Exists(x) => Exists(x)'
        BY <1>5, <2>2 DEF Exists
    <2> QED
        BY <1>0, <2>2, <2>3, <2>4 DEF Exists
<1>7. Known(a)
    BY <1>0 DEF Known, Exists
<1>8. \A o \in Orders :
         /\ orders'[o].account = IF orders[o].account = a THEN Removed ELSE orders[o].account
         /\ orders'[o].card = orders[o].card
         /\ orders[o].userkey = NoKey => orders'[o].userkey = NoKey
    BY <1>3
<1>9. /\ accounts' \in [AccountIDs -> AccountRow]
      /\ cards' \in [Cards -> 0 .. Removed] /\ transactions' \in [Orders -> 0 .. Removed]
      /\ Steady /\ RowsFit' /\ OneAccountPerKey' /\ RowsOfOneAccount'
      /\ \A x \in AccountIDs : accounts'[x].key = accounts[x].key
                               /\ (Exists(x)' <=> Exists(x) /\ x # a)
    <2>1. \A o \in Orders : OrderExists(o)' => Exists(orders[o].account)' \/ o \in orphaned'
        BY <1>6
    <2>2. Removed \in AccountIDs => Known(Removed)
        BY <1>1
    <2>3. UNCHANGED trace
        BY <1>0
    <2> QED
        BY <1>1, <1>2, <1>7, <1>8, <2>1, <2>2, <2>3, AccountGoes
<1>10. UserKeyFollows'
    <2>1. ASSUME NEW o \in Orders, Disagrees(o)'
          PROVE  o \in misnamed
        <3>1. PICK x \in AccountIDs : x = orders'[o].account
            BY <2>1 DEF Disagrees, Exists
        <3>2. x = orders[o].account
            BY <1>1, <1>3, <3>1
        <3>3. Disagrees(o)
            BY <1>3, <1>9, <2>1, <3>1, <3>2 DEF Disagrees, Exists
        <3> QED
            BY <3>3 DEF AccountsInv, UserKeyFollows
    <2> QED
        BY <1>0, <2>1 DEF UserKeyFollows
<1>11. JobsFit'
    BY <1>0, <1>9, SteadySame DEF AccountsInv, TypeOK
<1>12. TypeOK'
    BY <1>0, <1>4, <1>9 DEF AccountsInv, TypeOK
<1> QED
    BY <1>9, <1>10, <1>11, <1>12 DEF AccountsInv

-----------------------------------------------------------------------------
(* The renames, and the edits by staff.                                     *)

LEMMA RenameKeeps ==
    ASSUME AccountsAssumption, AccountsInv, NEW w \in Workers, NEW matches \in BOOLEAN,
           NEW old \in Keys, NEW new \in Keys, old = job[w].key, new = job[w].other,
           Rename(w, matches), UNCHANGED <<cards, transactions, orphaned>>,
           trace'.status # "none", trace'.old \in Keys, trace'.new \in Keys
    PROVE  /\ accounts' \in [AccountIDs -> AccountRow] /\ orders' \in [Orders -> OrderRow]
           /\ misnamed' \subseteq Orders /\ TablesFit' /\ Steady
<1>0. /\ accounts \in [AccountIDs -> AccountRow] /\ orders \in [Orders -> OrderRow]
      /\ misnamed \subseteq Orders /\ old # NoKey /\ new # NoKey
    BY DEF AccountsInv, TypeOK, AccountsAssumption
<1>a. PICK renamed : renamed = IF matches THEN WithKey(old) ELSE {}
    OBVIOUS
<1>b. PICK found : found = Found(w)
    OBVIOUS
<1>c. /\ renamed = {} \/ WithKey(new) = {}
      /\ accounts' = [a \in AccountIDs |->
            IF a \in renamed THEN [accounts[a] EXCEPT !.key = new] ELSE accounts[a]]
      /\ orders' = [o \in Orders |->
            IF o \in found THEN [orders[o] EXCEPT !.userkey = new] ELSE orders[o]]
      /\ IF renamed # {} THEN misnamed' = misnamed \cup Missed(w) ELSE MayPart
    BY <1>a, <1>b DEF Rename
<1>d. \A o \in found : o \in Orders /\ orders[o].userkey = old
    BY <1>b DEF Found
<1>e. \A b \in AccountIDs : b \in renamed => Exists(b) /\ accounts[b].key = old
    BY <1>a DEF WithKey
<1>f. renamed # {} => \A x \in AccountIDs : Exists(x) /\ accounts[x].key = old => x \in renamed
    BY <1>0, <1>a DEF WithKey
<1>1. ASSUME NEW a \in AccountIDs
      PROVE  /\ accounts'[a] \in AccountRow /\ accounts'[a].state = accounts[a].state
             /\ accounts'[a].key = IF a \in renamed THEN new ELSE accounts[a].key
    <2>1. PICK row \in AccountRow : row = accounts[a]
        BY <1>0
    <2>2. CASE a \in renamed
        <3>1. accounts'[a] = [row EXCEPT !.key = new]
            BY <1>c, <2>1, <2>2
        <3> QED
            BY <2>1, <2>2, <3>1 DEF AccountRow
    <2>3. CASE a \notin renamed
        BY <1>c, <2>1, <2>3
    <2> QED
        BY <2>2, <2>3
<1>2. accounts' \in [AccountIDs -> AccountRow]
    BY <1>1, <1>c
<1>3. ASSUME NEW o \in Orders
      PROVE  /\ orders'[o] \in OrderRow /\ orders'[o].account = orders[o].account
             /\ orders'[o].card = orders[o].card
             /\ orders'[o].userkey = IF o \in found THEN new ELSE orders[o].userkey
    <2>1. PICK row \in OrderRow : row = orders[o]
        BY <1>0
    <2>2. PICK u \in Keys \cup {NoKey} : u = IF o \in found THEN new ELSE row.userkey
        BY DEF OrderRow
    <2>3. [row EXCEPT !.userkey = row.userkey] = row
        BY DEF OrderRow
    <2>4. orders'[o] = [row EXCEPT !.userkey = u]
        BY <1>c, <2>1, <2>2, <2>3
    <2> QED
        BY <2>1, <2>2, <2>4 DEF OrderRow
<1>4. orders' \in [Orders -> OrderRow]
    BY <1>3, <1>c
<1>5. \A a \in AccountIDs : (Known(a)' <=> Known(a)) /\ (Exists(a)' <=> Exists(a))
    BY <1>1 DEF Known, Exists
<1>6. Steady
    BY <1>3, <1>5 DEF Steady, Known
<1>7. RowsFit'
    <2>1. ASSUME NEW o \in Orders, orders'[o].account \in AccountIDs
          PROVE  Known(orders[o].account)'
        <3>1. PICK x \in AccountIDs : x = orders'[o].account
            BY <2>1
        <3>2. Known(x)
            BY <1>3, <3>1 DEF AccountsInv, RowsFit
        <3>3. Known(x)'
            BY <1>5, <3>2
        <3> QED
            BY <3>1, <3>3 DEF Known
    <2>2. \A o \in Orders : orders'[o].account = 0 =>
             orders'[o].card = NoCard /\ orders'[o].userkey = NoKey /\ transactions'[o] = 0
        BY <1>0, <1>3, <1>d DEF AccountsInv, RowsFit
    <2> QED
        BY <2>1, <2>2 DEF RowsFit
<1>8. OneAccountPerKey'
    <2>1. \A b, c \in AccountIDs :
             Exists(b) /\ Exists(c) /\ accounts[c].key = accounts[b].key
             /\ accounts[b].key # NoKey => b = c
        BY DEF AccountsInv, OneAccountPerKey, WithKey
    <2>2. \A b, c \in AccountIDs : b \in renamed /\ c \in renamed => b = c
        BY <1>0, <1>e, <2>1
    <2>3. renamed # {} => \A b \in AccountIDs : Exists(b) => accounts[b].key # new
        BY <1>0, <1>c DEF WithKey
    <2>4. ASSUME NEW b \in AccountIDs, NEW c \in AccountIDs, Exists(b)', Exists(c)',
                 accounts'[c].key = accounts'[b].key, accounts'[b].key # NoKey
          PROVE  b = c
        <3>1. Exists(b) /\ Exists(c)
            BY <1>5, <2>4
        <3>2. CASE b \in renamed /\ c \in renamed
            BY <2>2, <3>2
        <3>3. CASE b \in renamed /\ c \notin renamed
            BY <1>1, <2>3, <2>4, <3>1, <3>3
        <3>4. CASE b \notin renamed /\ c \in renamed
            BY <1>1, <2>3, <2>4, <3>1, <3>4
        <3>5. CASE b \notin renamed /\ c \notin renamed
            BY <1>1, <2>1, <2>4, <3>1, <3>5
        <3> QED
            BY <3>2, <3>3, <3>4, <3>5
    <2>5. \A b, c \in AccountIDs :
             Exists(b)' /\ Exists(c)' /\ accounts'[c].key = accounts'[b].key
             /\ accounts'[b].key # NoKey => b = c
        BY <2>4
    <2> QED
        BY <2>5 DEF OneAccountPerKey, WithKey
<1>9. RowsOfOneAccount'
    <2> SUFFICES ASSUME NEW o \in Orders, OrderExists(o)'
                 PROVE  /\ Exists(orders[o].account)' \/ o \in orphaned'
                        /\ orders'[o].card # NoCard =>
                              cards'[orders'[o].card] = orders'[o].account
                        /\ transactions'[o] # 0 => transactions'[o] = orders'[o].account
        BY DEF RowsOfOneAccount
    <2>1. PICK x : x = orders[o].account
        OBVIOUS
    <2>2. OrderExists(o) /\ orders'[o].account = x
        BY <1>3, <2>1 DEF OrderExists
    <2>3. Exists(x) => Exists(x)'
        BY <1>5 DEF Exists
    <2> QED
        BY <1>3, <2>1, <2>2, <2>3 DEF AccountsInv, RowsOfOneAccount, Exists
<1>10. UserKeyFollows' /\ misnamed' \subseteq Orders
    <2>1. CASE MayPart
        BY <1>0, <2>1 DEF MayPart, UserKeyFollows
    <2>2. CASE renamed # {} /\ misnamed' = misnamed \cup Missed(w)
        <3>1. ASSUME NEW o \in Orders, Disagrees(o)'
              PROVE  o \in misnamed'
            <4>1. PICK x \in AccountIDs : x = orders[o].account
                BY <1>3, <3>1 DEF Disagrees, Exists
            <4>2. /\ Exists(x) /\ orders'[o].userkey # accounts'[x].key
                  /\ orders'[o].userkey # NoKey
                BY <1>3, <1>5, <3>1, <4>1 DEF Disagrees
            <4>3. CASE orders[o].userkey = accounts[x].key
                <5>1. x \in renamed /\ o \notin found
                    BY <1>1, <1>3, <1>d, <1>e, <1>f, <2>2, <4>1, <4>2, <4>3
                <5>2. orders[o].userkey = old /\ x \in WithKey(old)
                    BY <1>a, <1>e, <4>3, <5>1
                <5> QED
                    BY <1>b, <2>2, <4>1, <5>1, <5>2 DEF Missed
            <4>4. CASE orders[o].userkey # accounts[x].key
                <5>1. orders[o].userkey # NoKey
                    BY <1>0, <1>3, <1>d, <4>2
                <5>2. Disagrees(o)
                    BY <4>1, <4>2, <4>4, <5>1 DEF Disagrees
                <5> QED
                    BY <2>2, <5>2 DEF AccountsInv, UserKeyFollows
            <4> QED
                BY <4>3, <4>4
        <3>2. Missed(w) \subseteq Orders
            BY DEF Missed
        <3> QED
            BY <1>0, <2>2, <3>1, <3>2 DEF UserKeyFollows
    <2> QED
        BY <1>c, <2>1, <2>2
<1> QED
    BY <1>2, <1>4, <1>6, <1>7, <1>8, <1>9, <1>10 DEF TablesFit

LEMMA PerformKeeps ==
    ASSUME AccountsAssumption, AccountsInv, NEW w \in Workers, NEW matches \in BOOLEAN,
           PerformOperation(w, matches)
    PROVE  AccountsInv'
<1>0. /\ job[w].at = "commit" /\ Answer(w)
      /\ UNCHANGED <<cards, transactions, profiles, orphaned, mix>>
    BY DEF PerformOperation, At
<1>1. PICK old \in Keys, new \in Keys : old = job[w].key /\ new = job[w].other
    BY <1>0 DEF AccountsInv, JobsFit, Fits
<1>2. CASE /\ Rename(w, matches)
           /\ trace' = [old |-> job[w].key, new |-> job[w].other, status |-> "success"]
    <2>1. /\ trace'.old = old /\ trace'.new = new /\ trace'.status = "success"
          /\ trace' \in [old : Keys \cup {NoKey}, new : Keys \cup {NoKey},
                         status : {"none", "success", "reverted"}]
        BY <1>1, <1>2
    <2>2. /\ accounts' \in [AccountIDs -> AccountRow] /\ orders' \in [Orders -> OrderRow]
          /\ misnamed' \subseteq Orders /\ TablesFit' /\ Steady
        BY <1>0, <1>1, <1>2, <2>1, RenameKeeps
    <2> QED
        BY <1>0, <2>1, <2>2, Answered DEF AccountsInv, TypeOK
<1>3. CASE UNCHANGED <<accounts, orders, trace, misnamed>>
    BY <1>0, <1>3, IdleFits, QuietStep DEF Quiet, tables, Answer
<1> QED
    BY <1>2, <1>3 DEF PerformOperation, Refused

LEMMA RevertKeeps ==
    ASSUME AccountsAssumption, AccountsInv, NEW w \in Workers, NEW matches \in BOOLEAN,
           RevertOperation(w, matches)
    PROVE  AccountsInv'
<1>0. /\ job[w].op = "revert" /\ job[w].at = "commit" /\ Answer(w)
      /\ UNCHANGED <<cards, transactions, profiles, orphaned, mix>>
    BY DEF RevertOperation, At
<1>1. PICK old \in Keys, new \in Keys : old = job[w].key /\ new = job[w].other
    BY <1>0 DEF AccountsInv, JobsFit, Fits
<1>2. CASE Rename(w, matches) /\ trace' = [trace EXCEPT !.status = "reverted"]
    <2>2. trace \in [old : Keys \cup {NoKey}, new : Keys \cup {NoKey},
                     status : {"none", "success", "reverted"}]
        BY DEF AccountsInv, TypeOK
    <2>3. /\ trace' \in [old : Keys \cup {NoKey}, new : Keys \cup {NoKey},
                         status : {"none", "success", "reverted"}]
          /\ trace'.old = trace.old /\ trace'.new = trace.new
        BY <1>2, <2>2
    <2>4. trace.status # "none"
        BY <1>0 DEF AccountsInv, JobsFit, Fits
    <2>5. trace'.status # "none" /\ trace'.old \in Keys /\ trace'.new \in Keys
        BY <1>2, <2>2, <2>3, <2>4 DEF AccountsInv, RowsFit
    <2>6. /\ accounts' \in [AccountIDs -> AccountRow] /\ orders' \in [Orders -> OrderRow]
          /\ misnamed' \subseteq Orders /\ TablesFit' /\ Steady
        BY <1>0, <1>1, <1>2, <2>5, RenameKeeps
    <2> QED
        BY <1>0, <2>3, <2>6, Answered DEF AccountsInv, TypeOK
<1>3. CASE UNCHANGED <<accounts, orders, trace, misnamed>>
    BY <1>0, <1>3, IdleFits, QuietStep DEF Quiet, tables, Answer
<1> QED
    BY <1>2, <1>3 DEF RevertOperation, Refused

LEMMA CreateAccountKeeps ==
    ASSUME AccountsAssumption, AccountsInv, NEW k \in Keys, CreateAccount(k)
    PROVE  AccountsInv'
<1>1. PICK a \in AccountIDs : Insert(a, k, 0)
    BY DEF CreateAccount
<1>2. accounts' \in [AccountIDs -> AccountRow] /\ TablesFit' /\ Steady
    BY <1>1, InsertKeeps DEF CreateAccount
<1>3. JobsFit' /\ TypeOK'
    BY <1>2, SteadySame DEF AccountsInv, TypeOK, CreateAccount
<1> QED
    BY <1>2, <1>3 DEF AccountsInv, TablesFit

LEMMA StaffPatchKeeps ==
    ASSUME AccountsAssumption, AccountsInv, NEW a \in AccountIDs, NEW k \in Keys \cup {NoKey},
           Patched(a, k, 0),
           UNCHANGED <<cards, transactions, trace, profiles, job, orphaned, mix>>
    PROVE  AccountsInv'
<1>1. /\ accounts' \in [AccountIDs -> AccountRow] /\ misnamed' \subseteq Orders
      /\ TablesFit' /\ Steady
    BY PatchKeeps
<1>2. JobsFit' /\ TypeOK'
    BY <1>1, SteadySame DEF AccountsInv, TypeOK, Patched
<1> QED
    BY <1>1, <1>2 DEF AccountsInv, TablesFit

LEMMA StaffDeleteKeeps ==
    ASSUME AccountsAssumption, AccountsInv, NEW a \in AccountIDs, DeleteByStaff(a)
    PROVE  AccountsInv'
<1>1. accounts' \in [AccountIDs -> AccountRow] /\ TablesFit' /\ Steady
    BY SoftDeleteKeeps DEF DeleteByStaff
<1>2. JobsFit' /\ TypeOK'
    BY <1>1, SteadySame DEF AccountsInv, TypeOK, DeleteByStaff
<1> QED
    BY <1>1, <1>2 DEF AccountsInv, TablesFit

LEMMA StaffKeeps ==
    ASSUME AccountsAssumption, AccountsInv, Staff
    PROVE  AccountsInv'
<1>1. ASSUME NEW a \in AccountIDs, HardDelete(a) \/ DeleteByStaff(a) \/ ForgetKey(a)
      PROVE  AccountsInv'
    BY <1>1, HardDeleteKeeps, StaffDeleteKeeps, StaffPatchKeeps DEF ForgetKey
<1>3. ASSUME NEW k \in Keys, CreateAccount(k)
      PROVE  AccountsInv'
    BY <1>3, CreateAccountKeeps
<1>4. ASSUME NEW a \in AccountIDs, NEW k \in Keys, PatchByStaff(a, k)
      PROVE  AccountsInv'
    BY <1>4, StaffPatchKeeps DEF PatchByStaff
<1> QED
    BY <1>1, <1>3, <1>4 DEF Staff

LEMMA FindKeeps ==
    ASSUME AccountsAssumption, AccountsInv, NEW w \in Workers, FindAccount(w)
    PROVE  AccountsInv'
    BY LookupKeeps, ProfileKeeps, CreateKeeps, LookupAgainKeeps DEF FindAccount

LEMMA StepKeeps ==
    ASSUME AccountsAssumption, AccountsInv, NEW w \in Workers, Step(w)
    PROVE  AccountsInv'
    BY FindKeeps, InsertOrderKeeps, InsertTransactionKeeps, CreateCardKeeps, AttachCardKeeps,
       DestinationKeeps, MergeKeeps, FindOrdersKeeps, RefreshKeeps, PerformKeeps, RevertKeeps
    DEF Step

(* Every step of the requests and of the staff.                             *)
LEMMA NextKeeps ==
    ASSUME AccountsAssumption, AccountsInv, Next
    PROVE  AccountsInv'
    BY StaffKeeps, StepKeeps, RequestKeeps DEF Next

-----------------------------------------------------------------------------
(* The events.                                                              *)

LEMMA InitFits ==
    ASSUME AccountsAssumption, Init
    PROVE  AccountsInv
<1>1. TypeOK
    <2>1. accounts \in [AccountIDs -> AccountRow]
        BY DEF Init, AccountsAssumption
    <2>2. orders \in [Orders -> OrderRow] /\ cards \in [Cards -> 0 .. Removed]
          /\ transactions \in [Orders -> 0 .. Removed]
        BY DEF Init, OrderRow, Removed, AccountsAssumption
    <2>3. trace \in [old : Keys \cup {NoKey}, new : Keys \cup {NoKey},
                     status : {"none", "success", "reverted"}]
        BY DEF Init, NoTrace
    <2>4. profiles \in [Keys -> Nat] /\ job \in [Workers -> Job] /\ mix \in Mixes
          /\ orphaned \cup misnamed \subseteq Orders
        BY IdleFits DEF Init
    <2> QED
        BY <2>1, <2>2, <2>3, <2>4 DEF TypeOK
<1>2. JobsFit
    BY IdleFits DEF Init, JobsFit
<1>3. 0 \notin AccountIDs
    BY DEF AccountIDs
<1>4. RowsFit
    BY <1>3 DEF Init, RowsFit, NoTrace
<1>5. OneAccountPerKey
    BY DEF Init, OneAccountPerKey, WithKey, Exists, AccountsAssumption
<1>6. RowsOfOneAccount /\ UserKeyFollows
    BY <1>3 DEF Init, RowsOfOneAccount, OrderExists, UserKeyFollows, Disagrees, Exists
<1> QED
    BY <1>1, <1>2, <1>4, <1>5, <1>6 DEF AccountsInv

(* No request and no edit touches the consumer's handler.                   *)
LEMMA OthersLeaveConsumer ==
    ASSUME AccountsAssumption, AccountsInv, Next
    PROVE  job'[Consumer] = job[Consumer]
<1>0. job \in [Workers -> Job] /\ Consumer \in Workers
    BY DEF AccountsInv, TypeOK, AccountsAssumption
<1>1. CASE Staff
    BY <1>1 DEF Staff, HardDelete, DeleteByStaff, ForgetKey, CreateAccount, PatchByStaff
<1>2. ASSUME NEW w \in Workers \ {Consumer}, Request(w)
      PROVE  job'[Consumer] = job[Consumer]
    BY <1>0, <1>2 DEF Request, BeginCheckout, BeginOffline, BeginToken, BeginMerge, ReadTrace,
                      BeginRename, BeginRefresh, Cut, Begin, Answer
<1>3. ASSUME NEW w \in Workers \ {Consumer}, FindAccount(w)
      PROVE  job'[Consumer] = job[Consumer]
    BY <1>0, <1>3 DEF FindAccount, GetAccountIDByKeycloakID, LookupProfile, createAccountForKey,
                      LookupAgain, AfterConflict, Proceed, Goto, Answer
<1>4. ASSUME NEW w \in Workers \ {Consumer}, Step(w)
      PROVE  job'[Consumer] = job[Consumer]
    BY <1>0, <1>3, <1>4 DEF Step, InsertOrder, InsertTransaction, CreateCardDetails, AttachCard,
                            ReadDestination, Merge, FindOrders, PerformOperation,
                            RevertOperation, UpdateOrdersUserKeyFromAccounts, Answer
<1> QED
    BY <1>1, <1>2, <1>4 DEF Next

(* The consumer's handler keeps its event, or is done with it.              *)
LEMMA HandlerKeepsEvent ==
    ASSUME AccountsAssumption, AccountsInv, FollowProfile(Consumer)
    PROVE  job'[Consumer] = IdleJob \/ (job'[Consumer].op = job[Consumer].op
                                        /\ job'[Consumer].key = job[Consumer].key)
<1>0. job \in [Workers -> Job] /\ Consumer \in Workers
    BY DEF AccountsInv, TypeOK, AccountsAssumption
<1>1. PICK h \in Job : h = job[Consumer]
    BY <1>0
<1>2. CASE Answer(Consumer)
    BY <1>0, <1>2 DEF Answer
<1>3. ASSUME NEW at, Goto(Consumer, at)
      PROVE  job'[Consumer].op = h.op /\ job'[Consumer].key = h.key
    <2>1. job'[Consumer] = [h EXCEPT !.at = at]
        BY <1>0, <1>1, <1>3 DEF Goto
    <2> QED
        BY <2>1 DEF Job
<1>4. ASSUME NEW a, NEW created, Proceed(Consumer, a, created)
      PROVE  job'[Consumer] = IdleJob
             \/ (job'[Consumer].op = h.op /\ job'[Consumer].key = h.key)
    <2>1. PICK at : job'[Consumer] = IdleJob
                    \/ job'[Consumer] = [h EXCEPT !.at = at, !.account = a]
        BY <1>0, <1>1, <1>4 DEF Proceed
    <2> QED
        BY <2>1 DEF Job
<1>5. CASE LookupProfile(Consumer)
    <2>1. CASE Answer(Consumer)
        BY <1>2, <2>1
    <2>2. ASSUME NEW at, NEW d, job' = [job EXCEPT ![Consumer].data = d, ![Consumer].at = at]
          PROVE  job'[Consumer].op = h.op /\ job'[Consumer].key = h.key
        <3>1. job'[Consumer] = [h EXCEPT !.data = d, !.at = at]
            BY <1>0, <1>1, <2>2
        <3> QED
            BY <3>1 DEF Job
    <2> QED
        BY <1>1, <1>5, <2>1, <2>2 DEF LookupProfile
<1>6. CASE GetAccountIDByKeycloakID(Consumer)
    BY <1>1, <1>2, <1>3, <1>4, <1>6 DEF GetAccountIDByKeycloakID
<1>7. CASE createAccountForKey(Consumer)
    BY <1>1, <1>3, <1>4, <1>7 DEF createAccountForKey
<1>8. CASE LookupAgain(Consumer)
    BY <1>1, <1>2, <1>4, <1>8 DEF LookupAgain, AfterConflict
<1>9. CASE PatchAccount(Consumer) \/ SoftDeleteAccount(Consumer)
    BY <1>2, <1>9 DEF PatchAccount, SoftDeleteAccount
<1> QED
    BY <1>5, <1>6, <1>7, <1>8, <1>9 DEF FollowProfile, FindAccount

LEMMA EventsInitFits ==
    ASSUME AccountsAssumption, EventsAssumption, EventsInit
    PROVE  EventsInv
<1>1. AccountsInv
    BY InitFits DEF EventsInit
<1>2. EventsTypeOK
    <2>1. <<>> \in Seq(Event) /\ Len(<<>>) = 0
        OBVIOUS
    <2>2. stream \in Seq(Event) /\ queue \in Seq(Event) /\ Len(queue) = 0
        BY <2>1 DEF EventsInit
    <2>3. Len(queue) <= Capacity /\ again \in 0 .. MaxDeliveries /\ restarts \in 0 .. MaxRestarts
        BY <2>2 DEF EventsInit, EventsAssumption
    <2>4. delivered \in BOOLEAN /\ erased \cup told \cup missed \subseteq Keys
        BY DEF EventsInit
    <2> QED
        BY <1>1, <2>2, <2>3, <2>4 DEF EventsTypeOK, AccountsInv
<1>3. ConsumerKeyed
    BY DEF EventsInit, Init, ConsumerKeyed, IdleJob, AccountsAssumption
<1> QED
    BY <1>1, <1>2, <1>3 DEF EventsInv, EventsInit

LEMMA ChangeKeeps ==
    ASSUME AccountsAssumption, EventsAssumption, EventsInv,
           NEW k \in Keys, NEW version \in Nat, NEW type \in {"create", "update", "delete"},
           ChangeProfile(k, version, type), erased' \subseteq Keys
    PROVE  EventsInv'
<1>1. Quiet /\ job' = job /\ profiles' \in [Keys -> Nat]
    BY DEF ChangeProfile, Quiet, EventsInv, AccountsInv, TypeOK
<1>2. JobsFit'
    BY <1>1, QuietSteady, SteadySame DEF EventsInv, AccountsInv, TypeOK
<1>3. AccountsInv'
    BY <1>1, <1>2, QuietTables DEF EventsInv, AccountsInv, TypeOK
<1>4. [type |-> type, key |-> k] \in Event
    BY DEF Event
<1>5. stream \in Seq(Event)
    BY DEF EventsInv, EventsTypeOK
<1>6. stream' \in Seq(Event) /\ stream' # <<>>
    BY <1>4, <1>5 DEF ChangeProfile
<1>7. EventsTypeOK'
    BY <1>3, <1>6 DEF EventsInv, EventsTypeOK, ChangeProfile, AccountsInv
<1> QED
    BY <1>1, <1>3, <1>6, <1>7 DEF EventsInv, ConsumerKeyed

LEMMA ProfilesKeep ==
    ASSUME AccountsAssumption, EventsAssumption, EventsInv, NEW k \in Keys,
           CreateProfile(k) \/ UpdateProfile(k) \/ DeleteProfile(k)
    PROVE  EventsInv'
<1>0. erased \subseteq Keys /\ profiles[k] \in Nat
    BY DEF EventsInv, EventsTypeOK, TypeOK
<1>1. CASE CreateProfile(k)
    BY <1>0, <1>1, ChangeKeeps DEF CreateProfile
<1>2. CASE UpdateProfile(k)
    BY <1>0, <1>2, ChangeKeeps DEF UpdateProfile
<1>3. CASE DeleteProfile(k)
    BY <1>0, <1>3, ChangeKeeps DEF DeleteProfile
<1> QED
    BY <1>1, <1>2, <1>3

(* The listener's steps leave the tables and the handlers alone.            *)
LEMMA ListenerKeeps ==
    ASSUME AccountsAssumption, EventsAssumption, EventsInv, Enqueue \/ Ack \/ Redeliver
    PROVE  EventsInv'
<1>0. /\ stream \in Seq(Event) /\ queue \in Seq(Event) /\ Len(queue) <= Capacity
      /\ again \in 0 .. MaxDeliveries /\ Capacity \in Nat /\ MaxDeliveries \in Nat
      /\ delivered => stream # <<>>
    BY DEF EventsInv, EventsTypeOK, EventsAssumption
<1>1. UNCHANGED vars /\ UNCHANGED <<restarts, erased, told, missed>>
    BY DEF Enqueue, Ack, Redeliver
<1>2. AccountsInv'
    <2>1. Quiet /\ job' = job /\ profiles' \in [Keys -> Nat]
        BY <1>1 DEF vars, Quiet, EventsInv, AccountsInv, TypeOK
    <2>2. JobsFit'
        BY <2>1, QuietSteady, SteadySame DEF EventsInv, AccountsInv, TypeOK
    <2> QED
        BY <2>1, <2>2, QuietTables DEF EventsInv, AccountsInv, TypeOK
<1>3. ConsumerKeyed'
    BY <1>1 DEF vars, EventsInv, ConsumerKeyed
<1>4. /\ stream' \in Seq(Event) /\ delivered' \in BOOLEAN
      /\ queue' \in Seq(Event) /\ Len(queue') <= Capacity /\ again' \in 0 .. MaxDeliveries
      /\ delivered' => stream' # <<>>
    <2>1. CASE Enqueue
        <3>1. Head(stream) \in Event
            BY <1>0, <2>1 DEF Enqueue
        <3> QED
            BY <1>0, <2>1, <3>1 DEF Enqueue
    <2>2. CASE Ack
        <3>1. stream' = Tail(stream) /\ delivered' = FALSE /\ UNCHANGED <<queue, again>>
              /\ stream # <<>>
            BY <1>0, <2>2 DEF Ack
        <3>2. Tail(stream) \in Seq(Event)
            BY <1>0, <3>1
        <3> QED
            BY <1>0, <3>1, <3>2
    <2>3. CASE Redeliver
        <3>1. stream # <<>>
            BY <1>0, <2>3 DEF Redeliver
        <3>2. Head(stream) \in Event /\ Tail(stream) \in Seq(Event)
            BY <1>0, <3>1
        <3>3. Append(Tail(stream), Head(stream)) \in Seq(Event)
            BY <3>2
        <3>4. /\ stream' = Append(Tail(stream), Head(stream)) /\ delivered' = FALSE
              /\ queue' = queue /\ again < MaxDeliveries /\ again' = again + 1
            BY <2>3 DEF Redeliver
        <3>5. again' \in 0 .. MaxDeliveries
            BY <1>0, <3>4
        <3> QED
            BY <1>0, <3>3, <3>4, <3>5
    <2> QED
        BY <2>1, <2>2, <2>3
<1>5. EventsTypeOK'
    BY <1>1, <1>2, <1>4 DEF EventsInv, EventsTypeOK, AccountsInv
<1> QED
    BY <1>2, <1>3, <1>4, <1>5 DEF EventsInv

LEMMA RestartKeeps ==
    ASSUME AccountsAssumption, EventsAssumption, EventsInv, Restart
    PROVE  EventsInv'
<1>0. queue \in Seq(Event) /\ restarts \in 0 .. MaxRestarts /\ MaxRestarts \in Nat
      /\ missed \subseteq Keys /\ job \in [Workers -> Job]
    BY DEF EventsInv, EventsTypeOK, EventsAssumption, TypeOK
<1>1. Quiet /\ UNCHANGED profiles /\ job' = [v \in Workers |-> IdleJob]
    BY DEF Restart, Quiet
<1>2. job' \in [Workers -> Job] /\ JobsFit'
    <2>1. job' \in [Workers -> Job]
        BY <1>1, IdleFits
    <2>2. \A v \in Workers : Fits(job[v])'
        BY <1>1, IdleFits DEF Fits, Holds, Known, Exists
    <2> QED
        BY <2>1, <2>2 DEF JobsFit
<1>3. AccountsInv'
    BY <1>1, <1>2, QuietTables DEF EventsInv, AccountsInv, TypeOK
<1>4. \A i \in 1 .. Len(queue) : queue[i].key \in Keys
    <2>1. \A i \in 1 .. Len(queue) : queue[i] \in Event
        BY <1>0
    <2> QED
        BY <2>1 DEF Event
<1>5. missed' \subseteq Keys /\ restarts' \in 0 .. MaxRestarts
    BY <1>0, <1>4 DEF Restart
<1>6. queue' = <<>> /\ delivered' = FALSE
    BY DEF Restart
<1>7. EventsTypeOK'
    <2>1. <<>> \in Seq(Event) /\ Len(<<>>) = 0
        OBVIOUS
    <2>2. queue' \in Seq(Event) /\ Len(queue') = 0
        BY <1>6, <2>1
    <2>3. Len(queue') <= Capacity
        BY <2>2 DEF EventsAssumption
    <2> QED
        BY <1>3, <1>5, <1>6, <2>2, <2>3 DEF EventsInv, EventsTypeOK, AccountsInv, Restart
<1>8. ConsumerKeyed'
    BY <1>1 DEF ConsumerKeyed, IdleJob, AccountsAssumption
<1> QED
    BY <1>3, <1>6, <1>7, <1>8 DEF EventsInv

LEMMA TakeKeeps ==
    ASSUME AccountsAssumption, EventsAssumption, EventsInv, HandleProfilesEvent
    PROVE  EventsInv'
<1>0. queue \in Seq(Event) /\ queue # <<>> /\ Consumer \in Workers /\ Len(queue) <= Capacity
      /\ job \in [Workers -> Job]
    BY DEF EventsInv, EventsTypeOK, TypeOK, HandleProfilesEvent, AccountsAssumption
<1>1. PICK type \in {"create", "update", "delete"}, k \in Keys :
         Head(queue).type = type /\ Head(queue).key = k
    <2>1. Head(queue) \in Event
        BY <1>0
    <2> QED
        BY <2>1 DEF Event
<1>2. PICK at \in {"read", "lookup"} : at = IF type = "update" THEN "read" ELSE "lookup"
    OBVIOUS
<1>3. PICK j : j = [IdleJob EXCEPT !.op = type, !.key = k, !.at = at]
    OBVIOUS
<1>4. j \in Job /\ j.op = type /\ j.key = k /\ j.at = at
    BY <1>3, IdleFits DEF Job, IdleJob
<1>5. job' = [job EXCEPT ![Consumer] = j]
    BY <1>1, <1>2, <1>3 DEF HandleProfilesEvent
<1>6. Fits(j)
    BY <1>4 DEF Fits
<1>7. AccountsInv'
    BY <1>0, <1>4, <1>5, <1>6, QuietStep DEF EventsInv, HandleProfilesEvent, Quiet
<1>8. queue' \in Seq(Event) /\ Len(queue') <= Capacity
    BY <1>0 DEF HandleProfilesEvent, EventsAssumption
<1>9. EventsTypeOK'
    BY <1>7, <1>8 DEF EventsInv, EventsTypeOK, AccountsInv, HandleProfilesEvent
<1>10. ConsumerKeyed'
    BY <1>0, <1>4, <1>5 DEF ConsumerKeyed
<1> QED
    BY <1>7, <1>9, <1>10 DEF EventsInv, HandleProfilesEvent

LEMMA DropKeeps ==
    ASSUME AccountsAssumption, EventsAssumption, EventsInv, Drop
    PROVE  EventsInv'
<1>0. Consumer \in Workers /\ job \in [Workers -> Job]
    BY DEF EventsInv, EventsTypeOK, TypeOK, AccountsAssumption
<1>1. AccountsInv'
    BY <1>0, IdleFits, QuietStep DEF EventsInv, Drop, Dropped, Quiet
<1>2. missed' \subseteq Keys
    BY DEF EventsInv, EventsTypeOK, ConsumerKeyed, Drop
<1>3. EventsTypeOK'
    BY <1>1, <1>2 DEF EventsInv, EventsTypeOK, AccountsInv, Drop
<1>4. ConsumerKeyed'
    BY <1>0 DEF Drop, Dropped, ConsumerKeyed, IdleJob
<1> QED
    BY <1>1, <1>3, <1>4 DEF EventsInv, Drop

LEMMA HandleKeeps ==
    ASSUME AccountsAssumption, EventsAssumption, EventsInv, Handle
    PROVE  EventsInv'
<1>0. Consumer \in Workers
    BY DEF AccountsAssumption
<1>1. AccountsInv'
    BY <1>0, FindKeeps, PatchAccountKeeps, SoftDeleteAccountKeeps
       DEF EventsInv, Handle, FollowProfile
<1>2. ConsumerKeyed'
    BY HandlerKeepsEvent DEF EventsInv, Handle, ConsumerKeyed, IdleJob
<1>3. EventsTypeOK'
    BY <1>1 DEF EventsInv, EventsTypeOK, AccountsInv, Handle, service
<1> QED
    BY <1>1, <1>2, <1>3 DEF EventsInv, Handle, service

LEMMA OthersKeep ==
    ASSUME AccountsAssumption, EventsAssumption, EventsInv, Others
    PROVE  EventsInv'
<1>1. AccountsInv'
    BY NextKeeps DEF EventsInv, Others
<1>2. ConsumerKeyed'
    BY OthersLeaveConsumer DEF EventsInv, Others, ConsumerKeyed
<1>3. missed' \subseteq Keys
    BY DEF EventsInv, EventsTypeOK, Others
<1>4. EventsTypeOK'
    BY <1>1, <1>3 DEF EventsInv, EventsTypeOK, AccountsInv, Others
<1> QED
    BY <1>1, <1>2, <1>4 DEF EventsInv, Others

LEMMA EventsInvariant == EventsSpec => []EventsInv
<1>1. EventsInit => EventsInv
    BY AccountsAssumption, EventsAssumption, EventsInitFits
<1>2. EventsInv /\ [EventsNext]_eventVars => EventsInv'
    <2> SUFFICES ASSUME EventsInv, [EventsNext]_eventVars
                 PROVE  EventsInv'
        OBVIOUS
    <2> USE AccountsAssumption, EventsAssumption
    <2>1. CASE UNCHANGED eventVars
        <3>1. UNCHANGED <<vars, service>>
            BY <2>1 DEF eventVars
        <3>2. AccountsInv'
            <4>1. Quiet /\ job' = job /\ profiles' \in [Keys -> Nat]
                BY <3>1 DEF vars, Quiet, EventsInv, AccountsInv, TypeOK
            <4>2. JobsFit'
                BY <4>1, QuietSteady, SteadySame DEF EventsInv, AccountsInv, TypeOK
            <4> QED
                BY <4>1, <4>2, QuietTables DEF EventsInv, AccountsInv, TypeOK
        <3>3. EventsTypeOK'
            BY <3>1, <3>2 DEF service, EventsInv, EventsTypeOK, AccountsInv
        <3> QED
            BY <3>1, <3>2, <3>3 DEF vars, service, EventsInv, ConsumerKeyed
    <2>2. CASE EventsNext
        <3>1. ASSUME NEW k \in Keys, CreateProfile(k) \/ UpdateProfile(k) \/ DeleteProfile(k)
              PROVE  EventsInv'
            BY <3>1, ProfilesKeep
        <3>2. CASE Enqueue \/ Ack \/ Redeliver
            BY <3>2, ListenerKeeps
        <3>3. CASE Restart
            BY <3>3, RestartKeeps
        <3>4. CASE HandleProfilesEvent
            BY <3>4, TakeKeeps
        <3>5. CASE Handle
            BY <3>5, HandleKeeps
        <3>6. CASE Drop
            BY <3>6, DropKeeps
        <3>7. CASE Others
            BY <3>7, OthersKeep
        <3> QED
            BY <2>2, <3>1, <3>2, <3>3, <3>4, <3>5, <3>6, <3>7 DEF EventsNext
    <2> QED
        BY <2>1, <2>2
<1> QED
    BY <1>1, <1>2, PTL DEF EventsSpec

-----------------------------------------------------------------------------

(* The tables, the handlers, the queue and the stream have their types, the *)
(* queue its capacity: enqueueing waits for room however long the handlers  *)
(* take.                                                                    *)
THEOREM EventsTypeCorrect == EventsSpec => []EventsTypeOK
<1>1. EventsInv => EventsTypeOK
    BY DEF EventsInv
<1> QED
    BY <1>1, EventsInvariant, PTL

(* No two accounts share a keycloak id, in whatever order requests, events, *)
(* merges, renames and edits create, delete and rename them: the insert, the*)
(* patch and the rename each look for the key in the step that writes it.   *)
THEOREM KeysAreUnique == EventsSpec => []OneAccountPerKey
<1>1. EventsInv => OneAccountPerKey
    BY DEF EventsInv, AccountsInv
<1> QED
    BY <1>1, EventsInvariant, PTL

(* An order, its card and its transaction are one account's, and only an    *)
(* order inserted for, or merged into, an account that went is left without *)
(* one, whatever merges and deletes fall between the statements of a        *)
(* checkout or of a card's registration.                                    *)
THEOREM RowsStayTogether == EventsSpec => []RowsOfOneAccount
<1>1. EventsInv => RowsOfOneAccount
    BY DEF EventsInv, AccountsInv
<1> QED
    BY <1>1, EventsInvariant, PTL

(* A merge, a rename and its revert keep each order's "userkey" equal to    *)
(* its account's key: any two that differ were parted by an edit of the     *)
(* account alone, or by a step that acted on an id or an email gone stale.  *)
THEOREM UserKeysFollow == EventsSpec => []UserKeyFollows
<1>1. EventsInv => UserKeyFollows
    BY DEF EventsInv, AccountsInv
<1> QED
    BY <1>1, EventsInvariant, PTL

-----------------------------------------------------------------------------
(* DrainedAgrees: what is still to come for each key. Nothing of it is      *)
(* asked of the keys in missed.                                             *)

(* The events the process has still to handle, but for the one in hand.     *)
Unhandled ==
    {stream[i] : i \in {n \in 1 .. Len(stream) : delivered => n # 1}}
    \cup {queue[i] : i \in 1 .. Len(queue)}

Waits(event, k) == [type |-> event, key |-> k] \in Unhandled

Handles(op, k) == job[Consumer].op = op /\ job[Consumer].key = k

(* The consumer has read k's profile, and will write what it read.          *)
HasRead(k) ==
    /\ job[Consumer].key = k
    /\ \/ job[Consumer].at \in {"insert", "again", "patch"}
       \/ job[Consumer].op = "update" /\ job[Consumer].at = "lookup"

(* k's account, which the consumer is not about to give another key.        *)
Keeps(a, k) ==
    /\ a \in WithKey(k)
    /\ job[Consumer].at = "patch" /\ job[Consumer].account = a => job[Consumer].key = k

AccountComes(k) ==
    profiles[k] >= 1 /\ k \in told =>
        \/ Waits("create", k) \/ Waits("update", k)
        \/ Handles("create", k) \/ Handles("update", k)
        \/ \E a \in AccountIDs : Keeps(a, k)

(* The last version of k's profile is an update, and fills in the column.   *)
Filled(k) == profiles[k] >= 2 /\ profiles[k] \notin Cleared

VersionComes(k) ==
    Filled(k) =>
        \/ Waits("update", k)
        \/ Handles("update", k) /\ (job[Consumer].at = "read" \/ job[Consumer].data = profiles[k])
        \/ \E a \in AccountIDs : Keeps(a, k) /\ accounts[a].data = profiles[k]

DeletionComes(k) ==
    k \in erased => Waits("delete", k) \/ Handles("delete", k) \/ ~Live(k)

(* What was read and is no longer so is followed by an event.               *)
ReadsFollowed(k) ==
    HasRead(k) =>
        /\ profiles[k] >= 2 => job[Consumer].data = profiles[k] \/ Waits("update", k)
        /\ k \in erased => Waits("delete", k)

(* The account the consumer has found is still the key's.                   *)
InHand(k) ==
    job[Consumer].key = k =>
        /\ job[Consumer].at \in {"patch", "delete"} => job[Consumer].account \in WithKey(k)
        /\ job[Consumer].at = "again" => WithKey(k) # {}

Follows(k) ==
    /\ AccountComes(k) /\ VersionComes(k) /\ DeletionComes(k)
    /\ ReadsFollowed(k) /\ InHand(k)

ConsumerStages ==
    LET op == job[Consumer].op
        at == job[Consumer].at
    IN  \/ op = "none" /\ at = "none"
        \/ op = "create" /\ at \in {"lookup", "read", "insert", "again"}
        \/ op = "update" /\ at \in {"read", "lookup", "insert", "again", "patch"}
        \/ op = "delete" /\ at \in {"lookup", "delete"}

AgreeInv ==
    /\ EventsInv
    /\ ConsumerStages
    /\ \A k \in erased : profiles[k] = 0
    /\ \A k \in Keys \ missed : Follows(k)

-----------------------------------------------------------------------------
(* No event leaves the stream or the queue unhandled, but at a restart.     *)

LEMMA ListenerLosesNothing ==
    ASSUME EventsInv, Enqueue \/ Ack \/ Redeliver
    PROVE  Unhandled \subseteq Unhandled'
<1>0. stream \in Seq(Event) /\ queue \in Seq(Event) /\ (delivered => stream # <<>>)
    BY DEF EventsInv, EventsTypeOK
<1>1. CASE Enqueue
    <2>1. Len(queue') = Len(queue) + 1 /\ queue'[Len(queue) + 1] = stream[1]
          /\ \A i \in 1 .. Len(queue) : queue'[i] = queue[i]
        BY <1>0, <1>1 DEF Enqueue
    <2>2. stream' = stream /\ delivered' = TRUE /\ delivered = FALSE
        BY <1>1 DEF Enqueue, EventsInv, EventsTypeOK
    <2>3. Len(queue) \in Nat /\ Len(stream) \in Nat
        BY <1>0
    <2>4. ASSUME NEW i \in 1 .. Len(stream)
          PROVE  stream[i] \in Unhandled'
        <3>1. CASE i = 1
            <4>1. Len(queue) + 1 \in 1 .. Len(queue')
                BY <2>1, <2>3
            <4> QED
                BY <2>1, <3>1, <4>1 DEF Unhandled
        <3>2. CASE i # 1
            BY <2>2, <3>2 DEF Unhandled
        <3> QED
            BY <3>1, <3>2
    <2>5. ASSUME NEW i \in 1 .. Len(queue)
          PROVE  queue[i] \in Unhandled'
        <3>1. i \in 1 .. Len(queue') /\ queue[i] = queue'[i]
            BY <2>1, <2>3
        <3> QED
            BY <3>1 DEF Unhandled
    <2> QED
        BY <2>4, <2>5 DEF Unhandled
<1>2. CASE Ack \/ Redeliver
    <2>1. delivered /\ stream # <<>> /\ queue' = queue /\ delivered' = FALSE
        BY <1>0, <1>2 DEF Ack, Redeliver
    <2>2. Len(stream) \in Nat /\ Len(Tail(stream)) = Len(stream) - 1
          /\ \A i \in 2 .. Len(stream) : Tail(stream)[i - 1] = stream[i]
        BY <1>0, <2>1
    <2>3. \A i \in 2 .. Len(stream) : i - 1 \in 1 .. Len(stream') /\ stream'[i - 1] = stream[i]
        <3>1. CASE Ack
            BY <2>2, <3>1 DEF Ack
        <3>2. CASE Redeliver
            <4>1. Tail(stream) \in Seq(Event) /\ Head(stream) \in Event
                BY <1>0, <2>1
            <4>2. Len(stream') = Len(Tail(stream)) + 1
                  /\ \A j \in 1 .. Len(Tail(stream)) : stream'[j] = Tail(stream)[j]
                BY <3>2, <4>1 DEF Redeliver
            <4> QED
                BY <2>2, <4>2
        <3> QED
            BY <1>2, <3>1, <3>2
    <2>4. ASSUME NEW i \in 1 .. Len(stream), i # 1
          PROVE  stream[i] \in Unhandled'
        <3>1. i \in 2 .. Len(stream)
            BY <2>2, <2>4
        <3>2. i - 1 \in {n \in 1 .. Len(stream') : delivered' => n # 1}
              /\ stream[i] = stream'[i - 1]
            BY <2>1, <2>3, <3>1
        <3> QED
            BY <3>2 DEF Unhandled
    <2>5. ASSUME NEW i \in 1 .. Len(queue)
          PROVE  queue[i] \in Unhandled'
        BY <2>1 DEF Unhandled
    <2> QED
        BY <2>1, <2>4, <2>5 DEF Unhandled
<1> QED
    BY <1>1, <1>2

LEMMA NewEventWaits ==
    ASSUME EventsInv, NEW e \in Event, stream' = Append(stream, e),
           UNCHANGED <<delivered, queue>>
    PROVE  Unhandled \subseteq Unhandled' /\ e \in Unhandled'
<1>0. stream \in Seq(Event) /\ (delivered => stream # <<>>)
    BY DEF EventsInv, EventsTypeOK
<1>1. /\ Len(stream) \in Nat /\ Len(stream') = Len(stream) + 1
      /\ stream'[Len(stream) + 1] = e
      /\ \A i \in 1 .. Len(stream) : stream'[i] = stream[i]
    BY <1>0
<1>2. delivered => Len(stream) # 0
    BY <1>0
<1>3. Len(stream) + 1 \in {n \in 1 .. Len(stream') : delivered' => n # 1}
    BY <1>1, <1>2
<1>4. ASSUME NEW i \in {n \in 1 .. Len(stream) : delivered => n # 1}
      PROVE  i \in {n \in 1 .. Len(stream') : delivered' => n # 1} /\ stream[i] = stream'[i]
    BY <1>1
<1> QED
    BY <1>1, <1>3, <1>4 DEF Unhandled

LEMMA TakenIsHead ==
    ASSUME EventsInv, queue # <<>>, queue' = Tail(queue), UNCHANGED <<stream, delivered>>
    PROVE  Unhandled \subseteq Unhandled' \cup {Head(queue)}
<1>0. queue \in Seq(Event)
    BY DEF EventsInv, EventsTypeOK
<1>1. /\ Len(queue) \in Nat /\ Len(queue') = Len(queue) - 1 /\ Head(queue) = queue[1]
      /\ \A i \in 2 .. Len(queue) : queue'[i - 1] = queue[i]
    BY <1>0
<1>2. ASSUME NEW i \in 1 .. Len(queue), i # 1
      PROVE  i - 1 \in 1 .. Len(queue') /\ queue[i] = queue'[i - 1]
    BY <1>1, <1>2
<1>3. ASSUME NEW i \in 1 .. Len(queue)
      PROVE  queue[i] \in Unhandled' \cup {Head(queue)}
    BY <1>1, <1>2 DEF Unhandled
<1> QED
    BY <1>3 DEF Unhandled

LEMMA RestartLosesQueue ==
    ASSUME EventsInv, Restart, NEW e \in Unhandled, e.key \notin missed'
    PROVE  e \in Unhandled'
<1>1. \A i \in 1 .. Len(queue) : queue[i].key \in missed'
    BY DEF Restart
<1>2. PICK i \in 1 .. Len(stream) : e = stream[i]
    BY <1>1 DEF Unhandled
<1>3. stream' = stream /\ delivered' = FALSE
    BY DEF Restart
<1> QED
    BY <1>2, <1>3 DEF Unhandled

-----------------------------------------------------------------------------
(* The service's and the listener's steps.                                  *)

LEMMA KeyStays ==
    ASSUME NEW k \in Keys, Follows(k), UNCHANGED <<accounts, job>>, profiles'[k] = profiles[k],
           k \in told' => k \in told, k \in erased' => k \in erased, Unhandled \subseteq Unhandled'
    PROVE  Follows(k)'
<1>1. WithKey(k)' = WithKey(k)
    BY DEF WithKey, Exists
<1>2. \A a \in AccountIDs : Keeps(a, k)' = Keeps(a, k)
    BY <1>1 DEF Keeps
<1>3. Live(k)' = Live(k)
    BY <1>1 DEF Live
<1>4. \A event \in {"create", "update", "delete"} : Waits(event, k) => Waits(event, k)'
    BY DEF Waits
<1>5. AccountComes(k)'
    BY <1>2, <1>4 DEF Follows, AccountComes, Handles
<1>6. VersionComes(k)'
    BY <1>2, <1>4 DEF Follows, VersionComes, Filled, Handles
<1>7. DeletionComes(k)'
    BY <1>3, <1>4 DEF Follows, DeletionComes, Handles
<1>8. ReadsFollowed(k)'
    BY <1>4 DEF Follows, ReadsFollowed, HasRead
<1>9. InHand(k)'
    BY <1>1 DEF Follows, InHand
<1> QED
    BY <1>5, <1>6, <1>7, <1>8, <1>9 DEF Follows

LEMMA ListenerAgrees ==
    ASSUME AgreeInv, EventsInv',
           UNCHANGED <<accounts, job, profiles, told, erased, missed>>,
           Unhandled \subseteq Unhandled'
    PROVE  AgreeInv'
<1>1. ASSUME NEW k \in Keys \ missed
      PROVE  Follows(k)'
    BY KeyStays DEF AgreeInv
<1> QED
    BY <1>1 DEF AgreeInv, ConsumerStages

LEMMA ProfilesAgree ==
    ASSUME AgreeInv, EventsInv', NEW k \in Keys,
           CreateProfile(k) \/ UpdateProfile(k) \/ DeleteProfile(k)
    PROVE  AgreeInv'
<1>0. profiles \in [Keys -> Nat] /\ erased \subseteq Keys
      /\ \A l \in erased : profiles[l] = 0
    BY DEF AgreeInv, EventsInv, EventsTypeOK, TypeOK
<1>1. PICK type \in {"create", "update", "delete"}, version \in Nat :
         /\ ChangeProfile(k, version, type)
         /\ type = "create" => version = 1 /\ k \notin erased /\ erased' = erased
         /\ type = "update" => k \notin erased /\ erased' = erased
         /\ type = "delete" => version = 0 /\ erased' = erased \cup {k}
    <2>1. CASE CreateProfile(k)
        BY <2>1 DEF CreateProfile
    <2>2. CASE UpdateProfile(k)
        <3>1. profiles[k] # 0 /\ profiles[k] + 1 \in Nat
            BY <1>0, <2>2 DEF UpdateProfile
        <3> QED
            BY <1>0, <2>2, <3>1 DEF UpdateProfile
    <2>3. CASE DeleteProfile(k)
        BY <2>3 DEF DeleteProfile
    <2> QED
        BY <2>1, <2>2, <2>3
<1>2. /\ profiles' = [profiles EXCEPT ![k] = version] /\ told' = told \cup {k}
      /\ UNCHANGED <<accounts, job, delivered, queue, missed>>
      /\ stream' = Append(stream, [type |-> type, key |-> k])
    BY <1>1 DEF ChangeProfile, tables
<1>3. Unhandled \subseteq Unhandled' /\ Waits(type, k)'
    <2>1. [type |-> type, key |-> k] \in Event
        BY DEF Event
    <2> QED
        BY <1>2, <2>1, NewEventWaits DEF AgreeInv, Waits
<1>4. \A l \in erased' : profiles'[l] = 0
    BY <1>0, <1>1, <1>2
<1>5. ASSUME NEW l \in Keys \ missed'
      PROVE  Follows(l)'
    <2>0. Follows(l)
        BY <1>2 DEF AgreeInv
    <2>1. CASE l # k
        <3>1. profiles'[l] = profiles[l] /\ (l \in told' => l \in told)
              /\ (l \in erased' => l \in erased)
            BY <1>0, <1>1, <1>2, <2>1
        <3> QED
            BY <1>2, <1>3, <2>0, <3>1, KeyStays
    <2>2. CASE l = k
        <3>1. profiles'[k] = version
            BY <1>0, <1>2
        <3>2. AccountComes(k)'
            BY <1>1, <1>3, <3>1 DEF AccountComes
        <3>3. VersionComes(k)'
            BY <1>1, <1>3, <3>1 DEF VersionComes, Filled
        <3>4. DeletionComes(k)'
            BY <1>1, <1>3 DEF DeletionComes
        <3>5. ReadsFollowed(k)'
            BY <1>1, <1>3, <3>1 DEF ReadsFollowed
        <3>6. InHand(k)'
            BY <1>2, <2>0, <2>2 DEF Follows, InHand, WithKey, Exists
        <3> QED
            BY <2>2, <3>2, <3>3, <3>4, <3>5, <3>6 DEF Follows
    <2> QED
        BY <2>1, <2>2
<1>6. ConsumerStages'
    BY <1>2 DEF AgreeInv, ConsumerStages
<1> QED
    BY <1>4, <1>5, <1>6 DEF AgreeInv

-----------------------------------------------------------------------------
(* The consumer gets idle: nothing is said of the key it had in hand.       *)

LEMMA IdleFollows ==
    ASSUME AccountsAssumption, NEW k \in Keys, Follows(k), job[Consumer].key # k,
           job'[Consumer] = IdleJob, UNCHANGED <<accounts, profiles, told, erased>>,
           \A event \in {"create", "update", "delete"} : Waits(event, k) => Waits(event, k)'
    PROVE  Follows(k)'
<1>0. job'[Consumer].key = NoKey /\ job'[Consumer].at = "none" /\ NoKey # k
    BY DEF IdleJob, AccountsAssumption
<1>1. WithKey(k)' = WithKey(k)
    BY DEF WithKey, Exists
<1>2. \A a \in AccountIDs : Keeps(a, k) => Keeps(a, k)'
    BY <1>0, <1>1 DEF Keeps
<1>3. Live(k)' = Live(k)
    BY <1>1 DEF Live
<1>4. AccountComes(k)'
    BY <1>2 DEF Follows, AccountComes, Handles
<1>5. VersionComes(k)'
    BY <1>2 DEF Follows, VersionComes, Filled, Handles
<1>6. DeletionComes(k)'
    BY <1>3 DEF Follows, DeletionComes, Handles
<1>7. ReadsFollowed(k)' /\ InHand(k)'
    BY <1>0 DEF ReadsFollowed, HasRead, InHand
<1> QED
    BY <1>4, <1>5, <1>6, <1>7 DEF Follows

LEMMA IdleStages ==
    ASSUME job'[Consumer] = IdleJob
    PROVE  ConsumerStages'
    BY DEF ConsumerStages, IdleJob

LEMMA RestartAgrees ==
    ASSUME AccountsAssumption, AgreeInv, EventsInv', Restart
    PROVE  AgreeInv'
<1>1. job'[Consumer] = IdleJob /\ UNCHANGED <<accounts, profiles, told, erased>>
    BY DEF Restart, AccountsAssumption, tables
<1>2. ASSUME NEW k \in Keys \ missed'
      PROVE  Follows(k)'
    <2>1. Follows(k) /\ job[Consumer].key # k
        BY DEF AgreeInv, Restart
    <2>2. ASSUME NEW event \in {"create", "update", "delete"}, Waits(event, k)
          PROVE  Waits(event, k)'
        <3>1. PICK e \in Unhandled : e = [type |-> event, key |-> k]
            BY <2>2 DEF Waits
        <3>2. e.key = k
            BY <3>1
        <3>3. e \in Unhandled'
            BY <3>2, RestartLosesQueue DEF AgreeInv
        <3> QED
            BY <3>1, <3>3 DEF Waits
    <2> QED
        BY <1>1, <2>1, <2>2, IdleFollows
<1>3. \A k \in erased' : profiles'[k] = 0
    BY <1>1 DEF AgreeInv
<1> QED
    BY <1>1, <1>2, <1>3, IdleStages DEF AgreeInv

LEMMA DropAgrees ==
    ASSUME AccountsAssumption, AgreeInv, EventsInv', Drop
    PROVE  AgreeInv'
<1>1. job'[Consumer] = IdleJob /\ UNCHANGED <<accounts, profiles, told, erased>>
      /\ UNCHANGED <<stream, delivered, queue>>
    BY DEF Drop, Dropped, AccountsAssumption, tables, AgreeInv, EventsInv, EventsTypeOK, TypeOK
<1>2. ASSUME NEW k \in Keys \ missed'
      PROVE  Follows(k)'
    <2>1. Follows(k) /\ job[Consumer].key # k
        BY DEF AgreeInv, Drop
    <2>2. \A event \in {"create", "update", "delete"} : Waits(event, k) => Waits(event, k)'
        BY <1>1 DEF Waits, Unhandled
    <2> QED
        BY <1>1, <2>1, <2>2, IdleFollows
<1>3. \A k \in erased' : profiles'[k] = 0
    BY <1>1 DEF AgreeInv
<1> QED
    BY <1>1, <1>2, <1>3, IdleStages DEF AgreeInv

-----------------------------------------------------------------------------
(* The consumer takes an event in hand.                                     *)

LEMMA TakeAgrees ==
    ASSUME AccountsAssumption, AgreeInv, EventsInv', HandleProfilesEvent
    PROVE  AgreeInv'
<1>0. /\ queue # <<>> /\ queue' = Tail(queue) /\ job[Consumer].op = "none"
      /\ UNCHANGED <<accounts, profiles, stream, delivered, told, erased, missed>>
      /\ queue \in Seq(Event) /\ job \in [Workers -> Job] /\ Consumer \in Workers
    BY DEF HandleProfilesEvent, AgreeInv, EventsInv, EventsTypeOK, TypeOK, AccountsAssumption,
           tables
<1>1. PICK type \in {"create", "update", "delete"}, key \in Keys :
         Head(queue) = [type |-> type, key |-> key]
    <2>1. Head(queue) \in Event
        BY <1>0
    <2> QED
        BY <2>1 DEF Event
<1>2. PICK at \in {"read", "lookup"} : at = IF type = "update" THEN "read" ELSE "lookup"
    OBVIOUS
<1>3. PICK j : j = [IdleJob EXCEPT !.op = type, !.key = key, !.at = at]
    OBVIOUS
<1>4. j.op = type /\ j.key = key /\ j.at = at
    BY <1>3 DEF IdleJob
<1>5. job'[Consumer] = j
    <2>1. Head(queue).type = type /\ Head(queue).key = key
        BY <1>1
    <2>2. job' = [job EXCEPT ![Consumer] = j]
        BY <1>2, <1>3, <2>1 DEF HandleProfilesEvent
    <2> QED
        BY <1>0, <2>2
<1>6. Unhandled \subseteq Unhandled' \cup {Head(queue)}
    BY <1>0, TakenIsHead DEF AgreeInv
<1>7. ASSUME NEW k \in Keys, NEW event \in {"create", "update", "delete"}, Waits(event, k)
      PROVE  Waits(event, k)' \/ Handles(event, k)'
    <2>1. CASE [type |-> event, key |-> k] = Head(queue)
        <3>1. event = type /\ k = key
            BY <1>1, <2>1
        <3> QED
            BY <1>4, <1>5, <3>1 DEF Handles
    <2>2. CASE [type |-> event, key |-> k] # Head(queue)
        BY <1>6, <1>7, <2>2 DEF Waits
    <2> QED
        BY <2>1, <2>2
<1>8. job[Consumer].at = "none"
    BY <1>0 DEF AgreeInv, ConsumerStages
<1>9. ASSUME NEW k \in Keys \ missed'
      PROVE  Follows(k)'
    <2>0. Follows(k)
        BY <1>0 DEF AgreeInv
    <2>1. WithKey(k)' = WithKey(k)
        BY <1>0 DEF WithKey, Exists
    <2>2. \A a \in AccountIDs : Keeps(a, k) => Keeps(a, k)'
        BY <1>4, <1>5, <2>1 DEF Keeps
    <2>3. Live(k)' = Live(k)
        BY <1>0, <2>1 DEF Live
    <2>4. ~Handles("create", k) /\ ~Handles("update", k) /\ ~Handles("delete", k)
        BY <1>0 DEF Handles
    <2>5. AccountComes(k)'
        BY <1>0, <1>7, <2>0, <2>2, <2>4 DEF Follows, AccountComes
    <2>6. Handles("update", k)' => job'[Consumer].at = "read"
        BY <1>2, <1>4, <1>5 DEF Handles
    <2>7. VersionComes(k)'
        BY <1>0, <1>7, <2>0, <2>2, <2>4, <2>6 DEF Follows, VersionComes, Filled
    <2>8. DeletionComes(k)'
        BY <1>0, <1>7, <2>0, <2>3, <2>4 DEF Follows, DeletionComes
    <2>9. ReadsFollowed(k)' /\ InHand(k)'
        BY <1>2, <1>4, <1>5 DEF ReadsFollowed, HasRead, InHand
    <2> QED
        BY <2>5, <2>7, <2>8, <2>9 DEF Follows
<1>10. ConsumerStages'
    BY <1>2, <1>4, <1>5 DEF ConsumerStages
<1>11. \A k \in erased' : profiles'[k] = 0
    BY <1>0 DEF AgreeInv
<1> QED
    BY <1>9, <1>10, <1>11 DEF AgreeInv

-----------------------------------------------------------------------------
(* The requests and the staff change one account's row at a time, so that   *)
(* an account of a key that is not missed afterwards is as it was.          *)

OneRow == \E a : \A b \in AccountIDs : b # a => accounts'[b] = accounts[b]

LEMMA ExceptOneRow ==
    ASSUME accounts \in [AccountIDs -> AccountRow], NEW a, NEW row,
           accounts' = [accounts EXCEPT ![a] = row]
    PROVE  OneRow
    BY DEF OneRow

LEMMA SameRows ==
    ASSUME accounts' = accounts
    PROVE  OneRow
    BY DEF OneRow

LEMMA RenameOneRow ==
    ASSUME AccountsInv, NEW w, NEW matches, Rename(w, matches)
    PROVE  OneRow
<1>0. accounts \in [AccountIDs -> AccountRow]
    BY DEF AccountsInv, TypeOK
<1>a. PICK old : old = job[w].key
    OBVIOUS
<1>1. \A b \in AccountIDs : b \notin WithKey(old) => accounts'[b] = accounts[b]
    BY <1>0, <1>a DEF Rename
<1>2. \A a, b \in WithKey(old) : a = b
    BY DEF AccountsInv, OneAccountPerKey, WithKey
<1>3. CASE WithKey(old) = {}
    BY <1>1, <1>3 DEF OneRow
<1>4. ASSUME NEW a \in WithKey(old)
      PROVE  OneRow
    <2>1. \A b \in AccountIDs : b # a => accounts'[b] = accounts[b]
        BY <1>1, <1>2, <1>4
    <2> QED
        BY <2>1 DEF OneRow
<1> QED
    BY <1>3, <1>4

LEMMA NextOneRow ==
    ASSUME AccountsInv, Next
    PROVE  OneRow
<1>0. accounts \in [AccountIDs -> AccountRow]
    BY DEF AccountsInv, TypeOK
<1>1. ASSUME NEW a, NEW k, NEW data, Insert(a, k, data)
      PROVE  OneRow
    BY <1>0, <1>1, ExceptOneRow DEF Insert
<1>2. ASSUME NEW a, NEW k, NEW data, Patched(a, k, data)
      PROVE  OneRow
    BY <1>0, <1>2 DEF Patched, OneRow
<1>3. CASE Staff
    <2>1. ASSUME NEW a \in AccountIDs, HardDelete(a) \/ DeleteByStaff(a) \/ ForgetKey(a)
          PROVE  OneRow
        BY <1>0, <1>2, <2>1 DEF HardDelete, DeleteByStaff, SoftDeleted, ForgetKey, OneRow
    <2>3. ASSUME NEW k \in Keys, CreateAccount(k)
          PROVE  OneRow
        BY <1>1, <2>3 DEF CreateAccount
    <2>4. ASSUME NEW a \in AccountIDs, NEW k \in Keys, PatchByStaff(a, k)
          PROVE  OneRow
        BY <1>2, <2>4 DEF PatchByStaff
    <2> QED
        BY <1>3, <2>1, <2>3, <2>4 DEF Staff
<1>4. ASSUME NEW w \in Workers, Step(w)
      PROVE  OneRow
    <2>1. CASE FindAccount(w)
        BY <1>1, <2>1, SameRows DEF FindAccount, GetAccountIDByKeycloakID, LookupProfile,
                                    createAccountForKey, LookupAgain, tables
    <2>2. CASE InsertOrder(w) \/ InsertTransaction(w) \/ CreateCardDetails(w)
               \/ AttachCard(w) \/ ReadDestination(w) \/ FindOrders(w)
               \/ UpdateOrdersUserKeyFromAccounts(w)
        BY <2>2, SameRows DEF InsertOrder, InsertTransaction, CreateCardDetails, AttachCard,
                              ReadDestination, FindOrders, UpdateOrdersUserKeyFromAccounts,
                              tables
    <2>3. CASE Merge(w)
        BY <1>0, <2>3, SameRows DEF Merge, OneRow
    <2>4. ASSUME NEW matches \in BOOLEAN,
                 PerformOperation(w, matches) \/ RevertOperation(w, matches)
          PROVE  OneRow
        BY <2>4, RenameOneRow, SameRows DEF PerformOperation, RevertOperation, Refused
    <2> QED
        BY <1>4, <2>1, <2>2, <2>3, <2>4 DEF Step
<1>5. ASSUME NEW w \in Workers, Request(w)
      PROVE  OneRow
    BY <1>5, SameRows DEF Request, BeginCheckout, BeginOffline, BeginToken, BeginMerge, ReadTrace,
                          BeginRename, BeginRefresh, Cut, tables
<1> QED
    BY <1>3, <1>4, <1>5 DEF Next

LEMMA RowsTell ==
    ASSUME OneAccountPerKey, OneRow, NEW k \in Keys, Rows(k) # {} => Rows(k)' = Rows(k),
           NEW a \in WithKey(k)
    PROVE  a \in WithKey(k)' /\ accounts'[a] = accounts[a]
<1>0. a \in AccountIDs /\ Exists(a) /\ accounts[a].key = k /\ k # NoKey
    BY DEF WithKey
<1>1. PICK b \in WithKey(k)' : accounts'[b] = accounts[a]
    <2>1. accounts[a] \in Rows(k)'
        BY DEF Rows
    <2> QED
        BY <2>1 DEF Rows
<1>2. b \in AccountIDs
    BY <1>1 DEF WithKey
<1>3. PICK c : \A d \in AccountIDs : d # c => accounts'[d] = accounts[d]
    BY DEF OneRow
<1>4. CASE accounts'[a] = accounts[a]
    BY <1>0, <1>4 DEF WithKey, Exists
<1>5. CASE accounts'[a] # accounts[a]
    <2>1. a = c /\ (b # a => accounts'[b] = accounts[b])
        BY <1>0, <1>2, <1>3, <1>5
    <2>2. b = a
        <3>1. ASSUME b # a
              PROVE  FALSE
            <4>1. accounts[b] = accounts[a]
                BY <1>1, <2>1, <3>1
            <4>2. b \in WithKey(accounts[a].key)
                BY <1>0, <1>2, <4>1 DEF WithKey, Exists
            <4> QED
                BY <1>0, <1>2, <3>1, <4>2 DEF OneAccountPerKey
        <3> QED
            BY <3>1
    <2> QED
        BY <1>1, <1>5, <2>2
<1> QED
    BY <1>4, <1>5

LEMMA OthersLeaveProfiles ==
    ASSUME Next
    PROVE  profiles' = profiles
    BY DEF Next, Staff, Step, Request, FindAccount, HardDelete, DeleteByStaff, ForgetKey,
           PerformOperation, CreateAccount, PatchByStaff, UpdateOrdersUserKeyFromAccounts,
           GetAccountIDByKeycloakID, LookupProfile, createAccountForKey, LookupAgain, InsertOrder,
           InsertTransaction, CreateCardDetails, AttachCard, ReadDestination, Merge,
           FindOrders, RevertOperation, BeginCheckout, BeginOffline, BeginToken, BeginMerge,
           BeginRename, BeginRefresh, ReadTrace, Cut

LEMMA OthersAgree ==
    ASSUME AccountsAssumption, AgreeInv, EventsInv', Others
    PROVE  AgreeInv'
<1>1. job'[Consumer] = job[Consumer] /\ OneRow /\ OneAccountPerKey
    BY OthersLeaveConsumer, NextOneRow DEF Others, AgreeInv, EventsInv, AccountsInv
<1>2. profiles' = profiles
    BY OthersLeaveProfiles DEF Others
<1>3. UNCHANGED <<stream, delivered, queue, told, erased>>
    BY DEF Others
<1>4. \A event, k : Waits(event, k)' = Waits(event, k)
    BY <1>3 DEF Waits, Unhandled
<1>5. ASSUME NEW k \in Keys \ missed'
      PROVE  Follows(k)'
    <2>0. Follows(k) /\ (Rows(k) # {} => Rows(k)' = Rows(k))
          /\ (k \in erased /\ Live(k)' => Live(k))
        BY DEF Others, AgreeInv
    <2>1. \A a \in WithKey(k) : a \in WithKey(k)' /\ accounts'[a] = accounts[a]
        BY <1>1, <2>0, RowsTell
    <2>2. \A a \in AccountIDs : Keeps(a, k) => Keeps(a, k)' /\ accounts'[a] = accounts[a]
        BY <1>1, <2>1 DEF Keeps
    <2>3. AccountComes(k)'
        BY <1>1, <1>2, <1>3, <1>4, <2>0, <2>2 DEF Follows, AccountComes, Handles
    <2>4. VersionComes(k)'
        BY <1>1, <1>2, <1>3, <1>4, <2>0, <2>2 DEF Follows, VersionComes, Filled, Handles
    <2>5. DeletionComes(k)'
        BY <1>1, <1>3, <1>4, <2>0 DEF Follows, DeletionComes, Handles
    <2>6. ReadsFollowed(k)'
        BY <1>1, <1>2, <1>3, <1>4, <2>0 DEF Follows, ReadsFollowed, HasRead
    <2>7. InHand(k)'
        BY <1>1, <2>0, <2>1 DEF Follows, InHand
    <2> QED
        BY <2>3, <2>4, <2>5, <2>6, <2>7 DEF Follows
<1>6. ConsumerStages'
    BY <1>1 DEF AgreeInv, ConsumerStages
<1>7. \A k \in erased' : profiles'[k] = 0
    BY <1>2, <1>3 DEF AgreeInv
<1> QED
    BY <1>5, <1>6, <1>7 DEF AgreeInv

-----------------------------------------------------------------------------
(* The consumer's handler: it is done with the event, or goes on with it.   *)

Ends == job'[Consumer] = IdleJob

GoesOn(at, account, data) ==
    /\ job'[Consumer].op = job[Consumer].op /\ job'[Consumer].key = job[Consumer].key
    /\ job'[Consumer].at = at
    /\ job'[Consumer].account = account
    /\ job'[Consumer].data = data

LEMMA ProceedGoes ==
    ASSUME job \in [Workers -> Job], Consumer \in Workers, NEW a, NEW created \in BOOLEAN,
           Proceed(Consumer, a, created)
    PROVE  /\ job[Consumer].op = "create" => Ends
           /\ job[Consumer].op = "update" /\ created => Ends
           /\ job[Consumer].op = "update" /\ ~created => GoesOn("patch", a, job[Consumer].data)
           /\ job[Consumer].op = "delete" => GoesOn("delete", a, job[Consumer].data)
<1>1. PICK h \in Job : h = job[Consumer]
    OBVIOUS
<1>2. PICK at : at = AfterAccount(h.op, created)
    OBVIOUS
<1>3. job'[Consumer] = IF at = "none" THEN IdleJob ELSE [h EXCEPT !.at = at, !.account = a]
    BY <1>1, <1>2 DEF Proceed
<1>4. /\ h.op = "create" => at = "none"
      /\ h.op = "update" => at = IF created THEN "none" ELSE "patch"
      /\ h.op = "delete" => at = "delete"
    BY <1>2 DEF AfterAccount
<1>5. PICK i : i = [h EXCEPT !.at = at, !.account = a]
    OBVIOUS
<1>6. i.op = h.op /\ i.key = h.key /\ i.at = at /\ i.account = a /\ i.data = h.data
    BY <1>5 DEF Job
<1>7. at # "none" => GoesOn(at, a, h.data)
    BY <1>1, <1>3, <1>5, <1>6 DEF GoesOn
<1> QED
    BY <1>1, <1>3, <1>4, <1>7 DEF Ends

LEMMA GotoGoes ==
    ASSUME job \in [Workers -> Job], Consumer \in Workers, NEW at, Goto(Consumer, at)
    PROVE  GoesOn(at, job[Consumer].account, job[Consumer].data)
<1>1. PICK h \in Job : h = job[Consumer]
    OBVIOUS
<1>2. PICK i : i = [h EXCEPT !.at = at]
    OBVIOUS
<1>3. job'[Consumer] = i
    BY <1>1, <1>2 DEF Goto
<1>4. i.op = h.op /\ i.key = h.key /\ i.at = at /\ i.account = h.account /\ i.data = h.data
    BY <1>2 DEF Job
<1> QED
    BY <1>1, <1>3, <1>4 DEF GoesOn

LEMMA AnswerEnds ==
    ASSUME job \in [Workers -> Job], Consumer \in Workers, Answer(Consumer)
    PROVE  Ends
    BY DEF Answer, Ends

(* A key other than the event's.                                            *)
LEMMA OtherKeys ==
    ASSUME NEW k \in Keys, Follows(k), job[Consumer].key # k, job'[Consumer].key # k,
           UNCHANGED service, UNCHANGED profiles,
           \A a \in AccountIDs : Keeps(a, k) => Keeps(a, k)' /\ accounts'[a].data = accounts[a].data,
           Live(k)' => Live(k)
    PROVE  Follows(k)'
<1>1. \A event : Waits(event, k)' = Waits(event, k)
    BY DEF service, Waits, Unhandled
<1>2. told' = told /\ erased' = erased
    BY DEF service
<1>3. AccountComes(k)'
    BY <1>1, <1>2 DEF Follows, AccountComes, Handles
<1>4. VersionComes(k)'
    BY <1>1 DEF Follows, VersionComes, Filled, Handles
<1>5. DeletionComes(k)'
    BY <1>1, <1>2 DEF Follows, DeletionComes, Handles
<1>6. ReadsFollowed(k)' /\ InHand(k)'
    BY DEF ReadsFollowed, HasRead, InHand
<1> QED
    BY <1>3, <1>4, <1>5, <1>6 DEF Follows

LEMMA OtherKeysRead ==
    ASSUME NEW k \in Keys, Follows(k), job[Consumer].key # k, job'[Consumer].key # k,
           UNCHANGED service, UNCHANGED <<profiles, accounts>>,
           job'[Consumer].at = "patch" => job'[Consumer].account \in WithKey(job[Consumer].key)
    PROVE  Follows(k)'
<1>1. WithKey(k)' = WithKey(k)
    BY DEF WithKey, Exists
<1>2. Live(k)' = Live(k)
    BY <1>1 DEF Live
<1>3. \A a \in WithKey(k) : a \notin WithKey(job[Consumer].key)
    BY DEF WithKey
<1>4. \A a \in AccountIDs : Keeps(a, k) => Keeps(a, k)'
    BY <1>1, <1>3 DEF Keeps
<1> QED
    BY <1>2, <1>4, OtherKeys

(* The event's key, when the handler goes on, having read only.             *)
LEMMA OwnKeyOn ==
    ASSUME NEW k \in Keys, Follows(k), job[Consumer].key = k,
           UNCHANGED service, UNCHANGED <<profiles, accounts>>,
           NEW at, NEW account, NEW data, GoesOn(at, account, data),
           \/ /\ job[Consumer].at # "read" /\ data = job[Consumer].data
              /\ HasRead(k)' => HasRead(k)
           \/ data = profiles[k] /\ k \notin erased,
           at \in {"patch", "delete"} => account \in WithKey(k),
           at = "again" => WithKey(k) # {}
    PROVE  Follows(k)'
<1>1. \A event : Waits(event, k)' = Waits(event, k)
    BY DEF service, Waits, Unhandled
<1>2. told' = told /\ erased' = erased
    BY DEF service
<1>3. WithKey(k)' = WithKey(k)
    BY DEF WithKey, Exists
<1>4. Live(k)' = Live(k)
    BY <1>3 DEF Live
<1>5. \A a \in AccountIDs : Keeps(a, k) => Keeps(a, k)'
    BY <1>3 DEF Keeps, GoesOn
<1>6. \A op : Handles(op, k)' = Handles(op, k)
    BY DEF Handles, GoesOn
<1>7. AccountComes(k)'
    BY <1>1, <1>2, <1>5, <1>6 DEF Follows, AccountComes
<1>8. VersionComes(k)'
    BY <1>1, <1>5, <1>6 DEF Follows, VersionComes, Filled, GoesOn
<1>9. DeletionComes(k)'
    BY <1>1, <1>2, <1>4, <1>6 DEF Follows, DeletionComes
<1>10. ReadsFollowed(k)'
    BY <1>1, <1>2 DEF Follows, ReadsFollowed, GoesOn
<1>11. InHand(k)'
    BY <1>3 DEF InHand, GoesOn
<1> QED
    BY <1>7, <1>8, <1>9, <1>10, <1>11 DEF Follows

(* The event's key, when the handler is done.                               *)
LEMMA OwnKeyEnds ==
    ASSUME AccountsAssumption, NEW k \in Keys, Ends, UNCHANGED service, UNCHANGED profiles,
           profiles[k] >= 1 /\ k \in told =>
              Waits("create", k) \/ Waits("update", k) \/ WithKey(k)' # {},
           Filled(k) =>
              Waits("update", k) \/ \E a \in WithKey(k)' : accounts'[a].data = profiles[k],
           k \in erased => Waits("delete", k) \/ ~Live(k)'
    PROVE  Follows(k)'
<1>1. \A event : Waits(event, k)' = Waits(event, k)
    BY DEF service, Waits, Unhandled
<1>2. told' = told /\ erased' = erased
    BY DEF service
<1>3. job'[Consumer].at = "none" /\ job'[Consumer].key = NoKey /\ k # NoKey
    BY DEF Ends, IdleJob, AccountsAssumption
<1>4. \A a \in WithKey(k)' : a \in AccountIDs /\ Keeps(a, k)'
    BY <1>3 DEF Keeps, WithKey
<1>5. AccountComes(k)'
    BY <1>1, <1>2, <1>4 DEF AccountComes
<1>6. VersionComes(k)'
    BY <1>1, <1>4 DEF VersionComes, Filled
<1>7. DeletionComes(k)'
    BY <1>1, <1>2 DEF DeletionComes
<1>8. ReadsFollowed(k)' /\ InHand(k)'
    BY <1>3 DEF ReadsFollowed, HasRead, InHand
<1> QED
    BY <1>5, <1>6, <1>7, <1>8 DEF Follows

LEMMA EventInHand ==
    ASSUME AccountsAssumption, AgreeInv, job[Consumer].at # "none"
    PROVE  /\ job \in [Workers -> Job] /\ Consumer \in Workers
           /\ job[Consumer].op \in {"create", "update", "delete"}
           /\ job[Consumer].key \in Keys /\ NoKey \notin Keys
           /\ profiles \in [Keys -> Nat] /\ accounts \in [AccountIDs -> AccountRow]
<1>1. job[Consumer].op \in {"create", "update", "delete"}
    BY DEF AgreeInv, ConsumerStages
<1>2. job[Consumer].key \in Keys
    BY <1>1 DEF AgreeInv, EventsInv, ConsumerKeyed
<1> QED
    BY <1>1, <1>2 DEF AgreeInv, EventsInv, AccountsInv, TypeOK, AccountsAssumption

(* What a handler makes of the event in hand.                               *)
AllFollow == ConsumerStages /\ \A k \in Keys \ missed : Follows(k)

LEMMA StepFollows ==
    ASSUME AccountsAssumption, AgreeInv, UNCHANGED service, job[Consumer].at # "none",
           ConsumerStages', job'[Consumer].key \in {NoKey, job[Consumer].key},
           \A k \in Keys \ missed : job[Consumer].key # k /\ job'[Consumer].key # k => Follows(k)',
           NEW key \in Keys, key = job[Consumer].key, key \notin missed => Follows(key)'
    PROVE  AllFollow'
<1>1. missed' = missed /\ NoKey \notin Keys
    BY DEF service, AccountsAssumption
<1>2. ASSUME NEW k \in Keys \ missed
      PROVE  Follows(k)'
    BY <1>1, <1>2
<1> QED
    BY <1>1, <1>2 DEF AllFollow

LEMMA EndsStages ==
    ASSUME Ends
    PROVE  ConsumerStages' /\ job'[Consumer].key = NoKey /\ job'[Consumer].at = "none"
    BY DEF Ends, ConsumerStages, IdleJob

LEMMA LookupFollows ==
    ASSUME AccountsAssumption, AgreeInv, UNCHANGED service, GetAccountIDByKeycloakID(Consumer)
    PROVE  AllFollow'
<1> DEFINE op == job[Consumer].op
           found == WithKey(job[Consumer].key)
<1>0. /\ job[Consumer].at = "lookup" /\ UNCHANGED <<accounts, profiles>>
      /\ job \in [Workers -> Job] /\ Consumer \in Workers
      /\ op \in {"create", "update", "delete"}
    BY EventInHand DEF GetAccountIDByKeycloakID, tables
<1>1. PICK key \in Keys : key = job[Consumer].key
    BY <1>0, EventInHand
<1>2. \/ /\ op = "create" /\ found # {} /\ Ends
      \/ /\ op = "create" /\ found = {}
         /\ GoesOn("read", job[Consumer].account, job[Consumer].data)
      \/ \E a \in found : op = "update" /\ GoesOn("patch", a, job[Consumer].data)
      \/ op = "update" /\ GoesOn("insert", job[Consumer].account, job[Consumer].data)
      \/ \E a \in found : op = "delete" /\ GoesOn("delete", a, job[Consumer].data)
      \/ op = "delete" /\ found = {} /\ Ends
    <2>1. ASSUME NEW a \in found, Proceed(Consumer, a, FALSE)
          PROVE  \/ op = "create" /\ Ends
                 \/ op = "update" /\ GoesOn("patch", a, job[Consumer].data)
                 \/ op = "delete" /\ GoesOn("delete", a, job[Consumer].data)
        BY <1>0, <2>1, ProceedGoes
    <2>2. CASE found = {}
        BY <1>0, <2>2, GotoGoes, AnswerEnds DEF GetAccountIDByKeycloakID
    <2>3. CASE found # {}
        <3>1. PICK a \in found : Proceed(Consumer, a, FALSE)
            BY <2>3 DEF GetAccountIDByKeycloakID
        <3> QED
            BY <2>1, <2>3, <3>1
    <2> QED
        BY <2>2, <2>3
<1>3. ConsumerStages' /\ job'[Consumer].key \in {NoKey, job[Consumer].key}
    BY <1>2, EndsStages DEF GoesOn, ConsumerStages
<1>4. ASSUME NEW k \in Keys \ missed, job[Consumer].key # k, job'[Consumer].key # k
      PROVE  Follows(k)'
    <2>1. job'[Consumer].at = "patch" => job'[Consumer].account \in found
        BY <1>2, EndsStages DEF GoesOn
    <2> QED
        BY <1>0, <1>4, <2>1, OtherKeysRead DEF AgreeInv
<1>5. ASSUME key \notin missed
      PROVE  Follows(key)'
    <2>0. Follows(key) /\ WithKey(key)' = WithKey(key) /\ Live(key)' = Live(key)
        BY <1>0, <1>5 DEF AgreeInv, WithKey, Exists, Live
    <2>1. CASE Ends
        <3>1. CASE op = "create" /\ found # {}
            <4>1. ~Handles("update", key) /\ ~Handles("delete", key)
                BY <3>1 DEF Handles
            <4>2. Filled(key) =>
                     Waits("update", key)
                     \/ \E a \in WithKey(key)' : accounts'[a].data = profiles[key]
                BY <1>0, <2>0, <4>1 DEF Follows, VersionComes, Keeps
            <4>3. key \in erased => Waits("delete", key) \/ ~Live(key)'
                BY <2>0, <4>1 DEF Follows, DeletionComes
            <4> QED
                BY <1>0, <1>1, <2>0, <2>1, <3>1, <4>2, <4>3, OwnKeyEnds
        <3>2. CASE op = "delete" /\ found = {}
            <4>1. ~Handles("create", key) /\ ~Handles("update", key)
                BY <3>2 DEF Handles
            <4>2. \A a \in AccountIDs : ~Keeps(a, key)
                BY <1>1, <3>2 DEF Keeps
            <4>3. ~Live(key)'
                BY <1>1, <2>0, <3>2 DEF Live
            <4>4. profiles[key] >= 1 /\ key \in told => Waits("create", key) \/ Waits("update", key)
                BY <2>0, <4>1, <4>2 DEF Follows, AccountComes
            <4>5. Filled(key) => Waits("update", key)
                BY <2>0, <4>1, <4>2 DEF Follows, VersionComes
            <4> QED
                BY <1>0, <1>1, <2>1, <4>3, <4>4, <4>5, OwnKeyEnds
        <3> QED
            BY <1>0, <1>2, <2>1, <3>1, <3>2, EndsStages DEF GoesOn
    <2>2. ASSUME NEW at, NEW account, GoesOn(at, account, job[Consumer].data),
                 op = "update" \/ at \in {"read", "delete"},
                 at \in {"patch", "delete"} => account \in found, at # "again"
          PROVE  Follows(key)'
        <3>1. HasRead(key)' => HasRead(key)
            BY <1>0, <1>1, <2>2 DEF HasRead, GoesOn
        <3> QED
            BY <1>0, <1>1, <2>0, <2>2, <3>1, OwnKeyOn
    <2> QED
        BY <1>2, <2>1, <2>2
<1> QED
    BY <1>0, <1>1, <1>3, <1>4, <1>5, StepFollows

LEMMA ReadFollows ==
    ASSUME AccountsAssumption, AgreeInv, UNCHANGED service, LookupProfile(Consumer)
    PROVE  AllFollow'
<1> DEFINE op == job[Consumer].op
<1>0. /\ job[Consumer].at = "read" /\ UNCHANGED <<accounts, profiles>>
      /\ job \in [Workers -> Job] /\ Consumer \in Workers
      /\ op \in {"create", "update"}
    BY EventInHand DEF LookupProfile, tables, AgreeInv, ConsumerStages
<1>1. PICK key \in Keys : key = job[Consumer].key
    BY <1>0, EventInHand
<1>2. \/ profiles[key] = 0 /\ Ends
      \/ /\ profiles[key] # 0
         /\ GoesOn(IF op = "update" THEN "lookup" ELSE "insert", job[Consumer].account,
                   profiles[key])
    <2>1. CASE profiles[key] = 0
        BY <1>0, <1>1, <2>1, AnswerEnds DEF LookupProfile
    <2>2. CASE profiles[key] # 0
        <3>1. PICK at, data : data = profiles[key] /\ at = IF op = "update" THEN "lookup" ELSE "insert"
            OBVIOUS
        <3>2. PICK h \in Job : h = job[Consumer]
            BY <1>0
        <3>3. PICK i : i = [h EXCEPT !.data = data, !.at = at]
            OBVIOUS
        <3>4. job' = [job EXCEPT ![Consumer].data = data, ![Consumer].at = at]
            BY <1>1, <2>2, <3>1 DEF LookupProfile
        <3>5. job'[Consumer] = i
            BY <1>0, <3>2, <3>3, <3>4
        <3>6. i.op = h.op /\ i.key = h.key /\ i.at = at /\ i.account = h.account /\ i.data = data
            BY <3>3 DEF Job
        <3> QED
            BY <2>2, <3>1, <3>2, <3>5, <3>6 DEF GoesOn
    <2> QED
        BY <2>1, <2>2
<1>3. ConsumerStages' /\ job'[Consumer].key \in {NoKey, job[Consumer].key}
      /\ job'[Consumer].at # "patch"
    BY <1>0, <1>2, EndsStages DEF GoesOn, ConsumerStages
<1>4. ASSUME NEW k \in Keys \ missed, job[Consumer].key # k, job'[Consumer].key # k
      PROVE  Follows(k)'
    BY <1>0, <1>3, <1>4, OtherKeysRead DEF AgreeInv
<1>5. ASSUME key \notin missed
      PROVE  Follows(key)'
    <2>0. Follows(key) /\ Live(key)' = Live(key)
        BY <1>0, <1>5 DEF AgreeInv, WithKey, Exists, Live
    <2>1. CASE profiles[key] = 0 /\ Ends
        <3>1. key \in erased => Waits("delete", key) \/ ~Live(key)'
            BY <1>0, <2>0 DEF Follows, DeletionComes, Handles
        <3> QED
            BY <1>0, <2>1, <3>1, OwnKeyEnds DEF Filled
    <2>2. ASSUME NEW at \in {"lookup", "insert"}, profiles[key] # 0,
                 GoesOn(at, job[Consumer].account, profiles[key])
          PROVE  Follows(key)'
        <3>1. key \notin erased
            BY <2>2 DEF AgreeInv
        <3> QED
            BY <1>0, <1>1, <2>0, <2>2, <3>1, OwnKeyOn
    <2> QED
        BY <1>2, <2>1, <2>2
<1> QED
    BY <1>0, <1>1, <1>3, <1>4, <1>5, StepFollows

LEMMA CreateFollows ==
    ASSUME AccountsAssumption, AgreeInv, UNCHANGED service, createAccountForKey(Consumer)
    PROVE  AllFollow'
<1> DEFINE op == job[Consumer].op
<1>0. /\ job[Consumer].at = "insert" /\ UNCHANGED profiles
      /\ job \in [Workers -> Job] /\ Consumer \in Workers
      /\ op \in {"create", "update"} /\ accounts \in [AccountIDs -> AccountRow]
    BY EventInHand DEF createAccountForKey, AgreeInv, ConsumerStages
<1>1. PICK key \in Keys : key = job[Consumer].key
    BY <1>0, EventInHand
<1>2. ASSUME NEW a \in AccountIDs, Insert(a, key, job[Consumer].data),
             Proceed(Consumer, a, TRUE), WithKey(key) = {}
      PROVE  AllFollow'
    <2>1. Ends
        BY <1>0, <1>2, ProceedGoes
    <2>2. PICK row : row = NewAccount(key, job[Consumer].data)
        OBVIOUS
    <2>3. row.state = "live" /\ row.key = key /\ row.data = job[Consumer].data
        BY <2>2 DEF NewAccount
    <2>4. /\ accounts[a].state = "none" /\ accounts'[a] = row
          /\ \A b \in AccountIDs : b # a => accounts'[b] = accounts[b]
        BY <1>0, <1>2, <2>2 DEF Insert, Fresh
    <2>5. ASSUME NEW k \in Keys \ missed, job[Consumer].key # k
          PROVE  Follows(k)'
        <3>1. \A b \in AccountIDs : b \in WithKey(k)' <=> b \in WithKey(k)
            BY <1>1, <2>3, <2>4, <2>5 DEF WithKey, Exists
        <3>2. \A b \in WithKey(k) : b # a /\ accounts'[b] = accounts[b]
            BY <2>4 DEF WithKey, Exists
        <3>3. Live(k)' => Live(k)
            BY <3>1, <3>2 DEF Live, WithKey
        <3>4. job'[Consumer].at = "none" /\ job'[Consumer].key # k
            BY <2>1, EndsStages DEF AccountsAssumption
        <3>5. \A b \in AccountIDs : Keeps(b, k) =>
                 Keeps(b, k)' /\ accounts'[b].data = accounts[b].data
            BY <3>1, <3>2, <3>4 DEF Keeps
        <3> QED
            BY <1>0, <2>5, <3>3, <3>4, <3>5, OtherKeys DEF AgreeInv
    <2>6. ASSUME key \notin missed
          PROVE  Follows(key)'
        <3>0. ReadsFollowed(key) /\ HasRead(key)
            BY <1>0, <1>1, <2>6 DEF AgreeInv, Follows, HasRead
        <3>1. a \in WithKey(key)'
            BY <2>3, <2>4 DEF WithKey, Exists, AccountsAssumption
        <3>2. Filled(key) => Waits("update", key) \/ accounts'[a].data = profiles[key]
            BY <2>3, <2>4, <3>0 DEF ReadsFollowed, Filled
        <3>3. key \in erased => Waits("delete", key)
            BY <3>0 DEF ReadsFollowed
        <3> QED
            BY <1>0, <2>1, <3>1, <3>2, <3>3, OwnKeyEnds
    <2> QED
        BY <1>0, <1>1, <2>1, <2>5, <2>6, EndsStages, StepFollows
<1>3. ASSUME WithKey(key) # {}, Goto(Consumer, "again"), UNCHANGED accounts
      PROVE  AllFollow'
    <2>1. GoesOn("again", job[Consumer].account, job[Consumer].data)
        BY <1>0, <1>3, GotoGoes
    <2>2. ConsumerStages' /\ job'[Consumer].key = job[Consumer].key
          /\ job'[Consumer].at # "patch"
        BY <1>0, <2>1 DEF GoesOn, ConsumerStages
    <2>3. ASSUME NEW k \in Keys \ missed, job[Consumer].key # k
          PROVE  Follows(k)'
        BY <1>0, <1>3, <2>2, <2>3, OtherKeysRead DEF AgreeInv
    <2>4. ASSUME key \notin missed
          PROVE  Follows(key)'
        <3>1. Follows(key) /\ HasRead(key)
            BY <1>0, <1>1, <2>4 DEF AgreeInv, HasRead
        <3> QED
            BY <1>0, <1>1, <1>3, <2>1, <3>1, OwnKeyOn
    <2> QED
        BY <1>0, <1>1, <2>2, <2>3, <2>4, StepFollows
<1> QED
    BY <1>1, <1>2, <1>3 DEF createAccountForKey

LEMMA AgainFollows ==
    ASSUME AccountsAssumption, AgreeInv, UNCHANGED service, LookupAgain(Consumer)
    PROVE  AllFollow'
<1> DEFINE op == job[Consumer].op
           found == WithKey(job[Consumer].key)
<1>0. /\ job[Consumer].at = "again" /\ UNCHANGED <<accounts, profiles>>
      /\ job \in [Workers -> Job] /\ Consumer \in Workers
      /\ op \in {"create", "update"}
    BY EventInHand DEF LookupAgain, tables, AgreeInv, ConsumerStages
<1>1. PICK key \in Keys : key = job[Consumer].key
    BY <1>0, EventInHand
<1>2. \/ op = "create" /\ found # {} /\ Ends
      \/ \E a \in found : op = "update" /\ GoesOn("patch", a, job[Consumer].data)
      \/ found = {} /\ Ends
    <2>1. ASSUME NEW a \in found, Proceed(Consumer, a, FALSE)
          PROVE  \/ op = "create" /\ Ends
                 \/ op = "update" /\ GoesOn("patch", a, job[Consumer].data)
        BY <1>0, <2>1, ProceedGoes
    <2>2. CASE found = {} /\ Answer(Consumer)
        BY <1>0, <2>2, AnswerEnds
    <2>3. ASSUME NEW a \in found, Proceed(Consumer, a, FALSE)
          PROVE  found # {}
        OBVIOUS
    <2> QED
        BY <2>1, <2>2, <2>3 DEF LookupAgain, AfterConflict
<1>3. ConsumerStages' /\ job'[Consumer].key \in {NoKey, job[Consumer].key}
    BY <1>2, EndsStages DEF GoesOn, ConsumerStages
<1>4. ASSUME NEW k \in Keys \ missed, job[Consumer].key # k, job'[Consumer].key # k
      PROVE  Follows(k)'
    <2>1. job'[Consumer].at = "patch" => job'[Consumer].account \in found
        BY <1>2, EndsStages DEF GoesOn
    <2> QED
        BY <1>0, <1>4, <2>1, OtherKeysRead DEF AgreeInv
<1>5. ASSUME key \notin missed
      PROVE  Follows(key)'
    <2>0. /\ Follows(key) /\ WithKey(key)' = WithKey(key) /\ Live(key)' = Live(key)
          /\ HasRead(key)
        BY <1>0, <1>1, <1>5 DEF AgreeInv, WithKey, Exists, Live, HasRead
    <2>1. found # {}
        BY <1>0, <1>1, <2>0 DEF Follows, InHand
    <2>2. CASE op = "create" /\ Ends
        <3>1. ~Handles("update", key)
            BY <2>2 DEF Handles
        <3>2. Filled(key) =>
                 Waits("update", key)
                 \/ \E a \in WithKey(key)' : accounts'[a].data = profiles[key]
            BY <1>0, <2>0, <3>1 DEF Follows, VersionComes, Keeps
        <3>3. key \in erased => Waits("delete", key)
            BY <2>0 DEF Follows, ReadsFollowed
        <3> QED
            BY <1>0, <1>1, <2>0, <2>1, <2>2, <3>2, <3>3, OwnKeyEnds
    <2>3. ASSUME NEW a \in found, GoesOn("patch", a, job[Consumer].data)
          PROVE  Follows(key)'
        BY <1>0, <1>1, <2>0, <2>3, OwnKeyOn
    <2> QED
        BY <1>2, <2>1, <2>2, <2>3
<1> QED
    BY <1>0, <1>1, <1>3, <1>4, <1>5, StepFollows

LEMMA PatchFollows ==
    ASSUME AccountsAssumption, AgreeInv, UNCHANGED service, PatchAccount(Consumer)
    PROVE  AllFollow'
<1>0. /\ job[Consumer].at = "patch" /\ UNCHANGED profiles
      /\ job \in [Workers -> Job] /\ Consumer \in Workers
      /\ accounts \in [AccountIDs -> AccountRow] /\ OneAccountPerKey
    BY EventInHand DEF PatchAccount, AgreeInv, EventsInv, AccountsInv
<1>1. PICK key \in Keys : key = job[Consumer].key
    BY <1>0, EventInHand
<1>2. Ends
    BY <1>0, AnswerEnds DEF PatchAccount
<1>3. PICK a, data : a = job[Consumer].account /\ data = job[Consumer].data
    OBVIOUS
<1>4. \/ Patched(a, key, data)
      \/ (~Exists(a) \/ ~(WithKey(key) \subseteq {a})) /\ UNCHANGED accounts
    BY <1>1, <1>3 DEF PatchAccount
<1>5. \A b \in AccountIDs : b # a => accounts'[b] = accounts[b]
    BY <1>0, <1>4 DEF Patched
<1>6. \/ UNCHANGED accounts
      \/ /\ a \in AccountIDs /\ accounts'[a].key = key
         /\ data \notin Cleared => accounts'[a].data = data
         /\ accounts'[a].state = accounts[a].state
    <2>1. ASSUME Patched(a, key, data)
          PROVE  /\ a \in AccountIDs /\ accounts'[a].key = key
                 /\ data \notin Cleared => accounts'[a].data = data
                 /\ accounts'[a].state = accounts[a].state
        <3>1. PICK row \in AccountRow : row = accounts[a]
            BY <1>0, <2>1 DEF Patched, Exists
        <3>a. PICK d : d = IF data \in Cleared THEN row.data ELSE data
            OBVIOUS
        <3>2. accounts'[a] = [row EXCEPT !.key = key, !.data = d]
            BY <1>0, <2>1, <3>1, <3>a DEF Patched, Exists
        <3>3. a \in AccountIDs
            BY <2>1 DEF Patched, Exists
        <3> QED
            BY <3>1, <3>2, <3>3, <3>a DEF AccountRow
    <2> QED
        BY <1>4, <2>1
<1>7. ASSUME NEW k \in Keys \ missed, job[Consumer].key # k
      PROVE  Follows(k)'
    <2>0. job'[Consumer].at = "none" /\ job'[Consumer].key # k
        BY <1>2, EndsStages DEF AccountsAssumption
    <2>1. \A b \in WithKey(k) : b # a => b \in WithKey(k)' /\ accounts'[b] = accounts[b]
        BY <1>5 DEF WithKey, Exists
    <2>2. \A b \in AccountIDs : Keeps(b, k) => b # a
        BY <1>0, <1>3, <1>7 DEF Keeps
    <2>3. \A b \in AccountIDs : Keeps(b, k) =>
             Keeps(b, k)' /\ accounts'[b].data = accounts[b].data
        BY <2>0, <2>1, <2>2 DEF Keeps
    <2>4. Live(k)' => Live(k)
        BY <1>1, <1>5, <1>6, <1>7 DEF Live, WithKey, Exists
    <2> QED
        BY <1>0, <1>7, <2>0, <2>3, <2>4, OtherKeys DEF AgreeInv
<1>8. ASSUME key \notin missed
      PROVE  Follows(key)'
    <2>0. ReadsFollowed(key) /\ HasRead(key) /\ a \in WithKey(key)
        BY <1>0, <1>1, <1>3, <1>8 DEF AgreeInv, Follows, HasRead, InHand
    <2>1. WithKey(key) \subseteq {a} /\ Exists(a) /\ a \in AccountIDs
        BY <1>0, <2>0 DEF OneAccountPerKey, WithKey
    <2>2. /\ accounts'[a].key = key /\ accounts'[a].state = accounts[a].state
          /\ data \notin Cleared => accounts'[a].data = data
        <3>1. Patched(a, key, data)
            BY <1>4, <2>1
        <3>2. PICK row \in AccountRow : row = accounts[a]
            BY <1>0, <2>1
        <3>a. PICK d : d = IF data \in Cleared THEN row.data ELSE data
            OBVIOUS
        <3>3. accounts'[a] = [row EXCEPT !.key = key, !.data = d]
            BY <1>0, <2>1, <3>1, <3>2, <3>a DEF Patched
        <3> QED
            BY <3>2, <3>3, <3>a DEF AccountRow
    <2>3. a \in WithKey(key)'
        BY <2>1, <2>2 DEF WithKey, Exists, AccountsAssumption
    <2>4. Filled(key) => Waits("update", key) \/ accounts'[a].data = profiles[key]
        BY <1>3, <2>0, <2>2 DEF ReadsFollowed, Filled
    <2>5. key \in erased => Waits("delete", key)
        BY <2>0 DEF ReadsFollowed
    <2> QED
        BY <1>0, <1>2, <2>3, <2>4, <2>5, OwnKeyEnds
<1> QED
    BY <1>0, <1>1, <1>2, <1>7, <1>8, EndsStages, StepFollows

LEMMA DeleteFollows ==
    ASSUME AccountsAssumption, AgreeInv, UNCHANGED service, SoftDeleteAccount(Consumer)
    PROVE  AllFollow'
<1>0. /\ job[Consumer].at = "delete" /\ UNCHANGED profiles
      /\ job \in [Workers -> Job] /\ Consumer \in Workers
      /\ accounts \in [AccountIDs -> AccountRow] /\ OneAccountPerKey
      /\ job[Consumer].op = "delete"
    BY EventInHand DEF SoftDeleteAccount, AgreeInv, EventsInv, AccountsInv, ConsumerStages
<1>1. PICK key \in Keys : key = job[Consumer].key
    BY <1>0, EventInHand
<1>2. Ends
    BY <1>0, AnswerEnds DEF SoftDeleteAccount
<1>3. PICK a : a = job[Consumer].account
    OBVIOUS
<1>4. /\ \A b \in AccountIDs : b # a => accounts'[b] = accounts[b]
      /\ ~Exists(a) => accounts' = accounts
    BY <1>0, <1>3 DEF SoftDeleteAccount, SoftDeleted
<1>5. Exists(a) => /\ accounts'[a].key = accounts[a].key /\ accounts'[a].data = accounts[a].data
                   /\ accounts'[a].state = "deleted"
    <2>1. ASSUME Exists(a)
          PROVE  /\ accounts'[a].key = accounts[a].key /\ accounts'[a].data = accounts[a].data
                 /\ accounts'[a].state = "deleted"
        <3>1. PICK row \in AccountRow : row = accounts[a]
            BY <1>0, <2>1 DEF Exists
        <3>2. accounts'[a] = [row EXCEPT !.state = "deleted"]
            BY <1>0, <1>3, <2>1, <3>1 DEF SoftDeleteAccount, SoftDeleted, Exists
        <3> QED
            BY <3>1, <3>2 DEF AccountRow
    <2> QED
        BY <2>1
<1>6. \A k, b : b \in WithKey(k) =>
         /\ b \in WithKey(k)' /\ accounts'[b].data = accounts[b].data
         /\ accounts'[b].state = "live" => accounts[b].state = "live"
    BY <1>4, <1>5 DEF WithKey, Exists
<1>7. \A k, b : b \in WithKey(k)' => b \in WithKey(k)
    BY <1>4, <1>5 DEF WithKey, Exists
<1>8. job'[Consumer].at = "none" /\ job'[Consumer].key \notin Keys
    BY <1>2, EndsStages DEF AccountsAssumption
<1>9. ASSUME NEW k \in Keys \ missed, job[Consumer].key # k
      PROVE  Follows(k)'
    <2>1. \A b \in AccountIDs : Keeps(b, k) =>
             Keeps(b, k)' /\ accounts'[b].data = accounts[b].data
        BY <1>6, <1>8 DEF Keeps
    <2>2. Live(k)' => Live(k)
        BY <1>6, <1>7 DEF Live
    <2> QED
        BY <1>0, <1>8, <1>9, <2>1, <2>2, OtherKeys DEF AgreeInv
<1>10. ASSUME key \notin missed
       PROVE  Follows(key)'
    <2>0. Follows(key) /\ a \in WithKey(key)
        BY <1>0, <1>1, <1>3, <1>10 DEF AgreeInv, Follows, InHand
    <2>1. a \in WithKey(key)' /\ accounts'[a].state = "deleted"
        BY <1>5, <1>6, <2>0 DEF WithKey
    <2>2. \A b \in WithKey(key)' : b = a
        BY <1>0, <1>7, <2>0 DEF OneAccountPerKey, WithKey
    <2>3. ~Live(key)'
        BY <2>1, <2>2 DEF Live
    <2>4. ~Handles("create", key) /\ ~Handles("update", key)
        BY <1>0 DEF Handles
    <2>5. Filled(key) =>
             Waits("update", key)
             \/ \E b \in WithKey(key)' : accounts'[b].data = profiles[key]
        BY <1>6, <2>0, <2>4 DEF Follows, VersionComes, Keeps
    <2> QED
        BY <1>0, <1>2, <2>1, <2>3, <2>5, OwnKeyEnds
<1> QED
    BY <1>0, <1>1, <1>2, <1>9, <1>10, EndsStages, StepFollows

LEMMA HandleAgrees ==
    ASSUME AccountsAssumption, AgreeInv, EventsInv', Handle
    PROVE  AgreeInv'
<1>1. UNCHANGED service
    BY DEF Handle
<1>2. AllFollow'
    BY <1>1, LookupFollows, ReadFollows, CreateFollows, AgainFollows, PatchFollows, DeleteFollows
       DEF Handle, FollowProfile, FindAccount
<1>3. UNCHANGED <<profiles, erased>>
    BY <1>1 DEF service, Handle, FollowProfile, FindAccount, GetAccountIDByKeycloakID,
                LookupProfile, createAccountForKey, LookupAgain, PatchAccount, SoftDeleteAccount
<1> QED
    BY <1>2, <1>3 DEF AgreeInv, AllFollow

-----------------------------------------------------------------------------

LEMMA AgreeInitially ==
    ASSUME AccountsAssumption, EventsAssumption, EventsInit
    PROVE  AgreeInv
<1>1. EventsInv
    BY EventsInitFits
<1>2. job[Consumer] = IdleJob /\ told = {} /\ erased = {}
      /\ \A k \in Keys : profiles[k] \in {0, 1}
    BY DEF EventsInit, Init, AccountsAssumption
<1>3. job[Consumer].op = "none" /\ job[Consumer].at = "none" /\ job[Consumer].key = NoKey
    BY <1>2 DEF IdleJob
<1>4. ASSUME NEW k \in Keys
      PROVE  Follows(k)
    <2>1. k # NoKey /\ profiles[k] \in {0, 1}
        BY <1>2 DEF AccountsAssumption
    <2> QED
        BY <1>2, <1>3, <2>1 DEF Follows, Filled, AccountComes, VersionComes, DeletionComes,
                                ReadsFollowed, HasRead, InHand
<1> QED
    BY <1>1, <1>2, <1>3, <1>4 DEF AgreeInv, ConsumerStages

LEMMA AgreeInvariant == EventsSpec => []AgreeInv
<1>1. EventsInit => AgreeInv
    BY AccountsAssumption, EventsAssumption, AgreeInitially
<1>2. AgreeInv /\ EventsInv' /\ [EventsNext]_eventVars => AgreeInv'
    <2> SUFFICES ASSUME AgreeInv, EventsInv', [EventsNext]_eventVars
                 PROVE  AgreeInv'
        OBVIOUS
    <2> USE AccountsAssumption, EventsAssumption
    <2>1. CASE UNCHANGED eventVars
        <3>1. UNCHANGED <<vars, service>>
            BY <2>1 DEF eventVars
        <3> QED
            BY <3>1, ListenerAgrees DEF vars, tables, service, Unhandled
    <2>2. ASSUME NEW k \in Keys, CreateProfile(k) \/ UpdateProfile(k) \/ DeleteProfile(k)
          PROVE  AgreeInv'
        BY <2>2, ProfilesAgree
    <2>3. CASE Enqueue \/ Ack \/ Redeliver
        <3>1. UNCHANGED <<accounts, job, profiles, told, erased, missed>>
            BY <2>3 DEF Enqueue, Ack, Redeliver, vars, tables
        <3> QED
            BY <2>3, <3>1, ListenerLosesNothing, ListenerAgrees DEF AgreeInv
    <2>4. CASE Restart
        BY <2>4, RestartAgrees
    <2>5. CASE HandleProfilesEvent
        BY <2>5, TakeAgrees
    <2>6. CASE Handle
        BY <2>6, HandleAgrees
    <2>7. CASE Drop
        BY <2>7, DropAgrees
    <2>8. CASE Others
        BY <2>8, OthersAgree
    <2> QED
        BY <2>1, <2>2, <2>3, <2>4, <2>5, <2>6, <2>7, <2>8 DEF EventsNext
<1> QED
    BY <1>1, <1>2, EventsInvariant, PTL DEF EventsSpec

(* Once the events are handled the accounts agree with the profiles, in     *)
(* whatever order events were repeated, profiles changed again, requests    *)
(* made the same account and the staff renamed others: what a handler read  *)
(* and found outdated by the service is followed by an event that says so,  *)
(* and only a key in missed lost one.                                       *)
THEOREM AccountsCatchUp == EventsSpec => []DrainedAgrees
<1>1. AgreeInv => DrainedAgrees
    <2> SUFFICES ASSUME AgreeInv, Drained, NEW k \in Keys \ missed
                 PROVE  /\ profiles[k] >= 1 /\ k \in told => WithKey(k) # {}
                        /\ profiles[k] >= 2 /\ profiles[k] \notin Cleared =>
                              \A a \in WithKey(k) : accounts[a].data = profiles[k]
                        /\ k \in erased => ~Live(k)
        BY DEF DrainedAgrees
    <2>1. \A event, l : ~Waits(event, l)
        BY DEF Drained, Waits, Unhandled
    <2>2. \A l : \A op \in {"create", "update", "delete"} : ~Handles(op, l)
        BY DEF Drained, Handles
    <2>3. Follows(k) /\ \A a, b \in WithKey(k) : a = b
        BY DEF AgreeInv, EventsInv, AccountsInv, OneAccountPerKey, WithKey
    <2>4. profiles[k] >= 1 /\ k \in told => WithKey(k) # {}
        BY <2>1, <2>2, <2>3 DEF Follows, AccountComes, Keeps
    <2>5. Filled(k) => \A a \in WithKey(k) : accounts[a].data = profiles[k]
        BY <2>1, <2>2, <2>3 DEF Follows, VersionComes, Keeps
    <2>6. k \in erased => ~Live(k)
        BY <2>1, <2>2, <2>3 DEF Follows, DeletionComes
    <2> QED
        BY <2>4, <2>5, <2>6 DEF Filled
<1> QED
    BY <1>1, AgreeInvariant, PTL

=============================================================================
