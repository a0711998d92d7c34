------------------------------ MODULE Accounts ------------------------------
(* Who owns what: the accounts, one per keycloak id, the orders that point  *)
(* at them by id and by "userkey", their cards and transactions, and the    *)
(* requests that create, merge, rename and delete accounts while others     *)
(* still hold an account id they have read. orders."AccountID" has no       *)
(* foreign key; card_details and transaction have one. A merge and a hard   *)
(* delete are one transaction each, one step here: an order inserted while  *)
(* one runs is an order inserted after it. A rename and the refresh of the  *)
(* orders' keys are two: what their statements see, and what they commit.   *)
(* The personal columns are one, data: the version of the profile they were *)
(* read from, or 0, as typed at a checkout. Staff can also give an order    *)
(* another account or card, and a card another account, by a PATCH of the   *)
(* row: nothing relates what they type to other rows, and it is left out.   *)
EXTENDS Naturals

CONSTANTS
    Keys, NoKey,          \* keycloak ids
    MaxAccounts,          \* how many ids the accounts table hands out (a bound)
    Orders, NoOrder,      \* ids the orders table can hand out (a bound)
    Cards, NoCard,        \* ids the card_details table can hand out (a bound)
    Workers,              \* what runs a handler: HTTP requests, event consumer
    Consumer,             \* the worker that handles the profile events
    StartAccounts,        \* the accounts tables to begin with
    Cleared,              \* the versions of a profile that leave the column empty
    Mixes                 \* what operations, keys and workers meet (a bound)

AccountIDs == 1 .. MaxAccounts

Removed == MaxAccounts + 1    \* of a row: it was deleted

AccountRow == [state : {"none", "live", "deleted", "gone"}, key : Keys \cup {NoKey}, data : Nat]

Operations == {"checkout", "offline", "token", "merge", "erase", "rename", "revert", "refresh",
               "staff", "add", "unkey", "create", "update", "delete"}

ASSUME AccountsAssumption ==
    /\ MaxAccounts \in Nat /\ Cleared \subseteq Nat
    /\ NoKey \notin Keys /\ NoOrder \notin Orders /\ NoCard \notin Cards
    /\ Consumer \in Workers
    /\ Mixes \subseteq [ops : SUBSET Operations, keys : SUBSET Keys,
                         workers : SUBSET Workers]
    /\ StartAccounts \subseteq [AccountIDs -> AccountRow]
    /\ \A table \in StartAccounts, a, b \in AccountIDs :
          /\ {table[a].state, table[b].state} \subseteq {"live", "deleted"}
          /\ table[a].key = table[b].key /\ table[a].key # NoKey
          => a = b

VARIABLES
    accounts,      \* the accounts table; a soft-deleted row keeps its key
    orders,        \* the orders table: owner, "userkey", card
    cards,         \* card_details: the owner of each card, 0 before it is made
    transactions,  \* transaction: the owner of each order's row, 0 if none
    trace,         \* operation_trace: the rename that was performed
    profiles,      \* the profile service: each profile's version, 0 if there is none
    job,           \* per worker: where its handler stands and what it has read
    orphaned,      \* history: orders inserted for, or merged into, an account that is gone
    misnamed,      \* history: orders left under a key while the account has another
    mix            \* the operations, keys and workers of this behaviour

tables == <<accounts, orders, cards, transactions, trace>>
vars == <<tables, profiles, job, orphaned, misnamed, mix>>

-----------------------------------------------------------------------------

OrderRow == [account : 0 .. Removed, userkey : Keys \cup {NoKey}, card : Cards \cup {NoCard}]

(* op is the handler; at, the statement it comes to next, or its commit.    *)
Job == [op : {"none", "checkout", "offline", "create", "update", "delete", "token", "merge",
              "rename", "revert", "refresh", "stopped"},
        at : {"none", "lookup", "read", "insert", "again", "patch", "delete", "order",
              "transaction", "card", "attach", "destination", "merge", "find", "commit",
              "write"},
        key : Keys \cup {NoKey},
        other : Keys \cup {NoKey},    \* merge: the destination; rename, revert: the new key
        data : Nat,
        account : 0 .. MaxAccounts,
        into : 0 .. MaxAccounts,      \* merge: the destination's id
        order : Orders \cup {NoOrder},
        card : Cards \cup {NoCard},
        seen : [Orders -> 0 .. Removed],       \* the orders its statement sees: their
                                               \* accounts then, 0 of the others
        keys : [AccountIDs -> Keys \cup {NoKey}]]   \* refresh: the accounts' keys then

IdleJob == [op |-> "none", at |-> "none", key |-> NoKey, other |-> NoKey, data |-> 0,
            account |-> 0, into |-> 0, order |-> NoOrder, card |-> NoCard,
            seen |-> [o \in Orders |-> 0], keys |-> [a \in AccountIDs |-> NoKey]]

NoTrace == [old |-> NoKey, new |-> NoKey, status |-> "none"]

TypeOK ==
    /\ accounts \in [AccountIDs -> AccountRow]
    /\ orders \in [Orders -> OrderRow]
    /\ cards \in [Cards -> 0 .. Removed]
    /\ transactions \in [Orders -> 0 .. Removed]
    /\ trace \in [old : Keys \cup {NoKey}, new : Keys \cup {NoKey},
                  status : {"none", "success", "reverted"}]
    /\ profiles \in [Keys -> Nat]
    /\ job \in [Workers -> Job]
    /\ orphaned \cup misnamed \subseteq Orders
    /\ mix \in Mixes

Init ==
    /\ accounts \in StartAccounts
    /\ orders = [o \in Orders |-> [account |-> 0, userkey |-> NoKey, card |-> NoCard]]
    /\ cards = [c \in Cards |-> 0]
    /\ transactions = [o \in Orders |-> 0]
    /\ trace = NoTrace
    /\ profiles \in [Keys -> {0, 1}]
    /\ job = [w \in Workers |-> IdleJob]
    /\ orphaned = {} /\ misnamed = {}
    /\ mix \in Mixes

-----------------------------------------------------------------------------

Exists(a) == a \in AccountIDs /\ accounts[a].state \in {"live", "deleted"}

(* accounts_userkey_uniq: at most one; a soft-deleted account still has its *)
(* key. No key is NULL, which equals nothing.                               *)
WithKey(k) == {a \in AccountIDs : Exists(a) /\ accounts[a].key = k /\ k # NoKey}

OrderExists(o) == orders[o].account \notin {0, Removed}

At(w, op, at) == job[w].op = op /\ job[w].at = at

Goto(w, at) == job' = [job EXCEPT ![w].at = at]

Answer(w) == job' = [job EXCEPT ![w] = IdleJob]

Begin(w, j) ==
    /\ j.op \in mix.ops /\ w \in mix.workers
    /\ job[w].op = "none"
    /\ job' = [job EXCEPT ![w] = j]

(* An error answer or a crash between two statements.                       *)
Cut(w) ==
    /\ job[w].op \notin {"none", "stopped"}
    /\ Answer(w)
    /\ UNCHANGED <<tables, profiles, orphaned, misnamed, mix>>

-----------------------------------------------------------------------------
(* GetOrCreateAccount (checkout), GetOrCreateAccountFromProfile (an offline *)
(* sale, a created profile), PatchOrCreateAccount (an updated profile).     *)

BeginCheckout(w, k) ==
    /\ Begin(w, [IdleJob EXCEPT !.op = "checkout", !.at = "lookup", !.key = k])
    /\ UNCHANGED <<tables, profiles, orphaned, misnamed, mix>>

BeginOffline(w, k) ==
    /\ Begin(w, [IdleJob EXCEPT !.op = "offline", !.at = "lookup", !.key = k])
    /\ UNCHANGED <<tables, profiles, orphaned, misnamed, mix>>

(* Where the handler goes with the account it has found or made.            *)
AfterAccount(op, created) ==
    CASE op \in {"checkout", "offline"} -> "order"
      [] op = "update" /\ ~created -> "patch"
      [] op = "delete" -> "delete"
      [] OTHER -> "none"

Proceed(w, a, created) ==
    LET at == AfterAccount(job[w].op, created) IN
    job' = [job EXCEPT ![w] = IF at = "none" THEN IdleJob
                              ELSE [@ EXCEPT !.at = at, !.account = a]]

GetAccountIDByKeycloakID(w) ==
    /\ job[w].at = "lookup"
    /\ \/ \E a \in WithKey(job[w].key) : Proceed(w, a, FALSE)
       \/ /\ WithKey(job[w].key) = {}
          /\ CASE job[w].op \in {"offline", "create"} -> Goto(w, "read")
               [] job[w].op = "delete" -> Answer(w)
               [] OTHER -> Goto(w, "insert")
    /\ UNCHANGED <<tables, profiles, orphaned, misnamed, mix>>

(* The profile as it is now, whatever the event said; none is an error.     *)
LookupProfile(w) ==
    /\ job[w].at = "read"
    /\ IF profiles[job[w].key] = 0 THEN Answer(w)
       ELSE job' = [job EXCEPT ![w].data = profiles[job[w].key],
                               ![w].at = IF job[w].op = "update" THEN "lookup" ELSE "insert"]
    /\ UNCHANGED <<tables, profiles, orphaned, misnamed, mix>>

NewAccount(k, data) == [state |-> "live", key |-> k, data |-> data]

Fresh(a) == a \in AccountIDs /\ accounts[a].state = "none"
            /\ \A b \in 1 .. a - 1 : accounts[b].state # "none"

Insert(a, k, data) == Fresh(a) /\ accounts' = [accounts EXCEPT ![a] = NewAccount(k, data)]

(* Mutant of createAccountForKey: nothing keeps the key unique.             *)
createAccountForKey_NoIndex(w) ==
    /\ job[w].at = "insert"
    /\ \E a \in AccountIDs : Insert(a, job[w].key, job[w].data) /\ Proceed(w, a, TRUE)
    /\ UNCHANGED <<orders, cards, transactions, trace, profiles, orphaned, misnamed, mix>>

(* The insert gives way to an account made for the key meanwhile.           *)
createAccountForKey(w) ==
    /\ job[w].at = "insert"
    /\ \/ /\ WithKey(job[w].key) = {}
          /\ \E a \in AccountIDs : Insert(a, job[w].key, job[w].data) /\ Proceed(w, a, TRUE)
       \/ /\ WithKey(job[w].key) # {}
          /\ Goto(w, "again")
          /\ UNCHANGED accounts
    /\ UNCHANGED <<orders, cards, transactions, trace, profiles, orphaned, misnamed, mix>>

(* Mutant of AfterConflict: the account made by the other is left as it is. *)
AfterConflict_NoPatch(w, a) == Proceed(w, a, TRUE)

AfterConflict(w, a) == Proceed(w, a, FALSE)

(* The lookup after the conflict; the account may be gone again.            *)
LookupAgain(w) ==
    /\ job[w].at = "again"
    /\ \/ \E a \in WithKey(job[w].key) : AfterConflict(w, a)
       \/ WithKey(job[w].key) = {} /\ Answer(w)
    /\ UNCHANGED <<tables, profiles, orphaned, misnamed, mix>>

(* The order is under a key, and its account has another.                  *)
Disagrees(o) ==
    /\ orders[o].userkey # NoKey
    /\ Exists(orders[o].account)
    /\ orders[o].userkey # accounts[orders[o].account].key

(* History, of a step that may part an order from its account's key.        *)
MayPart == misnamed' = misnamed \cup {o \in Orders : Disagrees(o)'}

(* An empty column is left as it is. The key is one of the columns: it is   *)
(* refused if another account has it, and comes back to an account that was *)
(* renamed meanwhile.                                                       *)
Patched(a, k, data) ==
    /\ Exists(a) /\ WithKey(k) \subseteq {a}
    /\ accounts' = [accounts EXCEPT ![a].key = k,
                                    ![a].data = IF data \in Cleared THEN @ ELSE data]
    /\ UNCHANGED orders
    /\ MayPart

PatchAccount(w) ==
    /\ job[w].at = "patch"
    /\ \/ Patched(job[w].account, job[w].key, job[w].data)
       \/ /\ ~Exists(job[w].account) \/ ~(WithKey(job[w].key) \subseteq {job[w].account})
          /\ UNCHANGED <<accounts, orders, misnamed>>
    /\ Answer(w)
    /\ UNCHANGED <<cards, transactions, trace, profiles, orphaned, mix>>

SoftDeleted(a) ==
    accounts' = IF Exists(a) THEN [accounts EXCEPT ![a].state = "deleted"] ELSE accounts

SoftDeleteAccount(w) ==
    /\ job[w].at = "delete"
    /\ SoftDeleted(job[w].account)
    /\ Answer(w)
    /\ UNCHANGED <<orders, cards, transactions, trace, profiles, orphaned, misnamed, mix>>

(* The order is for the id found, whether its account is still there or not.*)
InsertOrder(w) ==
    /\ job[w].at = "order"
    /\ \E o \in Orders :
          /\ orders[o].account = 0
          /\ orders' = [orders EXCEPT ![o].account = job[w].account]
          /\ orphaned' = orphaned \cup {x \in {o} : ~Exists(job[w].account)}
          /\ job' = [job EXCEPT ![w] = IF @.op = "checkout"
                                       THEN [@ EXCEPT !.at = "transaction", !.order = o]
                                       ELSE IdleJob]
    /\ UNCHANGED <<accounts, cards, transactions, trace, profiles, misnamed, mix>>

(* The foreign keys: on the account and on the order.                       *)
InsertTransaction(w) ==
    /\ job[w].at = "transaction"
    /\ transactions' = IF Exists(job[w].account) /\ OrderExists(job[w].order)
                       THEN [transactions EXCEPT ![job[w].order] = job[w].account]
                       ELSE transactions
    /\ Answer(w)
    /\ UNCHANGED <<accounts, orders, cards, trace, profiles, orphaned, misnamed, mix>>

-----------------------------------------------------------------------------
(* UpdateOrdersToken: the owner is read, the card inserted, the order       *)
(* pointed to it.                                                           *)

BeginToken(w, o) ==
    /\ OrderExists(o) /\ Exists(orders[o].account)
    /\ Begin(w, [IdleJob EXCEPT !.op = "token", !.at = "card", !.order = o,
                                !.account = orders[o].account])
    /\ UNCHANGED <<tables, profiles, orphaned, misnamed, mix>>

(* The foreign key on the account.                                          *)
CreateCardDetails(w) ==
    /\ job[w].at = "card"
    /\ \E c \in Cards :
          /\ cards[c] = 0
          /\ Exists(job[w].account)
          /\ cards' = [cards EXCEPT ![c] = job[w].account]
          /\ job' = [job EXCEPT ![w].at = "attach", ![w].card = c]
    /\ UNCHANGED <<accounts, orders, transactions, trace, profiles, orphaned, misnamed, mix>>

AttachCard(w) ==
    /\ job[w].at = "attach"
    /\ orders' = IF OrderExists(job[w].order)
                 THEN [orders EXCEPT ![job[w].order].card = job[w].card] ELSE orders
    /\ Answer(w)
    /\ UNCHANGED <<accounts, cards, transactions, trace, profiles, orphaned, misnamed, mix>>

-----------------------------------------------------------------------------
(* MergeAccountsOrders and HardDeleteAllUserDataByAccountID.                *)

BeginMerge(w, source, destination) ==
    /\ source # destination
    /\ \E a \in WithKey(source) :
          Begin(w, [IdleJob EXCEPT !.op = "merge", !.at = "destination", !.key = source,
                                   !.other = destination, !.account = a])
    /\ UNCHANGED <<tables, profiles, orphaned, misnamed, mix>>

ReadDestination(w) ==
    /\ At(w, "merge", "destination")
    /\ \/ \E b \in WithKey(job[w].other) :
             job' = [job EXCEPT ![w].at = "merge", ![w].into = b]
       \/ WithKey(job[w].other) = {} /\ Answer(w)
    /\ UNCHANGED <<tables, profiles, orphaned, misnamed, mix>>

Move(owners, a, b) == [x \in DOMAIN owners |-> IF owners[x] = a THEN b ELSE owners[x]]

(* Mutant of MovedCards: the cards stay, and go with their account.         *)
MovedCards_Deleted(a, b) == Move(cards, a, Removed)

MovedCards(a, b) == Move(cards, a, b)

(* Mutant of MovedOrders: the orders keep the source's "userkey".           *)
MovedOrders_KeepKey(a, b, k, l) ==
    [o \in Orders |-> [orders[o] EXCEPT !.account = IF @ = a THEN b ELSE @]]

(* By the id, and by the key: each in a statement of its own.               *)
MovedOrders(a, b, k, l) ==
    [o \in Orders |-> [orders[o] EXCEPT !.account = IF @ = a THEN b ELSE @,
                                        !.userkey = IF @ = k THEN l ELSE @]]

(* The ids are those read before: either account may be gone, and they are  *)
(* one where the source was given the destination's key between the reads.  *)
(* A row that would be left to an account that is gone breaks its foreign   *)
(* key.                                                                     *)
Merge(w) ==
    LET a == job[w].account
        b == job[w].into
        owned == {x \in Cards : cards[x] = a} \cup {o \in Orders : transactions[o] = a}
        remains == Exists(b) /\ b # a
    IN  /\ At(w, "merge", "merge")
        /\ remains \/ owned = {}
        /\ cards' = MovedCards(a, b)
        /\ orders' = MovedOrders(a, b, job[w].key, job[w].other)
        /\ transactions' = Move(transactions, a, b)
        /\ accounts' = IF Exists(a) THEN [accounts EXCEPT ![a].state = "gone"] ELSE accounts
        /\ orphaned' = IF remains THEN {o \in orphaned : orders[o].account # a}
                       ELSE orphaned \cup {o \in Orders : orders[o].account = a}
        /\ IF /\ Exists(a) /\ accounts[a].key = job[w].key
              /\ Exists(b) /\ accounts[b].key = job[w].other
           THEN UNCHANGED misnamed
           ELSE MayPart
        /\ Answer(w)
        /\ UNCHANGED <<trace, profiles, mix>>

Erased(owners, a) == Move(owners, a, Removed)

HardDelete(a) ==
    /\ "erase" \in mix.ops /\ Exists(a)
    /\ accounts' = [accounts EXCEPT ![a].state = "gone"]
    /\ cards' = Erased(cards, a)
    /\ transactions' = Erased(transactions, a)
    /\ LET owner == Erased([o \in Orders |-> orders[o].account], a) IN
       orders' = [o \in Orders |-> [orders[o] EXCEPT !.account = owner[o]]]
    /\ UNCHANGED <<trace, profiles, job, orphaned, misnamed, mix>>

-----------------------------------------------------------------------------
(* PerformOperation: a rename, one transaction. The accounts row changes    *)
(* only where the old email is the one given (matches); the orders change   *)
(* whatever came of it: those that the statement sees under the old key and *)
(* that, once their rows are its own, are under it still. A statement that  *)
(* meets a row of an open transaction waits: it comes after that commit. A  *)
(* new key that has an account refuses the whole.                           *)

UnderKey(k) == [o \in Orders |-> IF orders[o].userkey = k THEN orders[o].account ELSE 0]

BeginRename(w, old, new) ==
    /\ trace = NoTrace     \* one rename, or some at once (a bound)
    /\ old # new
    /\ Begin(w, [IdleJob EXCEPT !.op = "rename", !.at = "commit", !.key = old, !.other = new,
                                !.seen = UnderKey(old)])
    /\ UNCHANGED <<tables, profiles, orphaned, misnamed, mix>>

Found(w) == {o \in Orders : job[w].seen[o] # 0 /\ orders[o].userkey = job[w].key}

(* The orders of a renamed account that came under its old key too late.    *)
Missed(w) == {o \in Orders : /\ orders[o].userkey = job[w].key
                             /\ orders[o].account \in WithKey(job[w].key)} \ Found(w)

Rename(w, matches) ==
    LET renamed == IF matches THEN WithKey(job[w].key) ELSE {} IN
    /\ renamed = {} \/ WithKey(job[w].other) = {}
    /\ accounts' = [a \in AccountIDs |->
          IF a \in renamed THEN [accounts[a] EXCEPT !.key = job[w].other] ELSE accounts[a]]
    /\ orders' = [o \in Orders |->
          IF o \in Found(w) THEN [orders[o] EXCEPT !.userkey = job[w].other] ELSE orders[o]]
    /\ IF renamed # {} THEN misnamed' = misnamed \cup Missed(w) ELSE MayPart

Refused(w, matches) ==
    /\ matches /\ WithKey(job[w].key) # {} /\ WithKey(job[w].other) # {}
    /\ UNCHANGED <<accounts, orders, trace, misnamed>>

PerformOperation(w, matches) ==
    /\ At(w, "rename", "commit")
    /\ \/ /\ Rename(w, matches)
          /\ trace' = [old |-> job[w].key, new |-> job[w].other, status |-> "success"]
       \/ Refused(w, matches)
    /\ Answer(w)
    /\ UNCHANGED <<cards, transactions, profiles, orphaned, mix>>

(* RevertOperation: the trace is read before the transaction.               *)
ReadTrace(w) ==
    /\ trace.status = "success"
    /\ Begin(w, [IdleJob EXCEPT !.op = "revert", !.at = "find",
                                !.key = trace.new, !.other = trace.old])
    /\ UNCHANGED <<tables, profiles, orphaned, misnamed, mix>>

FindOrders(w) ==
    /\ At(w, "revert", "find")
    /\ job' = [job EXCEPT ![w].at = "commit", ![w].seen = UnderKey(job[w].key)]
    /\ UNCHANGED <<tables, profiles, orphaned, misnamed, mix>>

RevertOperation(w, matches) ==
    /\ At(w, "revert", "commit")
    /\ \/ Rename(w, matches) /\ trace' = [trace EXCEPT !.status = "reverted"]
       \/ Refused(w, matches)
    /\ Answer(w)
    /\ UNCHANGED <<cards, transactions, profiles, orphaned, mix>>

(* The refresh of a billing run, or of a flagging by hand: one statement,   *)
(* which joins the orders with the accounts as they are when it begins. It  *)
(* gives the order the key it saw, unless the order has moved meanwhile.    *)
BeginRefresh(w) ==
    /\ Begin(w, [IdleJob EXCEPT !.op = "refresh", !.at = "write",
                    !.seen = [o \in Orders |-> IF Exists(orders[o].account)
                                               THEN orders[o].account ELSE 0],
                    !.keys = [a \in AccountIDs |-> accounts[a].key]])
    /\ UNCHANGED <<tables, profiles, orphaned, misnamed, mix>>

UpdateOrdersUserKeyFromAccounts(w) ==
    LET keys == job[w].keys
        written == {o \in Orders : job[w].seen[o] # 0 /\ job[w].seen[o] = orders[o].account}
    IN  /\ At(w, "refresh", "write")
        /\ orders' = [o \in Orders |-> IF o \in written
              THEN [orders[o] EXCEPT !.userkey = keys[orders[o].account]] ELSE orders[o]]
        /\ misnamed' = (misnamed \ written) \cup
              {o \in written : accounts[orders[o].account].key # keys[orders[o].account]}
        /\ Answer(w)
        /\ UNCHANGED <<accounts, cards, transactions, trace, profiles, orphaned, mix>>

-----------------------------------------------------------------------------
(* The accounts as staff edit them, a statement each.                       *)

CreateAccount(k) ==
    /\ "add" \in mix.ops /\ WithKey(k) = {}
    /\ \E a \in AccountIDs : Insert(a, k, 0)
    /\ UNCHANGED <<orders, cards, transactions, trace, profiles, job, orphaned, misnamed, mix>>

PatchByStaff(a, k) ==
    /\ "staff" \in mix.ops
    /\ Patched(a, k, 0)
    /\ UNCHANGED <<cards, transactions, trace, profiles, job, orphaned, mix>>

(* An empty key is stored as none.                                          *)
ForgetKey(a) ==
    /\ "unkey" \in mix.ops
    /\ Patched(a, NoKey, 0)
    /\ UNCHANGED <<cards, transactions, trace, profiles, job, orphaned, mix>>

DeleteByStaff(a) ==
    /\ "staff" \in mix.ops /\ Exists(a)
    /\ SoftDeleted(a)
    /\ UNCHANGED <<orders, cards, transactions, trace, profiles, job, orphaned, misnamed, mix>>

-----------------------------------------------------------------------------

FindAccount(w) ==
    \/ GetAccountIDByKeycloakID(w) \/ LookupProfile(w) \/ createAccountForKey(w)
    \/ LookupAgain(w)

FollowProfile(w) == FindAccount(w) \/ PatchAccount(w) \/ SoftDeleteAccount(w)

Step(w) ==
    \/ FindAccount(w)
    \/ InsertOrder(w) \/ InsertTransaction(w)
    \/ CreateCardDetails(w) \/ AttachCard(w)
    \/ ReadDestination(w) \/ Merge(w)
    \/ FindOrders(w) \/ UpdateOrdersUserKeyFromAccounts(w)
    \/ \E matches \in BOOLEAN : PerformOperation(w, matches) \/ RevertOperation(w, matches)

Request(w) ==
    \/ \E k \in mix.keys : BeginCheckout(w, k) \/ BeginOffline(w, k)
    \/ \E o \in Orders : BeginToken(w, o)
    \/ \E source, destination \in Keys : BeginMerge(w, source, destination)
    \/ \E old, new \in Keys : BeginRename(w, old, new)
    \/ ReadTrace(w) \/ BeginRefresh(w) \/ Cut(w)

Staff ==
    \/ \E a \in AccountIDs : HardDelete(a) \/ DeleteByStaff(a) \/ ForgetKey(a)
    \/ \E k \in Keys : CreateAccount(k)
    \/ \E a \in AccountIDs, k \in Keys : PatchByStaff(a, k)

Next == Staff \/ \E w \in Workers \ {Consumer} : Step(w) \/ Request(w)

Spec == Init /\ [][Next]_vars

-----------------------------------------------------------------------------

(* Two requests that find no account for a keycloak id make one between     *)
(* them, and every request that has an account in hand acts on that one:    *)
(* no two accounts of one key, whatever created, merged or renamed them.    *)
OneAccountPerKey ==
    \A a, b \in AccountIDs :
        Exists(a) /\ b \in WithKey(accounts[a].key) => a = b

(* An order, its card and its transaction belong to one account, across     *)
(* merges and deletes that fall between the insert of a card and the update *)
(* that points the order at it; and no order points at a card deleted with  *)
(* another account. That account exists: an order whose account is gone was *)
(* inserted, or moved, for an id read before the account went, or merged    *)
(* into the account it had, which went; none was left behind by any other   *)
(* merge or by a hard delete.                                               *)
RowsOfOneAccount ==
    \A o \in Orders : OrderExists(o) =>
        /\ Exists(orders[o].account) \/ o \in orphaned
        /\ orders[o].card # NoCard => cards[orders[o].card] = orders[o].account
        /\ transactions[o] # 0 => transactions[o] = orders[o].account

(* The "userkey" of an order is its account's key through merges, renames,  *)
(* reverts and refreshes that run into one another. Except where the key    *)
(* was patched on the account alone, the rename's email matched no account, *)
(* an id read before was stale, the order came under the old key when the   *)
(* rename had looked for such orders, or the refresh wrote the key it had   *)
(* seen before the account was given another.                               *)
UserKeyFollows == \A o \in Orders : Disagrees(o) => o \in misnamed
=============================================================================
