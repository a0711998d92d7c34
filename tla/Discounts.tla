----------------------------- MODULE Discounts -----------------------------
(* One member's Help-Haver requests, the grants they become, and the        *)
(* discounts an administrator gives by hand (repo/hh_request.go,            *)
(* repo/hh_grant.go, repo/manual_discount.go). Rows are never deleted but   *)
(* for pending requests; an ended row is dated to yesterday.                *)
(*                                                                          *)
(* A handler is a database transaction under READ COMMITTED. NOW() is the   *)
(* day it began. An UPDATE or DELETE first finds its rows (Scan), in what   *)
(* is committed then; it waits for those another transaction has locked,    *)
(* looks at them again and takes those that still match (Hold). What it     *)
(* writes is seen by the others when it commits, and its insert is part of  *)
(* that step: nobody sees the row before.                                   *)
EXTENDS Integers, Sequences, FiniteSets

CONSTANTS
    Sessions,         \* transactions that may be open at once
    GrantBenefits,    \* what an approval may grant
    ManualBenefits,   \* what a manual discount may be
    LastDay,          \* the clock stops here (a bound)
    MaxRows,          \* ids each table can hand out (a bound)
    MaxWrites,        \* transactions that may commit (a bound; each mix has its own)
    Mixes             \* which operations, tables and sessions meet (a bound)

Days == 1 .. LastDay

Operations == {"create", "conclude", "deny", "cancel", "upsert", "tick", "evaluate"}

Discounted == {"hh_grants", "manual_discount"}

ASSUME DiscountsAssumption ==
    /\ LastDay \in Nat \ {0} /\ MaxRows \in Nat /\ MaxWrites \in Nat
    /\ \A m \in Mixes : /\ m.ops \subseteq Operations /\ m.tables \subseteq Discounted
                        /\ m.sessions \subseteq Sessions /\ m.writes \in 0 .. MaxWrites

VARIABLES
    today,
    requests,   \* hh_requests, by id
    rows,       \* hh_grants and manual_discount, by id
    writes,     \* history: how many transactions have committed
    session,    \* per session: the transaction it runs
    mix         \* what may happen in this behaviour

discountVars == <<today, requests, rows, writes, session, mix>>

(* stamp and seen are history: the commit that wrote the row as it stands,  *)
(* and the last commit its transaction's search for older rows could see.   *)
HHRequest == [status : {"requested", "approved", "denied", "deleted"},
              stamp : 0 .. MaxWrites, seen : 0 .. MaxWrites]

Discount == [benefit : GrantBenefits \cup ManualBenefits, from : Days, until : Nat,
             request : 0 .. MaxRows,    \* of a grant: the request it is born from
             stamp : 0 .. MaxWrites, seen : 0 .. MaxWrites,
             day : Days]                \* history: NOW() of the transaction

(* target is the request to conclude, or the manual discount to change; 0   *)
(* is none.                                                                 *)
Job == [op : {"none", "create", "conclude", "cancel", "upsert"},
        at : {"none", "claim", "scan", "hold", "write"},
        table : Discounted, target : 0 .. MaxRows, day : Days, seen : 0 .. MaxWrites,
        scan : SUBSET (1 .. MaxRows), held : SUBSET (1 .. MaxRows)]

IdleJob == [op |-> "none", at |-> "none", table |-> "hh_grants", target |-> 0, day |-> 1,
            seen |-> 0, scan |-> {}, held |-> {}]

DiscountsInit ==
    /\ today = 1
    /\ requests = <<>>
    /\ rows = [t \in Discounted |-> <<>>]
    /\ writes = 0
    /\ session = [s \in Sessions |-> IdleJob]
    /\ mix \in Mixes

-----------------------------------------------------------------------------

ActiveOn(row, day) == row.until > day /\ row.from =< day

Pending == {i \in DOMAIN requests : requests[i].status = "requested"}

(* Mutant: a discount that starts today is not taken for one that holds.    *)
Superseded_Strict(j) ==
    IF j.op = "create" THEN Pending
    ELSE {i \in DOMAIN rows[j.table] : ActiveOn(rows[j.table][i], j.day)
                                       /\ rows[j.table][i].from < j.day
                                       /\ (j.op = "upsert" => i # j.target)}

(* The rows the statement that makes room applies to, as they stand now.    *)
Superseded(j) ==
    IF j.op = "create" THEN Pending
    ELSE {i \in DOMAIN rows[j.table] : ActiveOn(rows[j.table][i], j.day)
                                       /\ (j.op = "upsert" => i # j.target)}

(* What a transaction has locked: rows it will delete or end, and the       *)
(* request it concludes.                                                    *)
LockedRequests(j) ==
    CASE j.op = "create" -> j.held
      [] j.op = "conclude" /\ j.at \in {"scan", "hold", "write"} -> {j.target}
      [] OTHER -> {}

LockedDiscounts(j, t) == IF j.op \notin {"none", "create"} /\ j.table = t THEN j.held ELSE {}

RequestFree(s, ids) ==
    \A o \in Sessions \ {s} : LockedRequests(session[o]) \cap ids = {}

DiscountFree(s, t, ids) ==
    \A o \in Sessions \ {s} : LockedDiscounts(session[o], t) \cap ids = {}

Begin(s, op, at, table, target) ==
    /\ op \in mix.ops /\ s \in mix.sessions /\ writes < mix.writes
    /\ session[s] = IdleJob
    /\ session' = [session EXCEPT ![s] = [IdleJob EXCEPT !.op = op, !.at = at, !.table = table,
                                                         !.target = target, !.day = today]]
    /\ UNCHANGED <<today, requests, rows, writes, mix>>

(* The transaction is over: its locks go with it.                           *)
Release(s) == session' = [session EXCEPT ![s] = IdleJob]

Commit(s) == Release(s) /\ writes < mix.writes /\ writes' = writes + 1

BeginCreate(s) == Begin(s, "create", "scan", "hh_grants", 0)

BeginConclude(s) == \E id \in DOMAIN requests : Begin(s, "conclude", "claim", "hh_grants", id)

BeginCancel(s) == \E t \in mix.tables : Begin(s, "cancel", "scan", t, 0)

BeginUpsert(s) ==
    \E id \in {0} \cup DOMAIN rows["manual_discount"] :
        Begin(s, "upsert", "scan", "manual_discount", id)

(* Mutant: the status is not asked for.                                     *)
Undecided_Any(id) == requests[id].status # "deleted"

(* UPDATE hh_requests ... WHERE id AND status: a request concluded already, *)
(* or deleted for a newer one, is not found, and nothing is done.           *)
Undecided(id) == requests[id].status = "requested"

Claim(s) ==
    LET j == session[s] IN
    /\ j.at = "claim" /\ RequestFree(s, {j.target})
    /\ IF Undecided(j.target) THEN session' = [session EXCEPT ![s].at = "scan"] ELSE Release(s)
    /\ UNCHANGED <<today, requests, rows, writes, mix>>

Deny(id) ==
    /\ "deny" \in mix.ops /\ writes < mix.writes
    /\ Undecided(id) /\ \A o \in Sessions : id \notin LockedRequests(session[o])
    /\ requests' = [requests EXCEPT ![id].status = "denied"]
    /\ writes' = writes + 1
    /\ UNCHANGED <<today, rows, session, mix>>

Scan(s) ==
    /\ session[s].at = "scan"
    /\ session' = [session EXCEPT ![s].at = "hold", ![s].scan = Superseded(session[s]),
                                  ![s].seen = writes]
    /\ UNCHANGED <<today, requests, rows, writes, mix>>

Hold(s) ==
    LET j == session[s] IN
    /\ j.at = "hold"
    /\ IF j.op = "create" THEN RequestFree(s, j.scan) ELSE DiscountFree(s, j.table, j.scan)
    /\ session' = [session EXCEPT ![s].at = "write", ![s].held = j.scan \cap Superseded(j),
                                  ![s].scan = {}]
    /\ UNCHANGED <<today, requests, rows, writes, mix>>

(* SET end_date = NOW() - INTERVAL '1 day'.                                 *)
Ended(table, ids, day) ==
    [i \in DOMAIN table |-> IF i \in ids THEN [table[i] EXCEPT !.until = day - 1] ELSE table[i]]

CreateHHRequest(s) ==
    LET j == session[s] IN
    /\ j.at = "write" /\ j.op = "create" /\ Len(requests) < MaxRows
    /\ requests' = Append([i \in DOMAIN requests |-> IF i \in j.held
                                                     THEN [requests[i] EXCEPT !.status = "deleted"]
                                                     ELSE requests[i]],
                          [status |-> "requested", stamp |-> writes + 1, seen |-> j.seen])
    /\ Commit(s)
    /\ UNCHANGED <<today, rows, mix>>

(* A new row as j's transaction writes it.                                  *)
NewDiscount(j, benefit, from, until, request) ==
    [benefit |-> benefit, from |-> from, until |-> until, request |-> request,
     stamp |-> writes + 1, seen |-> j.seen, day |-> j.day]

(* A grant starts now, by the clock and not the transaction's NOW(), or on  *)
(* the day the administrator gives; its last day is at least a month later. *)
ConcludeHHRequest(s) ==
    LET j == session[s] IN
    /\ j.at = "write" /\ j.op = "conclude" /\ Len(rows["hh_grants"]) < MaxRows
    /\ \E benefit \in GrantBenefits, from \in Days, until \in 2 .. LastDay + 1 :
          /\ from < until
          /\ rows' = [rows EXCEPT !["hh_grants"] =
                        Append(Ended(@, j.held, j.day),
                               NewDiscount(j, benefit, from, until, j.target))]
    /\ requests' = [requests EXCEPT ![j.target].status = "approved"]
    /\ Commit(s)
    /\ UNCHANGED <<today, mix>>

(* CancelHHGrant, CancelManualDiscount: with no active row nothing is done. *)
Cancel(s) ==
    LET j == session[s] IN
    /\ j.at = "write" /\ j.op = "cancel"
    /\ rows' = [rows EXCEPT ![j.table] = Ended(@, j.held, j.day)]
    /\ IF j.held = {} THEN Release(s) /\ UNCHANGED writes ELSE Commit(s)
    /\ UNCHANGED <<today, requests, mix>>

(* A new discount, or the row asked for as the administrator rewrites it.   *)
UpsertManualDiscount(s) ==
    LET j == session[s]
        ended == Ended(rows["manual_discount"], j.held, j.day)
    IN
    /\ j.at = "write" /\ j.op = "upsert" /\ DiscountFree(s, j.table, {j.target})
    /\ \E benefit \in ManualBenefits, from \in Days, until \in 2 .. LastDay + 1 :
          LET new == NewDiscount(j, benefit, from, until, 0) IN
          /\ from < until
          /\ IF j.target # 0
             THEN rows' = [rows EXCEPT !["manual_discount"] = [ended EXCEPT ![j.target] = new]]
             ELSE /\ Len(ended) < MaxRows
                  /\ rows' = [rows EXCEPT !["manual_discount"] = Append(ended, new)]
    /\ Commit(s)
    /\ UNCHANGED <<today, requests, mix>>

(* A statement fails, the database breaks a deadlock or the request's       *)
(* client goes away: the transaction is rolled back.                        *)
Rollback(s) ==
    /\ session[s] # IdleJob
    /\ Release(s)
    /\ UNCHANGED <<today, requests, rows, writes, mix>>

Tick ==
    /\ "tick" \in mix.ops /\ today < LastDay
    /\ today' = today + 1
    /\ UNCHANGED <<requests, rows, writes, session, mix>>

Transaction(s) ==
    \/ BeginCreate(s) \/ BeginConclude(s) \/ BeginCancel(s) \/ BeginUpsert(s)
    \/ Claim(s) \/ Scan(s) \/ Hold(s)
    \/ CreateHHRequest(s) \/ ConcludeHHRequest(s) \/ Cancel(s) \/ UpsertManualDiscount(s)
    \/ Rollback(s)

DiscountsNext == (\E s \in Sessions : Transaction(s)) \/ (\E id \in DOMAIN requests : Deny(id)) \/ Tick

(* The rows that hold today.                                                *)
Active(table) == {i \in DOMAIN rows[table] : ActiveOn(rows[table][i], today)}

(* Mutant: the newest row, whenever it holds.                               *)
GetActive_Newest(table) == {Len(rows[table])} \ {0}

(* GetActiveHHGrant, GetActiveManualDiscount: the newest of them, or none.  *)
GetActive(table) == {i \in Active(table) : \A k \in Active(table) : k =< i}

-----------------------------------------------------------------------------

DiscountsTypeOK ==
    /\ today \in Days
    /\ requests \in Seq(HHRequest) /\ Len(requests) =< MaxRows
    /\ rows \in [Discounted -> Seq(Discount)]
    /\ \A t \in Discounted : Len(rows[t]) =< MaxRows
    /\ writes \in 0 .. MaxWrites
    /\ session \in [Sessions -> Job]
    /\ mix \in Mixes

(* A request is approved exactly when one grant is born from it, whatever   *)
(* conclusions of it, and newer requests that delete it, ran meanwhile.     *)
GrantsMatchRequests ==
    \A id \in DOMAIN requests :
        Cardinality({g \in DOMAIN rows["hh_grants"] : rows["hh_grants"][g].request = id})
        = IF requests[id].status = "approved" THEN 1 ELSE 0

(* Two requests are pending, or two discounts of a kind hold, together only *)
(* when the later writer could not have made room: the other was committed  *)
(* after that writer's search or, a discount, had not started by its NOW(). *)
OneHolds ==
    /\ \A p, q \in Pending : p # q => requests[p].stamp > requests[q].seen
    /\ \A t \in Discounted : \A g, h \in Active(t) :
          g # h /\ rows[t][g].stamp =< rows[t][h].seen => rows[t][g].from > rows[t][h].day
=============================================================================
