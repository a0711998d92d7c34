----------------------------- MODULE MCMembers -----------------------------
(* Two keycloak ids, which both have an account to begin with, or none. The *)
(* operations meet in nine mixes: checkouts, cards, merges and erasures;    *)
(* checkouts, renames and the refresh with staff edits, and with reverts;   *)
(* checkouts and merges while keys are emptied; merges of an account that   *)
(* is renamed, while staff add accounts; profiles made and updated with     *)
(* checkouts, and with staff edits; profiles made and deleted with offline  *)
(* sales; all of a profile's events with renames. The second version of a   *)
(* profile leaves the column empty.                                         *)
EXTENDS ProfileEvents

CONSTANTS k1, k2, r1, r2, events

MCWorkers == {r1, r2, events}

Table(ks) == [a \in AccountIDs |-> IF a <= Len(ks) THEN NewAccount(ks[a], 0)
                                   ELSE [state |-> "none", key |-> NoKey, data |-> 0]]

MCStartAccounts == {Table(<<>>), Table(<<k1, k2>>)}

MCMixes ==
    {[ops |-> {"checkout", "token", "merge", "erase"}, keys |-> {k1, k2}, workers |-> {r1, r2}],
     [ops |-> {"checkout", "rename", "refresh", "staff"}, keys |-> {k1}, workers |-> {r1, r2}],
     [ops |-> {"checkout", "rename", "revert", "refresh"}, keys |-> {k1}, workers |-> {r1, r2}],
     [ops |-> {"checkout", "merge", "refresh", "unkey"}, keys |-> {k1, k2}, workers |-> {r1}],
     [ops |-> {"checkout", "merge", "rename", "add"}, keys |-> {k1}, workers |-> {r1, r2}],
     [ops |-> {"checkout", "create", "update"}, keys |-> {k1}, workers |-> {r1}],
     [ops |-> {"staff", "create", "update"}, keys |-> {k1}, workers |-> {r1}],
     [ops |-> {"offline", "create", "delete"}, keys |-> {k1}, workers |-> {r1}],
     [ops |-> {"rename", "create", "update", "delete"}, keys |-> {k1}, workers |-> {r1}]}
=============================================================================
