--------------------------- MODULE ProfileEvents ---------------------------
(* The accounts follow the profile service by its events: a durable stream, *)
(* the listener that puts each message in a queue of the process and        *)
(* acknowledges it there and then, and the one goroutine that handles the   *)
(* queue while requests create accounts of their own. A handler reads the   *)
(* profile as it is when it runs.                                           *)
EXTENDS Accounts, Sequences

CONSTANTS
    Capacity,       \* of the queue
    MaxVersion,     \* of a profile (a bound)
    MaxDeliveries,  \* how many messages come again (a bound)
    MaxRestarts     \* of the process (a bound)

ASSUME EventsAssumption ==
    /\ Capacity \in Nat \ {0}
    /\ MaxVersion \in Nat /\ MaxDeliveries \in Nat /\ MaxRestarts \in Nat

VARIABLES
    stream,      \* the messages the service has not had acknowledged
    delivered,   \* the first of them is in the queue
    queue,       \* EventListener.queue
    again,       \* how many messages came again
    restarts,
    erased,      \* the profiles deleted, for good
    told,        \* history: the keys of which there was an event
    missed       \* history: keys of events lost with the queue or on an error, or
                 \* whose account a request took away, edited or made too late

service == <<stream, delivered, queue, again, restarts, erased, told, missed>>
eventVars == <<vars, service>>

Event == [type : {"create", "update", "delete"}, key : Keys]

EventsTypeOK ==
    /\ TypeOK
    /\ stream \in Seq(Event) /\ delivered \in BOOLEAN
    /\ queue \in Seq(Event) /\ Len(queue) <= Capacity
    /\ again \in 0 .. MaxDeliveries /\ restarts \in 0 .. MaxRestarts
    /\ erased \cup told \cup missed \subseteq Keys

EventsInit ==
    /\ Init
    /\ \A k \in Keys : profiles[k] # 0 => "update" \in mix.ops /\ k \in mix.keys
    /\ stream = <<>> /\ delivered = FALSE /\ queue = <<>>
    /\ again = 0 /\ restarts = 0
    /\ erased = {} /\ told = {} /\ missed = {}

-----------------------------------------------------------------------------
(* The profile service.                                                     *)

ChangeProfile(k, version, type) ==
    /\ type \in mix.ops /\ k \in mix.keys
    /\ profiles' = [profiles EXCEPT ![k] = version]
    /\ stream' = Append(stream, [type |-> type, key |-> k])
    /\ told' = told \cup {k}
    /\ UNCHANGED <<tables, job, orphaned, misnamed, mix, delivered, queue, again, restarts,
                   missed>>

CreateProfile(k) ==
    /\ profiles[k] = 0 /\ k \notin erased
    /\ ChangeProfile(k, 1, "create")
    /\ UNCHANGED erased

UpdateProfile(k) ==
    /\ profiles[k] # 0
    /\ \E version \in profiles[k] + 1 .. MaxVersion : ChangeProfile(k, version, "update")
    /\ UNCHANGED erased

DeleteProfile(k) ==
    /\ profiles[k] # 0
    /\ ChangeProfile(k, 0, "delete")
    /\ erased' = erased \cup {k}

-----------------------------------------------------------------------------
(* The listener.                                                            *)

(* Mutant of Enqueue: nothing waits for room.                               *)
Enqueue_Unbounded ==
    /\ stream # <<>> /\ ~delivered
    /\ queue' = Append(queue, Head(stream))
    /\ delivered' = TRUE
    /\ UNCHANGED <<vars, stream, again, restarts, erased, told, missed>>

(* handleMessage: the message waits here while the queue is full.           *)
Enqueue ==
    /\ stream # <<>> /\ ~delivered
    /\ Len(queue) < Capacity
    /\ queue' = Append(queue, Head(stream))
    /\ delivered' = TRUE
    /\ UNCHANGED <<vars, stream, again, restarts, erased, told, missed>>

Ack ==
    /\ delivered
    /\ stream' = Tail(stream)
    /\ delivered' = FALSE
    /\ UNCHANGED <<vars, queue, again, restarts, erased, told, missed>>

(* The acknowledgement is late or lost: the message comes again, and after  *)
(* those that were already on their way.                                    *)
Redeliver ==
    /\ delivered /\ again < MaxDeliveries
    /\ again' = again + 1
    /\ stream' = Append(Tail(stream), Head(stream))
    /\ delivered' = FALSE
    /\ UNCHANGED <<vars, queue, restarts, erased, told, missed>>

(* What the process has not handled is gone; what it has not acknowledged   *)
(* comes again.                                                             *)
Restart ==
    /\ queue # <<>> \/ delivered \/ job[Consumer].op # "none"
    /\ restarts < MaxRestarts
    /\ restarts' = restarts + 1
    /\ missed' = missed \cup {queue[i].key : i \in 1 .. Len(queue)}
                        \cup ({job[Consumer].key} \cap Keys)
    /\ queue' = <<>> /\ delivered' = FALSE
    /\ job' = [w \in Workers |-> IdleJob]
    /\ UNCHANGED <<tables, profiles, orphaned, misnamed, mix, stream, again, erased, told>>

-----------------------------------------------------------------------------
(* The consumer: Run's goroutine and HandleProfilesEvent.                   *)

(* An updated profile is read first, the account of another looked up.      *)
HandleProfilesEvent ==
    /\ queue # <<>>
    /\ job[Consumer].op = "none"
    /\ queue' = Tail(queue)
    /\ job' = [job EXCEPT ![Consumer] =
                   [IdleJob EXCEPT !.op = Head(queue).type, !.key = Head(queue).key,
                                   !.at = IF Head(queue).type = "update"
                                          THEN "read" ELSE "lookup"]]
    /\ UNCHANGED <<tables, profiles, orphaned, misnamed, mix, stream, delivered, again,
                   restarts, erased, told, missed>>

(* Mutant of Dropped: a panic ends the goroutine and nothing runs it again. *)
Dropped_Stopped == [job EXCEPT ![Consumer] = [IdleJob EXCEPT !.op = "stopped"]]

Dropped == [job EXCEPT ![Consumer] = IdleJob]

(* A handler's error is logged, a panic is recovered and Run starts again:  *)
(* either way the event is behind.                                          *)
Drop ==
    /\ job[Consumer].op \notin {"none", "stopped"}
    /\ job' = Dropped
    /\ missed' = missed \cup {job[Consumer].key}
    /\ UNCHANGED <<tables, profiles, orphaned, misnamed, mix, stream, delivered, queue, again,
                   restarts, erased, told>>

Handle == FollowProfile(Consumer) /\ UNCHANGED service

-----------------------------------------------------------------------------

Live(k) == \E a \in WithKey(k) : accounts[a].state = "live"

Rows(k) == {accounts[a] : a \in WithKey(k)}

Others ==
    /\ Next
    /\ missed' = missed \cup {k \in Keys : Rows(k) # {} /\ Rows(k)' # Rows(k)}
                        \cup {k \in erased : ~Live(k) /\ Live(k)'}
    /\ UNCHANGED <<stream, delivered, queue, again, restarts, erased, told>>

EventsNext ==
    \/ \E k \in Keys : CreateProfile(k) \/ UpdateProfile(k) \/ DeleteProfile(k)
    \/ Enqueue \/ Ack \/ Redeliver \/ Restart
    \/ HandleProfilesEvent \/ Handle \/ Drop
    \/ Others

(* The goroutines of the listener run; nothing forces a request, a change   *)
(* of a profile, an error or a restart.                                     *)
EventsFairness ==
    /\ WF_eventVars(Enqueue) /\ WF_eventVars(Ack)
    /\ WF_eventVars(HandleProfilesEvent) /\ WF_eventVars(Handle)

EventsSpec == EventsInit /\ [][EventsNext]_eventVars /\ EventsFairness

-----------------------------------------------------------------------------

Drained == stream = <<>> /\ queue = <<>> /\ job[Consumer].op = "none"

(* Once the events are handled, each profile has its account, with what its *)
(* last version fills in if it was ever updated (a column that the version  *)
(* leaves empty keeps what it had), and no account of a deleted profile is  *)
(* live: whatever events came again, later than others, or met a request    *)
(* creating the same account. Except for keys whose events a restart or an  *)
(* error lost, and those a request edited itself.                           *)
DrainedAgrees ==
    Drained => \A k \in Keys \ missed :
        /\ profiles[k] >= 1 /\ k \in told => WithKey(k) # {}
        /\ profiles[k] >= 2 /\ profiles[k] \notin Cleared =>
              \A a \in WithKey(k) : accounts[a].data = profiles[k]
        /\ k \in erased => ~Live(k)

(* The listener gets through its events: a full queue, a failing handler, a *)
(* panic and a restart only delay it. Profiles change a bounded number of   *)
(* times.                                                                   *)
EventuallyDrained == <>[](stream = <<>> /\ queue = <<>>)
=============================================================================
