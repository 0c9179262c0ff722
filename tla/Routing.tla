------------------------------ MODULE Routing ------------------------------
(* Proxy and call_cleanup: where a request of a user is sent, what the      *)
(* registration says about the user's source address, and what the row of  *)
(* a call in sip_calls says about the call.                                 *)
(*                                                                          *)
(* A task is the handling of one request; every SQL statement, and every   *)
(* use of active_dialogs under its lock, is a step.  The source of a        *)
(* request is a pair <<IP address, port>>: behind a NAT the port of a user  *)
(* changes without notice.  A registration that expired, or was removed,    *)
(* is no registration.  Responses, media and voicemail are CallControl's.   *)
EXTENDS Integers, FiniteSets

CONSTANTS
    Users,      \* accounts
    Sources,    \* user: the sources it ever sends from
    Left,       \* the registrations a process may find at its start
    Calls,      \* Call-IDs of INVITEs
    NoCall,     \* a Call-ID no INVITE ever has
    Tasks,      \* handlers
    MaxOps,     \* bound: requests and expiring registrations
    MaxFaults,  \* bound: failing statements, failing sends and restarts
    NoSource, NoDialog, NoRow

ASSUME RoutingAssumption ==
    /\ \A u \in Users : NoSource \notin Sources[u]
    /\ \A u \in Users : \A s \in Sources[u] : s = <<s[1], s[2]>>
    /\ \A u, v \in Users : u # v => Sources[u] \cap Sources[v] = {}
    /\ Left \subseteq [Users -> UNION {Sources[u] : u \in Users} \cup {NoSource}]
    /\ \A f \in Left : \A u \in Users : f[u] \in Sources[u] \cup {NoSource}
    /\ NoCall \notin Calls

VARIABLES
    reg,        \* sip_registrations: the source of each user
    active,     \* active_dialogs
    row,        \* sip_calls: status, whether ended_at is set, and whether
                \* ended_at or, without one, started_at is long ago
    stored,     \* sip_messages: number of rows by status
    task,
    last,       \* history: source of the user's last REGISTER, INVITE or MESSAGE
    crossed,    \* history: users whose source was handled twice at once, or not saved
    loose,      \* history: calls whose row was handled twice at once, or reused,
                \* or closed by a sweep, or not saved
    strayed,    \* history: users whose request went to somebody else
    forwarded,  \* history: number of MESSAGEs sent on
    ops, faults

tableVars == <<reg, row, stored>>
seenVars == <<last, crossed, loose>>
sentVars == <<strayed, forwarded>>
vars == <<tableVars, active, task, seenVars, sentVars, ops, faults>>

AllSources == UNION {Sources[u] : u \in Users}
Statuses == {"trying", "answered", "ended", "cancelled"}
RowType == [status : Statuses, ended : BOOLEAN, old : BOOLEAN]

(* The absence of a row is no row.                                           *)
ASSUME NoRowAssumption == NoRow \notin RowType

Idle == [pc |-> "idle"]
InFlight(t) == task[t] # Idle

(* The registrations outlive the process; its rows of calls were closed.     *)
Init ==
    /\ reg \in Left
    /\ active = [c \in Calls |-> NoDialog]
    /\ row = [c \in Calls |-> NoRow]
    /\ stored = [delivered |-> 0, failed |-> 0]
    /\ task = [t \in Tasks |-> Idle]
    /\ last = reg
    /\ crossed = {}
    /\ loose = {}
    /\ strayed = {}
    /\ forwarded = 0
    /\ ops = 0
    /\ faults = 0

Becomes(t, r) == task' = [task EXCEPT ![t] = r]
Goto(t, l) == task' = [task EXCEPT ![t].pc = l]

(* Handlers are interchangeable: a request takes one that is free.           *)
Takes(t, r) == ~InFlight(t) /\ t = (CHOOSE x \in Tasks : ~InFlight(x)) /\ Becomes(t, r)

Fault == faults < MaxFaults /\ faults' = faults + 1
Op == ops < MaxOps /\ ops' = ops + 1

Open(c) == row[c] # NoRow /\ ~row[c].ended
Closed(c) == row[c] # NoRow /\ row[c].ended

(* The tasks that are about to refresh the source of a user, and those that  *)
(* write the row or the dialog of a call.                                    *)
Refreshing(u) == {t \in Tasks : InFlight(t) /\ task[t].user = u /\ task[t].pc \in {"select", "refresh"}}
Handling(c) == {t \in Tasks : InFlight(t) /\ task[t].call = c /\ task[t].kind # "message"}

-----------------------------------------------------------------------------
(* Where requests go.                                                       *)

\* Faulty variant: the direction of the request is ignored.
CalleeAlways(d, s) == d.callee

(* src == dialog.caller_addr: to the callee, otherwise to the caller.        *)
OtherParty(d, s) == IF s = d.caller THEN d.callee ELSE d.caller

DialogOf(c) == IF c \in Calls THEN active[c] ELSE NoDialog

(* Users u and v are the parties, and u still sends from the address the     *)
(* dialog has for it.                                                        *)
Steady(d, u, v, s) ==
    \/ u = d.from /\ v = d.to /\ s = d.caller
    \/ u = d.to /\ v = d.from /\ s = d.callee

(* A request of user u for user v is sent to address a, which is to be one   *)
(* of v when it is sure.                                                     *)
Sends(u, v, a, sure) ==
    strayed' = IF sure /\ a \notin Sources[v] THEN strayed \cup {u} ELSE strayed

(* The fallback of ACK and BYE: the registered source of the addressee.      *)
SendsByRegistration(t) ==
    Sends(task[t].user, task[t].to, reg[task[t].to], reg[task[t].to] # NoSource)

(* To the callee of dialog d, whatever the source, and to its other party.   *)
SendsToCallee(t, d) ==
    Sends(task[t].user, task[t].to, d.callee, task[t].user = d.from /\ task[t].to = d.to)

SendsInDialog(u, v, s, d) == Sends(u, v, OtherParty(d, s), Steady(d, u, v, s))

-----------------------------------------------------------------------------
(* Registrations.                                                           *)

(* A REGISTER stores the source it came from, Contact and expiry aside.      *)
Register(u, s) ==
    /\ Op
    /\ s \in Sources[u]
    /\ reg' = [reg EXCEPT ![u] = s]
    /\ last' = [last EXCEPT ![u] = s]
    /\ crossed' = IF Refreshing(u) = {} THEN crossed ELSE crossed \cup {u}
    /\ UNCHANGED <<row, stored, active, task, loose, sentVars, faults>>

(* Expires: 0, or expires_at passes.                                         *)
Lapse(u) ==
    /\ Op
    /\ reg[u] # NoSource
    /\ reg' = [reg EXCEPT ![u] = NoSource]
    /\ UNCHANGED <<row, stored, active, task, seenVars, sentVars, faults>>

(* An INVITE (in or outside of a dialog) or a MESSAGE of user u for user v   *)
(* that passed the checks of the sender.                                     *)
Arrive(t, kind, u, v, s, c) ==
    /\ Op
    /\ s \in Sources[u]
    /\ v # u
    /\ Takes(t, [pc |-> "select", kind |-> kind, user |-> u, to |-> v, src |-> s,
                 call |-> c, seen |-> NoSource])
    /\ last' = [last EXCEPT ![u] = s]
    /\ crossed' = IF Refreshing(u) = {} THEN crossed ELSE crossed \cup {u}
    /\ loose' = IF kind = "message" \/ Handling(c) = {} THEN loose ELSE loose \cup {c}
    /\ UNCHANGED <<tableVars, active, sentVars, faults>>

ArriveInvite(t, u, v, s, c) == c \in Calls /\ Arrive(t, "invite", u, v, s, c)

ArriveMessage(t, u, v, s, c) == Arrive(t, "message", u, v, s, c)

\* Faulty variant: a port that only grew is refreshed.
RefreshLaterPort(r, s) == r[1] = s[1] /\ r[2] < s[2]

should_refresh_registration_source(r, s) == r[1] = s[1] /\ r[2] # s[2]

(* refresh_sender_registration_source, SELECT: a refresh is due when only    *)
(* the port changed.                                                         *)
RefreshSelect(t) ==
    LET u == task[t].user IN
    /\ task[t].pc = "select"
    /\ IF reg[u] # NoSource /\ should_refresh_registration_source(reg[u], task[t].src)
       THEN Becomes(t, [task[t] EXCEPT !.pc = "refresh", !.seen = reg[u]])
       ELSE Goto(t, "lookup")
    /\ UNCHANGED <<tableVars, active, seenVars, sentVars, ops, faults>>

(* refresh_sender_registration_source, UPDATE ... WHERE source_ip = ?        *)
RefreshUpdate(t) ==
    LET u == task[t].user IN
    /\ task[t].pc = "refresh"
    /\ reg' = IF reg[u] # NoSource /\ reg[u][1] = task[t].seen[1]
              THEN [reg EXCEPT ![u] = <<@[1], task[t].src[2]>>] ELSE reg
    /\ Becomes(t, [task[t] EXCEPT !.pc = "lookup", !.seen = NoSource])
    /\ UNCHANGED <<row, stored, active, seenVars, sentVars, ops, faults>>

(* A failing statement ends the handler with a 500.                          *)
RefreshFails(t) ==
    /\ Fault
    /\ task[t].pc \in {"select", "refresh"}
    /\ Becomes(t, Idle)
    /\ crossed' = crossed \cup {task[t].user}
    /\ UNCHANGED <<tableVars, active, last, loose, sentVars, ops>>

-----------------------------------------------------------------------------
(* INVITE.                                                                  *)

(* The callee's registration is read; without one the call goes to voicemail *)
(* or gets a 404, or a 500 when the statement fails, and leaves no row.      *)
InviteLookup(t) ==
    /\ task[t].pc = "lookup"
    /\ task[t].kind = "invite"
    /\ \/ /\ reg[task[t].to] # NoSource
          /\ Becomes(t, [task[t] EXCEPT !.pc = "record", !.seen = reg[task[t].to]])
          /\ UNCHANGED faults
       \/ /\ reg[task[t].to] = NoSource
          /\ Becomes(t, Idle)
          /\ UNCHANGED faults
       \/ /\ Fault
          /\ Becomes(t, Idle)
    /\ UNCHANGED <<tableVars, active, seenVars, sentVars, ops>>

(* INSERT ... 'trying' ON DUPLICATE KEY UPDATE status = 'trying',            *)
(* started_at = ?: the ended_at of an earlier row stays.                     *)
Upsert(c) ==
    [row EXCEPT ![c] = IF Closed(c) THEN [@ EXCEPT !.status = "trying"]
                       ELSE [status |-> "trying", ended |-> FALSE, old |-> FALSE]]

(* The result of the statement is ignored.                                   *)
InviteRecord(t) ==
    LET c == task[t].call IN
    /\ task[t].pc = "record"
    /\ Goto(t, "dialog")
    /\ \/ /\ row' = Upsert(c)
          /\ loose' = IF Closed(c) THEN loose \cup {c} ELSE loose
          /\ UNCHANGED faults
       \/ /\ Fault
          /\ loose' = loose \cup {c}
          /\ UNCHANGED row
    /\ UNCHANGED <<reg, stored, active, last, crossed, sentVars, ops>>

(* active_dialogs.insert, after which the INVITE is sent to the callee.  A   *)
(* send that fails makes the handler return a 500: the dialog and the row    *)
(* stay either way.                                                          *)
InviteDialog(t) ==
    LET r == task[t] IN
    /\ r.pc = "dialog"
    /\ active' = [active EXCEPT ![r.call] =
                     [caller |-> r.src, callee |-> r.seen, from |-> r.user, to |-> r.to]]
    /\ \/ Sends(r.user, r.to, r.seen, TRUE) /\ UNCHANGED faults
       \/ Fault /\ UNCHANGED strayed
    /\ Becomes(t, Idle)
    /\ UNCHANGED <<tableVars, seenVars, forwarded, ops>>

(* Voicemail takes the call: the busy path and the no-answer timer forget    *)
(* the dialog and leave the row to the sweep.                                *)
VoicemailTakes(c) ==
    /\ active[c] # NoDialog
    /\ active' = [active EXCEPT ![c] = NoDialog]
    /\ UNCHANGED <<tableVars, task, seenVars, sentVars, ops, faults>>

-----------------------------------------------------------------------------
(* ACK, BYE and CANCEL: the row first, whatever its status, then the dialog. *)

Concluded == [ack |-> "answered", bye |-> "ended", cancel |-> "cancelled"]

(* UPDATE sip_calls SET status = ..., ended_at = NOW() WHERE call_id = ?;     *)
(* that of ACK leaves ended_at alone.                                        *)
UpdateRow(c, kind) ==
    IF row[c] = NoRow THEN row
    ELSE IF kind = "ack" THEN [row EXCEPT ![c].status = Concluded[kind]]
    ELSE [row EXCEPT ![c] = [status |-> Concluded[kind], ended |-> TRUE, old |-> FALSE]]

(* The request arrives and its statement, whose result is ignored, is run.   *)
(* Only handle_bye looks at the source.                                      *)
Conclude(t, kind, u, v, s, c) ==
    /\ Op
    /\ IF kind = "bye" THEN s \in Sources[u] ELSE s = NoSource
    /\ v # u
    /\ Takes(t, [pc |-> kind, kind |-> kind, user |-> u, to |-> v, src |-> s,
                 call |-> c, seen |-> NoSource])
    /\ \/ /\ row' = UpdateRow(c, kind)
          /\ loose' = IF Handling(c) = {} THEN loose ELSE loose \cup {c}
          /\ UNCHANGED faults
       \/ /\ Fault
          /\ loose' = loose \cup {c}
          /\ UNCHANGED row
    /\ UNCHANGED <<reg, stored, active, last, crossed, sentVars>>

(* handle_ack: to the callee of the dialog, else to the registered source.   *)
AckForward(t) ==
    LET d == active[task[t].call] IN
    /\ task[t].pc = "ack"
    /\ IF d # NoDialog
       THEN SendsToCallee(t, d)
       ELSE SendsByRegistration(t)
    /\ Becomes(t, Idle)
    /\ UNCHANGED <<tableVars, active, seenVars, forwarded, ops, faults>>

\* Faulty variant: the dialog is looked up, not removed.
ByeKeepsDialog(t) ==
    LET d == active[task[t].call] IN
    /\ task[t].pc = "bye"
    /\ active' = active
    /\ IF d # NoDialog
       THEN SendsInDialog(task[t].user, task[t].to, task[t].src, d)
       ELSE SendsByRegistration(t)
    /\ Becomes(t, Idle)
    /\ UNCHANGED <<tableVars, seenVars, forwarded, ops, faults>>

(* handle_bye: active.remove, and to the other party of what was removed.    *)
ByeForward(t) ==
    LET d == active[task[t].call] IN
    /\ task[t].pc = "bye"
    /\ active' = [active EXCEPT ![task[t].call] = NoDialog]
    /\ IF d # NoDialog
       THEN SendsInDialog(task[t].user, task[t].to, task[t].src, d)
       ELSE SendsByRegistration(t)
    /\ Becomes(t, Idle)
    /\ UNCHANGED <<tableVars, seenVars, forwarded, ops, faults>>

(* handle_cancel: to the callee of the dialog, which is removed afterwards.  *)
CancelForward(t) ==
    LET d == active[task[t].call] IN
    /\ task[t].pc = "cancel"
    /\ IF d # NoDialog
       THEN SendsToCallee(t, d)
       ELSE UNCHANGED strayed
    /\ Goto(t, "clean")
    /\ UNCHANGED <<tableVars, active, seenVars, forwarded, ops, faults>>

CancelClean(t) ==
    /\ task[t].pc = "clean"
    /\ active' = [active EXCEPT ![task[t].call] = NoDialog]
    /\ Becomes(t, Idle)
    /\ UNCHANGED <<tableVars, seenVars, sentVars, ops, faults>>

-----------------------------------------------------------------------------
(* REFER, NOTIFY and INFO inside a dialog; MESSAGE inside or outside of one. *)

(* The three handlers read the dialog and send, no more; without a dialog    *)
(* the request is answered and goes nowhere.                                 *)
InDialog(u, v, s, c) ==
    LET d == active[c] IN
    /\ Op
    /\ s \in Sources[u]
    /\ v # u
    /\ d # NoDialog
    /\ SendsInDialog(u, v, s, d)
    /\ UNCHANGED <<tableVars, active, task, seenVars, forwarded, faults>>

handle_refer(u, v, s, c) == InDialog(u, v, s, c)
handle_notify(u, v, s, c) == InDialog(u, v, s, c)
handle_info(u, v, s, c) == InDialog(u, v, s, c)

(* A MESSAGE whose target is known: nothing else of it matters from here on. *)
Aimed(r, l) == [r EXCEPT !.pc = l, !.src = NoSource, !.call = NoCall, !.seen = NoSource]

(* The target of a MESSAGE: the other party of its dialog, else the          *)
(* registered source, which is taken for missing when the statement fails.   *)
MessageTarget(t) ==
    LET r == task[t]
        d == DialogOf(r.call) IN
    /\ r.pc = "lookup"
    /\ r.kind = "message"
    /\ \/ /\ d # NoDialog
          /\ SendsInDialog(r.user, r.to, r.src, d)
          /\ Becomes(t, Aimed(r, "send"))
          /\ UNCHANGED faults
       \/ /\ d = NoDialog
          /\ SendsByRegistration(t)
          /\ Becomes(t, Aimed(r, IF reg[r.to] # NoSource THEN "send" ELSE "failed"))
          /\ UNCHANGED faults
       \/ /\ d = NoDialog
          /\ Fault
          /\ Becomes(t, Aimed(r, "failed"))
          /\ UNCHANGED strayed
    /\ UNCHANGED <<tableVars, active, seenVars, forwarded, ops>>

\* Faulty variant: a send that fails is stored as a delivery.
SendErrorIgnored(t) ==
    /\ task[t].pc = "send"
    /\ Goto(t, "delivered")
    /\ \/ forwarded' = forwarded + 1 /\ UNCHANGED faults
       \/ Fault /\ UNCHANGED forwarded
    /\ UNCHANGED <<tableVars, active, seenVars, strayed, ops>>

MessageSend(t) ==
    /\ task[t].pc = "send"
    /\ \/ Goto(t, "delivered") /\ forwarded' = forwarded + 1 /\ UNCHANGED faults
       \/ Goto(t, "failed") /\ Fault /\ UNCHANGED forwarded
    /\ UNCHANGED <<tableVars, active, seenVars, strayed, ops>>

(* The row is inserted, or only a warning logged, and the sender answered.   *)
persist_message(t) ==
    /\ task[t].pc \in {"delivered", "failed"}
    /\ \/ stored' = [stored EXCEPT ![task[t].pc] = @ + 1] /\ UNCHANGED faults
       \/ Fault /\ UNCHANGED stored
    /\ Becomes(t, Idle)
    /\ UNCHANGED <<reg, row, active, seenVars, sentVars, ops>>

-----------------------------------------------------------------------------
(* The records of calls as time passes.                                      *)

(* stale_call_age_hours pass for started_at, cdr_archive_days for ended_at.  *)
Age(c) ==
    /\ row[c] # NoRow
    /\ ~row[c].old
    /\ row' = [row EXCEPT ![c].old = TRUE]
    /\ UNCHANGED <<reg, stored, active, task, seenVars, sentVars, ops, faults>>

\* Faulty variant: only answered calls are closed.
StaleAnswered(c, all) == Open(c) /\ row[c].status = "answered" /\ (all \/ row[c].old)

(* STALE_CALL_CLEANUP_SQL: the rows it closes.                               *)
Stale(c, all) == Open(c) /\ row[c].status \in {"trying", "answered"} /\ (all \/ row[c].old)

mark_stale_calls_ended(all) ==
    row' = [c \in Calls |-> IF Stale(c, all)
                            THEN [status |-> "ended", ended |-> TRUE, old |-> FALSE]
                            ELSE row[c]]

(* The calls whose dialog is or will be there although the sweep closed them. *)
Outlive(all) == {c \in Calls : Stale(c, all) /\ (active[c] # NoDialog \/ Handling(c) # {})}

(* The periodic sweep; one that fails is repeated with the next tick.        *)
CallSweep ==
    /\ \E c \in Calls : Stale(c, FALSE)
    /\ mark_stale_calls_ended(FALSE)
    /\ loose' = loose \cup Outlive(FALSE)
    /\ UNCHANGED <<reg, stored, active, task, last, crossed, sentVars, ops, faults>>

(* POST /api/calls/cleanup?older_than_hours=0; with another age it does what *)
(* the sweep does.                                                           *)
cleanup_calls ==
    /\ Op
    /\ mark_stale_calls_ended(TRUE)
    /\ loose' = loose \cup Outlive(TRUE)
    /\ UNCHANGED <<reg, stored, active, task, last, crossed, sentVars, faults>>

(* CDR_ARCHIVE_SQL.                                                          *)
purge_old_cdr_records ==
    row' = [c \in Calls |-> IF Closed(c) /\ row[c].old THEN NoRow ELSE row[c]]

CdrPurge ==
    /\ \E c \in Calls : Closed(c) /\ row[c].old
    /\ purge_old_cdr_records
    /\ UNCHANGED <<reg, stored, active, task, seenVars, sentVars, ops, faults>>

(* The process ends with what it had in memory.  The one that follows closes *)
(* every open row before it handles a request; a failure is only logged.     *)
Restart ==
    /\ Fault
    /\ \/ mark_stale_calls_ended(TRUE)
       \/ UNCHANGED row
    /\ active' = [c \in Calls |-> NoDialog]
    /\ task' = [t \in Tasks |-> Idle]
    /\ crossed' = crossed \cup {u \in Users : Refreshing(u) # {}}
    /\ UNCHANGED <<reg, stored, last, loose, sentVars, ops>>

-----------------------------------------------------------------------------
Requests ==
    \E u, v \in Users : \E s \in Sources[u] :
        \/ Register(u, s)
        \/ \E t \in Tasks, c \in Calls :
               \/ ArriveInvite(t, u, v, s, c)
               \/ Conclude(t, "bye", u, v, s, c)
        \/ \E t \in Tasks, c \in Calls \cup {NoCall} : ArriveMessage(t, u, v, s, c)
        \/ \E c \in Calls : handle_refer(u, v, s, c)
        \/ \E c \in Calls : handle_notify(u, v, s, c)
        \/ \E c \in Calls : handle_info(u, v, s, c)

SourcelessRequests ==
    \E u, v \in Users, t \in Tasks, c \in Calls :
        \/ Conclude(t, "ack", u, v, NoSource, c)
        \/ Conclude(t, "cancel", u, v, NoSource, c)

Step(t) ==
    \/ RefreshSelect(t) \/ RefreshUpdate(t) \/ RefreshFails(t)
    \/ InviteLookup(t) \/ InviteRecord(t) \/ InviteDialog(t)
    \/ AckForward(t) \/ ByeForward(t) \/ CancelForward(t) \/ CancelClean(t)
    \/ MessageTarget(t) \/ MessageSend(t) \/ persist_message(t)

Next ==
    \/ Requests
    \/ SourcelessRequests
    \/ \E t \in Tasks : Step(t)
    \/ \E u \in Users : Lapse(u)
    \/ \E c \in Calls : VoicemailTakes(c) \/ Age(c)
    \/ CallSweep \/ cleanup_calls \/ CdrPurge
    \/ Restart

(* Time passes, and the sweep is a loop of its own: no handler needs to run. *)
Fairness == WF_vars(CallSweep) /\ \A c \in Calls : WF_vars(Age(c))

Spec == Init /\ [][Next]_vars /\ Fairness

-----------------------------------------------------------------------------
DialogType == [caller : AllSources, callee : AllSources, from : Users, to : Users]
TaskType ==
    [pc : {"select", "refresh", "lookup", "record", "dialog", "ack", "bye", "cancel", "clean",
           "send", "delivered", "failed"},
     kind : {"invite", "message", "ack", "bye", "cancel"},
     user : Users, to : Users, src : AllSources \cup {NoSource}, call : Calls \cup {NoCall},
     seen : AllSources \cup {NoSource}]

(* Types, and: a row with the status of a finished call says when it ended,  *)
(* as the statements of BYE, CANCEL and the sweep set both.                  *)
TypeOK ==
    /\ reg \in [Users -> AllSources \cup {NoSource}]
    /\ active \in [Calls -> DialogType \cup {NoDialog}]
    /\ row \in [Calls -> RowType \cup {NoRow}]
    /\ \A c \in Calls : Open(c) => row[c].status \in {"trying", "answered"}
    /\ stored \in [delivered : Nat, failed : Nat]
    /\ task \in [Tasks -> TaskType \cup {Idle}]
    /\ last \in [Users -> AllSources \cup {NoSource}]
    /\ crossed \subseteq Users
    /\ loose \subseteq Calls
    /\ strayed \subseteq Users
    /\ forwarded \in Nat
    /\ ops \in 0..MaxOps
    /\ faults \in 0..MaxFaults

(* The registration of a user always names an address and a port the user    *)
(* has sent from together: a refresh of the port that overlaps a REGISTER     *)
(* from another address never mixes the two (refresh_sender_registration_    *)
(* source, WHERE source_ip = ?).                                             *)
GenuineSource == \A u \in Users : reg[u] \in Sources[u] \cup {NoSource}

(* Between requests, the registration of a user names the port of the user's *)
(* last REGISTER, INVITE or MESSAGE from the registered address, unless two   *)
(* of them overlapped or a statement failed: the address calls are sent to   *)
(* follows the NAT.                                                          *)
NewestSource ==
    \A u \in Users :
        (Refreshing(u) = {} /\ u \notin crossed /\ reg[u] # NoSource /\ last[u][1] = reg[u][1])
            => reg[u] = last[u]

(* Every request sent on, by dialog or by registration, is sent to a source  *)
(* of its addressee, and not back to its sender, as long as the sender uses   *)
(* the address it set the dialog up with.                                    *)
RequestsReachPeer == strayed = {}

(* While nobody handles a call, its entry in active_dialogs has an open row   *)
(* in sip_calls, so that the number of active calls counts it, unless        *)
(* handlers of the call overlapped, a statement failed, the Call-ID had been *)
(* used for a finished call or a sweep closed the row of a running call.     *)
DialogIsCounted ==
    \A c \in Calls : (active[c] # NoDialog /\ Handling(c) = {} /\ c \notin loose) => Open(c)

(* A message is stored as delivered at most once for each time one was sent  *)
(* on, and, while no fault happens and nobody handles a message, exactly     *)
(* once (handle_message, persist_message).                                   *)
DeliveredWasSent ==
    /\ stored.delivered <= forwarded
    /\ (faults = 0 /\ \A t \in Tasks : ~InFlight(t)) => stored.delivered = forwarded

(* The row of a call does not stay open for ever, whether or not a BYE or a  *)
(* CANCEL arrives: the sweep of stale calls ends it.                         *)
RecordsClose == \A c \in Calls : Open(c) ~> ~Open(c)
=============================================================================
