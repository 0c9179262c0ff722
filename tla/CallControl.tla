----------------------------- MODULE CallControl -----------------------------
(***************************************************************************)
(* One call through the proxy, with voicemail on no answer: the maps that  *)
(* SipHandler, Proxy and VoicemailService share (pending_dialogs,          *)
(* pending_invites, active_dialogs, the media sessions and the no_answer   *)
(* timers), the handlers that work on them and the timer task              *)
(* (backend/src/sip/handler.rs, proxy.rs and voicemail.rs).  It composes   *)
(* VoicemailDelivery: a handler or a timer that hands the call to          *)
(* voicemail runs a delivery session of that module, and one that ends a   *)
(* voicemail call is a closer of it.                                       *)
(*                                                                         *)
(* A task is the handling of one datagram, which server.rs spawns; a timer *)
(* is the task start_no_answer_timer spawns.  Both run once.  The network  *)
(* is what has been sent to the two parties: it may be lost, duplicated,   *)
(* delayed or reordered, and a party answers it at any later time.         *)
(* Requests refused before they touch a map (400, 403, 483) are left out.  *)
(***************************************************************************)
EXTENDS VoicemailDelivery

CONSTANTS
    Tasks,         \* handlers of datagrams
    Timers,        \* no-answer timer tasks
    NoTimer,       \* absence of a JoinHandle
    Registered,    \* calls whose callee has a live registration
    HasBox,        \* calls whose callee has an enabled mailbox
    CalleeFinals,  \* the final responses a callee may give
    MaxInvites     \* bound: how often the caller's INVITE is received

ASSUME ProcessAssumption == Sessions = Tasks \cup Timers /\ Closers = Tasks \cup Timers
ASSUME DisjointAssumption == Tasks \cap Timers = {}
ASSUME NoTimerAssumption == NoTimer \notin Timers
ASSUME CalleeAssumption ==
    Registered \subseteq Calls /\ HasBox \subseteq Calls
    /\ CalleeFinals \subseteq {"ok", "err", "busy"}

VARIABLES
    pending,    \* pending_dialogs: Call-ID to caller address
    invites,    \* pending_invites: Call-ID to the INVITE
    dialogs,    \* active_dialogs: Call-ID to both addresses
    relay,      \* calls with a MediaRelay or WebRtcGateway session
    entry,      \* no_answer: the NoAnswerTimerEntry of a call, or "none"
    handle,     \* the JoinHandle in a Ringing entry
    op,         \* what each task handles
    tpc,        \* where each task is
    got,        \* the NoAnswerTimerCancel a task was given
    mpc,        \* where each timer is
    toCallee,   \* messages sent to the callee
    toCaller,   \* messages sent to the caller
    said        \* the callee's final response, once it gave one

mapVars == <<pending, invites, dialogs, relay>>
noAnswerVars == <<entry, handle>>
netVars == <<toCallee, toCaller, said>>
callVars == <<pending, invites, dialogs, relay, entry, handle, op, tpc, got, mpc,
              toCallee, toCaller, said>>
allVars == <<vars, callVars>>

Finals == {"ok", "err", "busy", "500", "404", "vm", "vmfail"}
TaskPC == {"idle", "setup", "forward", "arm", "deliver", "busyTake", "busyCancel",
           "busyClean", "busyLook", "check", "drop", "relay", "relayClean", "ack",
           "vmAck", "bye", "byeClean", "cancel", "cancelForward", "cancelClean",
           "vmClose", "vmDrop", "done"}
TimerPC == {"idle", "sleeping", "cancelLeg", "clear", "check1", "deliver", "suppress",
            "answer", "finish", "done", "aborted"}

(* A timer that has claimed its entry and has not yet removed it            *)
Firing(m) == mpc[m] \in {"cancelLeg", "clear", "check1", "deliver", "suppress",
                         "answer", "finish"}

TGoto(t, l) == tpc' = [tpc EXCEPT ![t] = l]
MGoto(m, l) == mpc' = [mpc EXCEPT ![m] = l]
SendCallee(c, m) == toCallee' = [toCallee EXCEPT ![c] = @ \cup {m}]
SendCaller(c, m) == toCaller' = [toCaller EXCEPT ![c] = @ \cup {m}]

-----------------------------------------------------------------------------
(* The no_answer map                                                       *)

AbortHandle(c) == mpc' = [mpc EXCEPT ![handle[c]] = "aborted"]

ClearEntry(c) ==
    /\ entry' = [entry EXCEPT ![c] = "none"]
    /\ handle' = [handle EXCEPT ![c] = NoTimer]

CancelResult(c) == CASE entry[c] = "none" -> "NotFound"
                     [] entry[c] = "firing" -> "AlreadyFired"
                     [] OTHER -> "Canceled"

(* Faulty variant: the timer is aborted but its entry stays in the map     *)
CancelKeepsEntry(t, c) ==
    /\ got' = [got EXCEPT ![t] = CancelResult(c)]
    /\ IF entry[c] = "ringing" THEN AbortHandle(c) ELSE UNCHANGED mpc
    /\ UNCHANGED <<entry, handle>>

(* A ringing timer is aborted and forgotten; a fired one is left alone     *)
cancel_no_answer_timer(t, c) ==
    /\ got' = [got EXCEPT ![t] = CancelResult(c)]
    /\ IF entry[c] = "ringing"
       THEN AbortHandle(c) /\ ClearEntry(c)
       ELSE UNCHANGED <<entry, handle, mpc>>

(* The same, but a fired timer is told that the caller has gone            *)
cancel_no_answer_timer_for_caller_cancel(t, c) ==
    /\ got' = [got EXCEPT ![t] = IF entry[c] = "none" THEN "NotFound" ELSE "Canceled"]
    /\ \/ /\ entry[c] = "firing"
          /\ entry' = [entry EXCEPT ![c] = "canceled"]
          /\ UNCHANGED <<handle, mpc>>
       \/ /\ entry[c] = "ringing"
          /\ AbortHandle(c) /\ ClearEntry(c)
       \/ /\ entry[c] \in {"none", "canceled"}
          /\ UNCHANGED <<entry, handle, mpc>>

(* Inserting the new entry replaces any old one, aborting only a ringing   *)
(* timer; the spawned task sleeps at least a second, so it is taken to be  *)
(* asleep when its entry is inserted                                       *)
start_no_answer_timer(c, m) ==
    /\ mpc[m] = "idle"
    /\ mpc' = [x \in Timers |-> IF x = m THEN "sleeping"
                                ELSE IF entry[c] = "ringing" /\ x = handle[c] THEN "aborted"
                                ELSE mpc[x]]
    /\ entry' = [entry EXCEPT ![c] = "ringing"]
    /\ handle' = [handle EXCEPT ![c] = m]

ForgetCall(c) ==
    /\ pending' = pending \ {c}
    /\ dialogs' = dialogs \ {c}
    /\ relay' = relay \ {c}
    /\ UNCHANGED invites

-----------------------------------------------------------------------------
(* INVITE: Proxy::handle_invite                                            *)

Invited(c) == {t \in Tasks : op[t] = "invite" /\ CallOf[t] = c}

RecvInvite(t) ==
    LET c == CallOf[t] IN
    /\ tpc[t] = "idle"
    /\ Cardinality(Invited(c)) < MaxInvites
    /\ op' = [op EXCEPT ![t] = "invite"]
    /\ \/ /\ c \in Registered
          /\ TGoto(t, "setup")
          /\ UNCHANGED toCaller
       \/ /\ c \in HasBox \ Registered
          /\ TGoto(t, "deliver")
          /\ UNCHANGED toCaller
       \/ /\ c \notin HasBox \cup Registered
          /\ TGoto(t, "done")
          /\ SendCaller(c, "404")
    /\ UNCHANGED <<vars, mapVars, noAnswerVars, got, mpc, toCallee, said>>

(* The three maps and the media session; allocating media may fail or not  *)
(* be needed, and the INVITE is forwarded all the same                     *)
InviteSetup(t) ==
    LET c == CallOf[t] IN
    /\ tpc[t] = "setup"
    /\ pending' = pending \cup {c}
    /\ invites' = invites \cup {c}
    /\ dialogs' = dialogs \cup {c}
    /\ relay' \in {relay, relay \cup {c}}
    /\ TGoto(t, "forward")
    /\ UNCHANGED <<vars, noAnswerVars, op, got, mpc, netVars>>

InviteForward(t) ==
    LET c == CallOf[t] IN
    /\ tpc[t] = "forward"
    /\ \/ /\ SendCallee(c, "INVITE")
          /\ TGoto(t, IF c \in HasBox THEN "arm" ELSE "done")
          /\ UNCHANGED toCaller
       \/ /\ SendCaller(c, "500")
          /\ TGoto(t, "done")
          /\ UNCHANGED toCallee
    /\ UNCHANGED <<vars, mapVars, noAnswerVars, op, got, mpc, said>>

InviteArm(t) ==
    /\ tpc[t] = "arm"
    /\ \E m \in Timers : CallOf[m] = CallOf[t] /\ start_no_answer_timer(CallOf[t], m)
    /\ TGoto(t, "done")
    /\ UNCHANGED <<vars, mapVars, op, got, netVars>>

-----------------------------------------------------------------------------
(* Responses: SipHandler::handle_busy_to_voicemail and relay_response      *)

RecvResponse(t, k) ==
    LET c == CallOf[t] IN
    /\ tpc[t] = "idle"
    /\ "INVITE" \in toCallee[c]
    /\ said[c] \in {"none", k}
    /\ said' = [said EXCEPT ![c] = k]
    /\ op' = [op EXCEPT ![t] = k]
    /\ TGoto(t, IF k = "busy" /\ c \in HasBox THEN "busyTake" ELSE "check")
    /\ UNCHANGED <<vars, mapVars, noAnswerVars, got, mpc, toCallee, toCaller>>

(* The callee's 200 to a CANCEL takes the same path: relay_response looks   *)
(* at the Call-ID and the status, not at what is being answered            *)
RecvCancelResponse(t) ==
    /\ tpc[t] = "idle"
    /\ "CANCEL" \in toCallee[CallOf[t]]
    /\ op' = [op EXCEPT ![t] = "other"]
    /\ TGoto(t, "check")
    /\ UNCHANGED <<vars, mapVars, noAnswerVars, got, mpc, netVars>>

BusyTake(t) ==
    LET c == CallOf[t] IN
    /\ tpc[t] = "busyTake"
    /\ invites' = invites \ {c}
    /\ TGoto(t, IF c \in invites THEN "busyCancel" ELSE "check")
    /\ UNCHANGED <<vars, pending, dialogs, relay, noAnswerVars, op, got, mpc, netVars>>

BusyCancel(t) ==
    /\ tpc[t] = "busyCancel"
    /\ cancel_no_answer_timer(t, CallOf[t])
    /\ TGoto(t, "busyClean")
    /\ UNCHANGED <<vars, mapVars, op, netVars>>

BusyClean(t) ==
    /\ tpc[t] = "busyClean"
    /\ ForgetCall(CallOf[t])
    /\ TGoto(t, "busyLook")
    /\ UNCHANGED <<vars, noAnswerVars, op, got, mpc, netVars>>

(* Only now is the caller's address looked up, in the map just cleared     *)
BusyLook(t) ==
    /\ tpc[t] = "busyLook"
    /\ TGoto(t, IF CallOf[t] \in pending THEN "deliver" ELSE "check")
    /\ UNCHANGED <<vars, mapVars, noAnswerVars, op, got, mpc, netVars>>

RelayCheck(t) ==
    /\ tpc[t] = "check"
    /\ cancel_no_answer_timer(t, CallOf[t])
    /\ TGoto(t, IF CancelResult(CallOf[t]) = "AlreadyFired" THEN "drop" ELSE "relay")
    /\ UNCHANGED <<vars, mapVars, op, netVars>>

(* A late response to a call that voicemail has taken over                 *)
RelayDrop(t) ==
    /\ tpc[t] = "drop"
    /\ ForgetCall(CallOf[t])
    /\ TGoto(t, "done")
    /\ UNCHANGED <<vars, noAnswerVars, op, got, mpc, netVars>>

RelayForward(t) ==
    LET c == CallOf[t] IN
    /\ tpc[t] = "relay"
    /\ \/ /\ c \in pending
          /\ SendCaller(c, op[t])
          /\ TGoto(t, "relayClean")
       \/ /\ c \notin pending
          /\ TGoto(t, "done")
          /\ UNCHANGED toCaller
    /\ UNCHANGED <<vars, mapVars, noAnswerVars, op, got, mpc, toCallee, said>>

RelayClean(t) ==
    LET c == CallOf[t] IN
    /\ tpc[t] = "relayClean"
    /\ pending' = pending \ {c}
    /\ relay' = IF op[t] \in {"ok", "other"} THEN relay ELSE relay \ {c}
    /\ TGoto(t, "done")
    /\ UNCHANGED <<vars, invites, dialogs, noAnswerVars, op, got, mpc, netVars>>

-----------------------------------------------------------------------------
(* ACK, BYE and CANCEL, routed by one look at the voicemail calls          *)

(* The caller acknowledges any final response                              *)
RecvAck(t) ==
    LET c == CallOf[t] IN
    /\ tpc[t] = "idle"
    /\ toCaller[c] \cap Finals # {}
    /\ op' = [op EXCEPT ![t] = "ack"]
    /\ TGoto(t, IF c \in active THEN "vmAck" ELSE "ack")
    /\ UNCHANGED <<vars, mapVars, noAnswerVars, got, mpc, netVars>>

Ack(t) ==
    LET c == CallOf[t] IN
    /\ tpc[t] \in {"ack", "vmAck"}
    /\ cancel_no_answer_timer(t, c)
    /\ IF tpc[t] = "ack" THEN SendCallee(c, "ACK") ELSE UNCHANGED toCallee
    /\ TGoto(t, "done")
    /\ UNCHANGED <<vars, mapVars, op, toCaller, said>>

(* Either party hangs up an answered call; the forwarded BYE is not kept   *)
RecvBye(t) ==
    LET c == CallOf[t] IN
    /\ tpc[t] = "idle"
    /\ said[c] = "ok" \/ {"ok", "vm"} \cap toCaller[c] # {}
    /\ op' = [op EXCEPT ![t] = "bye"]
    /\ \/ c \in active /\ RouteBye(t) /\ TGoto(t, "vmClose")
       \/ c \notin active /\ UNCHANGED vars /\ TGoto(t, "bye")
    /\ UNCHANGED <<mapVars, noAnswerVars, got, mpc, netVars>>

Bye(t) ==
    /\ tpc[t] = "bye"
    /\ cancel_no_answer_timer(t, CallOf[t])
    /\ TGoto(t, "byeClean")
    /\ UNCHANGED <<vars, mapVars, op, netVars>>

ByeClean(t) ==
    /\ tpc[t] = "byeClean"
    /\ ForgetCall(CallOf[t])
    /\ TGoto(t, "done")
    /\ UNCHANGED <<vars, noAnswerVars, op, got, mpc, netVars>>

(* The caller gives up; its CANCEL may cross any answer                    *)
RecvCancel(t) ==
    LET c == CallOf[t] IN
    /\ tpc[t] = "idle"
    /\ Invited(c) # {}
    /\ op' = [op EXCEPT ![t] = "cancel"]
    /\ \/ c \in active /\ RouteCancel(t) /\ TGoto(t, "vmClose")
       \/ c \notin active /\ UNCHANGED vars /\ TGoto(t, "cancel")
    /\ UNCHANGED <<mapVars, noAnswerVars, got, mpc, netVars>>

Cancel(t) ==
    /\ tpc[t] = "cancel"
    /\ cancel_no_answer_timer_for_caller_cancel(t, CallOf[t])
    /\ TGoto(t, "cancelForward")
    /\ UNCHANGED <<vars, mapVars, op, netVars>>

CancelForward(t) ==
    LET c == CallOf[t] IN
    /\ tpc[t] = "cancelForward"
    /\ IF c \in dialogs THEN SendCallee(c, "CANCEL") ELSE UNCHANGED toCallee
    /\ TGoto(t, "cancelClean")
    /\ UNCHANGED <<vars, mapVars, noAnswerVars, op, got, mpc, toCaller, said>>

CancelClean(t) ==
    /\ tpc[t] = "cancelClean"
    /\ ForgetCall(CallOf[t])
    /\ TGoto(t, "done")
    /\ UNCHANGED <<vars, noAnswerVars, op, got, mpc, netVars>>

(* VoicemailService::handle_bye and handle_cancel: the steps of the closer *)
(* with the timer cancelled before the media is dropped                    *)
VmClose(t) ==
    /\ tpc[t] = "vmClose"
    /\ \/ /\ CloserMark(t) \/ CloserUnlist(t)
          /\ UNCHANGED callVars
       \/ /\ cpc[t] = "drop"
          /\ cancel_no_answer_timer(t, CallOf[t])
          /\ TGoto(t, "vmDrop")
          /\ UNCHANGED <<vars, mapVars, op, netVars>>

VmDrop(t) ==
    /\ tpc[t] = "vmDrop"
    /\ CloserDrop(t)
    /\ TGoto(t, "done")
    /\ UNCHANGED <<mapVars, noAnswerVars, op, got, mpc, netVars>>

-----------------------------------------------------------------------------
(* Delivery to voicemail by a task or by a timer                           *)

DeliveryAnswer(x) == IF pc[x] = "rejected" THEN "vmfail" ELSE "vm"

(* handle_delivery_invite, up to the response it returns                   *)
Deliver(x) ==
    /\ ~Returned(x)
    /\ Arrive(x) \/ SessionStep(x)
    /\ UNCHANGED callVars

(* The recording task goes on after the handler has returned               *)
Record(x) ==
    /\ Returned(x)
    /\ SessionStep(x)
    /\ UNCHANGED callVars

(* An INVITE's response goes to the caller; a 486's goes back to the       *)
(* address the 486 came from, which is the callee                          *)
DeliverReply(t) ==
    LET c == CallOf[t] IN
    /\ tpc[t] = "deliver"
    /\ Returned(t)
    /\ IF op[t] = "invite"
       THEN SendCaller(c, DeliveryAnswer(t)) /\ UNCHANGED toCallee
       ELSE SendCallee(c, DeliveryAnswer(t)) /\ UNCHANGED toCaller
    /\ TGoto(t, "done")
    /\ UNCHANGED <<vars, mapVars, noAnswerVars, op, got, mpc, said>>

(* After a database error the busy response is relayed after all           *)
BusyDeliveryFails(t) ==
    /\ tpc[t] = "deliver"
    /\ op[t] = "busy"
    /\ pc[t] = "rejected"
    /\ TGoto(t, "check")
    /\ UNCHANGED <<vars, mapVars, noAnswerVars, op, got, mpc, netVars>>

-----------------------------------------------------------------------------
(* The timer task                                                          *)

claim_no_answer_timer_to_fire(m) ==
    LET c == CallOf[m] IN
    /\ mpc[m] = "sleeping"
    /\ \/ /\ entry[c] = "ringing"
          /\ entry' = [entry EXCEPT ![c] = "firing"]
          /\ handle' = [handle EXCEPT ![c] = NoTimer]
          /\ MGoto(m, "cancelLeg")
       \/ /\ entry[c] # "ringing"
          /\ MGoto(m, "done")
          /\ UNCHANGED noAnswerVars
    /\ UNCHANGED <<vars, mapVars, op, tpc, got, netVars>>

CancelLeg(m) ==
    /\ mpc[m] = "cancelLeg"
    /\ SendCallee(CallOf[m], "CANCEL")
    /\ MGoto(m, "clear")
    /\ UNCHANGED <<vars, mapVars, noAnswerVars, op, tpc, got, toCaller, said>>

(* Faulty variant: the media session of the proxied leg is forgotten       *)
ClearDialogsOnly(m) ==
    /\ mpc[m] = "clear"
    /\ pending' = pending \ {CallOf[m]}
    /\ dialogs' = dialogs \ {CallOf[m]}
    /\ MGoto(m, "check1")
    /\ UNCHANGED <<vars, invites, relay, noAnswerVars, op, tpc, got, netVars>>

ClearLeg(m) ==
    /\ mpc[m] = "clear"
    /\ ForgetCall(CallOf[m])
    /\ MGoto(m, "check1")
    /\ UNCHANGED <<vars, noAnswerVars, op, tpc, got, netVars>>

(* Faulty variant: the timer looks for the state it has already left       *)
ContinueWhileRinging(c) == entry[c] = "ringing"

no_answer_timer_should_continue(c) == entry[c] = "firing"

CheckSetup(m) ==
    /\ mpc[m] = "check1"
    /\ MGoto(m, IF no_answer_timer_should_continue(CallOf[m]) THEN "deliver" ELSE "finish")
    /\ UNCHANGED <<vars, mapVars, noAnswerVars, op, tpc, got, netVars>>

CheckAnswer(m) ==
    /\ mpc[m] = "deliver"
    /\ Returned(m)
    /\ \/ /\ no_answer_timer_should_continue(CallOf[m])
          /\ MGoto(m, "answer")
          /\ UNCHANGED vars
       \/ /\ ~no_answer_timer_should_continue(CallOf[m])
          /\ MGoto(m, "suppress")
          /\ SuppressDelivery(m)
    /\ UNCHANGED <<mapVars, noAnswerVars, op, tpc, got, netVars>>

(* Faulty variant: the media is dropped but the recording is not marked    *)
SuppressMediaOnly(m) ==
    /\ mpc[m] = "suppress"
    /\ CGoto(m, "done")
    /\ media' = [media EXCEPT ![CallOf[m]] = NoSession]
    /\ MGoto(m, "finish")
    /\ UNCHANGED <<stateVars, active, sessVars, storeVars, marked,
                   mapVars, noAnswerVars, op, tpc, got, netVars>>

Suppress(m) ==
    /\ mpc[m] = "suppress"
    /\ CloserStep(m)
    /\ IF cpc[m] = "drop" THEN MGoto(m, "finish") ELSE UNCHANGED mpc
    /\ UNCHANGED <<mapVars, noAnswerVars, op, tpc, got, netVars>>

Answer(m) ==
    /\ mpc[m] = "answer"
    /\ SendCaller(CallOf[m], DeliveryAnswer(m))
    /\ MGoto(m, "finish")
    /\ UNCHANGED <<vars, mapVars, noAnswerVars, op, tpc, got, toCallee, said>>

(* The entry is removed whatever it is and whoever put it there            *)
finish_no_answer_timer(m) ==
    /\ mpc[m] = "finish"
    /\ ClearEntry(CallOf[m])
    /\ MGoto(m, "done")
    /\ UNCHANGED <<vars, mapVars, op, tpc, got, netVars>>

-----------------------------------------------------------------------------
CallInit ==
    /\ Init
    /\ pending = {}
    /\ invites = {}
    /\ dialogs = {}
    /\ relay = {}
    /\ entry = [c \in Calls |-> "none"]
    /\ handle = [c \in Calls |-> NoTimer]
    /\ op = [t \in Tasks |-> "none"]
    /\ tpc = [t \in Tasks |-> "idle"]
    /\ got = [t \in Tasks |-> "none"]
    /\ mpc = [m \in Timers |-> "idle"]
    /\ toCallee = [c \in Calls |-> {}]
    /\ toCaller = [c \in Calls |-> {}]
    /\ said = [c \in Calls |-> "none"]

Receive(t) ==
    \/ RecvInvite(t) \/ (\E k \in CalleeFinals : RecvResponse(t, k))
    \/ RecvCancelResponse(t) \/ RecvAck(t) \/ RecvBye(t) \/ RecvCancel(t)

TaskStep(t) ==
    \/ InviteSetup(t) \/ InviteForward(t) \/ InviteArm(t)
    \/ BusyTake(t) \/ BusyCancel(t) \/ BusyClean(t) \/ BusyLook(t)
    \/ RelayCheck(t) \/ RelayDrop(t) \/ RelayForward(t) \/ RelayClean(t)
    \/ Ack(t) \/ Bye(t) \/ ByeClean(t)
    \/ Cancel(t) \/ CancelForward(t) \/ CancelClean(t)
    \/ VmClose(t) \/ VmDrop(t)
    \/ (tpc[t] = "deliver" /\ Deliver(t)) \/ DeliverReply(t)
    \/ BusyDeliveryFails(t)

TimerStep(m) ==
    \/ claim_no_answer_timer_to_fire(m) \/ CancelLeg(m) \/ ClearLeg(m)
    \/ CheckSetup(m) \/ (mpc[m] = "deliver" /\ Deliver(m)) \/ CheckAnswer(m)
    \/ Suppress(m) \/ Answer(m) \/ finish_no_answer_timer(m)

CallNext ==
    \/ \E t \in Tasks : Receive(t) \/ TaskStep(t)
    \/ \E m \in Timers : TimerStep(m)
    \/ \E x \in Sessions : Record(x)

(* Spawned tasks run and timers elapse; nothing is assumed of the parties  *)
(* or of how long a recording lasts                                        *)
CallFairness ==
    /\ \A t \in Tasks : WF_allVars(TaskStep(t))
    /\ \A m \in Timers : WF_allVars(TimerStep(m))

CallSpec == CallInit /\ [][CallNext]_allVars /\ CallFairness

-----------------------------------------------------------------------------
(* Properties                                                              *)

(* Every map, handle and position has a value of the expected kind.        *)
CallTypeOK ==
    /\ TypeOK
    /\ pending \subseteq Calls
    /\ invites \subseteq Calls
    /\ dialogs \subseteq Calls
    /\ relay \subseteq Calls
    /\ entry \in [Calls -> {"none", "ringing", "firing", "canceled"}]
    /\ handle \in [Calls -> Timers \cup {NoTimer}]
    /\ op \in [Tasks -> {"none", "invite", "ok", "err", "busy", "other", "ack", "bye",
                      "cancel"}]
    /\ tpc \in [Tasks -> TaskPC]
    /\ got \in [Tasks -> {"none", "NotFound", "AlreadyFired", "Canceled"}]
    /\ mpc \in [Timers -> TimerPC]
    /\ toCallee \in [Calls -> SUBSET {"INVITE", "ACK", "CANCEL", "vm", "vmfail"}]
    /\ toCaller \in [Calls -> SUBSET (Finals \cup {"other"})]
    /\ said \in [Calls -> {"none"} \cup CalleeFinals]

(* A Ringing entry always holds the handle of a timer of that call that is *)
(* still asleep, so cancelling it stops the timer that would have fired.   *)
RingingEntryHasSleeper ==
    \A c \in Calls : entry[c] = "ringing" =>
        /\ handle[c] \in Timers
        /\ CallOf[handle[c]] = c
        /\ mpc[handle[c]] = "sleeping"

(* A Firing or Canceled entry always belongs to a timer that is still at   *)
(* work and will remove it.  relay_response throws away every final        *)
(* response of a call whose entry is Firing, so a stale one would silence  *)
(* the Call-ID for good.                                                   *)
FiredEntryHasTimer ==
    \A c \in Calls : entry[c] \in {"firing", "canceled"} =>
        \E m \in Timers : CallOf[m] = c /\ Firing(m)

(* When the timer hands a call to voicemail the callee has been sent       *)
(* CANCEL before the caller is answered (voicemail-design.md:34), so the   *)
(* callee is not left ringing beside a recording.                          *)
AnsweredAfterCancel ==
    \A c \in Registered : "vm" \in toCaller[c] => "CANCEL" \in toCallee[c]

(* A caller that voicemail has answered is not also in a proxied call: no  *)
(* pending dialog, active dialog or media session of it is left, provided  *)
(* the INVITE was received once.                                           *)
VoicemailReplacesProxiedCall ==
    \A c \in Calls : "vm" \in toCaller[c] /\ Cardinality(Invited(c)) = 1 =>
        c \notin pending \cup dialogs \cup relay

(* The proxied call and the voicemail recordings compose: every step of a  *)
(* handler or a timer is a step of VoicemailDelivery or leaves its state   *)
(* alone, so that module's invariants hold of the composition.             *)
ImplementsDelivery == Init /\ [][Next]_vars

HungUp(c) == \E t \in Tasks : CallOf[t] = c /\ op[t] \in {"cancel", "bye"}

(* A call forwarded to a callee with a mailbox never rings for ever: the   *)
(* caller gets a final response from the callee or from voicemail, unless  *)
(* a party hangs up first.                                                 *)
RingingResolves ==
    \A c \in HasBox \cap Registered :
        "INVITE" \in toCallee[c] ~> (toCaller[c] \cap Finals # {} \/ HungUp(c))

-----------------------------------------------------------------------------
(* What the documentation, a comment or a test says and the code does not  *)

(* voicemail-design.md:33: "If a successful callee answer arrives before   *)
(* the timer fires, SIP3 cancels the timer and the call remains a normal   *)
(* proxied call."                                                          *)
AnsweredCallStaysProxied ==
    \A c \in Calls : ~({"ok", "vm"} \subseteq toCaller[c])

(* handler.rs:491: a busy response to a call with an enabled mailbox is    *)
(* intercepted and the call goes to voicemail.                             *)
BusyGoesToVoicemail ==
    \A t \in Tasks : op[t] = "busy" /\ tpc[t] = "done" /\ CallOf[t] \in HasBox
                     /\ ~HungUp(CallOf[t])
        => {"busy", "vm", "vmfail"} \cap toCaller[CallOf[t]] # {}

(* voicemail.rs:520: "routing-layer integration must send the matching 487 *)
(* for the INVITE transaction": once the caller's CANCEL and the callee's  *)
(* error response to the INVITE have been handled, and no timer is still   *)
(* at work, the caller has been sent a final response.                     *)
CanceledInviteGetsFinal ==
    \A t, u \in Tasks :
        /\ CallOf[t] = CallOf[u]
        /\ op[t] = "cancel" /\ tpc[t] = "done"
        /\ op[u] = "err" /\ tpc[u] = "done"
        /\ \A m \in Timers : ~Firing(m)
        => toCaller[CallOf[t]] \cap Finals # {}
=============================================================================
