---------------------------- MODULE Subscriptions ----------------------------
(* Registrar, Presence and VoicemailMwi: what the watchers of one user and  *)
(* the phones of one mailbox are told, and under which CSeq.                *)
(*                                                                          *)
(* A task is the handling of one request (REGISTER, SUBSCRIBE, a change of  *)
(* the mailbox).  Every SQL statement and every NOTIFY is a step.  Rows of  *)
(* both subscription tables are named alike: a watcher stands for a row of  *)
(* sip_presence_subscriptions, a phone for one of                           *)
(* sip_voicemail_mwi_subscriptions.  A subscriber that receives NOTIFYs out *)
(* of order keeps the one with the highest CSeq, so that one matters.       *)
EXTENDS Integers, FiniteSets

CONSTANTS
    Watchers,   \* who watches the user's presence
    Phones,     \* who watches the user's mailbox
    Tasks,      \* handlers, each runs once
    Contents,   \* counts of new and saved messages the mailbox may have
    NoMessages, \* the counts of an empty mailbox
    MaxFaults,  \* bound: expiries, failing statements and restarts
    NoRow       \* the CSeq of a row that does not exist

ASSUME SubscriptionsAssumption ==
    /\ Watchers \cap Phones = {}
    /\ NoMessages \in Contents
    /\ NoRow \notin Nat

Rows == Watchers \cup Phones

VARIABLES
    reg,          \* sip_registrations of the user: none, live or lapsed
    box,          \* sip_voicemail_messages of the user
    cseq,         \* subscription row: cseq, NoRow when there is none
    expired,      \* subscription rows whose expires_at has passed
    dialog,       \* subscription row: how often it was deleted before
    pc,           \* task: its next step
    op,           \* task: what it handles
    rows,         \* task: rows still to be notified
    now,          \* task: the row it is notifying
    seen,         \* task: the CSeq it read of each row
    seenDialog,   \* task: the dialog of each row when it was read
    says,         \* task: the status or the counts it reports
    top,          \* history: the highest CSeq sent in the current dialog
    topSays,      \* history: what was reported under that CSeq
    repeated,     \* history: rows sent a CSeq that was not a new highest
    crossed,      \* history: rows two tasks handled at the same time
    lost,         \* history: rows whose CSeq was overwritten or not saved
    missed,       \* history: rows that were not told of the present state
    raced,        \* history: two REGISTERs of the user were in progress at once
    faults

tableVars == <<reg, box, cseq, expired, dialog>>
localVars == <<rows, now, seen, seenDialog, says>>
sentVars == <<top, topSays, repeated>>
vars == <<tableVars, pc, op, localVars, sentVars, crossed, raced, lost, missed, faults>>

Status == IF reg = "live" THEN "open" ELSE "closed"
InFlight(t) == pc[t] \notin {"idle", "done"}
LiveRows(R) == {r \in R : cseq[r] # NoRow /\ r \notin expired}

Init ==
    /\ reg = "none"
    /\ box = NoMessages
    /\ cseq = [r \in Rows |-> NoRow]
    /\ expired = {}
    /\ dialog = [r \in Rows |-> 0]
    /\ pc = [t \in Tasks |-> "idle"]
    /\ op = [t \in Tasks |-> "none"]
    /\ rows = [t \in Tasks |-> {}]
    /\ now = [t \in Tasks |-> NoRow]
    /\ seen = [t \in Tasks |-> [r \in Rows |-> 0]]
    /\ seenDialog = [t \in Tasks |-> [r \in Rows |-> 0]]
    /\ says = [t \in Tasks |-> "none"]
    /\ top = [r \in Rows |-> 0]
    /\ topSays = [r \in Rows |-> {}]
    /\ repeated = {}
    /\ crossed = {}
    /\ lost = {}
    /\ missed = {}
    /\ raced = FALSE
    /\ faults = 0

Goto(t, l) == pc' = [pc EXCEPT ![t] = l]

Fault == faults < MaxFaults /\ faults' = faults + 1

(* A NOTIFY of task t for row r with CSeq n.  One that belongs to a dialog   *)
(* deleted since is of no consequence to the new one.                        *)
Notify(t, r, n) ==
    IF seenDialog[t][r] = dialog[r]
    THEN /\ repeated' = IF n > top[r] THEN repeated ELSE repeated \cup {r}
         /\ top' = [top EXCEPT ![r] = IF n > @ THEN n ELSE @]
         /\ topSays' = [topSays EXCEPT ![r] =
                           IF n > top[r] THEN {says[t]}
                           ELSE IF n = top[r] THEN @ \cup {says[t]} ELSE @]
    ELSE UNCHANGED sentVars

\* Faulty variant: a refresh leaves the CSeq alone.
UpsertKeepsCSeq(r) ==
    /\ cseq' = [cseq EXCEPT ![r] = IF @ = NoRow THEN 1 ELSE @]
    /\ expired' = expired \ {r}

(* INSERT ... ON DUPLICATE KEY UPDATE ... cseq = cseq + 1                     *)
Upsert(r) ==
    /\ cseq' = [cseq EXCEPT ![r] = IF @ = NoRow THEN 1 ELSE @ + 1]
    /\ expired' = expired \ {r}

DeleteRows(R) ==
    LET old == {r \in R : cseq[r] # NoRow}
    IN  /\ cseq' = [r \in Rows |-> IF r \in R THEN NoRow ELSE cseq[r]]
        /\ expired' = expired \ R
        /\ dialog' = [r \in Rows |-> IF r \in old THEN dialog[r] + 1 ELSE dialog[r]]
        /\ top' = [r \in Rows |-> IF r \in old THEN 0 ELSE top[r]]
        /\ topSays' = [r \in Rows |-> IF r \in old THEN {} ELSE topSays[r]]

-----------------------------------------------------------------------------
(* Registrar::handle_register after authentication, and                      *)
(* Presence::notify_status_change, which it awaits.                          *)

RegisterUpsert(t) ==
    /\ pc[t] = "idle"
    /\ reg' = "live"
    /\ op' = [op EXCEPT ![t] = "register"]
    /\ says' = [says EXCEPT ![t] = "open"]
    /\ Goto(t, "select")
    /\ UNCHANGED <<now, box, cseq, expired, dialog, rows, seen, seenDialog, sentVars, lost, missed, faults>>

RegisterDelete(t) ==
    /\ pc[t] = "idle"
    /\ reg' = "none"
    /\ op' = [op EXCEPT ![t] = "register"]
    /\ says' = [says EXCEPT ![t] = "closed"]
    /\ Goto(t, "select")
    /\ UNCHANGED <<now, box, cseq, expired, dialog, rows, seen, seenDialog, sentVars, lost, missed, faults>>

NotifySelect(t) ==
    /\ pc[t] = "select" /\ op[t] = "register"
    /\ rows' = [rows EXCEPT ![t] = LiveRows(Watchers)]
    /\ seen' = [seen EXCEPT ![t] = cseq]
    /\ seenDialog' = [seenDialog EXCEPT ![t] = dialog]
    /\ missed' = IF says[t] = Status THEN missed \ Watchers ELSE missed \cup Watchers
    /\ Goto(t, "update")
    /\ UNCHANGED <<now, tableVars, op, says, sentVars, lost, faults>>

(* The SELECT fails: a warning and nobody is told.                           *)
NotifySelectFails(t) ==
    /\ pc[t] = "select" /\ op[t] = "register"
    /\ Fault
    /\ missed' = missed \cup Watchers
    /\ Goto(t, "done")
    /\ UNCHANGED <<tableVars, op, localVars, sentVars, lost>>

\* Faulty variant: the row keeps the CSeq that was read.
NotifyUpdateForgets(t) ==
    \E r \in rows[t] :
        /\ pc[t] = "update" /\ op[t] = "register"
        /\ now' = [now EXCEPT ![t] = r]
        /\ Goto(t, "send")
        /\ UNCHANGED <<tableVars, op, rows, seen, seenDialog, says, sentVars, lost, missed, faults>>

(* The row gets the CSeq that was read plus one before the NOTIFY is sent.   *)
NotifyUpdate(t) ==
    \E r \in rows[t] :
        /\ pc[t] = "update" /\ op[t] = "register"
        /\ cseq' = [cseq EXCEPT ![r] = IF @ = NoRow THEN @ ELSE seen[t][r] + 1]
        /\ lost' = IF cseq[r] \in {NoRow, seen[t][r]} THEN lost ELSE lost \cup {r}
        /\ now' = [now EXCEPT ![t] = r]
        /\ Goto(t, "send")
        /\ UNCHANGED <<reg, box, expired, dialog, op, rows, seen, seenDialog, says, sentVars, missed, faults>>

(* A failing UPDATE is ignored: the NOTIFY goes out all the same.            *)
NotifyUpdateFails(t) ==
    \E r \in rows[t] :
        /\ pc[t] = "update" /\ op[t] = "register"
        /\ Fault
        /\ lost' = lost \cup {r}
        /\ now' = [now EXCEPT ![t] = r]
        /\ Goto(t, "send")
        /\ UNCHANGED <<tableVars, op, rows, seen, seenDialog, says, sentVars, missed>>

NotifySend(t) ==
    /\ pc[t] = "send" /\ op[t] = "register"
    /\ Notify(t, now[t], seen[t][now[t]] + 1)
    /\ rows' = [rows EXCEPT ![t] = @ \ {now[t]}]
    /\ Goto(t, "update")
    /\ UNCHANGED <<tableVars, op, now, seen, seenDialog, says, lost, missed, faults>>

(* Every row is done; the webhook event is enqueued in WebhookOutbox.        *)
NotifyEnds(t) ==
    /\ pc[t] = "update" /\ rows[t] = {}
    /\ Goto(t, "done")
    /\ UNCHANGED <<tableVars, op, localVars, sentVars, lost, missed, faults>>

notify_status_change(t) ==
    \/ NotifySelect(t) \/ NotifySelectFails(t)
    \/ NotifyUpdate(t) \/ NotifyUpdateFails(t)
    \/ NotifySend(t) \/ NotifyEnds(t)

handle_register(t) == RegisterUpsert(t) \/ RegisterDelete(t) \/ notify_status_change(t)

-----------------------------------------------------------------------------
(* Presence::handle_subscribe.                                               *)

SubscribeUpsert(t) ==
    \E w \in Watchers :
        /\ pc[t] = "idle"
        /\ Upsert(w)
        /\ op' = [op EXCEPT ![t] = "subscribe"]
        /\ rows' = [rows EXCEPT ![t] = {w}]
        /\ seenDialog' = [seenDialog EXCEPT ![t] = dialog]
        /\ Goto(t, "read")
        /\ UNCHANGED <<now, reg, box, dialog, seen, says, sentVars, lost, missed, faults>>

(* The CSeq is read back; 1 when the row is gone again.                      *)
SubscribeRead(t) ==
    \E w \in rows[t] :
        /\ pc[t] = "read" /\ op[t] = "subscribe"
        /\ seen' = [seen EXCEPT ![t][w] = IF cseq[w] = NoRow THEN 1 ELSE cseq[w]]
        /\ Goto(t, "status")
        /\ UNCHANGED <<now, tableVars, op, rows, seenDialog, says, sentVars, lost, missed, faults>>

(* A failing SELECT counts as a first NOTIFY.                                *)
SubscribeReadFails(t) ==
    \E w \in rows[t] :
        /\ pc[t] = "read" /\ op[t] = "subscribe"
        /\ Fault
        /\ seen' = [seen EXCEPT ![t][w] = 1]
        /\ lost' = lost \cup {w}
        /\ Goto(t, "status")
        /\ UNCHANGED <<now, tableVars, op, rows, seenDialog, says, sentVars, missed>>

get_status(t) ==
    /\ pc[t] = "status" /\ op[t] = "subscribe"
    /\ says' = [says EXCEPT ![t] = Status]
    /\ Goto(t, "send")
    /\ UNCHANGED <<now, tableVars, op, rows, seen, seenDialog, sentVars, lost, missed, faults>>

(* The user is reported as absent when the registrations cannot be counted.  *)
StatusFails(t) ==
    /\ pc[t] = "status" /\ op[t] = "subscribe"
    /\ Fault
    /\ says' = [says EXCEPT ![t] = "closed"]
    /\ missed' = missed \cup rows[t]
    /\ Goto(t, "send")
    /\ UNCHANGED <<now, tableVars, op, rows, seen, seenDialog, sentVars, lost>>

SubscribeSend(t) ==
    \E w \in rows[t] :
        /\ pc[t] = "send" /\ op[t] = "subscribe"
        /\ Notify(t, w, seen[t][w])
        /\ missed' = IF says[t] = Status /\ w \notin crossed THEN missed \ {w} ELSE missed
        /\ rows' = [rows EXCEPT ![t] = {}]
        /\ Goto(t, "done")
        /\ UNCHANGED <<now, tableVars, op, seen, seenDialog, says, lost, faults>>

(* Expires 0: the row goes and the dialog ends with a terminated NOTIFY.     *)
Unsubscribe(t) ==
    \E w \in Watchers :
        /\ pc[t] = "idle"
        /\ DeleteRows({w})
        /\ op' = [op EXCEPT ![t] = "unsubscribe"]
        /\ Goto(t, "done")
        /\ UNCHANGED <<reg, box, localVars, repeated, lost, missed, faults>>

handle_subscribe(t) ==
    \/ SubscribeUpsert(t)
    \/ SubscribeRead(t) \/ SubscribeReadFails(t)
    \/ get_status(t) \/ StatusFails(t)
    \/ SubscribeSend(t) \/ Unsubscribe(t)

-----------------------------------------------------------------------------
(* VoicemailMwi: handle_subscribe, notify_mailbox and its callers.           *)

(* Only a source that is registered may subscribe; others get 403.           *)
subscriber_source_is_registered(t) ==
    /\ pc[t] = "idle"
    /\ \E p \in Phones, o \in {"mwi_subscribe", "mwi_unsubscribe"} :
          /\ op' = [op EXCEPT ![t] = o]
          /\ rows' = [rows EXCEPT ![t] = {p}]
    /\ Goto(t, IF reg = "live" THEN "store" ELSE "done")
    /\ UNCHANGED <<tableVars, now, seen, seenDialog, says, sentVars, lost, missed, faults>>

MwiUpsert(t) ==
    \E p \in rows[t] :
        /\ pc[t] = "store" /\ op[t] = "mwi_subscribe"
        /\ Upsert(p)
        /\ Goto(t, "count")
        /\ UNCHANGED <<reg, box, dialog, op, localVars, sentVars, lost, missed, faults>>

MwiDelete(t) ==
    \E p \in rows[t] :
        /\ pc[t] = "store" /\ op[t] = "mwi_unsubscribe"
        /\ DeleteRows({p})
        /\ Goto(t, "done")
        /\ UNCHANGED <<reg, box, op, localVars, repeated, lost, missed, faults>>

(* A message is stored, saved or deleted; the caller then notifies.          *)
MailboxChanges(t) ==
    /\ pc[t] = "idle"
    /\ \E c \in Contents \ {box} : box' = c
    /\ op' = [op EXCEPT ![t] = "change"]
    /\ Goto(t, "count")
    /\ UNCHANGED <<reg, cseq, expired, dialog, localVars, sentVars, lost, missed, faults>>

message_counts(t) ==
    /\ pc[t] = "count"
    /\ says' = [says EXCEPT ![t] = box]
    /\ Goto(t, "phones")
    /\ UNCHANGED <<tableVars, op, rows, now, seen, seenDialog, sentVars, lost, missed, faults>>

MwiSelect(t) ==
    /\ pc[t] = "phones"
    /\ rows' = [rows EXCEPT ![t] = LiveRows(Phones)]
    /\ seen' = [seen EXCEPT ![t] = cseq]
    /\ seenDialog' = [seenDialog EXCEPT ![t] = dialog]
    /\ missed' = IF says[t] = box THEN missed \ Phones ELSE missed
    /\ Goto(t, "notify")
    /\ UNCHANGED <<tableVars, op, now, says, sentVars, lost, faults>>

(* The NOTIFY goes out first, the row gets its CSeq afterwards.              *)
MwiSend(t) ==
    \E p \in rows[t] :
        /\ pc[t] = "notify"
        /\ Notify(t, p, seen[t][p] + 1)
        /\ now' = [now EXCEPT ![t] = p]
        /\ Goto(t, "persist")
        /\ UNCHANGED <<tableVars, op, rows, seen, seenDialog, says, lost, missed, faults>>

(* The socket refuses the datagram: the row is skipped.                      *)
MwiSendFails(t) ==
    \E p \in rows[t] :
        /\ pc[t] = "notify"
        /\ Fault
        /\ missed' = missed \cup {p}
        /\ rows' = [rows EXCEPT ![t] = @ \ {p}]
        /\ UNCHANGED <<tableVars, pc, op, now, seen, seenDialog, says, sentVars, lost>>

(* A failing statement ends the whole run, whatever rows are left.           *)
MwiFails(t) ==
    /\ pc[t] \in {"count", "phones", "persist"}
    /\ Fault
    /\ missed' = missed \cup Phones
    /\ lost' = IF pc[t] = "persist" THEN lost \cup {now[t]} ELSE lost
    /\ Goto(t, "done")
    /\ UNCHANGED <<tableVars, op, localVars, sentVars>>

\* Faulty variant: the row keeps the CSeq that was read.
MwiUpdateForgets(t) ==
    /\ pc[t] = "persist"
    /\ rows' = [rows EXCEPT ![t] = @ \ {now[t]}]
    /\ Goto(t, "notify")
    /\ UNCHANGED <<tableVars, op, now, seen, seenDialog, says, sentVars, lost, missed, faults>>

MwiUpdate(t) ==
    /\ pc[t] = "persist"
    /\ cseq' = [cseq EXCEPT ![now[t]] = IF @ = NoRow THEN @ ELSE seen[t][now[t]] + 1]
    /\ rows' = [rows EXCEPT ![t] = @ \ {now[t]}]
    /\ Goto(t, "notify")
    /\ UNCHANGED <<reg, box, expired, dialog, op, now, seen, seenDialog, says, sentVars, lost, missed, faults>>

MwiEnds(t) ==
    /\ pc[t] = "notify" /\ rows[t] = {}
    /\ Goto(t, "done")
    /\ UNCHANGED <<tableVars, op, localVars, sentVars, lost, missed, faults>>

notify_mailbox(t) ==
    \/ message_counts(t) \/ MwiSelect(t)
    \/ MwiSend(t) \/ MwiSendFails(t) \/ MwiUpdate(t)
    \/ MwiEnds(t) \/ MwiFails(t)

mwi_handle_subscribe(t) == subscriber_source_is_registered(t) \/ MwiUpsert(t) \/ MwiDelete(t)

-----------------------------------------------------------------------------
(* Expiry, the periodic clean-up of sip/server.rs and restarts.              *)

RegistrationExpires ==
    /\ reg = "live" /\ Fault
    /\ reg' = "lapsed"
    /\ missed' = missed \cup Watchers
    /\ UNCHANGED <<box, cseq, expired, dialog, pc, op, localVars, sentVars, lost>>

RegistrationSweep ==
    /\ reg = "lapsed"
    /\ reg' = "none"
    /\ UNCHANGED <<box, cseq, expired, dialog, pc, op, localVars, sentVars, lost, missed, faults>>

SubscriptionExpires(r) ==
    /\ r \in LiveRows(Rows) /\ Fault
    /\ expired' = expired \cup {r}
    /\ UNCHANGED <<reg, box, cseq, dialog, pc, op, localVars, sentVars, lost, missed>>

(* The phones' table is swept only at start, see Restart.                    *)
PresenceSweep ==
    /\ Watchers \cap expired # {}
    /\ DeleteRows(Watchers \cap expired)
    /\ UNCHANGED <<reg, box, pc, op, localVars, repeated, lost, missed, faults>>

(* Voicemail::reconcile_on_startup deletes the phones' expired rows; when    *)
(* the statement fails the server starts all the same.                       *)
Restart ==
    /\ Fault
    /\ DeleteRows(Phones \cap expired) \/ UNCHANGED <<cseq, expired, dialog, top, topSays>>
    /\ pc' = [t \in Tasks |-> IF InFlight(t) THEN "done" ELSE pc[t]]
    /\ missed' = IF \E t \in Tasks : InFlight(t) THEN Rows ELSE missed
    /\ lost' = lost \cup {now[t] : t \in {u \in Tasks : pc[u] = "persist"}}
    /\ UNCHANGED <<reg, box, op, localVars, repeated>>

-----------------------------------------------------------------------------
(* The rows a task is working on.                                            *)
Handles(t) ==
    CASE pc[t] \in {"read", "status", "update", "send"} -> rows[t]
      [] pc[t] \in {"phones", "notify", "persist"} -> Phones
      [] OTHER -> {}

Registering(t) == InFlight(t) /\ op[t] = "register"

Step ==
    \/ \E t \in Tasks :
           \/ handle_register(t)
           \/ handle_subscribe(t)
           \/ mwi_handle_subscribe(t)
           \/ MailboxChanges(t)
           \/ notify_mailbox(t)
    \/ RegistrationExpires
    \/ RegistrationSweep
    \/ \E r \in Rows : SubscriptionExpires(r)
    \/ PresenceSweep
    \/ Restart

Next ==
    /\ Step
    /\ crossed' = crossed \cup {r \in Rows : \E t, u \in Tasks : t # u /\ r \in Handles(t)' \cap Handles(u)'}
    /\ raced' = (raced \/ \E t, u \in Tasks : t # u /\ Registering(t)' /\ Registering(u)')

Spec == Init /\ [][Next]_vars

-----------------------------------------------------------------------------
Quiescent == \A t \in Tasks : ~InFlight(t)

(* The state keeps its shape, and only a row that exists can have expired.   *)
TypeOK ==
    /\ reg \in {"none", "live", "lapsed"}
    /\ box \in Contents
    /\ \A r \in Rows : cseq[r] # NoRow => cseq[r] \in Nat
    /\ expired \subseteq {r \in Rows : cseq[r] # NoRow}
    /\ \A t \in Tasks : rows[t] \subseteq Rows
    /\ repeated \cup crossed \cup lost \cup missed \subseteq Rows

(* Once no handler is in progress, the newest NOTIFY of every watcher shows  *)
(* the status of the user, although subscriptions may have overlapped with   *)
(* registrations: a SUBSCRIBE stores its row before it reads the status, and *)
(* a REGISTER stores the status before it reads the rows.  Left out are two  *)
(* REGISTERs in progress at once, a row whose CSeq one of the handlers       *)
(* overwrote, and what was not announced at all (an expiry, a failure).      *)
NewestIsTrue ==
    Quiescent /\ ~raced =>
        \A w \in LiveRows(Watchers) \ (lost \cup missed) : topSays[w] = {Status}

(* The same for the counts of the mailbox: the newest NOTIFY of every phone  *)
(* shows them, as long as the runs of notify_mailbox do not overlap.         *)
NewestCountsAreTrue ==
    Quiescent =>
        \A p \in LiveRows(Phones) \ (crossed \cup lost \cup missed) : topSays[p] = {box}

(* No subscriber is sent a CSeq that is not higher than the ones before,     *)
(* across refreshes, expiries and restarts, unless two handlers had its row  *)
(* in hand at once or a CSeq could not be saved.                             *)
FreshCSeq == repeated \subseteq crossed \cup lost
=============================================================================
