------------------------ MODULE Subscriptions_proofs ------------------------
(* Proofs about Subscriptions, for any number of watchers, phones, handlers *)
(* and faults: no subscriber is sent a CSeq twice unless two handlers had   *)
(* its row in hand or a CSeq was not saved, and once no handler is in       *)
(* progress the newest NOTIFY of every watcher and phone is true.           *)
EXTENDS Subscriptions, TLAPS

(* Leaves without arithmetic go to Zenon; the others name SMT.              *)
USE ZenonT(30)

(* The variables are functions of the tasks and of the rows, and CSeqs and   *)
(* dialogs are numbers.                                                     *)
Domains ==
    /\ DOMAIN pc = Tasks /\ DOMAIN op = Tasks /\ DOMAIN rows = Tasks /\ DOMAIN now = Tasks
    /\ DOMAIN seen = Tasks /\ DOMAIN seenDialog = Tasks /\ DOMAIN says = Tasks
    /\ DOMAIN cseq = Rows /\ DOMAIN dialog = Rows /\ DOMAIN top = Rows /\ DOMAIN topSays = Rows
    /\ \A t \in Tasks : DOMAIN seen[t] = Rows /\ DOMAIN seenDialog[t] = Rows
Numbers ==
    /\ \A r \in Rows : cseq[r] \in Nat \cup {NoRow} /\ dialog[r] \in Nat /\ top[r] \in Nat
    /\ \A t \in Tasks, r \in Rows : seenDialog[t][r] \in Nat

(* The task has rows in hand.                                               *)
Working(t) == pc[t] \in {"read", "status", "update", "send", "notify", "persist"}

(* A handler of presence works on watchers, one of the mailbox on phones.   *)
Shape(t) ==
    /\ pc[t] \in {"select", "update"} => op[t] = "register"
    /\ pc[t] \in {"read", "status"} => op[t] = "subscribe"
    /\ pc[t] = "send" => op[t] \in {"register", "subscribe"}
    /\ pc[t] \in {"update", "read", "status", "send"} => rows[t] \subseteq Watchers
    /\ pc[t] \in {"read", "status", "send"} /\ op[t] = "subscribe" =>
           \E w \in Watchers : rows[t] = {w}
    /\ pc[t] \in {"store", "notify", "persist"} => rows[t] \subseteq Phones
    /\ pc[t] = "persist" \/ (pc[t] = "send" /\ op[t] = "register") => now[t] \in rows[t]
    /\ Working(t) /\ pc[t] # "read" => \A r \in rows[t] : seen[t][r] \in Nat

(* The task has the row in hand and the row is in the dialog it was read in. *)
Mine(t, r) == r \in rows[t] /\ seenDialog[t][r] = dialog[r]

(* A dialog ends when its row goes, and a row that is gone was told nothing. *)
Dialogs ==
    /\ \A t \in Tasks, r \in Rows : seenDialog[t][r] <= dialog[r]
    /\ \A t \in Tasks, r \in Rows : Working(t) /\ Mine(t, r) => cseq[r] # NoRow
    /\ \A r \in Rows : cseq[r] = NoRow => top[r] = 0 /\ r \notin expired

ShapeInv == Domains /\ Numbers /\ (\A t \in Tasks : Shape(t)) /\ Dialogs

(* The NOTIFY was sent and its CSeq is still to be saved.                   *)
Unsaved(t, r) == pc[t] = "persist" /\ now[t] = r /\ Mine(t, r)

(* What a task knows of the CSeq of a row that no other task has in hand.   *)
Known(t, r) ==
    /\ pc[t] \in {"update", "send"} /\ op[t] = "register" /\ Mine(t, r) =>
           /\ top[r] <= seen[t][r]
           /\ cseq[r] = IF pc[t] = "send" /\ now[t] = r THEN seen[t][r] + 1 ELSE seen[t][r]
    /\ pc[t] = "read" /\ Mine(t, r) => top[r] < cseq[r]
    /\ pc[t] \in {"status", "send"} /\ op[t] = "subscribe" /\ Mine(t, r) =>
           top[r] < seen[t][r] /\ cseq[r] = seen[t][r]
    /\ pc[t] \in {"notify", "persist"} /\ r \in Phones =>
           /\ Mine(t, r) /\ ~Unsaved(t, r) => top[r] <= seen[t][r] /\ seen[t][r] <= cseq[r]
           /\ Unsaved(t, r) => top[r] <= seen[t][r] + 1
           /\ seenDialog[t][r] # dialog[r] => top[r] = 0
    /\ pc[t] \in {"read", "status", "send"} /\ op[t] = "subscribe" /\ r \in rows[t]
           /\ seenDialog[t][r] # dialog[r] => cseq[r] = NoRow

(* The row of a subscriber holds the highest CSeq it was sent.              *)
Saved(r) ==
    cseq[r] # NoRow /\ (\A t \in Tasks : ~Unsaved(t, r)) => top[r] <= cseq[r]

Fresh(r) == Saved(r) /\ \A t \in Tasks : Known(t, r)

(* Two tasks that have a row in hand have been recorded.                    *)
Recorded ==
    \A r \in Rows \ crossed : \A t, u \in Tasks :
        r \in Handles(t) /\ r \in Handles(u) => t = u

FreshInv ==
    /\ Recorded
    /\ FreshCSeq
    /\ \A r \in Rows \ (crossed \cup lost) : Fresh(r)

-----------------------------------------------------------------------------
(* The shape of the state                                                   *)

TaskStep(t) ==
    \/ handle_register(t)
    \/ handle_subscribe(t)
    \/ mwi_handle_subscribe(t)
    \/ MailboxChanges(t)
    \/ notify_mailbox(t)

(* A step of t leaves the other tasks alone.                                *)
Others(t) ==
    \A u \in Tasks \ {t} :
        /\ pc'[u] = pc[u]
        /\ op'[u] = op[u]
        /\ rows'[u] = rows[u]
        /\ now'[u] = now[u]
        /\ seen'[u] = seen[u]
        /\ seenDialog'[u] = seenDialog[u]
        /\ says'[u] = says[u]

(* Every handler works on its own variables.                                *)
LEMMA OthersSame == ASSUME Domains, NEW t \in Tasks, TaskStep(t) PROVE Others(t)
<1> USE DEF Domains, Others, localVars, Goto
<1>1. CASE handle_register(t)
  BY <1>1 DEF handle_register, notify_status_change, RegisterUpsert, RegisterDelete,
              NotifySelect, NotifySelectFails, NotifyUpdate, NotifyUpdateFails, NotifySend,
              NotifyEnds
<1>2. CASE handle_subscribe(t)
  BY <1>2 DEF handle_subscribe, SubscribeUpsert, SubscribeRead, SubscribeReadFails, get_status,
              StatusFails, SubscribeSend, Unsubscribe
<1>3. CASE mwi_handle_subscribe(t) \/ MailboxChanges(t)
  BY <1>3 DEF mwi_handle_subscribe, subscriber_source_is_registered, MwiUpsert, MwiDelete,
              MailboxChanges
<1>4. CASE notify_mailbox(t)
  BY <1>4 DEF notify_mailbox, message_counts, MwiSelect, MwiSend, MwiSendFails, MwiUpdate,
              MwiEnds, MwiFails
<1> QED
  BY <1>1, <1>2, <1>3, <1>4 DEF TaskStep

(* So do the domains, whatever happens.                                     *)
LEMMA DomainsStep == ASSUME Domains, Step PROVE Domains'
<1> USE DEF Domains, Goto, localVars, tableVars, sentVars, Fault, Notify, Upsert, DeleteRows
<1>1. ASSUME NEW t \in Tasks, handle_register(t) PROVE Domains'
  BY <1>1 DEF handle_register, notify_status_change, RegisterUpsert, RegisterDelete,
              NotifySelect, NotifySelectFails, NotifyUpdate, NotifyUpdateFails, NotifySend,
              NotifyEnds
<1>2. ASSUME NEW t \in Tasks, handle_subscribe(t) PROVE Domains'
  BY <1>2, ZenonT(120) DEF handle_subscribe, SubscribeUpsert, SubscribeRead, SubscribeReadFails, get_status,
              StatusFails, SubscribeSend, Unsubscribe
<1>3. ASSUME NEW t \in Tasks, mwi_handle_subscribe(t) \/ MailboxChanges(t) PROVE Domains'
  BY <1>3 DEF mwi_handle_subscribe, subscriber_source_is_registered, MwiUpsert, MwiDelete,
              MailboxChanges
<1>4. ASSUME NEW t \in Tasks, notify_mailbox(t) PROVE Domains'
  BY <1>4 DEF notify_mailbox, message_counts, MwiSelect, MwiSend, MwiSendFails, MwiUpdate,
              MwiEnds, MwiFails
<1>5. CASE RegistrationExpires \/ RegistrationSweep \/ PresenceSweep \/ Restart
  BY <1>5 DEF RegistrationExpires, RegistrationSweep, PresenceSweep, Restart
<1>6. ASSUME NEW r \in Rows, SubscriptionExpires(r) PROVE Domains'
  BY <1>6 DEF SubscriptionExpires
<1> QED
  BY <1>1, <1>2, <1>3, <1>4, <1>5, <1>6 DEF Step

(* A task that is not touched keeps its shape.                              *)
LEMMA ShapeOthers ==
    ASSUME NEW t \in Tasks, Others(t), NEW u \in Tasks \ {t}, Shape(u) PROVE Shape(u)'
  BY DEF Others, Shape, Working

(* Every step of a handler leaves it where the code can be, with the rows   *)
(* of its table.                                                            *)
LEMMA ShapeTask == ASSUME ShapeInv, NEW t \in Tasks, TaskStep(t) PROVE Shape(t)'
<1>0. /\ Domains /\ Shape(t)
      /\ Watchers \subseteq Rows /\ Phones \subseteq Rows
      /\ \A r \in Rows : cseq[r] # NoRow => cseq[r] \in Nat
  BY DEF ShapeInv, Numbers, Rows
<1> USE <1>0 DEF Domains, Shape, Working, Goto, localVars
<1>1. CASE RegisterUpsert(t) \/ RegisterDelete(t) \/ NotifySelectFails(t)
  BY <1>1 DEF RegisterUpsert, RegisterDelete, NotifySelectFails
<1>2. CASE NotifySelect(t)
  BY <1>2 DEF NotifySelect, LiveRows
<1>3. CASE NotifyUpdate(t)
  BY <1>3, ZenonT(120) DEF NotifyUpdate
<1>4. CASE NotifyUpdateFails(t)
  BY <1>4 DEF NotifyUpdateFails
<1>5. CASE NotifySend(t) \/ NotifyEnds(t)
  BY <1>5, ZenonT(120) DEF NotifySend, NotifyEnds
<1>6. CASE SubscribeUpsert(t)
  <2> PICK w \in Watchers : rows' = [rows EXCEPT ![t] = {w}]
    BY <1>6 DEF SubscribeUpsert
  <2>1. pc'[t] = "read" /\ op'[t] = "subscribe" /\ rows'[t] = {w}
    BY <1>6 DEF SubscribeUpsert
  <2> QED
    BY <2>1
<1>7. CASE SubscribeRead(t)
  BY <1>7, SMTT(30) DEF SubscribeRead
<1>8. CASE SubscribeReadFails(t)
  BY <1>8, SMTT(30) DEF SubscribeReadFails
<1>9. CASE get_status(t) \/ StatusFails(t)
  BY <1>9 DEF get_status, StatusFails
<1>10. CASE SubscribeSend(t) \/ Unsubscribe(t)
  BY <1>10 DEF SubscribeSend, Unsubscribe
<1>11. CASE mwi_handle_subscribe(t)
  <2>1. CASE subscriber_source_is_registered(t)
    <3> PICK p \in Phones : rows' = [rows EXCEPT ![t] = {p}]
      BY <2>1 DEF subscriber_source_is_registered
    <3>1. pc'[t] \in {"store", "done"} /\ rows'[t] = {p}
      BY <2>1 DEF subscriber_source_is_registered
    <3> QED
      BY <3>1
  <2>2. CASE MwiUpsert(t) \/ MwiDelete(t)
    BY <2>2 DEF MwiUpsert, MwiDelete
  <2> QED
    BY <1>11, <2>1, <2>2 DEF mwi_handle_subscribe
<1>12. CASE MailboxChanges(t) \/ message_counts(t) \/ MwiEnds(t) \/ MwiFails(t)
  BY <1>12 DEF MailboxChanges, message_counts, MwiEnds, MwiFails
<1>13. CASE MwiSelect(t)
  BY <1>13 DEF MwiSelect, LiveRows
<1>14. CASE MwiSend(t)
  BY <1>14 DEF MwiSend
<1>15. CASE MwiSendFails(t)
  BY <1>15, ZenonT(120) DEF MwiSendFails
<1>16. CASE MwiUpdate(t)
  BY <1>16 DEF MwiUpdate
<1> HIDE <1>0 DEF Domains, Shape, Working, Goto, localVars
<1> QED
  BY <1>1, <1>2, <1>3, <1>4, <1>5, <1>6, <1>7, <1>8, <1>9, <1>10, <1>11, <1>12, <1>13, <1>14,
     <1>15, <1>16
  DEF TaskStep, handle_register, notify_status_change, handle_subscribe, notify_mailbox

(* What a step may do to the tables: a row goes only with its dialog, and   *)
(* what is left is sound.                                                   *)
Onward ==
    \A r \in Rows :
        /\ cseq'[r] \in Nat \cup {NoRow} /\ dialog'[r] \in Nat /\ top'[r] \in Nat
        /\ dialog[r] <= dialog'[r]
        /\ dialog'[r] = dialog[r] /\ cseq[r] # NoRow => cseq'[r] # NoRow
        /\ cseq'[r] = NoRow => top'[r] = 0 /\ r \notin expired'

(* Steps that leave the tables alone, or only let a row expire.             *)
LEMMA SameOnward ==
    ASSUME ShapeInv, UNCHANGED <<cseq, dialog, top>>,
           expired' \subseteq expired \cup {r \in Rows : cseq[r] # NoRow}
    PROVE  Onward
<1>1. \A r \in Rows : dialog[r] <= dialog[r]
  BY SMTT(30) DEF ShapeInv, Numbers
<1> QED
  BY <1>1 DEF ShapeInv, Numbers, Dialogs, Onward

(* Storing a subscription.                                                  *)
LEMMA UpsertOnward ==
    ASSUME ShapeInv, NEW r \in Rows, Upsert(r), UNCHANGED <<dialog, top>> PROVE Onward
  BY SubscriptionsAssumption, SMTT(30) DEF ShapeInv, Domains, Numbers, Dialogs, Onward, Upsert

(* Deleting subscriptions.                                                  *)
LEMMA DeleteOnward ==
    ASSUME ShapeInv, NEW R, DeleteRows(R) PROVE Onward
  BY SubscriptionsAssumption, SMTT(30) DEF ShapeInv, Domains, Numbers, Dialogs, Onward, DeleteRows

(* Sending a NOTIFY of a row in hand.                                       *)
LEMMA NotifyOnward ==
    ASSUME ShapeInv, NEW t \in Tasks, NEW r \in rows[t], r \in Rows, Working(t), NEW n \in Nat,
           Notify(t, r, n), UNCHANGED <<cseq, dialog, expired>>
    PROVE  Onward
<1>1. CASE seenDialog[t][r] = dialog[r]
  <2>1. cseq[r] # NoRow
    BY <1>1 DEF ShapeInv, Dialogs, Mine
  <2> QED
    BY <1>1, <2>1, SMTT(30) DEF ShapeInv, Domains, Numbers, Dialogs, Onward, Notify
<1>2. CASE seenDialog[t][r] # dialog[r]
  BY <1>2, SameOnward DEF Notify, sentVars
<1> QED
  BY <1>1, <1>2

(* Saving the CSeq of a row.                                                *)
LEMMA UpdateOnward ==
    ASSUME ShapeInv, NEW r \in Rows, NEW n \in Nat,
           cseq' = [cseq EXCEPT ![r] = IF @ = NoRow THEN @ ELSE n],
           UNCHANGED <<dialog, expired, top>>
    PROVE  Onward
  BY SubscriptionsAssumption, SMTT(30) DEF ShapeInv, Domains, Numbers, Dialogs, Onward

(* Every step of a handler keeps the tables sound.                          *)
LEMMA TaskOnward == ASSUME ShapeInv, NEW t \in Tasks, TaskStep(t) PROVE Onward
<1>0. Shape(t) /\ Watchers \subseteq Rows /\ Phones \subseteq Rows
  BY DEF ShapeInv, Rows
<1>1. CASE UNCHANGED <<cseq, dialog, top, expired>>
  BY <1>1, SameOnward
<1>2. CASE SubscribeUpsert(t) \/ MwiUpsert(t)
  BY <1>0, <1>2, UpsertOnward DEF SubscribeUpsert, MwiUpsert, Shape, sentVars
<1>3. CASE Unsubscribe(t) \/ MwiDelete(t)
  BY <1>3, DeleteOnward DEF Unsubscribe, MwiDelete
<1>4. CASE NotifyUpdate(t)
  <2> PICK r \in rows[t] : /\ pc[t] = "update"
                           /\ cseq' = [cseq EXCEPT ![r] = IF @ = NoRow THEN @ ELSE seen[t][r] + 1]
                           /\ UNCHANGED <<expired, dialog, sentVars>>
    BY <1>4 DEF NotifyUpdate
  <2>1. r \in Rows /\ seen[t][r] \in Nat
    BY <1>0 DEF Shape, Working
  <2>2. seen[t][r] + 1 \in Nat
    BY <2>1, SMTT(30)
  <2> QED
    BY <2>1, <2>2, UpdateOnward DEF sentVars
<1>5. CASE MwiUpdate(t)
  <2>1. now[t] \in Rows /\ seen[t][now[t]] \in Nat
    BY <1>0, <1>5 DEF Shape, Working, MwiUpdate
  <2>2. seen[t][now[t]] + 1 \in Nat
    BY <2>1, SMTT(30)
  <2> QED
    BY <1>5, <2>1, <2>2, UpdateOnward DEF MwiUpdate, sentVars
<1>6. CASE NotifySend(t)
  <2>1. now[t] \in rows[t] /\ now[t] \in Rows /\ seen[t][now[t]] \in Nat /\ Working(t)
    BY <1>0, <1>6 DEF Shape, Working, NotifySend
  <2>2. seen[t][now[t]] + 1 \in Nat
    BY <2>1, SMTT(30)
  <2> QED
    BY <1>6, <2>1, <2>2, NotifyOnward DEF NotifySend, tableVars
<1>7. CASE SubscribeSend(t)
  <2> PICK w \in rows[t] : pc[t] = "send" /\ Notify(t, w, seen[t][w]) /\ UNCHANGED tableVars
    BY <1>7 DEF SubscribeSend
  <2>1. w \in Rows /\ seen[t][w] \in Nat /\ Working(t)
    BY <1>0 DEF Shape, Working
  <2> QED
    BY <2>1, NotifyOnward DEF tableVars
<1>8. CASE MwiSend(t)
  <2> PICK p \in rows[t] : pc[t] = "notify" /\ Notify(t, p, seen[t][p] + 1) /\ UNCHANGED tableVars
    BY <1>8 DEF MwiSend
  <2>1. p \in Rows /\ seen[t][p] \in Nat /\ Working(t)
    BY <1>0 DEF Shape, Working
  <2>2. seen[t][p] + 1 \in Nat
    BY <2>1, SMTT(30)
  <2> QED
    BY <2>1, <2>2, NotifyOnward DEF tableVars
<1> QED
  <2>1. CASE handle_register(t)
    BY <2>1, <1>1, <1>4, <1>6
    DEF handle_register, notify_status_change, RegisterUpsert, RegisterDelete, NotifySelect,
        NotifySelectFails, NotifyUpdateFails, NotifyEnds, tableVars, sentVars
  <2>2. CASE handle_subscribe(t)
    BY <2>2, <1>1, <1>2, <1>3, <1>7
    DEF handle_subscribe, SubscribeRead, SubscribeReadFails, get_status, StatusFails, tableVars,
        sentVars
  <2>3. CASE mwi_handle_subscribe(t) \/ MailboxChanges(t)
    BY <2>3, <1>1, <1>2, <1>3
    DEF mwi_handle_subscribe, subscriber_source_is_registered, MailboxChanges, tableVars, sentVars
  <2>4. CASE notify_mailbox(t)
    BY <2>4, <1>1, <1>5, <1>8
    DEF notify_mailbox, message_counts, MwiSelect, MwiSendFails, MwiEnds, MwiFails, tableVars,
        sentVars
  <2> QED
    BY <2>1, <2>2, <2>3, <2>4 DEF TaskStep

(* A handler reads the dialogs when it reads or stores its rows, and has no *)
(* others in hand.                                                          *)
LEMMA TaskReads ==
    ASSUME ShapeInv, NEW t \in Tasks, TaskStep(t)
    PROVE  /\ seenDialog'[t] = seenDialog[t] \/ (seenDialog'[t] = dialog /\ dialog' = dialog)
           /\ Working(t)' => \/ /\ Working(t) /\ rows'[t] \subseteq rows[t]
                                /\ seenDialog'[t] = seenDialog[t]
                             \/ \A r \in rows'[t] : cseq'[r] # NoRow
<1> USE DEF ShapeInv, Domains, Working, Goto, localVars, tableVars
<1>1. CASE NotifySelect(t)
  BY <1>1 DEF NotifySelect, LiveRows
<1>2. CASE MwiSelect(t)
  BY <1>2 DEF MwiSelect, LiveRows
<1>3. CASE SubscribeUpsert(t)
  <2> PICK w \in Watchers : Upsert(w) /\ rows' = [rows EXCEPT ![t] = {w}]
    BY <1>3 DEF SubscribeUpsert
  <2>1. seenDialog'[t] = dialog /\ dialog' = dialog /\ rows'[t] = {w}
    BY <1>3 DEF SubscribeUpsert
  <2>2. cseq'[w] # NoRow
    BY SubscriptionsAssumption, SMTT(30) DEF Upsert, Numbers, Rows
  <2> QED
    BY <2>1, <2>2
<1>4. CASE handle_register(t) /\ ~NotifySelect(t)
  <2>1. CASE RegisterUpsert(t) \/ RegisterDelete(t)
    BY <2>1 DEF RegisterUpsert, RegisterDelete
  <2>2. CASE NotifySelectFails(t) \/ NotifyEnds(t)
    BY <2>2 DEF NotifySelectFails, NotifyEnds
  <2>3. CASE NotifyUpdate(t)
    BY <2>3, ZenonT(120) DEF NotifyUpdate
  <2>4. CASE NotifyUpdateFails(t)
    BY <2>4, ZenonT(120) DEF NotifyUpdateFails
  <2>5. CASE NotifySend(t)
    BY <2>5, ZenonT(120) DEF NotifySend
  <2> QED
    BY <1>4, <2>1, <2>2, <2>3, <2>4, <2>5 DEF handle_register, notify_status_change
<1>5. CASE handle_subscribe(t) /\ ~SubscribeUpsert(t)
  BY <1>5 DEF handle_subscribe, SubscribeRead, SubscribeReadFails, get_status, StatusFails,
              SubscribeSend, Unsubscribe
<1>6. CASE mwi_handle_subscribe(t) \/ MailboxChanges(t)
  BY <1>6 DEF mwi_handle_subscribe, subscriber_source_is_registered, MwiUpsert, MwiDelete,
              MailboxChanges
<1>7. CASE notify_mailbox(t) /\ ~MwiSelect(t)
  <2>1. CASE MwiSend(t)
    BY <2>1 DEF MwiSend
  <2>2. CASE MwiSendFails(t)
    BY <2>2, ZenonT(120) DEF MwiSendFails
  <2>3. CASE MwiUpdate(t)
    BY <2>3 DEF MwiUpdate
  <2>4. CASE message_counts(t) \/ MwiEnds(t) \/ MwiFails(t)
    BY <2>4 DEF message_counts, MwiEnds, MwiFails
  <2> QED
    BY <1>7, <2>1, <2>2, <2>3, <2>4 DEF notify_mailbox
<1> QED
  BY <1>1, <1>2, <1>3, <1>4, <1>5, <1>6, <1>7 DEF TaskStep

(* If tables go onward and each task keeps the dialogs it read, or reads    *)
(* them afresh, dialogs and numbers stay sound.                             *)
LEMMA DialogsKept ==
    ASSUME ShapeInv, Onward,
           \A u \in Tasks :
               /\ seenDialog'[u] = seenDialog[u] \/ (seenDialog'[u] = dialog /\ dialog' = dialog)
               /\ Working(u)' => \/ /\ Working(u) /\ rows'[u] \subseteq rows[u]
                                    /\ seenDialog'[u] = seenDialog[u]
                                 \/ \A r \in rows'[u] : cseq'[r] # NoRow
    PROVE  Numbers' /\ Dialogs'
<1>1. \A u \in Tasks, r \in Rows : seenDialog'[u][r] \in Nat /\ seenDialog'[u][r] <= dialog'[r]
  BY SMTT(30) DEF ShapeInv, Numbers, Dialogs, Onward
<1>2. ASSUME NEW u \in Tasks, NEW r \in Rows, Working(u)', Mine(u, r)' PROVE cseq'[r] # NoRow
  <2>1. CASE Working(u) /\ r \in rows[u] /\ seenDialog'[u] = seenDialog[u]
    <3>1. dialog'[r] = dialog[r]
      BY <1>2, <2>1, SMTT(30) DEF ShapeInv, Numbers, Dialogs, Onward, Mine
    <3> QED
      BY <1>2, <2>1, <3>1 DEF ShapeInv, Dialogs, Onward, Mine
  <2> QED
    BY <1>2, <2>1 DEF Mine
<1> QED
  BY <1>1, <1>2 DEF Numbers, Dialogs, Onward

(* ShapeInv is an inductive invariant.                                      *)
LEMMA ShapeStep == ASSUME ShapeInv, Step PROVE ShapeInv'
<1>1. Domains'
  BY DomainsStep DEF ShapeInv
<1>2. ASSUME NEW t \in Tasks, TaskStep(t) PROVE ShapeInv'
  <2>1. Others(t)
    BY <1>2, OthersSame DEF ShapeInv
  <2>2. \A u \in Tasks : Shape(u)'
    BY <1>2, <2>1, ShapeTask, ShapeOthers DEF ShapeInv
  <2>3. Onward
    BY <1>2, TaskOnward
  <2>4. Numbers' /\ Dialogs'
    BY <1>2, <2>1, <2>3, TaskReads, DialogsKept DEF Others, Working
  <2> QED
    BY <1>1, <2>2, <2>4 DEF ShapeInv
<1>3. ASSUME Onward, UNCHANGED <<pc, op, localVars>> PROVE ShapeInv'
  <2>1. \A u \in Tasks : Shape(u)'
    BY <1>3 DEF ShapeInv, Shape, Working, localVars
  <2>2. Numbers' /\ Dialogs'
    BY <1>3, DialogsKept DEF Working, localVars
  <2> QED
    BY <1>1, <2>1, <2>2 DEF ShapeInv
<1>4. CASE RegistrationExpires \/ RegistrationSweep
  BY <1>3, <1>4, SameOnward DEF RegistrationExpires, RegistrationSweep, sentVars
<1>5. ASSUME NEW r \in Rows, SubscriptionExpires(r) PROVE ShapeInv'
  BY <1>3, <1>5, SameOnward DEF SubscriptionExpires, LiveRows, sentVars
<1>6. CASE PresenceSweep
  BY <1>3, <1>6, DeleteOnward DEF PresenceSweep
<1>7. CASE Restart
  <2>1. Onward
    BY <1>7, DeleteOnward, SameOnward DEF Restart
  <2>2. /\ UNCHANGED <<op, localVars>>
        /\ \A u \in Tasks : pc'[u] \in {"idle", "done"}
    BY <1>7 DEF Restart, InFlight
  <2>3. \A u \in Tasks : Shape(u)' /\ ~Working(u)'
    BY <2>2 DEF Shape, Working
  <2>4. Numbers' /\ Dialogs'
    BY <2>1, <2>2, <2>3, DialogsKept DEF localVars
  <2> QED
    BY <1>1, <2>3, <2>4 DEF ShapeInv
<1> QED
  BY <1>2, <1>4, <1>5, <1>6, <1>7 DEF Step, TaskStep

-----------------------------------------------------------------------------
(* No CSeq is sent twice                                                    *)

(* The rows a task is working on, by where it is.                           *)
LEMMA HandlesRows ==
    ASSUME NEW t \in Tasks
    PROVE  /\ pc[t] \in {"read", "status", "update", "send"} => Handles(t) = rows[t]
           /\ pc[t] \in {"phones", "notify", "persist"} => Handles(t) = Phones
           /\ pc'[t] \in {"read", "status", "update", "send"} => Handles(t)' = rows'[t]
           /\ pc'[t] \in {"phones", "notify", "persist"} => Handles(t)' = Phones
  BY SMTT(30) DEF Handles

(* A task that is not touched has the same rows in hand.                    *)
LEMMA HandlesOthers ==
    ASSUME NEW t \in Tasks, Others(t), NEW u \in Tasks \ {t} PROVE Handles(u)' = Handles(u)
  BY DEF Others, Handles

(* A task knows nothing of a row it does not have in hand.                  *)
LEMMA NotInHand ==
    ASSUME NEW u \in Tasks, NEW r \in Rows, r \notin Handles(u)' PROVE Known(u, r)'
<1>1. /\ pc'[u] \in {"read", "status", "update", "send"} => r \notin rows'[u]
      /\ pc'[u] \in {"phones", "notify", "persist"} => r \notin Phones
  BY HandlesRows
<1> QED
  BY <1>1 DEF Known, Mine

(* A row that is gone has nothing to be known of.                           *)
LEMMA FreshGone == ASSUME ShapeInv', NEW r \in Rows, cseq'[r] = NoRow PROVE Fresh(r)'
<1>1. top'[r] = 0 /\ \A u \in Tasks : ~(Working(u)' /\ Mine(u, r)')
  BY DEF ShapeInv, Dialogs
<1>2. ASSUME NEW u \in Tasks PROVE Known(u, r)'
  BY <1>1 DEF Known, Working, Unsaved
<1> QED
  BY <1>2 DEF Fresh, Saved

(* A step of t that does not touch the row of r.                            *)
LEMMA FreshSame ==
    ASSUME NEW r \in Rows, Fresh(r), NEW t \in Tasks, Others(t),
           cseq'[r] = cseq[r], dialog'[r] = dialog[r], top'[r] = top[r],
           Known(t, r)', Unsaved(t, r) => Unsaved(t, r)'
    PROVE  Fresh(r)'
<1>1. ASSUME NEW u \in Tasks, u # t PROVE Known(u, r)' /\ (Unsaved(u, r)' <=> Unsaved(u, r))
  <2>1. /\ pc'[u] = pc[u] /\ op'[u] = op[u] /\ rows'[u] = rows[u] /\ now'[u] = now[u]
        /\ seen'[u] = seen[u] /\ seenDialog'[u] = seenDialog[u]
    BY <1>1 DEF Others
  <2>2. (Mine(u, r)' <=> Mine(u, r)) /\ (Unsaved(u, r)' <=> Unsaved(u, r))
    BY <2>1 DEF Mine, Unsaved
  <2>3. Known(u, r)
    BY DEF Fresh
  <2> QED
    BY <2>1, <2>2, <2>3 DEF Known
<1>2. Saved(r)'
  BY <1>1 DEF Fresh, Saved
<1> QED
  BY <1>1, <1>2 DEF Fresh

(* A step of the only task that has the row in hand.                        *)
LEMMA FreshHeld ==
    ASSUME Recorded, Recorded', NEW r \in Rows, r \notin crossed, r \notin crossed',
           NEW t \in Tasks, Others(t), r \in Handles(t) \/ r \in Handles(t)',
           Known(t, r)', Saved(r)'
    PROVE  Fresh(r)'
<1>1. ASSUME NEW u \in Tasks, u # t PROVE r \notin Handles(u)'
  <2>1. Handles(u)' = Handles(u)
    BY <1>1, HandlesOthers
  <2>2. CASE r \in Handles(t)
    <3>1. r \notin Handles(u)
      BY <1>1, <2>2 DEF Recorded
    <3> QED
      BY <2>1, <3>1
  <2>3. CASE r \in Handles(t)'
    BY <1>1, <2>3 DEF Recorded
  <2> QED
    BY <2>2, <2>3
<1> QED
  BY <1>1, NotInHand DEF Fresh

(* Nobody has a CSeq of a watcher to save.                                  *)
LEMMA WatcherSaved ==
    ASSUME ShapeInv, NEW w \in Watchers, Fresh(w), cseq[w] # NoRow
    PROVE  top[w] \in Nat /\ cseq[w] \in Nat /\ top[w] <= cseq[w]
<1>1. ASSUME NEW u \in Tasks, Unsaved(u, w) PROVE FALSE
  BY <1>1, SubscriptionsAssumption DEF Unsaved, Mine, ShapeInv, Shape
<1> QED
  BY <1>1 DEF Fresh, Saved, ShapeInv, Numbers, Rows

(* What holds before and after a step of t for a row r that is neither      *)
(* crossed nor lost.                                                        *)
Steady(t, r) ==
    /\ ShapeInv /\ ShapeInv' /\ Recorded /\ Recorded' /\ Others(t) /\ Fresh(r)
    /\ r \notin crossed /\ r \notin crossed' /\ r \notin lost'

(* A task that has no row in hand after its step.                           *)
LEMMA FreshLeaves ==
    ASSUME NEW t \in Tasks, NEW r \in Rows, Steady(t, r), ~Working(t)',
           cseq'[r] = cseq[r], dialog'[r] = dialog[r], top'[r] = top[r], ~Unsaved(t, r)
    PROVE  Fresh(r)'
<1>1. Known(t, r)'
  BY DEF Known, Working
<1> QED
  BY <1>1, FreshSame DEF Steady

(* notify_status_change, for a row that is not crossed.                     *)
LEMMA FreshRegister ==
    ASSUME NEW t \in Tasks, NEW r \in Rows, Steady(t, r), handle_register(t) PROVE Fresh(r)'
<1> USE DEF Goto, localVars, tableVars
<1>0. /\ Domains /\ Shape(t) /\ Known(t, r) /\ Watchers \subseteq Rows
      /\ cseq[r] \in Nat \cup {NoRow} /\ top[r] \in Nat
  BY DEF Steady, ShapeInv, Fresh, Rows, Numbers
<1>1. CASE RegisterUpsert(t) \/ RegisterDelete(t) \/ NotifySelectFails(t) \/ NotifyEnds(t)
  <2>1. /\ ~Working(t)' /\ pc[t] # "persist"
        /\ UNCHANGED <<cseq, dialog, top>>
    BY <1>0, <1>1 DEF Domains, RegisterUpsert, RegisterDelete, NotifySelectFails, NotifyEnds,
                      Working, sentVars
  <2> QED
    BY <2>1, FreshLeaves DEF Unsaved
<1>2. CASE NotifySelect(t)
  <2>1. /\ pc[t] = "select" /\ pc'[t] = "update" /\ op'[t] = "register"
        /\ rows'[t] = LiveRows(Watchers)
        /\ seen'[t] = cseq /\ seenDialog'[t] = dialog
        /\ UNCHANGED <<cseq, dialog, top>>
    BY <1>0, <1>2 DEF NotifySelect, Domains, sentVars
  <2>2. Known(t, r)'
    <3>1. r \in rows'[t] => top[r] <= cseq[r]
      BY <2>1, WatcherSaved DEF LiveRows, Steady
    <3> QED
      BY <2>1, <3>1 DEF Known, Mine
  <2> QED
    BY <2>1, <2>2, FreshSame DEF Unsaved, Steady
<1>3. CASE NotifyUpdate(t) \/ NotifyUpdateFails(t)
  <2> PICK s \in rows[t] :
          /\ pc[t] = "update" /\ op[t] = "register"
          /\ \/ /\ cseq' = [cseq EXCEPT ![s] = IF @ = NoRow THEN @ ELSE seen[t][s] + 1]
                /\ lost' = IF cseq[s] \in {NoRow, seen[t][s]} THEN lost ELSE lost \cup {s}
             \/ cseq' = cseq /\ lost' = lost \cup {s}
          /\ now' = [now EXCEPT ![t] = s]
          /\ Goto(t, "send")
          /\ UNCHANGED <<dialog, op, rows, seen, seenDialog, sentVars>>
    BY <1>3 DEF NotifyUpdate, NotifyUpdateFails
  <2>1. /\ pc'[t] = "send" /\ op'[t] = "register" /\ now'[t] = s
        /\ rows'[t] = rows[t] /\ seen'[t] = seen[t] /\ seenDialog'[t] = seenDialog[t]
        /\ dialog' = dialog /\ top' = top
        /\ Mine(t, r)' <=> Mine(t, r)
    BY <1>0 DEF Domains, sentVars, Mine
  <2>2. CASE r # s
    <3>1. cseq'[r] = cseq[r]
      BY <1>0, <2>2 DEF Domains
    <3>2. Known(t, r)'
      BY <1>0, <2>1, <2>2, <3>1 DEF Known, Unsaved
    <3> QED
      BY <2>1, <3>1, <3>2, FreshSame DEF Steady, Unsaved
  <2>3. CASE r = s
    <3>1. /\ seen[t][r] \in Nat /\ r \in Watchers
          /\ cseq[r] \in {NoRow, seen[t][r]}
          /\ cseq'[r] = IF cseq[r] = NoRow THEN NoRow ELSE seen[t][r] + 1
          /\ r \in Handles(t)
      BY <1>0, <2>3, HandlesRows DEF Domains, Shape, Working, Steady
    <3>2. CASE cseq'[r] = NoRow
      BY <3>2, FreshGone DEF Steady
    <3>3. CASE cseq'[r] # NoRow
      <4>1. cseq[r] = seen[t][r] /\ cseq'[r] = seen[t][r] + 1 /\ top[r] <= seen[t][r]
        BY <3>1, <3>3, WatcherSaved DEF Steady
      <4>2. Known(t, r)'
        BY <1>0, <2>1, <2>3, <4>1 DEF Known, Unsaved
      <4>3. top'[r] <= cseq'[r]
        BY <1>0, <2>1, <3>1, <4>1, SMTT(30)
      <4> QED
        BY <3>1, <4>2, <4>3, FreshHeld DEF Steady, Saved
    <3> QED
      BY <3>2, <3>3
  <2> QED
    BY <2>2, <2>3
<1>4. CASE NotifySend(t)
  <2>1. /\ pc[t] = "send" /\ op[t] = "register" /\ pc'[t] = "update"
        /\ op'[t] = op[t] /\ now'[t] = now[t]
        /\ rows'[t] = rows[t] \ {now[t]} /\ seen'[t] = seen[t] /\ seenDialog'[t] = seenDialog[t]
        /\ dialog' = dialog /\ cseq' = cseq /\ now[t] \in rows[t]
    BY <1>0, <1>4 DEF Domains, NotifySend, Shape
  <2>2. CASE r # now[t]
    <3>1. top'[r] = top[r]
      BY <1>0, <1>4, <2>2 DEF Domains, NotifySend, Notify, sentVars
    <3>2. Mine(t, r)' <=> Mine(t, r)
      BY <2>1, <2>2 DEF Mine
    <3>3. Known(t, r)'
      BY <1>0, <2>1, <2>2, <3>1, <3>2 DEF Known
    <3> QED
      BY <2>1, <3>1, <3>3, FreshSame DEF Steady, Unsaved
  <2>3. CASE r = now[t] /\ cseq[r] # NoRow
    <3>1. r \notin rows'[t] /\ r \in Handles(t) /\ seen[t][r] \in Nat /\ r \in Watchers
      BY <1>0, <2>1, <2>3, HandlesRows DEF Shape, Working
    <3>2. Known(t, r)'
      BY <2>1, <3>1 DEF Known, Mine
    <3>3. top[r] <= cseq[r] /\ cseq[r] \in Nat
      BY <2>3, <3>1, WatcherSaved DEF Steady
    <3>4. top'[r] <= cseq'[r]
      <4>1. CASE Mine(t, r)
        <5>1. cseq[r] = seen[t][r] + 1 /\ top'[r] \in {top[r], seen[t][r] + 1}
          BY <1>0, <1>4, <2>1, <2>3, <4>1 DEF Known, Mine, NotifySend, Notify, Domains
        <5> QED
          BY <2>1, <3>1, <3>3, <5>1, SMTT(30)
      <4>2. CASE ~Mine(t, r)
        BY <1>4, <2>1, <2>3, <3>3, <4>2 DEF Mine, NotifySend, Notify, sentVars
      <4> QED
        BY <4>1, <4>2
    <3> QED
      BY <3>1, <3>2, <3>4, FreshHeld DEF Steady, Saved
  <2>4. CASE r = now[t] /\ cseq[r] = NoRow
    BY <2>1, <2>4, FreshGone DEF Steady
  <2> QED
    BY <2>2, <2>3, <2>4
<1> QED
  BY <1>1, <1>2, <1>3, <1>4 DEF handle_register, notify_status_change

(* Presence::handle_subscribe, for a row that is not crossed.               *)
LEMMA FreshSubscribe ==
    ASSUME NEW t \in Tasks, NEW r \in Rows, Steady(t, r), lost \subseteq lost',
           handle_subscribe(t)
    PROVE  Fresh(r)'
<1> USE DEF Goto, localVars, tableVars
<1>0. /\ Domains /\ Shape(t) /\ Known(t, r) /\ Watchers \subseteq Rows
      /\ cseq[r] \in Nat \cup {NoRow} /\ top[r] \in Nat
      /\ cseq[r] = NoRow => top[r] = 0
  BY DEF Steady, ShapeInv, Fresh, Rows, Numbers, Dialogs
<1>1. CASE SubscribeUpsert(t)
  <2> PICK w \in Watchers : /\ pc[t] = "idle" /\ Upsert(w)
                            /\ rows' = [rows EXCEPT ![t] = {w}]
                            /\ seenDialog' = [seenDialog EXCEPT ![t] = dialog]
                            /\ Goto(t, "read")
                            /\ UNCHANGED <<dialog, sentVars>>
    BY <1>1 DEF SubscribeUpsert
  <2>1. /\ pc'[t] = "read" /\ rows'[t] = {w} /\ seenDialog'[t] = dialog
        /\ dialog' = dialog /\ top' = top
    BY <1>0 DEF Domains, sentVars
  <2>2. CASE r # w
    <3>1. cseq'[r] = cseq[r]
      BY <1>0, <2>2 DEF Upsert, Domains
    <3>2. Known(t, r)'
      BY <2>1, <2>2 DEF Known, Mine
    <3> QED
      BY <2>1, <3>1, <3>2, FreshSame DEF Steady, Unsaved
  <2>3. CASE r = w
    <3>1. cseq'[r] = IF cseq[r] = NoRow THEN 1 ELSE cseq[r] + 1
      BY <1>0, <2>3 DEF Upsert, Domains
    <3>2. cseq[r] # NoRow => top[r] <= cseq[r]
      BY <2>3, WatcherSaved DEF Steady
    <3>3. top'[r] < cseq'[r] /\ top'[r] <= cseq'[r]
      BY <1>0, <2>1, <3>1, <3>2, SMTT(30)
    <3>4. Known(t, r)'
      BY <2>1, <3>3 DEF Known
    <3>5. r \in Handles(t)'
      BY <2>1, <2>3, HandlesRows
    <3> QED
      BY <3>3, <3>4, <3>5, FreshHeld DEF Steady, Saved
  <2> QED
    BY <2>2, <2>3
<1>2. CASE SubscribeRead(t) \/ SubscribeReadFails(t)
  <2> PICK w \in rows[t] :
          /\ pc[t] = "read" /\ op[t] = "subscribe"
          /\ \/ seen' = [seen EXCEPT ![t][w] = IF cseq[w] = NoRow THEN 1 ELSE cseq[w]]
             \/ lost' = lost \cup {w}
          /\ Goto(t, "status")
          /\ UNCHANGED <<cseq, dialog, op, rows, seenDialog, sentVars>>
    BY <1>2 DEF SubscribeRead, SubscribeReadFails
  <2>1. /\ pc'[t] = "status" /\ op' = op /\ rows' = rows /\ seenDialog' = seenDialog
        /\ cseq' = cseq /\ dialog' = dialog /\ top' = top /\ rows[t] = {w}
        /\ Mine(t, r)' <=> Mine(t, r)
    BY <1>0 DEF Domains, sentVars, Mine, Shape
  <2>2. CASE r # w
    BY <2>1, <2>2, FreshSame DEF Known, Mine, Steady, Unsaved
  <2>3. CASE r = w
    <3>1. Mine(t, r) => cseq[r] # NoRow
      BY DEF Steady, ShapeInv, Dialogs, Working
    <3>2. Mine(t, r) => seen'[t][r] = cseq[r]
      <4>1. seen' = [seen EXCEPT ![t][w] = IF cseq[w] = NoRow THEN 1 ELSE cseq[w]]
        BY <2>3 DEF Steady
      <4>2. seen'[t][w] = IF cseq[w] = NoRow THEN 1 ELSE cseq[w]
        BY <1>0, <2>3, <4>1, SMTT(30) DEF Domains
      <4> QED
        BY <2>3, <3>1, <4>2
    <3>3. Known(t, r)'
      BY <1>0, <2>1, <3>2 DEF Known
    <3> QED
      BY <2>1, <3>3, FreshSame DEF Steady, Unsaved
  <2> QED
    BY <2>2, <2>3
<1>3. CASE get_status(t) \/ StatusFails(t)
  <2>1. /\ pc[t] = "status" /\ op[t] = "subscribe" /\ pc'[t] = "send" /\ op' = op /\ rows' = rows
        /\ seen' = seen /\ seenDialog' = seenDialog
        /\ cseq' = cseq /\ dialog' = dialog /\ top' = top
        /\ Mine(t, r)' <=> Mine(t, r)
    BY <1>0, <1>3 DEF get_status, StatusFails, Domains, sentVars, Mine
  <2>2. Known(t, r)'
    BY <1>0, <2>1 DEF Known
  <2> QED
    BY <2>1, <2>2, FreshSame DEF Steady, Unsaved
<1>4. CASE SubscribeSend(t)
  <2> PICK w \in rows[t] : /\ pc[t] = "send" /\ op[t] = "subscribe" /\ Notify(t, w, seen[t][w])
                           /\ Goto(t, "done")
                           /\ UNCHANGED <<cseq, dialog>>
    BY <1>4 DEF SubscribeSend
  <2>1. pc'[t] = "done" /\ w \in Watchers /\ seen[t][w] \in Nat
    BY <1>0 DEF Domains, Shape, Working
  <2>2. CASE r # w
    <3>1. top'[r] = top[r]
      BY <1>0, <2>2 DEF Domains, Notify, sentVars
    <3> QED
      BY <2>1, <3>1, FreshLeaves DEF Unsaved, Working
  <2>3. CASE r = w
    <3>1. Known(t, r)' /\ r \in Handles(t)
      BY <2>1, <2>3, HandlesRows DEF Known
    <3>2. cseq[r] # NoRow => top[r] <= cseq[r]
      BY <2>1, <2>3, WatcherSaved DEF Steady
    <3>3. top'[r] = top[r] \/ (top'[r] = seen[t][r] /\ seen[t][r] = cseq[r])
      BY <1>0, <2>3 DEF Domains, Notify, sentVars, Known, Mine
    <3>4. cseq[r] # NoRow => top'[r] <= cseq'[r]
      BY <1>0, <2>1, <2>3, <3>2, <3>3, SMTT(30)
    <3> QED
      BY <3>1, <3>4, FreshHeld DEF Steady, Saved
  <2> QED
    BY <2>2, <2>3
<1>5. CASE Unsubscribe(t)
  <2> PICK w \in Watchers : DeleteRows({w}) /\ pc[t] = "idle" /\ Goto(t, "done")
    BY <1>5 DEF Unsubscribe
  <2>1. CASE r = w
    BY <2>1, FreshGone DEF DeleteRows, Steady
  <2>2. CASE r # w
    <3>1. cseq'[r] = cseq[r] /\ dialog'[r] = dialog[r] /\ top'[r] = top[r] /\ pc'[t] = "done"
      BY <1>0, <2>2 DEF DeleteRows, Domains
    <3> QED
      BY <3>1, FreshLeaves DEF Unsaved, Working
  <2> QED
    BY <2>1, <2>2
<1> QED
  BY <1>1, <1>2, <1>3, <1>4, <1>5 DEF handle_subscribe

(* VoicemailMwi, for a row that is not crossed.                             *)
LEMMA FreshMailbox ==
    ASSUME NEW t \in Tasks, NEW r \in Rows, Steady(t, r),
           mwi_handle_subscribe(t) \/ MailboxChanges(t) \/ notify_mailbox(t)
    PROVE  Fresh(r)'
<1> USE DEF Goto, localVars, tableVars
<1>0. /\ Domains /\ Shape(t) /\ Known(t, r) /\ Phones \subseteq Rows
      /\ cseq[r] \in Nat \cup {NoRow} /\ top[r] \in Nat /\ dialog[r] \in Nat
      /\ cseq[r] = NoRow => top[r] = 0
      /\ Saved(r)
  BY DEF Steady, ShapeInv, Fresh, Rows, Numbers, Dialogs
<1>1. CASE \/ subscriber_source_is_registered(t) \/ MailboxChanges(t) \/ message_counts(t)
           \/ MwiEnds(t)
  <2>1. pc[t] # "persist" /\ ~Working(t)' /\ UNCHANGED <<cseq, dialog, top>>
    BY <1>0, <1>1 DEF Domains, Working, subscriber_source_is_registered, MailboxChanges,
                      message_counts, MwiEnds, sentVars
  <2> QED
    BY <2>1, FreshLeaves DEF Unsaved
<1>2. CASE MwiFails(t)
  <2>1. ~Unsaved(t, r) /\ ~Working(t)' /\ UNCHANGED <<cseq, dialog, top>>
    BY <1>0, <1>2 DEF Domains, Working, MwiFails, sentVars, Unsaved, Steady
  <2> QED
    BY <2>1, FreshLeaves
<1>3. CASE MwiDelete(t)
  <2> PICK p \in rows[t] : DeleteRows({p}) /\ pc[t] = "store" /\ Goto(t, "done")
    BY <1>3 DEF MwiDelete
  <2>1. CASE r = p
    BY <2>1, FreshGone DEF DeleteRows, Steady
  <2>2. CASE r # p
    <3>1. cseq'[r] = cseq[r] /\ dialog'[r] = dialog[r] /\ top'[r] = top[r] /\ pc'[t] = "done"
      BY <1>0, <2>2 DEF DeleteRows, Domains
    <3> QED
      BY <3>1, FreshLeaves DEF Unsaved, Working
  <2> QED
    BY <2>1, <2>2
<1>4. CASE MwiUpsert(t)
  <2> PICK p \in rows[t] : /\ pc[t] = "store" /\ Upsert(p) /\ Goto(t, "count")
                           /\ UNCHANGED <<dialog, localVars, sentVars>>
    BY <1>4 DEF MwiUpsert
  <2>1. pc'[t] = "count" /\ dialog' = dialog /\ top' = top /\ p \in Phones
    BY <1>0 DEF Domains, sentVars, Shape
  <2>2. CASE r # p
    <3>1. cseq'[r] = cseq[r]
      BY <1>0, <2>2 DEF Upsert, Domains
    <3> QED
      BY <2>1, <3>1, FreshLeaves DEF Unsaved, Working
  <2>3. CASE r = p
    <3>1. /\ cseq'[r] = IF cseq[r] = NoRow THEN 1 ELSE cseq[r] + 1
          /\ r \notin Watchers
      BY <1>0, <2>1, <2>3, SubscriptionsAssumption DEF Upsert, Domains
    <3>2. ASSUME NEW u \in Tasks, u # t PROVE Known(u, r)' /\ (Unsaved(u, r)' <=> Unsaved(u, r))
      <4>1. /\ pc'[u] = pc[u] /\ op'[u] = op[u] /\ rows'[u] = rows[u] /\ now'[u] = now[u]
            /\ seen'[u] = seen[u] /\ seenDialog'[u] = seenDialog[u]
        BY <3>2 DEF Steady, Others
      <4>2. (Mine(u, r)' <=> Mine(u, r)) /\ (Unsaved(u, r)' <=> Unsaved(u, r))
        BY <2>1, <4>1 DEF Mine, Unsaved
      <4>3. /\ Known(u, r) /\ Shape(u)
            /\ Working(u) /\ Mine(u, r) => cseq[r] # NoRow
        BY DEF Steady, Fresh, ShapeInv, Dialogs
      <4>4. pc[u] \in {"read", "status", "update", "send"} => r \notin rows[u]
        BY <3>1, <4>3 DEF Shape
      <4>5. pc[u] \in {"notify", "persist"} /\ Mine(u, r) /\ ~Unsaved(u, r)
               => seen[u][r] <= cseq'[r]
        <5> SUFFICES ASSUME pc[u] \in {"notify", "persist"}, Mine(u, r), ~Unsaved(u, r)
                     PROVE  seen[u][r] <= cseq'[r]
          OBVIOUS
        <5>1. cseq[r] \in Nat /\ seen[u][r] \in Nat /\ seen[u][r] <= cseq[r] /\ cseq[r] # NoRow
          BY <1>0, <2>1, <2>3, <4>3 DEF Known, Working, Shape, Mine
        <5> QED
          BY <3>1, <5>1, SMTT(30)
      <4> QED
        BY <2>1, <4>1, <4>2, <4>3, <4>4, <4>5 DEF Known, Mine
    <3>3. Known(t, r)' /\ ~Unsaved(t, r) /\ ~Unsaved(t, r)'
      BY <2>1 DEF Known, Unsaved
    <3>4. (\A u \in Tasks : ~Unsaved(u, r)) => top'[r] <= cseq'[r]
      <4>1. (\A u \in Tasks : ~Unsaved(u, r)) /\ cseq[r] # NoRow => top[r] <= cseq[r]
        BY <1>0 DEF Saved
      <4> QED
        BY <1>0, <2>1, <3>1, <4>1, SMTT(30)
    <3>5. Saved(r)'
      BY <3>2, <3>3, <3>4 DEF Saved
    <3> QED
      BY <3>2, <3>3, <3>5 DEF Fresh
  <2> QED
    BY <2>2, <2>3
<1>5. CASE MwiSelect(t)
  <2>1. /\ pc[t] = "phones" /\ pc'[t] = "notify"
        /\ rows'[t] = LiveRows(Phones)
        /\ seen'[t] = cseq /\ seenDialog'[t] = dialog
        /\ UNCHANGED <<cseq, dialog, top>>
    BY <1>0, <1>5 DEF MwiSelect, Domains, sentVars
  <2>2. ASSUME r \in rows'[t] PROVE top[r] <= cseq[r] /\ cseq[r] \in Nat
    <3>1. r \in Phones /\ cseq[r] # NoRow
      BY <2>1, <2>2 DEF LiveRows
    <3>2. ASSUME NEW u \in Tasks, Unsaved(u, r) PROVE FALSE
      <4>1. r \in Handles(u) /\ r \in Handles(t) /\ u # t
        BY <2>1, <3>1, <3>2, HandlesRows DEF Unsaved
      <4> QED
        BY <4>1 DEF Steady, Recorded
    <3> QED
      BY <1>0, <3>1, <3>2 DEF Saved
  <2>3. r \in rows'[t] => cseq[r] <= cseq[r]
    BY <2>2, SMTT(30)
  <2>4. Known(t, r)'
    BY <2>1, <2>2, <2>3 DEF Known, Mine, Unsaved
  <2> QED
    BY <2>1, <2>4, FreshSame DEF Unsaved, Steady
<1>6. CASE MwiSend(t)
  <2> PICK p \in rows[t] : /\ pc[t] = "notify" /\ Notify(t, p, seen[t][p] + 1)
                           /\ now' = [now EXCEPT ![t] = p]
                           /\ Goto(t, "persist")
                           /\ UNCHANGED <<tableVars, op, rows, seen, seenDialog>>
    BY <1>6 DEF MwiSend
  <2>1. /\ pc'[t] = "persist" /\ now'[t] = p /\ p \in Phones /\ seen[t][p] \in Nat
        /\ rows' = rows /\ seen' = seen /\ seenDialog' = seenDialog
        /\ cseq' = cseq /\ dialog' = dialog
        /\ Mine(t, r)' <=> Mine(t, r)
    BY <1>0 DEF Domains, Shape, Working, Mine
  <2>2. CASE r # p
    <3>1. top'[r] = top[r]
      BY <1>0, <2>2 DEF Domains, Notify, sentVars
    <3>2. Known(t, r)'
      BY <1>0, <2>1, <2>2, <3>1 DEF Known, Unsaved
    <3> QED
      BY <2>1, <3>1, <3>2, FreshSame DEF Steady, Unsaved
  <2>3. CASE r = p
    <3>1. r \in Handles(t)
      BY <2>1, <2>3, HandlesRows
    <3>2. CASE Mine(t, r)
      <4>1. Unsaved(t, r)'
        BY <2>1, <2>3, <3>2 DEF Unsaved
      <4>2. top[r] <= seen[t][r]
        BY <1>0, <2>1, <2>3, <3>2 DEF Known, Unsaved
      <4>3. top'[r] = IF seen[t][r] + 1 > top[r] THEN seen[t][r] + 1 ELSE top[r]
        BY <1>0, <2>3, <3>2 DEF Notify, Domains, Mine
      <4>4. top'[r] <= seen[t][r] + 1
        BY <1>0, <2>1, <2>3, <4>2, <4>3, SMTT(30)
      <4>5. Known(t, r)'
        BY <2>1, <3>2, <4>1, <4>4 DEF Known, Mine
      <4>6. Saved(r)'
        BY <4>1 DEF Saved
      <4> QED
        BY <3>1, <4>5, <4>6, FreshHeld DEF Steady
    <3>3. CASE ~Mine(t, r)
      <4>1. top'[r] = top[r] /\ top[r] = 0 /\ seenDialog[t][r] # dialog[r]
        BY <1>0, <2>1, <2>3, <3>3 DEF Notify, Mine, sentVars, Known
      <4>2. Known(t, r)'
        BY <2>1, <3>3, <4>1 DEF Known, Unsaved
      <4>3. cseq[r] # NoRow => 0 <= cseq[r]
        BY <1>0, SMTT(30)
      <4>4. Saved(r)'
        BY <2>1, <4>1, <4>3 DEF Saved
      <4> QED
        BY <3>1, <4>2, <4>4, FreshHeld DEF Steady
    <3> QED
      BY <3>2, <3>3
  <2> QED
    BY <2>2, <2>3
<1>7. CASE MwiSendFails(t)
  <2> PICK p \in rows[t] : /\ pc[t] = "notify"
                           /\ rows' = [rows EXCEPT ![t] = @ \ {p}]
                           /\ UNCHANGED <<tableVars, pc, op, now, seen, seenDialog, sentVars>>
    BY <1>7 DEF MwiSendFails
  <2>1. Mine(t, r)' => Mine(t, r)
    BY <1>0 DEF Domains, Mine
  <2>2. Known(t, r)'
    BY <1>0, <2>1 DEF Known, Unsaved, sentVars
  <2> QED
    BY <2>2, FreshSame DEF Unsaved, Steady, sentVars
<1>8. CASE MwiUpdate(t)
  <2> DEFINE p == now[t]
  <2>1. /\ pc[t] = "persist" /\ pc'[t] = "notify" /\ p \in rows[t] /\ p \in Phones
        /\ seen[t][p] \in Nat
        /\ rows'[t] = rows[t] \ {p} /\ seen' = seen /\ seenDialog' = seenDialog
        /\ dialog' = dialog /\ top' = top
        /\ cseq' = [cseq EXCEPT ![p] = IF @ = NoRow THEN @ ELSE seen[t][p] + 1]
    BY <1>0, <1>8 DEF MwiUpdate, Domains, Shape, Working, sentVars
  <2>2. CASE r # p
    <3>1. cseq'[r] = cseq[r] /\ (Mine(t, r)' <=> Mine(t, r))
      BY <1>0, <2>1, <2>2 DEF Domains, Mine
    <3>2. Known(t, r)'
      BY <1>0, <2>1, <2>2, <3>1 DEF Known, Unsaved
    <3> QED
      BY <2>1, <2>2, <3>1, <3>2, FreshSame DEF Steady, Unsaved
  <2>3. CASE r = p
    <3>1. r \in Handles(t) /\ ~Mine(t, r)' /\ ~Unsaved(t, r)'
      BY <2>1, <2>3, HandlesRows DEF Mine, Unsaved
    <3>2. Known(t, r)'
      BY <1>0, <2>1, <3>1 DEF Known, Unsaved
    <3>3. cseq'[r] = IF cseq[r] = NoRow THEN NoRow ELSE seen[t][r] + 1
      BY <1>0, <2>1, <2>3 DEF Domains
    <3>4. top[r] <= seen[t][r] + 1 \/ top[r] = 0
      BY <1>0, <2>1, <2>3 DEF Known, Mine, Unsaved
    <3>5. cseq[r] # NoRow => top'[r] <= cseq'[r]
      BY <1>0, <2>1, <2>3, <3>3, <3>4, SMTT(30)
    <3>6. Saved(r)'
      BY <3>3, <3>5 DEF Saved
    <3> QED
      BY <3>1, <3>2, <3>6, FreshHeld DEF Steady
  <2> QED
    BY <2>2, <2>3
<1> QED
  BY <1>1, <1>2, <1>3, <1>4, <1>5, <1>6, <1>7, <1>8 DEF mwi_handle_subscribe, notify_mailbox

(* Nothing is forgotten of the rows that were crossed or lost.              *)
LEMMA LostGrows == ASSUME Next PROVE lost \subseteq lost' /\ crossed \subseteq crossed'
<1>1. ASSUME NEW t \in Tasks, TaskStep(t) PROVE lost \subseteq lost'
  BY <1>1 DEF TaskStep, handle_register, notify_status_change, RegisterUpsert, RegisterDelete,
       NotifySelect, NotifySelectFails, NotifyUpdate, NotifyUpdateFails, NotifySend, NotifyEnds,
       handle_subscribe, SubscribeUpsert, SubscribeRead, SubscribeReadFails, get_status,
       StatusFails, SubscribeSend, Unsubscribe, mwi_handle_subscribe,
       subscriber_source_is_registered, MwiUpsert, MwiDelete, MailboxChanges,
       notify_mailbox, message_counts, MwiSelect, MwiSend, MwiSendFails, MwiUpdate, MwiEnds,
       MwiFails
<1> QED
  BY <1>1 DEF Next, Step, TaskStep, RegistrationExpires, RegistrationSweep, SubscriptionExpires,
              PresenceSweep, Restart

(* A NOTIFY that does not have a new highest CSeq is of a row that two      *)
(* tasks had in hand, or whose CSeq was not saved.                          *)
LEMMA RepeatedTask ==
    ASSUME ShapeInv, FreshInv, NEW t \in Tasks, TaskStep(t), lost \subseteq lost',
           crossed \subseteq crossed'
    PROVE  FreshCSeq'
<1>0. /\ Domains /\ Shape(t) /\ repeated \subseteq crossed \cup lost
      /\ Watchers \subseteq Rows /\ Phones \subseteq Rows
      /\ \A r \in Rows \ (crossed \cup lost) : Known(t, r)
      /\ \A r \in Rows : top[r] \in Nat
  BY DEF ShapeInv, FreshInv, FreshCSeq, Fresh, Rows, Numbers
<1>1. CASE repeated' = repeated
  BY <1>0, <1>1 DEF FreshCSeq
<1>2. ASSUME NEW r \in rows[t], NEW n \in Nat, Notify(t, r, n), r \in Rows,
             r \notin crossed \cup lost /\ seenDialog[t][r] = dialog[r] => n > top[r]
      PROVE  FreshCSeq'
  BY <1>0, <1>2, ZenonT(120) DEF Notify, sentVars, FreshCSeq
<1>3. CASE NotifySend(t)
  <2> DEFINE r == now[t]
  <2>1. /\ r \in rows[t] /\ r \in Rows /\ seen[t][r] \in Nat /\ pc[t] = "send"
        /\ op[t] = "register"
    BY <1>0, <1>3 DEF NotifySend, Shape, Working
  <2>2. r \notin crossed \cup lost /\ seenDialog[t][r] = dialog[r] => top[r] <= seen[t][r]
    BY <1>0, <2>1 DEF Known, Mine
  <2>3. /\ seen[t][r] + 1 \in Nat
        /\ r \notin crossed \cup lost /\ seenDialog[t][r] = dialog[r] => seen[t][r] + 1 > top[r]
    BY <1>0, <2>1, <2>2, SMTT(30)
  <2> QED
    BY <1>2, <1>3, <2>1, <2>3 DEF NotifySend
<1>4. CASE SubscribeSend(t)
  <2> PICK r \in rows[t] : Notify(t, r, seen[t][r]) /\ pc[t] = "send" /\ op[t] = "subscribe"
    BY <1>4 DEF SubscribeSend
  <2>1. r \in Rows /\ seen[t][r] \in Nat
    BY <1>0 DEF Shape, Working
  <2>2. r \notin crossed \cup lost /\ seenDialog[t][r] = dialog[r] => top[r] < seen[t][r]
    BY <1>0, <2>1 DEF Known, Mine
  <2>3. r \notin crossed \cup lost /\ seenDialog[t][r] = dialog[r] => seen[t][r] > top[r]
    BY <1>0, <2>1, <2>2, SMTT(30)
  <2> QED
    BY <1>2, <2>1, <2>3
<1>5. CASE MwiSend(t)
  <2> PICK r \in rows[t] : Notify(t, r, seen[t][r] + 1) /\ pc[t] = "notify"
    BY <1>5 DEF MwiSend
  <2>1. r \in Rows /\ seen[t][r] \in Nat /\ r \in Phones
    BY <1>0 DEF Shape, Working
  <2>2. r \notin crossed \cup lost /\ seenDialog[t][r] = dialog[r] => top[r] <= seen[t][r]
    BY <1>0, <2>1 DEF Known, Mine, Unsaved
  <2>3. /\ seen[t][r] + 1 \in Nat
        /\ r \notin crossed \cup lost /\ seenDialog[t][r] = dialog[r] => seen[t][r] + 1 > top[r]
    BY <1>0, <2>1, <2>2, SMTT(30)
  <2> QED
    BY <1>2, <2>1, <2>3
<1> QED
  BY <1>1, <1>3, <1>4, <1>5
  DEF TaskStep, handle_register, notify_status_change, RegisterUpsert, RegisterDelete,
      NotifySelect, NotifySelectFails, NotifyUpdate, NotifyUpdateFails, NotifyEnds,
      handle_subscribe, SubscribeUpsert, SubscribeRead, SubscribeReadFails, get_status,
      StatusFails, Unsubscribe, mwi_handle_subscribe, subscriber_source_is_registered,
      MwiUpsert, MwiDelete, MailboxChanges, notify_mailbox, message_counts, MwiSelect,
      MwiSendFails, MwiUpdate, MwiEnds, MwiFails, sentVars

(* What no task does to the rows: expiry, the sweep and a restart.          *)
LEMMA FreshSystem ==
    ASSUME ShapeInv, ShapeInv', NEW r \in Rows, Fresh(r), r \notin lost',
           \/ RegistrationExpires \/ RegistrationSweep \/ PresenceSweep \/ Restart
           \/ \E s \in Rows : SubscriptionExpires(s)
    PROVE  Fresh(r)' /\ repeated' = repeated
<1>1. repeated' = repeated
  BY DEF RegistrationExpires, RegistrationSweep, PresenceSweep, Restart, SubscriptionExpires,
         sentVars
<1>2. \/ cseq'[r] = NoRow
      \/ cseq'[r] = cseq[r] /\ dialog'[r] = dialog[r] /\ top'[r] = top[r]
  BY DEF RegistrationExpires, RegistrationSweep, PresenceSweep, Restart, SubscriptionExpires,
         DeleteRows, sentVars
<1>3. CASE cseq'[r] = NoRow
  BY <1>1, <1>3, FreshGone
<1>4. CASE cseq'[r] = cseq[r] /\ dialog'[r] = dialog[r] /\ top'[r] = top[r]
  <2>1. CASE Restart
    <3>1. \A u \in Tasks : pc'[u] \in {"idle", "done"} /\ ~Unsaved(u, r)
      BY <2>1 DEF Restart, InFlight, Unsaved
    <3>2. \A u \in Tasks : Known(u, r)'
      BY <3>1 DEF Known
    <3> QED
      BY <1>1, <1>4, <3>1, <3>2 DEF Fresh, Saved
  <2>2. CASE UNCHANGED <<pc, op, localVars>>
    BY <1>1, <1>4, <2>2 DEF Fresh, Saved, Known, Unsaved, Mine, localVars
  <2> QED
    BY <2>1, <2>2 DEF RegistrationExpires, RegistrationSweep, PresenceSweep, SubscriptionExpires
<1> QED
  BY <1>2, <1>3, <1>4

(* FreshInv is inductive relative to ShapeInv.                              *)
LEMMA FreshStep == ASSUME ShapeInv, FreshInv, Next PROVE FreshInv'
<1>1. lost \subseteq lost' /\ crossed \subseteq crossed' /\ Step /\ ShapeInv'
  BY LostGrows, ShapeStep DEF Next
<1>2. Recorded'
  BY DEF Next, Recorded
<1>3. ASSUME NEW t \in Tasks, TaskStep(t) PROVE FreshInv'
  <2>1. FreshCSeq'
    BY <1>1, <1>3, RepeatedTask
  <2>2. ASSUME NEW r \in Rows, r \notin crossed', r \notin lost' PROVE Fresh(r)'
    <3>1. Steady(t, r)
      BY <1>1, <1>2, <1>3, <2>2, OthersSame DEF Steady, ShapeInv, FreshInv
    <3> QED
      BY <1>1, <1>3, <3>1, FreshRegister, FreshSubscribe, FreshMailbox DEF TaskStep
  <2> QED
    BY <1>2, <2>1, <2>2 DEF FreshInv
<1>4. CASE \/ RegistrationExpires \/ RegistrationSweep \/ PresenceSweep \/ Restart
           \/ \E s \in Rows : SubscriptionExpires(s)
  <2>1. repeated' = repeated
    BY <1>4 DEF RegistrationExpires, RegistrationSweep, PresenceSweep, Restart,
                SubscriptionExpires, sentVars
  <2>2. ASSUME NEW r \in Rows, r \notin crossed', r \notin lost' PROVE Fresh(r)'
    <3>1. Fresh(r)
      BY <1>1, <2>2 DEF FreshInv
    <3> QED
      BY <1>1, <1>4, <2>2, <3>1, FreshSystem
  <2> QED
    BY <1>1, <1>2, <2>1, <2>2 DEF FreshInv, FreshCSeq
<1> QED
  BY <1>1, <1>3, <1>4 DEF Step, TaskStep

(* Nobody has subscribed at the start.                                      *)
LEMMA FreshInit == Init => ShapeInv /\ FreshInv
<1> SUFFICES ASSUME Init PROVE ShapeInv /\ FreshInv
  OBVIOUS
<1>1. \A t \in Tasks : pc[t] = "idle" /\ Handles(t) = {}
  BY SMTT(30) DEF Init, Handles
<1>2. Domains
  BY DEF Init, Domains
<1>3. Numbers /\ Dialogs
  BY SMTT(30) DEF Init, Numbers, Dialogs, Working
<1>4. \A t \in Tasks : Shape(t)
  BY <1>1 DEF Shape, Working
<1>5. \A r \in Rows : Fresh(r)
  BY <1>1 DEF Init, Fresh, Saved, Known, Unsaved
<1> QED
  BY <1>1, <1>2, <1>3, <1>4, <1>5 DEF Init, ShapeInv, FreshInv, Recorded, FreshCSeq

(* Both hold throughout.                                                    *)
THEOREM FreshInvariance == Spec => [](ShapeInv /\ FreshInv)
<1>1. ASSUME ShapeInv, FreshInv, UNCHANGED vars PROVE ShapeInv' /\ FreshInv'
  <2>1. Domains' /\ Numbers' /\ Dialogs'
    BY <1>1 DEF ShapeInv, Domains, Numbers, Dialogs, Working, Mine, vars, tableVars, localVars,
                sentVars
  <2>2. ASSUME NEW t \in Tasks PROVE Shape(t)' /\ \A r \in Rows : Known(t, r) => Known(t, r)'
    <3>1. Shape(t)'
      BY <1>1 DEF ShapeInv, Shape, Working, vars, localVars
    <3>2. \A r : (Mine(t, r)' <=> Mine(t, r)) /\ (Unsaved(t, r)' <=> Unsaved(t, r))
      BY <1>1 DEF Mine, Unsaved, vars, tableVars, localVars
    <3>3. ASSUME NEW r \in Rows, Known(t, r) PROVE Known(t, r)'
      <4>1. UNCHANGED <<pc, op, now, rows, seen, seenDialog, cseq, dialog, top>>
        BY <1>1 DEF vars, tableVars, localVars, sentVars
      <4> QED
        BY <3>2, <3>3, <4>1 DEF Known
    <3> QED
      BY <3>1, <3>3
  <2>3. \A r \in Rows : Saved(r) => Saved(r)'
    BY <1>1 DEF Saved, Unsaved, Mine, vars, tableVars, localVars, sentVars
  <2>4. Recorded'
    BY <1>1, ZenonT(120) DEF FreshInv, Recorded, Handles, vars, localVars
  <2> QED
    BY <1>1, <2>1, <2>2, <2>3, <2>4
    DEF ShapeInv, FreshInv, Fresh, FreshCSeq, vars, sentVars
<1>2. ShapeInv /\ FreshInv /\ [Next]_vars => (ShapeInv /\ FreshInv)'
  BY <1>1, FreshStep, ShapeStep DEF Next
<1> QED
  BY <1>2, FreshInit, PTL DEF Spec

(* No subscriber is sent a CSeq that is not higher than the ones before,    *)
(* unless two handlers had its row in hand at once or a CSeq was not saved. *)
THEOREM CSeqsAreFresh == Spec => []FreshCSeq
<1>1. FreshInv => FreshCSeq
  BY DEF FreshInv
<1> QED
  BY FreshInvariance, <1>1, PTL

-----------------------------------------------------------------------------
(* The counts of the mailbox                                                *)

(* A task that has not yet reported a change of the mailbox.                *)
Counting == \E t \in Tasks : pc[t] = "count"

(* What the runs of notify_mailbox report is the present state, or another  *)
(* run will follow.                                                         *)
SaysCounts ==
    \A p \in Phones \ (crossed \cup missed), t \in Tasks :
        pc[t] \in {"phones", "notify", "persist"} => says[t] = box \/ Counting

WillTellCounts(t, p) ==
    \/ pc[t] = "phones"
    \/ pc[t] \in {"notify", "persist"} /\ Mine(t, p) /\ ~Unsaved(t, p)

CountsInv ==
    /\ SaysCounts
    /\ \A p \in LiveRows(Phones) \ (crossed \cup lost \cup missed) :
           \/ Counting
           \/ \E t \in Tasks : WillTellCounts(t, p) /\ says[t] = box
           \/ topSays[p] = {box}

(* The task is notifying the phones.                                        *)
Mailbox(t) == pc[t] \in {"count", "phones", "notify", "persist"}

(* A step that leaves the mailbox, its notifiers and the live rows alone.   *)
LEMMA CountsQuiet ==
    ASSUME CountsInv, box' = box, lost \subseteq lost', crossed \subseteq crossed',
           \A u \in Tasks : Mailbox(u) \/ Mailbox(u)' =>
               /\ pc'[u] = pc[u] /\ rows'[u] = rows[u] /\ now'[u] = now[u]
               /\ seenDialog'[u] = seenDialog[u] /\ says'[u] = says[u],
           \A p \in Phones :
               /\ p \in missed => p \in missed'
               /\ p \in LiveRows(Phones)' =>
                      /\ p \in LiveRows(Phones)
                      /\ dialog'[p] = dialog[p] /\ topSays'[p] = topSays[p]
    PROVE  CountsInv'
<1>1. Counting => Counting'
  BY DEF Counting, Mailbox
<1>2. SaysCounts'
  BY <1>1 DEF CountsInv, SaysCounts, Mailbox
<1>3. ASSUME NEW p \in LiveRows(Phones)', p \notin crossed', p \notin lost', p \notin missed'
      PROVE  \/ Counting'
             \/ \E t \in Tasks : WillTellCounts(t, p)' /\ says'[t] = box'
             \/ topSays'[p] = {box'}
  <2>1. p \in Phones
    BY DEF LiveRows
  <2>2. /\ p \in LiveRows(Phones) /\ p \notin crossed \cup lost \cup missed
        /\ dialog'[p] = dialog[p] /\ topSays'[p] = topSays[p]
    BY <1>3, <2>1
  <2>3. ASSUME NEW t \in Tasks, WillTellCounts(t, p) PROVE WillTellCounts(t, p)' /\ says'[t] = says[t]
    BY <2>2, <2>3 DEF WillTellCounts, Mine, Unsaved, Mailbox
  <2> QED
    BY <1>1, <2>2, <2>3, ZenonT(120) DEF CountsInv
<1> QED
  BY <1>2, <1>3 DEF CountsInv

(* The handlers of presence, and those that only store or delete a phone's  *)
(* subscription.                                                            *)
LEMMA CountsElsewhere ==
    ASSUME ShapeInv, CountsInv, lost \subseteq lost', crossed \subseteq crossed',
           NEW t \in Tasks, Others(t),
           \/ handle_register(t) \/ handle_subscribe(t)
           \/ subscriber_source_is_registered(t) \/ MwiDelete(t)
    PROVE  CountsInv'
<1>0. Domains /\ Shape(t) /\ Watchers \cap Phones = {}
  BY SubscriptionsAssumption DEF ShapeInv
<1> USE <1>0 DEF Goto, localVars, tableVars
<1>1. ~Mailbox(t) /\ ~Mailbox(t)' /\ box' = box
  <2>1. CASE handle_register(t)
    BY <2>1 DEF handle_register, notify_status_change, RegisterUpsert, RegisterDelete,
           NotifySelect, NotifySelectFails, NotifyUpdate, NotifyUpdateFails, NotifySend,
           NotifyEnds, Mailbox, Domains
  <2>2. CASE handle_subscribe(t)
    BY <2>2 DEF handle_subscribe, SubscribeUpsert, SubscribeRead, SubscribeReadFails,
           get_status, StatusFails, SubscribeSend, Unsubscribe, Mailbox, Domains
  <2>3. CASE subscriber_source_is_registered(t) \/ MwiDelete(t)
    BY <2>3 DEF subscriber_source_is_registered, MwiDelete, Mailbox, Domains
  <2> QED
    BY <2>1, <2>2, <2>3
<1>2. ASSUME NEW p \in Phones
      PROVE  /\ p \in missed => p \in missed'
             /\ p \in LiveRows(Phones)' =>
                    /\ p \in LiveRows(Phones)
                    /\ dialog'[p] = dialog[p] /\ topSays'[p] = topSays[p]
  <2>0. p \in Rows
    BY DEF Rows
  <2>1. CASE /\ p \in missed => p \in missed'
             /\ UNCHANGED <<expired, dialog>>
             /\ cseq'[p] = cseq[p] /\ topSays'[p] = topSays[p]
    BY <2>1 DEF LiveRows
  <2>2. CASE NotifyUpdate(t)
    <3> PICK s \in rows[t] :
            /\ pc[t] = "update"
            /\ cseq' = [cseq EXCEPT ![s] = IF @ = NoRow THEN @ ELSE seen[t][s] + 1]
            /\ UNCHANGED <<expired, dialog, missed, sentVars>>
      BY <2>2 DEF NotifyUpdate
    <3>1. p # s
      BY DEF Shape
    <3> QED
      BY <2>0, <2>1, <3>1 DEF Domains, sentVars
  <2>3. CASE NotifySend(t)
    <3>1. p # now[t]
      BY <2>3 DEF NotifySend, Shape
    <3> QED
      BY <2>0, <2>1, <2>3, <3>1 DEF NotifySend, Notify, Domains, sentVars
  <2>4. CASE SubscribeUpsert(t)
    BY <2>0, <2>4, ZenonT(120) DEF SubscribeUpsert, Upsert, Domains, LiveRows, sentVars
  <2>5. CASE SubscribeSend(t)
    <3> PICK w \in rows[t] :
            /\ pc[t] = "send" /\ Notify(t, w, seen[t][w])
            /\ missed' = IF says[t] = Status /\ w \notin crossed THEN missed \ {w} ELSE missed
            /\ UNCHANGED <<tableVars>>
      BY <2>5 DEF SubscribeSend
    <3>1. p # w
      BY DEF Shape
    <3> QED
      BY <2>0, <2>1, <3>1 DEF Notify, Domains, sentVars
  <2>6. CASE Unsubscribe(t) \/ MwiDelete(t)
    <3> PICK s : DeleteRows({s}) /\ missed' = missed
      BY <2>6 DEF Unsubscribe, MwiDelete
    <3> QED
      BY DEF DeleteRows, LiveRows, Domains, Rows
  <2>7. CASE \/ RegisterUpsert(t) \/ RegisterDelete(t) \/ NotifySelect(t) \/ NotifySelectFails(t)
             \/ NotifyUpdateFails(t) \/ NotifyEnds(t)
    BY <2>1, <2>7 DEF RegisterUpsert, RegisterDelete, NotifySelect, NotifySelectFails,
           NotifyUpdateFails, NotifyEnds, sentVars
  <2>8. CASE \/ SubscribeRead(t) \/ SubscribeReadFails(t) \/ get_status(t) \/ StatusFails(t)
             \/ subscriber_source_is_registered(t)
    BY <2>1, <2>8 DEF SubscribeRead, SubscribeReadFails, get_status, StatusFails,
           subscriber_source_is_registered, sentVars
  <2> QED
    BY <2>2, <2>3, <2>4, <2>5, <2>6, <2>7, <2>8
    DEF handle_register, notify_status_change, handle_subscribe
<1>3. \A u \in Tasks : Mailbox(u) \/ Mailbox(u)' =>
          /\ pc'[u] = pc[u] /\ rows'[u] = rows[u] /\ now'[u] = now[u]
          /\ seenDialog'[u] = seenDialog[u] /\ says'[u] = says[u]
  BY <1>1 DEF Others
<1> QED
  BY <1>1, <1>2, <1>3, CountsQuiet

(* notify_mailbox and what triggers it.                                     *)
LEMMA CountsMailbox ==
    ASSUME ShapeInv, FreshInv, Recorded', CountsInv, lost \subseteq lost', crossed \subseteq crossed',
           NEW t \in Tasks, Others(t),
           MwiUpsert(t) \/ MailboxChanges(t) \/ notify_mailbox(t)
    PROVE  CountsInv'
<1>0. Domains /\ Shape(t) /\ Phones \subseteq Rows
  BY DEF ShapeInv, Rows
<1> USE DEF Goto, localVars, tableVars
<1>1. ASSUME pc'[t] = "count" PROVE CountsInv'
  BY <1>1 DEF CountsInv, SaysCounts, Counting
<1>2. CASE MwiUpsert(t) \/ MailboxChanges(t)
  <2>1. pc'[t] = "count"
    BY <1>0, <1>2 DEF MwiUpsert, MailboxChanges, Domains
  <2> QED
    BY <1>1, <2>1
<1>3. CASE MwiFails(t)
  <2>1. Phones \subseteq missed'
    BY <1>3 DEF MwiFails
  <2> QED
    BY <2>1 DEF CountsInv, SaysCounts, LiveRows
(* From here on nobody else notifies a phone that is not crossed.           *)
<1>a. ASSUME NEW p \in Phones, p \notin crossed, pc[t] \in {"phones", "notify", "persist"},
             NEW u \in Tasks, pc[u] \in {"phones", "notify", "persist"}
      PROVE  u = t
  <2>1. p \in Handles(t) /\ p \in Handles(u)
    BY <1>a, HandlesRows
  <2> QED
    BY <1>0, <1>a, <2>1 DEF FreshInv, Recorded
<1>4. CASE message_counts(t)
  <2>1. /\ pc'[t] = "phones" /\ says'[t] = box /\ box' = box
    BY <1>0, <1>4 DEF message_counts, Domains
  <2>2. ASSUME NEW p \in Phones, p \notin crossed', NEW u \in Tasks,
               pc'[u] \in {"phones", "notify", "persist"}
        PROVE  u = t
    <3>1. p \in Handles(t)' /\ p \in Handles(u)'
      BY <2>1, <2>2, HandlesRows
    <3> QED
      BY <1>0, <2>2, <3>1 DEF Recorded
  <2> QED
    BY <2>1, <2>2 DEF CountsInv, SaysCounts, WillTellCounts
<1>5. CASE MwiSelect(t)
  <2>1. /\ pc[t] = "phones" /\ pc'[t] = "notify" /\ rows'[t] = LiveRows(Phones)
        /\ seenDialog'[t] = dialog /\ says' = says
        /\ missed' = IF says[t] = box THEN missed \ Phones ELSE missed
        /\ UNCHANGED <<box, cseq, expired, dialog>>
    BY <1>0, <1>5 DEF MwiSelect, Domains
  <2>2. Counting => Counting'
    BY <2>1 DEF Counting, Others
  <2>3. ASSUME NEW p \in Phones, p \notin crossed', p \notin missed'
        PROVE  says[t] = box \/ Counting
    BY <2>1, <2>3 DEF CountsInv, SaysCounts
  <2>4. SaysCounts'
    <3> SUFFICES ASSUME NEW p \in Phones, p \notin crossed', p \notin missed', NEW u \in Tasks,
                        pc'[u] \in {"phones", "notify", "persist"}
                 PROVE  says'[u] = box' \/ Counting'
      BY DEF SaysCounts
    <3>1. u = t
      BY <1>a, <2>1 DEF Others
    <3> QED
      BY <2>1, <2>2, <2>3, <3>1
  <2>5. ASSUME NEW p \in LiveRows(Phones)', p \notin crossed', p \notin missed'
        PROVE  Counting' \/ (WillTellCounts(t, p)' /\ says'[t] = box')
    <3>1. p \in Phones /\ p \in LiveRows(Phones)
      BY <2>1 DEF LiveRows
    <3>2. Mine(t, p)' /\ ~Unsaved(t, p)'
      BY <2>1, <3>1 DEF Mine, Unsaved
    <3> QED
      BY <2>1, <2>2, <2>3, <2>5, <3>1, <3>2 DEF WillTellCounts
  <2> QED
    BY <2>4, <2>5 DEF CountsInv
<1>6. CASE MwiSend(t) \/ MwiSendFails(t) \/ MwiUpdate(t) \/ MwiEnds(t)
  <2>1. /\ pc[t] \in {"notify", "persist"} /\ pc'[t] \in {"notify", "persist", "done"}
        /\ says' = says /\ box' = box /\ dialog' = dialog /\ seenDialog' = seenDialog
        /\ expired' = expired /\ missed \subseteq missed'
        /\ \A r \in Rows : cseq[r] = NoRow => cseq'[r] = NoRow
    BY <1>0, <1>6 DEF MwiSend, MwiSendFails, MwiUpdate, MwiEnds, Domains
  <2>2. Counting => Counting'
    BY <2>1 DEF Counting, Others
  <2>3. SaysCounts'
    BY <2>1, <2>2 DEF CountsInv, SaysCounts, Others
  <2>4. ASSUME NEW p \in LiveRows(Phones)', p \notin crossed', p \notin lost', p \notin missed'
        PROVE  \/ Counting'
               \/ \E u \in Tasks : WillTellCounts(u, p)' /\ says'[u] = box'
               \/ topSays'[p] = {box'}
    <3>1. /\ p \in Phones /\ p \in Rows /\ p \in LiveRows(Phones)
          /\ p \notin crossed /\ p \notin lost /\ p \notin missed
      BY <1>0, <2>1, <2>4 DEF LiveRows
    <3>2. says[t] = box \/ Counting
      BY <2>1, <3>1 DEF CountsInv, SaysCounts
    <3>3. \/ Counting
          \/ WillTellCounts(t, p) /\ says[t] = box
          \/ topSays[p] = {box}
      <4>1. ASSUME NEW u \in Tasks, WillTellCounts(u, p) PROVE u = t
        BY <1>a, <2>1, <3>1, <4>1 DEF WillTellCounts
      <4> QED
        BY <3>1, <4>1 DEF CountsInv
    <3>4. CASE MwiSend(t)
      <4> PICK q \in rows[t] : /\ pc[t] = "notify" /\ Notify(t, q, seen[t][q] + 1)
                               /\ now' = [now EXCEPT ![t] = q]
                               /\ Goto(t, "persist")
                               /\ UNCHANGED rows
        BY <3>4 DEF MwiSend
      <4>1. pc'[t] = "persist" /\ now'[t] = q /\ seen[t][q] \in Nat
        BY <1>0 DEF Domains, Shape, Working
      <4>2. CASE p # q
        <5>1. topSays'[p] = topSays[p] /\ (Mine(t, p)' <=> Mine(t, p))
          BY <1>0, <2>1, <3>1, <4>2 DEF Notify, Domains, sentVars, Mine
        <5>2. WillTellCounts(t, p) => WillTellCounts(t, p)'
          BY <2>1, <4>1, <4>2, <5>1 DEF WillTellCounts, Unsaved
        <5> QED
          BY <2>1, <2>2, <3>3, <5>1, <5>2
      <4>3. CASE p = q /\ seenDialog[t][p] = dialog[p]
        <5>1. top[p] <= seen[t][p] /\ top[p] \in Nat
          BY <3>1, <4>3 DEF FreshInv, Fresh, Known, Mine, Unsaved, ShapeInv, Numbers
        <5>2. seen[t][p] + 1 > top[p]
          BY <4>1, <4>3, <5>1, SMTT(30)
        <5>3. topSays'[p] = {says[t]}
          BY <1>0, <3>1, <4>3, <5>2 DEF Notify, Domains
        <5> QED
          BY <2>1, <2>2, <3>2, <5>3
      <4>4. CASE p = q /\ seenDialog[t][p] # dialog[p]
        BY <2>1, <2>2, <3>3, <4>4 DEF Notify, sentVars, WillTellCounts, Mine
      <4> QED
        BY <4>2, <4>3, <4>4
    <3>5. CASE MwiSendFails(t) \/ MwiUpdate(t) \/ MwiEnds(t)
      <4>1. topSays' = topSays /\ now' = now
        BY <3>5 DEF MwiSendFails, MwiUpdate, MwiEnds, sentVars
      <4>2. WillTellCounts(t, p) => WillTellCounts(t, p)'
        <5> SUFFICES ASSUME WillTellCounts(t, p) PROVE WillTellCounts(t, p)'
          OBVIOUS
        <5>1. p \in rows[t] /\ Mine(t, p) /\ ~Unsaved(t, p)
          BY <2>1 DEF WillTellCounts, Mine
        <5>2. p \in rows'[t] /\ pc'[t] = "notify"
          <6>1. CASE MwiSendFails(t)
            BY <1>0, <2>4, <5>1, <6>1, ZenonT(120) DEF MwiSendFails, Domains
          <6>2. CASE MwiUpdate(t)
            BY <1>0, <5>1, <6>2 DEF MwiUpdate, Domains, Unsaved
          <6>3. CASE MwiEnds(t)
            BY <5>1, <6>3 DEF MwiEnds
          <6> QED
            BY <3>5, <6>1, <6>2, <6>3
        <5> QED
          BY <2>1, <5>1, <5>2 DEF WillTellCounts, Mine, Unsaved
      <4> QED
        BY <2>1, <2>2, <3>3, <4>1, <4>2
    <3> QED
      BY <1>6, <3>4, <3>5
  <2> QED
    BY <2>3, <2>4 DEF CountsInv
<1> QED
  BY <1>2, <1>3, <1>4, <1>5, <1>6 DEF notify_mailbox

(* Expiry, the sweeps and a restart, which ends every run or none.          *)
LEMMA CountsSystem ==
    ASSUME ShapeInv, CountsInv, lost \subseteq lost', crossed \subseteq crossed',
           \/ RegistrationExpires \/ RegistrationSweep \/ PresenceSweep \/ Restart
           \/ \E s \in Rows : SubscriptionExpires(s)
    PROVE  CountsInv'
<1>0. Phones \subseteq Rows /\ Watchers \cap Phones = {}
  BY SubscriptionsAssumption DEF Rows
<1>1. ASSUME NEW p \in Phones, p \in LiveRows(Phones)'
      PROVE  /\ p \in LiveRows(Phones)
             /\ dialog'[p] = dialog[p] /\ topSays'[p] = topSays[p]
  BY <1>0, <1>1 DEF RegistrationExpires, RegistrationSweep, PresenceSweep, Restart,
         SubscriptionExpires, DeleteRows, LiveRows, sentVars
<1>2. box' = box
  BY DEF RegistrationExpires, RegistrationSweep, PresenceSweep, Restart, SubscriptionExpires
<1>3. CASE Restart /\ \E t \in Tasks : InFlight(t)
  <2>1. missed' = Rows
    BY <1>3 DEF Restart
  <2> QED
    BY <1>0, <2>1 DEF CountsInv, SaysCounts, LiveRows
<1>4. CASE ~(Restart /\ \E t \in Tasks : InFlight(t))
  <2>1. missed \subseteq missed'
    BY <1>4 DEF RegistrationExpires, RegistrationSweep, PresenceSweep, Restart,
         SubscriptionExpires
  <2>2. UNCHANGED localVars
    BY DEF RegistrationExpires, RegistrationSweep, PresenceSweep, Restart, SubscriptionExpires
  <2>3. \A u \in Tasks : pc'[u] = pc[u]
    BY <1>4 DEF RegistrationExpires, RegistrationSweep, PresenceSweep, Restart,
         SubscriptionExpires
  <2> QED
    BY <1>1, <1>2, <2>1, <2>2, <2>3, CountsQuiet DEF localVars
<1> QED
  BY <1>3, <1>4

(* CountsInv is inductive relative to the other two.                        *)
THEOREM CountsInvariance == Spec => []CountsInv
<1>1. Init => CountsInv
  BY SubscriptionsAssumption DEF Init, CountsInv, SaysCounts, LiveRows, Rows
<1>2. ASSUME ShapeInv, FreshInv, CountsInv, Next PROVE CountsInv'
  <2>1. lost \subseteq lost' /\ crossed \subseteq crossed' /\ Step /\ Recorded'
    BY <1>2, LostGrows, FreshStep DEF Next, FreshInv
  <2>2. ASSUME NEW t \in Tasks, TaskStep(t) PROVE CountsInv'
    <3>1. Others(t)
      BY <1>2, <2>2, OthersSame DEF ShapeInv
    <3> QED
      BY <1>2, <2>1, <2>2, <3>1, CountsElsewhere, CountsMailbox DEF TaskStep, mwi_handle_subscribe
  <2> QED
    BY <1>2, <2>1, <2>2, CountsSystem DEF Step, TaskStep
<1>3. ASSUME CountsInv, UNCHANGED vars PROVE CountsInv'
  <2>1. UNCHANGED <<box, cseq, expired, dialog, pc, rows, now, seenDialog, says, topSays, lost,
                    crossed, missed>>
    BY <1>3 DEF vars, tableVars, localVars, sentVars
  <2>2. LiveRows(Phones)' = LiveRows(Phones)
    BY <2>1 DEF LiveRows
  <2> QED
    BY <1>3, <2>1, <2>2, CountsQuiet
<1> QED
  BY <1>1, <1>2, <1>3, FreshInvariance, PTL DEF Spec

(* Once no handler is in progress, the newest NOTIFY of every phone shows   *)
(* the counts of the mailbox, as long as the runs of notify_mailbox did not *)
(* overlap.                                                                 *)
THEOREM CountsAreTrue == Spec => []NewestCountsAreTrue
<1>1. CountsInv => NewestCountsAreTrue
  BY DEF CountsInv, NewestCountsAreTrue, Quiescent, InFlight, Counting, WillTellCounts
<1> QED
  BY CountsInvariance, <1>1, PTL

-----------------------------------------------------------------------------
(* The status of the user                                                   *)

(* The task is to send the watcher a NOTIFY of its present dialog, under    *)
(* this CSeq.  A refresh that has not read the row yet takes what is there. *)
Owes(t, w) ==
    /\ Mine(t, w)
    /\ pc[t] \in {"read", "status"} \/ (pc[t] = "send" /\ (op[t] = "subscribe" \/ now[t] = w))
Due(t, w) ==
    IF pc[t] = "read" THEN cseq[w]
    ELSE IF op[t] = "subscribe" THEN seen[t][w] ELSE seen[t][w] + 1

(* It will show the present status, if that does not change before.         *)
Truthful(t) == pc[t] = "send" => says[t] = Status

(* No NOTIFY has or will have a higher CSeq than the row.                   *)
Bounded(w) ==
    cseq[w] # NoRow => /\ top[w] <= cseq[w]
                       /\ \A t \in Tasks : Owes(t, w) => Due(t, w) <= cseq[w]

(* The CSeq m of a true NOTIFY, sent or to be sent, is above those of all   *)
(* that are not true.                                                       *)
Truth(w, m) ==
    /\ \/ top[w] = m /\ topSays[w] = {Status}
       \/ top[w] < m /\ \E t \in Tasks : Owes(t, w) /\ Due(t, w) = m /\ Truthful(t)
    /\ \A t \in Tasks : Owes(t, w) /\ ~Truthful(t) => Due(t, w) < m

(* A REGISTER will tell the watcher under a CSeq that is still to be made.  *)
WillTell(t, w) ==
    \/ pc[t] = "select"
    \/ /\ pc[t] \in {"update", "send"} /\ op[t] = "register"
       /\ Mine(t, w) /\ ~(pc[t] = "send" /\ now[t] = w)
       /\ says[t] = Status

Told(w) == (\E t \in Tasks : WillTell(t, w)) \/ (\E m \in Nat : Truth(w, m))

Sound(w) ==
    /\ Bounded(w)
    /\ ~raced /\ w \in LiveRows(Watchers) \ missed => Told(w)

(* A REGISTER that has watchers to tell tells them the truth.               *)
RegisterTrue ==
    ~raced => \A t \in Tasks, w \in Watchers \ missed :
                  pc[t] \in {"update", "send"} /\ op[t] = "register" /\ w \in rows[t]
                     => says[t] = Status

OneRegister == raced \/ \A t, u \in Tasks : Registering(t) /\ Registering(u) => t = u

StatusInv == OneRegister /\ RegisterTrue /\ \A w \in Watchers \ lost : Sound(w)

(* What is owed has a number.                                               *)
LEMMA DueNat ==
    ASSUME ShapeInv, NEW t \in Tasks, NEW w \in Watchers, Owes(t, w)
    PROVE  Due(t, w) \in Nat /\ cseq[w] \in Nat /\ cseq[w] # NoRow /\ Working(t)
<1>1. w \in Rows /\ w \in rows[t] /\ Working(t)
  BY DEF Owes, Mine, Working, Rows
<1>2. cseq[w] \in Nat /\ cseq[w] # NoRow
  BY <1>1 DEF ShapeInv, Numbers, Dialogs, Owes
<1>3. pc[t] # "read" => seen[t][w] \in Nat
  BY <1>1 DEF ShapeInv, Shape
<1>4. pc[t] # "read" => seen[t][w] + 1 \in Nat
  BY <1>3, SMTT(30)
<1> QED
  BY <1>1, <1>2, <1>3, <1>4 DEF Due

(* A task that is not touched owes what it owed.                            *)
LEMMA Bystander ==
    ASSUME NEW t \in Tasks, Others(t), NEW u \in Tasks, u # t, NEW w \in Watchers,
           dialog'[w] = dialog[w]
    PROVE  /\ pc'[u] = pc[u]
           /\ Owes(u, w)' <=> Owes(u, w)
           /\ cseq'[w] = cseq[w] \/ pc[u] # "read" => Due(u, w)' = Due(u, w)
           /\ pc[u] = "read" => Due(u, w)' = cseq'[w] /\ Truthful(u) /\ Truthful(u)'
           /\ Status' = Status => /\ Truthful(u)' <=> Truthful(u)
                                  /\ WillTell(u, w)' <=> WillTell(u, w)
<1>1. /\ pc'[u] = pc[u] /\ op'[u] = op[u] /\ rows'[u] = rows[u] /\ now'[u] = now[u]
      /\ seen'[u] = seen[u] /\ seenDialog'[u] = seenDialog[u] /\ says'[u] = says[u]
  BY DEF Others
<1>2. Mine(u, w)' <=> Mine(u, w)
  BY <1>1 DEF Mine
<1>3. Owes(u, w)' <=> Owes(u, w)
  BY <1>1, <1>2 DEF Owes
<1>4. cseq'[w] = cseq[w] \/ pc[u] # "read" => Due(u, w)' = Due(u, w)
  BY <1>1 DEF Due
<1>5. pc[u] = "read" => Due(u, w)' = cseq'[w] /\ Truthful(u) /\ Truthful(u)'
  BY <1>1 DEF Due, Truthful
<1>6. ASSUME Status' = Status PROVE (Truthful(u)' <=> Truthful(u)) /\ (WillTell(u, w)' <=> WillTell(u, w))
  BY <1>1, <1>2, <1>6 DEF Truthful, WillTell
<1> QED
  BY <1>1, <1>3, <1>4, <1>5, <1>6

(* The bound is kept when a task owes no more than before.                  *)
LEMMA BoundedSame ==
    ASSUME NEW t \in Tasks, Others(t), NEW w \in Watchers, Bounded(w),
           cseq'[w] = cseq[w], dialog'[w] = dialog[w], top'[w] = top[w],
           Owes(t, w)' => Owes(t, w) /\ Due(t, w)' = Due(t, w)
    PROVE  Bounded(w)'
<1>1. \A u \in Tasks : Owes(u, w)' => Owes(u, w) /\ Due(u, w)' = Due(u, w)
  BY Bystander
<1> QED
  BY <1>1 DEF Bounded

(* A step after which the task owes what it owed.                           *)
LEMMA SoundSame ==
    ASSUME NEW t \in Tasks, Others(t), NEW w \in Watchers, Sound(w), raced => raced',
           w \in missed => w \in missed', Status' = Status,
           cseq'[w] = cseq[w], dialog'[w] = dialog[w], top'[w] = top[w], topSays'[w] = topSays[w],
           w \in expired => w \in expired',
           Owes(t, w)' <=> Owes(t, w), Owes(t, w) => Due(t, w)' = Due(t, w),
           Owes(t, w) /\ Truthful(t) => Truthful(t)', WillTell(t, w) => WillTell(t, w)'
    PROVE  Sound(w)'
<1>1. \A u \in Tasks : /\ Owes(u, w)' <=> Owes(u, w)
                       /\ Owes(u, w) => Due(u, w)' = Due(u, w)
                       /\ Owes(u, w) /\ Truthful(u) => Truthful(u)'
                       /\ WillTell(u, w) => WillTell(u, w)'
  BY Bystander
<1>2. Bounded(w)'
  BY BoundedSame DEF Sound
<1>3. ASSUME NEW m \in Nat, Truth(w, m) PROVE Truth(w, m)'
  BY <1>1, <1>3 DEF Truth
<1>4. Told(w) => Told(w)'
  BY <1>1, <1>3 DEF Told
<1> QED
  BY <1>2, <1>4 DEF Sound, LiveRows

(* Somebody else makes a new CSeq of the row: a refresh that has not read   *)
(* it yet follows.                                                          *)
LEMMA SoundRaised ==
    ASSUME ShapeInv, NEW t \in Tasks, Others(t), NEW w \in Watchers, Sound(w), raced => raced',
           w \in missed => w \in missed', Status' = Status, cseq[w] # NoRow,
           cseq'[w] = cseq[w] + 1, dialog'[w] = dialog[w], top'[w] = top[w],
           topSays'[w] = topSays[w], expired' = expired,
           ~Owes(t, w), ~Owes(t, w)', ~WillTell(t, w)
    PROVE  Sound(w)'
<1>0. cseq[w] \in Nat /\ top[w] \in Nat /\ w \in Rows /\ top[w] <= cseq[w]
  BY DEF ShapeInv, Numbers, Rows, Sound, Bounded
<1>1. \A u \in Tasks : /\ Owes(u, w)' <=> Owes(u, w)
                       /\ Owes(u, w) /\ pc[u] # "read" => Due(u, w)' = Due(u, w)
                       /\ pc[u] = "read" /\ Owes(u, w) => Due(u, w)' = cseq'[w] /\ Truthful(u)
                       /\ Owes(u, w) => (Truthful(u)' <=> Truthful(u))
                       /\ WillTell(u, w) => WillTell(u, w)'
  BY Bystander
<1>2. ASSUME NEW u \in Tasks, Owes(u, w)' PROVE Due(u, w)' <= cseq'[w]
  <2>1. CASE pc[u] = "read"
    BY <1>0, <1>1, <1>2, <2>1, SMTT(30)
  <2>2. CASE pc[u] # "read"
    <3>1. Due(u, w)' = Due(u, w) /\ Due(u, w) <= cseq[w] /\ Due(u, w) \in Nat
      BY <1>1, <1>2, <2>2, DueNat DEF Sound, Bounded
    <3> QED
      BY <1>0, <3>1, SMTT(30)
  <2> QED
    BY <2>1, <2>2
<1>3. top'[w] <= cseq'[w]
  BY <1>0, SMTT(30)
<1>4. Bounded(w)'
  BY <1>2, <1>3 DEF Bounded
<1>5. ASSUME NEW m \in Nat, Truth(w, m) PROVE \E k \in Nat : Truth(w, k)'
  <2>1. \A u \in Tasks : Owes(u, w)' /\ ~Truthful(u)' => Due(u, w)' < m
    BY <1>1, <1>5 DEF Truth
  <2>2. CASE top[w] = m /\ topSays[w] = {Status}
    BY <2>1, <2>2 DEF Truth
  <2>3. ASSUME NEW u \in Tasks, top[w] < m, Owes(u, w), Due(u, w) = m, Truthful(u)
        PROVE  \E k \in Nat : Truth(w, k)'
    <3>1. CASE pc[u] = "read"
      <4>1. Due(u, w)' = m + 1 /\ m + 1 \in Nat
        BY <1>0, <1>1, <2>3, <3>1, SMTT(30) DEF Due
      <4>2. top[w] < m + 1
        BY <1>0, <2>3, SMTT(30)
      <4>3. ASSUME NEW v \in Tasks, Owes(v, w)', ~Truthful(v)' PROVE Due(v, w)' < m + 1
        <5>1. Due(v, w)' = Due(v, w) /\ Due(v, w) \in Nat /\ Due(v, w) < m
          BY <1>1, <1>5, <4>3, DueNat DEF Truth
        <5> QED
          BY <5>1, SMTT(30)
      <4>4. Truth(w, m + 1)'
        BY <1>1, <2>3, <4>1, <4>2, <4>3 DEF Truth
      <4> QED
        BY <4>1, <4>4
    <3>2. CASE pc[u] # "read"
      BY <1>1, <2>1, <2>3, <3>2 DEF Truth
    <3> QED
      BY <3>1, <3>2
  <2> QED
    BY <1>5, <2>2, <2>3 DEF Truth
<1>6. Told(w) => Told(w)'
  BY <1>1, <1>5 DEF Told
<1> QED
  BY <1>4, <1>6, SubscriptionsAssumption DEF Sound, LiveRows

(* The task makes a new CSeq of the row, for a NOTIFY of its own.           *)
LEMMA SoundClaimed ==
    ASSUME ShapeInv, NEW t \in Tasks, Others(t), NEW w \in Watchers, Bounded(w),
           cseq'[w] = IF cseq[w] = NoRow THEN 1 ELSE cseq[w] + 1,
           dialog'[w] = dialog[w], top'[w] = top[w], ~Owes(t, w),
           Owes(t, w)', Due(t, w)' = cseq'[w],
           ~raced' /\ w \notin missed' => Truthful(t)'
    PROVE  Sound(w)'
<1>0. /\ w \in Rows /\ cseq[w] \in Nat \cup {NoRow} /\ top[w] \in Nat
      /\ cseq[w] = NoRow => top[w] = 0
  BY DEF ShapeInv, Numbers, Dialogs, Rows
<1>1. top'[w] < cseq'[w] /\ top'[w] <= cseq'[w] /\ cseq'[w] \in Nat
  BY <1>0, SMTT(30) DEF Bounded
<1>2. ASSUME NEW u \in Tasks, u # t, Owes(u, w)'
      PROVE  Due(u, w)' <= cseq'[w] /\ (Truthful(u)' \/ Due(u, w)' < cseq'[w])
  <2>0. Owes(u, w) /\ cseq[w] # NoRow
    BY <1>2, Bystander, DueNat
  <2>1. CASE pc[u] = "read"
    <3>1. Due(u, w)' = cseq'[w] /\ Truthful(u)'
      BY <1>2, <2>1, Bystander
    <3> QED
      BY <1>1, <2>1, <3>1, SMTT(30)
  <2>2. CASE pc[u] # "read"
    <3>1. Due(u, w)' = Due(u, w) /\ Due(u, w) <= cseq[w] /\ Due(u, w) \in Nat
      BY <1>2, <2>0, <2>2, Bystander, DueNat DEF Bounded
    <3> QED
      BY <1>0, <2>0, <3>1, SMTT(30)
  <2> QED
    BY <2>1, <2>2
<1>3. cseq'[w] <= cseq'[w]
  BY <1>1, SMTT(30)
<1>4. Bounded(w)'
  BY <1>1, <1>2, <1>3 DEF Bounded
<1>5. ASSUME Truthful(t)' PROVE Told(w)'
  <2>1. Truth(w, cseq[w])'
    BY <1>1, <1>2, <1>5 DEF Truth
  <2> QED
    BY <1>1, <2>1 DEF Told
<1> QED
  BY <1>4, <1>5 DEF Sound

(* The task sends what it owes.                                             *)
LEMMA SoundSent ==
    ASSUME ShapeInv, NEW t \in Tasks, Others(t), NEW w \in Watchers, Sound(w), raced => raced',
           Status' = Status, UNCHANGED <<cseq, dialog, expired>>,
           pc[t] = "send", Owes(t, w), Notify(t, w, Due(t, w)), ~Owes(t, w)',
           ~WillTell(t, w), w \in missed => w \in missed'
    PROVE  Sound(w)'
<1> PICK n \in Nat : n = Due(t, w)
  BY DueNat
<1>0. /\ cseq[w] \in Nat /\ top[w] \in Nat /\ w \in Rows /\ DOMAIN top = Rows
      /\ DOMAIN topSays = Rows /\ top[w] <= cseq[w] /\ n <= cseq[w] /\ cseq[w] # NoRow
  BY DueNat DEF ShapeInv, Numbers, Domains, Rows, Sound, Bounded
<1>1. /\ top'[w] = IF n > top[w] THEN n ELSE top[w]
      /\ topSays'[w] = IF n > top[w] THEN {says[t]}
                       ELSE IF n = top[w] THEN topSays[w] \cup {says[t]} ELSE topSays[w]
  BY <1>0 DEF Owes, Mine, Notify
<1>2. \A u \in Tasks : u # t => /\ Owes(u, w)' <=> Owes(u, w)
                                /\ Due(u, w)' = Due(u, w)
                                /\ Truthful(u)' <=> Truthful(u)
                                /\ WillTell(u, w) => WillTell(u, w)'
  BY Bystander
<1>3. top'[w] <= cseq'[w]
  BY <1>0, <1>1, SMTT(30)
<1>4. Bounded(w)'
  BY <1>2, <1>3 DEF Bounded, Sound
<1>5. ASSUME NEW m \in Nat, Truth(w, m) PROVE \E k \in Nat : Truth(w, k)'
  <2>1. \A u \in Tasks : Owes(u, w)' /\ ~Truthful(u)' => u # t /\ Due(u, w)' < m
    BY <1>2, <1>5 DEF Truth
  <2>2. CASE n < m
    <3>1. CASE top[w] = m /\ topSays[w] = {Status}
      <4>1. top'[w] = m /\ topSays'[w] = topSays[w]
        BY <1>0, <1>1, <2>2, <3>1, SMTT(30)
      <4> QED
        BY <2>1, <3>1, <4>1 DEF Truth
    <3>2. ASSUME NEW u \in Tasks, top[w] < m, Owes(u, w), Due(u, w) = m, Truthful(u)
          PROVE  Truth(w, m)'
      <4>1. n # m
        BY <1>0, <2>2, SMTT(30)
      <4>2. u # t
        BY <3>2, <4>1
      <4>3. top'[w] < m
        BY <1>0, <1>1, <2>2, <3>2, SMTT(30)
      <4> QED
        BY <1>2, <2>1, <3>2, <4>2, <4>3 DEF Truth
    <3> QED
      BY <1>5, <3>1, <3>2 DEF Truth
  <2>3. CASE ~(n < m)
    <3>1. says[t] = Status
      BY <1>5, <2>3 DEF Truth, Truthful
    <3>2. CASE n > top[w]
      <4>1. top'[w] = n /\ topSays'[w] = {Status}
        BY <1>1, <3>1, <3>2
      <4>2. ASSUME NEW u \in Tasks, Owes(u, w)', ~Truthful(u)' PROVE Due(u, w)' < n
        <5>1. Due(u, w)' < m /\ Due(u, w)' \in Nat
          BY <1>2, <2>1, <4>2, DueNat
        <5> QED
          BY <1>0, <2>3, <5>1, SMTT(30)
      <4>3. Truth(w, n)'
        BY <4>1, <4>2 DEF Truth
      <4> QED
        BY <1>0, <4>3
    <3>3. CASE ~(n > top[w])
      <4>1. ~(top[w] < m)
        BY <1>0, <2>3, <3>3, SMTT(30)
      <4>2. top[w] = m /\ topSays[w] = {Status}
        BY <1>5, <4>1 DEF Truth
      <4>3. top'[w] = m /\ topSays'[w] = {Status}
        BY <1>1, <3>1, <3>3, <4>2
      <4> QED
        BY <2>1, <4>3 DEF Truth
    <3> QED
      BY <3>2, <3>3
  <2> QED
    BY <2>2, <2>3
<1>6. Told(w) => Told(w)'
  BY <1>2, <1>5 DEF Told
<1> QED
  BY <1>4, <1>6 DEF Sound, LiveRows

(* What holds before a step of t for a watcher w whose CSeq is not lost.    *)
Calm(t, w) ==
    /\ ShapeInv /\ FreshInv /\ RegisterTrue /\ Others(t) /\ Sound(w)
    /\ raced => raced'
    /\ w \notin lost /\ w \notin lost'

(* Registrar::handle_register and notify_status_change.                     *)
LEMMA SoundRegister ==
    ASSUME NEW t \in Tasks, NEW w \in Watchers, Calm(t, w), handle_register(t) PROVE Sound(w)'
<1> USE DEF Goto, localVars, tableVars
<1>0. /\ Domains /\ Shape(t) /\ w \in Rows /\ Others(t) /\ Sound(w) /\ Bounded(w) /\ ShapeInv
      /\ raced => raced'
      /\ cseq[w] \in Nat \cup {NoRow}
  BY DEF Calm, ShapeInv, Rows, Sound, Numbers
<1>1. CASE RegisterUpsert(t) \/ RegisterDelete(t)
  <2>1. /\ pc'[t] = "select" /\ UNCHANGED <<cseq, dialog, top>>
    BY <1>0, <1>1 DEF RegisterUpsert, RegisterDelete, Domains, sentVars
  <2>2. ~Owes(t, w)' /\ WillTell(t, w)'
    BY <2>1 DEF Owes, WillTell
  <2>3. Bounded(w)'
    BY <1>0, <2>1, <2>2, BoundedSame
  <2> QED
    BY <2>2, <2>3 DEF Sound, Told
<1>2. CASE NotifySelect(t)
  <2>1. /\ pc'[t] = "update" /\ op'[t] = "register" /\ UNCHANGED <<cseq, dialog, top, expired>>
        /\ rows'[t] = LiveRows(Watchers) /\ seenDialog'[t] = dialog /\ says'[t] = says[t]
        /\ Status' = Status
        /\ missed' = IF says[t] = Status THEN missed \ Watchers ELSE missed \cup Watchers
    BY <1>0, <1>2 DEF NotifySelect, Domains, sentVars, Status
  <2>2. ~Owes(t, w)'
    BY <2>1 DEF Owes
  <2>3. Bounded(w)'
    BY <1>0, <2>1, <2>2, BoundedSame
  <2>4. ASSUME w \in LiveRows(Watchers)', w \notin missed' PROVE WillTell(t, w)'
    <3>1. w \in LiveRows(Watchers) /\ says[t] = Status
      BY <2>1, <2>4 DEF LiveRows
    <3>2. Mine(t, w)'
      BY <2>1, <3>1 DEF Mine
    <3> QED
      BY <2>1, <3>1, <3>2 DEF WillTell
  <2> QED
    BY <2>3, <2>4 DEF Sound, Told
<1>3. CASE NotifySelectFails(t)
  <2>1. /\ pc'[t] = "done" /\ UNCHANGED <<cseq, dialog, top>> /\ w \in missed'
    BY <1>0, <1>3 DEF NotifySelectFails, Domains, sentVars
  <2>2. ~Owes(t, w)'
    BY <2>1 DEF Owes
  <2> QED
    BY <1>0, <2>1, <2>2, BoundedSame DEF Sound
<1>4. CASE NotifyEnds(t)
  <2>1. /\ pc[t] = "update" /\ pc'[t] = "done" /\ w \notin rows[t]
        /\ UNCHANGED <<cseq, dialog, top, topSays, expired, missed>> /\ Status' = Status
    BY <1>0, <1>4 DEF NotifyEnds, Domains, sentVars, Status
  <2>2. ~Owes(t, w) /\ ~Owes(t, w)' /\ ~WillTell(t, w)
    BY <2>1 DEF Owes, WillTell, Mine
  <2> QED
    BY <1>0, <2>1, <2>2, SoundSame
<1>5. CASE NotifyUpdate(t) \/ NotifyUpdateFails(t)
  <2> PICK r \in rows[t] :
          /\ \/ /\ cseq' = [cseq EXCEPT ![r] = IF @ = NoRow THEN @ ELSE seen[t][r] + 1]
                /\ lost' = IF cseq[r] \in {NoRow, seen[t][r]} THEN lost ELSE lost \cup {r}
             \/ cseq' = cseq /\ lost' = lost \cup {r}
          /\ now' = [now EXCEPT ![t] = r]
    BY <1>5 DEF NotifyUpdate, NotifyUpdateFails
  <2>1. /\ pc[t] = "update" /\ pc'[t] = "send" /\ op[t] = "register" /\ op'[t] = "register"
        /\ now'[t] = r /\ rows'[t] = rows[t] /\ seen'[t] = seen[t]
        /\ seenDialog'[t] = seenDialog[t] /\ says'[t] = says[t] /\ Status' = Status
        /\ UNCHANGED <<dialog, top, topSays, expired, missed>>
    BY <1>0, <1>5 DEF NotifyUpdate, NotifyUpdateFails, Domains, sentVars, Status
  <2>2. ~Owes(t, w) /\ (Mine(t, w)' <=> Mine(t, w))
    BY <2>1 DEF Owes, Mine
  <2>3. CASE w # r
    <3>1. cseq'[w] = cseq[w]
      BY <1>0, <2>3 DEF Domains
    <3>2. ~Owes(t, w)' /\ (WillTell(t, w) => WillTell(t, w)')
      BY <2>1, <2>2, <2>3 DEF Owes, WillTell
    <3> QED
      BY <1>0, <2>1, <2>2, <3>1, <3>2, SoundSame
  <2>4. CASE w = r
    <3>1. /\ cseq[w] \in {NoRow, seen[t][w]}
          /\ cseq'[w] = IF cseq[w] = NoRow THEN NoRow ELSE cseq[w] + 1
      BY <1>0, <2>4 DEF Domains, Calm
    <3>2. CASE cseq[w] = NoRow
      BY <3>1, <3>2 DEF Sound, Bounded, LiveRows
    <3>3. CASE cseq[w] # NoRow /\ Mine(t, w)
      <4>1. Owes(t, w)' /\ Due(t, w)' = cseq'[w]
        BY <2>1, <2>2, <2>4, <3>1, <3>3 DEF Owes, Due
      <4>2. ~raced' /\ w \notin missed' => Truthful(t)'
        BY <1>0, <2>1, <2>4 DEF Calm, RegisterTrue, Truthful
      <4> QED
        BY <1>0, <2>1, <2>2, <3>1, <3>3, <4>1, <4>2, SoundClaimed
    <3>4. CASE cseq[w] # NoRow /\ ~Mine(t, w)
      <4>1. ~Owes(t, w)' /\ ~WillTell(t, w)
        BY <2>1, <2>2, <3>4 DEF Owes, WillTell
      <4> QED
        BY <1>0, <2>1, <2>2, <3>1, <3>4, <4>1, SoundRaised
    <3> QED
      BY <3>2, <3>3, <3>4
  <2> QED
    BY <2>3, <2>4
<1>6. CASE NotifySend(t)
  <2>1. /\ pc[t] = "send" /\ pc'[t] = "update" /\ op[t] = "register" /\ op'[t] = "register"
        /\ rows'[t] = rows[t] \ {now[t]} /\ Notify(t, now[t], seen[t][now[t]] + 1)
        /\ seenDialog'[t] = seenDialog[t] /\ says'[t] = says[t] /\ Status' = Status
        /\ UNCHANGED <<cseq, dialog, expired, missed>>
    BY <1>0, <1>6 DEF NotifySend, Domains, Status
  <2>2. ~Owes(t, w)'
    BY <2>1 DEF Owes
  <2>3. CASE w = now[t] /\ Mine(t, w)
    <3>1. Owes(t, w) /\ Due(t, w) = seen[t][w] + 1 /\ ~WillTell(t, w)
      BY <2>1, <2>3 DEF Owes, Due, WillTell
    <3> QED
      BY <1>0, <2>1, <2>2, <2>3, <3>1, SoundSent
  <2>4. CASE w = now[t] /\ ~Mine(t, w)
    <3>1. ~Owes(t, w) /\ ~WillTell(t, w)
      BY <2>1, <2>4 DEF Owes, WillTell
    <3>2. UNCHANGED <<top, topSays>>
      BY <1>0, <2>1, <2>4 DEF Notify, Mine, Shape, sentVars
    <3> QED
      BY <1>0, <2>1, <2>2, <3>1, <3>2, SoundSame
  <2>5. CASE w # now[t]
    <3>1. top'[w] = top[w] /\ topSays'[w] = topSays[w]
      BY <1>0, <2>1, <2>5 DEF Notify, Domains, sentVars
    <3>2. Mine(t, w)' <=> Mine(t, w)
      BY <2>1, <2>5 DEF Mine
    <3>3. ~Owes(t, w) /\ (WillTell(t, w) => WillTell(t, w)')
      BY <2>1, <2>5, <3>2 DEF Owes, WillTell
    <3> QED
      BY <1>0, <2>1, <2>2, <3>1, <3>3, SoundSame
  <2> QED
    BY <2>3, <2>4, <2>5
<1> QED
  BY <1>1, <1>2, <1>3, <1>4, <1>5, <1>6 DEF handle_register, notify_status_change

(* Presence::handle_subscribe.                                              *)
LEMMA SoundSubscribe ==
    ASSUME NEW t \in Tasks, NEW w \in Watchers, Calm(t, w), handle_subscribe(t) PROVE Sound(w)'
<1> USE DEF Goto, localVars, tableVars
<1>0. /\ Domains /\ Shape(t) /\ w \in Rows /\ Others(t) /\ Sound(w) /\ Bounded(w) /\ ShapeInv
      /\ raced => raced'
      /\ cseq[w] \in Nat \cup {NoRow}
  BY DEF Calm, ShapeInv, Rows, Sound, Numbers
<1>1. CASE SubscribeUpsert(t)
  <2> PICK v \in Watchers : /\ pc[t] = "idle" /\ Upsert(v) /\ rows' = [rows EXCEPT ![t] = {v}]
    BY <1>1 DEF SubscribeUpsert
  <2>1. /\ pc'[t] = "read" /\ op'[t] = "subscribe" /\ rows'[t] = {v}
        /\ seenDialog'[t] = dialog /\ Status' = Status
        /\ UNCHANGED <<dialog, top, topSays, missed>>
    BY <1>0, <1>1 DEF SubscribeUpsert, Domains, sentVars, Status
  <2>2. ~Owes(t, w) /\ ~WillTell(t, w)
    BY DEF Owes, WillTell
  <2>3. CASE w = v
    <3>1. cseq'[w] = IF cseq[w] = NoRow THEN 1 ELSE cseq[w] + 1
      BY <1>0, <2>3 DEF Upsert, Domains
    <3>2. Owes(t, w)' /\ Due(t, w)' = cseq'[w] /\ Truthful(t)'
      BY <2>1, <2>3 DEF Owes, Due, Mine, Truthful
    <3> QED
      BY <1>0, <2>1, <2>2, <3>1, <3>2, SoundClaimed
  <2>4. CASE w # v
    <3>1. cseq'[w] = cseq[w] /\ (w \in expired => w \in expired')
      BY <1>0, <2>4 DEF Upsert, Domains
    <3>2. ~Owes(t, w)'
      BY <2>1, <2>4 DEF Owes, Mine
    <3> QED
      BY <1>0, <2>1, <2>2, <3>1, <3>2, SoundSame
  <2> QED
    BY <2>3, <2>4
<1>2. CASE SubscribeRead(t) \/ SubscribeReadFails(t)
  <2> PICK v \in rows[t] : /\ pc[t] = "read"
                           /\ \/ seen' = [seen EXCEPT ![t][v] = IF cseq[v] = NoRow THEN 1 ELSE cseq[v]]
                              \/ lost' = lost \cup {v}
    BY <1>2 DEF SubscribeRead, SubscribeReadFails
  <2>1. /\ pc'[t] = "status" /\ op'[t] = "subscribe" /\ rows'[t] = rows[t]
        /\ seenDialog'[t] = seenDialog[t] /\ Status' = Status
        /\ UNCHANGED <<cseq, dialog, top, topSays, expired, missed>>
    BY <1>0, <1>2 DEF SubscribeRead, SubscribeReadFails, Domains, sentVars, Status
  <2>2. /\ Owes(t, w)' <=> Owes(t, w)
        /\ Truthful(t)' /\ ~WillTell(t, w)
    BY <2>1 DEF Owes, Mine, Truthful, WillTell
  <2>3. ASSUME Owes(t, w) PROVE Due(t, w)' = Due(t, w)
    <3>1. w = v
      <4>1. op[t] = "subscribe" /\ w \in rows[t]
        BY <1>0, <2>3 DEF Owes, Mine, Shape
      <4> PICK x \in Watchers : rows[t] = {x}
        BY <1>0, <4>1 DEF Shape
      <4>2. w \in {x} /\ v \in {x}
        BY <4>1
      <4> QED
        BY <4>2
    <3>2. seen' = [seen EXCEPT ![t][w] = IF cseq[w] = NoRow THEN 1 ELSE cseq[w]]
      BY <3>1 DEF Calm
    <3>3. seen'[t][w] = IF cseq[w] = NoRow THEN 1 ELSE cseq[w]
      BY <1>0, <3>2 DEF Domains
    <3>4. cseq[w] # NoRow
      BY <1>0, <2>3, DueNat
    <3> QED
      BY <2>1, <3>3, <3>4 DEF Due
  <2> QED
    BY <1>0, <2>1, <2>2, <2>3, SoundSame
<1>3. CASE get_status(t)
  <2>1. /\ pc[t] = "status" /\ pc'[t] = "send" /\ op[t] = "subscribe" /\ op'[t] = "subscribe"
        /\ rows'[t] = rows[t] /\ seen'[t] = seen[t] /\ seenDialog'[t] = seenDialog[t]
        /\ says'[t] = Status /\ Status' = Status
        /\ UNCHANGED <<cseq, dialog, top, topSays, expired, missed>>
    BY <1>0, <1>3 DEF get_status, Domains, sentVars, Status
  <2>2. /\ Owes(t, w)' <=> Owes(t, w)
        /\ Due(t, w)' = Due(t, w) /\ Truthful(t)' /\ ~WillTell(t, w)
    BY <2>1 DEF Owes, Mine, Due, Truthful, WillTell
  <2> QED
    BY <1>0, <2>1, <2>2, SoundSame
<1>4. CASE StatusFails(t)
  <2>1. /\ pc[t] = "status" /\ pc'[t] = "send" /\ op[t] = "subscribe" /\ op'[t] = "subscribe"
        /\ rows'[t] = rows[t] /\ seen'[t] = seen[t] /\ seenDialog'[t] = seenDialog[t]
        /\ Status' = Status /\ missed' = missed \cup rows[t]
        /\ UNCHANGED <<cseq, dialog, top, topSays, expired>>
    BY <1>0, <1>4 DEF StatusFails, Domains, sentVars, Status
  <2>2. /\ Owes(t, w)' <=> Owes(t, w)
        /\ Due(t, w)' = Due(t, w) /\ ~WillTell(t, w)
    BY <2>1 DEF Owes, Mine, Due, WillTell
  <2>3. CASE w \in rows[t]
    BY <1>0, <2>1, <2>2, <2>3, BoundedSame DEF Sound
  <2>4. CASE w \notin rows[t]
    <3>1. ~Owes(t, w)
      BY <2>4 DEF Owes, Mine
    <3> QED
      BY <1>0, <2>1, <2>2, <3>1, SoundSame
  <2> QED
    BY <2>3, <2>4
<1>5. CASE SubscribeSend(t)
  <2> PICK v \in rows[t] :
          /\ pc[t] = "send" /\ op[t] = "subscribe" /\ Notify(t, v, seen[t][v])
          /\ missed' = IF says[t] = Status /\ v \notin crossed THEN missed \ {v} ELSE missed
    BY <1>5 DEF SubscribeSend
  <2>1. /\ pc'[t] = "done" /\ Status' = Status /\ rows[t] = {v} /\ v \in Rows
        /\ UNCHANGED <<cseq, dialog, expired>>
    BY <1>0, <1>5 DEF SubscribeSend, Domains, Status, Shape, Rows
  <2>2. ~Owes(t, w)' /\ ~WillTell(t, w)
    BY <2>1 DEF Owes, WillTell
  <2>3. CASE w # v
    <3>1. top'[w] = top[w] /\ topSays'[w] = topSays[w] /\ (w \in missed => w \in missed')
      BY <1>0, <2>1, <2>3 DEF Notify, Domains, sentVars
    <3>2. ~Owes(t, w)
      BY <2>1, <2>3 DEF Owes, Mine
    <3> QED
      BY <1>0, <2>1, <2>2, <3>1, <3>2, SoundSame
  <2>4. CASE w = v /\ (w \in missed => w \in missed') /\ Mine(t, w)
    <3>1. Owes(t, w) /\ Due(t, w) = seen[t][w]
      BY <2>4 DEF Owes, Due
    <3> QED
      BY <1>0, <2>1, <2>2, <2>4, <3>1, SoundSent
  <2>5. CASE w = v /\ (w \in missed => w \in missed') /\ ~Mine(t, w)
    <3>1. ~Owes(t, w) /\ UNCHANGED <<top, topSays>>
      BY <2>1, <2>5 DEF Owes, Mine, Notify, sentVars
    <3> QED
      BY <1>0, <2>1, <2>2, <2>5, <3>1, SoundSame
  (* The first true NOTIFY after a failure, to a watcher nobody else has    *)
  (* in hand.                                                               *)
  <2>6. CASE w = v /\ w \in missed /\ w \notin missed'
    <3>1. says[t] = Status /\ w \notin crossed /\ w \in rows[t]
      BY <2>6
    <3>2. Known(t, w) /\ top[w] \in Nat
      BY <1>0, <3>1 DEF Calm, FreshInv, Fresh, Numbers, ShapeInv
    <3>3. CASE ~Mine(t, w)
      <4>1. cseq'[w] = NoRow
        BY <2>1, <3>1, <3>2, <3>3 DEF Known, Mine
      <4> QED
        BY <4>1 DEF Sound, Bounded, LiveRows
    <3>4. CASE Mine(t, w)
      <4>1. top[w] < seen[t][w] /\ cseq[w] = seen[t][w] /\ seen[t][w] \in Nat
        BY <1>0, <3>1, <3>2, <3>4 DEF Known, Shape, Working
      <4>2. seen[t][w] > top[w] /\ seen[t][w] <= seen[t][w]
        BY <3>2, <4>1, SMTT(30)
      <4>3. top'[w] = cseq[w] /\ topSays'[w] = {Status}
        BY <1>0, <2>6, <3>1, <3>4, <4>1, <4>2 DEF Notify, Mine, Domains
      <4>4. ASSUME NEW u \in Tasks PROVE ~Owes(u, w)'
        <5>1. CASE u # t
          <6>1. w \in Handles(t)
            BY <3>1, HandlesRows
          <6>2. Owes(u, w) => w \in Handles(u)
            BY HandlesRows DEF Owes, Mine
          <6>3. ~Owes(u, w)
            BY <1>0, <3>1, <5>1, <6>1, <6>2 DEF Calm, FreshInv, Recorded
          <6> QED
            BY <1>0, <2>1, <5>1, <6>3, Bystander
        <5> QED
          BY <2>2, <5>1
      <4>5. Bounded(w)'
        BY <2>1, <4>1, <4>2, <4>3, <4>4 DEF Bounded
      <4>6. \E k \in Nat : Truth(w, k)'
        BY <2>1, <4>1, <4>3, <4>4 DEF Truth
      <4> QED
        BY <4>5, <4>6 DEF Sound, Told
    <3> QED
      BY <3>3, <3>4
  <2> QED
    BY <2>3, <2>4, <2>5, <2>6
<1>6. CASE Unsubscribe(t)
  <2> PICK v \in Watchers : pc[t] = "idle" /\ DeleteRows({v}) /\ missed' = missed
    BY <1>6 DEF Unsubscribe
  <2>1. pc'[t] = "done" /\ Status' = Status
    BY <1>0, <1>6 DEF Unsubscribe, Domains, Status
  <2>2. ~Owes(t, w) /\ ~Owes(t, w)' /\ ~WillTell(t, w)
    BY <2>1 DEF Owes, WillTell
  <2>3. CASE w = v
    <3>1. cseq'[w] = NoRow
      BY <1>0, <2>3 DEF DeleteRows
    <3> QED
      BY <3>1 DEF Sound, Bounded, LiveRows
  <2>4. CASE w # v
    <3>1. /\ cseq'[w] = cseq[w] /\ dialog'[w] = dialog[w] /\ top'[w] = top[w]
          /\ topSays'[w] = topSays[w] /\ (w \in expired => w \in expired')
      BY <1>0, <2>4 DEF DeleteRows
    <3> QED
      BY <1>0, <2>1, <2>2, <3>1, SoundSame
  <2> QED
    BY <2>3, <2>4
<1> QED
  BY <1>1, <1>2, <1>3, <1>4, <1>5, <1>6 DEF handle_subscribe

(* The handlers of the mailbox do not concern a watcher.                    *)
LEMMA SoundMailbox ==
    ASSUME NEW t \in Tasks, NEW w \in Watchers, Calm(t, w),
           mwi_handle_subscribe(t) \/ MailboxChanges(t) \/ notify_mailbox(t)
    PROVE  Sound(w)'
<1> USE DEF Goto, localVars, tableVars
<1>0. /\ Domains /\ Shape(t) /\ w \in Rows /\ Others(t) /\ Sound(w)
      /\ raced => raced'
      /\ w \notin Phones /\ Phones \subseteq Rows
  BY SubscriptionsAssumption DEF Calm, ShapeInv, Rows
<1>1. /\ pc[t] \notin {"read", "status", "select", "update", "send"}
      /\ pc'[t] \notin {"read", "status", "select", "update", "send"}
      /\ Status' = Status /\ (w \in missed => w \in missed')
  <2>1. CASE mwi_handle_subscribe(t) \/ MailboxChanges(t)
    BY <1>0, <2>1 DEF mwi_handle_subscribe, subscriber_source_is_registered, MwiUpsert, MwiDelete,
           MailboxChanges, Domains, Status
  <2>2. CASE notify_mailbox(t)
    BY <1>0, <2>2 DEF notify_mailbox, message_counts, MwiSelect, MwiSend, MwiSendFails, MwiUpdate,
           MwiEnds, MwiFails, Domains, Status
  <2> QED
    BY <2>1, <2>2
<1>2. ~Owes(t, w) /\ ~Owes(t, w)' /\ ~WillTell(t, w)
  BY <1>1 DEF Owes, WillTell
<1>3. /\ cseq'[w] = cseq[w] /\ dialog'[w] = dialog[w] /\ top'[w] = top[w]
      /\ topSays'[w] = topSays[w] /\ (w \in expired => w \in expired')
  <2>1. CASE UNCHANGED <<cseq, dialog, top, topSays, expired>>
    BY <2>1
  <2>2. CASE MwiUpsert(t)
    <3> PICK p \in rows[t] : pc[t] = "store" /\ Upsert(p) /\ UNCHANGED <<dialog, sentVars>>
      BY <2>2 DEF MwiUpsert
    <3>1. p # w
      BY <1>0 DEF Shape
    <3> QED
      BY <1>0, <3>1 DEF Upsert, Domains, sentVars
  <2>3. CASE MwiDelete(t)
    <3> PICK p \in rows[t] : pc[t] = "store" /\ DeleteRows({p})
      BY <2>3 DEF MwiDelete
    <3>1. p # w
      BY <1>0 DEF Shape
    <3> QED
      BY <1>0, <3>1 DEF DeleteRows
  <2>4. CASE MwiSend(t)
    <3> PICK p \in rows[t] : pc[t] = "notify" /\ Notify(t, p, seen[t][p] + 1) /\ UNCHANGED tableVars
      BY <2>4 DEF MwiSend
    <3>1. p # w
      BY <1>0 DEF Shape
    <3> QED
      BY <1>0, <3>1 DEF Notify, Domains, sentVars
  <2>5. CASE MwiUpdate(t)
    <3>1. now[t] # w
      BY <1>0, <2>5 DEF MwiUpdate, Shape
    <3> QED
      BY <1>0, <2>5, <3>1 DEF MwiUpdate, Domains, sentVars
  <2> QED
    BY <2>1, <2>2, <2>3, <2>4, <2>5
    DEF mwi_handle_subscribe, subscriber_source_is_registered, MailboxChanges, notify_mailbox,
        message_counts, MwiSelect, MwiSendFails, MwiEnds, MwiFails, sentVars
<1> QED
  BY <1>0, <1>1, <1>2, <1>3, SoundSame

(* Expiry, the sweeps and a restart.                                        *)
LEMMA SoundSystem ==
    ASSUME ShapeInv, NEW w \in Watchers, Sound(w), raced => raced',
           \/ RegistrationExpires \/ RegistrationSweep \/ PresenceSweep \/ Restart
           \/ \E s \in Rows : SubscriptionExpires(s)
    PROVE  Sound(w)'
<1>0. w \in Rows /\ w \notin Phones
  BY SubscriptionsAssumption DEF Rows
<1>1. \/ cseq'[w] = NoRow
      \/ /\ cseq'[w] = cseq[w] /\ dialog'[w] = dialog[w] /\ top'[w] = top[w]
         /\ topSays'[w] = topSays[w] /\ (w \in expired => w \in expired')
  BY <1>0 DEF RegistrationExpires, RegistrationSweep, PresenceSweep, Restart, SubscriptionExpires,
         DeleteRows, sentVars
<1>2. CASE cseq'[w] = NoRow
  BY <1>2 DEF Sound, Bounded, LiveRows
<1>3. CASE /\ cseq'[w] = cseq[w] /\ dialog'[w] = dialog[w] /\ top'[w] = top[w]
           /\ topSays'[w] = topSays[w] /\ (w \in expired => w \in expired')
  <2>1. CASE Restart /\ \E t \in Tasks : InFlight(t)
    <3>1. w \in missed' /\ \A u \in Tasks : pc'[u] \in {"idle", "done"}
      BY <1>0, <2>1 DEF Restart, InFlight
    <3>2. \A u \in Tasks : ~Owes(u, w)'
      BY <3>1 DEF Owes
    <3> QED
      BY <1>3, <3>1, <3>2 DEF Sound, Bounded
  <2>2. CASE ~(Restart /\ \E t \in Tasks : InFlight(t))
    <3>1. /\ UNCHANGED <<op, localVars>> /\ \A u \in Tasks : pc'[u] = pc[u]
          /\ w \in missed => w \in missed'
      BY <2>2 DEF RegistrationExpires, RegistrationSweep, PresenceSweep, Restart,
           SubscriptionExpires
    <3>2. Status' = Status \/ w \in missed'
      BY DEF RegistrationExpires, RegistrationSweep, PresenceSweep, Restart, SubscriptionExpires,
           Status
    <3>3. \A u \in Tasks : (Owes(u, w)' <=> Owes(u, w)) /\ Due(u, w)' = Due(u, w)
      BY <1>3, <3>1 DEF Owes, Mine, Due, localVars
    <3>4. Bounded(w)'
      BY <1>3, <3>3 DEF Sound, Bounded
    <3>5. ASSUME Status' = Status, Told(w) PROVE Told(w)'
      <4>1. \A u \in Tasks : /\ Truthful(u)' <=> Truthful(u)
                             /\ WillTell(u, w)' <=> WillTell(u, w)
        BY <1>3, <3>1, <3>5 DEF Truthful, WillTell, Mine, localVars
      <4>2. ASSUME NEW m \in Nat, Truth(w, m) PROVE Truth(w, m)'
        BY <1>3, <3>3, <3>5, <4>1, <4>2 DEF Truth
      <4> QED
        BY <3>5, <4>1, <4>2 DEF Told
    <3> QED
      BY <1>3, <3>1, <3>2, <3>4, <3>5 DEF Sound, LiveRows
  <2> QED
    BY <2>1, <2>2
<1> QED
  BY <1>1, <1>2, <1>3

(* No step makes a REGISTER tell what is no longer true.                    *)
LEMMA RegisterTask ==
    ASSUME ShapeInv, FreshInv, RegisterTrue, OneRegister', raced => raced',
           NEW t \in Tasks, TaskStep(t)
    PROVE  RegisterTrue'
<1> USE DEF Goto, localVars, tableVars
<1>0. Domains /\ Shape(t) /\ Others(t)
  BY OthersSame DEF ShapeInv
<1> SUFFICES ASSUME ~raced', NEW u \in Tasks, NEW w \in Watchers, w \notin missed',
                    pc'[u] \in {"update", "send"}, op'[u] = "register", w \in rows'[u]
             PROVE  says'[u] = Status'
  BY DEF RegisterTrue
<1>1. Registering(u)'
  BY DEF Registering, InFlight
<1>2. CASE RegisterUpsert(t) \/ RegisterDelete(t)
  <2>1. pc'[t] = "select" /\ op'[t] = "register"
    BY <1>0, <1>2 DEF RegisterUpsert, RegisterDelete, Domains
  <2>2. Registering(t)' /\ u # t
    BY <2>1 DEF Registering, InFlight
  <2> QED
    BY <1>1, <2>2 DEF OneRegister
<1>3. CASE NotifySelect(t)
  <2>1. /\ pc'[t] = "update" /\ op'[t] = "register" /\ says' = says /\ Status' = Status
        /\ missed' = IF says[t] = Status THEN missed \ Watchers ELSE missed \cup Watchers
    BY <1>0, <1>3 DEF NotifySelect, Domains, Status
  <2>2. Registering(t)'
    BY <2>1 DEF Registering, InFlight
  <2>3. u = t
    BY <1>1, <2>2 DEF OneRegister
  <2> QED
    BY <2>1, <2>3
<1>4. ASSUME /\ Status' = Status /\ w \notin missed /\ says'[u] = says[u]
             /\ pc[u] \in {"update", "send"} /\ op[u] = "register" /\ w \in rows[u]
      PROVE  says'[u] = Status'
  BY <1>4 DEF RegisterTrue
<1>5. CASE u # t /\ Status' = Status /\ (w \in missed => w \in missed')
  BY <1>0, <1>4, <1>5 DEF Others
<1>6. CASE SubscribeSend(t)
  <2> PICK v \in rows[t] :
          /\ pc[t] = "send"
          /\ missed' = IF says[t] = Status /\ v \notin crossed THEN missed \ {v} ELSE missed
    BY <1>6 DEF SubscribeSend
  <2>1. u # t /\ Status' = Status
    BY <1>0, <1>6 DEF SubscribeSend, Domains, Status
  <2>2. pc[u] \in {"update", "send"} /\ w \in rows[u]
    BY <1>0, <2>1 DEF Others
  <2>3. ASSUME w \in missed PROVE FALSE
    <3>1. w = v /\ w \notin crossed /\ w \in Rows
      BY <2>3 DEF Rows
    <3>2. w \in Handles(t) /\ w \in Handles(u)
      BY <2>2, <3>1, HandlesRows
    <3> QED
      BY <2>1, <3>1, <3>2 DEF FreshInv, Recorded
  <2> QED
    BY <1>5, <2>1, <2>3
<1>7. CASE NotifyUpdate(t) \/ NotifyUpdateFails(t) \/ NotifySend(t)
  <2>1. /\ pc[t] \in {"update", "send"} /\ op[t] = "register" /\ rows'[t] \subseteq rows[t]
        /\ says' = says /\ Status' = Status /\ missed' = missed
    BY <1>0, <1>7, ZenonT(120) DEF NotifyUpdate, NotifyUpdateFails, NotifySend, Domains, Status
  <2> QED
    BY <1>4, <1>5, <2>1
<1>8. CASE \/ NotifySelectFails(t) \/ NotifyEnds(t) \/ SubscribeUpsert(t) \/ SubscribeRead(t)
           \/ SubscribeReadFails(t) \/ get_status(t) \/ StatusFails(t) \/ Unsubscribe(t)
  <2>1. /\ pc'[t] \notin {"update", "send"} \/ op'[t] = "subscribe"
        /\ Status' = Status /\ missed \subseteq missed'
    BY <1>0, <1>8 DEF NotifySelectFails, NotifyEnds, SubscribeUpsert, SubscribeRead,
           SubscribeReadFails, get_status, StatusFails, Unsubscribe, Domains, Status
  <2> QED
    BY <1>5, <2>1
<1>9. CASE mwi_handle_subscribe(t) \/ MailboxChanges(t) \/ notify_mailbox(t)
  <2>1. pc'[t] \notin {"update", "send"} /\ Status' = Status
    BY <1>0, <1>9 DEF mwi_handle_subscribe, subscriber_source_is_registered, MwiUpsert, MwiDelete,
           MailboxChanges, notify_mailbox, message_counts, MwiSelect, MwiSend, MwiSendFails,
           MwiUpdate, MwiEnds, MwiFails, Domains, Status
  <2>2. w \in missed => w \in missed'
    BY <1>9, SubscriptionsAssumption DEF mwi_handle_subscribe, subscriber_source_is_registered,
           MwiUpsert, MwiDelete, MailboxChanges, notify_mailbox, message_counts, MwiSelect,
           MwiSend, MwiSendFails, MwiUpdate, MwiEnds, MwiFails
  <2> QED
    BY <1>5, <2>1, <2>2
<1> QED
  BY <1>2, <1>3, <1>6, <1>7, <1>8, <1>9
  DEF TaskStep, handle_register, notify_status_change, handle_subscribe

(* StatusInv is inductive relative to the other two.                        *)
LEMMA StatusStep == ASSUME ShapeInv, FreshInv, StatusInv, Next PROVE StatusInv'
<1>1. lost \subseteq lost' /\ Step /\ (raced => raced') /\ OneRegister'
  BY LostGrows DEF Next, OneRegister
<1>2. ASSUME NEW t \in Tasks, TaskStep(t) PROVE StatusInv'
  <2>1. RegisterTrue'
    BY <1>1, <1>2, RegisterTask DEF StatusInv
  <2>2. ASSUME NEW w \in Watchers, w \notin lost' PROVE Sound(w)'
    <3>1. Calm(t, w)
      BY <1>1, <1>2, <2>2, OthersSame DEF Calm, StatusInv, ShapeInv
    <3> QED
      BY <1>2, <3>1, SoundRegister, SoundSubscribe, SoundMailbox DEF TaskStep
  <2> QED
    BY <1>1, <2>1, <2>2 DEF StatusInv
<1>3. CASE \/ RegistrationExpires \/ RegistrationSweep \/ PresenceSweep \/ Restart
           \/ \E s \in Rows : SubscriptionExpires(s)
  <2>1. \A w \in Watchers \ lost' : Sound(w)'
    BY <1>1, <1>3, SoundSystem DEF StatusInv
  <2>2. RegisterTrue'
    <3>1. CASE RegistrationExpires
      BY <3>1 DEF RegistrationExpires, RegisterTrue
    <3>2. CASE Restart
      <4>1. \A u \in Tasks : pc'[u] \notin {"update", "send"}
        BY <3>2 DEF Restart, InFlight
      <4> QED
        BY <4>1 DEF RegisterTrue
    <3>3. CASE UNCHANGED <<pc, op, rows, says, missed>> /\ Status' = Status
      BY <1>1, <3>3 DEF StatusInv, RegisterTrue
    <3> QED
      BY <1>3, <3>1, <3>2, <3>3 DEF RegistrationSweep, PresenceSweep, SubscriptionExpires,
           localVars, Status
  <2> QED
    BY <1>1, <2>1, <2>2 DEF StatusInv
<1> QED
  BY <1>1, <1>2, <1>3 DEF Step, TaskStep

(* It holds throughout.                                                     *)
THEOREM StatusInvariance == Spec => []StatusInv
<1>1. Init => StatusInv
  <2> SUFFICES ASSUME Init PROVE StatusInv
    OBVIOUS
  <2>1. \A t \in Tasks : pc[t] = "idle"
    BY DEF Init
  <2>2. \A w \in Watchers : cseq[w] = NoRow
    BY DEF Init, Rows
  <2> QED
    BY <2>1, <2>2 DEF StatusInv, OneRegister, RegisterTrue, Registering, InFlight, Sound, Bounded,
         LiveRows
<1>2. ASSUME StatusInv, UNCHANGED vars PROVE StatusInv'
  <2>1. UNCHANGED <<reg, cseq, expired, dialog, pc, op, rows, now, seen, seenDialog, says, top,
                    topSays, lost, missed, raced>>
    BY <1>2 DEF vars, tableVars, localVars, sentVars
  <2>2. Status' = Status
    BY <2>1 DEF Status
  <2>3. OneRegister' /\ RegisterTrue'
    BY <1>2, <2>1, <2>2 DEF StatusInv, OneRegister, RegisterTrue, Registering, InFlight
  <2>4. ASSUME NEW w \in Watchers, Sound(w) PROVE Sound(w)'
    <3>1. \A u \in Tasks : /\ Owes(u, w)' <=> Owes(u, w)
                           /\ Due(u, w)' = Due(u, w)
                           /\ Truthful(u)' <=> Truthful(u)
                           /\ WillTell(u, w)' <=> WillTell(u, w)
      BY <2>1, <2>2 DEF Owes, Mine, Due, Truthful, WillTell
    <3>2. ASSUME NEW m \in Nat, Truth(w, m) PROVE Truth(w, m)'
      BY <2>1, <2>2, <3>1, <3>2 DEF Truth
    <3>3. Told(w) => Told(w)'
      BY <3>1, <3>2 DEF Told
    <3>4. Bounded(w)'
      BY <2>1, <2>4, <3>1 DEF Sound, Bounded
    <3> QED
      BY <2>1, <2>4, <3>3, <3>4 DEF Sound, LiveRows
  <2> QED
    BY <1>2, <2>1, <2>3, <2>4 DEF StatusInv
<1> QED
  BY <1>1, <1>2, StatusStep, FreshInvariance, PTL DEF Spec

(* Once no handler is in progress, the newest NOTIFY of every watcher shows *)
(* the status of the user, in whatever order subscriptions and              *)
(* registrations overlapped.                                                *)
THEOREM StatusIsTrue == Spec => []NewestIsTrue
<1>1. StatusInv => NewestIsTrue
  <2> SUFFICES ASSUME StatusInv, Quiescent, ~raced,
                      NEW w \in LiveRows(Watchers), w \notin lost, w \notin missed
               PROVE  topSays[w] = {Status}
    BY DEF NewestIsTrue
  <2>1. Told(w)
    BY DEF StatusInv, Sound, LiveRows
  <2>2. \A t \in Tasks : ~WillTell(t, w) /\ ~Owes(t, w)
    BY DEF Quiescent, InFlight, WillTell, Owes
  <2> QED
    BY <2>1, <2>2 DEF Told, Truth
<1> QED
  BY StatusInvariance, <1>1, PTL

=============================================================================
