------------------------- MODULE CallControl_proofs -------------------------
(***************************************************************************)
(* Proofs about VoicemailDelivery and CallControl, which composes it, for  *)
(* any number of Call-IDs, deliveries, closers, tasks and timers: what the *)
(* recording protocol promises; that the composition implements it; that   *)
(* the no_answer map is consistent with the timer tasks; and that a call   *)
(* voicemail has answered is no longer proxied.                            *)
(***************************************************************************)
EXTENDS CallControl, TLAPS

-----------------------------------------------------------------------------
(* Recordings: VoicemailDelivery                                           *)

(* A cancellation marker exists only for a tracked Call-ID, and it is      *)
(* there exactly while the delivery that owns the Call-ID is marked.       *)
MarkerMatchesMark ==
    /\ canceled \subseteq recording
    /\ \A s \in Sessions : InProgress(s) => (s \in marked <=> CallOf[s] \in canceled)

(* Nothing is known of a delivery before it starts, and no decision is     *)
(* taken before it gives its Call-ID back.                                 *)
Undecided ==
    /\ \A s \in Sessions : pc[s] = "idle" => s \notin marked
    /\ \A s \in Sessions : pc[s] = "idle" \/ InProgress(s) => verdict[s] = "none"

(* The decision to store or to discard agrees with the mark.               *)
VerdictMatchesMark ==
    \A s \in Sessions : /\ verdict[s] = "insert" => s \notin marked
                        /\ verdict[s] = "canceled" => s \in marked

(* A recording whose file was written keeps it until it is discarded, and  *)
(* only a recording to be stored has a row.                                *)
StoreMatchesVerdict ==
    /\ \A s \in Sessions :
          /\ result[s] \in {"ok", "empty"}
          /\ pc[s] \in {"ended", "unlisted", "released"}
          => s \in files
    /\ \A s \in Sessions : verdict[s] = "insert" /\ pc[s] \in {"decided", "stored"} => s \in files
    /\ \A s \in Sessions :
          pc[s] \in {"ended", "unlisted", "released"} => result[s] \in {"ok", "empty", "err"}
    /\ \A s \in rows : verdict[s] = "insert" /\ s \in files /\ pc[s] # "decided"

IInv ==
    /\ TypeOK
    /\ OneRecordingPerCall
    /\ CandidateNeverLeaks
    /\ MarkerMatchesMark
    /\ Undecided
    /\ VerdictMatchesMark
    /\ StoreMatchesVerdict
    /\ SocketOwnedByLiveRecording
-----------------------------------------------------------------------------
(* The initial state: no delivery has started.                             *)
LEMMA InitInv == Init => IInv
  BY CallOfAssumption, NoSessionAssumption
  DEF Init, IInv, TypeOK, OneRecordingPerCall, CandidateNeverLeaks, MarkerMatchesMark,
      Undecided, VerdictMatchesMark, StoreMatchesVerdict, SocketOwnedByLiveRecording,
      InProgress, SessionPC, CloserPC

(* The duplicate check of handle_delivery_invite keeps the invariant: a    *)
(* second delivery of a tracked Call-ID owns nothing.                      *)
LEMMA ArriveInv ==
    ASSUME IInv, NEW s \in Sessions, Arrive(s) PROVE IInv'
<1> USE CallOfAssumption, BoxOfAssumption, NoSessionAssumption
<1> USE DEF IInv, TypeOK, OneRecordingPerCall, CandidateNeverLeaks, MarkerMatchesMark,
            Undecided, VerdictMatchesMark, StoreMatchesVerdict, SocketOwnedByLiveRecording,
            InProgress, SessionPC, CloserPC, vars, stateVars, sessVars, storeVars, Goto
<1>1. CASE Track(s)
  BY <1>1 DEF Track, track_recording_candidate
<1>2. CASE RejectDuplicate(s)
  BY <1>2 DEF RejectDuplicate
<1> HIDE DEF IInv
<1> QED
  BY <1>1, <1>2 DEF Arrive

(* So does every later step of a delivery and of its recording task.       *)
LEMMA SessionStepInv ==
    ASSUME IInv, NEW s \in Sessions, SessionStep(s) PROVE IInv'
<1> USE CallOfAssumption, BoxOfAssumption, NoSessionAssumption
<1> USE DEF IInv, TypeOK, OneRecordingPerCall, CandidateNeverLeaks, MarkerMatchesMark,
            Undecided, VerdictMatchesMark, StoreMatchesVerdict, SocketOwnedByLiveRecording,
            InProgress, SessionPC, CloserPC, vars, stateVars, sessVars, storeVars, Goto
<1>1. CASE Admit(s)
  BY <1>1 DEF Admit
<1>2. CASE Reject(s)
  BY <1>2 DEF Reject, discard_recording_candidate
<1>3. CASE Allocate(s)
  BY <1>3 DEF Allocate
<1>4. CASE Activate(s)
  BY <1>4 DEF Activate
<1>5. CASE BeginRecording(s)
  BY <1>5, SMTT(30) DEF BeginRecording
<1>6. ASSUME NEW res \in {"ok", "empty"}, WriteFile(s, res) PROVE IInv'
  BY <1>6 DEF WriteFile
<1>7. CASE RecordingFails(s)
  BY <1>7 DEF RecordingFails
<1>8. CASE Unlist(s)
  BY <1>8 DEF Unlist
<1>9. CASE Release(s)
  BY <1>9 DEF Release
<1>10. CASE Decide(s)
  BY <1>10 DEF Decide, should_persist_recording, recording_persistence_decision
<1>11. CASE Discard(s)
  BY <1>11, SMTT(30) DEF Discard, DeleteFile
<1>12. CASE InsertRow(s)
  BY <1>12 DEF InsertRow
<1>13. CASE InsertFails(s)
  BY <1>13 DEF InsertFails, DeleteFile
<1>14. CASE Notify(s)
  BY <1>14 DEF Notify
<1> HIDE DEF IInv
<1> QED
  BY <1>1, <1>2, <1>3, <1>4, <1>5, <1>6, <1>7, <1>8, <1>9, <1>10, <1>11, <1>12, <1>13, <1>14 DEF SessionStep

(* Routing a BYE, a CANCEL or a suppression changes nothing but the closer. *)
LEMMA CloserArriveInv ==
    ASSUME IInv, NEW k \in Closers, CloserArrive(k) PROVE IInv'
<1> USE CallOfAssumption, BoxOfAssumption, NoSessionAssumption
<1> USE DEF IInv, TypeOK, OneRecordingPerCall, CandidateNeverLeaks, MarkerMatchesMark,
            Undecided, VerdictMatchesMark, StoreMatchesVerdict, SocketOwnedByLiveRecording,
            InProgress, SessionPC, CloserPC, vars, stateVars, sessVars, storeVars, CGoto
<1>1. CASE RouteBye(k)
  BY <1>1 DEF RouteBye
<1>2. CASE RouteCancel(k)
  BY <1>2 DEF RouteCancel
<1>3. CASE SuppressDelivery(k)
  BY <1>3 DEF SuppressDelivery, Returned
<1> HIDE DEF IInv
<1> QED
  BY <1>1, <1>2, <1>3 DEF CloserArrive

(* Marking sets the marker and the mark together; the other steps of a     *)
(* closer only take entries away.                                          *)
LEMMA CloserStepInv ==
    ASSUME IInv, NEW k \in Closers, CloserStep(k) PROVE IInv'
<1> USE CallOfAssumption, BoxOfAssumption, NoSessionAssumption
<1> USE DEF IInv, TypeOK, OneRecordingPerCall, CandidateNeverLeaks, MarkerMatchesMark,
            Undecided, VerdictMatchesMark, StoreMatchesVerdict, SocketOwnedByLiveRecording,
            InProgress, SessionPC, CloserPC, vars, stateVars, sessVars, storeVars, CGoto
<1>1. CASE CloserMark(k)
  BY <1>1 DEF CloserMark, mark_recording_canceled
<1>2. CASE CloserUnlist(k)
  BY <1>2 DEF CloserUnlist
<1>3. CASE CloserDrop(k)
  BY <1>3 DEF CloserDrop
<1> HIDE DEF IInv
<1> QED
  BY <1>1, <1>2, <1>3 DEF CloserStep

(* Deleting a message touches neither its file nor any delivery.           *)
LEMMA DeleteMessageInv ==
    ASSUME IInv, NEW r \in Sessions, DeleteMessage(r) PROVE IInv'
<1> USE CallOfAssumption, BoxOfAssumption, NoSessionAssumption
<1> USE DEF IInv, TypeOK, OneRecordingPerCall, CandidateNeverLeaks, MarkerMatchesMark,
            Undecided, VerdictMatchesMark, StoreMatchesVerdict, SocketOwnedByLiveRecording,
            InProgress, SessionPC, CloserPC, vars, stateVars, sessVars, storeVars
<1> QED
  BY DEF DeleteMessage

(* A restart ends every delivery and empties every map together.           *)
LEMMA RestartInv == ASSUME IInv, Restart PROVE IInv'
<1> USE CallOfAssumption, BoxOfAssumption, NoSessionAssumption
<1> USE DEF IInv, TypeOK, OneRecordingPerCall, CandidateNeverLeaks, MarkerMatchesMark,
            Undecided, VerdictMatchesMark, StoreMatchesVerdict, SocketOwnedByLiveRecording,
            InProgress, SessionPC, CloserPC, vars, stateVars, sessVars, storeVars
<1> QED
  BY DEF Restart, Finished

(* Steps of the rest of the system leave the delivery state alone.         *)
LEMMA StutterInv == ASSUME IInv, UNCHANGED vars PROVE IInv'
<1> USE CallOfAssumption, BoxOfAssumption, NoSessionAssumption
<1> USE DEF IInv, TypeOK, OneRecordingPerCall, CandidateNeverLeaks, MarkerMatchesMark,
            Undecided, VerdictMatchesMark, StoreMatchesVerdict, SocketOwnedByLiveRecording,
            InProgress, SessionPC, CloserPC, vars, stateVars, sessVars, storeVars
<1> QED
  OBVIOUS

(* IInv is an inductive invariant of the specification.                    *)
THEOREM Invariance == Spec => []IInv
<1>1. IInv /\ [Next]_vars => IInv'
  BY ArriveInv, SessionStepInv, CloserArriveInv, CloserStepInv, DeleteMessageInv,
     RestartInv, StutterInv DEF Next
<1> QED
  BY InitInv, <1>1, PTL DEF Spec

-----------------------------------------------------------------------------
(* Type correctness of the maps, the store and the positions of every      *)
(* delivery and closer.                                                    *)
THEOREM TypeCorrect == Spec => []TypeOK
<1>1. IInv => TypeOK
  BY DEF IInv
<1> QED
  BY Invariance, <1>1, PTL

(* track_recording_candidate is a mutual exclusion: at most one delivery   *)
(* per Call-ID is between the duplicate check and the persistence decision.*)
THEOREM MutualExclusion == Spec => []OneRecordingPerCall
<1>1. IInv => OneRecordingPerCall
  BY DEF IInv
<1> QED
  BY Invariance, <1>1, PTL

(* recording_state never keeps a Call-ID that no delivery owns.            *)
THEOREM NoCandidateLeak == Spec => []CandidateNeverLeaks
<1>1. IInv => CandidateNeverLeaks
  BY DEF IInv
<1> QED
  BY Invariance, <1>1, PTL

(* A recording that was marked canceled while in progress is never stored, *)
(* and none is discarded for a cancellation of another delivery.           *)
THEOREM CancellationExact == Spec => [](CanceledNeverStored /\ NoInheritedCancel)
<1>1. IInv => CanceledNeverStored /\ NoInheritedCancel
  BY DEF IInv, TypeOK, VerdictMatchesMark, StoreMatchesVerdict, CanceledNeverStored,
         NoInheritedCancel
<1> QED
  BY Invariance, <1>1, PTL

(* The media registry only holds sockets of live recordings of that call.  *)
THEOREM SocketOwnership == Spec => []SocketOwnedByLiveRecording
<1>1. IInv => SocketOwnedByLiveRecording
  BY DEF IInv
<1> QED
  BY Invariance, <1>1, PTL

(* Every stored message has its audio file, across failures and restarts.  *)
THEOREM AudioPresent == Spec => []RowHasAudio
<1>1. IInv => RowHasAudio
  BY DEF IInv, StoreMatchesVerdict, RowHasAudio
<1> QED
  BY Invariance, <1>1, PTL

-----------------------------------------------------------------------------
(* Refinement of VoicemailDelivery                                         *)

(* Every step of a task, a timer or a recording is a step of               *)
(* VoicemailDelivery or leaves its variables alone.                        *)
LEMMA StepImplements == CallNext => [Next]_vars
<1> USE ProcessAssumption
<1> USE DEF Next
<1>1. ASSUME NEW t \in Tasks, Receive(t) PROVE [Next]_vars
  BY <1>1 DEF Receive, RecvInvite, RecvResponse, RecvCancelResponse, RecvAck, RecvBye,
              RecvCancel, CloserArrive
<1>2. ASSUME NEW x \in Sessions, Deliver(x) PROVE [Next]_vars
  BY <1>2, SMTT(120) DEF Deliver
<1>3. ASSUME NEW t \in Tasks, TaskStep(t) PROVE [Next]_vars
  <2>1. CASE VmClose(t)
    BY <2>1 DEF VmClose, CloserStep
  <2>2. CASE VmDrop(t)
    BY <2>2, SMTT(120) DEF VmDrop, CloserStep
  <2> QED
    BY <1>2, <1>3, <2>1, <2>2
    DEF TaskStep, InviteSetup, InviteForward, InviteArm, BusyTake, BusyCancel, BusyClean,
        BusyLook, RelayCheck, RelayDrop, RelayForward, RelayClean, Ack, Bye, ByeClean,
        Cancel, CancelForward, CancelClean, DeliverReply, BusyDeliveryFails
<1>4. ASSUME NEW m \in Timers, TimerStep(m) PROVE [Next]_vars
  <2>1. CASE CheckAnswer(m)
    BY <2>1 DEF CheckAnswer, CloserArrive
  <2>2. CASE Suppress(m)
    BY <2>2 DEF Suppress
  <2>3. m \in Sessions
    OBVIOUS
  <2>4. CASE Deliver(m)
    BY <1>2, <2>3, <2>4
  <2> QED
    BY <1>4, <2>1, <2>2, <2>4
    DEF TimerStep, claim_no_answer_timer_to_fire, CancelLeg, ClearLeg, CheckSetup, Answer,
        finish_no_answer_timer
<1>5. ASSUME NEW x \in Sessions, Record(x) PROVE [Next]_vars
  BY <1>5 DEF Record
<1> QED
  BY <1>1, <1>3, <1>4, <1>5 DEF CallNext

(* The composition implements the safety part of VoicemailDelivery: the    *)
(* handlers and the timer reach recordings only through its steps.         *)
THEOREM Refinement == CallSpec => ImplementsDelivery
<1>1. CallInit => Init
  BY DEF CallInit
<1>2. [CallNext]_allVars => [Next]_vars
  BY StepImplements DEF allVars
<1> QED
  BY <1>1, <1>2, PTL DEF CallSpec, ImplementsDelivery

(* Hence what was proved of recordings holds of whole calls.               *)
THEOREM RecordingsInCalls ==
    CallSpec => [](OneRecordingPerCall /\ CandidateNeverLeaks /\ SocketOwnedByLiveRecording)
<1>1. IInv /\ [Next]_vars => IInv'
  BY ArriveInv, SessionStepInv, CloserArriveInv, CloserStepInv, DeleteMessageInv,
     RestartInv, StutterInv DEF Next
<1>2. IInv => OneRecordingPerCall /\ CandidateNeverLeaks /\ SocketOwnedByLiveRecording
  BY DEF IInv
<1> QED
  BY Refinement, InitInv, <1>1, <1>2, PTL DEF ImplementsDelivery
-----------------------------------------------------------------------------
(* The no_answer map                                                       *)

(* CallTypeOK without the part that VoicemailDelivery accounts for.        *)
CallTypes ==
    /\ pending \subseteq Calls
    /\ invites \subseteq Calls
    /\ dialogs \subseteq Calls
    /\ relay \subseteq Calls
    /\ entry \in [Calls -> {"none", "ringing", "firing", "canceled"}]
    /\ handle \in [Calls -> Timers \cup {NoTimer}]
    /\ op \in [Tasks -> {"none", "invite", "ok", "err", "busy", "other", "ack", "bye",
                         "cancel"}]
    /\ tpc \in [Tasks -> TaskPC]
    /\ got \in [Tasks -> {"none", "NotFound", "AlreadyFired", "Canceled"}]
    /\ mpc \in [Timers -> TimerPC]
    /\ toCallee \in [Calls -> SUBSET {"INVITE", "ACK", "CANCEL", "vm", "vmfail"}]
    /\ toCaller \in [Calls -> SUBSET (Finals \cup {"other"})]
    /\ said \in [Calls -> {"none"} \cup CalleeFinals]

(* A task that relays is handling a response.                              *)
RelayedOps ==
    \A t \in Tasks :
        /\ tpc[t] \in {"check", "drop", "relay", "relayClean"} =>
               op[t] \in {"ok", "err", "busy", "other"}
        /\ tpc[t] \in {"busyTake", "busyCancel", "busyClean", "busyLook"} => op[t] = "busy"

(* A timer past its CANCEL step has sent the CANCEL, and a task delivers   *)
(* to voicemail on its own only for a callee that is not registered.       *)
DeliveryDuties ==
    /\ \A m \in Timers : mpc[m] \in {"clear", "check1", "deliver", "suppress", "answer"} =>
           "CANCEL" \in toCallee[CallOf[m]]
    /\ \A t \in Tasks : tpc[t] = "deliver" =>
           op[t] = "busy" \/ (op[t] = "invite" /\ CallOf[t] \notin Registered)

TimerInv ==
    /\ CallTypes
    /\ RingingEntryHasSleeper
    /\ FiredEntryHasTimer
    /\ RelayedOps
    /\ DeliveryDuties
    /\ AnsweredAfterCancel

(* A fresh handler has no entries, tasks or timers.                        *)
LEMMA TimerInitInv == CallInit => TimerInv
  BY CalleeAssumption, NoTimerAssumption
  DEF CallInit, TimerInv, CallTypes, RingingEntryHasSleeper, FiredEntryHasTimer, RelayedOps,
      DeliveryDuties, AnsweredAfterCancel, TaskPC, TimerPC, Finals

(* Receiving a message starts a task and touches no map.                   *)
LEMMA ReceiveInv ==
    ASSUME TimerInv, NEW t \in Tasks, Receive(t) PROVE TimerInv'
<1> USE CallOfAssumption, ProcessAssumption, DisjointAssumption, NoTimerAssumption,
        CalleeAssumption
<1> USE DEF TimerInv, CallTypes, RingingEntryHasSleeper, FiredEntryHasTimer, RelayedOps,
            DeliveryDuties, AnsweredAfterCancel, TaskPC, TimerPC, Finals, Firing,
            callVars, mapVars, noAnswerVars, netVars, TGoto, MGoto, SendCaller, SendCallee,
            ClearEntry, AbortHandle, CancelResult
<1>1. CASE RecvInvite(t)
  BY <1>1, SMTT(30) DEF RecvInvite, Invited
<1>2. ASSUME NEW k \in CalleeFinals, RecvResponse(t, k) PROVE TimerInv'
  BY <1>2, SMTT(30) DEF RecvResponse
<1>3. CASE RecvCancelResponse(t)
  BY <1>3, SMTT(30) DEF RecvCancelResponse
<1>4. CASE RecvAck(t)
  BY <1>4, SMTT(30) DEF RecvAck
<1>5. CASE RecvBye(t)
  BY <1>5, SMTT(30) DEF RecvBye
<1>6. CASE RecvCancel(t)
  BY <1>6, SMTT(30) DEF RecvCancel, Invited
<1> HIDE DEF TimerInv
<1> QED
  BY <1>1, <1>2, <1>3, <1>4, <1>5, <1>6, SMTT(30) DEF Receive

(* A handler aborts a timer only through the handle of a ringing entry.    *)
LEMMA TaskStepInv ==
    ASSUME TimerInv, NEW t \in Tasks, TaskStep(t) PROVE TimerInv'
<1> USE CallOfAssumption, ProcessAssumption, DisjointAssumption, NoTimerAssumption,
        CalleeAssumption
<1> USE DEF TimerInv, CallTypes, RingingEntryHasSleeper, FiredEntryHasTimer, RelayedOps,
            DeliveryDuties, AnsweredAfterCancel, TaskPC, TimerPC, Finals, Firing,
            callVars, mapVars, noAnswerVars, netVars, TGoto, MGoto, SendCaller, SendCallee,
            ClearEntry, AbortHandle, CancelResult
<1>1. CASE InviteSetup(t)
  BY <1>1, SMTT(30) DEF InviteSetup
<1>2. CASE InviteForward(t)
  <2>1. /\ CallOf[t] \in Calls
        /\ tpc' = [tpc EXCEPT ![t] = tpc'[t]]
        /\ tpc'[t] \in {"arm", "done"}
        /\ UNCHANGED <<pending, invites, dialogs, relay, entry, handle, op, got, mpc, said>>
    BY <1>2, SMTT(30) DEF InviteForward
  <2>2. CASE SendCallee(CallOf[t], "INVITE") /\ UNCHANGED toCaller
    BY <2>1, <2>2, SMTT(30)
  <2>3. CASE SendCaller(CallOf[t], "500") /\ UNCHANGED toCallee
    BY <2>1, <2>3, SMTT(30)
  <2> QED
    BY <1>2, <2>2, <2>3 DEF InviteForward
<1>3. CASE InviteArm(t)
  BY <1>3, SMTT(30) DEF InviteArm, start_no_answer_timer
<1>4. CASE BusyTake(t)
  BY <1>4, SMTT(30) DEF BusyTake
<1>5. CASE BusyCancel(t)
  BY <1>5, SMTT(30) DEF BusyCancel, cancel_no_answer_timer
<1>6. CASE BusyClean(t)
  BY <1>6, SMTT(30) DEF BusyClean, ForgetCall
<1>7. CASE BusyLook(t)
  BY <1>7, SMTT(30) DEF BusyLook
<1>8. CASE RelayCheck(t)
  BY <1>8, SMTT(120) DEF RelayCheck, cancel_no_answer_timer
<1>9. CASE RelayDrop(t)
  BY <1>9, SMTT(30) DEF RelayDrop, ForgetCall
<1>10. CASE RelayForward(t)
  BY <1>10, SMTT(30) DEF RelayForward
<1>11. CASE RelayClean(t)
  BY <1>11, SMTT(30) DEF RelayClean
<1>12. CASE Ack(t)
  BY <1>12, SMTT(120) DEF Ack, cancel_no_answer_timer
<1>13. CASE Bye(t)
  BY <1>13, SMTT(120) DEF Bye, cancel_no_answer_timer
<1>14. CASE ByeClean(t)
  BY <1>14, SMTT(30) DEF ByeClean, ForgetCall
<1>15. CASE Cancel(t)
  BY <1>15, SMTT(30) DEF Cancel, cancel_no_answer_timer_for_caller_cancel
<1>16. CASE CancelForward(t)
  BY <1>16, SMTT(30) DEF CancelForward
<1>17. CASE CancelClean(t)
  BY <1>17, SMTT(30) DEF CancelClean, ForgetCall
<1>18. CASE VmClose(t)
  BY <1>18, SMTT(120) DEF VmClose, cancel_no_answer_timer
<1>19. CASE VmDrop(t)
  BY <1>19, SMTT(30) DEF VmDrop
<1>20. CASE DeliverReply(t)
  BY <1>20, SMTT(30) DEF DeliverReply, DeliveryAnswer
<1>21. CASE BusyDeliveryFails(t)
  BY <1>21, SMTT(30) DEF BusyDeliveryFails
<1>22. CASE Deliver(t)
  BY <1>22, SMTT(30) DEF Deliver
<1> HIDE DEF TimerInv
<1> QED
  BY <1>1, <1>2, <1>3, <1>4, <1>5, <1>6, <1>7, <1>8, <1>9, <1>10, <1>11, <1>12, <1>13, <1>14, <1>15, <1>16, <1>17, <1>18, <1>19, <1>20, <1>21, <1>22, SMTT(30) DEF TaskStep

(* A timer owns the entry from its claim until it removes it.              *)
LEMMA TimerStepInv ==
    ASSUME TimerInv, NEW m \in Timers, TimerStep(m) PROVE TimerInv'
<1> USE CallOfAssumption, ProcessAssumption, DisjointAssumption, NoTimerAssumption,
        CalleeAssumption
<1> USE DEF TimerInv, CallTypes, RingingEntryHasSleeper, FiredEntryHasTimer, RelayedOps,
            DeliveryDuties, AnsweredAfterCancel, TaskPC, TimerPC, Finals, Firing,
            callVars, mapVars, noAnswerVars, netVars, TGoto, MGoto, SendCaller, SendCallee,
            ClearEntry, AbortHandle, CancelResult
<1>1. CASE claim_no_answer_timer_to_fire(m)
  BY <1>1, SMTT(30) DEF claim_no_answer_timer_to_fire
<1>2. CASE CancelLeg(m)
  BY <1>2, SMTT(30) DEF CancelLeg
<1>3. CASE ClearLeg(m)
  BY <1>3, SMTT(30) DEF ClearLeg, ForgetCall
<1>4. CASE CheckSetup(m)
  BY <1>4, SMTT(30) DEF CheckSetup, no_answer_timer_should_continue
<1>5. CASE CheckAnswer(m)
  BY <1>5, SMTT(30) DEF CheckAnswer, no_answer_timer_should_continue
<1>6. CASE Suppress(m)
  BY <1>6, SMTT(30) DEF Suppress
<1>7. CASE Answer(m)
  BY <1>7, SMTT(30) DEF Answer, DeliveryAnswer
<1>8. CASE finish_no_answer_timer(m)
  BY <1>8, SMTT(30) DEF finish_no_answer_timer
<1>9. CASE Deliver(m)
  BY <1>9, SMTT(30) DEF Deliver
<1> HIDE DEF TimerInv
<1> QED
  BY <1>1, <1>2, <1>3, <1>4, <1>5, <1>6, <1>7, <1>8, <1>9, SMTT(30) DEF TimerStep

(* TimerInv is an inductive invariant of the composition.                  *)
THEOREM TimerInvariance == CallSpec => []TimerInv
<1>1. ASSUME TimerInv, UNCHANGED callVars PROVE TimerInv'
  BY <1>1 DEF TimerInv, CallTypes, RingingEntryHasSleeper, FiredEntryHasTimer, RelayedOps,
              DeliveryDuties, AnsweredAfterCancel, Firing, callVars
<1>2. TimerInv /\ [CallNext]_allVars => TimerInv'
  BY <1>1, ReceiveInv, TaskStepInv, TimerStepInv DEF CallNext, Record, allVars
<1> QED
  BY TimerInitInv, <1>2, PTL DEF CallSpec

(* The entry of a ringing call always names the sleeping timer, and a      *)
(* fired entry always has a timer that will remove it.                     *)
THEOREM NoAnswerMapConsistent == CallSpec => [](RingingEntryHasSleeper /\ FiredEntryHasTimer)
<1>1. TimerInv => RingingEntryHasSleeper /\ FiredEntryHasTimer
  BY DEF TimerInv
<1> QED
  BY TimerInvariance, <1>1, PTL

(* Voicemail answers a registered callee's call only after its CANCEL.     *)
THEOREM CancelBeforeVoicemail == CallSpec => []AnsweredAfterCancel
<1>1. TimerInv => AnsweredAfterCancel
  BY DEF TimerInv
<1> QED
  BY TimerInvariance, <1>1, PTL

-----------------------------------------------------------------------------
(* Voicemail replaces the proxied call                                     *)

INSTANCE FiniteSetTheorems

(* Leaves without arithmetic go to Zenon; the others name SMT.             *)
USE ZenonT(30)

(* The call c is in one of the maps of the proxied call.                   *)
Proxied(c) == c \in pending \cup dialogs \cup relay

(* At most one INVITE of the call was received.                            *)
Sole(c) == \A t, u \in Invited(c) : t = u

(* A task that handles an INVITE is where handle_invite can be, and a task *)
(* that has not started handles nothing.                                   *)
InviteOps ==
    \A t \in Tasks :
        /\ tpc[t] = "idle" => op[t] = "none"
        /\ op[t] = "invite" => tpc[t] \in {"setup", "forward", "arm", "deliver", "done"}
        /\ tpc[t] \in {"setup", "forward", "arm"} =>
               op[t] = "invite" /\ CallOf[t] \in Registered

(* Only calls of registered callees are proxied; a timer was started, and  *)
(* voicemail answered, for an INVITE; only so many INVITEs were received.  *)
Causes ==
    /\ pending \cup dialogs \cup relay \subseteq Registered
    /\ \A m \in Timers : mpc[m] # "idle" => Invited(CallOf[m]) # {}
    /\ \A c \in Calls : "vm" \in toCaller[c] => Invited(c) # {}
    /\ \A c \in Calls : IsFiniteSet(Invited(c))

(* Once the timer of a call with one INVITE runs, or voicemail answered a  *)
(* registered callee's call, that INVITE has been handled; and the maps    *)
(* are clear from the timer's ClearLeg on.                                 *)
Handled(c) == \A t \in Invited(c) : tpc[t] = "done"
Replaced ==
    /\ \A m \in Timers : Sole(CallOf[m]) /\ mpc[m] # "idle" => Handled(CallOf[m])
    /\ \A m \in Timers : Sole(CallOf[m])
           /\ mpc[m] \in {"check1", "deliver", "suppress", "answer", "finish"}
           => ~Proxied(CallOf[m])
    /\ \A c \in Calls : Sole(c) /\ "vm" \in toCaller[c] =>
           ~Proxied(c) /\ (c \in Registered => Handled(c))

ReplaceInv == InviteOps /\ Causes /\ Replaced

(* A step of a task that handles no INVITE: maps and timers only lose, and *)
(* voicemail answers nobody.                                               *)
Quiet(t) ==
    /\ op' = op
    /\ op[t] # "invite"
    /\ tpc' = [tpc EXCEPT ![t] = tpc'[t]]
    /\ tpc'[t] \notin {"idle", "setup", "forward", "arm"}
    /\ pending' \subseteq pending
    /\ dialogs' \subseteq dialogs
    /\ relay' \subseteq relay
    /\ \A m \in Timers : mpc'[m] = mpc[m] \/ (mpc[m] # "idle" /\ mpc'[m] = "aborted")
    /\ \A c \in Calls : "vm" \in toCaller'[c] => "vm" \in toCaller[c]

(* Such a step keeps the invariant.                                        *)
LEMMA QuietKeeps ==
    ASSUME TimerInv, ReplaceInv, NEW t \in Tasks, Quiet(t) PROVE ReplaceInv'
<1>1. \A c : Invited(c)' = Invited(c)
  BY DEF Quiet, Invited
<1>2. \A u \in Tasks : tpc'[u] = tpc[u] \/ u = t
  BY DEF Quiet, TimerInv, CallTypes
<1>3. \A c : Sole(c)' <=> Sole(c)
  BY <1>1 DEF Sole
<1>4. \A c : Handled(c) => Handled(c)'
  BY <1>1, <1>2 DEF Handled, Quiet, Invited
<1>5. \A c : Proxied(c)' => Proxied(c)
  BY DEF Proxied, Quiet
<1>6. InviteOps'
  BY <1>2 DEF InviteOps, ReplaceInv, Quiet
<1>7. Causes'
  BY <1>1 DEF Causes, ReplaceInv, Quiet
<1>8. Replaced'
  BY <1>3, <1>4, <1>5 DEF Replaced, ReplaceInv, Quiet
<1> QED
  BY <1>6, <1>7, <1>8 DEF ReplaceInv

(* Steps that touch none of the call's state keep it.                      *)
LEMMA ReplaceStutter == ASSUME ReplaceInv, UNCHANGED callVars PROVE ReplaceInv'
<1>1. \A c : Invited(c)' = Invited(c)
  BY DEF callVars, Invited
<1>2. \A c : (Sole(c)' <=> Sole(c)) /\ (Handled(c)' <=> Handled(c))
  BY <1>1 DEF callVars, Sole, Handled
<1>3. \A c : Proxied(c)' <=> Proxied(c)
  BY DEF callVars, Proxied
<1> QED
  BY <1>1, <1>2, <1>3 DEF callVars, ReplaceInv, InviteOps, Causes, Replaced

(* Cancelling a timer stops one that has been started.                     *)
LEMMA CancelStops ==
    ASSUME TimerInv, NEW t \in Tasks, NEW c \in Calls,
           cancel_no_answer_timer(t, c) \/ cancel_no_answer_timer_for_caller_cancel(t, c)
    PROVE  \A m \in Timers : mpc'[m] = mpc[m] \/ (mpc[m] # "idle" /\ mpc'[m] = "aborted")
  BY SMTT(30) DEF cancel_no_answer_timer, cancel_no_answer_timer_for_caller_cancel, TimerInv, CallTypes,
     AbortHandle, RingingEntryHasSleeper, TimerPC

(* Every step of a task that does not handle an INVITE is quiet.           *)
LEMMA TaskIsQuiet ==
    ASSUME TimerInv, ReplaceInv, NEW t \in Tasks, op[t] # "invite", TaskStep(t)
    PROVE  Quiet(t) \/ UNCHANGED callVars
<1> DEFINE c == CallOf[t]
<1>0. c \in Calls /\ t \in DOMAIN tpc
  BY CallOfAssumption, ProcessAssumption DEF TimerInv, CallTypes
<1>a. tpc[t] \notin {"idle", "setup", "forward", "arm"}
  <2>1. CASE tpc[t] = "idle"
    BY <2>1 DEF TaskStep, InviteSetup, InviteForward, InviteArm, BusyTake, BusyCancel, BusyClean,
        BusyLook, RelayCheck, RelayDrop, RelayForward, RelayClean, Ack, Bye, ByeClean,
        Cancel, CancelForward, CancelClean, VmClose, VmDrop, DeliverReply, BusyDeliveryFails
  <2> QED
    BY <2>1 DEF ReplaceInv, InviteOps
<1> USE <1>0, <1>a DEF Quiet, TGoto, mapVars, noAnswerVars, netVars
<1>1. CASE BusyTake(t)
  BY <1>1 DEF BusyTake
<1>2. CASE BusyCancel(t)
  BY <1>2, CancelStops DEF BusyCancel
<1>3. CASE BusyClean(t)
  BY <1>3 DEF BusyClean, ForgetCall
<1>4. CASE BusyLook(t)
  BY <1>4 DEF BusyLook
<1>5. CASE RelayCheck(t)
  BY <1>5, CancelStops DEF RelayCheck
<1>6. CASE RelayDrop(t)
  BY <1>6 DEF RelayDrop, ForgetCall
<1>7. CASE RelayForward(t)
  BY <1>7, SMTT(30) DEF RelayForward, SendCaller, TimerInv, RelayedOps, CallTypes
<1>8. CASE RelayClean(t)
  BY <1>8 DEF RelayClean
<1>9. CASE Ack(t)
  BY <1>9, CancelStops DEF Ack
<1>10. CASE Bye(t)
  BY <1>10, CancelStops DEF Bye
<1>11. CASE ByeClean(t)
  BY <1>11 DEF ByeClean, ForgetCall
<1>12. CASE Cancel(t)
  BY <1>12, CancelStops DEF Cancel
<1>13. CASE CancelForward(t)
  BY <1>13 DEF CancelForward
<1>14. CASE CancelClean(t)
  BY <1>14 DEF CancelClean, ForgetCall
<1>15. CASE VmClose(t)
  BY <1>15, CancelStops DEF VmClose
<1>16. CASE VmDrop(t)
  BY <1>16 DEF VmDrop
<1>17. CASE DeliverReply(t)
  BY <1>17 DEF DeliverReply
<1>18. CASE BusyDeliveryFails(t)
  BY <1>18 DEF BusyDeliveryFails
<1>19. CASE Deliver(t)
  BY <1>19 DEF Deliver
<1> HIDE <1>0, <1>a DEF Quiet
<1> QED
  BY <1>a, <1>1, <1>2, <1>3, <1>4, <1>5, <1>6, <1>7, <1>8, <1>9, <1>10, <1>11, <1>12,
     <1>13, <1>14, <1>15, <1>16, <1>17, <1>18, <1>19
  DEF TaskStep, InviteSetup, InviteForward, InviteArm

(* A step of a task that handles an INVITE keeps it: the maps are filled   *)
(* before a timer is started.                                              *)
LEMMA InviteStepKeeps ==
    ASSUME TimerInv, ReplaceInv, NEW t \in Tasks, op[t] = "invite", TaskStep(t)
    PROVE  ReplaceInv'
<1> DEFINE c == CallOf[t]
<1>0. c \in Calls /\ t \in DOMAIN tpc /\ t \in Invited(c)
  BY CallOfAssumption, ProcessAssumption DEF TimerInv, CallTypes, Invited
<1>1. CASE UNCHANGED callVars
  BY <1>1, ReplaceStutter
<1>a. CASE InviteSetup(t) \/ InviteForward(t) \/ InviteArm(t) \/ DeliverReply(t)
  <2>1. op' = op /\ tpc' = [tpc EXCEPT ![t] = tpc'[t]]
    BY <1>0, <1>a DEF InviteSetup, InviteForward, InviteArm, DeliverReply, TGoto, TimerInv, CallTypes
  <2>2. \A x : Invited(x)' = Invited(x)
    BY <2>1 DEF Invited
  <2>3. \A u \in Tasks : tpc'[u] = tpc[u] \/ u = t
    BY <2>1 DEF TimerInv, CallTypes
  <2>4. \A x : Sole(x)' <=> Sole(x)
    BY <2>2 DEF Sole
  <2>5. tpc[t] # "done"
    BY <1>a DEF InviteSetup, InviteForward, InviteArm, DeliverReply
  <2>6. Handled(c) => FALSE
    BY <1>0, <2>5 DEF Handled
  <2>7. \A x : Handled(x) => Handled(x)'
    BY <2>2, <2>3, <2>5 DEF Handled, Invited
  <2>8. CASE InviteSetup(t)
    <3>1. tpc'[t] = "forward" /\ c \in Registered /\ mpc' = mpc /\ toCaller' = toCaller
      BY <1>0, <2>8 DEF InviteSetup, TGoto, netVars, ReplaceInv, InviteOps
    <3>2. \A x : x # c /\ Proxied(x)' => Proxied(x)
      BY <2>8 DEF InviteSetup, Proxied
    <3>3. InviteOps'
      BY <2>1, <2>3, <3>1 DEF InviteOps, ReplaceInv
    <3>4. Causes'
      BY <2>2, <3>1, <2>8 DEF Causes, ReplaceInv, InviteSetup
    <3>5. \A m \in Timers : Sole(CallOf[m]) /\ mpc[m] # "idle" => CallOf[m] # c
      BY <2>6 DEF ReplaceInv, Replaced
    <3>6. \A x \in Calls : Sole(x) /\ "vm" \in toCaller[x] => x # c
      BY <2>6, <3>1 DEF ReplaceInv, Replaced
    <3>7. Replaced'
      BY <2>4, <2>7, <3>1, <3>2, <3>5, <3>6 DEF Replaced, ReplaceInv
    <3> QED
      BY <3>3, <3>4, <3>7 DEF ReplaceInv
  <2>9. CASE InviteForward(t)
    <3>1. /\ tpc'[t] \in {"arm", "done"} /\ c \in Registered
          /\ UNCHANGED <<pending, dialogs, relay, mpc>>
      BY <1>0, <2>9 DEF InviteForward, TGoto, mapVars, ReplaceInv, InviteOps
    <3>2. \A x \in Calls : "vm" \in toCaller'[x] => "vm" \in toCaller[x]
      BY <1>0, <2>9, SMTT(30) DEF InviteForward, SendCaller, TimerInv, CallTypes
    <3>3. InviteOps'
      BY <2>1, <2>3, <3>1 DEF InviteOps, ReplaceInv
    <3>4. Causes'
      BY <2>2, <3>1, <3>2 DEF Causes, ReplaceInv
    <3>5. \A x : Proxied(x)' <=> Proxied(x)
      BY <3>1 DEF Proxied
    <3>6. Replaced'
      BY <2>4, <2>7, <3>1, <3>2, <3>5 DEF Replaced, ReplaceInv
    <3> QED
      BY <3>3, <3>4, <3>6 DEF ReplaceInv
  <2>10. CASE InviteArm(t)
    <3>1. /\ tpc'[t] = "done"
          /\ UNCHANGED <<pending, dialogs, relay, toCaller>>
      BY <1>0, <2>10 DEF InviteArm, TGoto, mapVars, netVars
    <3>2. PICK n \in Timers : CallOf[n] = c /\ start_no_answer_timer(c, n)
      BY <2>10 DEF InviteArm
    <3>3. \A m \in Timers : m = n \/ mpc'[m] = mpc[m] \/ (mpc[m] # "idle" /\ mpc'[m] = "aborted")
      BY <1>0, <3>2 DEF start_no_answer_timer, TimerInv, RingingEntryHasSleeper
    <3>4. mpc'[n] = "sleeping"
      BY <3>2 DEF start_no_answer_timer
    <3>5. InviteOps'
      BY <2>1, <2>3, <3>1 DEF InviteOps, ReplaceInv
    <3>6. Causes'
      BY <1>0, <2>2, <3>1, <3>2, <3>3 DEF Causes, ReplaceInv
    <3>7. Sole(c) => Handled(c)'
      BY <1>0, <2>2, <3>1 DEF Sole, Handled
    <3>8. \A x : Proxied(x)' <=> Proxied(x)
      BY <3>1 DEF Proxied
    <3>9. Replaced'
      BY <2>4, <2>7, <3>1, <3>2, <3>3, <3>4, <3>7, <3>8 DEF Replaced, ReplaceInv
    <3> QED
      BY <3>5, <3>6, <3>9 DEF ReplaceInv
  <2>11. CASE DeliverReply(t)
    <3>1. /\ tpc'[t] = "done"
          /\ c \notin Registered
          /\ UNCHANGED <<pending, dialogs, relay, mpc>>
      BY <1>0, <2>11 DEF DeliverReply, TGoto, mapVars, TimerInv, DeliveryDuties
    <3>2. \A x \in Calls : "vm" \in toCaller'[x] => x = c \/ "vm" \in toCaller[x]
      BY <1>0, <2>11 DEF DeliverReply, SendCaller, TimerInv, CallTypes
    <3>3. InviteOps'
      BY <2>1, <2>3, <3>1 DEF InviteOps, ReplaceInv
    <3>4. Causes'
      BY <1>0, <2>2, <3>1, <3>2 DEF Causes, ReplaceInv
    <3>5. \A x : Proxied(x)' <=> Proxied(x)
      BY <3>1 DEF Proxied
    <3>6. ~Proxied(c)
      BY <3>1 DEF Proxied, ReplaceInv, Causes
    <3>7. Replaced'
      BY <2>4, <2>7, <3>1, <3>2, <3>5, <3>6 DEF Replaced, ReplaceInv
    <3> QED
      BY <3>3, <3>4, <3>7 DEF ReplaceInv
  <2> QED
    BY <1>a, <2>8, <2>9, <2>10, <2>11
<1> QED
  <2>1. tpc[t] \in {"setup", "forward", "arm", "deliver", "done"}
    BY DEF ReplaceInv, InviteOps
  <2> QED
    BY <1>1, <1>a, <2>1 DEF TaskStep, BusyTake, BusyCancel, BusyClean,
        BusyLook, RelayCheck, RelayDrop, RelayForward, RelayClean, Ack, Bye, ByeClean,
        Cancel, CancelForward, CancelClean, VmClose, VmDrop, BusyDeliveryFails, Deliver

(* Receiving a message: only an INVITE of a call adds to its Invited set,  *)
(* and the first one finds no timer started and voicemail silent.          *)
LEMMA ReceiveKeeps ==
    ASSUME TimerInv, ReplaceInv, NEW t \in Tasks, Receive(t) PROVE ReplaceInv'
<1> DEFINE c == CallOf[t]
<1>1. /\ c \in Calls /\ t \in DOMAIN tpc /\ t \in DOMAIN op
      /\ tpc[t] = "idle" /\ op[t] = "none"
  BY CallOfAssumption, ProcessAssumption
  DEF TimerInv, CallTypes, ReplaceInv, InviteOps, Receive, RecvInvite, RecvResponse,
      RecvCancelResponse, RecvAck, RecvBye, RecvCancel
<1>2. /\ UNCHANGED <<pending, dialogs, relay, mpc>>
      /\ op' = [op EXCEPT ![t] = op'[t]]
      /\ tpc' = [tpc EXCEPT ![t] = tpc'[t]]
      /\ \A x \in Calls : "vm" \in toCaller'[x] => "vm" \in toCaller[x]
  <2>1. CASE RecvInvite(t)
    BY <1>1, <2>1, SMTT(30) DEF RecvInvite, mapVars, TGoto, SendCaller, TimerInv, CallTypes
  <2>2. ASSUME NEW k \in CalleeFinals, RecvResponse(t, k) PROVE <1>2!:
    BY <1>1, <2>2 DEF RecvResponse, mapVars, TGoto
  <2>3. CASE RecvCancelResponse(t) \/ RecvAck(t) \/ RecvBye(t) \/ RecvCancel(t)
    BY <1>1, <2>3 DEF RecvCancelResponse, RecvAck, RecvBye, RecvCancel, mapVars, netVars, TGoto
  <2> QED
    BY <2>1, <2>2, <2>3 DEF Receive
<1>3. \/ op'[t] # "invite" /\ tpc'[t] \notin {"idle", "setup", "forward", "arm"}
      \/ /\ op'[t] = "invite"
         /\ tpc'[t] \in {"setup", "deliver", "done"}
         /\ tpc'[t] = "setup" => c \in Registered
  <2>1. CASE RecvInvite(t)
    BY <1>1, <2>1 DEF RecvInvite, TGoto
  <2>2. ASSUME NEW k \in CalleeFinals, RecvResponse(t, k) PROVE <1>3!:
    BY <1>1, <2>2, CalleeAssumption DEF RecvResponse, TGoto
  <2>3. CASE RecvCancelResponse(t) \/ RecvAck(t) \/ RecvBye(t) \/ RecvCancel(t)
    BY <1>1, <2>3 DEF RecvCancelResponse, RecvAck, RecvBye, RecvCancel, TGoto
  <2> QED
    BY <2>1, <2>2, <2>3 DEF Receive
<1>4. \A u \in Tasks : u = t \/ (tpc'[u] = tpc[u] /\ op'[u] = op[u])
  BY <1>1, <1>2 DEF TimerInv, CallTypes
<1>5. \A x : Invited(x)' = Invited(x) \/ (x = c /\ Invited(x)' = Invited(x) \cup {t})
  BY <1>1, <1>4 DEF Invited
<1>6. \A x : /\ Sole(x)' => Sole(x)
             /\ Sole(x)' /\ Invited(x)' # Invited(x) => Invited(x) = {}
  <2>1. \A x : t \notin Invited(x)
    BY <1>1 DEF Invited
  <2>2. ASSUME NEW x, Sole(x)', Invited(x)' # Invited(x) PROVE Invited(x) = {}
    <3>1. Invited(x)' = Invited(x) \cup {t}
      BY <1>5, <2>2
    <3>2. ASSUME NEW u \in Invited(x) PROVE FALSE
      BY <2>1, <2>2, <3>1, <3>2 DEF Sole
    <3> QED
      BY <3>2
  <2> QED
    BY <1>5, <2>2 DEF Sole
<1>7. \A x : Invited(x)' = Invited(x) /\ Handled(x) => Handled(x)'
  BY <1>1, <1>4 DEF Handled, Invited
<1>8. \A x : Proxied(x)' <=> Proxied(x)
  BY <1>2 DEF Proxied
<1>9. InviteOps'
  BY <1>3, <1>4 DEF InviteOps, ReplaceInv
<1>10. Causes'
  <2>1. \A x \in Calls : IsFiniteSet(Invited(x)')
    <3> SUFFICES ASSUME NEW x \in Calls PROVE IsFiniteSet(Invited(x)')
      OBVIOUS
    <3>1. IsFiniteSet(Invited(x))
      BY DEF Causes, ReplaceInv
    <3>2. IsFiniteSet(Invited(x) \cup {t})
      BY <3>1, FS_AddElement
    <3> QED
      BY <1>5, <3>1, <3>2
  <2>2. \A x : Invited(x) # {} => Invited(x)' # {}
    BY <1>5
  <2> QED
    BY <1>2, <2>1, <2>2 DEF Causes, ReplaceInv
<1>11. Replaced'
  <2>1. \A m \in Timers : CallOf[m] \in Calls
    BY CallOfAssumption, ProcessAssumption
  <2> QED
    BY <1>2, <1>6, <1>7, <1>8, <2>1 DEF Replaced, Causes, ReplaceInv
<1> QED
  BY <1>9, <1>10, <1>11 DEF ReplaceInv

(* A timer clears the maps before it delivers, and answers only then.      *)
LEMMA TimerKeeps ==
    ASSUME TimerInv, ReplaceInv, NEW m \in Timers, TimerStep(m) PROVE ReplaceInv'
<1> DEFINE c == CallOf[m]
           Cleared == {"check1", "deliver", "suppress", "answer", "finish"}
<1>0. c \in Calls /\ DOMAIN mpc = Timers
  BY CallOfAssumption, ProcessAssumption DEF TimerInv, CallTypes
<1>1. CASE UNCHANGED callVars
  BY <1>1, ReplaceStutter
<1>2. CASE ~UNCHANGED callVars
  <2>1. /\ op' = op /\ tpc' = tpc
        /\ \A n \in Timers : n # m => mpc'[n] = mpc[n]
        /\ pending' \subseteq pending /\ dialogs' \subseteq dialogs /\ relay' \subseteq relay
        /\ mpc[m] # "idle" /\ mpc'[m] # "idle"
    <3>1. op' = op /\ tpc' = tpc
      BY <1>2 DEF TimerStep, claim_no_answer_timer_to_fire, CancelLeg, ClearLeg, CheckSetup,
          CheckAnswer, Suppress, Answer, finish_no_answer_timer, Deliver
    <3>2. \A n \in Timers : n # m => mpc'[n] = mpc[n]
      BY <1>0, <1>2 DEF TimerStep, claim_no_answer_timer_to_fire, CancelLeg, ClearLeg, CheckSetup,
          CheckAnswer, Suppress, Answer, finish_no_answer_timer, Deliver, MGoto
    <3>3. pending' \subseteq pending /\ dialogs' \subseteq dialogs /\ relay' \subseteq relay
      BY <1>2 DEF TimerStep, claim_no_answer_timer_to_fire, CancelLeg, ClearLeg, CheckSetup,
          CheckAnswer, Suppress, Answer, finish_no_answer_timer, Deliver, mapVars, ForgetCall
    <3>4. mpc[m] # "idle"
      BY <1>2 DEF TimerStep, claim_no_answer_timer_to_fire, CancelLeg, ClearLeg, CheckSetup,
          CheckAnswer, Suppress, Answer, finish_no_answer_timer, Deliver
    <3>5. mpc'[m] # "idle"
      BY <1>0, <1>2, <3>4 DEF TimerStep, claim_no_answer_timer_to_fire, CancelLeg, ClearLeg, CheckSetup,
          CheckAnswer, Suppress, Answer, finish_no_answer_timer, Deliver, MGoto
    <3> QED
      BY <3>1, <3>2, <3>3, <3>4, <3>5
  <2>2. \A x : Invited(x)' = Invited(x)
    BY <2>1 DEF Invited
  <2>3. \A x : (Sole(x)' <=> Sole(x)) /\ (Handled(x)' <=> Handled(x))
    BY <2>1, <2>2 DEF Sole, Handled
  <2>4. \A x : Proxied(x)' => Proxied(x)
    BY <2>1 DEF Proxied
  <2>5. mpc'[m] \in Cleared => mpc[m] \in Cleared \/ ~Proxied(c)'
    BY <1>0, <1>2
    DEF TimerStep, claim_no_answer_timer_to_fire, CancelLeg, ClearLeg, CheckSetup, CheckAnswer,
        Suppress, Answer, finish_no_answer_timer, Deliver, MGoto, ForgetCall, Proxied
  <2>6. \A x \in Calls : "vm" \in toCaller'[x] =>
            "vm" \in toCaller[x] \/ (x = c /\ mpc[m] = "answer")
    BY <1>0, <1>2
    DEF TimerStep, claim_no_answer_timer_to_fire, CancelLeg, ClearLeg, CheckSetup, CheckAnswer,
        Suppress, Answer, finish_no_answer_timer, Deliver, netVars, SendCaller, TimerInv, CallTypes
  <2>7. InviteOps'
    BY <2>1 DEF InviteOps, ReplaceInv
  <2>8. Causes'
    BY <2>1, <2>2, <2>6 DEF Causes, ReplaceInv
  <2>9. Replaced'
    <3>1. \A n \in Timers : mpc[n] # "idle" <=> mpc'[n] # "idle"
      BY <2>1
    <3>2. \A n \in Timers : mpc'[n] \in Cleared =>
              mpc[n] \in Cleared \/ ~Proxied(CallOf[n])'
      BY <2>1, <2>5
    <3> QED
      BY <2>1, <2>3, <2>4, <2>6, <3>1, <3>2 DEF Replaced, ReplaceInv
  <2> QED
    BY <2>7, <2>8, <2>9 DEF ReplaceInv
<1> QED
  BY <1>1, <1>2

(* ReplaceInv is an inductive invariant relative to TimerInv.              *)
THEOREM ReplaceInvariance == CallSpec => []ReplaceInv
<1>1. CallInit => ReplaceInv
  <2> SUFFICES ASSUME CallInit PROVE ReplaceInv
    OBVIOUS
  <2>1. \A c : Invited(c) = {}
    BY DEF CallInit, Invited
  <2>2. \A c : IsFiniteSet(Invited(c))
    BY <2>1, FS_EmptySet
  <2>3. \A m \in Timers : CallOf[m] \in Calls
    BY CallOfAssumption, ProcessAssumption
  <2> QED
    BY <2>2, <2>3 DEF CallInit, ReplaceInv, InviteOps, Causes, Replaced
<1>2. TimerInv /\ ReplaceInv /\ [CallNext]_allVars => ReplaceInv'
  BY ReplaceStutter, ReceiveKeeps, TaskIsQuiet, QuietKeeps, InviteStepKeeps, TimerKeeps
  DEF CallNext, Record, allVars
<1> QED
  BY <1>1, <1>2, TimerInvariance, PTL DEF CallSpec

(* A caller that voicemail has answered is not also in a proxied call, if  *)
(* the INVITE was received once: the timer's ClearLeg comes after the maps *)
(* were filled, and nothing fills them again.                              *)
THEOREM VoicemailReplaces == CallSpec => []VoicemailReplacesProxiedCall
<1>1. ReplaceInv => VoicemailReplacesProxiedCall
  <2> SUFFICES ASSUME ReplaceInv, NEW c \in Calls,
                      "vm" \in toCaller[c], Cardinality(Invited(c)) = 1
               PROVE  c \notin pending \cup dialogs \cup relay
    BY DEF VoicemailReplacesProxiedCall
  <2>1. PICK t : Invited(c) = {t}
    BY FS_Singleton DEF ReplaceInv, Causes
  <2>2. Sole(c)
    BY <2>1 DEF Sole
  <2> QED
    BY <2>2 DEF ReplaceInv, Replaced, Proxied
<1> QED
  BY ReplaceInvariance, <1>1, PTL
=============================================================================
