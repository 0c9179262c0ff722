-------------------------- MODULE VoicemailDelivery --------------------------
(***************************************************************************)
(* Recording of voicemail messages: VoicemailService::handle_delivery_     *)
(* invite, the recording task it spawns, and the BYE, CANCEL and           *)
(* suppressed no-answer paths that end a recording from the outside        *)
(* (backend/src/sip/voicemail.rs), with the media registry of              *)
(* voicemail_media.rs, the WAV store of storage/voicemail.rs and the       *)
(* sip_voicemail_messages table.                                           *)
(*                                                                         *)
(* A session is one run of handle_delivery_invite together with the        *)
(* recording task it spawns; a closer is one run of a handler that ends a  *)
(* voicemail call.  Each runs once.  Every lock section, database          *)
(* statement and file operation is a step of its own, because the code     *)
(* awaits between them and handlers of one Call-ID run concurrently.       *)
(***************************************************************************)
EXTENDS Naturals, FiniteSets

CONSTANTS
    Calls,         \* Call-IDs
    Sessions,      \* runs of handle_delivery_invite (and their recording tasks)
    Closers,       \* runs of handle_bye, handle_cancel, cleanup_suppressed...
    Boxes,         \* mailboxes
    CallOf,        \* the Call-ID of each session and closer
    BoxOf,         \* the mailbox a Call-ID is addressed to
    MaxMessages,   \* sip_voicemail_boxes.max_messages
    Faults,        \* bound: whether sockets, files and inserts may fail
    NoSession      \* absence of an entry in the media registry

ASSUME CallOfAssumption == CallOf \in [Sessions \cup Closers -> Calls]
ASSUME BoxOfAssumption == BoxOf \in [Calls -> Boxes]
ASSUME FaultsAssumption == Faults \in BOOLEAN
ASSUME NoSessionAssumption == NoSession \notin Sessions

VARIABLES
    recording,  \* RecordingCancelState.recording
    canceled,   \* RecordingCancelState.canceled
    active,     \* VoicemailService.active, entries in Recording mode
    media,      \* MEDIA_REGISTRY: which session's socket a Call-ID maps to
    pc,         \* where each session is
    result,     \* what record_to_storage returned to a session
    verdict,    \* the session's RecordingPersistenceDecision
    cpc,        \* where each closer is
    files,      \* complete WAV files, named by the session that wrote them
    partials,   \* WAV files whose write failed half way
    rows,       \* rows of sip_voicemail_messages
    deleted,    \* rows whose status is 'deleted'
    marked      \* history: sessions a CANCEL or suppression found recording

stateVars == <<recording, canceled>>
sessVars == <<pc, result, verdict>>
storeVars == <<files, partials, rows, deleted>>
vars == <<recording, canceled, active, media, pc, result, verdict, cpc,
          files, partials, rows, deleted, marked>>

SessionPC == {"idle", "tracked", "admitted", "allocated", "spawned", "recording",
              "ended", "unlisted", "released", "decided", "stored",
              "done", "rejected", "crashed"}
CloserPC == {"idle", "mark", "unlist", "drop", "done"}

(* A session owns its Call-ID in recording_state from track_recording_     *)
(* candidate until discard_recording_candidate or should_persist_recording *)
InProgress(s) == pc[s] \in {"tracked", "admitted", "allocated", "spawned",
                            "recording", "ended", "unlisted", "released"}
(* handle_delivery_invite has returned its response                        *)
Returned(s) == pc[s] \notin {"idle", "tracked", "admitted", "allocated"}
Finished(s) == pc[s] \in {"done", "rejected", "crashed"}

-----------------------------------------------------------------------------
(* The operations on RecordingCancelState                                  *)

(* Faulty variant: the answer of HashSet::insert is ignored                *)
TrackUnchecked(c) ==
    /\ recording' = recording \cup {c}
    /\ UNCHANGED canceled

track_recording_candidate(c) ==
    /\ c \notin recording
    /\ recording' = recording \cup {c}
    /\ UNCHANGED canceled

(* Faulty variant: only the cancellation marker is given back              *)
DiscardKeepsCandidate(c) ==
    /\ canceled' = canceled \ {c}
    /\ UNCHANGED recording

discard_recording_candidate(c) ==
    /\ recording' = recording \ {c}
    /\ canceled' = canceled \ {c}

mark_recording_canceled(c) ==
    /\ canceled' = IF c \in recording THEN canceled \cup {c} ELSE canceled
    /\ marked' = IF c \in recording
                 THEN marked \cup {s \in Sessions : CallOf[s] = c /\ InProgress(s)}
                 ELSE marked
    /\ UNCHANGED recording

should_persist_recording(c) ==
    /\ recording' = recording \ {c}
    /\ canceled' = canceled \ {c}

(* Faulty variant: only the length of the recording is looked at           *)
DecideIgnoringCancel(persist, res) ==
    CASE res = "err" -> "failed"
      [] res = "empty" -> "empty"
      [] OTHER -> "insert"

(* Faulty variant: a failed recording is stored unless it was cancelled    *)
DecideIgnoringResult(persist, res) ==
    IF persist THEN "insert" ELSE "canceled"

recording_persistence_decision(persist, res) ==
    CASE res = "err" -> "failed"
      [] res # "err" /\ ~persist -> "canceled"
      [] res = "empty" /\ persist -> "empty"
      [] OTHER -> "insert"

Goto(s, l) == pc' = [pc EXCEPT ![s] = l]

-----------------------------------------------------------------------------
(* handle_delivery_invite                                                  *)

(* The duplicate check: only one run per Call-ID gets past it              *)
Track(s) ==
    /\ pc[s] = "idle"
    /\ track_recording_candidate(CallOf[s])
    /\ Goto(s, "tracked")
    /\ UNCHANGED <<active, media, result, verdict, cpc, storeVars, marked>>

(* 491 Request Pending                                                     *)
RejectDuplicate(s) ==
    /\ pc[s] = "idle"
    /\ CallOf[s] \in recording
    /\ Goto(s, "rejected")
    /\ UNCHANGED <<stateVars, active, media, result, verdict, cpc, storeVars, marked>>

Kept(b) == {r \in rows \ deleted : BoxOf[CallOf[r]] = b}
mailbox_is_full(b) == Cardinality(Kept(b)) >= MaxMessages

Admit(s) ==
    /\ pc[s] = "tracked"
    /\ ~mailbox_is_full(BoxOf[CallOf[s]])
    /\ Goto(s, "admitted")
    /\ UNCHANGED <<stateVars, active, media, result, verdict, cpc, storeVars, marked>>

(* Every refusal after the duplicate check gives the candidate back: bad   *)
(* caller, database error, unknown mailbox, full mailbox (tracked); bad    *)
(* SDP, no free port or a Call-ID that already has media (admitted)        *)
Reject(s) ==
    /\ pc[s] \in {"tracked", "admitted"}
    /\ discard_recording_candidate(CallOf[s])
    /\ Goto(s, "rejected")
    /\ UNCHANGED <<active, media, result, verdict, cpc, storeVars, marked>>

(* VoicemailMedia::allocate                                                *)
Allocate(s) ==
    /\ pc[s] = "admitted"
    /\ media[CallOf[s]] = NoSession
    /\ media' = [media EXCEPT ![CallOf[s]] = s]
    /\ Goto(s, "allocated")
    /\ UNCHANGED <<stateVars, active, result, verdict, cpc, storeVars, marked>>

(* active.insert, spawn_recording_task, 200 OK                             *)
Activate(s) ==
    /\ pc[s] = "allocated"
    /\ active' = active \cup {CallOf[s]}
    /\ Goto(s, "spawned")
    /\ UNCHANGED <<stateVars, media, result, verdict, cpc, storeVars, marked>>

-----------------------------------------------------------------------------
(* The recording task                                                      *)

(* record_to_storage starts by looking its media session up                *)
BeginRecording(s) ==
    /\ pc[s] = "spawned"
    /\ IF media[CallOf[s]] = NoSession
       THEN /\ result' = [result EXCEPT ![s] = "err"]
            /\ Goto(s, "ended")
       ELSE /\ UNCHANGED result
            /\ Goto(s, "recording")
    /\ UNCHANGED <<stateVars, active, media, verdict, cpc, storeVars, marked>>

(* The receive loop ends (media removed, '#', maximum length, idle         *)
(* timeout) and the file is written; res is "ok" or, with no audio, "empty" *)
WriteFile(s, res) ==
    /\ pc[s] = "recording"
    /\ files' = files \cup {s}
    /\ result' = [result EXCEPT ![s] = res]
    /\ Goto(s, "ended")
    /\ UNCHANGED <<stateVars, active, media, verdict, cpc, partials, rows, deleted, marked>>

(* The socket fails, the file cannot be created, or write_all fails after  *)
(* create_new made the file                                                *)
RecordingFails(s) ==
    /\ pc[s] = "recording"
    /\ Faults
    /\ result' = [result EXCEPT ![s] = "err"]
    /\ Goto(s, "ended")
    /\ partials' \in {partials, partials \cup {s}}
    /\ UNCHANGED <<stateVars, active, media, verdict, cpc, files, rows, deleted, marked>>

Unlist(s) ==
    /\ pc[s] = "ended"
    /\ active' = active \ {CallOf[s]}
    /\ Goto(s, "unlisted")
    /\ UNCHANGED <<stateVars, media, result, verdict, cpc, storeVars, marked>>

Release(s) ==
    /\ pc[s] = "unlisted"
    /\ media' = [media EXCEPT ![CallOf[s]] = NoSession]
    /\ Goto(s, "released")
    /\ UNCHANGED <<stateVars, active, result, verdict, cpc, storeVars, marked>>

Decide(s) ==
    /\ pc[s] = "released"
    /\ should_persist_recording(CallOf[s])
    /\ verdict' = [verdict EXCEPT ![s] =
                     recording_persistence_decision(CallOf[s] \notin canceled, result[s])]
    /\ Goto(s, "decided")
    /\ UNCHANGED <<active, media, result, cpc, storeVars, marked>>

(* storage.delete may itself fail, which is only logged                    *)
DeleteFile(s) == files' \in IF Faults THEN {files, files \ {s}} ELSE {files \ {s}}

(* The recording is dropped, with its file if one was written              *)
Discard(s) ==
    /\ pc[s] = "decided"
    /\ verdict[s] \in {"failed", "canceled", "empty"}
    /\ IF verdict[s] = "failed" THEN UNCHANGED files ELSE DeleteFile(s)
    /\ Goto(s, "done")
    /\ UNCHANGED <<stateVars, active, media, result, verdict, cpc, partials, rows, deleted,
                   marked>>

InsertRow(s) ==
    /\ pc[s] = "decided"
    /\ verdict[s] = "insert"
    /\ rows' = rows \cup {s}
    /\ Goto(s, "stored")
    /\ UNCHANGED <<stateVars, active, media, result, verdict, cpc, files, partials, deleted,
                   marked>>

InsertFails(s) ==
    /\ pc[s] = "decided"
    /\ verdict[s] = "insert"
    /\ Faults
    /\ DeleteFile(s)
    /\ Goto(s, "done")
    /\ UNCHANGED <<stateVars, active, media, result, verdict, cpc, partials, rows, deleted,
                   marked>>

(* mwi.notify_mailbox, whose outcome is only logged                        *)
Notify(s) ==
    /\ pc[s] = "stored"
    /\ Goto(s, "done")
    /\ UNCHANGED <<stateVars, active, media, result, verdict, cpc, storeVars, marked>>

-----------------------------------------------------------------------------
(* The closers                                                             *)

CGoto(k, l) == cpc' = [cpc EXCEPT ![k] = l]

(* process_sip_msg routes a BYE or a CANCEL here when is_voicemail_call    *)
RouteBye(k) ==
    /\ cpc[k] = "idle"
    /\ CallOf[k] \in active
    /\ CGoto(k, "unlist")
    /\ UNCHANGED <<stateVars, active, media, sessVars, storeVars, marked>>

RouteCancel(k) ==
    /\ cpc[k] = "idle"
    /\ CallOf[k] \in active
    /\ CGoto(k, "mark")
    /\ UNCHANGED <<stateVars, active, media, sessVars, storeVars, marked>>

(* cleanup_suppressed_no_answer_delivery, after a delivery has returned    *)
SuppressDelivery(k) ==
    /\ cpc[k] = "idle"
    /\ \E s \in Sessions : CallOf[s] = CallOf[k] /\ Returned(s)
    /\ CGoto(k, "mark")
    /\ UNCHANGED <<stateVars, active, media, sessVars, storeVars, marked>>

CloserMark(k) ==
    /\ cpc[k] = "mark"
    /\ mark_recording_canceled(CallOf[k])
    /\ CGoto(k, "unlist")
    /\ UNCHANGED <<active, media, sessVars, storeVars>>

CloserUnlist(k) ==
    /\ cpc[k] = "unlist"
    /\ active' = active \ {CallOf[k]}
    /\ CGoto(k, "drop")
    /\ UNCHANGED <<stateVars, media, sessVars, storeVars, marked>>

CloserDrop(k) ==
    /\ cpc[k] = "drop"
    /\ media' = [media EXCEPT ![CallOf[k]] = NoSession]
    /\ CGoto(k, "done")
    /\ UNCHANGED <<stateVars, active, sessVars, storeVars, marked>>

-----------------------------------------------------------------------------
(* The API and the mailbox menu mark messages deleted, never their files   *)
DeleteMessage(r) ==
    /\ r \in rows \ deleted
    /\ deleted' = deleted \cup {r}
    /\ UNCHANGED <<stateVars, active, media, sessVars, cpc, files, partials, rows, marked>>

(* The process dies and starts again: tasks, maps and sockets are gone,    *)
(* rows and files stay.  reconcile_on_startup removes *.tmp, *.part and    *)
(* *.partial files; write_message only ever creates *.wav names            *)
Restart ==
    /\ pc' = [s \in Sessions |-> IF pc[s] = "idle" \/ Finished(s) THEN pc[s] ELSE "crashed"]
    /\ cpc' = [k \in Closers |-> IF cpc[k] = "idle" THEN "idle" ELSE "done"]
    /\ pc' # pc \/ cpc' # cpc
    /\ recording' = {}
    /\ canceled' = {}
    /\ active' = {}
    /\ media' = [c \in Calls |-> NoSession]
    /\ UNCHANGED <<result, verdict, storeVars, marked>>

-----------------------------------------------------------------------------
Init ==
    /\ recording = {}
    /\ canceled = {}
    /\ active = {}
    /\ media = [c \in Calls |-> NoSession]
    /\ pc = [s \in Sessions |-> "idle"]
    /\ result = [s \in Sessions |-> "none"]
    /\ verdict = [s \in Sessions |-> "none"]
    /\ cpc = [k \in Closers |-> "idle"]
    /\ files = {}
    /\ partials = {}
    /\ rows = {}
    /\ deleted = {}
    /\ marked = {}

Arrive(s) == Track(s) \/ RejectDuplicate(s)

SessionStep(s) ==
    \/ Admit(s) \/ Reject(s) \/ Allocate(s) \/ Activate(s)
    \/ BeginRecording(s) \/ (\E res \in {"ok", "empty"} : WriteFile(s, res))
    \/ RecordingFails(s) \/ Unlist(s) \/ Release(s) \/ Decide(s)
    \/ Discard(s) \/ InsertRow(s) \/ InsertFails(s) \/ Notify(s)

CloserArrive(k) == RouteBye(k) \/ RouteCancel(k) \/ SuppressDelivery(k)

CloserStep(k) == CloserMark(k) \/ CloserUnlist(k) \/ CloserDrop(k)

Next ==
    \/ \E s \in Sessions : Arrive(s) \/ SessionStep(s)
    \/ \E k \in Closers : CloserArrive(k) \/ CloserStep(k)
    \/ \E r \in Sessions : DeleteMessage(r)
    \/ Restart

(* Tokio runs every spawned task to its next await; nothing is assumed of  *)
(* arriving messages, of the API or of crashes                             *)
Fairness ==
    /\ \A s \in Sessions : WF_vars(SessionStep(s))
    /\ \A k \in Closers : WF_vars(CloserStep(k))

Spec == Init /\ [][Next]_vars /\ Fairness

-----------------------------------------------------------------------------
(* Properties                                                              *)

(* Every map holds Call-IDs, sessions or positions of the expected kind.   *)
TypeOK ==
    /\ recording \subseteq Calls
    /\ canceled \subseteq Calls
    /\ active \subseteq Calls
    /\ media \in [Calls -> Sessions \cup {NoSession}]
    /\ pc \in [Sessions -> SessionPC]
    /\ result \in [Sessions -> {"none", "ok", "empty", "err"}]
    /\ verdict \in [Sessions -> {"none", "insert", "canceled", "empty", "failed"}]
    /\ cpc \in [Closers -> CloserPC]
    /\ files \subseteq Sessions
    /\ partials \subseteq Sessions
    /\ rows \subseteq Sessions
    /\ deleted \subseteq Sessions
    /\ marked \subseteq Sessions

(* track_recording_candidate admits one delivery per Call-ID: however many *)
(* INVITEs of a call are retransmitted or re-delivered, at most one is     *)
(* between the duplicate check and the persistence decision.               *)
OneRecordingPerCall ==
    \A s, t \in Sessions :
        InProgress(s) /\ InProgress(t) /\ CallOf[s] = CallOf[t] => s = t

(* recording_state holds a Call-ID exactly while a delivery for it is in   *)
(* progress: no path of handle_delivery_invite or of the recording task    *)
(* leaves one behind, which would answer 491 to that Call-ID for ever.     *)
CandidateNeverLeaks ==
    \A c \in Calls : c \in recording <=> \E s \in Sessions : CallOf[s] = c /\ InProgress(s)

(* A recording that a CANCEL or a suppressed no-answer delivery marked     *)
(* while it was in progress never becomes a message, in any interleaving   *)
(* of the mark with the end of the recording.                              *)
CanceledNeverStored == marked \cap rows = {}

(* A recording is thrown away as canceled only if it was itself marked: a  *)
(* cancellation of an earlier call with the same Call-ID is not inherited. *)
NoInheritedCancel == \A s \in Sessions : verdict[s] = "canceled" => s \in marked

(* The media registry never maps a Call-ID to the socket of a recording    *)
(* that has released it, so the recording task and play-back only ever     *)
(* meet a live socket of their own call, and no port outlives its call.    *)
SocketOwnedByLiveRecording ==
    \A c \in Calls : media[c] # NoSession =>
        /\ CallOf[media[c]] = c
        /\ pc[media[c]] \in {"allocated", "spawned", "recording", "ended", "unlisted"}

(* Every row of sip_voicemail_messages names a completely written file,    *)
(* whatever fails and whenever the process restarts.                       *)
RowHasAudio == rows \subseteq files

(* An admitted delivery ends and gives its Call-ID back: no voicemail call *)
(* records for ever, and a later call may use the Call-ID again.           *)
RecordingEnds == \A c \in Calls : c \in recording ~> c \notin recording

(* docs/superpowers/specs/2026-05-15-voicemail-design.md:188: "Restart     *)
(* recovery: remove temporary files for recordings that were never         *)
(* finalized".                                                             *)
RestartRemovesUnfinalized ==
    \A s \in Sessions : pc[s] = "crashed" => s \notin (files \cup partials) \ rows
=============================================================================
