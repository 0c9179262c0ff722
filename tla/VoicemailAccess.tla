--------------------------- MODULE VoicemailAccess ---------------------------
(* The voicemail menu and the management API of one mailbox: calls to the  *)
(* access extension (Voicemail::handle_access_invite, handle_info,         *)
(* handle_bye), the API's operations on the mailbox, its messages and its  *)
(* greeting (api/voicemail.rs).                                            *)
(*                                                                         *)
(* A task is the handling of one request.  Every step ends where the code  *)
(* awaits: at a lock of one of the maps, a statement or a file operation,  *)
(* so two requests of one call may interleave there.  The MWI NOTIFYs that *)
(* follow a change of a message are in Subscriptions.                      *)
EXTENDS Integers, Sequences

CONSTANTS
    Calls,        \* Call-IDs of the owner's calls to the access extension
    Tasks,        \* requests handled at once
    MaxMessages,  \* bound: messages of the mailbox
    MaxFiles,     \* bound: greeting files written
    Pins,         \* what pin_hash may hash, <<>> for a mailbox without PIN
    Digits,       \* keys that are digits without a function in the menu
    MaxDigits,    \* bound: keys of a PIN entry
    MaxOps,       \* bound: requests
    MaxFaults,    \* bound: failing statements and restarts
    NoCall,       \* no entry in the map of active calls
    NoKey         \* greeting_storage_key IS NULL

Messages == 1 .. MaxMessages
Files == 1 .. MaxFiles
GREETING == 0   \* the prompt that is no message
MenuDigits == {"1", "2", "7", "9"}
Keys == MenuDigits \cup Digits \cup {"#", "*"}
EntryType == [mode : {"pin", "playback"}, list : Seq(Messages), index : Nat, buffer : Seq(Digits)]

ASSUME AccessAssumption ==
    /\ MaxMessages \in Nat /\ MaxFiles \in Nat /\ MaxDigits \in Nat
    /\ Pins \subseteq Seq(MenuDigits \cup Digits) /\ Digits \cap {"1", "2", "7", "9", "#", "*"} = {}
    /\ NoKey \notin Files
    /\ Calls \cap {NoCall, "api", "nobody"} = {}
    /\ NoCall \notin EntryType

VARIABLES
    status,     \* message: its status, "none" before it is recorded
    box,        \* the mailbox: none, enabled or disabled
    pin,        \* its PIN
    greeting,   \* its greeting_storage_key
    files,      \* greeting files on disk
    written,    \* how many greeting files were written
    active,     \* call: its entry in Voicemail::active
    pending,    \* Voicemail::access_pending
    media,      \* calls with a session in the voicemail media registry
    prompts,    \* spawned play_wav tasks: the call and what is to be played
    task,       \* what each request handler is doing
    ops, faults,
    overlapped, \* history: calls with two requests in progress at once
    stuck,      \* history: calls of which a statement failed
    panicked,   \* history: calls of which a handler panicked
    deletedBy,  \* history: message: the call or "api" that deleted it
    revived,    \* history: calls that saved a message they had deleted
    typed,      \* history: call: digits the owner typed since the last * or #
    refused,    \* history: calls whose right PIN was not accepted
    silent,     \* history: prompts of active calls that found no media session
    broken      \* history: a greeting update failed or named a key itself

boxVars == <<status, box, pin, greeting, files, written>>
callVars == <<active, pending, media, prompts>>
historyVars == <<stuck, panicked, deletedBy, revived, typed, refused, silent, broken>>
vars == <<boxVars, callVars, task, ops, faults, overlapped, historyVars>>

Idle == [pc |-> "idle"]
IsActive(c) == active[c] # NoCall
InPlayback(c) == IsActive(c) /\ active[c].mode = "playback"
Quiescent == \A t \in Tasks : task[t] = Idle

(* The server starts with the tables an earlier run left.                   *)
Init ==
    /\ box \in {"none", "enabled"}
    /\ status \in {[m \in Messages |-> s] : s \in {"none", IF box = "none" THEN "none" ELSE "new"}}
    /\ pin \in Pins
    /\ greeting = NoKey
    /\ files = {}
    /\ written = 0
    /\ active = [c \in Calls |-> NoCall]
    /\ pending = {}
    /\ media = {}
    /\ prompts = {}
    /\ task = [t \in Tasks |-> Idle]
    /\ ops = 0
    /\ faults = 0
    /\ overlapped = {}
    /\ stuck = {}
    /\ panicked = {}
    /\ deletedBy = [m \in Messages |-> "nobody"]
    /\ revived = {}
    /\ typed = [c \in Calls |-> <<>>]
    /\ refused = {}
    /\ silent = {}
    /\ broken = FALSE

Becomes(t, r) == task' = [task EXCEPT ![t] = r]
Goto(t, l) == task' = [task EXCEPT ![t].pc = l]
Fault == faults < MaxFaults /\ faults' = faults + 1

(* A request arrives at an idle task.                                       *)
Arrives(t) ==
    /\ task[t] = Idle
    /\ ops < MaxOps
    /\ ops' = ops + 1

At(t, l) == task[t].pc = l /\ UNCHANGED ops

(* list_messages_for_mailbox: new and saved messages, each once and the     *)
(* newest first.  The SELECT has one result; it is the member of this set.  *)
Present == {m \in Messages : status[m] \in {"new", "saved"}}

list_messages_for_mailbox ==
    {l \in UNION {[1 .. n -> Present] : n \in 0 .. MaxMessages} :
        /\ \A m \in Present : \E i \in DOMAIN l : l[i] = m
        /\ \A i, j \in DOMAIN l : i < j => l[i] > l[j]}

(* A failing SELECT gives an empty list.                                    *)
Listed(l) ==
    \/ l \in list_messages_for_mailbox /\ UNCHANGED faults
    \/ l = <<>> /\ Fault

Playback(list) == [mode |-> "playback", list |-> list, index |-> 0, buffer |-> <<>>]
PinEntry == [mode |-> "pin", list |-> <<>>, index |-> 0, buffer |-> <<>>]

-----------------------------------------------------------------------------
(* handle_access_invite                                                     *)

(* track_access_candidate, first lock: a call that is active is answered    *)
(* 491.                                                                     *)
TrackActive(t) ==
    \E c \in Calls :
        /\ Arrives(t)
        /\ Becomes(t, IF IsActive(c) THEN Idle ELSE [pc |-> "track", call |-> c])
        /\ UNCHANGED <<boxVars, callVars, faults, historyVars>>

(* Its second lock: a call that is pending is answered 491 as well.         *)
TrackPending(t) ==
    LET c == task[t].call IN
    /\ At(t, "track")
    /\ pending' = pending \cup {c}
    /\ IF c \in pending THEN Becomes(t, Idle) ELSE Goto(t, "lookup")
    /\ UNCHANGED <<boxVars, active, media, prompts, faults, historyVars>>

discard_access_candidate(t) == pending' = pending \ {task[t].call}

(* No caller, no enabled mailbox, an unregistered source or an offer that   *)
(* cannot be answered: 400, 404, 403 or 488.                                *)
AccessRefused(t) ==
    /\ At(t, "lookup")
    /\ discard_access_candidate(t)
    /\ Becomes(t, Idle)
    /\ UNCHANGED <<boxVars, active, media, prompts, faults, historyVars>>

(* The lookup of the registered source fails: the error is returned before  *)
(* the candidate is discarded.                                              *)
AccessFails(t) ==
    /\ At(t, "lookup") /\ box = "enabled"
    /\ Fault
    /\ stuck' = stuck \cup {task[t].call}
    /\ Becomes(t, Idle)
    /\ UNCHANGED <<boxVars, callVars, panicked, deletedBy, revived, typed, refused, silent, broken>>

(* VoicemailMedia::allocate, which fails (500) when the registry has a      *)
(* session of that Call-ID.                                                 *)
allocate(t) ==
    LET c == task[t].call IN
    /\ At(t, "lookup") /\ box = "enabled"
    /\ IF c \in media
       THEN Becomes(t, Idle) /\ discard_access_candidate(t) /\ UNCHANGED media
       ELSE /\ Becomes(t, [pc |-> "mode", call |-> c, key |-> greeting])
            /\ media' = media \cup {c} /\ UNCHANGED pending
    /\ UNCHANGED <<boxVars, active, prompts, faults, historyVars>>

(* A mailbox with a PIN asks for it, another one lists its messages.        *)
AccessMode(t) ==
    /\ At(t, "mode")
    /\ \E l \in list_messages_for_mailbox \cup {<<>>} :
          /\ IF pin = <<>> THEN Listed(l) ELSE l = <<>> /\ UNCHANGED faults
          /\ Becomes(t, [pc |-> "insert", call |-> task[t].call, key |-> task[t].key,
                         entry |-> IF pin # <<>> THEN PinEntry ELSE Playback(l)])
    /\ UNCHANGED <<boxVars, callVars, historyVars>>

AccessInsert(t) ==
    /\ At(t, "insert")
    /\ active' = [active EXCEPT ![task[t].call] = task[t].entry]
    /\ typed' = [typed EXCEPT ![task[t].call] = <<>>]
    /\ Goto(t, "discard")
    /\ UNCHANGED <<boxVars, pending, media, prompts, faults, stuck, panicked, deletedBy, revived, refused, silent, broken>>

(* The candidate is discarded and the greeting of a mailbox without a PIN   *)
(* is started.                                                              *)
AccessEnds(t) ==
    /\ At(t, "discard")
    /\ discard_access_candidate(t)
    /\ prompts' = IF pin = <<>> /\ task[t].key # NoKey
                  THEN prompts \cup {<<task[t].call, GREETING>>} ELSE prompts
    /\ Becomes(t, Idle)
    /\ UNCHANGED <<boxVars, active, media, faults, historyVars>>

handle_access_invite(t) ==
    \/ TrackActive(t) \/ TrackPending(t)
    \/ AccessRefused(t) \/ AccessFails(t) \/ allocate(t)
    \/ AccessMode(t) \/ AccessInsert(t) \/ AccessEnds(t)

(* play_wav: without a media session there is nothing to play on.           *)
play_wav(p) ==
    /\ p \in prompts
    /\ prompts' = prompts \ {p}
    /\ silent' = IF p[1] \in media \/ ~IsActive(p[1]) THEN silent ELSE silent \cup {p}
    /\ UNCHANGED <<boxVars, active, pending, media, task, ops, faults, stuck, panicked, deletedBy, revived, typed, refused, broken>>

-----------------------------------------------------------------------------
(* handle_bye and handle_cancel                                             *)

ByeRemovesCall(t) ==
    \E c \in Calls :
        /\ Arrives(t)
        /\ IsActive(c)
        /\ active' = [active EXCEPT ![c] = NoCall]
        /\ Becomes(t, [pc |-> "bye", call |-> c])
        /\ UNCHANGED <<boxVars, pending, media, prompts, faults, historyVars>>

\* Faulty variant: the media session is left behind.
ByeKeepsMedia(t) ==
    /\ At(t, "bye")
    /\ Becomes(t, Idle)
    /\ UNCHANGED <<boxVars, callVars, faults, historyVars>>

ByeRemovesMedia(t) ==
    /\ At(t, "bye")
    /\ media' = media \ {task[t].call}
    /\ Becomes(t, Idle)
    /\ UNCHANGED <<boxVars, active, pending, prompts, faults, historyVars>>

handle_bye(t) == ByeRemovesCall(t) \/ ByeRemovesMedia(t)

-----------------------------------------------------------------------------
(* handle_info                                                              *)

(* parse_dtmf_relay and the dispatch on the mode the call has now: what the *)
(* handler goes on to do.  While a PIN is entered only Digit(d) is taken,   *)
(* and 1, 2, 7 and 9 are parsed as something else.                          *)
Dispatch(c, k) ==
    LET e == active[c]
        Do(l) == [pc |-> l, call |-> c, index |-> e.index]
    IN  IF e.mode = "pin"
        THEN CASE k = "#" -> [pc |-> "pin", call |-> c, right |-> typed[c] = pin]
               [] k = "*" -> [pc |-> "clear", call |-> c]
               [] k \in Digits -> [pc |-> "push", call |-> c, digit |-> k]
               [] OTHER -> Idle
        ELSE CASE k = "1" /\ e.index > 0 /\ e.list # <<>> -> [Do("move") EXCEPT !.index = @ - 1]
               [] k \in {"2", "#"} /\ e.index + 1 < Len(e.list) -> [Do("move") EXCEPT !.index = @ + 1]
               [] k = "7" /\ e.list # <<>> -> Do("delete")
               [] k = "9" /\ e.list # <<>> -> Do("save")
               [] OTHER -> Idle

InfoArrives(t) ==
    \E c \in Calls, k \in Keys :
        /\ Arrives(t)
        /\ IsActive(c)
        /\ Len(typed[c]) < MaxDigits \/ k \in {"#", "*"} \/ InPlayback(c)
        /\ Becomes(t, Dispatch(c, k))
        /\ typed' = [typed EXCEPT ![c] = IF InPlayback(c) \/ k \in {"#", "*"} THEN <<>> ELSE Append(@, k)]
        /\ UNCHANGED <<boxVars, callVars, faults, stuck, panicked, deletedBy, revived, refused, silent, broken>>

MoveCursor(t) ==
    LET c == task[t].call IN
    /\ At(t, "move")
    /\ active' = IF InPlayback(c) THEN [active EXCEPT ![c].index = task[t].index] ELSE active
    /\ Goto(t, "play")
    /\ UNCHANGED <<boxVars, pending, media, prompts, faults, historyVars>>

(* The entry at the index, if the call is still there and has it.           *)
EntryAt(t) == InPlayback(task[t].call) /\ task[t].index < Len(active[task[t].call].list)
Entry(t) == active[task[t].call].list[task[t].index + 1]

(* play_message_at_index: the media session is removed, then play_wav is    *)
(* spawned.                                                                 *)
play_message_at_index(t) ==
    LET c == task[t].call IN
    /\ At(t, "play")
    /\ IF EntryAt(t)
       THEN media' = media \ {c} /\ prompts' = prompts \cup {<<c, Entry(t)>>}
       ELSE UNCHANGED <<media, prompts>>
    /\ Becomes(t, Idle)
    /\ UNCHANGED <<boxVars, active, pending, faults, historyVars>>

(* delete_message_at_index and save_message_at_index read the message's id  *)
(* under the lock, update its row and then change the list.                 *)
ReadEntry(t) ==
    /\ task[t].pc \in {"delete", "save"} /\ UNCHANGED ops
    /\ Becomes(t, IF EntryAt(t)
                  THEN [pc |-> IF task[t].pc = "delete" THEN "delete_row" ELSE "save_row",
                        call |-> task[t].call, index |-> task[t].index, msg |-> Entry(t)]
                  ELSE Idle)
    /\ UNCHANGED <<boxVars, callVars, faults, historyVars>>

DeleteRow(t) ==
    /\ At(t, "delete_row")
    /\ status' = [status EXCEPT ![task[t].msg] = "deleted"]
    /\ deletedBy' = [deletedBy EXCEPT ![task[t].msg] = task[t].call]
    /\ Goto(t, "drop")
    /\ UNCHANGED <<box, pin, greeting, files, written, callVars, faults, stuck, panicked, revived, typed, refused, silent, broken>>

SaveRow(t) ==
    LET m == task[t].msg IN
    /\ At(t, "save_row")
    /\ status' = [status EXCEPT ![m] = "saved"]
    /\ revived' = IF status[m] = "deleted" /\ deletedBy[m] = task[t].call THEN revived \cup {task[t].call} ELSE revived
    /\ deletedBy' = [deletedBy EXCEPT ![m] = "nobody"]
    /\ Becomes(t, Idle)
    /\ UNCHANGED <<box, pin, greeting, files, written, callVars, faults, stuck, panicked, typed, refused, silent, broken>>

(* The UPDATE fails: the list keeps the message.                            *)
RowFails(t) ==
    /\ task[t].pc \in {"delete_row", "save_row"} /\ UNCHANGED ops
    /\ Fault
    /\ Becomes(t, Idle)
    /\ UNCHANGED <<boxVars, callVars, historyVars>>

(* Vec::remove, with places counted from 1.                                 *)
RemoveAt(l, i) == SubSeq(l, 1, i - 1) \o SubSeq(l, i + 1, Len(l))

\* Faulty variant: the cursor is not moved back from the end of the list.
DropEntryOnly(t) ==
    LET c == task[t].call
        i == task[t].index
    IN  /\ At(t, "drop")
        /\ active' = IF EntryAt(t) THEN [active EXCEPT ![c].list = RemoveAt(@, i + 1)] ELSE active
        /\ panicked' = IF InPlayback(c) /\ ~EntryAt(t) THEN panicked \cup {c} ELSE panicked
        /\ Becomes(t, Idle)
        /\ UNCHANGED <<boxVars, pending, media, prompts, faults, stuck, deletedBy, revived, typed, refused, silent, broken>>

\* Faulty variant: the message stays in the list.
KeepEntry(t) ==
    /\ At(t, "drop")
    /\ Becomes(t, Idle)
    /\ UNCHANGED <<boxVars, callVars, faults, historyVars>>

(* Vec::remove at the index read before, which panics when the list has     *)
(* become too short; the cursor moves back from the end of the list.        *)
DropEntry(t) ==
    LET c == task[t].call
        i == task[t].index
        n == Len(active[c].list) - 1
    IN  /\ At(t, "drop")
        /\ active' = IF EntryAt(t)
                     THEN [active EXCEPT ![c].list = RemoveAt(@, i + 1),
                                         ![c].index = IF @ >= n /\ n > 0 THEN n - 1 ELSE @]
                     ELSE active
        /\ panicked' = IF InPlayback(c) /\ ~EntryAt(t) THEN panicked \cup {c} ELSE panicked
        /\ Becomes(t, Idle)
        /\ UNCHANGED <<boxVars, pending, media, prompts, faults, stuck, deletedBy, revived, typed, refused, silent, broken>>

-----------------------------------------------------------------------------
(* handle_info while a PIN is entered                                       *)

SetBuffer(c, b) == active' = IF IsActive(c) THEN [active EXCEPT ![c].buffer = b] ELSE active

PushDigit(t) ==
    /\ At(t, "push")
    /\ SetBuffer(task[t].call, Append(active[task[t].call].buffer, task[t].digit))
    /\ Becomes(t, Idle)
    /\ UNCHANGED <<boxVars, pending, media, prompts, faults, historyVars>>

\* Faulty variant: the digits stay in the buffer.
KeepBuffer(t) ==
    /\ At(t, "clear")
    /\ Becomes(t, Idle)
    /\ UNCHANGED <<boxVars, callVars, faults, historyVars>>

(* * and a wrong PIN clear the buffer.                                      *)
ClearBuffer(t) ==
    /\ At(t, "clear")
    /\ SetBuffer(task[t].call, <<>>)
    /\ Becomes(t, Idle)
    /\ UNCHANGED <<boxVars, pending, media, prompts, faults, historyVars>>

(* # takes the buffer, if the call still waits for a PIN.                   *)
PinRead(t) ==
    LET c == task[t].call IN
    /\ At(t, "pin")
    /\ Becomes(t, IF IsActive(c) /\ ~InPlayback(c)
                  THEN [pc |-> "verify", call |-> c, right |-> task[t].right, pin |-> active[c].buffer]
                  ELSE Idle)
    /\ UNCHANGED <<boxVars, callVars, faults, historyVars>>

(* The hash is read and verified.                                           *)
PinVerify(t) ==
    LET c == task[t].call
        valid == task[t].pin = pin
    IN  /\ At(t, "verify")
        /\ refused' = IF task[t].right /\ ~valid THEN refused \cup {c} ELSE refused
        /\ Becomes(t, [pc |-> IF valid THEN "list" ELSE "clear", call |-> c])
        /\ UNCHANGED <<boxVars, callVars, faults, stuck, panicked, deletedBy, revived, typed, silent, broken>>

(* A failing SELECT counts as no PIN: nothing happens, the buffer stays.    *)
PinLookupFails(t) ==
    /\ At(t, "verify")
    /\ Fault
    /\ stuck' = stuck \cup {task[t].call}
    /\ Becomes(t, Idle)
    /\ UNCHANGED <<boxVars, callVars, panicked, deletedBy, revived, typed, refused, silent, broken>>

PinList(t) ==
    /\ At(t, "list")
    /\ \E l \in list_messages_for_mailbox \cup {<<>>} :
          /\ Listed(l)
          /\ Becomes(t, [pc |-> "open", call |-> task[t].call, entry |-> Playback(l)])
    /\ UNCHANGED <<boxVars, callVars, historyVars>>

(* The call, if it is still there, goes over to playback; the greeting is   *)
(* started in any case.                                                     *)
PinOpens(t) ==
    LET c == task[t].call IN
    /\ At(t, "open")
    /\ active' = IF IsActive(c) THEN [active EXCEPT ![c] = task[t].entry] ELSE active
    /\ prompts' = IF greeting # NoKey THEN prompts \cup {<<c, GREETING>>} ELSE prompts
    /\ Becomes(t, Idle)
    /\ UNCHANGED <<boxVars, pending, media, faults, historyVars>>

handle_info(t) ==
    \/ InfoArrives(t)
    \/ MoveCursor(t) \/ play_message_at_index(t)
    \/ ReadEntry(t) \/ DeleteRow(t) \/ SaveRow(t) \/ RowFails(t) \/ DropEntry(t)
    \/ PushDigit(t) \/ ClearBuffer(t)
    \/ PinRead(t) \/ PinVerify(t) \/ PinLookupFails(t) \/ PinList(t) \/ PinOpens(t)

-----------------------------------------------------------------------------
(* api/voicemail.rs: the mailbox and its messages.                          *)

(* The row of the mailbox; the account it belongs to is taken to exist.     *)
create_box ==
    /\ ops < MaxOps /\ ops' = ops + 1
    /\ box = "none"
    /\ box' \in {"enabled", "disabled"}
    /\ UNCHANGED <<status, pin, greeting, files, written, callVars, task, faults, historyVars>>

(* Columns that are not given stay; a greeting key is taken as it is.       *)
update_box ==
    /\ ops < MaxOps /\ ops' = ops + 1
    /\ box # "none"
    /\ \/ box' \in {"enabled", "disabled"} \ {box} /\ UNCHANGED <<greeting, broken>>
       \/ greeting' \in 1 .. written /\ broken' = TRUE /\ UNCHANGED box
    /\ UNCHANGED <<status, pin, files, written, callVars, task, faults,
                   stuck, panicked, deletedBy, revived, typed, refused, silent>>

(* A recording is stored (VoicemailDelivery).                               *)
MessageArrives ==
    /\ ops < MaxOps /\ ops' = ops + 1
    /\ box # "none"
    /\ \E m \in Messages :
          /\ status[m] = "none" /\ \A k \in 1 .. m - 1 : status[k] # "none"
          /\ status' = [status EXCEPT ![m] = "new"]
    /\ UNCHANGED <<box, pin, greeting, files, written, callVars, task, faults, historyVars>>

SetStatus(m, s) ==
    /\ ops < MaxOps /\ ops' = ops + 1
    /\ status[m] # "none"
    /\ status' = [status EXCEPT ![m] = s]
    /\ deletedBy' = [deletedBy EXCEPT ![m] = IF s = "deleted" THEN "api" ELSE "nobody"]
    /\ UNCHANGED <<box, pin, greeting, files, written, callVars, task, faults,
                   stuck, panicked, revived, typed, refused, silent, broken>>

update_message(m) == \E s \in {"new", "saved", "deleted"} : SetStatus(m, s)
delete_message(m) == SetStatus(m, "deleted")

-----------------------------------------------------------------------------
(* api/voicemail.rs: the greeting.                                          *)

(* Both operations begin by reading the key of the mailbox.                 *)
ReadsGreeting(t, l) ==
    /\ Arrives(t)
    /\ box # "none"
    /\ Becomes(t, [pc |-> l, call |-> NoCall, prev |-> greeting, key |-> NoKey])
    /\ UNCHANGED <<boxVars, callVars, faults, historyVars>>

UploadArrives(t) == ReadsGreeting(t, "write")
DeleteArrives(t) == ReadsGreeting(t, "unlink")

(* A file that is no 8 kHz WAV of at most a minute is answered 400.         *)
UploadRejected(t) ==
    /\ At(t, "write")
    /\ Becomes(t, Idle)
    /\ UNCHANGED <<boxVars, callVars, faults, historyVars>>

write_message(t) ==
    /\ At(t, "write")
    /\ written < MaxFiles
    /\ written' = written + 1
    /\ files' = files \cup {written + 1}
    /\ Becomes(t, [pc |-> "unlink", call |-> NoCall, prev |-> task[t].prev, key |-> written + 1])
    /\ UNCHANGED <<status, box, pin, greeting, callVars, faults, historyVars>>

(* The file the key named when it was read goes.                            *)
UnlinkPrevious(t) ==
    /\ At(t, "unlink")
    /\ files' = files \ {task[t].prev}
    /\ Goto(t, "set_key")
    /\ UNCHANGED <<status, box, pin, greeting, written, callVars, faults, historyVars>>

\* Faulty variant: a deletion leaves the key.
SetNewKeyOnly(t) ==
    /\ At(t, "set_key")
    /\ greeting' = IF task[t].key = NoKey THEN greeting ELSE task[t].key
    /\ Becomes(t, Idle)
    /\ UNCHANGED <<status, box, pin, files, written, callVars, faults, historyVars>>

(* The key of the mailbox becomes the new file's, or NULL.                  *)
SetGreetingKey(t) ==
    /\ At(t, "set_key")
    /\ greeting' = task[t].key
    /\ Becomes(t, Idle)
    /\ UNCHANGED <<status, box, pin, files, written, callVars, faults, historyVars>>

SetGreetingKeyFails(t) ==
    /\ At(t, "set_key")
    /\ Fault
    /\ broken' = TRUE
    /\ Becomes(t, Idle)
    /\ UNCHANGED <<boxVars, callVars, stuck, panicked, deletedBy, revived, typed, refused, silent>>

(* What the two have in common: the file goes, then the key changes.        *)
ReplacesGreeting(t) == UnlinkPrevious(t) \/ SetGreetingKey(t) \/ SetGreetingKeyFails(t)

upload_greeting(t) ==
    UploadArrives(t) \/ UploadRejected(t) \/ write_message(t) \/ ReplacesGreeting(t)
delete_greeting(t) == DeleteArrives(t) \/ ReplacesGreeting(t)

-----------------------------------------------------------------------------
(* Everything but the tables and the files is lost.                         *)
Restart ==
    /\ Fault
    /\ active' = [c \in Calls |-> NoCall]
    /\ pending' = {} /\ media' = {} /\ prompts' = {}
    /\ task' = [t \in Tasks |-> Idle]
    /\ typed' = [c \in Calls |-> <<>>]
    /\ broken' = (broken \/ \E t \in Tasks : task[t].pc = "set_key")
    /\ UNCHANGED <<boxVars, ops, stuck, panicked, deletedBy, revived, refused, silent>>

Busy(t, c) == task[t] # Idle /\ task[t].call = c

Step ==
    \/ \E t \in Tasks :
          \/ handle_access_invite(t) \/ handle_bye(t) \/ handle_info(t)
          \/ upload_greeting(t) \/ delete_greeting(t)
    \/ \E p \in prompts : play_wav(p)
    \/ create_box \/ update_box \/ MessageArrives
    \/ \E m \in Messages : update_message(m) \/ delete_message(m)
    \/ Restart

Next ==
    /\ Step
    /\ overlapped' = overlapped \cup
           {c \in Calls : \E t, u \in Tasks : t # u /\ Busy(t, c)' /\ Busy(u, c)'}

Spec == Init /\ [][Next]_vars

-----------------------------------------------------------------------------
(* The state keeps its shape; the cursor of a call is a natural number.     *)
TypeOK ==
    /\ status \in [Messages -> {"none", "new", "saved", "deleted"}]
    /\ box \in {"none", "enabled", "disabled"}
    /\ pin \in Pins
    /\ written \in 0 .. MaxFiles
    /\ greeting \in 1 .. written \cup {NoKey}
    /\ files \subseteq 1 .. written
    /\ active \in [Calls -> EntryType \cup {NoCall}]
    /\ pending \subseteq Calls
    /\ media \subseteq Calls
    /\ typed \in [Calls -> Seq(MenuDigits \cup Digits)]
    /\ deletedBy \in [Messages -> Calls \cup {"api", "nobody"}]

(* When no request is in progress, every media session belongs to an active *)
(* call and no Call-ID is still pending, however INVITEs, INFOs and BYEs of *)
(* a call overlapped.  Left out are calls of which a statement failed: the  *)
(* error is returned before the candidate is discarded.                     *)
NothingLeaks ==
    Quiescent => /\ \A c \in media : IsActive(c)
                 /\ pending \subseteq stuck

(* While the requests of a call do not overlap, its cursor stays on a       *)
(* message of its list, no handler panics on it, and the list holds no      *)
(* message the call itself deleted.                                         *)
CursorOnMessage ==
    /\ panicked \subseteq overlapped
    /\ \A c \in Calls \ overlapped : InPlayback(c) =>
          /\ active[c].index < Len(active[c].list) \/ active[c].list = <<>>
          /\ Quiescent => \A i \in 1 .. Len(active[c].list) : deletedBy[active[c].list[i]] # c

(* A call brings a message back that it had deleted itself only if its      *)
(* requests overlapped.  (One that was deleted elsewhere it may bring back: *)
(* its list is not refreshed and the UPDATE has no condition on status.)    *)
OwnDeletesLast == revived \subseteq overlapped

(* The PIN of the mailbox, typed and closed with #, is accepted, unless     *)
(* requests of the call overlapped or a lookup failed.                      *)
RightPinOpens == refused \subseteq overlapped \cup stuck

(* A message the owner moves to is played as long as the call lasts:        *)
(* play_wav finds the media session of the call.                            *)
MessageIsPlayed == \A p \in silent : p[2] = GREETING

(* When no request is in progress the greeting key names a file that        *)
(* exists, even if uploads and deletions overlapped: whoever deletes a file *)
(* sets the key afterwards, and a key is set only by the upload that wrote  *)
(* its file.  Left out are failing updates and keys set through update_box. *)
GreetingExists == Quiescent /\ ~broken => greeting \in files \cup {NoKey}
=============================================================================
