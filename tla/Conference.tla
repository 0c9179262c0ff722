----------------------------- MODULE Conference -----------------------------
(***************************************************************************)
(* Conference rooms: Conference::handle_invite, handle_bye, handle_cancel  *)
(* and handle_info (backend/src/sip/conference.rs) over the rooms, receive *)
(* loops and mixers of conference_media.rs and the table                   *)
(* sip_conference_participants.                                            *)
(*                                                                         *)
(* A task is the handling of one datagram and runs once.  A participant is *)
(* named by the task that created it in ConferenceMedia::join, and so is a *)
(* mixer by the task whose join spawned it.  There is no transaction       *)
(* layer: a retransmitted INVITE is one more task of the same call.        *)
(* INVITEs refused before the room is counted (unknown caller, PIN) and    *)
(* those with an unusable offer change nothing and are left out.           *)
(***************************************************************************)
EXTENDS Naturals, FiniteSets

CONSTANTS
    Rooms,        \* room ids
    Calls,        \* Call-IDs
    Tasks,        \* handlers of datagrams
    RoomOf,       \* the room a Call-ID is addressed to
    CallOf,       \* the Call-ID of each task
    Capacity,     \* sip_conference_rooms.max_participants
    MaxInvites,   \* bound: how often the INVITE of a call is received
    Faults,       \* bound: calls for which the insert of the participant may fail
    RtpKeys,      \* bound: calls on which *6 is also pressed over RTP
    None          \* absence of a participant or a JoinHandle

ASSUME RoomOfAssumption == RoomOf \in [Calls -> Rooms]
ASSUME ConfCallOfAssumption == CallOf \in [Tasks -> Calls]
ASSUME CapacityAssumption == Capacity \in Nat \ {0}
ASSUME NoneAssumption == None \notin Tasks

VARIABLES
    active,     \* Conference.active
    seat,       \* Room.participants: Call-ID to participant
    rooms,      \* the keys of ConferenceMedia.rooms
    handle,     \* Room.mixer_task
    mixing,     \* mixer tasks that run
    listening,  \* participants whose receive loop, and so socket, lives
    muted,      \* participants with the muted flag set
    heard,      \* whom each participant was last sent the audio of
    row,        \* sip_conference_participants: "none", "in" or "left"
    rowMuted,   \* calls whose row says muted
    kind,       \* what each task handles
    pc,         \* where each task is
    flag,       \* the mute state an INFO task saw
    refused,    \* tasks answered 486 Busy Here
    overlapped  \* history: rooms where two joins were between count and insert

mediaVars == <<seat, rooms, handle, mixing, listening, muted, heard>>
rowVars == <<row, rowMuted>>
taskVars == <<kind, pc, flag, refused, overlapped>>
vars == <<active, seat, rooms, handle, mixing, listening, muted, heard, row, rowMuted,
          kind, pc, flag, refused, overlapped>>

PC == {"idle", "count", "bind", "enter", "insert", "activate", "bye", "leave", "close",
       "toggle", "save", "done"}

Goto(t, l) == pc' = [pc EXCEPT ![t] = l]
Room(t) == RoomOf[CallOf[t]]
Seated(r) == {seat[c] : c \in {d \in Calls : RoomOf[d] = r}} \ {None}
Occupied(r) == \E c \in Calls : RoomOf[c] = r /\ seat[c] # None
(* Whether nobody but call c is seated in its room                         *)
Alone(c) == \A d \in Calls : RoomOf[d] = RoomOf[c] /\ seat[d] # None => d = c
Invites(c) == {t \in Tasks : kind[t] = "invite" /\ CallOf[t] = c}
Present(r) == {c \in Calls : RoomOf[c] = r /\ row[c] = "in"}
Joining(r) == {t \in Tasks : Room(t) = r /\ pc[t] \in {"bind", "enter", "insert"}}

-----------------------------------------------------------------------------
(* handle_invite                                                           *)

RecvInvite(t) ==
    /\ pc[t] = "idle"
    /\ Cardinality(Invites(CallOf[t])) < MaxInvites
    /\ kind' = [kind EXCEPT ![t] = "invite"]
    /\ Goto(t, "count")
    /\ UNCHANGED <<active, mediaVars, rowVars, flag, refused, overlapped>>

(* Faulty variant: one participant too many                                *)
CountOffByOne(t) ==
    /\ pc[t] = "count"
    /\ IF Cardinality(Present(Room(t))) > Capacity
       THEN Goto(t, "done") /\ refused' = refused \cup {t} /\ UNCHANGED overlapped
       ELSE /\ Goto(t, "bind")
            /\ overlapped' = IF Joining(Room(t)) # {} THEN overlapped \cup {Room(t)}
                             ELSE overlapped
            /\ UNCHANGED refused
    /\ UNCHANGED <<active, mediaVars, rowVars, kind, flag>>

(* SELECT COUNT( * ) ... left_at IS NULL, and 486 when the room is full     *)
Count(t) ==
    /\ pc[t] = "count"
    /\ IF Cardinality(Present(Room(t))) >= Capacity
       THEN Goto(t, "done") /\ refused' = refused \cup {t} /\ UNCHANGED overlapped
       ELSE /\ Goto(t, "bind")
            /\ overlapped' = IF Joining(Room(t)) # {} THEN overlapped \cup {Room(t)}
                             ELSE overlapped
            /\ UNCHANGED refused
    /\ UNCHANGED <<active, mediaVars, rowVars, kind, flag>>

(* ConferenceMedia::join up to the lock: a socket with its receive loop,   *)
(* or 500 when no port is free                                             *)
Bind(t) ==
    /\ pc[t] = "bind"
    /\ \/ listening' = listening \cup {t} /\ Goto(t, "enter")
       \/ UNCHANGED listening /\ Goto(t, "done")
    /\ UNCHANGED <<active, seat, rooms, handle, mixing, muted, heard, rowVars, kind, flag,
                   refused, overlapped>>

(* Faulty variant: every participant starts a mixer                        *)
EnterWithMixer(t) ==
    /\ pc[t] = "enter"
    /\ rooms' = rooms \cup {Room(t)}
    /\ seat' = [seat EXCEPT ![CallOf[t]] = t]
    /\ handle' = [handle EXCEPT ![Room(t)] = t]
    /\ mixing' = mixing \cup {t}
    /\ Goto(t, "insert")
    /\ UNCHANGED <<active, listening, muted, heard, rowVars, kind, flag, refused, overlapped>>

(* Under the lock: the first participant creates the room and its mixer;   *)
(* a participant already seated for this call is replaced                  *)
Enter(t) ==
    /\ pc[t] = "enter"
    /\ rooms' = rooms \cup {Room(t)}
    /\ seat' = [seat EXCEPT ![CallOf[t]] = t]
    /\ IF handle[Room(t)] = None
       THEN handle' = [handle EXCEPT ![Room(t)] = t] /\ mixing' = mixing \cup {t}
       ELSE UNCHANGED <<handle, mixing>>
    /\ Goto(t, "insert")
    /\ UNCHANGED <<active, listening, muted, heard, rowVars, kind, flag, refused, overlapped>>

(* INSERT ... ON DUPLICATE KEY UPDATE; an error is only logged             *)
Insert(t) ==
    /\ pc[t] = "insert"
    /\ \/ /\ row' = [row EXCEPT ![CallOf[t]] = "in"]
          /\ rowMuted' = rowMuted \ {CallOf[t]}
       \/ /\ CallOf[t] \in Faults
          /\ UNCHANGED rowVars
    /\ Goto(t, "activate")
    /\ UNCHANGED <<active, mediaVars, kind, flag, refused, overlapped>>

(* active.insert and 200 OK                                                *)
Activate(t) ==
    /\ pc[t] = "activate"
    /\ active' = active \cup {CallOf[t]}
    /\ Goto(t, "done")
    /\ UNCHANGED <<mediaVars, rowVars, kind, flag, refused, overlapped>>

-----------------------------------------------------------------------------
(* BYE and CANCEL, once the INVITE is out; without an entry in active the  *)
(* proxy answers them and the conference is not told                       *)
RecvBye(t) ==
    /\ pc[t] = "idle"
    /\ Invites(CallOf[t]) # {}
    /\ kind' = [kind EXCEPT ![t] = "bye"]
    /\ Goto(t, IF CallOf[t] \in active THEN "bye" ELSE "done")
    /\ UNCHANGED <<active, mediaVars, rowVars, flag, refused, overlapped>>

Bye(t) ==
    /\ pc[t] = "bye"
    /\ active' = active \ {CallOf[t]}
    /\ Goto(t, IF CallOf[t] \in active THEN "leave" ELSE "done")
    /\ UNCHANGED <<mediaVars, rowVars, kind, flag, refused, overlapped>>

(* ConferenceMedia::leave, under the lock: the last one out stops the mixer *)
(* and removes the room                                                    *)
Leave(t) ==
    LET c == CallOf[t] r == Room(t) IN
    /\ pc[t] = "leave"
    /\ Goto(t, "close")
    /\ seat' = [seat EXCEPT ![c] = None]
    /\ listening' = listening \ {seat[c]}
    /\ IF Alone(c)
       THEN /\ mixing' = mixing \ {handle[r]}
            /\ handle' = [handle EXCEPT ![r] = None]
            /\ rooms' = rooms \ {r}
       ELSE UNCHANGED <<rooms, handle, mixing>>
    /\ UNCHANGED <<active, muted, heard, rowVars, kind, flag, refused, overlapped>>

Close(t) ==
    /\ pc[t] = "close"
    /\ row' = [row EXCEPT ![CallOf[t]] = IF @ = "in" THEN "left" ELSE @]
    /\ Goto(t, "done")
    /\ UNCHANGED <<active, mediaVars, rowMuted, kind, flag, refused, overlapped>>

-----------------------------------------------------------------------------
(* Mute: an INFO or an RTP event that completes *6                         *)

Flip(p) == muted' = IF p \in muted THEN muted \ {p} ELSE muted \cup {p}

RecvInfo(t) ==
    /\ pc[t] = "idle"
    /\ CallOf[t] \in active
    /\ kind' = [kind EXCEPT ![t] = "info"]
    /\ Goto(t, "toggle")
    /\ UNCHANGED <<active, mediaVars, rowVars, flag, refused, overlapped>>

Toggle(t) ==
    LET p == seat[CallOf[t]] IN
    /\ pc[t] = "toggle"
    /\ \/ /\ p # None
          /\ Flip(p)
          /\ flag' = [flag EXCEPT ![t] = p \notin muted]
          /\ Goto(t, "save")
       \/ /\ p = None
          /\ Goto(t, "done")
          /\ UNCHANGED <<muted, flag>>
    /\ UNCHANGED <<active, seat, rooms, handle, mixing, listening, heard, rowVars, kind,
                   refused, overlapped>>

SaveMute(t) ==
    /\ pc[t] = "save"
    /\ rowMuted' = IF row[CallOf[t]] = "none" THEN rowMuted
                   ELSE IF flag[t] THEN rowMuted \cup {CallOf[t]}
                   ELSE rowMuted \ {CallOf[t]}
    /\ Goto(t, "done")
    /\ UNCHANGED <<active, mediaVars, row, kind, flag, refused, overlapped>>

(* A receive loop decodes *6 itself and tells nobody                       *)
RtpToggle(p) ==
    /\ CallOf[p] \in RtpKeys
    /\ p \in listening
    /\ Flip(p)
    /\ UNCHANGED <<active, seat, rooms, handle, mixing, listening, heard, rowVars, taskVars>>

-----------------------------------------------------------------------------
mix_for_receiver(S, p) == (S \ {p}) \ muted

(* Faulty variant: a mixer that finds a single participant returns too     *)
MixerTickNeedsTwo(m) ==
    LET S == Seated(Room(m)) IN
    /\ m \in mixing
    /\ heard' = [p \in Tasks |-> IF p \in S THEN mix_for_receiver(S, p) ELSE heard[p]]
    /\ mixing' = IF Cardinality(S) < 2 THEN mixing \ {m} ELSE mixing
    /\ UNCHANGED <<active, seat, rooms, handle, listening, muted, rowVars, taskVars>>

(* One tick of run_mixer_loop: everyone in the room is sent the others; a  *)
(* mixer that finds its room gone or empty returns.  Every participant is  *)
(* taken to have sent a frame, from which its address was learned.         *)
MixerTick(m) ==
    LET S == Seated(Room(m)) IN
    /\ m \in mixing
    /\ heard' = [p \in Tasks |-> IF p \in S THEN mix_for_receiver(S, p) ELSE heard[p]]
    /\ mixing' = IF S = {} THEN mixing \ {m} ELSE mixing
    /\ UNCHANGED <<active, seat, rooms, handle, listening, muted, rowVars, taskVars>>

(* Faulty variant: the rows of the lost calls stay open                    *)
RestartKeepsRows ==
    /\ \E t \in Tasks : pc[t] # "idle"
    /\ active' = {}
    /\ seat' = [c \in Calls |-> None]
    /\ rooms' = {}
    /\ handle' = [r \in Rooms |-> None]
    /\ mixing' = {}
    /\ listening' = {}
    /\ muted' = {}
    /\ pc' = [t \in Tasks |-> IF pc[t] = "idle" THEN "idle" ELSE "done"]
    /\ UNCHANGED <<heard, row, rowMuted, kind, flag, refused, overlapped>>

(* The process starts again: reconcile_active_on_startup closes the rows   *)
Restart ==
    /\ \E t \in Tasks : pc[t] # "idle"
    /\ active' = {}
    /\ seat' = [c \in Calls |-> None]
    /\ rooms' = {}
    /\ handle' = [r \in Rooms |-> None]
    /\ mixing' = {}
    /\ listening' = {}
    /\ muted' = {}
    /\ row' = [c \in Calls |-> IF row[c] = "in" THEN "left" ELSE row[c]]
    /\ pc' = [t \in Tasks |-> IF pc[t] = "idle" THEN "idle" ELSE "done"]
    /\ UNCHANGED <<heard, rowMuted, kind, flag, refused, overlapped>>

-----------------------------------------------------------------------------
Init ==
    /\ active = {}
    /\ seat = [c \in Calls |-> None]
    /\ rooms = {}
    /\ handle = [r \in Rooms |-> None]
    /\ mixing = {}
    /\ listening = {}
    /\ muted = {}
    /\ heard = [t \in Tasks |-> {}]
    /\ row = [c \in Calls |-> "none"]
    /\ rowMuted = {}
    /\ kind = [t \in Tasks |-> "none"]
    /\ pc = [t \in Tasks |-> "idle"]
    /\ flag = [t \in Tasks |-> FALSE]
    /\ refused = {}
    /\ overlapped = {}

Receive(t) == RecvInvite(t) \/ RecvBye(t) \/ RecvInfo(t)

Step(t) ==
    \/ Count(t) \/ Bind(t) \/ Enter(t) \/ Insert(t) \/ Activate(t)
    \/ Bye(t) \/ Leave(t) \/ Close(t) \/ Toggle(t) \/ SaveMute(t)

Next ==
    \/ \E t \in Tasks : Receive(t) \/ Step(t) \/ RtpToggle(t) \/ MixerTick(t)
    \/ Restart

(* Tasks, which have finitely many steps each, run to their next await, and *)
(* a mixer's interval keeps ticking                                        *)
Fairness == WF_vars(\E t \in Tasks : Step(t)) /\ \A m \in Tasks : WF_vars(MixerTick(m))

Spec == Init /\ [][Next]_vars /\ Fairness

-----------------------------------------------------------------------------
(* Properties                                                              *)

(* Every map, set and position has a value of the expected kind.           *)
TypeOK ==
    /\ active \subseteq Calls
    /\ seat \in [Calls -> Tasks \cup {None}]
    /\ rooms \subseteq Rooms
    /\ handle \in [Rooms -> Tasks \cup {None}]
    /\ mixing \subseteq Tasks
    /\ listening \subseteq Tasks
    /\ muted \subseteq Tasks
    /\ heard \in [Tasks -> SUBSET Tasks]
    /\ row \in [Calls -> {"none", "in", "left"}]
    /\ rowMuted \subseteq Calls
    /\ kind \in [Tasks -> {"none", "invite", "bye", "info"}]
    /\ pc \in [Tasks -> PC]
    /\ flag \in [Tasks -> BOOLEAN]
    /\ refused \subseteq Tasks
    /\ overlapped \subseteq Rooms

(* join and leave keep one mixer per room in use: a room is in the map     *)
(* exactly while somebody is seated in it, its handle then names a mixer   *)
(* that runs for it, and no other mixer runs.                              *)
RoomHasOneMixer ==
    /\ \A r \in Rooms : (r \in rooms <=> Occupied(r)) /\ (r \in rooms <=> handle[r] # None)
    /\ \A r \in Rooms : handle[r] # None => handle[r] \in mixing /\ Room(handle[r]) = r
    /\ \A m \in mixing : handle[Room(m)] = m

(* Whoever is seated for a call can be heard: it was created for that call *)
(* and its receive loop has not been aborted, whichever BYE and INVITE of  *)
(* the room interleaved.                                                   *)
SeatListens ==
    \A c \in Calls : seat[c] # None => seat[c] \in listening /\ CallOf[seat[c]] = c

(* The capacity check of handle_invite is not atomic with the insert, so   *)
(* it bounds a room only while its joins do not overlap; then it does.     *)
CapacityWithoutOverlap ==
    \A r \in Rooms \ overlapped : Cardinality(Present(r)) <= Capacity

(* When the handlers of a call that was invited once are through, an open  *)
(* row means that it has a participant in the room and a closed one that   *)
(* it has none, also after a restart: the participant list of the API      *)
(* shows nobody who is gone and misses only those whose insert failed.     *)
RowsMatchSeats ==
    \A c \in Calls :
        /\ Cardinality(Invites(c)) = 1
        /\ \A t \in Tasks : CallOf[t] = c => pc[t] \in {"idle", "done"}
        => (row[c] = "in" => seat[c] # None) /\ (row[c] = "left" => seat[c] = None)

(* Two calls that stay in a room are mixed: each is sent the other's audio *)
(* unless that one is muted or one of them leaves.  The mixer that does it *)
(* may have been started by somebody who left.                             *)
EveryoneIsHeard ==
    \A c, d \in Calls :
        LET Together == c # d /\ RoomOf[c] = RoomOf[d] /\ seat[c] # None /\ seat[d] # None
                        /\ seat[d] \notin muted
        IN Together ~> (~Together \/ seat[d] \in heard[seat[c]])
=============================================================================
