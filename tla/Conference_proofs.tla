--------------------------- MODULE Conference_proofs --------------------------
(***************************************************************************)
(* Proofs about Conference for any number of rooms, calls and tasks: every *)
(* room in use has exactly one mixer, everyone seated has a live receive   *)
(* loop, a room whose joins never overlapped keeps its capacity, and the   *)
(* row of a call that was invited once agrees with its seat.               *)
(***************************************************************************)
EXTENDS Conference, TLAPS

(* Leaves without arithmetic go to Zenon; the others name SMT.             *)
USE ZenonT(30)

(* The control flow of a handler: from position l it may go to m.          *)
Follows(l, m) ==
    \/ l = "idle" /\ m \in {"count", "bye", "toggle", "done"}
    \/ l = "count" /\ m \in {"bind", "done"}
    \/ l = "bind" /\ m \in {"enter", "done"}
    \/ l = "enter" /\ m = "insert"
    \/ l = "insert" /\ m = "activate"
    \/ l = "activate" /\ m = "done"
    \/ l = "bye" /\ m \in {"leave", "done"}
    \/ l = "leave" /\ m = "close"
    \/ l = "close" /\ m = "done"
    \/ l = "toggle" /\ m \in {"save", "done"}
    \/ l = "save" /\ m = "done"

(* A step of a handler moves that handler along its control flow, and      *)
(* touches the row, the participant and the entry of no other call.        *)
LEMMA TaskMoves ==
    ASSUME TypeOK, NEW t \in Tasks, Receive(t) \/ Step(t)
    PROVE  /\ pc' \in [Tasks -> PC] /\ Follows(pc[t], pc'[t])
           /\ \A x \in Tasks \ {t} : pc'[x] = pc[x] /\ kind'[x] = kind[x]
           /\ Step(t) => kind' = kind
           /\ \A c \in Calls \ {CallOf[t]} :
                  row'[c] = row[c] /\ seat'[c] = seat[c] /\ (c \in active' <=> c \in active)
<1> USE DEF Receive, RecvInvite, RecvBye, RecvInfo, Step, Count, Bind, Enter, Insert, Activate, Bye,
            Leave, Close, Toggle, SaveMute, Goto
<1>1. \E l \in PC : pc' = [pc EXCEPT ![t] = l] /\ Follows(pc[t], l)
  BY ZenonT(60) DEF PC, Follows
<1>2. \A x \in Tasks \ {t} : kind'[x] = kind[x]
  BY SMTT(30) DEF TypeOK
<1>3. \A c \in Calls \ {CallOf[t]} :
          row'[c] = row[c] /\ seat'[c] = seat[c] /\ (c \in active' <=> c \in active)
  BY ConfCallOfAssumption, SMTT(30) DEF TypeOK, rowVars, mediaVars
<1>4. Step(t) => kind' = kind
  BY ZenonT(60)
<1> HIDE DEF Receive, RecvInvite, RecvBye, RecvInfo, Step, Count, Bind, Enter, Insert, Activate, Bye,
             Leave, Close, Toggle, SaveMute, Goto
<1>5. pc' \in [Tasks -> PC] /\ Follows(pc[t], pc'[t]) /\ \A x \in Tasks \ {t} : pc'[x] = pc[x]
  BY <1>1, SMTT(30) DEF TypeOK
<1> QED BY <1>2, <1>3, <1>4, <1>5

(* Every step keeps the types.                                             *)
LEMMA TypeStep ==
    ASSUME TypeOK, NEW t \in Tasks, Receive(t) \/ Step(t) \/ RtpToggle(t) \/ MixerTick(t)
    PROVE  TypeOK'
<1> USE ConfCallOfAssumption, RoomOfAssumption
    DEF Receive, RecvInvite, RecvBye, RecvInfo, Step, Count, Bind, Enter, Insert, Activate, Bye,
        Leave, Close, Toggle, SaveMute, RtpToggle, MixerTick, mediaVars, rowVars, taskVars
<1>1. /\ active' \subseteq Calls /\ rooms' \subseteq Rooms /\ overlapped' \subseteq Rooms
      /\ mixing' \subseteq Tasks /\ listening' \subseteq Tasks /\ refused' \subseteq Tasks
  BY SMTT(30) DEF TypeOK, Room
<1>2. seat' \in [Calls -> Tasks \cup {None}] /\ handle' \in [Rooms -> Tasks \cup {None}]
  BY SMTT(30) DEF TypeOK, Room
<1>3. /\ kind' \in [Tasks -> {"none", "invite", "bye", "info"}]
      /\ row' \in [Calls -> {"none", "in", "left"}] /\ rowMuted' \subseteq Calls
  BY SMTT(30) DEF TypeOK
<1>4. muted' \subseteq Tasks /\ heard' \in [Tasks -> SUBSET Tasks]
  BY SMTT(30) DEF TypeOK, Flip, Seated, mix_for_receiver
<1>5. flag' \in [Tasks -> BOOLEAN]
  BY ZenonT(60) DEF TypeOK
<1> HIDE DEF Receive, RecvInvite, RecvBye, RecvInfo, Step, Count, Bind, Enter, Insert, Activate, Bye,
            Leave, Close, Toggle, SaveMute, RtpToggle, MixerTick
<1>6. pc' \in [Tasks -> PC]
  BY TaskMoves DEF TypeOK, RtpToggle, MixerTick, taskVars
<1> QED BY <1>1, <1>2, <1>3, <1>4, <1>5, <1>6, SMTT(30) DEF TypeOK

-----------------------------------------------------------------------------
(* Rooms, seats and mixers.  A task that is about to take a seat has its   *)
(* receive loop already, and nobody is seated before that.                 *)
SocketBeforeSeat ==
    /\ \A t \in Tasks : pc[t] = "enter" => t \in listening
    /\ \A c \in Calls : seat[c] # None =>
           pc[seat[c]] \notin {"idle", "count", "bind", "enter"}

(* The inductive invariant *)
MediaInv == TypeOK /\ RoomHasOneMixer /\ SeatListens /\ SocketBeforeSeat

(* A fresh server has no rooms.                                            *)
LEMMA MediaInitInv == Init => MediaInv
  BY RoomOfAssumption, ConfCallOfAssumption, NoneAssumption, SMTT(30)
     DEF Init, MediaInv, TypeOK, RoomHasOneMixer, SeatListens, SocketBeforeSeat, Occupied, Room, PC

(* What the rooms and seats depend on.                                     *)
LEMMA MediaFrame ==
    ASSUME MediaInv, UNCHANGED <<seat, rooms, handle, mixing, listening>>
    PROVE  RoomHasOneMixer' /\ SeatListens'
  BY DEF MediaInv, RoomHasOneMixer, SeatListens, Occupied, Room

(* Arrivals, rows and mute flags do not touch rooms and seats.             *)
LEMMA OtherStepInv ==
    ASSUME MediaInv, NEW t \in Tasks,
           Receive(t) \/ Count(t) \/ Insert(t) \/ Activate(t) \/ Bye(t) \/ Close(t)
             \/ Toggle(t) \/ SaveMute(t) \/ RtpToggle(t)
    PROVE  RoomHasOneMixer' /\ SeatListens' /\ SocketBeforeSeat'
<1>1. UNCHANGED <<seat, rooms, handle, mixing, listening>>
  BY ZenonT(60)
     DEF Receive, RecvInvite, RecvBye, RecvInfo, Count, Insert, Activate, Bye, Close, Toggle,
         SaveMute, RtpToggle, mediaVars
<1>2. \A x \in Tasks :
          /\ pc'[x] = "enter" => pc[x] = "enter"
          /\ pc'[x] \in {"idle", "count", "bind", "enter"} => pc[x] \in {"idle", "count", "bind", "enter"}
  <2>1. CASE RtpToggle(t) BY <2>1 DEF RtpToggle, taskVars
  <2>2. CASE ~RtpToggle(t)
    <3>1. Receive(t) \/ Step(t) BY <2>2 DEF Step
    <3>2. pc[t] # "bind"
      BY <2>2, ZenonT(60) DEF Receive, RecvInvite, RecvBye, RecvInfo, Count, Insert, Activate, Bye,
                              Close, Toggle, SaveMute
    <3> QED BY <3>1, <3>2, TaskMoves, SMTT(30) DEF MediaInv, Follows
  <2> QED BY <2>1, <2>2
<1>3. SocketBeforeSeat'
  BY <1>1, <1>2, SMTT(30) DEF MediaInv, TypeOK, SocketBeforeSeat
<1> QED BY <1>1, <1>3, MediaFrame

(* A new socket belongs to nobody who is seated.                           *)
LEMMA BindInv ==
    ASSUME MediaInv, NEW t \in Tasks, Bind(t)
    PROVE  RoomHasOneMixer' /\ SeatListens' /\ SocketBeforeSeat'
<1>1. /\ pc[t] = "bind" /\ UNCHANGED <<seat, rooms, handle, mixing>>
      /\ \/ listening' = listening \cup {t} /\ pc' = [pc EXCEPT ![t] = "enter"]
         \/ listening' = listening /\ pc' = [pc EXCEPT ![t] = "done"]
  BY DEF Bind, Goto
<1>2. RoomHasOneMixer' BY <1>1 DEF MediaInv, RoomHasOneMixer, Occupied, Room
<1>3. SeatListens' BY <1>1 DEF MediaInv, SeatListens
<1>4. SocketBeforeSeat' BY <1>1, SMTT(30) DEF MediaInv, SocketBeforeSeat, TypeOK
<1> QED BY <1>2, <1>3, <1>4

(* Taking a seat opens the room and starts its mixer together, or joins a  *)
(* room whose mixer runs.                                                  *)
LEMMA EnterInv ==
    ASSUME MediaInv, NEW t \in Tasks, Enter(t)
    PROVE  RoomHasOneMixer' /\ SeatListens' /\ SocketBeforeSeat'
<1>1. /\ pc[t] = "enter" /\ pc' = [pc EXCEPT ![t] = "insert"] /\ listening' = listening
      /\ seat' = [seat EXCEPT ![CallOf[t]] = t] /\ rooms' = rooms \cup {Room(t)}
  BY DEF Enter, Goto
<1>2. /\ t # None /\ CallOf[t] \in Calls /\ RoomOf[CallOf[t]] = Room(t)
      /\ \A x \in Tasks : Room(x) \in Rooms
  BY RoomOfAssumption, ConfCallOfAssumption, NoneAssumption DEF Room
<1>3. /\ Occupied(Room(t))'
      /\ \A r \in Rooms \ {Room(t)} : Occupied(r)' <=> Occupied(r)
  BY <1>1, <1>2 DEF Occupied, MediaInv, TypeOK
<1>4. RoomHasOneMixer'
  <2>1. CASE handle[Room(t)] = None
    <3>1. handle' = [handle EXCEPT ![Room(t)] = t] /\ mixing' = mixing \cup {t}
      BY <2>1 DEF Enter
    <3>2. \A r \in Rooms : (r \in rooms' <=> Occupied(r)') /\ (r \in rooms' <=> handle'[r] # None)
      BY <1>1, <1>2, <1>3, <3>1 DEF MediaInv, TypeOK, RoomHasOneMixer
    <3>3. \A r \in Rooms : handle'[r] # None => handle'[r] \in mixing' /\ Room(handle'[r]) = r
      BY <1>2, <3>1 DEF MediaInv, TypeOK, RoomHasOneMixer
    <3>4. \A m \in mixing : Room(m) # Room(t) /\ Room(m) \in Rooms /\ handle[Room(m)] = m
      BY <1>2, <2>1, NoneAssumption DEF MediaInv, TypeOK, RoomHasOneMixer
    <3>5. \A m \in mixing' : handle'[Room(m)] = m
      BY <1>2, <3>1, <3>4 DEF MediaInv, TypeOK
    <3> QED BY <3>2, <3>3, <3>5 DEF RoomHasOneMixer, Room
  <2>2. CASE handle[Room(t)] # None
    <3>1. handle' = handle /\ mixing' = mixing
      BY <2>2 DEF Enter
    <3> QED BY <1>1, <1>2, <1>3, <2>2, <3>1 DEF MediaInv, RoomHasOneMixer, Room
  <2> QED BY <2>1, <2>2
<1>5. SeatListens'
  BY <1>1, <1>2 DEF MediaInv, TypeOK, SeatListens, SocketBeforeSeat
<1>6. SocketBeforeSeat'
  BY <1>1, <1>2, SMTT(30) DEF MediaInv, TypeOK, SocketBeforeSeat
<1> QED BY <1>4, <1>5, <1>6

(* Leaving empties one seat; the last one out closes the room together     *)
(* with its mixer.                                                         *)
LEMMA LeaveInv ==
    ASSUME MediaInv, NEW t \in Tasks, Leave(t)
    PROVE  RoomHasOneMixer' /\ SeatListens' /\ SocketBeforeSeat'
<1>1. /\ pc[t] = "leave" /\ pc' = [pc EXCEPT ![t] = "close"]
      /\ seat' = [seat EXCEPT ![CallOf[t]] = None]
      /\ listening' = listening \ {seat[CallOf[t]]}
  BY DEF Leave, Goto
<1>2. /\ CallOf[t] \in Calls /\ RoomOf[CallOf[t]] = Room(t)
      /\ \A x \in Tasks : Room(x) \in Rooms
  BY RoomOfAssumption, ConfCallOfAssumption DEF Room
<1>3. /\ Occupied(Room(t))' <=> ~Alone(CallOf[t])
      /\ \A r \in Rooms \ {Room(t)} : Occupied(r)' <=> Occupied(r)
  BY <1>1, <1>2 DEF Occupied, Alone, MediaInv, TypeOK
<1>4. RoomHasOneMixer'
  <2>1. CASE Alone(CallOf[t])
    <3>1. /\ mixing' = mixing \ {handle[Room(t)]}
          /\ handle' = [handle EXCEPT ![Room(t)] = None]
          /\ rooms' = rooms \ {Room(t)}
      BY <2>1 DEF Leave
    <3>2. \A r \in Rooms : (r \in rooms' <=> Occupied(r)') /\ (r \in rooms' <=> handle'[r] # None)
      BY <1>2, <1>3, <2>1, <3>1 DEF MediaInv, TypeOK, RoomHasOneMixer
    <3>3. \A r \in Rooms : handle'[r] # None => handle'[r] \in mixing' /\ Room(handle'[r]) = r
      BY <1>2, <3>1 DEF MediaInv, TypeOK, RoomHasOneMixer
    <3>4. \A m \in mixing' : Room(m) # Room(t) /\ Room(m) \in Rooms /\ handle[Room(m)] = m
      BY <1>2, <3>1 DEF MediaInv, TypeOK, RoomHasOneMixer
    <3>5. \A m \in mixing' : handle'[Room(m)] = m
      BY <3>1, <3>4 DEF MediaInv, TypeOK
    <3> QED BY <3>2, <3>3, <3>5 DEF RoomHasOneMixer, Room
  <2>2. CASE ~Alone(CallOf[t])
    <3>1. rooms' = rooms /\ handle' = handle /\ mixing' = mixing
      BY <2>2 DEF Leave
    <3>2. Occupied(Room(t)) BY <1>2, <2>2 DEF Occupied, Alone
    <3> QED BY <1>2, <1>3, <2>2, <3>1, <3>2 DEF MediaInv, RoomHasOneMixer, Room
  <2> QED BY <2>1, <2>2
<1>5. SeatListens'
  BY <1>1, <1>2 DEF MediaInv, TypeOK, SeatListens
<1>6. SocketBeforeSeat'
  <2>1. \A x \in Tasks : pc'[x] = "enter" => x \in listening'
    BY <1>1, <1>2, NoneAssumption DEF MediaInv, TypeOK, SocketBeforeSeat
  <2>2. \A c \in Calls : seat'[c] # None => seat'[c] = seat[c]
    BY <1>1, <1>2 DEF MediaInv, TypeOK
  <2> QED BY <1>1, <2>1, <2>2, SMTT(30) DEF MediaInv, TypeOK, SocketBeforeSeat
<1> QED BY <1>4, <1>5, <1>6

(* A tick never ends a mixer, because a mixer only runs for a room in use. *)
LEMMA MixerTickInv ==
    ASSUME MediaInv, NEW m \in Tasks, MixerTick(m)
    PROVE  RoomHasOneMixer' /\ SeatListens' /\ SocketBeforeSeat'
<1>1. Room(m) \in rooms
  BY RoomOfAssumption, ConfCallOfAssumption, NoneAssumption DEF MediaInv, RoomHasOneMixer, Room, MixerTick
<1>2. PICK c \in Calls : RoomOf[c] = Room(m) /\ seat[c] # None
  BY <1>1 DEF MediaInv, TypeOK, RoomHasOneMixer, Occupied
<1>3. seat[c] \in Seated(Room(m))
  BY <1>2 DEF Seated
<1>4. UNCHANGED <<seat, rooms, handle, mixing, listening, pc>>
  BY <1>3 DEF MixerTick, taskVars
<1> QED BY <1>4, MediaFrame DEF MediaInv, SocketBeforeSeat

(* A restart closes every room with its mixers and receive loops.          *)
LEMMA ConfRestartInv == ASSUME MediaInv, Restart PROVE MediaInv'
<1> USE DEF MediaInv, Restart
<1>1. TypeOK' BY SMTT(30) DEF TypeOK, PC
<1>2. RoomHasOneMixer' BY SMTT(30) DEF RoomHasOneMixer, Occupied, Room
<1>3. SeatListens' /\ SocketBeforeSeat' BY SMTT(30) DEF SeatListens, SocketBeforeSeat
<1> QED BY <1>1, <1>2, <1>3

(* MediaInv is an inductive invariant of the conference.                   *)
THEOREM ConferenceInvariance == Spec => []MediaInv
<1>1. ASSUME MediaInv, [Next]_vars PROVE MediaInv'
  <2>1. CASE UNCHANGED vars
    <3>1. TypeOK' BY <1>1, <2>1 DEF MediaInv, TypeOK, vars
    <3> QED BY <1>1, <2>1, <3>1, MediaFrame DEF MediaInv, SocketBeforeSeat, vars
  <2>2. ASSUME NEW t \in Tasks, Receive(t) \/ Step(t) \/ RtpToggle(t) \/ MixerTick(t)
        PROVE  MediaInv'
    <3>1. TypeOK' BY <1>1, <2>2, TypeStep DEF MediaInv
    <3> QED BY <1>1, <2>2, <3>1, OtherStepInv, BindInv, EnterInv, LeaveInv, MixerTickInv
            DEF Step, MediaInv
  <2> QED BY <1>1, <2>1, <2>2, ConfRestartInv DEF Next
<1> QED BY <1>1, MediaInitInv, PTL DEF Spec

(* A room in use has exactly one running mixer and an unused one has none, *)
(* however joins, departures and restarts interleave.                      *)
THEOREM OneMixer == Spec => []RoomHasOneMixer
<1>1. MediaInv => RoomHasOneMixer BY DEF MediaInv
<1> QED BY ConferenceInvariance, <1>1, PTL

(* Everyone seated in a room has a live receive loop of its own call.      *)
THEOREM SeatedIsLive == Spec => []SeatListens
<1>1. MediaInv => SeatListens BY DEF MediaInv
<1> QED BY ConferenceInvariance, <1>1, PTL

-----------------------------------------------------------------------------
(* The row of a call that was invited at most once follows its handlers.   *)
AtMostOnce(c) == \A t, u \in Invites(c) : t = u
Departing(c) == {t \in Tasks : CallOf[t] = c /\ pc[t] \in {"leave", "close"}}

(* What a task can be doing.                                               *)
KindFits ==
    \A t \in Tasks :
        /\ pc[t] = "idle" => kind[t] = "none"
        /\ pc[t] \in {"count", "bind", "enter", "insert", "activate"} => kind[t] = "invite"
        /\ pc[t] \in {"bye", "leave", "close"} => kind[t] = "bye"
        /\ pc[t] \in {"toggle", "save"} => kind[t] = "info"

(* A call that is invited once is not invited yet, being set up by task t,  *)
(* in the room, being ended by task t, or gone.                            *)
Through(c) == Invites(c) # {} /\ \A t \in Invites(c) : pc[t] = "done"

Uninvited(c) ==
    Invites(c) = {} /\ Departing(c) = {} /\ c \notin active /\ row[c] = "none" /\ seat[c] = None

SettingUp(c, t) ==
    /\ Invites(c) = {t} /\ Departing(c) = {} /\ c \notin active
    /\ \/ pc[t] \in {"count", "bind", "enter"} /\ row[c] = "none" /\ seat[c] = None
       \/ pc[t] = "insert" /\ row[c] = "none" /\ seat[c] # None
       \/ pc[t] = "activate" /\ row[c] # "left" /\ seat[c] # None

InRoom(c) ==
    Through(c) /\ Departing(c) = {} /\ c \in active /\ row[c] # "left" /\ seat[c] # None

Leaving(c, t) ==
    /\ Through(c) /\ Departing(c) = {t} /\ c \notin active
    /\ row[c] # "left" /\ (pc[t] = "leave" <=> seat[c] # None)

Gone(c) ==
    Through(c) /\ Departing(c) = {} /\ c \notin active /\ row[c] # "in" /\ seat[c] = None

CallPhase(c) ==
    \/ Uninvited(c) \/ InRoom(c) \/ Gone(c)
    \/ \E t \in Tasks : SettingUp(c, t) \/ Leaving(c, t)

RowInv ==
    /\ KindFits
    /\ \A c \in Calls : AtMostOnce(c) => CallPhase(c)

(* A step that leaves a call's row, participant and entry alone, and whose *)
(* tasks neither set it up nor end it, leaves the call in its phase.       *)
LEMMA PhaseFrame ==
    ASSUME NEW c \in Calls, CallPhase(c), row'[c] = row[c], seat'[c] = seat[c],
           c \in active' <=> c \in active, Invites(c)' = Invites(c),
           \A x \in Tasks : CallOf[x] = c =>
               \/ pc'[x] = pc[x]
               \/ x \notin Invites(c) /\ pc[x] \notin {"leave", "close"}
                                      /\ pc'[x] \notin {"leave", "close"}
    PROVE  CallPhase(c)'
<1>1. /\ Departing(c)' = Departing(c)
      /\ \A x \in Invites(c) \cup Departing(c) : pc'[x] = pc[x]
  BY DEF Departing, Invites
<1>2. Through(c)' <=> Through(c)
  BY <1>1 DEF Through
<1>3. CASE Uninvited(c) \/ InRoom(c) \/ Gone(c)
  BY <1>1, <1>2, <1>3 DEF CallPhase, Uninvited, InRoom, Gone
<1>4. ASSUME NEW t \in Tasks, SettingUp(c, t) PROVE SettingUp(c, t)'
  BY <1>1, <1>4 DEF SettingUp
<1>5. ASSUME NEW t \in Tasks, Leaving(c, t) PROVE Leaving(c, t)'
  BY <1>1, <1>2, <1>5 DEF Leaving
<1> QED BY <1>3, <1>4, <1>5 DEF CallPhase

(* Every handler does what its datagram asks for.                          *)
LEMMA KindStep == ASSUME TypeOK, KindFits, [Next]_vars PROVE KindFits'
<1>1. ASSUME NEW t \in Tasks, Receive(t) PROVE KindFits'
  BY <1>1, SMTT(30) DEF Receive, RecvInvite, RecvBye, RecvInfo, Goto, KindFits, TypeOK
<1>2. ASSUME NEW t \in Tasks, Step(t) PROVE KindFits'
  <2>1. pc[t] # "idle"
    BY <1>2, ZenonT(60) DEF Step, Count, Bind, Enter, Insert, Activate, Bye, Leave, Close, Toggle,
                            SaveMute
  <2> QED BY <1>2, <2>1, TaskMoves, SMTT(30) DEF KindFits, Follows
<1>3. ASSUME NEW t \in Tasks, RtpToggle(t) \/ MixerTick(t) PROVE KindFits'
  BY <1>3 DEF RtpToggle, MixerTick, taskVars, KindFits
<1> QED BY <1>1, <1>2, <1>3 DEF Next, Restart, KindFits, TypeOK, vars

(* The step of a task does not move another call.                          *)
LEMMA OtherCall ==
    ASSUME TypeOK, NEW t \in Tasks, Receive(t) \/ Step(t), NEW d \in Calls, d # CallOf[t],
           CallPhase(d)
    PROVE  CallPhase(d)'
<1>1. Invites(d)' = Invites(d)
  BY TaskMoves DEF Invites
<1> QED BY <1>1, TaskMoves, PhaseFrame

(* A datagram of a call that is received: an INVITE finds a call that was  *)
(* not invited, or it is the second.                                       *)
LEMMA ReceivePhase ==
    ASSUME TypeOK, RowInv, NEW t \in Tasks, Receive(t), NEW c \in Calls, c = CallOf[t],
           AtMostOnce(c)'
    PROVE  CallPhase(c)'
<1>1. /\ pc[t] = "idle" /\ row' = row /\ seat' = seat /\ active' = active
      /\ \/ pc' = [pc EXCEPT ![t] = "count"] /\ kind' = [kind EXCEPT ![t] = "invite"]
         \/ pc' = [pc EXCEPT ![t] = "bye"] /\ kind' = [kind EXCEPT ![t] = "bye"]
         \/ pc' = [pc EXCEPT ![t] = "done"] /\ kind' = [kind EXCEPT ![t] = "bye"]
         \/ pc' = [pc EXCEPT ![t] = "toggle"] /\ kind' = [kind EXCEPT ![t] = "info"]
  BY ZenonT(60) DEF Receive, RecvInvite, RecvBye, RecvInfo, Goto, rowVars, mediaVars
<1>2. t \notin Invites(c) /\ Departing(c)' = Departing(c)
  BY <1>1 DEF Invites, Departing, RowInv, KindFits, TypeOK
<1>3. CASE kind' = [kind EXCEPT ![t] = "invite"]
  <2>1. pc'[t] = "count" /\ Invites(c)' = Invites(c) \cup {t}
    BY <1>1, <1>3, ZenonT(120) DEF Invites, TypeOK
  <2>2. Invites(c) = {} /\ Invites(c)' = {t}
    BY <1>2, <2>1 DEF AtMostOnce
  <2>3. Uninvited(c)
    BY <2>2, ZenonT(120) DEF RowInv, AtMostOnce, CallPhase, Through, SettingUp, InRoom, Leaving, Gone
  <2>4. SettingUp(c, t)'
    BY <1>1, <1>2, <2>1, <2>2, <2>3 DEF Uninvited, SettingUp
  <2> QED BY <2>4 DEF CallPhase
<1>4. CASE kind' # [kind EXCEPT ![t] = "invite"]
  <2>1. Invites(c)' = Invites(c)
    BY <1>1, <1>2, <1>4 DEF Invites, TypeOK
  <2>2. CallPhase(c)
    BY <2>1, SMTT(30) DEF AtMostOnce, RowInv
  <2>3. pc'[t] \notin {"leave", "close"} /\ \A x \in Tasks \ {t} : pc'[x] = pc[x]
    BY <1>1, SMTT(30) DEF TypeOK
  <2>4. \A x \in Tasks :
           \/ pc'[x] = pc[x]
           \/ x \notin Invites(c) /\ pc[x] \notin {"leave", "close"}
                                  /\ pc'[x] \notin {"leave", "close"}
    <3> TAKE x \in Tasks
    <3>1. CASE x = t
      BY <1>1, <1>2, <2>3, <3>1
    <3>2. CASE x # t
      BY <2>3, <3>2
    <3> QED BY <3>1, <3>2
  <2>5. row'[c] = row[c] /\ seat'[c] = seat[c] /\ (c \in active' <=> c \in active)
    BY <1>1
  <2> QED BY <2>1, <2>2, <2>4, <2>5, PhaseFrame
<1> QED BY <1>3, <1>4

(* The steps of the INVITE of a call that is invited once.                 *)
LEMMA InvitePhase ==
    ASSUME TypeOK, KindFits, NEW t \in Tasks, NEW c \in Calls, c = CallOf[t], CallPhase(c),
           AtMostOnce(c), Count(t) \/ Bind(t) \/ Enter(t) \/ Insert(t) \/ Activate(t)
    PROVE  CallPhase(c)'
<1>1. /\ kind' = kind
      /\ \A x \in Tasks \ {t} : pc'[x] = pc[x]
      /\ \/ /\ pc[t] = "count" /\ pc'[t] \in {"bind", "done"}
            /\ row' = row /\ seat' = seat /\ active' = active
         \/ /\ pc[t] = "bind" /\ pc'[t] \in {"enter", "done"}
            /\ row' = row /\ seat' = seat /\ active' = active
         \/ /\ pc[t] = "enter" /\ pc'[t] = "insert"
            /\ row' = row /\ seat'[c] = t /\ active' = active
         \/ /\ pc[t] = "insert" /\ pc'[t] = "activate"
            /\ row'[c] \in {row[c], "in"} /\ seat' = seat /\ active' = active
         \/ /\ pc[t] = "activate" /\ pc'[t] = "done"
            /\ row' = row /\ seat' = seat /\ c \in active'
  BY SMTT(30) DEF Count, Bind, Enter, Insert, Activate, Goto, rowVars, mediaVars, TypeOK
<1>2. t \in Invites(c) /\ pc[t] # "done" /\ pc[t] \notin {"leave", "close"}
  BY <1>1 DEF KindFits, Invites
<1>3. SettingUp(c, t)
  BY <1>2, SMTT(30) DEF CallPhase, Uninvited, SettingUp, InRoom, Leaving, Gone, Through
<1>4. Invites(c)' = {t} /\ Departing(c)' = {} /\ t # None
  BY <1>1, <1>3, NoneAssumption DEF SettingUp, Invites, Departing
<1>5. CASE pc'[t] # "done"
  <2>1. SettingUp(c, t)'
    BY <1>1, <1>3, <1>4, <1>5, SMTT(30) DEF SettingUp
  <2> QED BY <2>1 DEF CallPhase
<1>6. CASE pc'[t] = "done"
  BY <1>1, <1>3, <1>4, <1>6, SMTT(30) DEF CallPhase, SettingUp, InRoom, Gone, Through
<1> QED BY <1>5, <1>6

(* The steps of its BYE or CANCEL, of which one finds the entry.           *)
LEMMA ByePhase ==
    ASSUME TypeOK, KindFits, NEW t \in Tasks, NEW c \in Calls, c = CallOf[t], CallPhase(c),
           Bye(t) \/ Leave(t) \/ Close(t)
    PROVE  CallPhase(c)'
<1>1. /\ kind' = kind
      /\ \A x \in Tasks \ {t} : pc'[x] = pc[x]
      /\ \/ /\ pc[t] = "bye" /\ pc'[t] = IF c \in active THEN "leave" ELSE "done"
            /\ row' = row /\ seat' = seat /\ active' = active \ {c}
         \/ /\ pc[t] = "leave" /\ pc'[t] = "close"
            /\ row' = row /\ seat'[c] = None /\ active' = active
         \/ /\ pc[t] = "close" /\ pc'[t] = "done"
            /\ row'[c] = (IF row[c] = "in" THEN "left" ELSE row[c])
            /\ seat' = seat /\ active' = active
  BY SMTT(30) DEF Bye, Leave, Close, Goto, rowVars, mediaVars, TypeOK
<1>2. t \notin Invites(c) /\ Invites(c)' = Invites(c) /\ (Through(c)' <=> Through(c))
  BY <1>1 DEF KindFits, Invites, Through
<1>3. CASE pc[t] = "bye" /\ c \notin active
  BY <1>1, <1>2, <1>3, PhaseFrame
<1>4. CASE pc[t] = "bye" /\ c \in active
  <2>1. InRoom(c)
    BY <1>4 DEF CallPhase, Uninvited, SettingUp, InRoom, Leaving, Gone
  <2>2. Departing(c)' = {t}
    BY <1>1, <1>4, <2>1 DEF InRoom, Departing
  <2> QED BY <1>1, <1>2, <1>4, <2>1, <2>2 DEF CallPhase, InRoom, Leaving
<1>5. CASE pc[t] \in {"leave", "close"}
  <2>1. t \in Departing(c)
    BY <1>5 DEF Departing
  <2>2. Leaving(c, t)
    BY <2>1 DEF CallPhase, Uninvited, SettingUp, InRoom, Leaving, Gone
  <2>3. Departing(c)' = IF pc'[t] = "close" THEN {t} ELSE {}
    BY <1>1, <1>5, <2>2 DEF Leaving, Departing
  <2> QED BY <1>1, <1>2, <1>5, <2>2, <2>3 DEF CallPhase, Leaving, Gone
<1> QED BY <1>1, <1>3, <1>4, <1>5

(* Muting moves no call.                                                   *)
LEMMA MutePhase ==
    ASSUME TypeOK, KindFits, NEW t \in Tasks, NEW c \in Calls, c = CallOf[t], CallPhase(c),
           Toggle(t) \/ SaveMute(t)
    PROVE  CallPhase(c)'
<1>1. /\ kind[t] = "info" /\ kind' = kind /\ \A x \in Tasks \ {t} : pc'[x] = pc[x]
      /\ pc[t] \in {"toggle", "save"} /\ pc'[t] \in {"save", "done"}
  BY DEF Toggle, SaveMute, KindFits, Goto, TypeOK
<1>2. row' = row /\ seat' = seat /\ active' = active
  BY DEF Toggle, SaveMute, rowVars, mediaVars
<1>3. t \notin Invites(c) /\ Invites(c)' = Invites(c)
  BY <1>1 DEF Invites
<1> QED BY <1>1, <1>2, <1>3, PhaseFrame

(* After a restart a call that was invited is gone, and its row is closed. *)
LEMMA RestartPhase ==
    ASSUME TypeOK, KindFits, NEW c \in Calls, CallPhase(c), Restart
    PROVE  CallPhase(c)'
<1>1. /\ kind' = kind /\ active' = {} /\ seat'[c] = None
      /\ row'[c] = IF row[c] = "in" THEN "left" ELSE row[c]
      /\ \A x \in Tasks : pc'[x] = IF pc[x] = "idle" THEN "idle" ELSE "done"
  BY DEF Restart
<1>2. Invites(c)' = Invites(c) /\ Departing(c)' = {}
  BY <1>1 DEF Invites, Departing
<1>3. CASE Invites(c) = {}
  <2>1. Uninvited(c)
    BY <1>3 DEF CallPhase, Through, SettingUp, InRoom, Leaving, Gone
  <2> QED BY <1>1, <1>2, <2>1 DEF CallPhase, Uninvited
<1>4. CASE Invites(c) # {}
  <2>1. Through(c)'
    BY <1>1, <1>2, <1>4 DEF Through, Invites, KindFits
  <2> QED BY <1>1, <1>2, <2>1 DEF CallPhase, Gone
<1> QED BY <1>3, <1>4

(* A step makes at most one task the handler of a datagram.                *)
LEMMA OneReceives ==
    ASSUME TypeOK, [Next]_vars PROVE \E t : \A x \in Tasks \ {t} : kind'[x] = kind[x]
<1>1. ASSUME NEW t \in Tasks, RtpToggle(t) \/ MixerTick(t) PROVE kind' = kind
  BY <1>1 DEF RtpToggle, MixerTick, taskVars
<1> QED BY <1>1, TaskMoves DEF Next, Restart, vars

(* Every step keeps the phases.                                            *)
LEMMA RowStep == ASSUME TypeOK, RowInv, [Next]_vars PROVE RowInv'
<1>1. KindFits /\ KindFits'
  BY KindStep DEF RowInv
<1> SUFFICES ASSUME NEW c \in Calls, AtMostOnce(c)' PROVE CallPhase(c)'
  BY <1>1 DEF RowInv
<1>2. ASSUME kind' = kind PROVE AtMostOnce(c) /\ CallPhase(c) /\ Invites(c)' = Invites(c)
  <2>1. Invites(c)' = Invites(c) BY <1>2 DEF Invites
  <2> QED BY <2>1, SMTT(30) DEF RowInv, AtMostOnce
<1>3. CASE UNCHANGED vars
  BY <1>2, <1>3, PhaseFrame DEF vars
<1>4. ASSUME NEW t \in Tasks, Receive(t) \/ Step(t), c # CallOf[t] PROVE CallPhase(c)'
  <2>1. Invites(c)' = Invites(c) BY <1>4, TaskMoves DEF Invites
  <2>2. CallPhase(c) BY <2>1, SMTT(30) DEF RowInv, AtMostOnce
  <2> QED BY <1>4, <2>2, OtherCall
<1>5. ASSUME NEW t \in Tasks, Receive(t) \/ Step(t), c = CallOf[t] PROVE CallPhase(c)'
  <2>1. CASE Receive(t) BY <1>5, <2>1, ReceivePhase
  <2>2. CASE Step(t)
    <3>1. AtMostOnce(c) /\ CallPhase(c) BY <1>2, <1>5, <2>2, TaskMoves
    <3> QED BY <1>1, <1>5, <2>2, <3>1, InvitePhase, ByePhase, MutePhase DEF Step
  <2> QED BY <1>5, <2>1, <2>2
<1>6. ASSUME NEW t \in Tasks, RtpToggle(t) \/ MixerTick(t) PROVE CallPhase(c)'
  <2>1. kind' = kind /\ pc' = pc /\ row' = row /\ seat' = seat /\ active' = active
    BY <1>6 DEF RtpToggle, MixerTick, taskVars, rowVars
  <2> QED BY <1>2, <2>1, PhaseFrame
<1>7. CASE Restart
  BY <1>1, <1>2, <1>7, RestartPhase DEF Restart
<1> QED BY <1>3, <1>4, <1>5, <1>6, <1>7 DEF Next

-----------------------------------------------------------------------------
(* What is counted.  The facts about finite sets are only needed from here. *)
INSTANCE FiniteSetTheorems

(* The capacity.  A join that was let in holds the place it was let in for *)
(* until its row is written; without overlap there is at most one.         *)
Held(r) ==
    /\ IsFiniteSet(Present(r))
    /\ Cardinality(Present(r)) <= Capacity
    /\ \A t, u \in Joining(r) : t = u
    /\ Joining(r) # {} => Cardinality(Present(r)) < Capacity

PlaceIsHeld == \A r \in Rooms \ overlapped : Held(r)

(* Fewer rows and fewer joins leave room.                                  *)
LEMMA HeldFrame ==
    ASSUME NEW r \in Rooms, Held(r), Present(r)' \subseteq Present(r),
           Joining(r)' \subseteq Joining(r)
    PROVE  Held(r)'
<1>1. IsFiniteSet(Present(r)') /\ Cardinality(Present(r)') <= Cardinality(Present(r))
  BY FS_Subset DEF Held
<1>2. Cardinality(Present(r)) \in Nat /\ Cardinality(Present(r)') \in Nat
  BY <1>1, FS_CardinalityType DEF Held
<1> QED BY <1>1, <1>2, CapacityAssumption, SMTT(30) DEF Held

(* Only the count lets a task join, and only the insert opens a row.       *)
LEMMA QuietJoin ==
    ASSUME TypeOK, NEW t \in Tasks,
           \/ Receive(t) \/ Bind(t) \/ Enter(t) \/ Activate(t) \/ Bye(t) \/ Leave(t) \/ Close(t)
           \/ Toggle(t) \/ SaveMute(t) \/ RtpToggle(t) \/ MixerTick(t)
    PROVE  /\ overlapped' = overlapped
           /\ \A c \in Calls : row'[c] = "in" => row[c] = "in"
           /\ \A x \in Tasks : pc'[x] \in {"bind", "enter", "insert"}
                                 => pc[x] \in {"bind", "enter", "insert"}
<1> USE DEF TypeOK, Goto, rowVars, mediaVars, taskVars
<1>1. CASE Receive(t) BY <1>1, ConfCallOfAssumption DEF Receive, RecvInvite, RecvBye, RecvInfo
<1>2. CASE Bind(t) BY <1>2 DEF Bind
<1>3. CASE Enter(t) BY <1>3 DEF Enter
<1>4. CASE Activate(t) BY <1>4 DEF Activate
<1>5. CASE Bye(t) BY <1>5 DEF Bye
<1>6. CASE Leave(t) BY <1>6 DEF Leave
<1>7. CASE Close(t) BY <1>7, ConfCallOfAssumption DEF Close
<1>8. CASE Toggle(t) BY <1>8 DEF Toggle
<1>9. CASE SaveMute(t) BY <1>9 DEF SaveMute
<1>10. CASE RtpToggle(t) BY <1>10 DEF RtpToggle
<1>11. CASE MixerTick(t) BY <1>11 DEF MixerTick
<1> QED BY <1>1, <1>2, <1>3, <1>4, <1>5, <1>6, <1>7, <1>8, <1>9, <1>10, <1>11

(* A task that counts and is let in is the only one that joins, or the     *)
(* room is overlapped.                                                     *)
LEMMA CountHeld == ASSUME TypeOK, PlaceIsHeld, NEW t \in Tasks, Count(t) PROVE PlaceIsHeld'
<1> SUFFICES ASSUME NEW r \in Rooms \ overlapped' PROVE Held(r)'
  BY DEF PlaceIsHeld
<1>1. row' = row /\ overlapped \subseteq overlapped' /\ pc[t] = "count"
  BY DEF Count, rowVars
<1>2. Held(r) /\ Present(r)' = Present(r)
  BY <1>1 DEF PlaceIsHeld, Present
<1>3. CASE r # Room(t) \/ pc' = [pc EXCEPT ![t] = "done"]
  <2>1. Joining(r)' \subseteq Joining(r)
    BY <1>3 DEF Count, Goto, Joining, Room, TypeOK
  <2> QED BY <1>2, <2>1, HeldFrame
<1>4. CASE r = Room(t) /\ pc' = [pc EXCEPT ![t] = "bind"]
  <2>1. Joining(r) = {} /\ Cardinality(Present(r)) < Capacity
    <3>1. ~ (Cardinality(Present(r)) >= Capacity) /\ Joining(r) = {}
      BY <1>1, <1>4 DEF Count, Goto, TypeOK
    <3>2. Cardinality(Present(r)) \in Nat
      BY <1>2, FS_CardinalityType DEF Held
    <3> QED BY <3>1, <3>2, CapacityAssumption, SMTT(30)
  <2>2. Joining(r)' \subseteq {t}
    BY <1>4, <2>1 DEF Joining, Room, TypeOK
  <2> QED BY <1>2, <2>1, <2>2 DEF Held
<1> QED BY <1>1, <1>3, <1>4 DEF Count, Goto

(* The row is written in the place that was held.                          *)
LEMMA InsertHeld == ASSUME TypeOK, PlaceIsHeld, NEW t \in Tasks, Insert(t) PROVE PlaceIsHeld'
<1> SUFFICES ASSUME NEW r \in Rooms \ overlapped' PROVE Held(r)'
  BY DEF PlaceIsHeld
<1>1. overlapped' = overlapped /\ pc[t] = "insert" /\ pc' = [pc EXCEPT ![t] = "activate"]
  BY DEF Insert, Goto
<1>2. Held(r)
  BY <1>1 DEF PlaceIsHeld
<1>3. Joining(r)' = Joining(r) \ {t}
  BY <1>1 DEF Joining, Room, TypeOK
<1>4. CallOf[t] \in Calls
  BY ConfCallOfAssumption
<1>5. row' = row \/ row' = [row EXCEPT ![CallOf[t]] = "in"]
  BY DEF Insert, rowVars
<1>6. CASE r # Room(t)
  <2>1. Present(r)' \subseteq Present(r)
    BY <1>4, <1>5, <1>6 DEF Present, Room, TypeOK
  <2> QED BY <1>2, <1>3, <2>1, HeldFrame
<1>7. CASE r = Room(t)
  <2>1. t \in Joining(r)
    BY <1>1, <1>7 DEF Joining
  <2>2. Joining(r)' = {}
    BY <1>2, <1>3, <2>1 DEF Held
  <2>3. Present(r)' \subseteq Present(r) \cup {CallOf[t]}
    BY <1>4, <1>5 DEF Present, TypeOK
  <2>4. /\ IsFiniteSet(Present(r) \cup {CallOf[t]})
        /\ Cardinality(Present(r) \cup {CallOf[t]}) \in {Cardinality(Present(r)), Cardinality(Present(r)) + 1}
        /\ Cardinality(Present(r)) \in Nat
    BY <1>2, FS_AddElement, FS_CardinalityType DEF Held
  <2>5. IsFiniteSet(Present(r)') /\ Cardinality(Present(r)') <= Cardinality(Present(r) \cup {CallOf[t]})
    BY <2>3, <2>4, FS_Subset
  <2>6. Cardinality(Present(r)) < Capacity
    BY <1>2, <2>1 DEF Held
  <2>7. Cardinality(Present(r)') \in Nat
    BY <2>5, FS_CardinalityType
  <2>8. Cardinality(Present(r)') <= Capacity
    BY <2>4, <2>5, <2>6, <2>7, CapacityAssumption, SMTT(30)
  <2> QED BY <2>2, <2>5, <2>8 DEF Held
<1> QED BY <1>6, <1>7

(* Every step keeps the held places.                                       *)
LEMMA HeldStep == ASSUME TypeOK, PlaceIsHeld, [Next]_vars PROVE PlaceIsHeld'
<1>1. ASSUME overlapped' = overlapped,
             \A c \in Calls : row'[c] = "in" => row[c] = "in",
             \A x \in Tasks : pc'[x] \in {"bind", "enter", "insert"}
                                => pc[x] \in {"bind", "enter", "insert"}
      PROVE  PlaceIsHeld'
  <2> SUFFICES ASSUME NEW r \in Rooms \ overlapped' PROVE Held(r)'
    BY DEF PlaceIsHeld
  <2>1. Held(r) BY <1>1 DEF PlaceIsHeld
  <2>2. Present(r)' \subseteq Present(r) BY <1>1 DEF Present
  <2>3. Joining(r)' \subseteq Joining(r) BY <1>1 DEF Joining, Room
  <2> QED BY <2>1, <2>2, <2>3, HeldFrame
<1>2. CASE UNCHANGED vars BY <1>1, <1>2 DEF vars
<1>3. ASSUME NEW t \in Tasks, Receive(t) \/ Step(t) \/ RtpToggle(t) \/ MixerTick(t)
      PROVE  PlaceIsHeld'
  <2>1. CASE Count(t) BY <2>1, CountHeld
  <2>2. CASE Insert(t) BY <2>2, InsertHeld
  <2> QED BY <1>1, <1>3, <2>1, <2>2, QuietJoin DEF Step
<1>4. CASE Restart
  <2>1. /\ overlapped' = overlapped
        /\ \A c \in Calls : row'[c] = "in" => row[c] = "in"
        /\ \A x \in Tasks : pc'[x] \in {"bind", "enter", "insert"}
                              => pc[x] \in {"bind", "enter", "insert"}
    BY <1>4 DEF Restart, TypeOK
  <2> QED BY <1>1, <2>1
<1> QED BY <1>2, <1>3, <1>4 DEF Next

(* For any number of rooms, calls and handlers: a room whose joins never   *)
(* overlapped has at most max_participants rows without left_at.           *)
THEOREM CapacityHolds == Spec => []CapacityWithoutOverlap
<1>1. Init => PlaceIsHeld
  <2> SUFFICES ASSUME Init, NEW r \in Rooms PROVE Held(r)
    BY DEF PlaceIsHeld
  <2>1. Present(r) = {} /\ Joining(r) = {}
    BY DEF Init, Present, Joining
  <2>2. IsFiniteSet({}) /\ Cardinality({}) = 0
    BY FS_EmptySet
  <2> QED BY <2>1, <2>2, CapacityAssumption, SMTT(30) DEF Held
<1>2. MediaInv /\ PlaceIsHeld /\ [Next]_vars => PlaceIsHeld'
  BY HeldStep DEF MediaInv
<1>3. PlaceIsHeld => CapacityWithoutOverlap
  BY DEF PlaceIsHeld, Held, CapacityWithoutOverlap
<1> QED BY <1>1, <1>2, <1>3, ConferenceInvariance, PTL DEF Spec

(* For any number of rooms, calls and handlers, interleaved and restarted  *)
(* at will: the participant list of a call that was invited once agrees    *)
(* with the room when its handlers are through.                            *)
THEOREM RowsFollowSeats == Spec => []RowsMatchSeats
<1> DEFINE Counted == \A c \in Calls : IsFiniteSet(Invites(c))
<1>1. Init => RowInv /\ Counted
  <2>1. Init => \A c \in Calls : Invites(c) = {} /\ Departing(c) = {}
    BY DEF Init, Invites, Departing
  <2> QED BY <2>1, FS_EmptySet, ZenonT(120) DEF Init, RowInv, KindFits, CallPhase, Uninvited
<1>2. ASSUME TypeOK, RowInv, Counted, [Next]_vars PROVE RowInv' /\ Counted'
  <2>1. PICK t : \A x \in Tasks \ {t} : kind'[x] = kind[x]
    BY <1>2, OneReceives
  <2>2. \A c \in Calls : Invites(c)' \subseteq Invites(c) \cup {t}
    BY <2>1 DEF Invites
  <2>3. Counted'
    BY <1>2, <2>2, FS_AddElement, FS_Subset
  <2> QED BY <1>2, <2>3, RowStep
<1>3. RowInv /\ Counted => RowsMatchSeats
  <2> SUFFICES ASSUME RowInv, NEW c \in Calls, IsFiniteSet(Invites(c)),
                      Cardinality(Invites(c)) = 1,
                      \A t \in Tasks : CallOf[t] = c => pc[t] \in {"idle", "done"}
               PROVE  (row[c] = "in" => seat[c] # None) /\ (row[c] = "left" => seat[c] = None)
    BY DEF RowsMatchSeats
  <2>1. PICK t : Invites(c) = {t}
    BY FS_Singleton
  <2>2. CallPhase(c) /\ Departing(c) = {}
    BY <2>1 DEF RowInv, AtMostOnce, Departing
  <2>3. t \in Invites(c) /\ pc[t] = "done"
    BY <2>1 DEF Invites, RowInv, KindFits
  <2> QED
    BY <2>2, <2>3, NoneAssumption, SMTT(30)
       DEF CallPhase, Through, Uninvited, SettingUp, InRoom, Leaving, Gone
<1> HIDE DEF Counted
<1>4. MediaInv => TypeOK
  BY DEF MediaInv
<1> QED BY <1>1, <1>2, <1>3, <1>4, ConferenceInvariance, PTL DEF Spec
=============================================================================
