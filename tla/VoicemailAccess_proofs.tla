----------------------- MODULE VoicemailAccess_proofs -----------------------
(* The voicemail menu and the greeting, for any number of calls, requests,  *)
(* messages and files.                                                      *)
EXTENDS VoicemailAccess, TLAPS

(* Leaves without arithmetic go to Zenon; the others name SMT.              *)
USE ZenonT(30)

-----------------------------------------------------------------------------
(* What a handler remembers between two of its steps.                       *)

ApiPcs == {"write", "unlink", "set_key"}
CallPcs == {"track", "lookup", "mode", "insert", "discard", "bye", "move", "play", "delete", "save",
            "delete_row", "save_row", "drop", "push", "clear", "pin", "verify", "list", "open"}

TaskSound(r, w) ==
    /\ r.pc \in {"idle"} \cup ApiPcs \cup CallPcs
    /\ r.pc = "idle" <=> r = Idle
    /\ r.pc \in CallPcs => r.call \in Calls
    /\ r.pc \in ApiPcs => r = [pc |-> r.pc, call |-> NoCall, prev |-> r.prev, key |-> r.key]
    /\ r.pc \in {"write", "unlink"} => r.prev \in 1 .. w \cup {NoKey}
    /\ r.pc = "write" => r.key = NoKey
    /\ r.pc \in {"unlink", "set_key"} => r.key \in 1 .. w \cup {NoKey}
    /\ r.pc = "track" => r = [pc |-> r.pc, call |-> r.call]
    /\ r.pc = "insert" => r = [pc |-> r.pc, call |-> r.call, key |-> r.key, entry |-> r.entry]
    /\ r.pc \in {"insert", "open"} => r.entry \in EntryType
    /\ r.pc = "move" => r = [pc |-> r.pc, call |-> r.call, index |-> r.index]
    /\ r.pc \in {"move", "play", "delete", "save", "delete_row", "save_row", "drop"} => r.index \in Nat
    /\ r.pc = "delete_row" => r = [pc |-> r.pc, call |-> r.call, index |-> r.index, msg |-> r.msg]
    /\ r.pc \in {"delete_row", "save_row", "drop"} => r.msg \in Messages
    /\ r.pc = "push" => r.digit \in Digits
    /\ r.pc = "verify" => r.pin \in Seq(Digits)

ShapeInv ==
    /\ TypeOK
    /\ DOMAIN task = Tasks /\ task = [t \in Tasks |-> task[t]]
    /\ \A t \in Tasks : TaskSound(task[t], written)

-----------------------------------------------------------------------------
(* Nothing leaks: somebody is still responsible for every session and for   *)
(* every pending Call-ID.                                                   *)
Holding(r, c) == r.pc \in {"mode", "insert", "bye"} /\ r.call = c
Waiting(r, c) == r.pc \in {"lookup", "mode", "insert", "discard"} /\ r.call = c

LeakInv ==
    /\ \A c \in media : IsActive(c) \/ \E t \in Tasks : Holding(task[t], c)
    /\ \A c \in pending \ stuck : \E t \in Tasks : Waiting(task[t], c)

-----------------------------------------------------------------------------
(* The key of the mailbox names a file, or a handler is about to set it.    *)
(* The file of an upload in progress is there, nobody else has its key, and *)
(* nobody is about to delete it.                                            *)
Carries(r, k) == r.pc \in {"unlink", "set_key"} /\ r.key = k

(* T tells what the handlers remember, F the files and g the key.            *)
Owns(t, k, T, F, g) ==
    /\ k \in F /\ k # g
    /\ \A u \in Tasks : T[u].pc \in {"write", "unlink"} => T[u].prev # k
    /\ \A u \in Tasks : Carries(T[u], k) => u = t

GreetingInv ==
    ~broken =>
        /\ greeting \in files \cup {NoKey} \/ \E t \in Tasks : task[t].pc = "set_key"
        /\ \A t \in Tasks, k \in 1 .. written :
              Carries(task[t], k) => Owns(t, k, task, files, greeting)

-----------------------------------------------------------------------------
(* The menu.  Requests of a call that never overlapped.                     *)
Alone(c) == \A t, u \in Tasks : Busy(t, c) /\ Busy(u, c) => t = u

Distinct(l) == \A i, j \in 1 .. Len(l) : l[i] = l[j] => i = j

(* The list has no message that call c deleted and the cursor is on it.  D  *)
(* tells who deleted a message.                                             *)
Fits(c, e, D) ==
    /\ Distinct(e.list)
    /\ \A i \in 1 .. Len(e.list) : D[e.list[i]] # c
    /\ e.index < Len(e.list) \/ e.list = <<>>

(* Between two requests: a call that listens to messages has its cursor on  *)
(* one and none that it deleted; one that enters a PIN has typed what is in *)
(* the buffer, unless the digits cannot be those of a PIN.  e is the entry  *)
(* of the call, y what was typed, and sane that no lookup failed.           *)
Rests(c, e, y, D, sane) ==
    e # NoCall =>
        IF e.mode = "playback" THEN Fits(c, e, D)
        ELSE sane /\ y \in Seq(Digits) => e.buffer = y

(* While a handler that remembers r is at work on the call.                 *)
Doing(r, c, e, y, D, sane, p) ==
    /\ r.pc \in {"track", "lookup", "mode", "insert", "bye"} => e = NoCall
    /\ r.pc = "insert" => r.entry = PinEntry \/ (r.entry.mode = "playback" /\ Fits(c, r.entry, D))
    /\ r.pc = "open" => r.entry.mode = "playback" /\ Fits(c, r.entry, D)
    /\ r.pc \in {"discard", "move", "play", "delete", "save", "delete_row", "save_row"} =>
           Rests(c, e, y, D, sane)
    /\ r.pc \in {"move", "delete", "save", "delete_row", "save_row", "drop"} =>
           e # NoCall /\ e.mode = "playback" /\ r.index < Len(e.list)
    /\ r.pc \in {"delete_row", "save_row"} => r.msg = e.list[r.index + 1]
    /\ r.pc = "drop" =>
           /\ Distinct(e.list)
           /\ \A i \in 1 .. Len(e.list) : i # r.index + 1 => D[e.list[i]] # c
           /\ e.index < Len(e.list)
    /\ r.pc \in {"push", "clear", "pin", "verify", "list", "open"} =>
           e # NoCall /\ e.mode # "playback"
    /\ sane /\ r.pc = "push" /\ y \in Seq(Digits) => y = Append(e.buffer, r.digit)
    /\ sane /\ r.pc \in {"clear", "pin", "verify"} /\ y \in Seq(Digits) => y = <<>>
    /\ sane /\ r.pc = "pin" /\ r.right /\ p \in Seq(Digits) => e.buffer = p
    /\ sane /\ r.pc = "verify" /\ r.right /\ p \in Seq(Digits) => r.pin = p

Resting(c) == Rests(c, active[c], typed[c], deletedBy, c \notin stuck)
Working(t, c) ==
    Busy(t, c) /\ Doing(task[t], c, active[c], typed[c], deletedBy, c \notin stuck, pin)

State(c) ==
    \/ Resting(c) /\ \A t \in Tasks : ~Busy(t, c)
    \/ \E t \in Tasks : Working(t, c)

MenuFits == \A c \in Calls \ overlapped : Alone(c) /\ State(c)

MenuInv ==
    /\ MenuFits
    /\ \A m \in Messages : deletedBy[m] \in Calls => status[m] = "deleted"
    /\ panicked \subseteq overlapped
    /\ revived \subseteq overlapped
    /\ pin \in Seq(Digits) => refused \subseteq overlapped \cup stuck

-----------------------------------------------------------------------------
(* The list of messages.                                                    *)

(* A list has messages that are new or saved, each once.                    *)
LEMMA Listing ==
    ASSUME NEW l \in list_messages_for_mailbox
    PROVE  l \in Seq(Messages) /\ Distinct(l) /\ \A i \in 1 .. Len(l) : l[i] \in Present
<1>1. PICK n \in 0 .. MaxMessages :
        l \in [1 .. n -> Present] /\ \A i, j \in 1 .. n : i < j => l[i] > l[j]
  BY DEF list_messages_for_mailbox
<1>2. n \in Nat /\ Present \subseteq Messages /\ Messages \subseteq Int
  BY AccessAssumption, SMTT(30) DEF Present, Messages
<1>3. l \in Seq(Messages) /\ Len(l) = n
  <2>1. l \in [1 .. n -> Messages]
    BY <1>1, <1>2
  <2> QED BY <1>2, <2>1, SMTT(30)
<1>4. \A i \in 1 .. n : l[i] \in Present /\ l[i] \in Int
  BY <1>1, <1>2
<1>5. ASSUME NEW i \in 1 .. n, NEW j \in 1 .. n, l[i] = l[j] PROVE i = j
  <2>1. ~(l[i] > l[j]) /\ ~(l[j] > l[i])
    BY <1>4, <1>5, SMTT(30)
  <2>2. ~(i < j) /\ ~(j < i)
    BY <1>1, <2>1
  <2> QED BY <1>2, <2>2, SMTT(30)
<1> QED BY <1>3, <1>4, <1>5 DEF Distinct

-----------------------------------------------------------------------------
(* Steps of one handler.                                                    *)

(* A handler that ends has nothing to remember.                             *)
LEMMA IdleSound == ASSUME NEW w PROVE TaskSound(Idle, w)
BY DEF TaskSound, Idle, ApiPcs, CallPcs

(* A handler with nothing to remember is idle.                              *)
LEMMA IdlePc == Idle.pc = "idle"
BY DEF Idle

(* One handler goes on, the others are where they were.                     *)
LEMMA Takes ==
    ASSUME ShapeInv, NEW t \in Tasks, NEW r, Becomes(t, r)
    PROVE  /\ DOMAIN task' = Tasks /\ task' = [u \in Tasks |-> task'[u]]
           /\ task'[t] = r
           /\ \A u \in Tasks : u # t => task'[u] = task[u]
BY DEF ShapeInv, Becomes

(* Goto is a step that changes the program counter alone.                   *)
LEMMA GotoTakes ==
    ASSUME ShapeInv, NEW t \in Tasks, NEW l, Goto(t, l)
    PROVE  Becomes(t, [task[t] EXCEPT !.pc = l])
BY DEF Goto, Becomes, ShapeInv

(* It keeps the call and the index.                                         *)
LEMMA GotoFields ==
    ASSUME NEW r, NEW w, TaskSound(r, w), r.pc \in {"track", "insert", "move", "delete_row"}, NEW l
    PROVE  /\ [r EXCEPT !.pc = l].pc = l /\ [r EXCEPT !.pc = l].call = r.call
           /\ r.pc \in {"move", "delete_row"} => [r EXCEPT !.pc = l].index = r.index
<1>1. CASE r.pc = "track"
  <2>1. r = [pc |-> "track", call |-> r.call]
    BY <1>1 DEF TaskSound
  <2> QED BY <1>1, <2>1, SMTT(30)
<1>2. CASE r.pc = "insert"
  <2>1. r = [pc |-> "insert", call |-> r.call, key |-> r.key, entry |-> r.entry]
    BY <1>2 DEF TaskSound
  <2> QED BY <1>2, <2>1, SMTT(30)
<1>3. CASE r.pc = "move"
  <2>1. r = [pc |-> "move", call |-> r.call, index |-> r.index]
    BY <1>3 DEF TaskSound
  <2> QED BY <1>3, <2>1, SMTT(30)
<1>4. CASE r.pc = "delete_row"
  <2>1. r = [pc |-> "delete_row", call |-> r.call, index |-> r.index, msg |-> r.msg]
    BY <1>4 DEF TaskSound
  <2> QED BY <1>4, <2>1, SMTT(30)
<1> QED BY <1>1, <1>2, <1>3, <1>4

(* What a handler remembers stays sound as files are written.               *)
LEMMA SoundKept ==
    ASSUME NEW r, NEW v, NEW w, TaskSound(r, v), 1 .. v \subseteq 1 .. w
    PROVE  TaskSound(r, w)
BY DEF TaskSound

(* The state keeps its shape if what the handler remembers is sound.        *)
LEMMA ShapeStep ==
    ASSUME ShapeInv, TypeOK', 1 .. written \subseteq 1 .. written',
           NEW t \in Tasks, NEW r, Becomes(t, r), TaskSound(r, written')
    PROVE  ShapeInv'
<1>1. \A u \in Tasks : TaskSound(task'[u], written')
  <2> TAKE u \in Tasks
  <2>1. CASE u = t
    BY <2>1, Takes
  <2>2. CASE u # t
    <3>1. TaskSound(task[u], written) /\ task'[u] = task[u]
      BY <2>2, Takes DEF ShapeInv
    <3> QED BY <3>1, SoundKept
  <2> QED BY <2>1, <2>2
<1> QED BY <1>1, Takes DEF ShapeInv

(* A handler at work on a call or on the greeting.                          *)
LEMMA AtWork ==
    ASSUME ShapeInv, NEW t \in Tasks
    PROVE  TaskSound(task[t], written)
BY DEF ShapeInv

-----------------------------------------------------------------------------
(* Entries of the map of active calls.                                      *)

(* The fields of an entry, and what it is after one of them changed.        *)
LEMMA Entries ==
    ASSUME NEW e \in EntryType
    PROVE  /\ e.mode \in {"pin", "playback"} /\ e.list \in Seq(Messages)
           /\ e.index \in Nat /\ e.buffer \in Seq(Digits) /\ e # NoCall
           /\ \A i \in Nat : [e EXCEPT !.index = i] \in EntryType
           /\ \A b \in Seq(Digits) : [e EXCEPT !.buffer = b] \in EntryType
           /\ \A l \in Seq(Messages), i \in Nat : [e EXCEPT !.list = l, !.index = i] \in EntryType
BY AccessAssumption DEF EntryType

(* The two entries a call begins with.                                      *)
LEMMA FirstEntries ==
    /\ PinEntry \in EntryType
    /\ \A l \in Seq(Messages) : Playback(l) \in EntryType
BY SMTT(30) DEF EntryType, PinEntry, Playback

(* The length of a concatenation.                                           *)
LEMMA Lengths ==
    ASSUME NEW S, NEW a \in Seq(S), NEW b \in Seq(S)
    PROVE  Len(a \o b) = Len(a) + Len(b)
BY SMTT(30)

(* A list without the element at index i.                                   *)
LEMMA Removed ==
    ASSUME NEW S, NEW s \in Seq(S), NEW i \in 1 .. Len(s)
    PROVE  /\ RemoveAt(s, i) \in Seq(S)
           /\ Len(RemoveAt(s, i)) = Len(s) - 1
           /\ \A j \in 1 .. Len(s) - 1 : RemoveAt(s, i)[j] = IF j < i THEN s[j] ELSE s[j + 1]
<1>1. i \in Nat /\ Len(s) \in Nat /\ 1 <= i /\ i <= Len(s)
  BY SMTT(30)
<1> DEFINE a == SubSeq(s, 1, i - 1)
           b == SubSeq(s, i + 1, Len(s))
<1>2. a \in Seq(S) /\ Len(a) = i - 1 /\ \A j \in 1 .. i - 1 : a[j] = s[j]
  BY <1>1, SMTT(30)
<1>3. b \in Seq(S) /\ Len(b) = Len(s) - i /\ \A j \in 1 .. Len(s) - i : b[j] = s[j + i]
  BY <1>1, SMTT(30)
<1>4. RemoveAt(s, i) = a \o b
  BY DEF RemoveAt
<1> HIDE DEF a, b
<1>5. a \o b \in Seq(S) /\ Len(a \o b) = Len(s) - 1
  <2>1. a \o b \in Seq(S)
    BY <1>2, <1>3, SMTT(30)
  <2>2. Len(a \o b) = Len(a) + Len(b)
    BY <1>2, <1>3, Lengths
  <2> QED BY <1>1, <1>2, <1>3, <2>1, <2>2, SMTT(30)
<1>6. ASSUME NEW j \in 1 .. Len(s) - 1 PROVE (a \o b)[j] = IF j < i THEN s[j] ELSE s[j + 1]
  <2>1. CASE j < i
    BY <1>1, <1>2, <1>3, <2>1, SMTT(30)
  <2>2. CASE ~(j < i)
    <3>1. (a \o b)[j] = b[j - (i - 1)]
      BY <1>1, <1>2, <1>3, <2>2, SMTT(30)
    <3>2. j - (i - 1) \in 1 .. Len(s) - i /\ (j - (i - 1)) + i = j + 1
      BY <1>1, <2>2, SMTT(30)
    <3> QED BY <1>3, <2>2, <3>1, <3>2
  <2> QED BY <2>1, <2>2
<1> QED BY <1>4, <1>5, <1>6

(* An index below the length names an element.                              *)
LEMMA Named ==
    ASSUME NEW S, NEW l \in Seq(S), NEW i \in Nat, i < Len(l)
    PROVE  i + 1 \in 1 .. Len(l) /\ l[i + 1] \in S
BY SMTT(30)

(* The list of a call read under the lock is one of messages.               *)
LEMMA EntrySound ==
    ASSUME ShapeInv, NEW t \in Tasks, task[t].call \in Calls, task[t].index \in Nat, EntryAt(t)
    PROVE  /\ active[task[t].call] \in EntryType
           /\ task[t].index + 1 \in 1 .. Len(active[task[t].call].list)
           /\ Entry(t) \in Messages
<1>1. active[task[t].call] \in EntryType
  BY DEF ShapeInv, TypeOK, EntryAt, InPlayback, IsActive
<1>2. active[task[t].call].list \in Seq(Messages) /\ task[t].index < Len(active[task[t].call].list)
  BY <1>1, Entries DEF EntryAt
<1> QED BY <1>1, <1>2, Named DEF Entry

-----------------------------------------------------------------------------
(* The state keeps its shape.                                               *)

(* At the start.                                                            *)
LEMMA ShapeInit ==
    ASSUME Init
    PROVE  ShapeInv
<1>1. 0 \in 0 .. MaxFiles
  BY AccessAssumption, SMTT(30)
<1>2. <<>> \in Seq(MenuDigits \cup Digits)
  BY SMTT(30)
<1>3. \A t \in Tasks : task[t] = Idle
  BY DEF Init
<1> QED BY <1>1, <1>2, <1>3, IdleSound DEF Init, ShapeInv, TypeOK

(* A handler that begins or goes on, where the tables and the files stay.   *)
LEMMA ShapeCall ==
    ASSUME ShapeInv, UNCHANGED <<box, pin, greeting, files, written>>,
           NEW t \in Tasks, NEW r, Becomes(t, r), TaskSound(r, written),
           status' \in [Messages -> {"none", "new", "saved", "deleted"}],
           active' \in [Calls -> EntryType \cup {NoCall}],
           pending' \subseteq Calls, media' \subseteq Calls,
           typed' \in [Calls -> Seq(MenuDigits \cup Digits)],
           deletedBy' \in [Messages -> Calls \cup {"api", "nobody"}]
    PROVE  ShapeInv'
<1>1. TypeOK'
  BY DEF ShapeInv, TypeOK
<1>2. 1 .. written \subseteq 1 .. written' /\ TaskSound(r, written')
  OBVIOUS
<1> QED BY <1>1, <1>2, ShapeStep

(* An INVITE to the access extension.                                       *)
LEMMA ShapeAccess ==
    ASSUME ShapeInv, NEW t \in Tasks, handle_access_invite(t)
    PROVE  ShapeInv'
<1> USE DEF boxVars, callVars, historyVars
<1>0. TaskSound(task[t], written) /\ TypeOK
  BY AtWork DEF ShapeInv
<1>1. CASE TrackActive(t)
  <2>1. PICK c \in Calls :
          /\ Becomes(t, IF IsActive(c) THEN Idle ELSE [pc |-> "track", call |-> c])
          /\ UNCHANGED <<boxVars, callVars, faults, historyVars>>
    BY <1>1 DEF TrackActive
  <2>2. TaskSound([pc |-> "track", call |-> c], written)
    BY DEF TaskSound, Idle, ApiPcs, CallPcs
  <2> QED BY <1>0, <2>1, <2>2, IdleSound, ShapeCall DEF TypeOK
<1>2. CASE TrackPending(t)
  <2>1. task[t].pc = "track" /\ task[t].call \in Calls /\ task[t] = [pc |-> "track", call |-> task[t].call]
    BY <1>0, <1>2 DEF TrackPending, At, TaskSound, CallPcs
  <2>2. TaskSound([task[t] EXCEPT !.pc = "lookup"], written)
    <3>1. [task[t] EXCEPT !.pc = "lookup"] = [pc |-> "lookup", call |-> task[t].call]
      BY <2>1, SMTT(30)
    <3>2. TaskSound([pc |-> "lookup", call |-> task[t].call], written)
      BY <2>1 DEF TaskSound, Idle, ApiPcs, CallPcs
    <3> QED BY <3>1, <3>2
  <2>3. \E r : Becomes(t, r) /\ TaskSound(r, written)
    BY <1>2, <2>2, IdleSound, GotoTakes DEF TrackPending
  <2> QED BY <1>0, <1>2, <2>1, <2>3, ShapeCall DEF TrackPending, TypeOK
<1>3. CASE AccessRefused(t)
  BY <1>0, <1>3, IdleSound, ShapeCall DEF AccessRefused, discard_access_candidate, TypeOK
<1>4. CASE AccessFails(t)
  BY <1>0, <1>4, IdleSound, ShapeCall DEF AccessFails, TypeOK
<1>5. CASE allocate(t)
  <2>1. task[t].call \in Calls
    BY <1>0, <1>5 DEF allocate, At, TaskSound, CallPcs
  <2>2. TaskSound([pc |-> "mode", call |-> task[t].call, key |-> greeting], written)
    BY <2>1 DEF TaskSound, Idle, ApiPcs, CallPcs
  <2> QED BY <1>0, <1>5, <2>1, <2>2, IdleSound, ShapeCall
          DEF allocate, discard_access_candidate, TypeOK
<1>6. CASE AccessMode(t)
  <2>1. task[t].call \in Calls
    BY <1>0, <1>6 DEF AccessMode, At, TaskSound, CallPcs
  <2>2. PICK l \in list_messages_for_mailbox \cup {<<>>} :
          Becomes(t, [pc |-> "insert", call |-> task[t].call, key |-> task[t].key,
                      entry |-> IF pin # <<>> THEN PinEntry ELSE Playback(l)])
    BY <1>6 DEF AccessMode
  <2>3. (IF pin # <<>> THEN PinEntry ELSE Playback(l)) \in EntryType
    <3>1. <<>> \in Seq(Messages)
      BY SMTT(30)
    <3> QED BY <2>2, <3>1, Listing, FirstEntries
  <2>4. ASSUME NEW e \in EntryType
        PROVE  TaskSound([pc |-> "insert", call |-> task[t].call, key |-> task[t].key, entry |-> e], written)
    BY <2>1 DEF TaskSound, Idle, ApiPcs, CallPcs
  <2> QED BY <1>0, <1>6, <2>2, <2>3, <2>4, ShapeCall DEF AccessMode, TypeOK
<1>7. CASE AccessInsert(t)
  <2>1. /\ task[t].call \in Calls /\ task[t].entry \in EntryType /\ task[t].pc = "insert"
        /\ task[t] = [pc |-> "insert", call |-> task[t].call, key |-> task[t].key, entry |-> task[t].entry]
    BY <1>0, <1>7 DEF AccessInsert, At, TaskSound, CallPcs
  <2>2. TaskSound([task[t] EXCEPT !.pc = "discard"], written)
    <3>1. [task[t] EXCEPT !.pc = "discard"] =
             [pc |-> "discard", call |-> task[t].call, key |-> task[t].key, entry |-> task[t].entry]
      BY <2>1, SMTT(30)
    <3>2. TaskSound([pc |-> "discard", call |-> task[t].call, key |-> task[t].key, entry |-> task[t].entry], written)
      BY <2>1 DEF TaskSound, Idle, ApiPcs, CallPcs
    <3> QED BY <3>1, <3>2
  <2>3. <<>> \in Seq(MenuDigits \cup Digits)
    BY SMTT(30)
  <2>4. Becomes(t, [task[t] EXCEPT !.pc = "discard"])
    BY <1>7, GotoTakes DEF AccessInsert
  <2> QED BY <1>0, <1>7, <2>1, <2>2, <2>3, <2>4, ShapeCall DEF AccessInsert, TypeOK
<1>8. CASE AccessEnds(t)
  BY <1>0, <1>8, IdleSound, ShapeCall DEF AccessEnds, discard_access_candidate, TypeOK
<1> QED BY <1>1, <1>2, <1>3, <1>4, <1>5, <1>6, <1>7, <1>8 DEF handle_access_invite

(* A BYE or CANCEL.                                                         *)
LEMMA ShapeBye ==
    ASSUME ShapeInv, NEW t \in Tasks, handle_bye(t)
    PROVE  ShapeInv'
<1> USE DEF boxVars, callVars, historyVars
<1>0. TaskSound(task[t], written) /\ TypeOK
  BY AtWork DEF ShapeInv
<1>1. CASE ByeRemovesCall(t)
  <2>1. PICK c \in Calls :
          /\ active' = [active EXCEPT ![c] = NoCall]
          /\ Becomes(t, [pc |-> "bye", call |-> c])
          /\ UNCHANGED <<boxVars, pending, media, prompts, faults, historyVars>>
    BY <1>1 DEF ByeRemovesCall
  <2>2. TaskSound([pc |-> "bye", call |-> c], written)
    BY DEF TaskSound, Idle, ApiPcs, CallPcs
  <2> QED BY <1>0, <2>1, <2>2, ShapeCall DEF TypeOK
<1>2. CASE ByeRemovesMedia(t)
  BY <1>0, <1>2, IdleSound, ShapeCall DEF ByeRemovesMedia, TypeOK
<1> QED BY <1>1, <1>2 DEF handle_bye

(* What handle_info goes on to do, case by case.                            *)
LEMMA Dispatched ==
    ASSUME NEW c, NEW k \in Keys, active[c] \in EntryType
    PROVE  LET e == active[c]
               r == Dispatch(c, k)
           IN  \/ e.mode = "pin" /\ k \in MenuDigits /\ r = Idle
               \/ e.mode = "pin" /\ k = "#" /\ r = [pc |-> "pin", call |-> c, right |-> typed[c] = pin]
               \/ e.mode = "pin" /\ k = "*" /\ r = [pc |-> "clear", call |-> c]
               \/ e.mode = "pin" /\ k \in Digits /\ r = [pc |-> "push", call |-> c, digit |-> k]
               \/ e.mode = "playback" /\ r = Idle
               \/ /\ e.mode = "playback" /\ e.index > 0 /\ e.list # <<>>
                  /\ r = [pc |-> "move", call |-> c, index |-> e.index - 1]
               \/ /\ e.mode = "playback" /\ e.index + 1 < Len(e.list)
                  /\ r = [pc |-> "move", call |-> c, index |-> e.index + 1]
               \/ /\ e.mode = "playback" /\ e.list # <<>>
                  /\ \E l \in {"delete", "save"} : r = [pc |-> l, call |-> c, index |-> e.index]
<1> DEFINE e == active[c]
           r == Dispatch(c, k)
<1>1. CASE e.mode = "pin"
  <2>1. CASE k = "#"
    <3>1. k \notin Digits
      BY <2>1, AccessAssumption
    <3> QED BY <1>1, <2>1, <3>1 DEF Dispatch
  <2>2. CASE k = "*"
    <3>1. k \notin Digits
      BY <2>2, AccessAssumption
    <3> QED BY <1>1, <2>2, <3>1 DEF Dispatch
  <2>3. CASE k \in Digits
    <3>1. k # "#" /\ k # "*"
      BY <2>3, AccessAssumption
    <3> QED BY <1>1, <2>3, <3>1 DEF Dispatch
  <2>4. CASE k \in MenuDigits
    <3>1. k # "#" /\ k # "*" /\ k \notin Digits
      BY <2>4, AccessAssumption DEF MenuDigits
    <3> QED BY <1>1, <2>4, <3>1 DEF Dispatch
  <2> QED BY <2>1, <2>2, <2>3, <2>4 DEF Keys
<1>2. CASE e.mode # "pin"
  <2>0. e.mode = "playback"
    BY <1>2, Entries
  <2>1. CASE k = "1" /\ e.index > 0 /\ e.list # <<>>
    BY <1>2, <2>0, <2>1, SMTT(30) DEF Dispatch
  <2>2. CASE k \in {"2", "#"} /\ e.index + 1 < Len(e.list)
    BY <1>2, <2>0, <2>2, SMTT(30) DEF Dispatch
  <2>3. CASE k = "7" /\ e.list # <<>>
    BY <1>2, <2>0, <2>3, SMTT(30) DEF Dispatch
  <2>4. CASE k = "9" /\ e.list # <<>>
    BY <1>2, <2>0, <2>4, SMTT(30) DEF Dispatch
  <2>5. CASE /\ ~(k = "1" /\ e.index > 0 /\ e.list # <<>>)
             /\ ~(k \in {"2", "#"} /\ e.index + 1 < Len(e.list))
             /\ ~(k = "7" /\ e.list # <<>>)
             /\ ~(k = "9" /\ e.list # <<>>)
    BY <1>2, <2>0, <2>5, SMTT(30) DEF Dispatch
  <2> QED BY <2>1, <2>2, <2>3, <2>4, <2>5
<1> QED BY <1>1, <1>2

(* What it remembers is sound.                                              *)
LEMMA DispatchSound ==
    ASSUME NEW c \in Calls, NEW k \in Keys, active[c] \in EntryType
    PROVE  /\ TaskSound(Dispatch(c, k), written)
           /\ Dispatch(c, k) = Idle \/ Dispatch(c, k).call = c
           /\ Dispatch(c, k).pc \notin ApiPcs
<1> DEFINE e == active[c]
<1>1. e.index \in Nat
  BY Entries
<1> USE DEF TaskSound, Idle, ApiPcs, CallPcs
<1>2. TaskSound([pc |-> "pin", call |-> c, right |-> typed[c] = pin], written)
  OBVIOUS
<1>3. TaskSound([pc |-> "clear", call |-> c], written)
  OBVIOUS
<1>4. k \in Digits => TaskSound([pc |-> "push", call |-> c, digit |-> k], written)
  OBVIOUS
<1>5. e.index > 0 => e.index - 1 \in Nat
  BY <1>1, SMTT(30)
<1>6. e.index + 1 \in Nat
  BY <1>1, SMTT(30)
<1>7. ASSUME NEW i \in Nat, NEW l \in {"move", "delete", "save"}
      PROVE  TaskSound([pc |-> l, call |-> c, index |-> i], written)
  BY <1>7
<1> HIDE DEF TaskSound, Idle, ApiPcs, CallPcs
<1>8. PICK r : r = Dispatch(c, k)
  OBVIOUS
<1> SUFFICES TaskSound(r, written) /\ (r = Idle \/ r.call = c) /\ r.pc \notin ApiPcs
  BY <1>8
<1>9. CASE r = Idle
  BY <1>9, IdleSound, IdlePc DEF ApiPcs
<1>10. CASE r = [pc |-> "pin", call |-> c, right |-> typed[c] = pin]
  BY <1>2, <1>10 DEF ApiPcs
<1>11. CASE r = [pc |-> "clear", call |-> c]
  BY <1>3, <1>11 DEF ApiPcs
<1>12. CASE k \in Digits /\ r = [pc |-> "push", call |-> c, digit |-> k]
  BY <1>4, <1>12 DEF ApiPcs
<1>13. CASE e.index > 0 /\ r = [pc |-> "move", call |-> c, index |-> e.index - 1]
  BY <1>5, <1>7, <1>13 DEF ApiPcs
<1>14. CASE r = [pc |-> "move", call |-> c, index |-> e.index + 1]
  BY <1>6, <1>7, <1>14 DEF ApiPcs
<1>15. CASE \E l \in {"delete", "save"} : r = [pc |-> l, call |-> c, index |-> e.index]
  <2>1. PICK l \in {"delete", "save"} : r = [pc |-> l, call |-> c, index |-> e.index]
    BY <1>15
  <2> QED BY <1>1, <1>7, <2>1 DEF ApiPcs
<1> QED BY <1>8, <1>9, <1>10, <1>11, <1>12, <1>13, <1>14, <1>15, Dispatched

(* The entry of a call from whose list an element was removed.              *)
LEMMA Dropped ==
    ASSUME ShapeInv, NEW t \in Tasks, DropEntry(t), EntryAt(t)
    PROVE  LET e == active[task[t].call]
               n == Len(e.list) - 1
           IN  /\ task[t].call \in Calls /\ task[t].index \in Nat
               /\ \E f \in EntryType :
                     /\ active' = [active EXCEPT ![task[t].call] = f]
                     /\ f.mode = e.mode
                     /\ f.list = RemoveAt(e.list, task[t].index + 1)
                     /\ f.index = IF e.index >= n /\ n > 0 THEN n - 1 ELSE e.index
<1>1. task[t].call \in Calls /\ task[t].index \in Nat
  BY AtWork DEF DropEntry, At, TaskSound, CallPcs
<1>2. PICK e \in EntryType, i \in Nat :
        e = active[task[t].call] /\ i = task[t].index /\ i + 1 \in 1 .. Len(e.list)
  BY <1>1, EntrySound
<1>3. PICK l \in Seq(Messages) : l = RemoveAt(e.list, i + 1)
  BY <1>2, Entries, Removed
<1>4. PICK j \in Nat : j = IF e.index >= Len(e.list) - 1 /\ Len(e.list) - 1 > 0 THEN Len(e.list) - 2 ELSE e.index
  <2>1. e.list \in Seq(Messages) /\ e.index \in Nat
    BY Entries
  <2>2. Len(e.list) - 1 > 0 => Len(e.list) - 2 \in Nat
    BY <2>1, SMTT(30)
  <2> QED BY <2>1, <2>2
<1>5. Len(e.list) - 1 - 1 = Len(e.list) - 2
  <2>1. e.list \in Seq(Messages)
    BY Entries
  <2> QED BY <2>1, SMTT(30)
<1>6. active' = [active EXCEPT ![task[t].call] = [e EXCEPT !.list = l, !.index = j]]
  BY <1>1, <1>2, <1>3, <1>4, <1>5 DEF DropEntry, ShapeInv, TypeOK
<1>7. PICK f : f = [e EXCEPT !.list = l, !.index = j]
  OBVIOUS
<1>8. f \in EntryType /\ f.mode = e.mode /\ f.list = l /\ f.index = j
  BY <1>7, Entries DEF EntryType
<1> QED BY <1>1, <1>2, <1>3, <1>4, <1>5, <1>6, <1>7, <1>8

(* An INFO with a key.                                                      *)
LEMMA ShapeInfo ==
    ASSUME ShapeInv, NEW t \in Tasks, handle_info(t)
    PROVE  ShapeInv'
<1> USE DEF boxVars, callVars, historyVars
<1>0. TaskSound(task[t], written) /\ TypeOK
  BY AtWork DEF ShapeInv
<1>a. <<>> \in Seq(MenuDigits \cup Digits) /\ <<>> \in Seq(Digits) /\ <<>> \in Seq(Messages)
  BY SMTT(30)
<1>b. ASSUME NEW c \in Calls, active[c] # NoCall PROVE active[c] \in EntryType
  BY <1>0, <1>b DEF TypeOK
<1>1. CASE InfoArrives(t)
  <2>1. PICK c \in Calls, k \in Keys :
          /\ IsActive(c)
          /\ Becomes(t, Dispatch(c, k))
          /\ typed' = [typed EXCEPT ![c] = IF InPlayback(c) \/ k \in {"#", "*"} THEN <<>> ELSE Append(@, k)]
          /\ UNCHANGED <<boxVars, callVars, faults, stuck, panicked, deletedBy, revived, refused, silent, broken>>
    BY <1>1 DEF InfoArrives
  <2>2. active[c] \in EntryType
    BY <1>b, <2>1 DEF IsActive
  <2>3. k \notin {"#", "*"} => Append(typed[c], k) \in Seq(MenuDigits \cup Digits)
    <3>1. k \notin {"#", "*"} => k \in MenuDigits \cup Digits
      BY DEF Keys
    <3>2. typed[c] \in Seq(MenuDigits \cup Digits)
      BY <1>0 DEF TypeOK
    <3> QED BY <3>1, <3>2, SMTT(30)
  <2>4. typed' \in [Calls -> Seq(MenuDigits \cup Digits)]
    BY <1>0, <1>a, <2>1, <2>3 DEF TypeOK
  <2> QED BY <1>0, <2>1, <2>2, <2>4, DispatchSound, ShapeCall DEF TypeOK
<1>2. CASE MoveCursor(t)
  <2>1. /\ task[t].call \in Calls /\ task[t].index \in Nat /\ task[t].pc = "move"
        /\ task[t] = [pc |-> "move", call |-> task[t].call, index |-> task[t].index]
    BY <1>0, <1>2 DEF MoveCursor, At, TaskSound, CallPcs
  <2>2. TaskSound([task[t] EXCEPT !.pc = "play"], written)
    <3>1. [task[t] EXCEPT !.pc = "play"] = [pc |-> "play", call |-> task[t].call, index |-> task[t].index]
      BY <2>1, SMTT(30)
    <3>2. TaskSound([pc |-> "play", call |-> task[t].call, index |-> task[t].index], written)
      BY <2>1 DEF TaskSound, Idle, ApiPcs, CallPcs
    <3> QED BY <3>1, <3>2
  <2>3. Becomes(t, [task[t] EXCEPT !.pc = "play"])
    BY <1>2, GotoTakes DEF MoveCursor
  <2>4. active' \in [Calls -> EntryType \cup {NoCall}]
    BY <1>0, <1>2, <1>b, <2>1, Entries DEF MoveCursor, InPlayback, IsActive, TypeOK
  <2> QED BY <1>0, <1>2, <2>2, <2>3, <2>4, ShapeCall DEF MoveCursor, TypeOK
<1>3. CASE play_message_at_index(t)
  <2>1. media' \subseteq Calls
    BY <1>0, <1>3 DEF play_message_at_index, TypeOK
  <2> QED BY <1>0, <1>3, <2>1, IdleSound, ShapeCall DEF play_message_at_index, TypeOK
<1>4. CASE ReadEntry(t)
  <2>1. task[t].call \in Calls /\ task[t].index \in Nat
    BY <1>0, <1>4 DEF ReadEntry, TaskSound, CallPcs
  <2>2. ASSUME EntryAt(t), NEW l \in {"delete_row", "save_row"}
        PROVE  TaskSound([pc |-> l, call |-> task[t].call, index |-> task[t].index, msg |-> Entry(t)], written)
    <3>1. Entry(t) \in Messages
      BY <2>1, <2>2, EntrySound
    <3> QED BY <2>1, <2>2, <3>1 DEF TaskSound, Idle, ApiPcs, CallPcs
  <2>3. \E r : Becomes(t, r) /\ TaskSound(r, written)
    BY <1>4, <2>2, IdleSound DEF ReadEntry
  <2> QED BY <1>0, <1>4, <2>3, ShapeCall DEF ReadEntry, TypeOK
<1>5. CASE DeleteRow(t)
  <2>1. /\ task[t].call \in Calls /\ task[t].index \in Nat /\ task[t].msg \in Messages /\ task[t].pc = "delete_row"
        /\ task[t] = [pc |-> "delete_row", call |-> task[t].call, index |-> task[t].index, msg |-> task[t].msg]
    BY <1>0, <1>5 DEF DeleteRow, At, TaskSound, CallPcs
  <2>2. TaskSound([task[t] EXCEPT !.pc = "drop"], written)
    <3>1. [task[t] EXCEPT !.pc = "drop"] =
             [pc |-> "drop", call |-> task[t].call, index |-> task[t].index, msg |-> task[t].msg]
      BY <2>1, SMTT(30)
    <3>2. TaskSound([pc |-> "drop", call |-> task[t].call, index |-> task[t].index, msg |-> task[t].msg], written)
      BY <2>1 DEF TaskSound, Idle, ApiPcs, CallPcs
    <3> QED BY <3>1, <3>2
  <2>3. Becomes(t, [task[t] EXCEPT !.pc = "drop"])
    BY <1>5, GotoTakes DEF DeleteRow
  <2> QED BY <1>0, <1>5, <2>1, <2>2, <2>3, ShapeCall DEF DeleteRow, TypeOK
<1>6. CASE SaveRow(t)
  <2>1. task[t].msg \in Messages
    BY <1>0, <1>6 DEF SaveRow, At, TaskSound
  <2> QED BY <1>0, <1>6, <2>1, IdleSound, ShapeCall DEF SaveRow, TypeOK
<1>7. CASE RowFails(t)
  BY <1>0, <1>7, IdleSound, ShapeCall DEF RowFails, TypeOK
<1>8. CASE DropEntry(t)
  <2>2. ASSUME EntryAt(t) PROVE active' \in [Calls -> EntryType \cup {NoCall}]
    BY <1>0, <1>8, <2>2, Dropped DEF TypeOK
  <2>3. active' \in [Calls -> EntryType \cup {NoCall}]
    BY <1>0, <1>8, <2>2 DEF DropEntry, TypeOK
  <2> QED BY <1>0, <1>8, <2>3, IdleSound, ShapeCall DEF DropEntry, TypeOK
<1>9. CASE PushDigit(t)
  <2>1. task[t].call \in Calls /\ task[t].digit \in Digits
    BY <1>0, <1>9 DEF PushDigit, At, TaskSound, CallPcs
  <2>2. ASSUME IsActive(task[t].call)
        PROVE  Append(active[task[t].call].buffer, task[t].digit) \in Seq(Digits)
    <3>1. active[task[t].call].buffer \in Seq(Digits)
      BY <1>b, <2>1, <2>2, Entries DEF IsActive
    <3> QED BY <2>1, <3>1, SMTT(30)
  <2>3. active' \in [Calls -> EntryType \cup {NoCall}]
    BY <1>0, <1>9, <1>b, <2>1, <2>2, Entries DEF PushDigit, SetBuffer, IsActive, TypeOK
  <2> QED BY <1>0, <1>9, <2>3, IdleSound, ShapeCall DEF PushDigit, TypeOK
<1>10. CASE ClearBuffer(t)
  <2>1. task[t].call \in Calls
    BY <1>0, <1>10 DEF ClearBuffer, At, TaskSound, CallPcs
  <2>2. active' \in [Calls -> EntryType \cup {NoCall}]
    BY <1>0, <1>10, <1>a, <1>b, <2>1, Entries DEF ClearBuffer, SetBuffer, IsActive, TypeOK
  <2> QED BY <1>0, <1>10, <2>2, IdleSound, ShapeCall DEF ClearBuffer, TypeOK
<1>11. CASE PinRead(t)
  <2>1. task[t].call \in Calls
    BY <1>0, <1>11 DEF PinRead, At, TaskSound, CallPcs
  <2>2. ASSUME IsActive(task[t].call)
        PROVE  TaskSound([pc |-> "verify", call |-> task[t].call, right |-> task[t].right,
                          pin |-> active[task[t].call].buffer], written)
    <3>1. active[task[t].call].buffer \in Seq(Digits)
      BY <1>b, <2>1, <2>2, Entries DEF IsActive
    <3> QED BY <2>1, <3>1 DEF TaskSound, Idle, ApiPcs, CallPcs
  <2>3. \E r : Becomes(t, r) /\ TaskSound(r, written)
    BY <1>11, <2>2, IdleSound DEF PinRead
  <2> QED BY <1>0, <1>11, <2>3, ShapeCall DEF PinRead, TypeOK
<1>12. CASE PinVerify(t)
  <2>1. task[t].call \in Calls
    BY <1>0, <1>12 DEF PinVerify, At, TaskSound, CallPcs
  <2>2. ASSUME NEW l \in {"list", "clear"} PROVE TaskSound([pc |-> l, call |-> task[t].call], written)
    BY <2>1, <2>2 DEF TaskSound, Idle, ApiPcs, CallPcs
  <2>3. \E r : Becomes(t, r) /\ TaskSound(r, written)
    BY <1>12, <2>2 DEF PinVerify
  <2> QED BY <1>0, <1>12, <2>3, ShapeCall DEF PinVerify, TypeOK
<1>13. CASE PinLookupFails(t)
  BY <1>0, <1>13, IdleSound, ShapeCall DEF PinLookupFails, TypeOK
<1>14. CASE PinList(t)
  <2>1. task[t].call \in Calls
    BY <1>0, <1>14 DEF PinList, At, TaskSound, CallPcs
  <2>2. PICK l \in list_messages_for_mailbox \cup {<<>>} :
          Becomes(t, [pc |-> "open", call |-> task[t].call, entry |-> Playback(l)])
    BY <1>14 DEF PinList
  <2>3. Playback(l) \in EntryType
    BY <1>a, <2>2, Listing, FirstEntries
  <2>4. TaskSound([pc |-> "open", call |-> task[t].call, entry |-> Playback(l)], written)
    BY <2>1, <2>3 DEF TaskSound, Idle, ApiPcs, CallPcs
  <2> QED BY <1>0, <1>14, <2>2, <2>4, ShapeCall DEF PinList, TypeOK
<1>15. CASE PinOpens(t)
  <2>1. task[t].call \in Calls /\ task[t].entry \in EntryType
    BY <1>0, <1>15 DEF PinOpens, At, TaskSound, CallPcs
  <2>2. active' \in [Calls -> EntryType \cup {NoCall}]
    BY <1>0, <1>15, <2>1 DEF PinOpens, TypeOK
  <2> QED BY <1>0, <1>15, <2>2, IdleSound, ShapeCall DEF PinOpens, TypeOK
<1> QED BY <1>1, <1>2, <1>3, <1>4, <1>5, <1>6, <1>7, <1>8, <1>9, <1>10, <1>11, <1>12, <1>13,
           <1>14, <1>15 DEF handle_info

(* An upload or a deletion of the greeting.                                 *)
LEMMA ShapeGreeting ==
    ASSUME ShapeInv, NEW t \in Tasks, upload_greeting(t) \/ delete_greeting(t)
    PROVE  ShapeInv'
<1> USE DEF boxVars, callVars, historyVars
<1>0. TaskSound(task[t], written) /\ TypeOK
  BY AtWork DEF ShapeInv
<1>1. CASE UploadArrives(t) \/ DeleteArrives(t)
  <2>1. PICK l \in {"write", "unlink"} : ReadsGreeting(t, l)
    BY <1>1 DEF UploadArrives, DeleteArrives
  <2>2. TaskSound([pc |-> l, call |-> NoCall, prev |-> greeting, key |-> NoKey], written)
    BY <1>0, <2>1 DEF TaskSound, Idle, ApiPcs, CallPcs, TypeOK
  <2> QED BY <1>0, <2>1, <2>2, ShapeCall DEF ReadsGreeting, TypeOK
<1>2. CASE UploadRejected(t)
  BY <1>0, <1>2, IdleSound, ShapeCall DEF UploadRejected, TypeOK
<1>3. CASE write_message(t)
  <2>1. task[t].prev \in 1 .. written \cup {NoKey}
    BY <1>0, <1>3 DEF write_message, At, TaskSound, ApiPcs
  <2>2. /\ written' \in 0 .. MaxFiles /\ written' = written + 1 /\ written' \in 1 .. written'
        /\ 1 .. written \subseteq 1 .. written'
    <3>1. written \in 0 .. MaxFiles /\ written < MaxFiles /\ written' = written + 1
      BY <1>0, <1>3 DEF write_message, TypeOK
    <3> QED BY <3>1, AccessAssumption, SMTT(30)
  <2>3. TypeOK'
    BY <1>0, <1>3, <2>2 DEF write_message, TypeOK
  <2>4. TaskSound([pc |-> "unlink", call |-> NoCall, prev |-> task[t].prev, key |-> written + 1], written')
    BY <2>1, <2>2 DEF TaskSound, Idle, ApiPcs, CallPcs
  <2> QED BY <1>3, <2>2, <2>3, <2>4, ShapeStep DEF write_message
<1>4. CASE UnlinkPrevious(t)
  <2>1. /\ task[t].pc = "unlink" /\ task[t].key \in 1 .. written \cup {NoKey}
        /\ task[t] = [pc |-> "unlink", call |-> NoCall, prev |-> task[t].prev, key |-> task[t].key]
    BY <1>0, <1>4 DEF UnlinkPrevious, At, TaskSound, ApiPcs
  <2>2. TaskSound([task[t] EXCEPT !.pc = "set_key"], written')
    <3>1. [task[t] EXCEPT !.pc = "set_key"] =
             [pc |-> "set_key", call |-> NoCall, prev |-> task[t].prev, key |-> task[t].key]
      BY <2>1, SMTT(30)
    <3>2. TaskSound([pc |-> "set_key", call |-> NoCall, prev |-> task[t].prev, key |-> task[t].key], written)
      BY <2>1 DEF TaskSound, Idle, ApiPcs, CallPcs
    <3> QED BY <1>4, <3>1, <3>2 DEF UnlinkPrevious
  <2>3. Becomes(t, [task[t] EXCEPT !.pc = "set_key"])
    BY <1>4, GotoTakes DEF UnlinkPrevious
  <2>4. TypeOK' /\ 1 .. written \subseteq 1 .. written'
    BY <1>0, <1>4 DEF UnlinkPrevious, TypeOK
  <2> QED BY <2>2, <2>3, <2>4, ShapeStep
<1>5. CASE SetGreetingKey(t)
  <2>1. task[t].key \in 1 .. written \cup {NoKey}
    BY <1>0, <1>5 DEF SetGreetingKey, At, TaskSound
  <2>2. TypeOK' /\ 1 .. written \subseteq 1 .. written'
    BY <1>0, <1>5, <2>1 DEF SetGreetingKey, TypeOK
  <2> QED BY <1>5, <2>2, IdleSound, ShapeStep DEF SetGreetingKey
<1>6. CASE SetGreetingKeyFails(t)
  BY <1>0, <1>6, IdleSound, ShapeCall DEF SetGreetingKeyFails, TypeOK
<1> QED BY <1>1, <1>2, <1>3, <1>4, <1>5, <1>6
        DEF upload_greeting, delete_greeting, ReplacesGreeting

(* The API on the mailbox and its messages, prompts and restarts.           *)
LEMMA ShapeOther ==
    ASSUME ShapeInv,
           \/ \E p \in prompts : play_wav(p)
           \/ create_box \/ update_box \/ MessageArrives
           \/ \E m \in Messages : update_message(m) \/ delete_message(m)
           \/ Restart
    PROVE  ShapeInv'
<1> USE DEF boxVars, callVars, historyVars
<1>0. TypeOK
  BY DEF ShapeInv
<1>a. ASSUME TypeOK', task' = task, written' = written PROVE ShapeInv'
  BY <1>a DEF ShapeInv
<1>1. CASE \E p \in prompts : play_wav(p)
  BY <1>0, <1>1, <1>a DEF play_wav, TypeOK
<1>2. CASE create_box
  BY <1>0, <1>2, <1>a DEF create_box, TypeOK
<1>3. CASE update_box
  BY <1>0, <1>3, <1>a DEF update_box, TypeOK
<1>4. CASE MessageArrives
  BY <1>0, <1>4, <1>a DEF MessageArrives, TypeOK
<1>5. CASE \E m \in Messages : update_message(m) \/ delete_message(m)
  <2>1. PICK m \in Messages, s \in {"new", "saved", "deleted"} : SetStatus(m, s)
    BY <1>5 DEF update_message, delete_message
  <2>2. TypeOK'
    BY <1>0, <2>1 DEF SetStatus, TypeOK
  <2> QED BY <1>a, <2>1, <2>2 DEF SetStatus
<1>6. CASE Restart
  <2>1. <<>> \in Seq(MenuDigits \cup Digits)
    BY SMTT(30)
  <2>2. TypeOK'
    BY <1>0, <1>6, <2>1 DEF Restart, TypeOK
  <2>3. \A t \in Tasks : task'[t] = Idle
    BY <1>6 DEF Restart
  <2>4. task' = [t \in Tasks |-> task'[t]] /\ DOMAIN task' = Tasks
    BY <1>6 DEF Restart
  <2> QED BY <2>2, <2>3, <2>4, IdleSound DEF ShapeInv
<1> QED BY <1>1, <1>2, <1>3, <1>4, <1>5, <1>6

(* Every step keeps the shape.                                              *)
LEMMA ShapeNext ==
    ASSUME ShapeInv, Next
    PROVE  ShapeInv'
BY ShapeAccess, ShapeBye, ShapeInfo, ShapeGreeting, ShapeOther DEF Next, Step

-----------------------------------------------------------------------------
(* Nothing leaks.                                                           *)

(* A step of one handler: whoever was responsible still is, or the handler  *)
(* takes it over, or there is nothing left to be responsible for.           *)
LEMMA LeakStep ==
    ASSUME ShapeInv, LeakInv, NEW t \in Tasks, NEW r, Becomes(t, r),
           \A c \in media' : c \in media \/ Holding(r, c),
           \A c \in media : IsActive(c) => active'[c] # NoCall \/ Holding(r, c),
           \A c \in media' : Holding(task[t], c) => active'[c] # NoCall \/ Holding(r, c),
           \A c \in pending' \ stuck' : c \in pending \ stuck \/ Waiting(r, c),
           \A c \in pending' \ stuck' : Waiting(task[t], c) => Waiting(r, c)
    PROVE  LeakInv'
<1>1. task'[t] = r /\ \A u \in Tasks : u # t => task'[u] = task[u]
  BY Takes
<1>2. ASSUME NEW c \in media' PROVE active'[c] # NoCall \/ \E u \in Tasks : Holding(task'[u], c)
  <2>1. CASE Holding(r, c)
    BY <1>1, <2>1
  <2>2. CASE c \in media /\ IsActive(c)
    BY <1>1, <2>2
  <2>3. CASE c \in media /\ \E u \in Tasks : Holding(task[u], c)
    <3>1. PICK u \in Tasks : Holding(task[u], c)
      BY <2>3
    <3> QED BY <1>1, <1>2, <3>1
  <2> QED BY <1>2, <2>1, <2>2, <2>3 DEF LeakInv
<1>3. ASSUME NEW c \in pending' \ stuck' PROVE \E u \in Tasks : Waiting(task'[u], c)
  <2>1. CASE Waiting(r, c)
    BY <1>1, <2>1
  <2>2. CASE c \in pending \ stuck
    <3>1. PICK u \in Tasks : Waiting(task[u], c)
      BY <2>2 DEF LeakInv
    <3> QED BY <1>1, <1>3, <3>1
  <2> QED BY <1>3, <2>1, <2>2
<1> QED BY <1>2, <1>3 DEF LeakInv, IsActive

(* Handlers that are neither setting a call up nor ending it add nothing.   *)
LEMMA LeakFrame ==
    ASSUME ShapeInv, LeakInv, NEW t \in Tasks, NEW r, Becomes(t, r),
           media' \subseteq media, pending' \subseteq pending, stuck \subseteq stuck',
           \A c \in Calls : IsActive(c) => active'[c] # NoCall,
           task[t].pc \notin {"lookup", "mode", "insert", "discard", "bye"}
    PROVE  LeakInv'
<1>1. media \subseteq Calls
  BY DEF ShapeInv, TypeOK
<1>2. \A c : ~Holding(task[t], c) /\ ~Waiting(task[t], c)
  BY DEF Holding, Waiting
<1> QED BY <1>1, <1>2, LeakStep

(* An INVITE.                                                               *)
LEMMA LeakAccess ==
    ASSUME ShapeInv, LeakInv, NEW t \in Tasks, handle_access_invite(t)
    PROVE  LeakInv'
<1> USE DEF boxVars, callVars, historyVars
<1>0. TaskSound(task[t], written) /\ TypeOK
  BY AtWork DEF ShapeInv
<1>1. CASE TrackActive(t)
  <2>1. PICK c \in Calls :
          /\ Becomes(t, IF IsActive(c) THEN Idle ELSE [pc |-> "track", call |-> c])
          /\ UNCHANGED <<boxVars, callVars, faults, historyVars>>
    BY <1>1 DEF TrackActive
  <2>2. task[t].pc = "idle"
    <3>1. task[t] = Idle
      BY <1>1 DEF TrackActive, Arrives
    <3> QED BY <3>1, IdlePc
  <2> QED BY <2>1, <2>2, LeakFrame DEF IsActive
<1>2. CASE TrackPending(t)
  <2>1. task[t].pc = "track"
    BY <1>2 DEF TrackPending, At
  <2>2. CASE task[t].call \in pending
    BY <1>2, <2>1, <2>2, LeakFrame DEF TrackPending, IsActive
  <2>3. CASE task[t].call \notin pending
    <3>1. Becomes(t, [task[t] EXCEPT !.pc = "lookup"])
      BY <1>2, <2>3, GotoTakes DEF TrackPending
    <3>2. task[t] = [pc |-> "track", call |-> task[t].call]
      BY <1>0, <2>1 DEF TaskSound
    <3>3. [task[t] EXCEPT !.pc = "lookup"] = [pc |-> "lookup", call |-> task[t].call]
      BY <3>2, SMTT(30)
    <3>4. Waiting([pc |-> "lookup", call |-> task[t].call], task[t].call)
      BY DEF Waiting
    <3>5. \A c : ~Holding(task[t], c) /\ ~Waiting(task[t], c)
      BY <2>1 DEF Holding, Waiting
    <3> QED BY <1>2, <3>1, <3>3, <3>4, <3>5, LeakStep DEF TrackPending, IsActive
  <2> QED BY <2>2, <2>3
<1>3. CASE AccessRefused(t) \/ (allocate(t) /\ task[t].call \in media)
  <2>1. \A c : ~Holding(task[t], c)
    BY <1>3 DEF Holding, AccessRefused, allocate, At
  <2>2. \A c : Waiting(task[t], c) => c = task[t].call
    BY DEF Waiting
  <2> QED BY <1>3, <2>1, <2>2, LeakStep DEF AccessRefused, allocate, discard_access_candidate, IsActive
<1>4. CASE AccessFails(t)
  <2>1. \A c : ~Holding(task[t], c)
    BY <1>4 DEF Holding, AccessFails, At
  <2>2. \A c : Waiting(task[t], c) => c = task[t].call
    BY DEF Waiting
  <2> QED BY <1>4, <2>1, <2>2, LeakStep DEF AccessFails, IsActive
<1>5. CASE allocate(t) /\ task[t].call \notin media
  <2>1. \A c : Waiting(task[t], c) \/ Holding(task[t], c) => c = task[t].call
    BY DEF Waiting, Holding
  <2>2. PICK r : r = [pc |-> "mode", call |-> task[t].call, key |-> greeting]
    OBVIOUS
  <2>3. Waiting(r, task[t].call) /\ Holding(r, task[t].call)
    BY <2>2 DEF Waiting, Holding
  <2>4. /\ Becomes(t, r) /\ media' = media \cup {task[t].call}
        /\ pending' = pending /\ stuck' = stuck /\ active' = active
    BY <1>5, <2>2 DEF allocate
  <2>5. /\ \A c \in media' : c \in media \/ Holding(r, c)
        /\ \A c \in media' : Holding(task[t], c) => Holding(r, c)
        /\ \A c \in pending' \ stuck' : Waiting(task[t], c) => Waiting(r, c)
    BY <2>1, <2>3, <2>4
  <2> QED BY <2>4, <2>5, LeakStep DEF IsActive
<1>6. CASE AccessMode(t)
  <2>1. \A c : Waiting(task[t], c) \/ Holding(task[t], c) => c = task[t].call
    BY DEF Waiting, Holding
  <2>2. PICK l, r : Becomes(t, r) /\ r = [pc |-> "insert", call |-> task[t].call, key |-> task[t].key,
                      entry |-> IF pin # <<>> THEN PinEntry ELSE Playback(l)]
    BY <1>6 DEF AccessMode
  <2>3. Waiting(r, task[t].call) /\ Holding(r, task[t].call)
    BY <2>2 DEF Waiting, Holding
  <2>4. /\ \A c \in media' : Holding(task[t], c) => Holding(r, c)
        /\ \A c \in pending' \ stuck' : Waiting(task[t], c) => Waiting(r, c)
    BY <2>1, <2>3
  <2>5. media' = media /\ pending' = pending /\ stuck' = stuck /\ active' = active
    BY <1>6 DEF AccessMode
  <2> QED BY <2>2, <2>4, <2>5, LeakStep DEF IsActive
<1>7. CASE AccessInsert(t)
  <2>1. \A c : Waiting(task[t], c) \/ Holding(task[t], c) => c = task[t].call
    BY DEF Waiting, Holding
  <2>2. /\ task[t].call \in Calls /\ task[t].entry \in EntryType
        /\ task[t] = [pc |-> "insert", call |-> task[t].call, key |-> task[t].key, entry |-> task[t].entry]
    BY <1>0, <1>7 DEF AccessInsert, At, TaskSound, CallPcs
  <2>3. PICK r : Becomes(t, r) /\ r = [task[t] EXCEPT !.pc = "discard"]
    BY <1>7, GotoTakes DEF AccessInsert
  <2>4. Waiting(r, task[t].call)
    <3>1. r = [pc |-> "discard", call |-> task[t].call, key |-> task[t].key, entry |-> task[t].entry]
      BY <2>2, <2>3, SMTT(30)
    <3> QED BY <3>1 DEF Waiting
  <2>5. media \subseteq Calls /\ \A c \in Calls : active'[c] = active[c] \/ active'[c] # NoCall
    BY <1>0, <1>7, <2>2, Entries DEF AccessInsert, TypeOK
  <2>6. active'[task[t].call] # NoCall
    BY <1>0, <1>7, <2>2, Entries DEF AccessInsert, TypeOK
  <2> QED BY <1>7, <2>1, <2>3, <2>4, <2>5, <2>6, LeakStep DEF AccessInsert, IsActive
<1>8. CASE AccessEnds(t)
  <2>1. \A c : ~Holding(task[t], c)
    BY <1>8 DEF Holding, AccessEnds, At
  <2>2. \A c : Waiting(task[t], c) => c = task[t].call
    BY DEF Waiting
  <2> QED BY <1>8, <2>1, <2>2, LeakStep DEF AccessEnds, discard_access_candidate, IsActive
<1> QED BY <1>1, <1>2, <1>3, <1>4, <1>5, <1>6, <1>7, <1>8 DEF handle_access_invite

(* A BYE.                                                                   *)
LEMMA LeakBye ==
    ASSUME ShapeInv, LeakInv, NEW t \in Tasks, handle_bye(t)
    PROVE  LeakInv'
<1> USE DEF boxVars, callVars, historyVars
<1>0. TaskSound(task[t], written) /\ TypeOK
  BY AtWork DEF ShapeInv
<1>1. CASE ByeRemovesCall(t)
  <2>1. PICK c, r :
          /\ c \in Calls
          /\ active' = [active EXCEPT ![c] = NoCall]
          /\ Becomes(t, r) /\ r = [pc |-> "bye", call |-> c]
          /\ UNCHANGED <<boxVars, pending, media, prompts, faults, historyVars>>
    BY <1>1 DEF ByeRemovesCall
  <2>2. Holding(r, c)
    BY <2>1 DEF Holding
  <2>3. \A d : ~Holding(task[t], d) /\ ~Waiting(task[t], d)
    <3>1. task[t] = Idle
      BY <1>1 DEF ByeRemovesCall, Arrives
    <3> QED BY <3>1, IdlePc DEF Holding, Waiting
  <2>4. \A d \in media : d # c => active'[d] = active[d]
    BY <1>0, <2>1 DEF TypeOK
  <2>5. \A d \in media : IsActive(d) => active'[d] # NoCall \/ Holding(r, d)
    BY <2>2, <2>4 DEF IsActive
  <2>6. media' = media /\ pending' = pending /\ stuck' = stuck
    BY <2>1
  <2> QED BY <2>1, <2>3, <2>5, <2>6, LeakStep
<1>2. CASE ByeRemovesMedia(t)
  <2>1. \A c : ~Waiting(task[t], c) /\ (Holding(task[t], c) => c = task[t].call)
    BY <1>2 DEF ByeRemovesMedia, At, Holding, Waiting
  <2> QED BY <1>2, <2>1, LeakStep DEF ByeRemovesMedia, IsActive
<1> QED BY <1>1, <1>2 DEF handle_bye

(* A key: the entry of an active call is changed and never removed.         *)
LEMMA InfoKeepsActive ==
    ASSUME ShapeInv, NEW t \in Tasks, handle_info(t)
    PROVE  \A c \in Calls : active[c] # NoCall => active'[c] # NoCall
<1> USE DEF boxVars, callVars, historyVars
<1>0. TaskSound(task[t], written) /\ TypeOK
  BY AtWork DEF ShapeInv
<1>1. ASSUME NEW c \in Calls, NEW e \in EntryType, active' = [active EXCEPT ![c] = e],
             NEW d \in Calls, active[d] # NoCall
      PROVE  active'[d] # NoCall
  BY <1>0, <1>1, Entries DEF TypeOK
<1>2. ASSUME NEW c \in Calls, active[c] # NoCall PROVE active[c] \in EntryType
  BY <1>0, <1>2 DEF TypeOK
<1>3. CASE active' = active
  BY <1>3
<1>4. CASE MoveCursor(t) /\ InPlayback(task[t].call)
  <2>1. task[t].call \in Calls /\ task[t].index \in Nat
    BY <1>0, <1>4 DEF MoveCursor, At, TaskSound, CallPcs
  <2> QED BY <1>1, <1>2, <1>4, <2>1, Entries DEF MoveCursor, InPlayback, IsActive
<1>5. CASE DropEntry(t)
  <2>1. CASE EntryAt(t)
    BY <1>1, <1>5, <2>1, Dropped
  <2>2. CASE ~EntryAt(t)
    BY <1>5, <2>2 DEF DropEntry
  <2> QED BY <2>1, <2>2
<1>6. CASE PushDigit(t) /\ IsActive(task[t].call)
  <2>1. task[t].call \in Calls /\ task[t].digit \in Digits
    BY <1>0, <1>6 DEF PushDigit, At, TaskSound, CallPcs
  <2>2. active[task[t].call].buffer \in Seq(Digits) /\ active[task[t].call] \in EntryType
    BY <1>2, <1>6, <2>1, Entries DEF IsActive
  <2>3. Append(active[task[t].call].buffer, task[t].digit) \in Seq(Digits)
    BY <2>1, <2>2, SMTT(30)
  <2> QED BY <1>1, <1>6, <2>1, <2>2, <2>3, Entries DEF PushDigit, SetBuffer
<1>7. CASE ClearBuffer(t) /\ IsActive(task[t].call)
  <2>1. task[t].call \in Calls
    BY <1>0, <1>7 DEF ClearBuffer, At, TaskSound, CallPcs
  <2>2. <<>> \in Seq(Digits)
    BY SMTT(30)
  <2> QED BY <1>1, <1>2, <1>7, <2>1, <2>2, Entries DEF ClearBuffer, SetBuffer, IsActive
<1>8. CASE PinOpens(t) /\ IsActive(task[t].call)
  <2>1. task[t].call \in Calls /\ task[t].entry \in EntryType
    BY <1>0, <1>8 DEF PinOpens, At, TaskSound, CallPcs
  <2> QED BY <1>1, <1>8, <2>1 DEF PinOpens
<1> QED BY <1>3, <1>4, <1>5, <1>6, <1>7, <1>8
        DEF handle_info, InfoArrives, MoveCursor, play_message_at_index, ReadEntry, DeleteRow, SaveRow,
            RowFails, PushDigit, ClearBuffer, SetBuffer, PinRead, PinVerify, PinLookupFails, PinList, PinOpens

(* A key leaves sessions and pending Call-IDs alone, or takes a session.    *)
LEMMA LeakInfo ==
    ASSUME ShapeInv, LeakInv, NEW t \in Tasks, handle_info(t)
    PROVE  LeakInv'
<1> USE DEF boxVars, callVars, historyVars
<1>1. media' \subseteq media /\ pending' \subseteq pending /\ stuck \subseteq stuck'
  BY DEF handle_info, InfoArrives, MoveCursor, play_message_at_index, ReadEntry, DeleteRow, SaveRow,
         RowFails, DropEntry, PushDigit, ClearBuffer, PinRead, PinVerify, PinLookupFails, PinList, PinOpens
<1>2. task[t].pc \notin {"lookup", "mode", "insert", "discard", "bye"}
  <2>1. CASE InfoArrives(t)
    <3>1. task[t] = Idle
      BY <2>1 DEF InfoArrives, Arrives
    <3> QED BY <3>1, IdlePc
  <2> QED BY <2>1
       DEF handle_info, MoveCursor, play_message_at_index, ReadEntry, DeleteRow, SaveRow, RowFails,
           DropEntry, PushDigit, ClearBuffer, PinRead, PinVerify, PinLookupFails, PinList, PinOpens, At
<1>3. \E r : Becomes(t, r)
  BY GotoTakes
     DEF handle_info, InfoArrives, MoveCursor, play_message_at_index, ReadEntry, DeleteRow, SaveRow,
         RowFails, DropEntry, PushDigit, ClearBuffer, PinRead, PinVerify, PinLookupFails, PinList, PinOpens
<1> QED BY <1>1, <1>2, <1>3, InfoKeepsActive, LeakFrame DEF IsActive

(* The greeting has nothing to do with calls.                               *)
LEMMA LeakGreeting ==
    ASSUME ShapeInv, LeakInv, NEW t \in Tasks, upload_greeting(t) \/ delete_greeting(t)
    PROVE  LeakInv'
<1> USE DEF boxVars, callVars, historyVars
<1> USE DEF upload_greeting, delete_greeting, ReplacesGreeting, UploadArrives, DeleteArrives, ReadsGreeting,
            UploadRejected, write_message, UnlinkPrevious, SetGreetingKey, SetGreetingKeyFails
<1>1. UNCHANGED <<callVars, stuck>>
  OBVIOUS
<1>2. task[t].pc \in {"idle", "write", "unlink", "set_key"}
  BY IdlePc DEF At, Arrives
<1>3. \E r : Becomes(t, r)
  BY GotoTakes
<1> HIDE DEF upload_greeting, delete_greeting
<1> QED BY <1>1, <1>2, <1>3, LeakFrame DEF IsActive

(* Every step keeps it.                                                     *)
LEMMA LeakNext ==
    ASSUME ShapeInv, LeakInv, Next
    PROVE  LeakInv'
<1> USE DEF boxVars, callVars, historyVars
<1>1. ASSUME task' = task, active' = active, media' = media, pending' = pending, stuck' = stuck
      PROVE  LeakInv'
  BY <1>1 DEF LeakInv, IsActive
<1>2. CASE \/ \E p \in prompts : play_wav(p)
           \/ create_box \/ update_box \/ MessageArrives
           \/ \E m \in Messages : update_message(m) \/ delete_message(m)
  BY <1>1, <1>2 DEF play_wav, create_box, update_box, MessageArrives, update_message, delete_message, SetStatus
<1>3. CASE Restart
  BY <1>3 DEF Restart, LeakInv
<1> QED BY <1>2, <1>3, LeakAccess, LeakBye, LeakInfo, LeakGreeting DEF Next, Step

-----------------------------------------------------------------------------
(* The greeting.                                                            *)

(* Keys of files are none that stands for no key.                           *)
LEMMA KeysAreFiles ==
    ASSUME ShapeInv
    PROVE  NoKey \notin 1 .. written /\ written \in Nat /\ (written < MaxFiles => NoKey \notin 1 .. written + 1)
<1>1. written \in Nat /\ 1 .. written \subseteq Files /\ (written < MaxFiles => 1 .. written + 1 \subseteq Files)
  <2>1. written \in 0 .. MaxFiles
    BY DEF ShapeInv, TypeOK
  <2> QED BY <2>1, AccessAssumption, SMTT(30) DEF Files
<1> QED BY <1>1, AccessAssumption

(* A handler that does not touch the greeting, or gives up before it did.   *)
LEMMA GreetingFrame ==
    ASSUME ShapeInv, GreetingInv, NEW t \in Tasks, NEW r, Becomes(t, r),
           UNCHANGED <<greeting, files, written>>, broken => broken',
           task[t].pc # "set_key", r.pc \notin ApiPcs
    PROVE  GreetingInv'
<1>1. task'[t] = r /\ \A u \in Tasks : u # t => task'[u] = task[u]
  BY Takes
<1>2. ASSUME NEW u \in Tasks, task'[u].pc \in ApiPcs PROVE task'[u] = task[u]
  BY <1>1, <1>2
<1>3. \A u \in Tasks : \A k : Carries(task'[u], k) => Carries(task[u], k)
  BY <1>2 DEF Carries, ApiPcs
<1>4. \A u \in Tasks : task[u].pc = "set_key" => task'[u].pc = "set_key"
  BY <1>1
<1>5. \A u \in Tasks : task'[u].pc \in {"write", "unlink"} => task'[u] = task[u]
  BY <1>2 DEF ApiPcs
<1>6. ASSUME ~broken, NEW u \in Tasks, NEW k \in 1 .. written, Carries(task'[u], k)
      PROVE  Owns(u, k, task', files, greeting)
  <2>1. Owns(u, k, task, files, greeting)
    BY <1>3, <1>6 DEF GreetingInv
  <2> QED BY <1>3, <1>5, <2>1 DEF Owns
<1>7. ~broken => greeting \in files \cup {NoKey} \/ \E u \in Tasks : task'[u].pc = "set_key"
  BY <1>4 DEF GreetingInv
<1> QED BY <1>6, <1>7 DEF GreetingInv

(* Calls, prompts and the other operations of the API leave it alone.       *)
LEMMA GreetingCalls ==
    ASSUME ShapeInv, GreetingInv, NEW t \in Tasks,
           handle_access_invite(t) \/ handle_bye(t) \/ handle_info(t)
    PROVE  GreetingInv'
<1> USE DEF boxVars, callVars, historyVars
<1>0. TaskSound(task[t], written)
  BY AtWork
<1>1. UNCHANGED <<greeting, files, written, broken>>
  BY DEF handle_access_invite, TrackActive, TrackPending, AccessRefused, AccessFails, allocate, AccessMode,
         AccessInsert, AccessEnds, handle_bye, ByeRemovesCall, ByeRemovesMedia,
         handle_info, InfoArrives, MoveCursor, play_message_at_index, ReadEntry, DeleteRow, SaveRow,
         RowFails, DropEntry, PushDigit, ClearBuffer, PinRead, PinVerify, PinLookupFails, PinList, PinOpens
<1>2. task[t].pc # "set_key"
  BY IdlePc
     DEF handle_access_invite, TrackActive, TrackPending, AccessRefused, AccessFails, allocate, AccessMode,
         AccessInsert, AccessEnds, handle_bye, ByeRemovesCall, ByeRemovesMedia,
         handle_info, InfoArrives, MoveCursor, play_message_at_index, ReadEntry, DeleteRow, SaveRow,
         RowFails, DropEntry, PushDigit, ClearBuffer, PinRead, PinVerify, PinLookupFails, PinList, PinOpens,
         At, Arrives
<1>3. CASE TrackPending(t) \/ AccessInsert(t) \/ MoveCursor(t) \/ DeleteRow(t)
  <2>1. task[t].pc \in {"track", "insert", "move", "delete_row"}
    BY <1>3 DEF TrackPending, AccessInsert, MoveCursor, DeleteRow, At
  <2>2. ASSUME NEW l, Goto(t, l), l \notin ApiPcs PROVE \E r : Becomes(t, r) /\ r.pc \notin ApiPcs
    <3>1. [task[t] EXCEPT !.pc = l].pc = l
      BY <1>0, <2>1, GotoFields
    <3> QED BY <2>2, <3>1, GotoTakes
  <2>3. "lookup" \notin ApiPcs /\ "discard" \notin ApiPcs /\ "play" \notin ApiPcs /\ "drop" \notin ApiPcs
        /\ Idle.pc \notin ApiPcs
    BY IdlePc DEF ApiPcs
  <2>4. \E r : Becomes(t, r) /\ r.pc \notin ApiPcs
    BY <1>3, <2>2, <2>3 DEF TrackPending, AccessInsert, MoveCursor, DeleteRow
  <2> QED BY <1>1, <1>2, <2>4, GreetingFrame
<1>4. CASE InfoArrives(t)
  <2>1. PICK c \in Calls, k \in Keys : IsActive(c) /\ Becomes(t, Dispatch(c, k))
    BY <1>4 DEF InfoArrives
  <2>2. active[c] \in EntryType
    BY <2>1 DEF IsActive, ShapeInv, TypeOK
  <2> QED BY <1>1, <1>2, <2>1, <2>2, DispatchSound, GreetingFrame
<1>5. CASE ~(TrackPending(t) \/ AccessInsert(t) \/ MoveCursor(t) \/ DeleteRow(t) \/ InfoArrives(t))
  <2>a. CASE Becomes(t, Idle)
    BY <1>1, <1>2, <2>a, IdlePc, GreetingFrame DEF ApiPcs
  <2>b. CASE ~Becomes(t, Idle)
    <3>1. \/ TrackActive(t) \/ allocate(t) \/ AccessMode(t) \/ ByeRemovesCall(t)
          \/ ReadEntry(t) \/ PinRead(t) \/ PinVerify(t) \/ PinList(t)
      BY <1>5, <2>b
         DEF handle_access_invite, AccessRefused, AccessFails, AccessEnds, handle_bye, ByeRemovesMedia,
             handle_info, play_message_at_index, SaveRow, RowFails, DropEntry, PushDigit, ClearBuffer,
             PinLookupFails, PinOpens
    <3>3. SUFFICES ASSUME \A r : Becomes(t, r) => r.pc \in ApiPcs PROVE FALSE
      BY <1>1, <1>2, GreetingFrame
    <3>4. CASE TrackActive(t)
      <4>1. PICK c : Becomes(t, [pc |-> "track", call |-> c])
        BY <2>b, <3>4 DEF TrackActive
      <4>2. [pc |-> "track", call |-> c].pc = "track"
        OBVIOUS
      <4> QED BY <3>3, <4>1, <4>2 DEF ApiPcs
    <3>5. CASE allocate(t)
      <4>1. PICK c : Becomes(t, [pc |-> "mode", call |-> c, key |-> greeting])
        BY <2>b, <3>5 DEF allocate
      <4>2. [pc |-> "mode", call |-> c, key |-> greeting].pc = "mode"
        OBVIOUS
      <4> QED BY <3>3, <4>1, <4>2 DEF ApiPcs
    <3>6. CASE AccessMode(t)
      <4>1. PICK c, k, e : Becomes(t, [pc |-> "insert", call |-> c, key |-> k, entry |-> e])
        BY <3>6 DEF AccessMode
      <4>2. [pc |-> "insert", call |-> c, key |-> k, entry |-> e].pc = "insert"
        OBVIOUS
      <4> QED BY <3>3, <4>1, <4>2 DEF ApiPcs
    <3>7. CASE ByeRemovesCall(t)
      <4>1. PICK c : Becomes(t, [pc |-> "bye", call |-> c])
        BY <3>7 DEF ByeRemovesCall
      <4>2. [pc |-> "bye", call |-> c].pc = "bye"
        OBVIOUS
      <4> QED BY <3>3, <4>1, <4>2 DEF ApiPcs
    <3>8. CASE ReadEntry(t)
      <4>1. PICK l \in {"delete_row", "save_row"} :
              Becomes(t, [pc |-> l, call |-> task[t].call, index |-> task[t].index, msg |-> Entry(t)])
        BY <2>b, <3>8 DEF ReadEntry
      <4>2. [pc |-> l, call |-> task[t].call, index |-> task[t].index, msg |-> Entry(t)].pc = l
        OBVIOUS
      <4> QED BY <3>3, <4>1, <4>2 DEF ApiPcs
    <3>9. CASE PinRead(t)
      <4>1. PICK c, q, b : Becomes(t, [pc |-> "verify", call |-> c, right |-> q, pin |-> b])
        BY <2>b, <3>9 DEF PinRead
      <4>2. [pc |-> "verify", call |-> c, right |-> q, pin |-> b].pc = "verify"
        OBVIOUS
      <4> QED BY <3>3, <4>1, <4>2 DEF ApiPcs
    <3>10. CASE PinVerify(t)
      <4>1. PICK l \in {"list", "clear"} : Becomes(t, [pc |-> l, call |-> task[t].call])
        BY <3>10 DEF PinVerify
      <4>2. [pc |-> l, call |-> task[t].call].pc = l
        OBVIOUS
      <4> QED BY <3>3, <4>1, <4>2 DEF ApiPcs
    <3>11. CASE PinList(t)
      <4>1. PICK c, e : Becomes(t, [pc |-> "open", call |-> c, entry |-> e])
        BY <3>11 DEF PinList
      <4>2. [pc |-> "open", call |-> c, entry |-> e].pc = "open"
        OBVIOUS
      <4> QED BY <3>3, <4>1, <4>2 DEF ApiPcs
    <3> QED BY <3>1, <3>4, <3>5, <3>6, <3>7, <3>8, <3>9, <3>10, <3>11
  <2> QED BY <2>a, <2>b
<1> QED BY <1>3, <1>4, <1>5

(* An upload or a deletion of the greeting.                                 *)
LEMMA GreetingChanges ==
    ASSUME ShapeInv, GreetingInv, NEW t \in Tasks, upload_greeting(t) \/ delete_greeting(t)
    PROVE  GreetingInv'
<1> USE DEF boxVars, callVars, historyVars
<1>0. TaskSound(task[t], written) /\ TypeOK /\ NoKey \notin 1 .. written
  BY AtWork, KeysAreFiles DEF ShapeInv
<1>a. ASSUME NEW r, Becomes(t, r)
      PROVE  task'[t] = r /\ \A u \in Tasks : u # t => task'[u] = task[u]
  BY <1>a, Takes
<1>1. CASE UploadArrives(t) \/ DeleteArrives(t)
  <2>1. PICK l \in {"write", "unlink"} : ReadsGreeting(t, l)
    BY <1>1 DEF UploadArrives, DeleteArrives
  <2>2. PICK r : Becomes(t, r) /\ r = [pc |-> l, call |-> NoCall, prev |-> greeting, key |-> NoKey]
    BY <2>1 DEF ReadsGreeting
  <2>3. task'[t] = r /\ \A u \in Tasks : u # t => task'[u] = task[u]
    BY <1>a, <2>2
  <2>4. r.prev = greeting /\ r.pc # "set_key" /\ \A k \in 1 .. written : ~Carries(r, k)
    BY <1>0, <2>1, <2>2 DEF Carries
  <2>5. task[t].pc = "idle"
    BY <2>1, IdlePc DEF ReadsGreeting, Arrives
  <2>6. UNCHANGED <<greeting, files, written, broken>>
    BY <2>1 DEF ReadsGreeting
  <2>7. \A u \in Tasks : task[u].pc = "set_key" => task'[u].pc = "set_key"
    BY <2>3, <2>5
  <2>8. \A u \in Tasks, k \in 1 .. written : Carries(task'[u], k) => u # t /\ Carries(task[u], k)
    BY <2>3, <2>4
  <2>9. ASSUME ~broken, NEW u \in Tasks, NEW k \in 1 .. written, Carries(task'[u], k)
        PROVE  Owns(u, k, task', files, greeting)
    <3>1. Owns(u, k, task, files, greeting)
      BY <2>8, <2>9 DEF GreetingInv
    <3>2. k # greeting
      BY <3>1 DEF Owns
    <3>3. \A v \in Tasks : task'[v].pc \in {"write", "unlink"} => task'[v].prev # k
      BY <2>3, <2>4, <3>1, <3>2 DEF Owns
    <3> QED BY <2>8, <3>1, <3>3 DEF Owns
  <2>10. ~broken => greeting \in files \cup {NoKey} \/ \E u \in Tasks : task'[u].pc = "set_key"
    BY <2>7 DEF GreetingInv
  <2> QED BY <2>6, <2>9, <2>10 DEF GreetingInv
<1>2. CASE UploadRejected(t)
  BY <1>2, IdlePc, GreetingFrame DEF UploadRejected, At, ApiPcs
<1>3. CASE write_message(t)
  <2>1. PICK k : k = written + 1
    OBVIOUS
  <2>2. PICK r : Becomes(t, r) /\ r = [pc |-> "unlink", call |-> NoCall, prev |-> task[t].prev, key |-> k]
    BY <1>3, <2>1 DEF write_message
  <2>3. task'[t] = r /\ \A u \in Tasks : u # t => task'[u] = task[u]
    BY <1>a, <2>2
  <2>4. k \notin 1 .. written /\ k # NoKey /\ 1 .. written' = 1 .. written \cup {k}
    <3>1. written \in Nat /\ written < MaxFiles /\ NoKey \notin 1 .. written + 1 /\ written' = written + 1
      BY <1>3, KeysAreFiles DEF write_message
    <3>2. written + 1 \in 1 .. written + 1 /\ written + 1 \notin 1 .. written
          /\ 1 .. written + 1 = 1 .. written \cup {written + 1}
      BY <3>1, SMTT(30)
    <3> QED BY <2>1, <3>1, <3>2
  <2>5. task[t].pc = "write"
    BY <1>3 DEF write_message, At
  <2>6. r.pc = "unlink" /\ r.prev = task[t].prev /\ r.key = k
    BY <2>2
  <2>7. files' = files \cup {k} /\ greeting' = greeting /\ broken' = broken
    BY <1>3, <2>1 DEF write_message
  <2>8. \A u \in Tasks : task[u].pc = "set_key" => task'[u].pc = "set_key"
    BY <2>3, <2>5
  <2>9. \A u \in Tasks : \A j : Carries(task'[u], j) => (u = t /\ j = k) \/ (u # t /\ Carries(task[u], j))
    BY <2>3, <2>6 DEF Carries
  <2>10. \A u \in Tasks : u # t => ~Carries(task[u], k)
    BY <2>4 DEF Carries, ShapeInv, TaskSound
  <2>11. \A u \in Tasks : task[u].pc \in {"write", "unlink"} => task[u].prev # k
    BY <2>4 DEF ShapeInv, TaskSound
  <2>12. \A u \in Tasks : task'[u].pc \in {"write", "unlink"} =>
            task[u].pc \in {"write", "unlink"} /\ task'[u].prev = task[u].prev
    BY <2>3, <2>5, <2>6
  <2>13. greeting # k
    BY <1>0, <2>4 DEF TypeOK
  <2>14. ASSUME ~broken, NEW u \in Tasks, NEW j \in 1 .. written', Carries(task'[u], j)
         PROVE  Owns(u, j, task', files', greeting')
    <3>1. CASE u = t /\ j = k
      BY <2>7, <2>9, <2>10, <2>11, <2>12, <2>13, <3>1 DEF Owns
    <3>2. CASE u # t /\ Carries(task[u], j)
      <4>1. j # k /\ j \in 1 .. written
        BY <2>4, <2>10, <2>14, <3>2
      <4>2. Owns(u, j, task, files, greeting)
        BY <2>14, <3>2, <4>1 DEF GreetingInv
      <4> QED BY <2>7, <2>9, <2>12, <4>1, <4>2 DEF Owns
    <3> QED BY <2>9, <2>14, <3>1, <3>2
  <2>15. ~broken => greeting' \in files' \cup {NoKey} \/ \E u \in Tasks : task'[u].pc = "set_key"
    BY <2>7, <2>8 DEF GreetingInv
  <2> QED BY <2>7, <2>14, <2>15 DEF GreetingInv
<1>4. CASE UnlinkPrevious(t)
  <2>1. /\ task[t].pc = "unlink"
        /\ task[t] = [pc |-> "unlink", call |-> NoCall, prev |-> task[t].prev, key |-> task[t].key]
    BY <1>0, <1>4 DEF UnlinkPrevious, At, TaskSound, ApiPcs
  <2>2. PICK r : Becomes(t, r) /\ r = [task[t] EXCEPT !.pc = "set_key"]
    BY <1>4, GotoTakes DEF UnlinkPrevious
  <2>3. task'[t] = r /\ \A u \in Tasks : u # t => task'[u] = task[u]
    BY <1>a, <2>2
  <2>4. r.pc = "set_key" /\ r.key = task[t].key
    <3>1. r = [pc |-> "set_key", call |-> NoCall, prev |-> task[t].prev, key |-> task[t].key]
      BY <2>1, <2>2, SMTT(30)
    <3> QED BY <3>1
  <2>5. files' = files \ {task[t].prev} /\ UNCHANGED <<greeting, written, broken>>
    BY <1>4 DEF UnlinkPrevious
  <2>6. \A u \in Tasks : \A k : Carries(task'[u], k) => Carries(task[u], k)
    BY <2>1, <2>3, <2>4 DEF Carries
  <2>7. \A u \in Tasks : task'[u].pc \in {"write", "unlink"} => task'[u] = task[u]
    BY <2>3, <2>4
  <2>8. task[t].pc \in {"write", "unlink"}
    BY <2>1
  <2>9. ASSUME ~broken, NEW u \in Tasks, NEW k \in 1 .. written', Carries(task'[u], k)
        PROVE  Owns(u, k, task', files', greeting')
    <3>1. Carries(task[u], k) /\ k \in 1 .. written
      BY <2>5, <2>6, <2>9
    <3>2. Owns(u, k, task, files, greeting)
      BY <2>9, <3>1 DEF GreetingInv
    <3>3. k \in files' /\ k # greeting'
      BY <2>5, <2>8, <3>2 DEF Owns
    <3>4. ASSUME NEW v \in Tasks, task'[v].pc \in {"write", "unlink"} PROVE task'[v].prev # k
      BY <2>7, <3>2, <3>4 DEF Owns
    <3>5. ASSUME NEW v \in Tasks, Carries(task'[v], k) PROVE v = u
      BY <2>6, <3>2, <3>5 DEF Owns
    <3> QED BY <3>3, <3>4, <3>5 DEF Owns
  <2>10. \E u \in Tasks : task'[u].pc = "set_key"
    BY <2>3, <2>4
  <2> QED BY <2>5, <2>9, <2>10 DEF GreetingInv
<1>5. CASE SetGreetingKey(t)
  <2>1. task[t].pc = "set_key" /\ task[t].key \in 1 .. written \cup {NoKey}
    BY <1>0, <1>5 DEF SetGreetingKey, At, TaskSound
  <2>2. task'[t] = Idle /\ \A u \in Tasks : u # t => task'[u] = task[u]
    BY <1>5, <1>a DEF SetGreetingKey
  <2>3. greeting' = task[t].key /\ UNCHANGED <<files, written, broken>>
    BY <1>5 DEF SetGreetingKey
  <2>4. \A u \in Tasks : \A k : Carries(task'[u], k) => u # t /\ Carries(task[u], k)
    BY <2>2, IdlePc DEF Carries
  <2>5. \A u \in Tasks : task'[u].pc \in {"write", "unlink"} => task'[u] = task[u]
    BY <2>2, IdlePc
  <2>6. Carries(task[t], task[t].key)
    BY <2>1 DEF Carries
  <2>7. ASSUME ~broken, NEW u \in Tasks, NEW k \in 1 .. written', Carries(task'[u], k)
        PROVE  Owns(u, k, task', files', greeting')
    <3>1. Carries(task[u], k) /\ k \in 1 .. written /\ u # t
      BY <2>3, <2>4, <2>7
    <3>2. Owns(u, k, task, files, greeting)
      BY <2>7, <3>1 DEF GreetingInv
    <3>3. task[t].key # k
      <4>1. ASSUME task[t].key = k PROVE Carries(task[t], k)
        BY <2>6, <4>1
      <4> QED BY <3>1, <3>2, <4>1 DEF Owns
    <3> QED BY <2>3, <2>4, <2>5, <3>2, <3>3 DEF Owns
  <2>8. ~broken => greeting' \in files' \cup {NoKey}
    BY <2>1, <2>3, <2>6 DEF GreetingInv, Owns
  <2> QED BY <2>3, <2>7, <2>8 DEF GreetingInv
<1>6. CASE SetGreetingKeyFails(t)
  BY <1>6 DEF SetGreetingKeyFails, GreetingInv
<1> QED BY <1>1, <1>2, <1>3, <1>4, <1>5, <1>6
        DEF upload_greeting, delete_greeting, ReplacesGreeting

(* Every step keeps it.                                                     *)
LEMMA GreetingNext ==
    ASSUME ShapeInv, GreetingInv, Next
    PROVE  GreetingInv'
<1> USE DEF boxVars, callVars, historyVars
<1>1. ASSUME task' = task, greeting' = greeting, files' = files, written' = written, broken' = broken
      PROVE  GreetingInv'
  BY <1>1 DEF GreetingInv
<1>2. CASE \/ \E p \in prompts : play_wav(p)
           \/ create_box \/ MessageArrives
           \/ \E m \in Messages : update_message(m) \/ delete_message(m)
  BY <1>1, <1>2 DEF play_wav, create_box, MessageArrives, update_message, delete_message, SetStatus
<1>3. CASE update_box
  <2>1. CASE broken'
    BY <2>1 DEF GreetingInv
  <2>2. CASE ~broken'
    BY <1>1, <1>3, <2>2 DEF update_box
  <2> QED BY <2>1, <2>2
<1>4. CASE Restart
  <2>1. \A t \in Tasks : \A k : ~Carries(task'[t], k)
    BY <1>4, IdlePc DEF Restart, Carries
  <2> QED BY <1>4, <2>1 DEF Restart, GreetingInv
<1> QED BY <1>2, <1>3, <1>4, GreetingCalls, GreetingChanges DEF Next, Step

-----------------------------------------------------------------------------
(* The menu: what happens to one call does not disturb another.             *)

(* Elements of a list.                                                      *)
LEMMA Elements ==
    ASSUME NEW S, NEW l \in Seq(S)
    PROVE  \A i \in 1 .. Len(l) : l[i] \in S
BY SMTT(30)

(* A list without a message that the call deleted stays one as long as the  *)
(* call deletes nothing.                                                    *)
LEMMA FitsKept ==
    ASSUME NEW c, NEW e \in EntryType, NEW D, NEW D1, Fits(c, e, D),
           \A m \in Messages : D1[m] = c => D[m] = c
    PROVE  Fits(c, e, D1)
<1>1. \A i \in 1 .. Len(e.list) : e.list[i] \in Messages
  BY Entries, Elements
<1> QED BY <1>1 DEF Fits

(* Nothing that is claimed of a call depends on what others do.             *)
LEMMA Looser ==
    ASSUME NEW c, NEW e \in EntryType \cup {NoCall}, NEW y, NEW D, NEW D1, NEW sane, NEW sane1,
           NEW p, NEW r, NEW w, TaskSound(r, w),
           \A m \in Messages : D1[m] = c => D[m] = c, sane1 => sane
    PROVE  /\ Rests(c, e, y, D, sane) => Rests(c, e, y, D1, sane1)
           /\ Doing(r, c, e, y, D, sane, p) => Doing(r, c, e, y, D1, sane1, p)
<1>1. Rests(c, e, y, D, sane) => Rests(c, e, y, D1, sane1)
  BY FitsKept DEF Rests
<1>2. ASSUME Doing(r, c, e, y, D, sane, p) PROVE Doing(r, c, e, y, D1, sane1, p)
  <2>1. r.pc \in {"insert", "open"} => r.entry \in EntryType
    BY DEF TaskSound
  <2>2. r.pc = "insert" => r.entry = PinEntry \/ (r.entry.mode = "playback" /\ Fits(c, r.entry, D1))
    BY <1>2, <2>1, FitsKept DEF Doing
  <2>3. r.pc = "open" => r.entry.mode = "playback" /\ Fits(c, r.entry, D1)
    BY <1>2, <2>1, FitsKept DEF Doing
  <2>4. r.pc \in {"discard", "move", "play", "delete", "save", "delete_row", "save_row"} =>
            Rests(c, e, y, D1, sane1)
    BY <1>1, <1>2 DEF Doing
  <2>5. r.pc = "drop" => \A i \in 1 .. Len(e.list) : i # r.index + 1 => D1[e.list[i]] # c
    <3>1. SUFFICES ASSUME r.pc = "drop" PROVE \A i \in 1 .. Len(e.list) : i # r.index + 1 => D1[e.list[i]] # c
      OBVIOUS
    <3>2. e \in EntryType
      BY <1>2, <3>1 DEF Doing
    <3>3. \A i \in 1 .. Len(e.list) : e.list[i] \in Messages
      BY <3>2, Entries, Elements
    <3> QED BY <1>2, <3>1, <3>3 DEF Doing
  <2> QED BY <1>2, <2>2, <2>3, <2>4, <2>5 DEF Doing
<1> QED BY <1>1, <1>2

(* Keys that cannot be part of a PIN, and keys that do nothing while         *)
(* messages are played.                                                     *)
LEMMA Typing ==
    ASSUME NEW c, NEW e \in EntryType, NEW y, NEW y1, NEW D, NEW sane, NEW p, NEW r,
           e.mode = "playback" \/ y1 \notin Seq(Digits)
    PROVE  /\ Rests(c, e, y, D, sane) => Rests(c, e, y1, D, sane)
           /\ Doing(r, c, e, y, D, sane, p) => Doing(r, c, e, y1, D, sane, p)
<1>1. Rests(c, e, y, D, sane) => Rests(c, e, y1, D, sane)
  BY DEF Rests
<1> QED BY <1>1 DEF Doing

Untouched(d) ==
    /\ active'[d] = active[d] /\ typed'[d] = typed[d]
    /\ d \in stuck => d \in stuck'
    /\ \A m \in Messages : deletedBy'[m] = d => deletedBy[m] = d

Overlaps ==
    overlapped' = overlapped \cup
        {c \in Calls : \E t, u \in Tasks : t # u /\ Busy(t, c)' /\ Busy(u, c)'}

(* Requests of a call overlap as soon as two of them are handled.           *)
LEMMA AloneAfter ==
    ASSUME Overlaps, NEW c \in Calls, c \notin overlapped'
    PROVE  c \notin overlapped /\ Alone(c)'
<1>1. c \notin overlapped
  BY DEF Overlaps
<1>2. ASSUME NEW t \in Tasks, NEW u \in Tasks, Busy(t, c)', Busy(u, c)' PROVE t = u
  BY <1>2 DEF Overlaps
<1> QED BY <1>1, <1>2 DEF Alone

(* A call that no step of a handler touches.                                *)
LEMMA Bystander ==
    ASSUME ShapeInv, NEW t \in Tasks, NEW r, Becomes(t, r), pin' = pin,
           NEW d \in Calls, Untouched(d), State(d), ~Busy(t, d), r = Idle \/ r.call # d
    PROVE  State(d)'
<1>1. task'[t] = r /\ \A u \in Tasks : u # t => task'[u] = task[u]
  BY Takes
<1>2. active[d] \in EntryType \cup {NoCall} /\ \A u \in Tasks : TaskSound(task[u], written)
  BY DEF ShapeInv, TypeOK
<1>3. Resting(d) => Resting(d)'
  BY <1>2, Looser, IdleSound DEF Resting, Untouched
<1>4. \A u \in Tasks : ~Busy(u, d) => ~Busy(u, d)'
  BY <1>1 DEF Busy
<1>5. ASSUME NEW u \in Tasks, Working(u, d) PROVE Working(u, d)'
  <2>1. u # t /\ task'[u] = task[u]
    BY <1>1, <1>5 DEF Working
  <2>2. Busy(u, d)'
    BY <1>5, <2>1 DEF Busy, Working
  <2>3. Doing(task[u], d, active[d], typed[d], deletedBy', d \notin stuck', pin)
    BY <1>2, <1>5, Looser DEF Working, Untouched
  <2> QED BY <2>1, <2>2, <2>3 DEF Working, Untouched
<1> QED BY <1>3, <1>4, <1>5 DEF State

(* A step of a handler at work on call c.                                   *)
LEMMA MenuStep ==
    ASSUME ShapeInv, MenuFits, Overlaps, pin' = pin, NEW t \in Tasks, NEW r, Becomes(t, r),
           NEW c \in Calls, task[t] # Idle, task[t].call = c, r = Idle \/ r.call = c,
           \A d \in Calls \ {c} : Untouched(d),
           /\ c \notin overlapped'
           /\ Doing(task[t], c, active[c], typed[c], deletedBy, c \notin stuck, pin)
           => IF r = Idle THEN Resting(c)'
              ELSE Doing(r, c, active'[c], typed'[c], deletedBy', c \notin stuck', pin)
    PROVE  MenuFits'
<1>1. task'[t] = r /\ \A u \in Tasks : u # t => task'[u] = task[u]
  BY Takes
<1>2. ASSUME NEW d \in Calls, d \notin overlapped' PROVE Alone(d)' /\ State(d)'
  <2>1. d \notin overlapped /\ Alone(d)' /\ Alone(d) /\ State(d)
    BY <1>2, AloneAfter DEF MenuFits
  <2>2. CASE d # c
    <3>1. ~Busy(t, d)
      BY <2>2 DEF Busy
    <3> QED BY <2>1, <2>2, <3>1, Bystander
  <2>3. CASE d = c
    <3>1. Busy(t, c)
      BY DEF Busy
    <3>2. \A u \in Tasks : Busy(u, c) => u = t
      BY <2>1, <2>3, <3>1 DEF Alone
    <3>3. Doing(task[t], c, active[c], typed[c], deletedBy, c \notin stuck, pin)
      BY <2>1, <2>3, <3>1, <3>2 DEF State, Working
    <3>4. CASE r = Idle
      <4>1. \A u \in Tasks : ~Busy(u, c)'
        BY <1>1, <3>2, <3>4 DEF Busy
      <4> QED BY <1>2, <2>1, <2>3, <3>3, <3>4, <4>1 DEF State
    <3>5. CASE r # Idle
      <4>1. Busy(t, c)'
        BY <1>1, <3>5 DEF Busy
      <4>2. Working(t, c)'
        BY <1>1, <1>2, <2>3, <3>3, <3>5, <4>1 DEF Working
      <4> QED BY <2>1, <2>3, <4>2 DEF State
    <3> QED BY <3>4, <3>5
  <2> QED BY <2>2, <2>3
<1> QED BY <1>2 DEF MenuFits

(* A request of call c arrives.                                             *)
LEMMA MenuArrives ==
    ASSUME ShapeInv, MenuFits, Overlaps, pin' = pin, NEW t \in Tasks, NEW r, Becomes(t, r),
           NEW c \in Calls, task[t] = Idle, r # Idle, r.call = c,
           \A d \in Calls \ {c} : Untouched(d),
           c \notin overlapped' /\ Resting(c)
           => Doing(r, c, active'[c], typed'[c], deletedBy', c \notin stuck', pin)
    PROVE  MenuFits'
<1>1. task'[t] = r /\ \A u \in Tasks : u # t => task'[u] = task[u]
  BY Takes
<1>2. ASSUME NEW d \in Calls, d \notin overlapped' PROVE Alone(d)' /\ State(d)'
  <2>1. d \notin overlapped /\ Alone(d)' /\ State(d)
    BY <1>2, AloneAfter DEF MenuFits
  <2>2. CASE d # c
    <3>1. ~Busy(t, d)
      BY DEF Busy
    <3> QED BY <2>1, <2>2, <3>1, Bystander
  <2>3. CASE d = c
    <3>1. Busy(t, c)'
      BY <1>1 DEF Busy
    <3>2. \A u \in Tasks : ~Busy(u, c)
      <4>1. ASSUME NEW u \in Tasks, Busy(u, c) PROVE FALSE
        <5>1. u # t
          BY <4>1 DEF Busy
        <5>2. Busy(u, c)'
          BY <1>1, <4>1, <5>1 DEF Busy
        <5> QED BY <2>1, <2>3, <3>1, <5>1, <5>2 DEF Alone
      <4> QED BY <4>1
    <3>3. Resting(c)
      BY <2>1, <2>3, <3>2 DEF State, Working
    <3>4. Working(t, c)'
      BY <1>1, <1>2, <2>3, <3>1, <3>3 DEF Working
    <3> QED BY <2>1, <2>3, <3>4 DEF State
  <2> QED BY <2>2, <2>3
<1> QED BY <1>2 DEF MenuFits

(* A step that touches no call, by a handler at work on none.               *)
LEMMA MenuQuiet ==
    ASSUME ShapeInv, MenuFits, Overlaps, pin' = pin, NEW t \in Tasks, NEW r, Becomes(t, r),
           task[t] = Idle \/ task[t].call \notin Calls, r = Idle \/ r.call \notin Calls,
           \A d \in Calls : Untouched(d)
    PROVE  MenuFits'
<1>1. ASSUME NEW d \in Calls, d \notin overlapped' PROVE Alone(d)' /\ State(d)'
  <2>1. d \notin overlapped /\ Alone(d)' /\ State(d)
    BY <1>1, AloneAfter DEF MenuFits
  <2>2. ~Busy(t, d) /\ (r = Idle \/ r.call # d)
    BY DEF Busy
  <2> QED BY <2>1, <2>2, Bystander
<1> QED BY <1>1 DEF MenuFits

(* A step of no handler.                                                    *)
LEMMA MenuStays ==
    ASSUME ShapeInv, MenuFits, Overlaps, pin' = pin, task' = task, \A d \in Calls : Untouched(d)
    PROVE  MenuFits'
<1>1. ASSUME NEW d \in Calls, d \notin overlapped' PROVE Alone(d)' /\ State(d)'
  <2>1. d \notin overlapped /\ Alone(d)' /\ State(d)
    BY <1>1, AloneAfter DEF MenuFits
  <2>2. active[d] \in EntryType \cup {NoCall} /\ \A u \in Tasks : TaskSound(task[u], written)
    BY DEF ShapeInv, TypeOK
  <2>3. Resting(d) => Resting(d)'
    BY <2>2, Looser, IdleSound DEF Resting, Untouched
  <2>4. \A u \in Tasks : Busy(u, d)' <=> Busy(u, d)
    BY DEF Busy
  <2>5. ASSUME NEW u \in Tasks, Working(u, d) PROVE Working(u, d)'
    <3>1. Doing(task[u], d, active[d], typed[d], deletedBy', d \notin stuck', pin)
      BY <2>2, <2>5, Looser DEF Working, Untouched
    <3> QED BY <2>4, <2>5, <3>1 DEF Working, Untouched
  <2> QED BY <2>1, <2>3, <2>4, <2>5 DEF State
<1> QED BY <1>1 DEF MenuFits

(* A list just read has its cursor on a message and none the call deleted.  *)
LEMMA ListFits ==
    ASSUME MenuInv, NEW c \in Calls, NEW l \in list_messages_for_mailbox \cup {<<>>}
    PROVE  Playback(l).mode = "playback" /\ Fits(c, Playback(l), deletedBy)
<1>1. l \in Seq(Messages) /\ Distinct(l) /\ \A i \in 1 .. Len(l) : l[i] \in Present
  <2>1. <<>> \in Seq(Messages) /\ 1 .. Len(<<>>) = {}
    BY SMTT(30)
  <2> QED BY <2>1, Listing DEF Distinct
<1>2. \A i \in 1 .. Len(l) : deletedBy[l[i]] # c
  BY <1>1 DEF MenuInv, Present
<1>3. 0 < Len(l) \/ l = <<>>
  BY <1>1, SMTT(30)
<1>4. /\ Playback(l).mode = "playback" /\ Playback(l).list = l
      /\ Playback(l).index = 0
  BY DEF Playback
<1> QED BY <1>1, <1>2, <1>3, <1>4 DEF Fits

(* While a call is set up or ended it has no entry.                         *)
LEMMA NoEntry ==
    ASSUME NEW c, NEW e, NEW y, NEW D, NEW sane, NEW p, NEW r, e = NoCall
    PROVE  /\ Rests(c, e, y, D, sane)
           /\ r.pc \in {"track", "lookup", "mode", "bye"} => Doing(r, c, e, y, D, sane, p)
BY DEF Rests, Doing

(* A handler at work on a call.                                             *)
LEMMA AtCall ==
    ASSUME ShapeInv, NEW t \in Tasks, task[t].pc \in CallPcs
    PROVE  task[t] # Idle /\ task[t].call \in Calls
<1>1. TaskSound(task[t], written) /\ task[t].pc # "idle"
  BY AtWork DEF CallPcs
<1> QED BY <1>1, IdlePc DEF TaskSound

(* The menu while a call is set up.                                         *)
LEMMA MenuAccess ==
    ASSUME ShapeInv, MenuInv, Overlaps, NEW t \in Tasks, handle_access_invite(t)
    PROVE  MenuFits'
<1> USE DEF boxVars, callVars, historyVars
<1>0. TaskSound(task[t], written) /\ TypeOK /\ MenuFits
  BY AtWork DEF ShapeInv, MenuInv
<1>1. CASE TrackActive(t)
  <2>1. PICK c \in Calls :
          /\ Becomes(t, IF IsActive(c) THEN Idle ELSE [pc |-> "track", call |-> c])
          /\ UNCHANGED <<boxVars, callVars, faults, historyVars>>
    BY <1>1 DEF TrackActive
  <2>2. task[t] = Idle /\ \A d \in Calls : Untouched(d)
    BY <1>1, <2>1 DEF TrackActive, Arrives, Untouched
  <2>3. CASE IsActive(c)
    BY <1>0, <2>1, <2>2, <2>3, MenuQuiet
  <2>4. CASE ~IsActive(c)
    <3>1. PICK r : r = [pc |-> "track", call |-> c] /\ Becomes(t, r)
      BY <2>1, <2>4
    <3>2. r.pc = "track" /\ r.call = c /\ r # Idle
      <4>1. r.pc = "track" /\ r.call = c
        BY <3>1
      <4> QED BY <4>1, IdlePc
    <3>3. Doing(r, c, active'[c], typed'[c], deletedBy', c \notin stuck', pin)
      <4>1. active'[c] = NoCall
        BY <2>1, <2>4 DEF IsActive
      <4> QED BY <3>2, <4>1, NoEntry
    <3> QED BY <1>0, <2>1, <2>2, <3>1, <3>2, <3>3, MenuArrives
  <2> QED BY <2>3, <2>4
<1>2. CASE TrackPending(t) \/ AccessRefused(t) \/ allocate(t) \/ AccessFails(t)
  <2>1. task[t].pc \in {"track", "lookup"}
    BY <1>2 DEF TrackPending, AccessRefused, allocate, AccessFails, At
  <2>2. PICK c \in Calls : c = task[t].call /\ task[t] # Idle
    BY <2>1, AtCall DEF CallPcs
  <2>3. \E r : Becomes(t, r) /\ (r = Idle \/ (r.call = c /\ r.pc \in {"lookup", "mode"}))
    <3>1. CASE TrackPending(t)
      <4>1. task[t].pc = "track"
        BY <3>1 DEF TrackPending, At
      <4>2. PICK r : r = [task[t] EXCEPT !.pc = "lookup"]
        OBVIOUS
      <4>3. r.pc = "lookup" /\ r.call = c
        BY <1>0, <2>2, <4>1, <4>2, GotoFields
      <4> QED BY <3>1, <4>2, <4>3, GotoTakes DEF TrackPending
    <3>2. CASE allocate(t)
      <4>1. PICK r : r = [pc |-> "mode", call |-> c, key |-> greeting]
        OBVIOUS
      <4>2. r.pc = "mode" /\ r.call = c
        BY <4>1
      <4>3. Becomes(t, Idle) \/ Becomes(t, r)
        BY <2>2, <3>2, <4>1 DEF allocate
      <4> QED BY <4>2, <4>3
    <3> QED BY <1>2, <3>1, <3>2 DEF AccessRefused, AccessFails
  <2>4. PICK r : Becomes(t, r) /\ (r = Idle \/ (r.call = c /\ r.pc \in {"lookup", "mode"}))
    BY <2>3
  <2>5. /\ pin' = pin /\ active' = active /\ typed' = typed /\ deletedBy' = deletedBy
        /\ stuck \subseteq stuck'
    BY <1>2 DEF TrackPending, AccessRefused, allocate, AccessFails
  <2>6. \A d \in Calls : Untouched(d)
    BY <2>5 DEF Untouched
  <2>7. ASSUME Doing(task[t], c, active[c], typed[c], deletedBy, c \notin stuck, pin)
        PROVE  IF r = Idle THEN Resting(c)'
               ELSE Doing(r, c, active'[c], typed'[c], deletedBy', c \notin stuck', pin)
    <3>1. active'[c] = NoCall
      BY <2>1, <2>5, <2>7 DEF Doing
    <3> QED BY <2>4, <3>1, NoEntry DEF Resting
  <2> QED BY <1>0, <2>2, <2>4, <2>5, <2>6, <2>7, MenuStep
<1>3. CASE AccessMode(t)
  <2>1. task[t].pc = "mode"
    BY <1>3 DEF AccessMode, At
  <2>2. PICK c \in Calls : c = task[t].call /\ task[t] # Idle
    BY <2>1, AtCall DEF CallPcs
  <2>3. PICK l \in list_messages_for_mailbox \cup {<<>>} :
          Becomes(t, [pc |-> "insert", call |-> task[t].call, key |-> task[t].key,
                      entry |-> IF pin # <<>> THEN PinEntry ELSE Playback(l)])
    BY <1>3 DEF AccessMode
  <2>4. PICK e : e = IF pin # <<>> THEN PinEntry ELSE Playback(l)
    OBVIOUS
  <2>5. PICK r : r = [pc |-> "insert", call |-> c, key |-> task[t].key, entry |-> e] /\ Becomes(t, r)
    BY <2>2, <2>3, <2>4
  <2>6. r.pc = "insert" /\ r.call = c /\ r.entry = e /\ r # Idle
    <3>1. r.pc = "insert" /\ r.call = c /\ r.entry = e
      BY <2>5
    <3> QED BY <3>1, IdlePc
  <2>7. pin' = pin /\ active' = active /\ typed' = typed /\ deletedBy' = deletedBy /\ stuck' = stuck
    BY <1>3 DEF AccessMode
  <2>8. \A d \in Calls : Untouched(d)
    BY <2>7 DEF Untouched
  <2>9. ASSUME Doing(task[t], c, active[c], typed[c], deletedBy, c \notin stuck, pin)
        PROVE  Doing(r, c, active'[c], typed'[c], deletedBy', c \notin stuck', pin)
    <3>1. active'[c] = NoCall
      BY <2>1, <2>7, <2>9 DEF Doing
    <3>2. e = PinEntry \/ (e.mode = "playback" /\ Fits(c, e, deletedBy))
      BY <2>3, <2>4, ListFits
    <3> QED BY <2>6, <2>7, <3>1, <3>2 DEF Doing
  <2> QED BY <1>0, <2>2, <2>5, <2>6, <2>7, <2>8, <2>9, MenuStep
<1>4. CASE AccessInsert(t)
  <2>1. task[t].pc = "insert"
    BY <1>4 DEF AccessInsert, At
  <2>2. PICK c \in Calls : c = task[t].call /\ task[t] # Idle
    BY <2>1, AtCall DEF CallPcs
  <2>3. PICK r : r = [task[t] EXCEPT !.pc = "discard"] /\ Becomes(t, r)
    BY <1>4, GotoTakes DEF AccessInsert
  <2>4. r.pc = "discard" /\ r.call = c /\ r # Idle
    <3>1. r.pc = "discard" /\ r.call = c
      BY <1>0, <2>1, <2>2, <2>3, GotoFields
    <3> QED BY <3>1, IdlePc
  <2>5. /\ active' = [active EXCEPT ![c] = task[t].entry] /\ typed' = [typed EXCEPT ![c] = <<>>]
        /\ pin' = pin /\ deletedBy' = deletedBy /\ stuck' = stuck
    BY <1>4, <2>2 DEF AccessInsert
  <2>6. active'[c] = task[t].entry /\ typed'[c] = <<>> /\ \A d \in Calls \ {c} : Untouched(d)
    BY <1>0, <2>5 DEF Untouched, TypeOK
  <2>7. ASSUME Doing(task[t], c, active[c], typed[c], deletedBy, c \notin stuck, pin)
        PROVE  Doing(r, c, active'[c], typed'[c], deletedBy', c \notin stuck', pin)
    <3>1. task[t].entry = PinEntry \/ (task[t].entry.mode = "playback" /\ Fits(c, task[t].entry, deletedBy))
      BY <2>1, <2>7 DEF Doing
    <3>2. PinEntry.mode = "pin" /\ PinEntry.buffer = <<>>
      BY DEF PinEntry
    <3>3. Rests(c, active'[c], typed'[c], deletedBy', c \notin stuck')
      BY <2>5, <2>6, <3>1, <3>2 DEF Rests
    <3> QED BY <2>4, <3>3 DEF Doing
  <2> QED BY <1>0, <2>2, <2>3, <2>4, <2>5, <2>6, <2>7, MenuStep
<1>5. CASE AccessEnds(t)
  <2>1. task[t].pc = "discard"
    BY <1>5 DEF AccessEnds, At
  <2>2. PICK c \in Calls : c = task[t].call /\ task[t] # Idle
    BY <2>1, AtCall DEF CallPcs
  <2>3. /\ Becomes(t, Idle)
        /\ pin' = pin /\ active' = active /\ typed' = typed /\ deletedBy' = deletedBy /\ stuck' = stuck
    BY <1>5 DEF AccessEnds
  <2>4. \A d \in Calls : Untouched(d)
    BY <2>3 DEF Untouched
  <2>5. ASSUME Doing(task[t], c, active[c], typed[c], deletedBy, c \notin stuck, pin) PROVE Resting(c)'
    BY <2>1, <2>3, <2>5 DEF Doing, Resting
  <2> QED BY <1>0, <2>2, <2>3, <2>4, <2>5, MenuStep
<1> QED BY <1>1, <1>2, <1>3, <1>4, <1>5 DEF handle_access_invite

(* A handler ends and leaves the call as it is.                             *)
LEMMA MenuEnds ==
    ASSUME ShapeInv, MenuFits, Overlaps, NEW t \in Tasks, Becomes(t, Idle),
           UNCHANGED <<pin, active, typed, deletedBy, stuck>>,
           task[t].pc \in {"discard", "play", "delete", "save", "delete_row", "save_row"}
    PROVE  MenuFits'
<1>1. PICK c \in Calls : c = task[t].call /\ task[t] # Idle
  BY AtCall DEF CallPcs
<1>2. \A d \in Calls : Untouched(d)
  BY DEF Untouched
<1>3. ASSUME Doing(task[t], c, active[c], typed[c], deletedBy, c \notin stuck, pin) PROVE Resting(c)'
  BY <1>3 DEF Doing, Resting
<1> QED BY <1>1, <1>2, <1>3, MenuStep

(* The menu when a call ends.                                               *)
LEMMA MenuBye ==
    ASSUME ShapeInv, MenuInv, Overlaps, NEW t \in Tasks, handle_bye(t)
    PROVE  MenuFits'
<1> USE DEF boxVars, callVars, historyVars
<1>0. TypeOK /\ MenuFits
  BY DEF ShapeInv, MenuInv
<1>1. CASE ByeRemovesCall(t)
  <2>1. PICK c \in Calls :
          /\ task[t] = Idle
          /\ active' = [active EXCEPT ![c] = NoCall]
          /\ Becomes(t, [pc |-> "bye", call |-> c])
          /\ UNCHANGED <<boxVars, pending, media, prompts, faults, historyVars>>
    BY <1>1 DEF ByeRemovesCall, Arrives
  <2>2. PICK r : r = [pc |-> "bye", call |-> c] /\ Becomes(t, r)
    BY <2>1
  <2>3. r.pc = "bye" /\ r.call = c
    BY <2>2
  <2>4. r # Idle
    BY <2>3, IdlePc
  <2>5. active'[c] = NoCall /\ \A d \in Calls \ {c} : Untouched(d)
    BY <1>0, <2>1 DEF Untouched, TypeOK
  <2>6. Doing(r, c, active'[c], typed'[c], deletedBy', c \notin stuck', pin)
    BY <2>3, <2>5, NoEntry
  <2> QED BY <1>0, <2>1, <2>2, <2>3, <2>4, <2>5, <2>6, MenuArrives
<1>2. CASE ByeRemovesMedia(t)
  <2>1. task[t].pc = "bye"
    BY <1>2 DEF ByeRemovesMedia, At
  <2>2. PICK c \in Calls : c = task[t].call /\ task[t] # Idle
    BY <2>1, AtCall DEF CallPcs
  <2>3. Becomes(t, Idle) /\ UNCHANGED <<pin, active, typed, deletedBy, stuck>>
    BY <1>2 DEF ByeRemovesMedia
  <2>4. \A d \in Calls : Untouched(d)
    BY <2>3 DEF Untouched
  <2>5. ASSUME Doing(task[t], c, active[c], typed[c], deletedBy, c \notin stuck, pin) PROVE Resting(c)'
    <3>1. active'[c] = NoCall
      BY <2>1, <2>3, <2>5 DEF Doing
    <3> QED BY <3>1, NoEntry DEF Resting
  <2> QED BY <1>0, <2>2, <2>3, <2>4, <2>5, MenuStep
<1> QED BY <1>1, <1>2 DEF handle_bye

(* A key that is appended is an element of the result.                      *)
LEMMA Appended ==
    ASSUME NEW S, NEW T, NEW y \in Seq(T), NEW k \in T, Append(y, k) \in Seq(S)
    PROVE  k \in S /\ y \in Seq(S)
<1>1. Len(y) \in Nat /\ Len(Append(y, k)) = Len(y) + 1 /\ Append(y, k)[Len(y) + 1] = k
      /\ \A i \in 1 .. Len(y) : Append(y, k)[i] = y[i]
  BY SMTT(30)
<1>2. \A i \in 1 .. Len(y) + 1 : Append(y, k)[i] \in S
  BY <1>1, Elements
<1>3. Len(y) + 1 \in 1 .. Len(y) + 1 /\ \A i \in 1 .. Len(y) : i \in 1 .. Len(y) + 1
  BY <1>1, SMTT(30)
<1>4. k \in S /\ \A i \in 1 .. Len(y) : y[i] \in S
  BY <1>1, <1>2, <1>3
<1>5. y = [i \in 1 .. Len(y) |-> y[i]]
  BY SMTT(30)
<1> QED BY <1>1, <1>4, <1>5, SMTT(30)

(* The handler that a key starts finds the call as its key needs it.        *)
LEMMA KeyDoes ==
    ASSUME NEW c \in Calls, NEW k \in Keys, NEW e \in EntryType, e = active[c],
           typed[c] \in Seq(MenuDigits \cup Digits), Resting(c), NEW r, r = Dispatch(c, k), r # Idle,
           NEW y, y = IF e.mode = "playback" \/ k \in {"#", "*"} THEN <<>> ELSE Append(typed[c], k)
    PROVE  Doing(r, c, e, y, deletedBy, c \notin stuck, pin)
<1>0. e # NoCall /\ e.list \in Seq(Messages) /\ e.index \in Nat
  BY Entries
<1>1. CASE e.mode = "pin" /\ k = "#" /\ r = [pc |-> "pin", call |-> c, right |-> typed[c] = pin]
  <2>1. [pc |-> "pin", call |-> c, right |-> typed[c] = pin].pc = "pin"
        /\ [pc |-> "pin", call |-> c, right |-> typed[c] = pin].right = (typed[c] = pin)
    OBVIOUS
  <2>2. y = <<>>
    BY <1>1
  <2>3. r.pc = "pin" /\ (r.right => typed[c] = pin)
    BY <1>1, <2>1
  <2> QED BY <1>0, <1>1, <2>2, <2>3 DEF Doing, Resting, Rests
<1>2. CASE e.mode = "pin" /\ k = "*" /\ r = [pc |-> "clear", call |-> c]
  <2>1. r.pc = "clear" /\ y = <<>>
    <3>1. [pc |-> "clear", call |-> c].pc = "clear"
      OBVIOUS
    <3> QED BY <1>2, <3>1
  <2> QED BY <1>0, <1>2, <2>1 DEF Doing
<1>3. CASE e.mode = "pin" /\ k \in Digits /\ r = [pc |-> "push", call |-> c, digit |-> k]
  <2>1. r.pc = "push" /\ r.digit = k
    BY <1>3, SMTT(30)
  <2>2. y = Append(typed[c], k) /\ k \in MenuDigits \cup Digits
    BY <1>3, AccessAssumption
  <2>3. y \in Seq(Digits) => typed[c] \in Seq(Digits)
    <3>1. SUFFICES ASSUME Append(typed[c], k) \in Seq(Digits) PROVE typed[c] \in Seq(Digits)
      BY <2>2
    <3>2. typed[c] \in Seq(MenuDigits \cup Digits) /\ k \in MenuDigits \cup Digits
      BY <2>2
    <3> QED BY <3>1, <3>2, Appended
  <2> QED BY <1>0, <1>3, <2>1, <2>2, <2>3 DEF Doing, Resting, Rests
<1>4. CASE e.mode = "playback"
  <2>1. Fits(c, e, deletedBy) /\ \A z : Rests(c, e, z, deletedBy, c \notin stuck)
    BY <1>0, <1>4 DEF Resting, Rests
  <2>2. e.index < Len(e.list) \/ e.list = <<>>
    BY <2>1 DEF Fits
  <2>3. PICK l, i : r = [pc |-> l, call |-> c, index |-> i] /\ l \in {"move", "delete", "save"} /\ i < Len(e.list)
    <3>1. CASE e.index > 0 /\ e.list # <<>> /\ r = [pc |-> "move", call |-> c, index |-> e.index - 1]
      <4>1. e.index - 1 < Len(e.list)
        BY <1>0, <2>2, <3>1, SMTT(30)
      <4> QED BY <3>1, <4>1
    <3>2. CASE e.index + 1 < Len(e.list) /\ r = [pc |-> "move", call |-> c, index |-> e.index + 1]
      BY <3>2
    <3>3. CASE e.list # <<>> /\ \E l \in {"delete", "save"} : r = [pc |-> l, call |-> c, index |-> e.index]
      BY <2>2, <3>3
    <3> QED BY <1>4, <3>1, <3>2, <3>3, Dispatched
  <2>4. r.pc \in {"move", "delete", "save"} /\ r.index < Len(e.list)
    <3>1. [pc |-> l, call |-> c, index |-> i].pc = l /\ [pc |-> l, call |-> c, index |-> i].index = i
      OBVIOUS
    <3> QED BY <2>3, <3>1
  <2> QED BY <1>0, <1>4, <2>1, <2>4 DEF Doing
<1> QED BY <1>1, <1>2, <1>3, <1>4, Dispatched, Entries

(* A key arrives.                                                           *)
LEMMA MenuKey ==
    ASSUME ShapeInv, MenuInv, Overlaps, NEW t \in Tasks, InfoArrives(t)
    PROVE  MenuFits'
<1> USE DEF boxVars, callVars, historyVars
<1>0. TypeOK /\ MenuFits
  BY DEF ShapeInv, MenuInv
<1>1. PICK c \in Calls, k \in Keys :
        /\ task[t] = Idle
        /\ IsActive(c)
        /\ Becomes(t, Dispatch(c, k))
        /\ typed' = [typed EXCEPT ![c] = IF InPlayback(c) \/ k \in {"#", "*"} THEN <<>> ELSE Append(@, k)]
        /\ UNCHANGED <<boxVars, callVars, faults, stuck, panicked, deletedBy, revived, refused, silent, broken>>
  BY DEF InfoArrives, Arrives
<1>2. PICK e \in EntryType : e = active[c]
  BY <1>0, <1>1 DEF IsActive, TypeOK
<1>3. PICK y : y = IF e.mode = "playback" \/ k \in {"#", "*"} THEN <<>> ELSE Append(typed[c], k)
  OBVIOUS
<1>4. typed'[c] = y /\ \A d \in Calls \ {c} : Untouched(d)
  <2>1. InPlayback(c) <=> e.mode = "playback"
    BY <1>1, <1>2 DEF InPlayback
  <2>2. typed' = [typed EXCEPT ![c] = y]
    BY <1>0, <1>1, <1>3, <2>1 DEF TypeOK
  <2> QED BY <1>0, <1>1, <2>2 DEF Untouched, TypeOK
<1>5. PICK r : r = Dispatch(c, k) /\ Becomes(t, r)
  BY <1>1
<1>6. CASE r # Idle
  <2>1. r.call = c
    BY <1>2, <1>5, <1>6, DispatchSound
  <2>2. typed[c] \in Seq(MenuDigits \cup Digits)
    BY <1>0 DEF TypeOK
  <2>3. ASSUME Resting(c) PROVE Doing(r, c, active'[c], typed'[c], deletedBy', c \notin stuck', pin)
    <3>1. Doing(r, c, e, y, deletedBy, c \notin stuck, pin)
      BY <1>2, <1>3, <1>5, <1>6, <2>2, <2>3, KeyDoes
    <3>2. active'[c] = e /\ deletedBy' = deletedBy /\ stuck' = stuck
      BY <1>1, <1>2
    <3> QED BY <1>4, <3>1, <3>2
  <2> QED BY <1>0, <1>1, <1>4, <1>5, <1>6, <2>1, <2>3, MenuArrives
<1>7. CASE r = Idle
  <2>1. e.mode = "playback" \/ y \notin Seq(Digits)
    <3>1. e.mode = "playback" \/ k \in MenuDigits
      <4>1. CASE k \in MenuDigits
        BY <4>1
      <4>2. CASE e.mode = "pin" /\ k \notin MenuDigits
        <5>1. r.pc \in {"pin", "clear", "push"}
          <6>1. \/ r = [pc |-> "pin", call |-> c, right |-> typed[c] = pin]
                \/ r = [pc |-> "clear", call |-> c]
                \/ r = [pc |-> "push", call |-> c, digit |-> k]
            BY <1>2, <1>5, <4>2, Dispatched
          <6>2. /\ [pc |-> "pin", call |-> c, right |-> typed[c] = pin].pc = "pin"
                /\ [pc |-> "clear", call |-> c].pc = "clear"
                /\ [pc |-> "push", call |-> c, digit |-> k].pc = "push"
            OBVIOUS
          <6> QED BY <6>1, <6>2
        <5> QED BY <1>7, <5>1, IdlePc
      <4> QED BY <4>1, <4>2, Entries
    <3>2. ASSUME k \in MenuDigits, e.mode # "playback", y \in Seq(Digits) PROVE FALSE
      <4>1. k \notin Digits /\ k \notin {"#", "*"} /\ k \in MenuDigits \cup Digits
        BY <3>2, AccessAssumption DEF MenuDigits
      <4>2. Append(typed[c], k) \in Seq(Digits)
        BY <1>3, <3>2, <4>1
      <4>3. typed[c] \in Seq(MenuDigits \cup Digits)
        BY <1>0 DEF TypeOK
      <4> QED BY <4>1, <4>2, <4>3, Appended
    <3> QED BY <3>1, <3>2
  <2>2. task' = task
    BY <1>1, <1>5, <1>7 DEF Becomes, ShapeInv
  <2>3. active' = active /\ deletedBy' = deletedBy /\ stuck' = stuck /\ pin' = pin
    BY <1>1
  <2>4. \A u \in Tasks, d \in Calls : Busy(u, d)' <=> Busy(u, d)
    BY <2>2 DEF Busy
  <2>5. ASSUME NEW d \in Calls, d \notin overlapped' PROVE Alone(d)' /\ State(d)'
    <3>1. d \notin overlapped /\ Alone(d)' /\ State(d)
      BY <1>0, <2>5, AloneAfter DEF MenuFits
    <3>2. CASE d # c
      <4>1. ~Busy(t, d)
        BY <1>1 DEF Busy
      <4> QED BY <1>4, <1>5, <1>7, <2>3, <3>1, <3>2, <4>1, Bystander
    <3>3. CASE d = c
      <4>1. Resting(c) => Resting(c)'
        BY <1>2, <1>4, <2>1, <2>3, Typing DEF Resting
      <4>2. ASSUME NEW u \in Tasks, Working(u, c) PROVE Working(u, c)'
        <5>1. Doing(task[u], c, e, y, deletedBy, c \notin stuck, pin)
          BY <1>2, <2>1, <4>2, Typing DEF Working
        <5> QED BY <1>2, <1>4, <2>2, <2>3, <2>4, <4>2, <5>1 DEF Working
      <4> QED BY <2>4, <3>1, <3>3, <4>1, <4>2 DEF State
    <3> QED BY <3>2, <3>3
  <2> QED BY <2>5 DEF MenuFits
<1> QED BY <1>6, <1>7

(* The cursor moves to a message of the list.                               *)
LEMMA MenuMoves ==
    ASSUME ShapeInv, MenuInv, Overlaps, NEW t \in Tasks, MoveCursor(t)
    PROVE  MenuFits'
<1> USE DEF boxVars, callVars, historyVars
<1>0. TaskSound(task[t], written) /\ TypeOK /\ MenuFits /\ task[t].pc = "move"
  BY AtWork DEF ShapeInv, MenuInv, MoveCursor, At
<1>1. PICK c \in Calls : c = task[t].call /\ task[t] # Idle
  BY <1>0, AtCall DEF CallPcs
<1>2. PICK i \in Nat : i = task[t].index
  BY <1>0 DEF TaskSound
<1>3. PICK r : r = [task[t] EXCEPT !.pc = "play"] /\ Becomes(t, r)
  BY GotoTakes DEF MoveCursor
<1>4. r.pc = "play" /\ r.call = c
  BY <1>0, <1>1, <1>3, GotoFields
<1>5. r # Idle
  BY <1>4, IdlePc
<1>6. /\ pin' = pin /\ typed' = typed /\ deletedBy' = deletedBy /\ stuck' = stuck
      /\ active' = IF InPlayback(c) THEN [active EXCEPT ![c].index = i] ELSE active
  BY <1>1, <1>2 DEF MoveCursor
<1>7. \A d \in Calls \ {c} : Untouched(d)
  BY <1>0, <1>6 DEF Untouched, TypeOK
<1>8. ASSUME Doing(task[t], c, active[c], typed[c], deletedBy, c \notin stuck, pin)
      PROVE  Doing(r, c, active'[c], typed'[c], deletedBy', c \notin stuck', pin)
  <2>1. PICK e \in EntryType : e = active[c] /\ e.mode = "playback" /\ i < Len(e.list) /\ Fits(c, e, deletedBy)
    BY <1>0, <1>2, <1>8 DEF Doing, TypeOK, Rests
  <2>2. PICK f : f = [e EXCEPT !.index = i]
    OBVIOUS
  <2>3. f.mode = "playback" /\ f.list = e.list /\ f.index = i
    BY <2>1, <2>2 DEF EntryType
  <2>4. active'[c] = f
    BY <1>0, <1>6, <2>1, <2>2, Entries DEF TypeOK, InPlayback, IsActive
  <2>5. Fits(c, f, deletedBy)
    BY <2>1, <2>3 DEF Fits
  <2>6. Rests(c, f, typed[c], deletedBy, c \notin stuck)
    BY <2>3, <2>5 DEF Rests
  <2> QED BY <1>4, <1>6, <2>4, <2>6 DEF Doing
<1> QED BY <1>0, <1>1, <1>3, <1>4, <1>5, <1>6, <1>7, <1>8, MenuStep

(* A message is looked up, deleted or saved.                                *)
LEMMA MenuRows ==
    ASSUME ShapeInv, MenuInv, Overlaps, NEW t \in Tasks,
           ReadEntry(t) \/ DeleteRow(t) \/ SaveRow(t) \/ RowFails(t) \/ play_message_at_index(t)
    PROVE  MenuFits'
<1> USE DEF boxVars, callVars, historyVars
<1>0. TaskSound(task[t], written) /\ TypeOK /\ MenuFits
  BY AtWork DEF ShapeInv, MenuInv
<1>1. CASE ReadEntry(t)
  <2>1. UNCHANGED <<pin, active, typed, deletedBy, stuck>> /\ task[t].pc \in {"delete", "save"}
    BY <1>1 DEF ReadEntry
  <2>2. PICK c \in Calls : c = task[t].call /\ task[t] # Idle
    BY <2>1, AtCall DEF CallPcs
  <2>3. CASE ~EntryAt(t)
    BY <1>0, <1>1, <2>1, <2>3, MenuEnds DEF ReadEntry
  <2>4. CASE EntryAt(t)
    <3>1. PICK l \in {"delete_row", "save_row"} :
            Becomes(t, [pc |-> l, call |-> c, index |-> task[t].index, msg |-> Entry(t)])
      BY <1>1, <2>2, <2>4 DEF ReadEntry
    <3>2. PICK r : r = [pc |-> l, call |-> c, index |-> task[t].index, msg |-> Entry(t)] /\ Becomes(t, r)
      BY <3>1
    <3>3. r.pc = l /\ r.call = c /\ r.index = task[t].index /\ r.msg = Entry(t)
      BY <3>2
    <3>4. r # Idle
      BY <3>1, <3>3, IdlePc
    <3>5. \A d \in Calls : Untouched(d)
      BY <2>1 DEF Untouched
    <3>6. ASSUME Doing(task[t], c, active[c], typed[c], deletedBy, c \notin stuck, pin)
          PROVE  Doing(r, c, active[c], typed[c], deletedBy, c \notin stuck, pin)
      <4>1. /\ active[c] # NoCall /\ active[c].mode = "playback" /\ task[t].index < Len(active[c].list)
            /\ Rests(c, active[c], typed[c], deletedBy, c \notin stuck)
        BY <2>1, <3>6 DEF Doing
      <4>2. r.msg = active[c].list[r.index + 1]
        BY <2>2, <3>3 DEF Entry
      <4> QED BY <3>1, <3>3, <4>1, <4>2 DEF Doing
    <3> QED BY <1>0, <2>1, <2>2, <3>2, <3>3, <3>4, <3>5, <3>6, MenuStep
  <2> QED BY <2>3, <2>4
<1>2. CASE DeleteRow(t)
  <2>1. task[t].pc = "delete_row" /\ task[t].msg \in Messages /\ task[t].index \in Nat
    BY <1>0, <1>2 DEF DeleteRow, At, TaskSound
  <2>2. PICK c \in Calls : c = task[t].call /\ task[t] # Idle
    BY <2>1, AtCall DEF CallPcs
  <2>3. PICK r : r = [task[t] EXCEPT !.pc = "drop"] /\ Becomes(t, r)
    BY <1>2, GotoTakes DEF DeleteRow
  <2>4. r.pc = "drop" /\ r.call = c /\ r.index = task[t].index
    BY <1>0, <2>1, <2>2, <2>3, GotoFields
  <2>5. r # Idle
    BY <2>4, IdlePc
  <2>6. /\ UNCHANGED <<pin, active, typed, stuck>>
        /\ deletedBy' = [deletedBy EXCEPT ![task[t].msg] = c]
    BY <1>2, <2>2 DEF DeleteRow
  <2>7. /\ \A m \in Messages : m # task[t].msg => deletedBy'[m] = deletedBy[m]
        /\ \A d \in Calls \ {c} : Untouched(d)
    BY <1>0, <2>1, <2>6 DEF Untouched, TypeOK
  <2>8. ASSUME Doing(task[t], c, active[c], typed[c], deletedBy, c \notin stuck, pin)
        PROVE  Doing(r, c, active[c], typed[c], deletedBy', c \notin stuck, pin)
    <3>1. PICK e \in EntryType :
            /\ e = active[c] /\ e.mode = "playback" /\ task[t].index < Len(e.list)
            /\ Fits(c, e, deletedBy) /\ task[t].msg = e.list[task[t].index + 1]
      BY <1>0, <2>1, <2>8 DEF Doing, TypeOK, Rests
    <3>2. e # NoCall /\ e.list \in Seq(Messages) /\ e.index \in Nat
      BY Entries
    <3>3. task[t].index + 1 \in 1 .. Len(e.list) /\ e.list # <<>>
      BY <2>1, <3>1, <3>2, SMTT(30)
    <3>4. e.index < Len(e.list) /\ Distinct(e.list)
      BY <3>1, <3>3 DEF Fits
    <3>5. ASSUME NEW i \in 1 .. Len(e.list), i # task[t].index + 1 PROVE deletedBy'[e.list[i]] # c
      <4>1. e.list[i] # task[t].msg /\ e.list[i] \in Messages
        BY <3>1, <3>2, <3>3, <3>4, <3>5, Elements DEF Distinct
      <4> QED BY <2>7, <3>1, <4>1 DEF Fits
    <3> QED BY <2>4, <3>1, <3>2, <3>4, <3>5 DEF Doing
  <2> QED BY <1>0, <2>2, <2>3, <2>4, <2>5, <2>6, <2>7, <2>8, MenuStep
<1>3. CASE SaveRow(t)
  <2>1. task[t].pc = "save_row" /\ task[t].msg \in Messages
    BY <1>0, <1>3 DEF SaveRow, At, TaskSound
  <2>2. PICK c \in Calls : c = task[t].call /\ task[t] # Idle
    BY <2>1, AtCall DEF CallPcs
  <2>3. /\ Becomes(t, Idle) /\ UNCHANGED <<pin, active, typed, stuck>>
        /\ deletedBy' = [deletedBy EXCEPT ![task[t].msg] = "nobody"]
    BY <1>3 DEF SaveRow
  <2>4. \A d \in Calls : Untouched(d)
    BY <1>0, <2>1, <2>3, AccessAssumption DEF Untouched, TypeOK
  <2>5. ASSUME Doing(task[t], c, active[c], typed[c], deletedBy, c \notin stuck, pin) PROVE Resting(c)'
    <3>1. Rests(c, active[c], typed[c], deletedBy, c \notin stuck)
      BY <2>1, <2>5 DEF Doing
    <3>2. active[c] \in EntryType \cup {NoCall} /\ \A m \in Messages : deletedBy'[m] = c => deletedBy[m] = c
      BY <1>0, <2>4 DEF TypeOK, Untouched
    <3>3. Rests(c, active[c], typed[c], deletedBy', c \notin stuck)
      BY <1>0, <3>1, <3>2, Looser
    <3> QED BY <2>3, <3>3 DEF Resting
  <2> QED BY <1>0, <2>2, <2>3, <2>4, <2>5, MenuStep
<1>4. CASE RowFails(t) \/ play_message_at_index(t)
  BY <1>0, <1>4, MenuEnds DEF RowFails, play_message_at_index, At
<1> QED BY <1>1, <1>2, <1>3, <1>4

(* Call c deleted no message of the list, except perhaps the one at place i. *)
Spares(c, D, l, i) == \A k \in 1 .. Len(l) : k # i => D[l[k]] # c

(* A list without the message at place i.                                   *)
LEMMA Shortened ==
    ASSUME NEW c, NEW D, NEW l \in Seq(Messages), NEW i \in 1 .. Len(l), Distinct(l),
           Spares(c, D, l, i), NEW m, m = RemoveAt(l, i)
    PROVE  Distinct(m) /\ \A j \in 1 .. Len(m) : D[m[j]] # c
<1>1. /\ m \in Seq(Messages) /\ Len(m) = Len(l) - 1
      /\ \A j \in 1 .. Len(l) - 1 : m[j] = IF j < i THEN l[j] ELSE l[j + 1]
  BY Removed
<1> DEFINE At1(j) == IF j < i THEN j ELSE j + 1
<1>2. \A j \in 1 .. Len(m) : At1(j) \in 1 .. Len(l) /\ At1(j) # i /\ m[j] = l[At1(j)]
  BY <1>1, SMTT(30)
<1>3. \A j, k \in 1 .. Len(m) : At1(j) = At1(k) => j = k
  BY <1>1, SMTT(30)
<1> HIDE DEF At1
<1>4. Distinct(m)
  <2>1. SUFFICES ASSUME NEW j \in 1 .. Len(m), NEW k \in 1 .. Len(m), m[j] = m[k] PROVE j = k
    BY DEF Distinct
  <2>2. l[At1(j)] = l[At1(k)] /\ At1(j) \in 1 .. Len(l) /\ At1(k) \in 1 .. Len(l)
    BY <1>2, <2>1
  <2>3. At1(j) = At1(k)
    BY <2>2 DEF Distinct
  <2> QED BY <1>3, <2>3
<1>5. \A j \in 1 .. Len(m) : D[m[j]] # c
  BY <1>2 DEF Spares
<1> QED BY <1>4, <1>5

(* The deleted message leaves the list, and the cursor its end.             *)
LEMMA MenuDrops ==
    ASSUME ShapeInv, MenuInv, Overlaps, NEW t \in Tasks, DropEntry(t)
    PROVE  MenuFits' /\ panicked' \subseteq overlapped'
<1> USE DEF boxVars, callVars, historyVars
<1>0. TaskSound(task[t], written) /\ TypeOK /\ MenuFits /\ task[t].pc = "drop"
  BY AtWork DEF ShapeInv, MenuInv, DropEntry, At
<1>1. PICK c \in Calls : c = task[t].call /\ task[t] # Idle
  BY <1>0, AtCall DEF CallPcs
<1>2. Becomes(t, Idle) /\ UNCHANGED <<pin, typed, deletedBy, stuck>>
  BY DEF DropEntry
<1>3. \A d \in Calls \ {c} : Untouched(d)
  <2>1. CASE EntryAt(t)
    <3>1. PICK f \in EntryType : active' = [active EXCEPT ![c] = f]
      BY <1>1, <2>1, Dropped
    <3> QED BY <1>0, <1>2, <3>1 DEF Untouched, TypeOK
  <2>2. CASE ~EntryAt(t)
    BY <1>2, <2>2 DEF DropEntry, Untouched
  <2> QED BY <2>1, <2>2
<1>4. ASSUME Doing(task[t], c, active[c], typed[c], deletedBy, c \notin stuck, pin)
      PROVE  EntryAt(t) /\ Resting(c)'
  <2>1. PICK e \in EntryType :
          /\ e = active[c] /\ e.mode = "playback" /\ task[t].index < Len(e.list)
          /\ Distinct(e.list) /\ e.index < Len(e.list)
          /\ \A i \in 1 .. Len(e.list) : i # task[t].index + 1 => deletedBy[e.list[i]] # c
    BY <1>0, <1>4 DEF Doing, TypeOK
  <2>2. e # NoCall /\ e.list \in Seq(Messages) /\ e.index \in Nat
    BY Entries
  <2>3. EntryAt(t)
    BY <1>1, <2>1, <2>2 DEF EntryAt, InPlayback, IsActive
  <2>4. PICK f \in EntryType :
          /\ active' = [active EXCEPT ![c] = f]
          /\ f.mode = "playback"
          /\ f.list = RemoveAt(e.list, task[t].index + 1)
          /\ f.index = IF e.index >= Len(e.list) - 1 /\ Len(e.list) - 1 > 0 THEN Len(e.list) - 1 - 1 ELSE e.index
    <3>1. PICK f \in EntryType :
            /\ active' = [active EXCEPT ![task[t].call] = f]
            /\ f.mode = active[task[t].call].mode
            /\ f.list = RemoveAt(active[task[t].call].list, task[t].index + 1)
            /\ f.index = IF active[task[t].call].index >= Len(active[task[t].call].list) - 1
                             /\ Len(active[task[t].call].list) - 1 > 0
                         THEN Len(active[task[t].call].list) - 1 - 1 ELSE active[task[t].call].index
      BY <2>3, Dropped
    <3> QED BY <1>1, <2>1, <3>1
  <2>5. task[t].index \in Nat /\ task[t].index + 1 \in 1 .. Len(e.list)
    <3>1. task[t].index \in Nat
      BY <1>0 DEF TaskSound
    <3> QED BY <2>1, <2>2, <3>1, SMTT(30)
  <2>6. Distinct(f.list) /\ \A i \in 1 .. Len(f.list) : deletedBy[f.list[i]] # c
    <3>1. PICK i \in 1 .. Len(e.list) : i = task[t].index + 1
      BY <2>5
    <3>2. PICK l \in Seq(Messages) : l = e.list
      BY <2>2
    <3>3. Distinct(l) /\ i \in 1 .. Len(l) /\ Spares(c, deletedBy, l, i)
      BY <2>1, <3>1, <3>2 DEF Spares
    <3>4. PICK m : m = RemoveAt(l, i) /\ m = f.list
      BY <2>4, <3>1, <3>2
    <3>5. Distinct(m) /\ \A j \in 1 .. Len(m) : deletedBy[m[j]] # c
      BY <3>3, <3>4, Shortened
    <3> QED BY <3>4, <3>5
  <2>7. f.index < Len(f.list) \/ f.list = <<>>
    <3>1. f.list \in Seq(Messages) /\ Len(f.list) = Len(e.list) - 1
      BY <2>2, <2>4, <2>5, Removed
    <3> QED BY <2>1, <2>2, <2>4, <3>1, SMTT(30)
  <2>8. active'[c] = f
    BY <1>0, <2>4 DEF TypeOK
  <2> QED BY <1>2, <2>3, <2>4, <2>6, <2>7, <2>8 DEF Resting, Rests, Fits
<1>5. MenuFits'
  BY <1>0, <1>1, <1>2, <1>3, <1>4, MenuStep
<1>6. panicked' \subseteq overlapped'
  <2>1. panicked \subseteq overlapped /\ overlapped \subseteq overlapped'
    BY DEF MenuInv, Overlaps
  <2>2. CASE c \in overlapped
    BY <1>1, <2>1, <2>2 DEF DropEntry
  <2>3. CASE c \notin overlapped
    <3>1. Doing(task[t], c, active[c], typed[c], deletedBy, c \notin stuck, pin)
      <4>1. Busy(t, c) /\ Alone(c) /\ State(c)
        BY <1>0, <1>1, <2>3 DEF Busy, MenuFits
      <4> QED BY <4>1 DEF Alone, State, Working
    <3> QED BY <1>4, <2>1, <3>1 DEF DropEntry
  <2> QED BY <2>2, <2>3
<1> QED BY <1>5, <1>6

(* A digit is added to the buffer, or the buffer is cleared.                *)
LEMMA MenuBuffer ==
    ASSUME ShapeInv, MenuInv, Overlaps, NEW t \in Tasks, PushDigit(t) \/ ClearBuffer(t)
    PROVE  MenuFits'
<1> USE DEF boxVars, callVars, historyVars
<1>0. TaskSound(task[t], written) /\ TypeOK /\ MenuFits /\ task[t].pc \in {"push", "clear"}
  BY AtWork DEF ShapeInv, MenuInv, PushDigit, ClearBuffer, At
<1>1. PICK c \in Calls : c = task[t].call /\ task[t] # Idle
  BY <1>0, AtCall DEF CallPcs
<1>2. PICK b : /\ SetBuffer(c, b)
               /\ \/ task[t].pc = "push" /\ b = Append(active[c].buffer, task[t].digit)
                  \/ task[t].pc = "clear" /\ b = <<>>
  BY <1>1 DEF PushDigit, ClearBuffer, At
<1>3. Becomes(t, Idle) /\ UNCHANGED <<pin, typed, deletedBy, stuck>>
  BY DEF PushDigit, ClearBuffer
<1>4. \A d \in Calls \ {c} : Untouched(d)
  BY <1>0, <1>2, <1>3 DEF Untouched, SetBuffer, TypeOK
<1>5. ASSUME Doing(task[t], c, active[c], typed[c], deletedBy, c \notin stuck, pin) PROVE Resting(c)'
  <2>1. PICK e \in EntryType : e = active[c] /\ e.mode # "playback"
    BY <1>0, <1>5 DEF Doing, TypeOK
  <2>2. c \notin stuck /\ typed[c] \in Seq(Digits) => typed[c] = b
    BY <1>2, <1>5, <2>1 DEF Doing
  <2>3. PICK f : f = [e EXCEPT !.buffer = b]
    OBVIOUS
  <2>4. f.mode = e.mode /\ f.buffer = b
    BY <2>3 DEF EntryType
  <2>5. active'[c] = f
    BY <1>0, <1>2, <2>1, <2>3, Entries DEF TypeOK, SetBuffer, IsActive
  <2> QED BY <1>3, <2>1, <2>2, <2>4, <2>5 DEF Resting, Rests
<1> QED BY <1>0, <1>1, <1>3, <1>4, <1>5, MenuStep

(* The PIN is read and verified.                                            *)
LEMMA MenuPin ==
    ASSUME ShapeInv, MenuInv, Overlaps, NEW t \in Tasks,
           PinRead(t) \/ PinVerify(t) \/ PinLookupFails(t)
    PROVE  MenuFits'
<1> USE DEF boxVars, callVars, historyVars
<1>0. TaskSound(task[t], written) /\ TypeOK /\ MenuFits /\ task[t].pc \in {"pin", "verify"}
  BY AtWork DEF ShapeInv, MenuInv, PinRead, PinVerify, PinLookupFails, At
<1>1. PICK c \in Calls : c = task[t].call /\ task[t] # Idle
  BY <1>0, AtCall DEF CallPcs
<1>2. UNCHANGED <<pin, active, typed, deletedBy>> /\ stuck \subseteq stuck'
  BY DEF PinRead, PinVerify, PinLookupFails
<1>3. \A d \in Calls : Untouched(d)
  BY <1>2 DEF Untouched
<1>4. CASE PinRead(t)
  <2>1. task[t].pc = "pin" /\ stuck' = stuck
    BY <1>4 DEF PinRead, At
  <2>2. CASE ~(IsActive(c) /\ ~InPlayback(c))
    <3>1. Becomes(t, Idle)
      BY <1>1, <1>4, <2>2 DEF PinRead
    <3>2. ~Doing(task[t], c, active[c], typed[c], deletedBy, c \notin stuck, pin)
      BY <2>1, <2>2 DEF Doing, IsActive, InPlayback
    <3> QED BY <1>0, <1>1, <1>2, <1>3, <3>1, <3>2, MenuStep
  <2>3. CASE IsActive(c) /\ ~InPlayback(c)
    <3>1. PICK r : /\ r = [pc |-> "verify", call |-> c, right |-> task[t].right, pin |-> active[c].buffer]
                   /\ Becomes(t, r)
      BY <1>1, <1>4, <2>3 DEF PinRead
    <3>2. r.pc = "verify" /\ r.call = c /\ r.right = task[t].right /\ r.pin = active[c].buffer
      BY <3>1
    <3>3. r # Idle
      BY <3>2, IdlePc
    <3>4. ASSUME Doing(task[t], c, active[c], typed[c], deletedBy, c \notin stuck, pin)
          PROVE  Doing(r, c, active[c], typed[c], deletedBy, c \notin stuck, pin)
      <4>1. /\ active[c] # NoCall /\ active[c].mode # "playback"
            /\ c \notin stuck /\ typed[c] \in Seq(Digits) => typed[c] = <<>>
            /\ c \notin stuck /\ task[t].right /\ pin \in Seq(Digits) => active[c].buffer = pin
        BY <2>1, <3>4 DEF Doing
      <4> QED BY <3>2, <4>1 DEF Doing
    <3> QED BY <1>0, <1>1, <1>2, <1>3, <2>1, <3>1, <3>2, <3>3, <3>4, MenuStep
  <2> QED BY <2>2, <2>3
<1>5. CASE PinVerify(t)
  <2>1. task[t].pc = "verify" /\ stuck' = stuck
    BY <1>5 DEF PinVerify, At
  <2>2. PICK l \in {"list", "clear"} : Becomes(t, [pc |-> l, call |-> c])
    BY <1>1, <1>5 DEF PinVerify
  <2>3. PICK r : r = [pc |-> l, call |-> c] /\ Becomes(t, r)
    BY <2>2
  <2>4. r.pc = l /\ r.call = c
    BY <2>3
  <2>5. r # Idle
    BY <2>2, <2>4, IdlePc
  <2>6. ASSUME Doing(task[t], c, active[c], typed[c], deletedBy, c \notin stuck, pin)
        PROVE  Doing(r, c, active[c], typed[c], deletedBy, c \notin stuck, pin)
    <3>1. /\ active[c] # NoCall /\ active[c].mode # "playback"
          /\ c \notin stuck /\ typed[c] \in Seq(Digits) => typed[c] = <<>>
      BY <2>1, <2>6 DEF Doing
    <3> QED BY <2>2, <2>4, <3>1 DEF Doing
  <2> QED BY <1>0, <1>1, <1>2, <1>3, <2>1, <2>3, <2>4, <2>5, <2>6, MenuStep
<1>6. CASE PinLookupFails(t)
  <2>1. Becomes(t, Idle) /\ c \in stuck' /\ task[t].pc = "verify"
    BY <1>1, <1>6 DEF PinLookupFails, At
  <2>2. ASSUME Doing(task[t], c, active[c], typed[c], deletedBy, c \notin stuck, pin) PROVE Resting(c)'
    <3>1. active[c].mode # "playback"
      BY <2>1, <2>2 DEF Doing
    <3> QED BY <1>2, <2>1, <3>1 DEF Resting, Rests
  <2> QED BY <1>0, <1>1, <1>2, <1>3, <2>1, <2>2, MenuStep
<1> QED BY <1>4, <1>5, <1>6

(* The right PIN opens the mailbox.                                         *)
LEMMA MenuOpens ==
    ASSUME ShapeInv, MenuInv, Overlaps, NEW t \in Tasks, PinList(t) \/ PinOpens(t)
    PROVE  MenuFits'
<1> USE DEF boxVars, callVars, historyVars
<1>0. TaskSound(task[t], written) /\ TypeOK /\ MenuFits /\ task[t].pc \in {"list", "open"}
  BY AtWork DEF ShapeInv, MenuInv, PinList, PinOpens, At
<1>1. PICK c \in Calls : c = task[t].call /\ task[t] # Idle
  BY <1>0, AtCall DEF CallPcs
<1>2. UNCHANGED <<pin, typed, deletedBy, stuck>>
  BY DEF PinList, PinOpens
<1>3. CASE PinList(t)
  <2>1. task[t].pc = "list" /\ active' = active
    BY <1>3 DEF PinList, At
  <2>2. PICK l \in list_messages_for_mailbox \cup {<<>>} :
          Becomes(t, [pc |-> "open", call |-> c, entry |-> Playback(l)])
    BY <1>1, <1>3 DEF PinList
  <2>3. PICK e : e = Playback(l) /\ e.mode = "playback" /\ Fits(c, e, deletedBy)
    BY <2>2, ListFits
  <2>4. PICK r : r = [pc |-> "open", call |-> c, entry |-> e] /\ Becomes(t, r)
    BY <2>2, <2>3
  <2>5. r.pc = "open" /\ r.call = c /\ r.entry = e
    BY <2>4
  <2>6. r # Idle
    BY <2>5, IdlePc
  <2>7. \A d \in Calls : Untouched(d)
    BY <1>2, <2>1 DEF Untouched
  <2>8. ASSUME Doing(task[t], c, active[c], typed[c], deletedBy, c \notin stuck, pin)
        PROVE  Doing(r, c, active[c], typed[c], deletedBy, c \notin stuck, pin)
    <3>1. active[c] # NoCall /\ active[c].mode # "playback"
      BY <2>1, <2>8 DEF Doing
    <3> QED BY <2>3, <2>5, <3>1 DEF Doing
  <2> QED BY <1>0, <1>1, <1>2, <2>1, <2>4, <2>5, <2>6, <2>7, <2>8, MenuStep
<1>4. CASE PinOpens(t)
  <2>1. /\ task[t].pc = "open" /\ Becomes(t, Idle)
        /\ active' = IF IsActive(c) THEN [active EXCEPT ![c] = task[t].entry] ELSE active
    BY <1>1, <1>4 DEF PinOpens, At
  <2>2. \A d \in Calls \ {c} : Untouched(d)
    BY <1>0, <1>2, <2>1 DEF Untouched, TypeOK
  <2>3. ASSUME Doing(task[t], c, active[c], typed[c], deletedBy, c \notin stuck, pin) PROVE Resting(c)'
    <3>1. /\ active[c] # NoCall
          /\ task[t].entry.mode = "playback" /\ Fits(c, task[t].entry, deletedBy)
      BY <2>1, <2>3 DEF Doing
    <3>2. active'[c] = task[t].entry
      BY <1>0, <2>1, <3>1 DEF IsActive, TypeOK
    <3> QED BY <1>2, <3>1, <3>2 DEF Resting, Rests
  <2> QED BY <1>0, <1>1, <1>2, <2>1, <2>2, <2>3, MenuStep
<1> QED BY <1>3, <1>4

(* The menu while a greeting is uploaded or deleted.                        *)
LEMMA MenuGreeting ==
    ASSUME ShapeInv, MenuInv, Overlaps, NEW t \in Tasks, upload_greeting(t) \/ delete_greeting(t)
    PROVE  MenuFits'
<1> USE DEF boxVars, callVars, historyVars
<1>0. TaskSound(task[t], written) /\ TypeOK /\ MenuFits /\ NoCall \notin Calls
  BY AtWork, AccessAssumption DEF ShapeInv, MenuInv
<1>1. UNCHANGED <<pin, active, typed, deletedBy, stuck>>
  BY DEF upload_greeting, delete_greeting, UploadArrives, DeleteArrives, ReadsGreeting, UploadRejected,
         write_message, ReplacesGreeting, UnlinkPrevious, SetGreetingKey, SetGreetingKeyFails
<1>2. \A d \in Calls : Untouched(d)
  BY <1>1 DEF Untouched
<1>3. CASE UploadArrives(t) \/ DeleteArrives(t)
  <2>1. PICK l : /\ task[t] = Idle
                 /\ Becomes(t, [pc |-> l, call |-> NoCall, prev |-> greeting, key |-> NoKey])
    BY <1>3 DEF UploadArrives, DeleteArrives, ReadsGreeting, Arrives
  <2>2. PICK r : r = [pc |-> l, call |-> NoCall, prev |-> greeting, key |-> NoKey] /\ Becomes(t, r)
    BY <2>1
  <2>3. r.call = NoCall
    BY <2>2
  <2> QED BY <1>0, <1>1, <1>2, <2>1, <2>2, <2>3, MenuQuiet
<1>4. CASE UploadRejected(t) \/ write_message(t) \/ ReplacesGreeting(t)
  <2>1. task[t].pc \in ApiPcs
    BY <1>4 DEF UploadRejected, write_message, ReplacesGreeting, UnlinkPrevious, SetGreetingKey,
                SetGreetingKeyFails, At, ApiPcs
  <2>2. task[t].call = NoCall
    <3>1. task[t] = [pc |-> task[t].pc, call |-> NoCall, prev |-> task[t].prev, key |-> task[t].key]
      BY <1>0, <2>1 DEF TaskSound
    <3>2. PICK x, y, z : task[t] = [pc |-> x, call |-> NoCall, prev |-> y, key |-> z]
      BY <3>1
    <3>3. [pc |-> x, call |-> NoCall, prev |-> y, key |-> z].call = NoCall
      OBVIOUS
    <3> QED BY <3>2, <3>3
  <2>3. PICK r : Becomes(t, r) /\ (r = Idle \/ r.call = NoCall)
    <3>1. CASE UploadRejected(t) \/ SetGreetingKey(t) \/ SetGreetingKeyFails(t)
      BY <3>1 DEF UploadRejected, SetGreetingKey, SetGreetingKeyFails
    <3>2. CASE write_message(t)
      <4>1. PICK r : /\ r = [pc |-> "unlink", call |-> NoCall, prev |-> task[t].prev, key |-> written + 1]
                     /\ Becomes(t, r)
        BY <3>2 DEF write_message
      <4>2. r.call = NoCall
        BY <4>1
      <4> QED BY <4>1, <4>2
    <3>3. CASE UnlinkPrevious(t)
      <4>1. PICK r : r = [task[t] EXCEPT !.pc = "set_key"] /\ Becomes(t, r)
        BY <3>3, GotoTakes DEF UnlinkPrevious
      <4>2. task[t].pc = "unlink"
        BY <3>3 DEF UnlinkPrevious, At
      <4>3. PICK y, z : task[t] = [pc |-> "unlink", call |-> NoCall, prev |-> y, key |-> z]
        BY <1>0, <4>2 DEF TaskSound, ApiPcs
      <4>4. r.call = NoCall
        BY <4>1, <4>3, SMTT(30)
      <4> QED BY <4>1, <4>4
    <3> QED BY <1>4, <3>1, <3>2, <3>3 DEF ReplacesGreeting
  <2> QED BY <1>0, <1>1, <1>2, <2>2, <2>3, MenuQuiet
<1> QED BY <1>3, <1>4 DEF upload_greeting, delete_greeting

(* The menu in steps of no handler.                                         *)
LEMMA MenuOther ==
    ASSUME ShapeInv, MenuInv, Overlaps,
           \/ \E p \in prompts : play_wav(p)
           \/ create_box \/ update_box \/ MessageArrives
           \/ \E m \in Messages : update_message(m) \/ delete_message(m)
           \/ Restart
    PROVE  MenuFits'
<1> USE DEF boxVars, callVars, historyVars
<1>0. TypeOK /\ MenuFits
  BY DEF ShapeInv, MenuInv
<1>1. CASE (\E p \in prompts : play_wav(p)) \/ create_box \/ update_box \/ MessageArrives
  <2>1. UNCHANGED <<pin, task, active, typed, deletedBy, stuck>>
    BY <1>1 DEF play_wav, create_box, update_box, MessageArrives
  <2>2. \A d \in Calls : Untouched(d)
    BY <2>1 DEF Untouched
  <2> QED BY <1>0, <2>1, <2>2, MenuStays
<1>2. CASE \E m \in Messages : update_message(m) \/ delete_message(m)
  <2>1. PICK m \in Messages, s \in {"new", "saved", "deleted"} : SetStatus(m, s)
    BY <1>2 DEF update_message, delete_message
  <2>2. PICK x \in {"api", "nobody"} :
          /\ deletedBy' = [deletedBy EXCEPT ![m] = x]
          /\ UNCHANGED <<pin, task, active, typed, stuck>>
    BY <2>1 DEF SetStatus
  <2>3. \A d \in Calls : Untouched(d)
    BY <1>0, <2>2, AccessAssumption DEF Untouched, TypeOK
  <2> QED BY <1>0, <2>2, <2>3, MenuStays
<1>3. CASE Restart
  <2>1. (\A d \in Calls : active'[d] = NoCall) /\ \A t \in Tasks : task'[t] = Idle
    BY <1>3 DEF Restart
  <2>2. \A d \in Calls : Resting(d)'
    BY <2>1, NoEntry DEF Resting
  <2>3. \A t \in Tasks, d \in Calls : ~Busy(t, d)'
    BY <2>1 DEF Busy
  <2> QED BY <2>2, <2>3 DEF MenuFits, Alone, State
<1> QED BY <1>1, <1>2, <1>3

(* A step of no request that deletes, saves or verifies.                    *)
LEMMA MarksKept ==
    ASSUME MenuInv, Overlaps, UNCHANGED <<status, deletedBy, panicked, revived, refused, pin>>, stuck \subseteq stuck',
           MenuFits'
    PROVE  MenuInv'
<1>1. overlapped \subseteq overlapped'
  BY DEF Overlaps
<1> QED BY <1>1 DEF MenuInv

(* What a call's own handler knows while its requests do not overlap.       *)
LEMMA OwnHandler ==
    ASSUME MenuFits, NEW t \in Tasks, NEW c \in Calls, c \notin overlapped, task[t] # Idle, task[t].call = c
    PROVE  Doing(task[t], c, active[c], typed[c], deletedBy, c \notin stuck, pin)
<1>1. Busy(t, c) /\ Alone(c) /\ State(c)
  BY DEF Busy, MenuFits
<1> QED BY <1>1 DEF Alone, State, Working

(* The invariant of the menu is preserved by an INFO.                       *)
LEMMA MenuInfo ==
    ASSUME ShapeInv, MenuInv, Overlaps, NEW t \in Tasks, handle_info(t)
    PROVE  MenuInv'
<1> USE DEF boxVars, callVars, historyVars
<1>0. TaskSound(task[t], written) /\ TypeOK /\ MenuFits /\ overlapped \subseteq overlapped'
  BY AtWork DEF ShapeInv, MenuInv, Overlaps
<1>1. CASE \/ InfoArrives(t) \/ MoveCursor(t) \/ play_message_at_index(t) \/ ReadEntry(t) \/ RowFails(t)
           \/ PushDigit(t) \/ ClearBuffer(t) \/ PinRead(t) \/ PinLookupFails(t) \/ PinList(t) \/ PinOpens(t)
  <2>1. UNCHANGED <<status, deletedBy, panicked, revived, refused, pin>> /\ stuck \subseteq stuck'
    BY <1>1 DEF InfoArrives, MoveCursor, play_message_at_index, ReadEntry, RowFails, PushDigit, ClearBuffer,
                PinRead, PinLookupFails, PinList, PinOpens
  <2>2. MenuFits'
    BY <1>1, MenuKey, MenuMoves, MenuRows, MenuBuffer, MenuPin, MenuOpens
  <2> QED BY <2>1, <2>2, MarksKept
<1>2. CASE DropEntry(t)
  <2>1. UNCHANGED <<status, deletedBy, revived, refused, pin, stuck>>
    BY <1>2 DEF DropEntry
  <2>2. MenuFits' /\ panicked' \subseteq overlapped'
    BY <1>2, MenuDrops
  <2> QED BY <1>0, <2>1, <2>2 DEF MenuInv
<1>3. CASE DeleteRow(t)
  <2>1. task[t].msg \in Messages
    BY <1>0, <1>3 DEF DeleteRow, At, TaskSound
  <2>2. /\ status' = [status EXCEPT ![task[t].msg] = "deleted"]
        /\ deletedBy' = [deletedBy EXCEPT ![task[t].msg] = task[t].call]
        /\ UNCHANGED <<panicked, revived, refused, pin, stuck>>
    BY <1>3 DEF DeleteRow
  <2>3. \A m \in Messages : deletedBy'[m] \in Calls => status'[m] = "deleted"
    <3>1. ASSUME NEW m \in Messages, deletedBy'[m] \in Calls PROVE status'[m] = "deleted"
      <4>1. CASE m = task[t].msg
        BY <1>0, <2>1, <2>2, <4>1 DEF TypeOK
      <4>2. CASE m # task[t].msg
        <5>1. deletedBy'[m] = deletedBy[m] /\ status'[m] = status[m]
          BY <1>0, <2>1, <2>2, <4>2 DEF TypeOK
        <5> QED BY <3>1, <5>1 DEF MenuInv
      <4> QED BY <4>1, <4>2
    <3> QED BY <3>1
  <2>4. MenuFits'
    BY <1>3, MenuRows
  <2> QED BY <1>0, <2>2, <2>3, <2>4 DEF MenuInv
<1>4. CASE SaveRow(t)
  <2>1. task[t].pc = "save_row" /\ task[t].msg \in Messages /\ task[t].index \in Nat
    BY <1>0, <1>4 DEF SaveRow, At, TaskSound
  <2>2. PICK c \in Calls : c = task[t].call /\ task[t] # Idle
    BY <2>1, AtCall DEF CallPcs
  <2>3. /\ status' = [status EXCEPT ![task[t].msg] = "saved"]
        /\ deletedBy' = [deletedBy EXCEPT ![task[t].msg] = "nobody"]
        /\ revived' = revived \/ (deletedBy[task[t].msg] = c /\ revived' = revived \cup {c})
        /\ UNCHANGED <<panicked, refused, pin, stuck>>
    BY <1>4, <2>2 DEF SaveRow
  <2>4. \A m \in Messages : deletedBy'[m] \in Calls => status'[m] = "deleted"
    <3>1. ASSUME NEW m \in Messages, deletedBy'[m] \in Calls PROVE status'[m] = "deleted"
      <4>1. m # task[t].msg
        BY <1>0, <2>1, <2>3, <3>1, AccessAssumption DEF TypeOK
      <4>2. deletedBy'[m] = deletedBy[m] /\ status'[m] = status[m]
        BY <1>0, <2>1, <2>3, <4>1 DEF TypeOK
      <4> QED BY <3>1, <4>2 DEF MenuInv
    <3> QED BY <3>1
  <2>5. c \in overlapped \/ deletedBy[task[t].msg] # c
    <3>1. SUFFICES ASSUME c \notin overlapped PROVE deletedBy[task[t].msg] # c
      OBVIOUS
    <3>2. Doing(task[t], c, active[c], typed[c], deletedBy, c \notin stuck, pin)
      BY <1>0, <2>2, <3>1, OwnHandler
    <3>3. PICK e \in EntryType :
            /\ e = active[c] /\ task[t].index < Len(e.list)
            /\ Fits(c, e, deletedBy) /\ task[t].msg = e.list[task[t].index + 1]
      BY <1>0, <2>1, <3>2 DEF Doing, TypeOK, Rests
    <3>4. task[t].index + 1 \in 1 .. Len(e.list)
      <4>1. e.list \in Seq(Messages)
        BY Entries
      <4> QED BY <2>1, <3>3, <4>1, SMTT(30)
    <3> QED BY <3>3, <3>4 DEF Fits
  <2>6. revived' \subseteq overlapped'
    BY <1>0, <2>3, <2>5 DEF MenuInv
  <2>7. MenuFits'
    BY <1>4, MenuRows
  <2> QED BY <1>0, <2>3, <2>4, <2>6, <2>7 DEF MenuInv
<1>5. CASE PinVerify(t)
  <2>1. task[t].pc = "verify"
    BY <1>5 DEF PinVerify, At
  <2>2. PICK c \in Calls : c = task[t].call /\ task[t] # Idle
    BY <2>1, AtCall DEF CallPcs
  <2>3. /\ refused' = refused \/ (task[t].right /\ task[t].pin # pin /\ refused' = refused \cup {c})
        /\ UNCHANGED <<status, deletedBy, panicked, revived, pin, stuck>>
    BY <1>5, <2>2 DEF PinVerify
  <2>4. ASSUME pin \in Seq(Digits), task[t].right, task[t].pin # pin PROVE c \in overlapped \cup stuck
    <3>1. SUFFICES ASSUME c \notin overlapped, c \notin stuck PROVE FALSE
      OBVIOUS
    <3>2. Doing(task[t], c, active[c], typed[c], deletedBy, c \notin stuck, pin)
      BY <1>0, <2>2, <3>1, OwnHandler
    <3> QED BY <2>1, <2>4, <3>1, <3>2 DEF Doing
  <2>5. pin' \in Seq(Digits) => refused' \subseteq overlapped' \cup stuck'
    BY <1>0, <2>3, <2>4 DEF MenuInv
  <2>6. MenuFits'
    BY <1>5, MenuPin
  <2> QED BY <1>0, <2>3, <2>5, <2>6 DEF MenuInv
<1> QED BY <1>1, <1>2, <1>3, <1>4, <1>5 DEF handle_info

(* The invariant of the menu is preserved by every step.                    *)
LEMMA MenuNext ==
    ASSUME ShapeInv, MenuInv, Next
    PROVE  MenuInv'
<1> USE DEF boxVars, callVars, historyVars
<1>0. TypeOK /\ MenuFits /\ Overlaps /\ overlapped \subseteq overlapped'
  BY DEF ShapeInv, MenuInv, Next, Overlaps
<1>1. ASSUME NEW t \in Tasks, handle_access_invite(t) \/ handle_bye(t) PROVE MenuInv'
  <2>1. UNCHANGED <<status, deletedBy, panicked, revived, refused, pin>> /\ stuck \subseteq stuck'
    BY <1>1 DEF handle_access_invite, TrackActive, TrackPending, AccessRefused, AccessFails, allocate, AccessMode,
                AccessInsert, AccessEnds, handle_bye, ByeRemovesCall, ByeRemovesMedia
  <2>2. MenuFits'
    BY <1>0, <1>1, MenuAccess, MenuBye
  <2> QED BY <1>0, <2>1, <2>2, MarksKept
<1>2. ASSUME NEW t \in Tasks, upload_greeting(t) \/ delete_greeting(t) PROVE MenuInv'
  <2>1. UNCHANGED <<status, deletedBy, panicked, revived, refused, pin, stuck>>
    BY <1>2 DEF upload_greeting, delete_greeting, UploadArrives, DeleteArrives, ReadsGreeting, UploadRejected,
                write_message, ReplacesGreeting, UnlinkPrevious, SetGreetingKey, SetGreetingKeyFails
  <2>2. MenuFits'
    BY <1>0, <1>2, MenuGreeting
  <2> QED BY <1>0, <2>1, <2>2, MarksKept
<1>3. CASE (\E p \in prompts : play_wav(p)) \/ create_box \/ update_box \/ Restart
  <2>1. UNCHANGED <<status, deletedBy, panicked, revived, refused, pin, stuck>>
    BY <1>3 DEF play_wav, create_box, update_box, Restart
  <2>2. MenuFits'
    BY <1>0, <1>3, MenuOther
  <2> QED BY <1>0, <2>1, <2>2, MarksKept
<1>4. CASE MessageArrives \/ \E m \in Messages : update_message(m) \/ delete_message(m)
  <2>1. MenuFits'
    BY <1>0, <1>4, MenuOther
  <2>2. UNCHANGED <<panicked, revived, refused, pin, stuck>>
    BY <1>4 DEF MessageArrives, update_message, delete_message, SetStatus
  <2>3. \A m \in Messages : deletedBy'[m] \in Calls => status'[m] = "deleted"
    <3>1. CASE MessageArrives
      <4>1. PICK m \in Messages :
              status[m] = "none" /\ status' = [status EXCEPT ![m] = "new"] /\ deletedBy' = deletedBy
        BY <3>1 DEF MessageArrives
      <4>2. deletedBy[m] \notin Calls /\ \A k \in Messages \ {m} : status'[k] = status[k]
        BY <1>0, <4>1 DEF MenuInv, TypeOK
      <4> QED BY <4>1, <4>2 DEF MenuInv
    <3>2. CASE \E m \in Messages : update_message(m) \/ delete_message(m)
      <4>1. PICK m \in Messages, s \in {"new", "saved", "deleted"} : SetStatus(m, s)
        BY <3>2 DEF update_message, delete_message
      <4>2. PICK x \in {"api", "nobody"} :
              deletedBy' = [deletedBy EXCEPT ![m] = x] /\ status' = [status EXCEPT ![m] = s]
        BY <4>1 DEF SetStatus
      <4>3. /\ deletedBy'[m] = x /\ x \notin Calls
            /\ \A k \in Messages \ {m} : deletedBy'[k] = deletedBy[k] /\ status'[k] = status[k]
        BY <1>0, <4>2, AccessAssumption DEF TypeOK
      <4> QED BY <4>3 DEF MenuInv
    <3> QED BY <1>4, <3>1, <3>2
  <2> QED BY <1>0, <2>1, <2>2, <2>3 DEF MenuInv
<1> QED BY <1>0, <1>1, <1>2, <1>3, <1>4, MenuInfo DEF Next, Step

-----------------------------------------------------------------------------
(* The theorems.                                                            *)

(* All invariants hold when the server starts.                              *)
LEMMA AccessInit ==
    ASSUME Init
    PROVE  ShapeInv /\ LeakInv /\ GreetingInv /\ MenuInv
<1>1. /\ \A t \in Tasks : task[t] = Idle
      /\ \A c \in Calls : active[c] = NoCall
      /\ \A m \in Messages : deletedBy[m] = "nobody"
  BY DEF Init
<1>2. LeakInv
  BY DEF Init, LeakInv
<1>3. GreetingInv
  <2>1. \A t \in Tasks : \A k : ~Carries(task[t], k)
    BY <1>1, IdlePc DEF Carries
  <2> QED BY <2>1 DEF Init, GreetingInv
<1>4. \A c \in Calls : Resting(c) /\ \A t \in Tasks : ~Busy(t, c)
  BY <1>1, NoEntry DEF Resting, Busy
<1>5. MenuInv
  BY <1>1, <1>4, AccessAssumption DEF Init, MenuInv, MenuFits, Alone, State
<1> QED BY <1>2, <1>3, <1>5, ShapeInit

(* A step that changes nothing keeps all of them.                           *)
LEMMA AccessStutters ==
    ASSUME ShapeInv, LeakInv, GreetingInv, MenuInv, UNCHANGED vars
    PROVE  ShapeInv' /\ LeakInv' /\ GreetingInv' /\ MenuInv'
<1> USE DEF vars, boxVars, callVars, historyVars
<1>1. ShapeInv'
  BY DEF ShapeInv, TypeOK
<1>2. LeakInv' /\ GreetingInv'
  BY DEF LeakInv, IsActive, GreetingInv
<1>3. MenuInv'
  <2>1. \A t \in Tasks, c \in Calls : Busy(t, c)' <=> Busy(t, c)
    BY DEF Busy
  <2>2. \A c \in Calls : (Alone(c)' <=> Alone(c)) /\ (State(c)' <=> State(c))
    BY <2>1 DEF Alone, State, Working, Resting
  <2> QED BY <2>2 DEF MenuInv, MenuFits
<1> QED BY <1>1, <1>2, <1>3

(* The four invariants are invariants of the menu and the API, for every    *)
(* number of calls, requests handled at once and messages.                  *)
THEOREM AccessInvariant == Spec => [](ShapeInv /\ LeakInv /\ GreetingInv /\ MenuInv)
<1>1. Init => ShapeInv /\ LeakInv /\ GreetingInv /\ MenuInv
  BY AccessInit
<1>2. ShapeInv /\ LeakInv /\ GreetingInv /\ MenuInv /\ [Next]_vars
      => (ShapeInv /\ LeakInv /\ GreetingInv /\ MenuInv)'
  BY ShapeNext, LeakNext, GreetingNext, MenuNext, AccessStutters
<1> QED BY <1>1, <1>2, PTL DEF Spec

(* The maps keep their types; the cursor of a call is a natural number.     *)
THEOREM AccessTypes == Spec => []TypeOK
<1>1. ShapeInv => TypeOK
  BY DEF ShapeInv
<1> QED BY <1>1, AccessInvariant, PTL

(* When no request is in progress, every media session belongs to an active *)
(* call and no Call-ID is pending but those of which a statement failed.    *)
THEOREM NoSessionLeaks == Spec => []NothingLeaks
<1>1. ASSUME LeakInv PROVE NothingLeaks
  <2>1. SUFFICES ASSUME Quiescent PROVE (\A c \in media : IsActive(c)) /\ pending \subseteq stuck
    BY DEF NothingLeaks
  <2>2. \A t \in Tasks : \A c : ~Holding(task[t], c) /\ ~Waiting(task[t], c)
    BY <2>1, IdlePc DEF Quiescent, Holding, Waiting
  <2> QED BY <1>1, <2>2 DEF LeakInv
<1>2. LeakInv => NothingLeaks
  BY <1>1
<1> QED BY <1>2, AccessInvariant, PTL

(* While the requests of a call do not overlap, its cursor stays on a       *)
(* message, no handler panics on its list, and the list holds no message    *)
(* that the call itself deleted.                                            *)
THEOREM CursorStays == Spec => []CursorOnMessage
<1>1. ASSUME ShapeInv, MenuInv PROVE CursorOnMessage
  <2>1. SUFFICES ASSUME NEW c \in Calls, c \notin overlapped, InPlayback(c)
        PROVE  /\ active[c].index < Len(active[c].list) \/ active[c].list = <<>>
               /\ Quiescent => \A i \in 1 .. Len(active[c].list) : deletedBy[active[c].list[i]] # c
    BY <1>1 DEF MenuInv, CursorOnMessage
  <2>2. State(c) /\ active[c] # NoCall /\ active[c].mode = "playback"
    BY <1>1, <2>1 DEF MenuInv, MenuFits, InPlayback, IsActive
  <2>3. ASSUME Resting(c)
        PROVE  /\ active[c].index < Len(active[c].list) \/ active[c].list = <<>>
               /\ \A i \in 1 .. Len(active[c].list) : deletedBy[active[c].list[i]] # c
    <3>1. Fits(c, active[c], deletedBy)
      BY <2>2, <2>3 DEF Resting, Rests
    <3> QED BY <3>1 DEF Fits
  <2>4. ASSUME NEW t \in Tasks, Working(t, c)
        PROVE  ~Quiescent /\ (active[c].index < Len(active[c].list) \/ active[c].list = <<>>)
    <3>1. ~Quiescent /\ task[t].pc \in CallPcs
      <4>1. task[t] # Idle /\ task[t].call = c /\ TaskSound(task[t], written)
        BY <1>1, <2>4 DEF Working, Busy, ShapeInv
      <4>2. task[t].pc \in ApiPcs => task[t].call = NoCall
        <5>1. SUFFICES ASSUME task[t].pc \in ApiPcs PROVE task[t].call = NoCall
          OBVIOUS
        <5>2. PICK x, y, z : task[t] = [pc |-> x, call |-> NoCall, prev |-> y, key |-> z]
          BY <4>1, <5>1 DEF TaskSound
        <5>3. [pc |-> x, call |-> NoCall, prev |-> y, key |-> z].call = NoCall
          OBVIOUS
        <5> QED BY <5>2, <5>3
      <4> QED BY <4>1, <4>2, AccessAssumption DEF Quiescent, TaskSound
    <3>2. Doing(task[t], c, active[c], typed[c], deletedBy, c \notin stuck, pin)
      BY <2>4 DEF Working
    <3>3. CASE task[t].pc \in {"discard", "move", "play", "delete", "save", "delete_row", "save_row", "drop"}
      BY <2>2, <3>1, <3>2, <3>3 DEF Doing, Rests, Fits
    <3> QED BY <2>2, <3>1, <3>2, <3>3 DEF Doing, CallPcs
  <2> QED BY <2>2, <2>3, <2>4 DEF State
<1>2. ShapeInv /\ MenuInv => CursorOnMessage
  BY <1>1
<1> QED BY <1>2, AccessInvariant, PTL

(* A call whose requests do not overlap never brings a message back that it *)
(* deleted.                                                                 *)
THEOREM DeletesLast == Spec => []OwnDeletesLast
<1>1. MenuInv => OwnDeletesLast
  BY DEF MenuInv, OwnDeletesLast
<1> QED BY <1>1, AccessInvariant, PTL

(* A PIN without the keys of the menu, typed and closed with #, is accepted *)
(* unless requests of the call overlapped or a lookup failed.               *)
THEOREM PinAccepted ==
    ASSUME Pins \subseteq Seq(Digits)
    PROVE  Spec => []RightPinOpens
<1>1. ShapeInv /\ MenuInv => RightPinOpens
  BY DEF ShapeInv, TypeOK, MenuInv, RightPinOpens
<1> QED BY <1>1, AccessInvariant, PTL

(* When no request is in progress the greeting key names a file, although   *)
(* uploads and deletions overlap, unless an update failed or a key was set  *)
(* by hand.                                                                 *)
THEOREM GreetingStays == Spec => []GreetingExists
<1>1. ASSUME GreetingInv PROVE GreetingExists
  <2>1. SUFFICES ASSUME Quiescent, ~broken PROVE greeting \in files \cup {NoKey}
    BY DEF GreetingExists
  <2>2. \A t \in Tasks : task[t].pc # "set_key"
    BY <2>1, IdlePc DEF Quiescent
  <2> QED BY <1>1, <2>1, <2>2 DEF GreetingInv
<1>2. GreetingInv => GreetingExists
  BY <1>1
<1> QED BY <1>2, AccessInvariant, PTL
=============================================================================
