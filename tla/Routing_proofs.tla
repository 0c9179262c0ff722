--------------------------- MODULE Routing_proofs ---------------------------
(* Where requests go, for every set of users, sources, calls and handlers.   *)
EXTENDS Routing, TLAPS

(* Leaves without arithmetic go to Zenon; the others name SMT.               *)
USE ZenonT(30)

(* Both ends of a dialog are sources of its parties.                         *)
DialogSound(d) ==
    d # NoDialog => d.caller \in Sources[d.from] /\ d.callee \in Sources[d.to]

(* What a handler remembers between two of its steps: the source is one of   *)
(* its user, the address to refresh is that of the source, and the target of *)
(* an INVITE is a source of the callee.  All but a MESSAGE belong to a call.  *)
TaskSound(r) ==
    /\ r.pc \in {"select", "refresh", "lookup", "record", "dialog", "bye"} =>
           r.src \in Sources[r.user]
    /\ r.pc = "refresh" => r.seen[1] = r.src[1]
    /\ r.pc \in {"record", "dialog"} => r.seen \in Sources[r.to]
    /\ r.pc # "idle" /\ r.kind # "message" => r.call \in Calls
    /\ r.pc \in {"record", "dialog", "ack", "bye", "cancel", "clean"} => r.kind # "message"

RTypes ==
    /\ reg \in [Users -> AllSources \cup {NoSource}]
    /\ active \in [Calls -> DialogType \cup {NoDialog}]
    /\ task \in [Tasks -> TaskType \cup {Idle}]

RInv ==
    /\ RTypes
    /\ GenuineSource
    /\ RequestsReachPeer
    /\ \A c \in Calls : DialogSound(active[c])
    /\ \A t \in Tasks : TaskSound(task[t])

(* A handler that ends has nothing to remember.                              *)
LEMMA IdleSound == TaskSound(Idle)
BY DEF TaskSound, Idle

(* One handler takes a sound step of its own; the others are as before.      *)
LEMMA TaskStep ==
    ASSUME RInv, NEW t \in Tasks, NEW r \in TaskType \cup {Idle}, TaskSound(r), Becomes(t, r)
    PROVE  /\ task' \in [Tasks -> TaskType \cup {Idle}]
           /\ \A x \in Tasks : TaskSound(task'[x])
<1>1. task' = [task EXCEPT ![t] = r]
  BY DEF Becomes
<1>2. task \in [Tasks -> TaskType \cup {Idle}] /\ \A x \in Tasks : TaskSound(task[x])
  BY DEF RInv, RTypes
<1>3. task' \in [Tasks -> TaskType \cup {Idle}]
  BY <1>1, <1>2
<1>4. ASSUME NEW x \in Tasks PROVE TaskSound(task'[x])
  <2>1. task'[x] = IF x = t THEN r ELSE task[x]
    BY <1>1, <1>2
  <2>2. CASE x = t
    BY <2>1, <2>2
  <2>3. CASE x # t
    BY <2>1, <2>3, <1>2
  <2> QED BY <2>2, <2>3
<1> QED BY <1>3, <1>4

(* Goto is a step that changes the program counter alone.                    *)
LEMMA GotoStep ==
    ASSUME RInv, NEW t \in Tasks, NEW l, Goto(t, l)
    PROVE  Becomes(t, [task[t] EXCEPT !.pc = l])
BY DEF Goto, Becomes, RInv, RTypes

(* A handler that is somewhere has a user, an addressee and a source.        *)
LEMMA Busy ==
    ASSUME RInv, NEW t \in Tasks, task[t].pc # "idle"
    PROVE  task[t] \in TaskType /\ TaskSound(task[t])
BY SMTT(30) DEF RInv, RTypes, Idle

(* A request that keeps to its dialog is sent to a source of its addressee.  *)
LEMMA ReachesOther ==
    ASSUME NEW d \in DialogType, DialogSound(d), d # NoDialog,
           NEW u \in Users, NEW v \in Users, NEW s, Steady(d, u, v, s)
    PROVE  OtherParty(d, s) \in Sources[v]
<1>1. d.from \in Users /\ d.to \in Users
  BY DEF DialogType
<1>2. d.caller \in Sources[d.from] /\ d.callee \in Sources[d.to]
  BY DEF DialogSound
<1>3. CASE u = d.from /\ v = d.to /\ s = d.caller
  BY <1>2, <1>3 DEF OtherParty
<1>4. CASE u = d.to /\ v = d.from /\ s = d.callee
  <2>1. CASE d.from = d.to
    BY <1>2, <1>4, <2>1 DEF OtherParty
  <2>2. CASE d.from # d.to
    <3>1. Sources[d.from] \cap Sources[d.to] = {}
      BY <1>1, <2>2, RoutingAssumption
    <3>2. s # d.caller
      BY <1>2, <1>4, <3>1
    <3> QED BY <1>2, <1>4, <3>2 DEF OtherParty
  <2> QED BY <2>1, <2>2
<1> QED BY <1>3, <1>4 DEF Steady

(* Nothing strays that is sent to a source of its addressee when it should.  *)
LEMMA SendsWell ==
    ASSUME RInv, NEW u, NEW v, NEW a, NEW sure, Sends(u, v, a, sure), sure => a \in Sources[v]
    PROVE  RequestsReachPeer'
BY DEF RInv, RequestsReachPeer, Sends

(* Nor does what goes to the registered source,                              *)
LEMMA RegistrationWell ==
    ASSUME RInv, NEW t \in Tasks, task[t] \in TaskType, SendsByRegistration(t)
    PROVE  RequestsReachPeer'
<1>1. task[t].to \in Users
  BY DEF TaskType
<1>2. reg[task[t].to] # NoSource => reg[task[t].to] \in Sources[task[t].to]
  BY <1>1 DEF RInv, GenuineSource
<1> QED BY <1>2, SendsWell DEF SendsByRegistration

(* to the other party of a dialog,                                           *)
LEMMA InDialogWell ==
    ASSUME RInv, NEW c \in Calls, active[c] # NoDialog,
           NEW u \in Users, NEW v \in Users, NEW s, SendsInDialog(u, v, s, active[c])
    PROVE  RequestsReachPeer'
<1>1. active[c] \in DialogType /\ DialogSound(active[c])
  BY DEF RInv, RTypes
<1>2. Steady(active[c], u, v, s) => OtherParty(active[c], s) \in Sources[v]
  BY <1>1, ReachesOther
<1> QED BY <1>2, SendsWell DEF SendsInDialog

(* or to its callee.                                                         *)
LEMMA CalleeWell ==
    ASSUME RInv, NEW t \in Tasks, NEW c \in Calls, active[c] # NoDialog, SendsToCallee(t, active[c])
    PROVE  RequestsReachPeer'
<1>1. active[c].callee \in Sources[active[c].to]
  BY DEF RInv, DialogSound
<1> QED BY <1>1, SendsWell DEF SendsToCallee

-----------------------------------------------------------------------------
(* Steps that leave registrations and dialogs alone.                         *)
LEMMA TablesKept ==
    ASSUME RInv, reg' = reg, active' = active, RequestsReachPeer',
           task' \in [Tasks -> TaskType \cup {Idle}], \A x \in Tasks : TaskSound(task'[x])
    PROVE  RInv'
BY DEF RInv, RTypes, GenuineSource

(* Steps of the tables of calls and messages only.                           *)
LEMMA NothingMoves ==
    ASSUME RInv, UNCHANGED <<reg, active, task, strayed>>
    PROVE  RInv'
BY DEF RInv, RTypes, GenuineSource, RequestsReachPeer

(* Steps that change what is registered, to a source of the user.            *)
LEMMA RegisteredWell ==
    ASSUME RInv, NEW u \in Users, NEW s \in Sources[u] \cup {NoSource}, reg' = [reg EXCEPT ![u] = s]
    PROVE  reg' \in [Users -> AllSources \cup {NoSource}] /\ GenuineSource'
<1>1. s \in AllSources \cup {NoSource}
  BY DEF AllSources
<1>2. reg \in [Users -> AllSources \cup {NoSource}] /\ GenuineSource
  BY DEF RInv, RTypes
<1>3. reg' \in [Users -> AllSources \cup {NoSource}]
  BY <1>1, <1>2
<1>4. GenuineSource'
  BY <1>2 DEF GenuineSource
<1> QED BY <1>3, <1>4

(* Steps that forget a dialog.                                               *)
LEMMA DialogForgotten ==
    ASSUME RInv, NEW c \in Calls, active' = [active EXCEPT ![c] = NoDialog]
    PROVE  /\ active' \in [Calls -> DialogType \cup {NoDialog}]
           /\ \A x \in Calls : DialogSound(active'[x])
<1>1. active \in [Calls -> DialogType \cup {NoDialog}] /\ \A x \in Calls : DialogSound(active[x])
  BY DEF RInv, RTypes
<1>2. active' \in [Calls -> DialogType \cup {NoDialog}]
  BY <1>1
<1>3. DialogSound(NoDialog)
  BY DEF DialogSound
<1>4. ASSUME NEW x \in Calls PROVE DialogSound(active'[x])
  <2>1. active'[x] = IF x = c THEN NoDialog ELSE active[x]
    BY <1>1
  <2>2. CASE x = c
    BY <2>1, <2>2, <1>3
  <2>3. CASE x # c
    BY <2>1, <2>3, <1>1
  <2> QED BY <2>2, <2>3
<1> QED BY <1>2, <1>4

(* REGISTER and the end of a registration preserve the invariant.            *)
LEMMA RegistrarStep ==
    ASSUME RInv, NEW u \in Users, NEW s, Register(u, s) \/ Lapse(u)
    PROVE  RInv'
<1>1. PICK r \in Sources[u] \cup {NoSource} : reg' = [reg EXCEPT ![u] = r]
  BY DEF Register, Lapse
<1>2. UNCHANGED <<active, task, strayed>>
  BY DEF Register, Lapse, sentVars
<1>3. reg' \in [Users -> AllSources \cup {NoSource}] /\ GenuineSource'
  BY <1>1, RegisteredWell
<1> QED BY <1>2, <1>3 DEF RInv, RTypes, RequestsReachPeer

(* An INVITE or a MESSAGE that arrives brings a source of its sender.        *)
LEMMA ArriveStep ==
    ASSUME RInv, NEW t \in Tasks, NEW u \in Users, NEW v \in Users, NEW s \in Sources[u],
           NEW c \in Calls \cup {NoCall}, NEW kind \in {"invite", "message"},
           Arrive(t, kind, u, v, s, c), kind = "invite" => c \in Calls
    PROVE  RInv'
<1> DEFINE r == [pc |-> "select", kind |-> kind, user |-> u, to |-> v, src |-> s,
                 call |-> c, seen |-> NoSource]
<1>1. s \in AllSources
  BY DEF AllSources
<1>2. r \in TaskType \cup {Idle}
  BY <1>1 DEF TaskType
<1>3. TaskSound(r)
  BY DEF TaskSound
<1>4. Becomes(t, r)
  BY DEF Arrive, Takes
<1>5. UNCHANGED <<reg, active, strayed>>
  BY DEF Arrive, tableVars, sentVars
<1> HIDE DEF r
<1>6. task' \in [Tasks -> TaskType \cup {Idle}] /\ \A x \in Tasks : TaskSound(task'[x])
  BY <1>2, <1>3, <1>4, TaskStep
<1>7. RequestsReachPeer'
  BY <1>5 DEF RInv, RequestsReachPeer
<1> QED BY <1>5, <1>6, <1>7, TablesKept

(* The same for ACK, BYE and CANCEL; only BYE brings a source.               *)
LEMMA ConcludeStep ==
    ASSUME RInv, NEW t \in Tasks, NEW u \in Users, NEW v \in Users, NEW s,
           NEW c \in Calls, NEW kind \in {"ack", "bye", "cancel"}, Conclude(t, kind, u, v, s, c)
    PROVE  RInv'
<1> DEFINE r == [pc |-> kind, kind |-> kind, user |-> u, to |-> v, src |-> s,
                 call |-> c, seen |-> NoSource]
<1>1. s \in AllSources \cup {NoSource} /\ (kind = "bye" => s \in Sources[u])
  BY DEF AllSources, Conclude
<1>2. r \in TaskType \cup {Idle}
  BY <1>1 DEF TaskType
<1>3. TaskSound(r)
  BY <1>1 DEF TaskSound
<1>4. Becomes(t, r)
  BY DEF Conclude, Takes
<1>5. UNCHANGED <<reg, active, strayed>>
  BY DEF Conclude, sentVars
<1> HIDE DEF r
<1>6. task' \in [Tasks -> TaskType \cup {Idle}] /\ \A x \in Tasks : TaskSound(task'[x])
  BY <1>2, <1>3, <1>4, TaskStep
<1>7. RequestsReachPeer'
  BY <1>5 DEF RInv, RequestsReachPeer
<1> QED BY <1>5, <1>6, <1>7, TablesKept

(* The SELECT of a refresh remembers an address only if it is the source's.  *)
LEMMA RefreshSelectStep ==
    ASSUME RInv, NEW t \in Tasks, RefreshSelect(t)
    PROVE  RInv'
<1>1. task[t] \in TaskType /\ TaskSound(task[t]) /\ task[t].pc = "select"
  BY Busy DEF RefreshSelect
<1>2. task[t].user \in Users /\ reg[task[t].user] \in AllSources \cup {NoSource}
  BY <1>1 DEF TaskType, RInv, RTypes
<1>3. UNCHANGED <<reg, active, strayed>>
  BY DEF RefreshSelect, tableVars, sentVars
<1>4. PICK r \in TaskType \cup {Idle} : TaskSound(r) /\ Becomes(t, r)
  <2>1. CASE /\ reg[task[t].user] # NoSource
             /\ should_refresh_registration_source(reg[task[t].user], task[t].src)
    <3> DEFINE r == [task[t] EXCEPT !.pc = "refresh", !.seen = reg[task[t].user]]
    <3>1. Becomes(t, r)
      BY <2>1 DEF RefreshSelect
    <3>2. r \in TaskType
      BY <1>1, <1>2 DEF TaskType
    <3>3. TaskSound(r)
      BY <1>1, <2>1 DEF TaskSound, TaskType, should_refresh_registration_source
    <3> QED BY <3>1, <3>2, <3>3
  <2>2. CASE ~(/\ reg[task[t].user] # NoSource
               /\ should_refresh_registration_source(reg[task[t].user], task[t].src))
    <3> DEFINE r == [task[t] EXCEPT !.pc = "lookup"]
    <3>1. Becomes(t, r)
      BY <2>2, GotoStep DEF RefreshSelect
    <3>2. r \in TaskType
      BY <1>1 DEF TaskType
    <3>3. TaskSound(r)
      BY <1>1 DEF TaskSound, TaskType
    <3> QED BY <3>1, <3>2, <3>3
  <2> QED BY <2>1, <2>2
<1>5. task' \in [Tasks -> TaskType \cup {Idle}] /\ \A x \in Tasks : TaskSound(task'[x])
  BY <1>4, TaskStep
<1>6. RequestsReachPeer'
  BY <1>3 DEF RInv, RequestsReachPeer
<1> QED BY <1>3, <1>5, <1>6, TablesKept

(* The UPDATE of a refresh: the address in the row is the one that was read, *)
(* that is the address of the source, so that the pair is the source.        *)
LEMMA RefreshUpdateStep ==
    ASSUME RInv, NEW t \in Tasks, RefreshUpdate(t)
    PROVE  RInv'
<1> DEFINE u == task[t].user
           r == [task[t] EXCEPT !.pc = "lookup", !.seen = NoSource]
<1>1. task[t] \in TaskType /\ TaskSound(task[t]) /\ task[t].pc = "refresh"
  BY Busy DEF RefreshUpdate
<1>2. u \in Users /\ task[t].src \in Sources[u] /\ task[t].seen[1] = task[t].src[1]
  BY <1>1 DEF TaskType, TaskSound
<1>3. task[t].src = <<task[t].src[1], task[t].src[2]>>
  BY <1>2, RoutingAssumption
<1>4. UNCHANGED <<active, strayed>>
  BY DEF RefreshUpdate, sentVars
<1>5. reg' \in [Users -> AllSources \cup {NoSource}] /\ GenuineSource'
  <2>1. CASE reg[u] # NoSource /\ reg[u][1] = task[t].seen[1]
    <3>1. reg' = [reg EXCEPT ![u] = <<reg[u][1], task[t].src[2]>>]
      BY <2>1, <1>2 DEF RefreshUpdate, RInv, RTypes
    <3>2. <<reg[u][1], task[t].src[2]>> = task[t].src
      BY <1>2, <1>3, <2>1
    <3>3. reg' = [reg EXCEPT ![u] = task[t].src]
      BY <3>1, <3>2
    <3> QED BY <1>2, <3>3, RegisteredWell
  <2>2. CASE ~(reg[u] # NoSource /\ reg[u][1] = task[t].seen[1])
    BY <2>2 DEF RefreshUpdate, RInv, RTypes, GenuineSource
  <2> QED BY <2>1, <2>2
<1>6. Becomes(t, r)
  BY DEF RefreshUpdate
<1>7. r \in TaskType \cup {Idle} /\ TaskSound(r)
  BY <1>1 DEF TaskType, TaskSound
<1> HIDE DEF r
<1>8. task' \in [Tasks -> TaskType \cup {Idle}] /\ \A x \in Tasks : TaskSound(task'[x])
  BY <1>6, <1>7, TaskStep
<1> QED BY <1>4, <1>5, <1>8 DEF RInv, RTypes, RequestsReachPeer

(* Handlers that end early, or only store a message.                         *)
LEMMA EndStep ==
    ASSUME RInv, NEW t \in Tasks, RefreshFails(t) \/ persist_message(t)
    PROVE  RInv'
<1>1. Becomes(t, Idle) /\ UNCHANGED <<reg, active, strayed>>
  BY DEF RefreshFails, persist_message, tableVars, sentVars
<1>2. task' \in [Tasks -> TaskType \cup {Idle}] /\ \A x \in Tasks : TaskSound(task'[x])
  BY <1>1, IdleSound, TaskStep
<1>3. RequestsReachPeer'
  BY <1>1 DEF RInv, RequestsReachPeer
<1> QED BY <1>1, <1>2, <1>3, TablesKept

(* The INVITE remembers a registered source of the callee.                   *)
LEMMA InviteLookupStep ==
    ASSUME RInv, NEW t \in Tasks, InviteLookup(t)
    PROVE  RInv'
<1>1. task[t] \in TaskType /\ TaskSound(task[t]) /\ task[t].pc = "lookup" /\ task[t].kind = "invite"
  BY Busy DEF InviteLookup
<1>2. UNCHANGED <<reg, active, strayed>>
  BY DEF InviteLookup, tableVars, sentVars
<1>3. PICK r \in TaskType \cup {Idle} : TaskSound(r) /\ Becomes(t, r)
  <2> DEFINE r == [task[t] EXCEPT !.pc = "record", !.seen = reg[task[t].to]]
  <2>1. CASE reg[task[t].to] # NoSource /\ Becomes(t, r)
    <3>1. reg[task[t].to] \in Sources[task[t].to] /\ reg[task[t].to] \in AllSources
      BY <1>1, <2>1 DEF RInv, RTypes, GenuineSource, TaskType
    <3>2. r \in TaskType
      BY <1>1, <3>1 DEF TaskType
    <3>3. TaskSound(r)
      BY <1>1, <3>1 DEF TaskSound, TaskType
    <3> QED BY <2>1, <3>2, <3>3
  <2>2. CASE Becomes(t, Idle)
    BY <2>2, IdleSound
  <2> QED BY <2>1, <2>2 DEF InviteLookup
<1>4. task' \in [Tasks -> TaskType \cup {Idle}] /\ \A x \in Tasks : TaskSound(task'[x])
  BY <1>3, TaskStep
<1>5. RequestsReachPeer'
  BY <1>2 DEF RInv, RequestsReachPeer
<1> QED BY <1>2, <1>4, <1>5, TablesKept

(* Steps that only move the program counter on.                              *)
LEMMA MoveOnStep ==
    ASSUME RInv, NEW t \in Tasks, InviteRecord(t) \/ MessageSend(t)
    PROVE  RInv'
<1>1. task[t] \in TaskType /\ TaskSound(task[t])
  BY Busy DEF InviteRecord, MessageSend
<1>2. UNCHANGED <<reg, active, strayed>>
  BY DEF InviteRecord, MessageSend, tableVars, sentVars
<1>3. PICK l \in {"dialog", "delivered", "failed"} :
          Goto(t, l) /\ (l = "dialog" => task[t].pc = "record")
  BY DEF InviteRecord, MessageSend
<1> DEFINE r == [task[t] EXCEPT !.pc = l]
<1>4. Becomes(t, r)
  BY <1>3, GotoStep
<1>5. r \in TaskType \cup {Idle} /\ TaskSound(r)
  BY <1>1, <1>3 DEF TaskType, TaskSound
<1> HIDE DEF r
<1>6. task' \in [Tasks -> TaskType \cup {Idle}] /\ \A x \in Tasks : TaskSound(task'[x])
  BY <1>4, <1>5, TaskStep
<1>7. RequestsReachPeer'
  BY <1>2 DEF RInv, RequestsReachPeer
<1> QED BY <1>2, <1>6, <1>7, TablesKept

(* The dialog of an INVITE has a source of each party.                       *)
LEMMA InviteDialogStep ==
    ASSUME RInv, NEW t \in Tasks, InviteDialog(t)
    PROVE  RInv'
<1> DEFINE r == task[t]
           d == [caller |-> r.src, callee |-> r.seen, from |-> r.user, to |-> r.to]
<1>1. r \in TaskType /\ TaskSound(r) /\ r.pc = "dialog"
  BY Busy DEF InviteDialog
<1>2. /\ r.user \in Users /\ r.to \in Users /\ r.call \in Calls
      /\ r.src \in Sources[r.user] /\ r.seen \in Sources[r.to]
  BY <1>1 DEF TaskType, TaskSound
<1>3. d \in DialogType /\ DialogSound(d)
  BY <1>2 DEF DialogType, AllSources, DialogSound
<1>4. active' = [active EXCEPT ![r.call] = d] /\ reg' = reg /\ Becomes(t, Idle)
  BY DEF InviteDialog, tableVars
<1> HIDE DEF d
<1>5. /\ active' \in [Calls -> DialogType \cup {NoDialog}]
      /\ \A x \in Calls : DialogSound(active'[x])
  <2>1. active \in [Calls -> DialogType \cup {NoDialog}] /\ \A x \in Calls : DialogSound(active[x])
    BY DEF RInv, RTypes
  <2>2. active' \in [Calls -> DialogType \cup {NoDialog}]
    BY <1>3, <1>4, <2>1
  <2>3. ASSUME NEW x \in Calls PROVE DialogSound(active'[x])
    <3>1. active'[x] = IF x = r.call THEN d ELSE active[x]
      BY <1>4, <2>1
    <3>2. CASE x = r.call
      BY <3>1, <3>2, <1>3
    <3>3. CASE x # r.call
      BY <3>1, <3>3, <2>1
    <3> QED BY <3>2, <3>3
  <2> QED BY <2>2, <2>3
<1>6. RequestsReachPeer'
  <2>1. CASE Sends(r.user, r.to, r.seen, TRUE)
    BY <1>2, <2>1, SendsWell
  <2>2. CASE UNCHANGED strayed
    BY <2>2 DEF RInv, RequestsReachPeer
  <2> QED BY <2>1, <2>2 DEF InviteDialog
<1>7. task' \in [Tasks -> TaskType \cup {Idle}] /\ \A x \in Tasks : TaskSound(task'[x])
  BY <1>4, IdleSound, TaskStep
<1> QED BY <1>4, <1>5, <1>6, <1>7 DEF RInv, RTypes, GenuineSource

(* Voicemail takes a call away.                                              *)
LEMMA VoicemailTakesStep ==
    ASSUME RInv, NEW c \in Calls, VoicemailTakes(c)
    PROVE  RInv'
<1>1. active' = [active EXCEPT ![c] = NoDialog] /\ UNCHANGED <<reg, task, strayed>>
  BY DEF VoicemailTakes, tableVars, sentVars
<1>2. /\ active' \in [Calls -> DialogType \cup {NoDialog}]
      /\ \A x \in Calls : DialogSound(active'[x])
  BY <1>1, DialogForgotten
<1> QED BY <1>1, <1>2 DEF RInv, RTypes, GenuineSource, RequestsReachPeer

(* ACK is forwarded.                                                         *)
LEMMA AckStep ==
    ASSUME RInv, NEW t \in Tasks, AckForward(t)
    PROVE  RInv'
<1>1. task[t] \in TaskType /\ TaskSound(task[t]) /\ task[t].pc = "ack"
  BY Busy DEF AckForward
<1>2. task[t].call \in Calls
  BY <1>1 DEF TaskSound
<1>3. Becomes(t, Idle) /\ UNCHANGED <<reg, active>>
  BY DEF AckForward, tableVars
<1>4. RequestsReachPeer'
  <2>1. CASE active[task[t].call] # NoDialog
    BY <1>2, <2>1, CalleeWell DEF AckForward
  <2>2. CASE active[task[t].call] = NoDialog
    BY <1>1, <2>2, RegistrationWell DEF AckForward
  <2> QED BY <2>1, <2>2
<1>5. task' \in [Tasks -> TaskType \cup {Idle}] /\ \A x \in Tasks : TaskSound(task'[x])
  BY <1>3, IdleSound, TaskStep
<1> QED BY <1>3, <1>4, <1>5, TablesKept

(* BYE is forwarded, and its dialog forgotten.                               *)
LEMMA ByeStep ==
    ASSUME RInv, NEW t \in Tasks, ByeForward(t)
    PROVE  RInv'
<1>1. task[t] \in TaskType /\ TaskSound(task[t]) /\ task[t].pc = "bye"
  BY Busy DEF ByeForward
<1>2. task[t].call \in Calls /\ task[t].user \in Users /\ task[t].to \in Users
  BY <1>1, SMTT(30) DEF TaskSound, TaskType
<1>3. /\ Becomes(t, Idle) /\ reg' = reg
      /\ active' = [active EXCEPT ![task[t].call] = NoDialog]
  BY DEF ByeForward, tableVars
<1>4. RequestsReachPeer'
  <2>1. CASE active[task[t].call] # NoDialog
    <3>1. SendsInDialog(task[t].user, task[t].to, task[t].src, active[task[t].call])
      BY <2>1 DEF ByeForward
    <3> QED BY <1>2, <2>1, <3>1, InDialogWell
  <2>2. CASE active[task[t].call] = NoDialog
    BY <1>1, <2>2, RegistrationWell DEF ByeForward
  <2> QED BY <2>1, <2>2
<1>5. task' \in [Tasks -> TaskType \cup {Idle}] /\ \A x \in Tasks : TaskSound(task'[x])
  BY <1>3, IdleSound, TaskStep
<1>6. /\ active' \in [Calls -> DialogType \cup {NoDialog}]
      /\ \A x \in Calls : DialogSound(active'[x])
  BY <1>2, <1>3, DialogForgotten
<1> QED BY <1>3, <1>4, <1>5, <1>6, SMTT(30) DEF RInv, RTypes, GenuineSource

(* CANCEL is forwarded,                                                      *)
LEMMA CancelStep ==
    ASSUME RInv, NEW t \in Tasks, CancelForward(t)
    PROVE  RInv'
<1> DEFINE r == [task[t] EXCEPT !.pc = "clean"]
<1>1. task[t] \in TaskType /\ TaskSound(task[t]) /\ task[t].pc = "cancel"
  BY Busy DEF CancelForward
<1>2. task[t].call \in Calls
  BY <1>1 DEF TaskSound
<1>3. Becomes(t, r) /\ UNCHANGED <<reg, active>>
  BY GotoStep DEF CancelForward, tableVars
<1>4. r \in TaskType \cup {Idle} /\ TaskSound(r)
  BY <1>1 DEF TaskType, TaskSound
<1> HIDE DEF r
<1>5. RequestsReachPeer'
  <2>1. CASE active[task[t].call] # NoDialog
    BY <1>2, <2>1, CalleeWell DEF CancelForward
  <2>2. CASE active[task[t].call] = NoDialog
    BY <2>2 DEF CancelForward, RInv, RequestsReachPeer
  <2> QED BY <2>1, <2>2
<1>6. task' \in [Tasks -> TaskType \cup {Idle}] /\ \A x \in Tasks : TaskSound(task'[x])
  BY <1>3, <1>4, TaskStep
<1> QED BY <1>3, <1>5, <1>6, TablesKept

(* and its dialog forgotten.                                                 *)
LEMMA CancelCleanStep ==
    ASSUME RInv, NEW t \in Tasks, CancelClean(t)
    PROVE  RInv'
<1>1. task[t].call \in Calls
  BY Busy DEF CancelClean, TaskSound
<1>2. /\ Becomes(t, Idle) /\ UNCHANGED <<reg, strayed>>
      /\ active' = [active EXCEPT ![task[t].call] = NoDialog]
  BY DEF CancelClean, tableVars, sentVars
<1>3. task' \in [Tasks -> TaskType \cup {Idle}] /\ \A x \in Tasks : TaskSound(task'[x])
  BY <1>2, IdleSound, TaskStep
<1>4. /\ active' \in [Calls -> DialogType \cup {NoDialog}]
      /\ \A x \in Calls : DialogSound(active'[x])
  BY <1>1, <1>2, DialogForgotten
<1> QED BY <1>2, <1>3, <1>4 DEF RInv, RTypes, GenuineSource, RequestsReachPeer

(* REFER, NOTIFY and INFO change nothing and go to the other party.          *)
LEMMA InDialogStep ==
    ASSUME RInv, NEW u \in Users, NEW v \in Users, NEW s, NEW c \in Calls, InDialog(u, v, s, c)
    PROVE  RInv'
<1>1. active[c] # NoDialog /\ SendsInDialog(u, v, s, active[c]) /\ UNCHANGED <<reg, active, task>>
  BY DEF InDialog, tableVars
<1>2. RequestsReachPeer'
  BY <1>1, InDialogWell
<1> QED BY <1>1, <1>2 DEF RInv, RTypes, GenuineSource

(* MESSAGE goes to the other party or to the registered source.              *)
LEMMA MessageTargetStep ==
    ASSUME RInv, NEW t \in Tasks, MessageTarget(t)
    PROVE  RInv'
<1> DEFINE d == DialogOf(task[t].call)
<1>1. task[t] \in TaskType /\ TaskSound(task[t]) /\ task[t].pc = "lookup" /\ task[t].kind = "message"
  BY Busy DEF MessageTarget
<1>2. task[t].user \in Users /\ task[t].to \in Users
  BY <1>1 DEF TaskType
<1>3. UNCHANGED <<reg, active>>
  BY DEF MessageTarget, tableVars
<1>4. RequestsReachPeer'
  <2>1. CASE d # NoDialog /\ SendsInDialog(task[t].user, task[t].to, task[t].src, d)
    <3>1. task[t].call \in Calls /\ d = active[task[t].call]
      BY <2>1 DEF DialogOf
    <3> QED BY <1>2, <2>1, <3>1, InDialogWell
  <2>2. CASE SendsByRegistration(t)
    BY <1>1, <2>2, RegistrationWell
  <2>3. CASE UNCHANGED strayed
    BY <2>3 DEF RInv, RequestsReachPeer
  <2> QED BY <2>1, <2>2, <2>3 DEF MessageTarget
<1>5. PICK l \in {"send", "failed"} : Becomes(t, Aimed(task[t], l))
  BY DEF MessageTarget
<1>6. Aimed(task[t], l) \in TaskType \cup {Idle} /\ TaskSound(Aimed(task[t], l))
  BY <1>1, <1>5 DEF Aimed, TaskType, TaskSound
<1>7. task' \in [Tasks -> TaskType \cup {Idle}] /\ \A x \in Tasks : TaskSound(task'[x])
  BY <1>5, <1>6, TaskStep
<1> QED BY <1>3, <1>4, <1>7, TablesKept

(* A restart forgets dialogs and handlers.                                   *)
LEMMA RestartStep ==
    ASSUME RInv, Restart
    PROVE  RInv'
<1>1. /\ active' = [c \in Calls |-> NoDialog]
      /\ task' = [t \in Tasks |-> Idle]
      /\ UNCHANGED <<reg, strayed>>
  BY DEF Restart, sentVars
<1>2. \A c \in Calls : DialogSound(active'[c])
  BY <1>1 DEF DialogSound
<1>3. \A t \in Tasks : TaskSound(task'[t])
  BY <1>1, IdleSound
<1> QED BY <1>1, <1>2, <1>3 DEF RInv, RTypes, GenuineSource, RequestsReachPeer

(* The initial states satisfy the invariant.                                 *)
LEMMA RInit ==
    ASSUME Init
    PROVE  RInv
<1>1. reg \in [Users -> AllSources \cup {NoSource}] /\ GenuineSource
  BY RoutingAssumption, SMTT(30) DEF Init, AllSources, GenuineSource
<1>2. \A c \in Calls : DialogSound(active[c])
  BY DEF Init, DialogSound
<1>3. \A t \in Tasks : TaskSound(task[t])
  BY IdleSound DEF Init
<1> QED BY <1>1, <1>2, <1>3 DEF Init, RInv, RTypes, RequestsReachPeer

(* Every request and every step of a handler preserves the invariant.        *)
LEMMA RRequests ==
    ASSUME RInv, Requests \/ SourcelessRequests
    PROVE  RInv'
<1>1. ASSUME NEW u \in Users, NEW v \in Users, NEW s \in Sources[u],
             \/ Register(u, s)
             \/ \E t \in Tasks, c \in Calls :
                    ArriveInvite(t, u, v, s, c) \/ Conclude(t, "bye", u, v, s, c)
             \/ \E t \in Tasks, c \in Calls \cup {NoCall} : ArriveMessage(t, u, v, s, c)
             \/ \E c \in Calls : InDialog(u, v, s, c)
      PROVE  RInv'
  <2>1. CASE Register(u, s)
    BY <2>1, RegistrarStep
  <2>2. ASSUME NEW t \in Tasks, NEW c \in Calls, ArriveInvite(t, u, v, s, c) PROVE RInv'
    BY <2>2, ArriveStep DEF ArriveInvite
  <2>3. ASSUME NEW t \in Tasks, NEW c \in Calls, Conclude(t, "bye", u, v, s, c) PROVE RInv'
    BY <2>3, ConcludeStep
  <2>4. ASSUME NEW t \in Tasks, NEW c \in Calls \cup {NoCall}, ArriveMessage(t, u, v, s, c)
        PROVE  RInv'
    BY <2>4, ArriveStep DEF ArriveMessage
  <2>5. ASSUME NEW c \in Calls, InDialog(u, v, s, c) PROVE RInv'
    BY <2>5, InDialogStep
  <2> QED BY <1>1, <2>1, <2>2, <2>3, <2>4, <2>5
<1>2. ASSUME NEW u \in Users, NEW v \in Users, NEW t \in Tasks, NEW c \in Calls,
             Conclude(t, "ack", u, v, NoSource, c) \/ Conclude(t, "cancel", u, v, NoSource, c)
      PROVE  RInv'
  BY <1>2, ConcludeStep
<1>3. CASE Requests
  BY <1>1, <1>3 DEF Requests, handle_refer, handle_notify, handle_info
<1>4. CASE SourcelessRequests
  BY <1>2, <1>4 DEF SourcelessRequests
<1> QED BY <1>3, <1>4

(* Every step of the system preserves the invariant.                         *)
LEMMA RNext ==
    ASSUME RInv, [Next]_vars
    PROVE  RInv'
<1>1. CASE Requests \/ SourcelessRequests
  BY <1>1, RRequests
<1>2. ASSUME NEW t \in Tasks, Step(t) PROVE RInv'
  BY <1>2, RefreshSelectStep, RefreshUpdateStep, EndStep, InviteLookupStep, MoveOnStep,
     InviteDialogStep, AckStep, ByeStep, CancelStep, CancelCleanStep, MessageTargetStep DEF Step
<1>3. ASSUME NEW u \in Users, Lapse(u) PROVE RInv'
  BY <1>3, RegistrarStep
<1>4. ASSUME NEW c \in Calls, VoicemailTakes(c) \/ Age(c) PROVE RInv'
  <2>1. CASE VoicemailTakes(c)
    BY <2>1, VoicemailTakesStep
  <2>2. CASE Age(c)
    BY <2>2, NothingMoves DEF Age, sentVars
  <2> QED BY <1>4, <2>1, <2>2
<1>5. CASE CallSweep \/ cleanup_calls \/ CdrPurge
  BY <1>5, NothingMoves DEF CallSweep, cleanup_calls, CdrPurge, sentVars
<1>6. CASE Restart
  BY <1>6, RestartStep
<1>7. CASE UNCHANGED vars
  BY <1>7, NothingMoves DEF vars, tableVars, sentVars
<1> QED BY <1>1, <1>2, <1>3, <1>4, <1>5, <1>6, <1>7 DEF Next

-----------------------------------------------------------------------------
(* What one handler's step makes of its task: it is over, or goes on with the *)
(* same user and the same kind of request, and, unless it is a MESSAGE, with  *)
(* the same call.  A refresh is only ever entered from its SELECT.            *)
GoesOn(q, r) ==
    \/ r = Idle
    \/ /\ r \in TaskType
       /\ r.user = q.user /\ r.kind = q.kind /\ (q.kind # "message" => r.call = q.call)
       /\ r.pc # "select"
       /\ r.pc = "refresh" => q.pc = "select" /\ r.src = q.src
       /\ r.pc = "dialog" => q.pc = "record"
       /\ r.pc = "delivered" => q.pc = "send"

(* A handler that is somewhere is in flight; one that is not is idle.        *)
LEMMA Flying == ASSUME RTypes, NEW t \in Tasks PROVE InFlight(t) <=> task[t] \in TaskType
BY SMTT(30) DEF InFlight, RTypes, Idle, TaskType

(* A step is taken by a handler in flight, and leaves the others alone.      *)
LEMMA TaskMoves ==
    ASSUME RInv, NEW t \in Tasks, Step(t)
    PROVE  /\ task[t] \in TaskType
           /\ \E r : task' = [task EXCEPT ![t] = r] /\ GoesOn(task[t], r)
<1> DEFINE q == task[t]
           Fine == \E r : task' = [task EXCEPT ![t] = r] /\ GoesOn(task[t], r)
<1>1. q \in TaskType
  BY Busy DEF Step, RefreshSelect, RefreshUpdate, RefreshFails, InviteLookup, InviteRecord,
     InviteDialog, AckForward, ByeForward, CancelForward, CancelClean, MessageTarget, MessageSend,
     persist_message
<1>2. reg \in [Users -> AllSources \cup {NoSource}] /\ q.user \in Users /\ q.to \in Users
  BY <1>1, SMTT(30) DEF RInv, RTypes, TaskType
<1>3. ASSUME NEW r, Becomes(t, r), GoesOn(q, r) PROVE Fine
  BY <1>3 DEF Becomes
<1>4. GoesOn(q, Idle)
  BY DEF GoesOn
<1>5. ASSUME NEW l \in {"lookup", "dialog", "clean", "delivered", "failed"},
             l = "dialog" => q.pc = "record", l = "delivered" => q.pc = "send"
      PROVE  GoesOn(q, [q EXCEPT !.pc = l])
  BY <1>1, <1>5, SMTT(30) DEF GoesOn, TaskType
<1>6. ASSUME NEW l \in {"refresh", "lookup", "record"}, NEW a \in AllSources \cup {NoSource},
             l = "refresh" => q.pc = "select"
      PROVE  GoesOn(q, [q EXCEPT !.pc = l, !.seen = a])
  <2> DEFINE r == [q EXCEPT !.pc = l, !.seen = a]
  <2>1. r \in TaskType
    BY <1>1, <1>6 DEF TaskType
  <2>2. r.user = q.user /\ r.kind = q.kind /\ r.call = q.call /\ r.src = q.src /\ r.pc = l
    BY <1>1 DEF TaskType
  <2> HIDE DEF r
  <2>3. GoesOn(q, r)
    BY <1>6, <2>1, <2>2 DEF GoesOn
  <2> QED BY <2>3 DEF r
<1>7. ASSUME NEW l \in {"send", "failed"}, q.kind = "message" PROVE GoesOn(q, Aimed(q, l))
  <2>1. Aimed(q, l) \in TaskType
    BY <1>1, <1>7 DEF Aimed, TaskType
  <2>2. Aimed(q, l).user = q.user /\ Aimed(q, l).kind = q.kind /\ Aimed(q, l).pc = l
    BY <1>1 DEF Aimed, TaskType
  <2> QED BY <1>7, <2>1, <2>2 DEF GoesOn
<1> SUFFICES Fine
  BY <1>1
<1> HIDE DEF Fine
<1>8. CASE RefreshSelect(t) \/ CancelForward(t) \/ InviteRecord(t) \/ MessageSend(t)
  <2>1. q.pc = "select" => reg[q.user] \in AllSources \cup {NoSource}
    BY <1>2
  <2>2. \/ \E l \in {"lookup", "dialog", "clean", "delivered", "failed"} :
               Goto(t, l) /\ (l = "dialog" => q.pc = "record") /\ (l = "delivered" => q.pc = "send")
        \/ q.pc = "select" /\ Becomes(t, [q EXCEPT !.pc = "refresh", !.seen = reg[q.user]])
    BY <1>8 DEF RefreshSelect, CancelForward, InviteRecord, MessageSend
  <2> QED BY <1>3, <1>5, <1>6, <2>1, <2>2, GotoStep
<1>9. CASE RefreshUpdate(t) \/ InviteLookup(t)
  <2>1. reg[q.to] \in AllSources \cup {NoSource}
    BY <1>2
  <2>2. \/ Becomes(t, Idle)
        \/ \E a \in AllSources \cup {NoSource} :
               \/ Becomes(t, [q EXCEPT !.pc = "lookup", !.seen = a])
               \/ Becomes(t, [q EXCEPT !.pc = "record", !.seen = a])
    BY <1>9, <2>1 DEF RefreshUpdate, InviteLookup
  <2> QED BY <1>3, <1>4, <1>6, <2>2
<1>10. CASE MessageTarget(t)
  BY <1>3, <1>7, <1>10 DEF MessageTarget
<1>11. CASE \/ RefreshFails(t) \/ InviteDialog(t) \/ AckForward(t) \/ ByeForward(t)
           \/ CancelClean(t) \/ persist_message(t)
  BY <1>3, <1>4, <1>11
     DEF RefreshFails, InviteDialog, AckForward, ByeForward, CancelClean, persist_message
<1> QED BY <1>8, <1>9, <1>10, <1>11 DEF Step

-----------------------------------------------------------------------------
(* The registration follows the source: while the requests of a user were    *)
(* handled one at a time, the one that is about to refresh is the last one,   *)
(* and when there is none the registered port is that of the last one.       *)
Fresh(u) ==
    /\ \A t, x \in Refreshing(u) : t = x
    /\ \A t \in Refreshing(u) : task[t].src = last[u]
    /\ (Refreshing(u) = {} /\ reg[u] # NoSource /\ last[u][1] = reg[u][1]) => reg[u] = last[u]

NewestInv ==
    /\ last \in [Users -> AllSources \cup {NoSource}]
    /\ \A u \in Users \ crossed : Fresh(u)

(* A user whose refreshing handlers and registered source stay as they are.   *)
LEMMA FreshFrame ==
    ASSUME NEW u \in Users, Fresh(u), last'[u] = last[u], reg'[u] = reg[u] \/ reg'[u] = NoSource,
           Refreshing(u)' = Refreshing(u), \A t \in Refreshing(u) : task'[t].src = task[t].src
    PROVE  Fresh(u)'
BY DEF Fresh

(* Two sources of a user that agree in address and port are the same.        *)
LEMMA SamePair ==
    ASSUME NEW u \in Users, NEW a \in Sources[u], NEW b \in Sources[u], a[1] = b[1], a[2] = b[2]
    PROVE  a = b
<1>1. a = <<a[1], a[2]>> /\ b = <<b[1], b[2]>>
  BY RoutingAssumption
<1> QED BY <1>1

(* A handler's step.                                                         *)
LEMMA NewestStep ==
    ASSUME RInv, NewestInv, NEW t \in Tasks, Step(t)
    PROVE  NewestInv'
<1> DEFINE q == task[t]
<1>1. q \in TaskType /\ TaskSound(q) /\ RTypes
  BY TaskMoves DEF RInv
<1>2. PICK r : task' = [task EXCEPT ![t] = r] /\ GoesOn(q, r)
  BY TaskMoves
<1>3. /\ last' = last /\ crossed \subseteq crossed'
      /\ reg' # reg => RefreshUpdate(t)
  BY DEF Step, RefreshSelect, RefreshUpdate, RefreshFails, InviteLookup, InviteRecord,
     InviteDialog, AckForward, ByeForward, CancelForward, CancelClean, MessageTarget, MessageSend,
     persist_message, tableVars, seenVars
<1>4. task'[t] = r /\ \A x \in Tasks \ {t} : task'[x] = task[x]
  BY <1>1, <1>2 DEF RTypes
<1>5. InFlight(t) /\ q.user \in Users
  BY <1>1, Flying, SMTT(30) DEF TaskType
<1> SUFFICES ASSUME NEW u \in Users \ crossed' PROVE Fresh(u)'
  BY <1>3 DEF NewestInv
<1>6. Fresh(u)
  BY <1>3 DEF NewestInv
<1>7. ASSUME r # Idle PROVE r \in TaskType /\ r.user = q.user /\ r.pc # "select"
                            /\ (r.pc = "refresh" => q.pc = "select" /\ r.src = q.src)
  BY <1>2, <1>7 DEF GoesOn
<1>8. CASE t \notin Refreshing(u)
  <2>1. Refreshing(u)' = Refreshing(u)
    BY <1>4, <1>5, <1>7, <1>8 DEF Refreshing, InFlight
  <2>2. \A x \in Refreshing(u) : task'[x] = task[x]
    BY <1>4, <1>8 DEF Refreshing
  <2>3. reg'[u] = reg[u]
    <3>1. CASE RefreshUpdate(t)
      <4>1. q.user # u
        BY <1>5, <1>8, <3>1 DEF Refreshing, RefreshUpdate
      <4> QED BY <1>1, <3>1, <4>1 DEF RefreshUpdate, RTypes
    <3> QED BY <1>3, <3>1
  <2> QED BY <1>3, <1>6, <2>1, <2>2, <2>3, FreshFrame
<1>9. CASE t \in Refreshing(u)
  <2>1. q.user = u /\ q.pc \in {"select", "refresh"} /\ q.src = last[u] /\ Refreshing(u) = {t}
    BY <1>6, <1>9 DEF Refreshing, Fresh
  <2>2. q.src \in Sources[u] /\ reg[u] \in Sources[u] \cup {NoSource}
    BY <1>1, <2>1 DEF TaskSound, RInv, GenuineSource
  <2>3. RefreshSelect(t) \/ RefreshUpdate(t)
    <3>1. ~ RefreshFails(t)
      BY <2>1 DEF RefreshFails
    <3> QED BY <2>1, <3>1 DEF Step, InviteLookup, InviteRecord, InviteDialog, AckForward, ByeForward,
          CancelForward, CancelClean, MessageTarget, MessageSend, persist_message
  <2>4. \A x \in Refreshing(u)' : x = t
    BY <1>4, <2>1, ZenonT(120) DEF Refreshing, InFlight
  <2>5. CASE t \in Refreshing(u)'
    <3>1. task'[t].src = last[u]
      BY <1>4, <1>7, <2>1, <2>5 DEF Refreshing, InFlight
    <3> QED BY <1>3, <2>4, <2>5, <3>1 DEF Fresh
  <2>6. CASE t \notin Refreshing(u)'
    <3>1. Refreshing(u)' = {}
      BY <2>4, <2>6
    <3>2. (reg'[u] # NoSource /\ last[u][1] = reg'[u][1]) => reg'[u] = last[u]
      <4>1. CASE RefreshSelect(t)
        <5>1. ~ (reg[u] # NoSource /\ should_refresh_registration_source(reg[u], q.src))
          <6> SUFFICES ASSUME reg[u] # NoSource, should_refresh_registration_source(reg[u], q.src)
                       PROVE  FALSE
            OBVIOUS
          <6>1. task'[t] = [q EXCEPT !.pc = "refresh", !.seen = reg[u]]
            BY <1>1, <2>1, <4>1 DEF RefreshSelect, Becomes, RTypes
          <6>2. task'[t].pc = "refresh" /\ task'[t].user = u
            BY <1>1, <2>1, <6>1 DEF TaskType
          <6>3. task'[t] # Idle
            BY <6>2, SMTT(30) DEF Idle
          <6> QED BY <2>6, <6>2, <6>3 DEF Refreshing, InFlight
        <5>2. reg' = reg
          BY <4>1 DEF RefreshSelect, tableVars
        <5> QED BY <2>1, <2>2, <5>1, <5>2, SamePair DEF should_refresh_registration_source
      <4>2. CASE RefreshUpdate(t)
        <5>1. q.seen[1] = q.src[1]
          BY <1>1, <4>2 DEF TaskSound, RefreshUpdate
        <5>2. q.src = <<q.src[1], q.src[2]>>
          BY <2>2, RoutingAssumption
        <5>3. CASE reg[u] # NoSource /\ reg[u][1] = q.seen[1]
          <6>1. reg'[u] = <<reg[u][1], q.src[2]>>
            BY <1>1, <2>1, <4>2, <5>3 DEF RefreshUpdate, RTypes
          <6> QED BY <2>1, <5>1, <5>2, <5>3, <6>1
        <5>4. CASE ~ (reg[u] # NoSource /\ reg[u][1] = q.seen[1])
          <6>1. reg' = reg
            BY <2>1, <4>2, <5>4 DEF RefreshUpdate
          <6> QED BY <2>1, <5>1, <5>4, <6>1
        <5> QED BY <5>3, <5>4
      <4> QED BY <2>3, <4>1, <4>2
    <3> QED BY <1>3, <3>1, <3>2 DEF Fresh
  <2> QED BY <2>5, <2>6
<1> QED BY <1>8, <1>9

(* A request that arrives.                                                   *)
LEMMA NewestArrive ==
    ASSUME RInv, NewestInv, NEW t \in Tasks, NEW u \in Users, NEW v \in Users, NEW s, NEW c, NEW k,
           \/ Arrive(t, k, u, v, s, c)
           \/ k \in {"ack", "bye", "cancel"} /\ Conclude(t, k, u, v, s, c)
    PROVE  NewestInv'
<1>1. RTypes /\ ~ InFlight(t) /\ reg' = reg
  BY DEF RInv, Arrive, Conclude, Takes, tableVars
<1>2. task'[t].user = u /\ \A x \in Tasks \ {t} : task'[x] = task[x]
  BY <1>1, SMTT(30) DEF Arrive, Conclude, Takes, Becomes, RTypes
<1>3. \A w \in Users : Refreshing(w)' \subseteq Refreshing(w) \cup {t} /\ t \notin Refreshing(w)
  BY <1>1, <1>2 DEF Refreshing, InFlight
<1>4. \A w \in Users : Refreshing(w) \subseteq Refreshing(w)'
  BY <1>2, <1>3 DEF Refreshing, InFlight
<1>5. \A w \in Users : \A x \in Refreshing(w) : task'[x] = task[x]
  BY <1>2, <1>3 DEF Refreshing
<1>6. \A w \in Users \ {u} : Refreshing(w)' = Refreshing(w)
  <2>1. \A w \in Users \ {u} : t \notin Refreshing(w)'
    BY <1>2 DEF Refreshing
  <2> QED BY <1>3, <1>4, <2>1
<1>7. CASE Conclude(t, k, u, v, s, c) /\ k \in {"ack", "bye", "cancel"}
  <2>1. task'[t].pc = k
    BY <1>1, <1>7 DEF Conclude, Takes, Becomes, RTypes
  <2>2. Refreshing(u)' = Refreshing(u)
    <3>1. t \notin Refreshing(u)'
      BY <1>7, <2>1 DEF Refreshing
    <3> QED BY <1>3, <1>4, <3>1
  <2>3. last' = last /\ crossed' = crossed
    BY <1>7 DEF Conclude
  <2> QED BY <1>1, <1>5, <1>6, <2>2, <2>3, FreshFrame DEF NewestInv
<1>8. CASE Arrive(t, k, u, v, s, c)
  <2>1. task'[t].src = s /\ last' = [last EXCEPT ![u] = s] /\ s \in Sources[u]
    BY <1>1, <1>8 DEF Arrive, Takes, Becomes, RTypes
  <2>2. last' \in [Users -> AllSources \cup {NoSource}]
    BY <2>1 DEF NewestInv, AllSources
  <2>3. ASSUME NEW w \in Users \ crossed', w # u PROVE Fresh(w)'
    <3>1. last'[w] = last[w] /\ Fresh(w)
      BY <1>8, <2>1, <2>3 DEF NewestInv, Arrive
    <3> QED BY <1>1, <1>5, <1>6, <2>3, <3>1, FreshFrame
  <2>4. ASSUME u \notin crossed' PROVE Fresh(u)'
    <3>1. Refreshing(u) = {} /\ last'[u] = s
      BY <1>8, <2>1, <2>4 DEF NewestInv, Arrive
    <3>2. task'[t].pc = "select" /\ task'[t] # Idle
      BY <1>1, <1>8 DEF Arrive, Takes, Becomes, RTypes, Idle
    <3>3. Refreshing(u)' = {t}
      BY <1>2, <1>3, <3>1, <3>2 DEF Refreshing, InFlight
    <3> QED BY <2>1, <3>1, <3>3 DEF Fresh
  <2> QED BY <2>2, <2>3, <2>4 DEF NewestInv
<1> QED BY <1>7, <1>8

(* A REGISTER, and a registration that ends.                                 *)
LEMMA NewestRegister ==
    ASSUME RInv, NewestInv, NEW u \in Users, NEW s, Register(u, s) \/ Lapse(u)
    PROVE  NewestInv'
<1>1. RTypes /\ task' = task /\ crossed \subseteq crossed'
  BY DEF RInv, Register, Lapse, seenVars
<1>2. \A w \in Users : Refreshing(w)' = Refreshing(w)
  BY <1>1 DEF Refreshing, InFlight
<1>3. \A w \in Users \ {u} : reg'[w] = reg[w] /\ last'[w] = last[w]
  BY <1>1 DEF Register, Lapse, RTypes, NewestInv, seenVars
<1>4. last' \in [Users -> AllSources \cup {NoSource}]
  BY ZenonT(120) DEF Register, Lapse, NewestInv, AllSources, seenVars
<1>5. ASSUME u \notin crossed' PROVE Fresh(u)'
  <2>1. CASE Register(u, s)
    <3>1. Refreshing(u)' = {} /\ reg'[u] = s /\ last'[u] = s
      BY <1>1, <1>2, <1>5, <2>1 DEF Register, RTypes, NewestInv
    <3> QED BY <3>1 DEF Fresh
  <2>2. CASE Lapse(u)
    <3>1. reg'[u] = NoSource /\ last' = last /\ Fresh(u)
      BY <1>1, <1>5, <2>2 DEF Lapse, RTypes, NewestInv, seenVars
    <3> QED BY <1>1, <1>2, <3>1, FreshFrame
  <2> QED BY <2>1, <2>2
<1>6. ASSUME NEW w \in Users \ crossed', w # u PROVE Fresh(w)'
  <2>1. Fresh(w)
    BY <1>1 DEF NewestInv
  <2> QED BY <1>1, <1>2, <1>3, <1>6, <2>1, FreshFrame
<1> QED BY <1>4, <1>5, <1>6 DEF NewestInv

(* A restart, and the steps that concern neither users nor their handlers.   *)
LEMMA NewestOther ==
    ASSUME RInv, NewestInv, Restart \/ UNCHANGED <<reg, task, last, crossed>>
    PROVE  NewestInv'
<1>1. CASE Restart
  <2>1. reg' = reg /\ last' = last /\ crossed \subseteq crossed'
    BY <1>1 DEF Restart
  <2>2. \A u \in Users : Refreshing(u)' = {}
    BY <1>1 DEF Restart, Refreshing, InFlight
  <2>3. \A u \in Users \ crossed' : Refreshing(u) = {} /\ Fresh(u)
    BY <1>1 DEF Restart, NewestInv
  <2> QED BY <2>1, <2>2, <2>3, FreshFrame DEF NewestInv
<1>2. CASE UNCHANGED <<reg, task, last, crossed>>
  <2>1. \A u \in Users : Refreshing(u)' = Refreshing(u)
    BY <1>2 DEF Refreshing, InFlight
  <2> QED BY <1>2, <2>1, FreshFrame DEF NewestInv
<1> QED BY <1>1, <1>2

(* The row of a call whose handlers did not overlap: a handler of an INVITE   *)
(* that wrote the row still has it open when it enters the dialog, and no     *)
(* other handler leaves a dialog without an open row.  BYE and CANCEL are the *)
(* exception until they removed the dialog.                                   *)
Counted(c) ==
    /\ \A t, x \in Handling(c) : t = x
    /\ \A t \in Handling(c) : task[t].pc = "dialog" => Open(c)
    /\ (active[c] # NoDialog
          /\ \A t \in Handling(c) : task[t].pc \notin {"bye", "cancel", "clean"}) => Open(c)

CountedInv ==
    /\ row \in [Calls -> RowType \cup {NoRow}]
    /\ \A c \in Calls \ loose : Counted(c)

(* A call whose handlers stay where they are, and whose row stays open.       *)
LEMMA CountedFrame ==
    ASSUME NEW c \in Calls, Counted(c), active'[c] = active[c] \/ active'[c] = NoDialog,
           Open(c) => Open(c)', Handling(c)' = Handling(c),
           \A t \in Handling(c) : task'[t].pc = task[t].pc
    PROVE  Counted(c)'
BY DEF Counted

(* What a handler's step does to rows and dialogs: nothing, except that an    *)
(* INVITE writes its row and then its dialog, and that BYE and CANCEL remove  *)
(* theirs.                                                                   *)
LEMMA TablesOfStep ==
    ASSUME RInv, NEW t \in Tasks, Step(t)
    PROVE  /\ loose \subseteq loose'
           /\ \/ /\ row' = row /\ active' = active
                 /\ task[t].pc \notin {"dialog", "record", "bye", "clean"}
                 /\ task[t].pc = "cancel" => task'[t].pc = "clean"
                 /\ task'[t].pc # "dialog"
              \/ InviteRecord(t)
              \/ /\ InviteDialog(t) \/ ByeForward(t) \/ CancelClean(t)
                 /\ task[t].pc \in {"dialog", "bye", "clean"} /\ task'[t] = Idle /\ row' = row
                 /\ \A c \in Calls \ {task[t].call} : active'[c] = active[c]
                 /\ task[t].pc # "dialog" => active' = [active EXCEPT ![task[t].call] = NoDialog]
<1>1. CASE \/ RefreshSelect(t) \/ RefreshUpdate(t) \/ RefreshFails(t) \/ InviteLookup(t)
           \/ AckForward(t) \/ MessageTarget(t) \/ MessageSend(t) \/ persist_message(t)
  <2>1. /\ loose' = loose /\ row' = row /\ active' = active
        /\ task[t].pc \notin {"dialog", "record", "bye", "cancel", "clean"}
    BY <1>1 DEF RefreshSelect, RefreshUpdate, RefreshFails, InviteLookup, AckForward,
       MessageTarget, MessageSend, persist_message, tableVars, seenVars
  <2>2. PICK r : task' = [task EXCEPT ![t] = r] /\ GoesOn(task[t], r)
    BY TaskMoves
  <2>3. task'[t] = r
    BY <2>2 DEF RInv, RTypes
  <2>4. Idle.pc # "dialog"
    BY DEF Idle
  <2> QED BY <2>1, <2>2, <2>3, <2>4 DEF GoesOn
<1>2. CASE CancelForward(t)
  <2>1. /\ loose' = loose /\ row' = row /\ active' = active /\ task[t].pc = "cancel"
    BY <1>2 DEF CancelForward, tableVars, seenVars
  <2>2. task[t] \in TaskType /\ task' = [task EXCEPT ![t] = [task[t] EXCEPT !.pc = "clean"]]
    BY <1>2, TaskMoves, GotoStep DEF CancelForward, Becomes
  <2>3. task'[t].pc = "clean"
    BY <2>2 DEF RInv, RTypes, TaskType
  <2> QED BY <2>1, <2>3
<1>3. CASE InviteRecord(t)
  BY <1>3 DEF InviteRecord
<1>4. CASE InviteDialog(t) \/ ByeForward(t) \/ CancelClean(t)
  BY <1>4 DEF InviteDialog, ByeForward, CancelClean, Becomes, RInv, RTypes, tableVars, seenVars
<1> QED BY <1>1, <1>2, <1>3, <1>4 DEF Step

(* A new row is open.                                                        *)
LEMMA UpsertOpens ==
    ASSUME NEW c \in Calls, row \in [Calls -> RowType \cup {NoRow}], row' = Upsert(c)
    PROVE  /\ row' \in [Calls -> RowType \cup {NoRow}]
           /\ ~ Closed(c) => Open(c)'
           /\ \A x \in Calls \ {c} : row'[x] = row[x]
<1>1. CASE Closed(c)
  <2>1. row[c] \in RowType
    BY <1>1 DEF Closed
  <2>2. [row[c] EXCEPT !.status = "trying"] \in RowType
    BY <2>1 DEF RowType, Statuses
  <2> QED BY <1>1, <2>2 DEF Upsert
<1>2. CASE ~ Closed(c)
  <2> DEFINE new == [status |-> "trying", ended |-> FALSE, old |-> FALSE]
  <2>1. new \in RowType /\ ~ new.ended
    BY DEF RowType, Statuses
  <2>2. row' = [row EXCEPT ![c] = new]
    BY <1>2 DEF Upsert
  <2> HIDE DEF new
  <2>3. row'[c] = new
    BY <2>2
  <2> QED BY <2>1, <2>2, <2>3, NoRowAssumption DEF Open
<1> QED BY <1>1, <1>2

(* A handler's step.                                                         *)
LEMMA CountedStep ==
    ASSUME RInv, CountedInv, NEW t \in Tasks, Step(t)
    PROVE  CountedInv'
<1> DEFINE q == task[t]
<1>1. q \in TaskType /\ TaskSound(q) /\ RTypes /\ InFlight(t)
  BY TaskMoves, Flying DEF RInv
<1>2. PICK r : task' = [task EXCEPT ![t] = r] /\ GoesOn(q, r)
  BY TaskMoves
<1>3. task'[t] = r /\ \A x \in Tasks \ {t} : task'[x] = task[x]
  BY <1>1, <1>2 DEF RTypes
<1>4. ASSUME r # Idle PROVE r.kind = q.kind /\ (q.kind # "message" => r.call = q.call)
  BY <1>2, <1>4 DEF GoesOn
<1>5. q.pc \in {"record", "dialog", "bye", "clean"} => q.kind # "message" /\ q.call \in Calls
  BY <1>1 DEF TaskSound
<1>6. InviteRecord(t) => q.pc = "record" /\ task'[t].pc = "dialog" /\ active' = active
  <2> SUFFICES ASSUME InviteRecord(t) PROVE q.pc = "record" /\ task'[t].pc = "dialog" /\ active' = active
    OBVIOUS
  <2>1. Becomes(t, [q EXCEPT !.pc = "dialog"])
    BY GotoStep DEF InviteRecord
  <2>2. task'[t] = [q EXCEPT !.pc = "dialog"]
    BY <1>1, <2>1 DEF Becomes, RTypes
  <2> QED BY <1>1, <2>2 DEF InviteRecord, TaskType
<1>7. row' = row \/ (InviteRecord(t) /\ row' = Upsert(q.call))
  <2>1. InviteRecord(t) => row' = row \/ row' = Upsert(q.call)
    BY DEF InviteRecord
  <2>2. row' = row \/ InviteRecord(t)
    BY TablesOfStep
  <2> QED BY <2>1, <2>2
<1>8. row' \in [Calls -> RowType \cup {NoRow}]
  BY <1>5, <1>6, <1>7, UpsertOpens DEF CountedInv
<1> SUFFICES ASSUME NEW c \in Calls \ loose' PROVE Counted(c)'
  BY <1>8 DEF CountedInv
<1>9. Counted(c) /\ row \in [Calls -> RowType \cup {NoRow}]
  BY TablesOfStep DEF CountedInv
<1>10. CASE t \notin Handling(c)
  <2>1. Handling(c)' = Handling(c)
    BY <1>1, <1>3, <1>4, <1>10 DEF Handling, InFlight
  <2>2. \A x \in Handling(c) : task'[x] = task[x]
    BY <1>3, <1>10 DEF Handling
  <2>3. q.pc \in {"record", "dialog", "bye", "clean"} => c # q.call
    BY <1>1, <1>5, <1>10 DEF Handling
  <2>4. row'[c] = row[c] /\ active'[c] = active[c]
    BY <1>5, <1>6, <1>7, <1>9, <2>3, UpsertOpens, TablesOfStep
  <2>5. Open(c)' <=> Open(c)
    BY <2>4 DEF Open
  <2> QED BY <1>9, <2>1, <2>2, <2>4, <2>5, CountedFrame
<1>11. CASE t \in Handling(c)
  <2>1. Handling(c) = {t} /\ q.call = c
    BY <1>9, <1>11 DEF Handling, Counted
  <2>2. \A x \in Handling(c)' : x = t /\ task'[t] # Idle
    BY <1>3, <2>1 DEF Handling, InFlight
  <2>3. CASE InviteRecord(t)
    <3>1. row' = Upsert(c) /\ ~ Closed(c)
      BY <2>1, <2>3 DEF InviteRecord
    <3>2. Open(c)'
      BY <1>9, <3>1, UpsertOpens
    <3> QED BY <2>2, <3>2 DEF Counted
  <2>4. CASE row' = row /\ task'[t] = Idle
    <3>1. Handling(c)' = {} /\ (Open(c)' <=> Open(c))
      BY <2>2, <2>4 DEF Open
    <3>2. CASE active' = active /\ q.pc \notin {"bye", "cancel", "clean"}
      BY <1>9, <2>1, <3>1, <3>2 DEF Counted
    <3>3. CASE q.pc = "dialog"
      BY <1>9, <2>1, <3>1, <3>3 DEF Counted
    <3>4. CASE active'[c] = NoDialog
      BY <3>1, <3>4 DEF Counted
    <3>5. Idle.pc # "clean"
      BY DEF Idle
    <3>6. ASSUME active' = [active EXCEPT ![q.call] = NoDialog] PROVE active'[c] = NoDialog
      BY <1>1, <2>1, <3>6 DEF RTypes
    <3> QED BY <2>3, <2>4, <3>2, <3>3, <3>4, <3>5, <3>6, TablesOfStep
  <2>5. CASE row' = row /\ active' = active /\ task'[t].pc # "dialog"
             /\ (q.pc = "cancel" => task'[t].pc = "clean") /\ q.pc \notin {"bye", "clean"}
    <3>1. Open(c)' <=> Open(c)
      BY <2>5 DEF Open
    <3>2. CASE task'[t] = Idle
      BY <2>4, <2>5, <3>2
    <3>3. CASE task'[t] # Idle
      <4>1. t \in Handling(c)'
        BY <1>3, <1>4, <2>1, <1>11, <3>3 DEF Handling, InFlight
      <4> QED BY <1>9, <2>1, <2>2, <2>5, <3>1, <4>1 DEF Counted
    <3> QED BY <3>2, <3>3
  <2> QED BY <2>3, <2>4, <2>5, TablesOfStep
<1> QED BY <1>10, <1>11

(* The statement of an ACK, a BYE or a CANCEL touches its own row, and that   *)
(* of an ACK leaves an open row open.                                        *)
LEMMA UpdateRowKeeps ==
    ASSUME NEW c \in Calls, row \in [Calls -> RowType \cup {NoRow}],
           NEW k \in {"ack", "bye", "cancel"}, row' = UpdateRow(c, k)
    PROVE  /\ row' \in [Calls -> RowType \cup {NoRow}]
           /\ k = "ack" /\ Open(c) => Open(c)'
           /\ \A x \in Calls \ {c} : row'[x] = row[x]
<1>1. CASE row[c] = NoRow
  BY <1>1 DEF UpdateRow, Open
<1>2. CASE row[c] # NoRow /\ k = "ack"
  <2> DEFINE new == [row[c] EXCEPT !.status = "answered"]
  <2>1. row' = [row EXCEPT ![c] = new]
    BY <1>2 DEF UpdateRow, Concluded
  <2>2. new \in RowType /\ new.ended = row[c].ended
    BY <1>2 DEF RowType, Statuses
  <2> HIDE DEF new
  <2>3. row'[c] = new
    BY <2>1
  <2> QED BY <2>1, <2>2, <2>3, NoRowAssumption DEF Open
<1>3. CASE row[c] # NoRow /\ k # "ack"
  <2> DEFINE new == [status |-> Concluded[k], ended |-> TRUE, old |-> FALSE]
  <2>1. row' = [row EXCEPT ![c] = new]
    BY <1>3 DEF UpdateRow
  <2>2. Concluded[k] \in Statuses
    BY SMTT(30) DEF Concluded, Statuses
  <2>3. new \in RowType
    BY <2>2 DEF RowType
  <2> QED BY <1>3, <2>1, <2>3
<1> QED BY <1>1, <1>2, <1>3

(* A request that arrives.                                                   *)
LEMMA CountedArrive ==
    ASSUME RInv, CountedInv, NEW t \in Tasks, NEW u \in Users, NEW v \in Users, NEW s, NEW b, NEW k,
           \/ k \in {"invite", "message"} /\ Arrive(t, k, u, v, s, b)
           \/ k \in {"ack", "bye", "cancel"} /\ Conclude(t, k, u, v, s, b) /\ b \in Calls
    PROVE  CountedInv'
<1>1. RTypes /\ ~ InFlight(t) /\ active' = active /\ loose \subseteq loose'
  BY DEF RInv, Arrive, Conclude, Takes
<1>2. /\ task'[t].call = b /\ task'[t].kind = k
      /\ task'[t].pc = IF k \in {"invite", "message"} THEN "select" ELSE k
      /\ \A x \in Tasks \ {t} : task'[x] = task[x]
  BY <1>1, SMTT(30) DEF Arrive, Conclude, Takes, Becomes, RTypes
<1>3. /\ row' \in [Calls -> RowType \cup {NoRow}]
      /\ \A c \in Calls : c # b \/ k \in {"invite", "message"} => row'[c] = row[c]
      /\ b \in Calls \ loose' /\ k = "ack" /\ Open(b) => Open(b)'
  BY UpdateRowKeeps DEF Arrive, Conclude, CountedInv, tableVars
<1> SUFFICES ASSUME NEW c \in Calls \ loose' PROVE Counted(c)'
  BY <1>3 DEF CountedInv
<1>4. Counted(c)
  BY <1>1 DEF CountedInv
<1>5. /\ t \notin Handling(c) /\ Handling(c)' \subseteq Handling(c) \cup {t}
      /\ Handling(c) \subseteq Handling(c)'
      /\ \A x \in Handling(c) : task'[x] = task[x]
  BY <1>1, <1>2 DEF Handling, InFlight
<1>6. CASE c # b \/ k = "message"
  <2>1. t \notin Handling(c)'
    BY <1>2, <1>6 DEF Handling
  <2>2. row'[c] = row[c]
    BY <1>3, <1>6
  <2>3. Handling(c)' = Handling(c) /\ (Open(c)' <=> Open(c))
    BY <1>5, <2>1, <2>2 DEF Open
  <2> QED BY <1>1, <1>4, <1>5, <2>3, CountedFrame
<1>7. CASE c = b /\ k # "message"
  <2>1. Handling(c) = {}
    BY <1>7 DEF Arrive, Conclude
  <2>2. active[c] # NoDialog => Open(c)
    BY <1>4, <2>1 DEF Counted
  <2>3. \A x \in Handling(c)' : x = t /\ task'[x].pc # "dialog"
    BY <1>2, <1>5, <2>1
  <2>4. CASE k \in {"bye", "cancel"}
    <3>1. t \in Handling(c)'
      BY <1>2, <1>7, <2>4, SMTT(30) DEF Handling, InFlight, Idle
    <3> QED BY <1>2, <2>3, <2>4, <3>1 DEF Counted
  <2>5. CASE k \in {"ack", "invite"}
    <3>1. Open(c) => Open(c)'
      BY <1>3, <1>7, <2>5 DEF Open
    <3> QED BY <1>1, <2>2, <2>3, <3>1 DEF Counted
  <2> QED BY <1>7, <2>4, <2>5
<1> QED BY <1>6, <1>7

(* Steps of the records: each row stays, or stays as open as it was, or is    *)
(* closed by a sweep that lets go of the call.                               *)
LEMMA CountedRecords ==
    ASSUME CountedInv, task' = task, active' = active, loose \subseteq loose',
           row' \in [Calls -> RowType \cup {NoRow}],
           \A c \in Calls \ loose' : \/ Open(c) => Open(c)'
                                     \/ active[c] = NoDialog /\ Handling(c) = {}
    PROVE  CountedInv'
<1> SUFFICES ASSUME NEW c \in Calls \ loose' PROVE Counted(c)'
  BY DEF CountedInv
<1>1. Counted(c)
  BY DEF CountedInv
<1>2. Handling(c)' = Handling(c)
  BY DEF Handling, InFlight
<1>3. CASE Open(c) => Open(c)'
  BY <1>1, <1>2, <1>3, CountedFrame
<1>4. CASE active[c] = NoDialog /\ Handling(c) = {}
  BY <1>2, <1>4 DEF Counted
<1> QED BY <1>3, <1>4

(* The sweeps, the purge of old records, and time.                           *)
LEMMA CountedSweep ==
    ASSUME CountedInv, CallSweep \/ cleanup_calls \/ CdrPurge \/ \E c \in Calls : Age(c)
    PROVE  CountedInv'
<1>1. task' = task /\ active' = active /\ row \in [Calls -> RowType \cup {NoRow}]
  BY DEF CallSweep, cleanup_calls, CdrPurge, Age, CountedInv
<1> DEFINE gone == [status |-> "ended", ended |-> TRUE, old |-> FALSE]
<1>2. gone \in RowType
  BY DEF RowType, Statuses
<1>3. ASSUME NEW all \in BOOLEAN, mark_stale_calls_ended(all), loose' = loose \cup Outlive(all)
      PROVE  CountedInv'
  <2>1. row' = [c \in Calls |-> IF Stale(c, all) THEN gone ELSE row[c]]
    BY <1>3 DEF mark_stale_calls_ended
  <2> HIDE DEF gone
  <2>2. row' \in [Calls -> RowType \cup {NoRow}]
    BY <1>1, <1>2, <2>1
  <2>3. ASSUME NEW c \in Calls \ loose', ~ Stale(c, all) PROVE Open(c) => Open(c)'
    BY <2>1, <2>3 DEF Open
  <2>4. ASSUME NEW c \in Calls \ loose', Stale(c, all) PROVE active[c] = NoDialog /\ Handling(c) = {}
    BY <1>3, <2>4 DEF Outlive
  <2> QED BY <1>1, <1>3, <2>2, <2>3, <2>4, CountedRecords
<1>4. CASE CallSweep \/ cleanup_calls
  BY <1>3, <1>4 DEF CallSweep, cleanup_calls
<1>5. CASE CdrPurge
  <2>1. row' = [c \in Calls |-> IF Closed(c) /\ row[c].old THEN NoRow ELSE row[c]] /\ loose' = loose
    BY <1>5 DEF CdrPurge, purge_old_cdr_records, seenVars
  <2>2. row' \in [Calls -> RowType \cup {NoRow}]
    BY <1>1, <2>1
  <2>3. ASSUME NEW c \in Calls PROVE Open(c) => Open(c)'
    BY <2>1 DEF Open, Closed
  <2> QED BY <1>1, <2>1, <2>2, <2>3, CountedRecords
<1>6. ASSUME NEW c \in Calls, Age(c) PROVE CountedInv'
  <2> DEFINE new == [row[c] EXCEPT !.old = TRUE]
  <2>1. row' = [row EXCEPT ![c] = new] /\ loose' = loose /\ row[c] # NoRow
    BY <1>6 DEF Age, seenVars
  <2>2. new \in RowType /\ new.ended = row[c].ended
    BY <1>1, <2>1 DEF RowType
  <2> HIDE DEF new
  <2>3. row' \in [Calls -> RowType \cup {NoRow}]
    BY <1>1, <2>1, <2>2
  <2>4. ASSUME NEW x \in Calls PROVE Open(x) => Open(x)'
    <3>1. CASE x = c
      <4>1. row'[c] = new
        BY <1>1, <2>1
      <4> QED BY <2>2, <3>1, <4>1, NoRowAssumption DEF Open
    <3>2. CASE x # c
      BY <1>1, <2>1, <3>2 DEF Open
    <3> QED BY <3>1, <3>2
  <2> QED BY <1>1, <2>1, <2>3, <2>4, CountedRecords
<1> QED BY <1>4, <1>5, <1>6

(* A restart, voicemail, and the steps that concern no row or dialog.        *)
LEMMA CountedOther ==
    ASSUME RInv, CountedInv,
           \/ Restart
           \/ \E c \in Calls : VoicemailTakes(c)
           \/ UNCHANGED <<active, row, task, loose>>
    PROVE  CountedInv'
<1>1. CASE Restart
  <2>1. /\ \A c \in Calls : active'[c] = NoDialog /\ Handling(c)' = {}
        /\ loose' = loose
    BY <1>1 DEF Restart, Handling, InFlight
  <2>2. row' \in [Calls -> RowType \cup {NoRow}]
    <3> DEFINE gone == [status |-> "ended", ended |-> TRUE, old |-> FALSE]
    <3>1. gone \in RowType
      BY DEF RowType, Statuses
    <3>2. row' = row \/ row' = [c \in Calls |-> IF Stale(c, TRUE) THEN gone ELSE row[c]]
      BY <1>1 DEF Restart, mark_stale_calls_ended
    <3> HIDE DEF gone
    <3> QED BY <3>1, <3>2 DEF CountedInv
  <2> QED BY <2>1, <2>2 DEF CountedInv, Counted
<1>2. ASSUME NEW c \in Calls, VoicemailTakes(c) PROVE CountedInv'
  <2>1. /\ UNCHANGED <<row, task, loose>>
        /\ \A x \in Calls : active'[x] = active[x] \/ active'[x] = NoDialog
    BY <1>2 DEF VoicemailTakes, tableVars, seenVars, RInv, RTypes
  <2>2. \A x \in Calls : Handling(x)' = Handling(x) /\ (Open(x)' <=> Open(x))
    BY <2>1 DEF Handling, InFlight, Open
  <2> QED BY <2>1, <2>2, CountedFrame DEF CountedInv
<1>3. CASE UNCHANGED <<active, row, task, loose>>
  <2>1. \A c \in Calls : Open(c)' <=> Open(c)
    BY <1>3 DEF Open
  <2> QED BY <1>3, <2>1, CountedRecords DEF CountedInv
<1> QED BY <1>1, <1>2, <1>3

(* The messages that were sent on and are not stored yet.                    *)
Delivering == {t \in Tasks : task[t].pc = "delivered"}

SentInv ==
    /\ stored \in [delivered : Nat, failed : Nat] /\ forwarded \in Nat /\ faults \in Nat
    /\ IsFiniteSet(Delivering)
    /\ stored.delivered + Cardinality(Delivering) <= forwarded
    /\ faults = 0 => stored.delivered + Cardinality(Delivering) = forwarded

INSTANCE FiniteSetTheorems

(* Nothing is sent on or stored.                                             *)
LEMMA SentFrame ==
    ASSUME SentInv, stored' = stored, forwarded' = forwarded, Delivering' = Delivering,
           faults' = faults \/ faults' = faults + 1
    PROVE  SentInv'
BY SMTT(30) DEF SentInv

(* A MESSAGE is sent on, or stored as delivered.                             *)
LEMMA SentStep ==
    ASSUME RInv, SentInv, NEW t \in Tasks, Step(t)
    PROVE  SentInv'
<1> DEFINE q == task[t]
<1>1. PICK r : task' = [task EXCEPT ![t] = r] /\ GoesOn(q, r)
  BY TaskMoves
<1>2. task'[t] = r /\ \A x \in Tasks \ {t} : task'[x] = task[x]
  BY <1>1 DEF RInv, RTypes
<1>3. r.pc = "delivered" => q.pc = "send"
  <2>1. Idle.pc # "delivered"
    BY DEF Idle
  <2> QED BY <1>1, <2>1 DEF GoesOn
<1>4. Delivering' \ {t} = Delivering \ {t}
  BY <1>2 DEF Delivering
<1>5. Cardinality(Delivering) \in Nat
  BY FS_CardinalityType DEF SentInv
<1>6. CASE MessageSend(t)
  <2>1. t \notin Delivering
    BY <1>6 DEF MessageSend, Delivering
  <2>2. CASE Goto(t, "failed") /\ Fault /\ UNCHANGED forwarded
    <3>1. Becomes(t, [q EXCEPT !.pc = "failed"])
      BY <2>2, GotoStep
    <3>2. task'[t] = [q EXCEPT !.pc = "failed"] /\ q \in TaskType
      BY <3>1, TaskMoves DEF Becomes, RInv, RTypes
    <3>3. task'[t].pc = "failed"
      BY <3>2 DEF TaskType
    <3>4. Delivering' = Delivering
      BY <1>4, <2>1, <3>3 DEF Delivering
    <3>5. stored' = stored /\ forwarded' = forwarded /\ faults' = faults + 1
      BY <1>6, <2>2 DEF MessageSend, Fault, tableVars
    <3> QED BY <3>4, <3>5, SentFrame
  <2>3. CASE Goto(t, "delivered") /\ forwarded' = forwarded + 1 /\ UNCHANGED faults
    <3>1. Becomes(t, [q EXCEPT !.pc = "delivered"])
      BY <2>3, GotoStep
    <3>2. task'[t] = [q EXCEPT !.pc = "delivered"] /\ q \in TaskType
      BY <3>1, TaskMoves DEF Becomes, RInv, RTypes
    <3>3. task'[t].pc = "delivered"
      BY <3>2 DEF TaskType
    <3>4. Delivering' = Delivering \cup {t}
      BY <1>4, <2>1, <3>3 DEF Delivering
    <3>5. IsFiniteSet(Delivering') /\ Cardinality(Delivering') = Cardinality(Delivering) + 1
      BY <2>1, <3>4, FS_AddElement DEF SentInv
    <3>6. stored' = stored /\ forwarded' = forwarded + 1 /\ faults' = faults
      BY <1>6, <2>3 DEF MessageSend, tableVars
    <3> QED BY <1>5, <3>5, <3>6, SMTT(30) DEF SentInv
  <2> QED BY <1>6, <2>2, <2>3 DEF MessageSend
<1>7. CASE persist_message(t)
  <2>1. task'[t] = Idle /\ Idle.pc # "delivered"
    BY <1>7 DEF persist_message, Becomes, RInv, RTypes, Idle
  <2>2. Delivering' = Delivering \ {t}
    BY <1>4, <2>1 DEF Delivering
  <2>3. forwarded' = forwarded
    BY <1>7 DEF persist_message, sentVars
  <2>4. CASE q.pc = "failed"
    <3>1. Delivering' = Delivering
      BY <2>2, <2>4 DEF Delivering
    <3>2. CASE stored' = [stored EXCEPT ![q.pc] = @ + 1] /\ UNCHANGED faults
      <4>1. stored' \in [delivered : Nat, failed : Nat] /\ stored'.delivered = stored.delivered
        BY <2>4, <3>2, SMTT(30) DEF SentInv
      <4> QED BY <2>3, <3>1, <3>2, <4>1, SMTT(30) DEF SentInv
    <3>3. CASE Fault /\ UNCHANGED stored
      BY <2>3, <3>1, <3>3, SentFrame DEF Fault
    <3> QED BY <1>7, <3>2, <3>3 DEF persist_message
  <2>5. CASE q.pc = "delivered"
    <3>1. IsFiniteSet(Delivering') /\ Cardinality(Delivering') = Cardinality(Delivering) - 1
      <4>1. t \in Delivering
        BY <2>5 DEF Delivering
      <4> QED BY <2>2, <4>1, FS_RemoveElement DEF SentInv
    <3>2. CASE stored' = [stored EXCEPT ![q.pc] = @ + 1] /\ UNCHANGED faults
      <4>1. /\ stored' \in [delivered : Nat, failed : Nat]
            /\ stored'.delivered = stored.delivered + 1
        BY <2>5, <3>2, SMTT(30) DEF SentInv
      <4> QED BY <1>5, <2>3, <3>1, <3>2, <4>1, SMTT(30) DEF SentInv
    <3>3. CASE Fault /\ UNCHANGED stored
      BY <1>5, <2>3, <3>1, <3>3, SMTT(30) DEF SentInv, Fault
    <3> QED BY <1>7, <3>2, <3>3 DEF persist_message
  <2> QED BY <1>7, <2>4, <2>5 DEF persist_message
<1>8. CASE ~ MessageSend(t) /\ ~ persist_message(t)
  <2>1. /\ stored' = stored /\ forwarded' = forwarded
        /\ faults' = faults \/ faults' = faults + 1
        /\ q.pc \notin {"send", "delivered"}
    BY <1>8 DEF Step, RefreshSelect, RefreshUpdate, RefreshFails, InviteLookup, InviteRecord,
       InviteDialog, AckForward, ByeForward, CancelForward, CancelClean, MessageTarget, Fault,
       tableVars, sentVars
  <2>2. Delivering' = Delivering
    BY <1>2, <1>3, <1>4, <2>1 DEF Delivering
  <2> QED BY <2>1, <2>2, SentFrame
<1> QED BY <1>6, <1>7, <1>8

(* The steps of everything else: requests that arrive, time and restarts.    *)
LEMMA SentOther ==
    ASSUME RInv, SentInv,
           \/ /\ UNCHANGED <<stored, forwarded>>
              /\ faults' = faults \/ faults' = faults + 1
              /\ \E t \in Tasks : /\ task[t] = Idle /\ task'[t].pc # "delivered"
                                  /\ \A x \in Tasks \ {t} : task'[x] = task[x]
           \/ UNCHANGED <<stored, forwarded, task, faults>>
           \/ Restart
    PROVE  SentInv'
<1>1. CASE Restart
  <2>1. Delivering' = {}
    BY <1>1 DEF Restart, Delivering, Idle
  <2>2. stored' = stored /\ forwarded' = forwarded /\ faults' = faults + 1
    BY <1>1 DEF Restart, Fault, sentVars
  <2>3. Cardinality(Delivering) \in Nat
    BY FS_CardinalityType DEF SentInv
  <2>4. IsFiniteSet({}) /\ Cardinality({}) = 0
    BY FS_EmptySet
  <2> QED BY <2>1, <2>2, <2>3, <2>4, SMTT(30) DEF SentInv
<1>2. CASE UNCHANGED <<stored, forwarded, task, faults>>
  BY <1>2, SentFrame DEF Delivering
<1>3. ASSUME NEW t \in Tasks, task[t] = Idle, task'[t].pc # "delivered",
             \A x \in Tasks \ {t} : task'[x] = task[x],
             UNCHANGED <<stored, forwarded>>, faults' = faults \/ faults' = faults + 1
      PROVE  SentInv'
  <2>1. task[t].pc # "delivered"
    BY <1>3, SMTT(30) DEF Idle
  <2>2. Delivering' = Delivering
    BY <1>3, <2>1 DEF Delivering
  <2> QED BY <1>3, <2>2, SentFrame
<1> QED BY <1>1, <1>2, <1>3

-----------------------------------------------------------------------------
(* The three invariants of the records, on top of the one of the routes.     *)
Records == NewestInv /\ CountedInv /\ SentInv

(* A request that arrives.                                                   *)
LEMMA RecordsArrive ==
    ASSUME RInv, Records, NEW t \in Tasks, NEW u \in Users, NEW v \in Users, NEW s, NEW c, NEW k,
           \/ k \in {"invite", "message"} /\ Arrive(t, k, u, v, s, c)
           \/ k \in {"ack", "bye", "cancel"} /\ Conclude(t, k, u, v, s, c) /\ c \in Calls
    PROVE  Records'
<1>1. NewestInv' /\ CountedInv'
  BY NewestArrive, CountedArrive DEF Records
<1>2. /\ UNCHANGED <<stored, forwarded>>
      /\ faults' = faults \/ faults' = faults + 1
      /\ task[t] = Idle
  BY DEF Arrive, Conclude, Takes, InFlight, Fault, tableVars, sentVars
<1>3. task'[t].pc # "delivered" /\ \A x \in Tasks \ {t} : task'[x] = task[x]
  BY SMTT(30) DEF Arrive, Conclude, Takes, Becomes, RInv, RTypes
<1> QED BY <1>1, <1>2, <1>3, SentOther DEF Records

(* A step of the registrar, of the dialogs alone, of time, or a restart.     *)
LEMMA RecordsOther ==
    ASSUME RInv, Records,
           \/ \E u \in Users : Lapse(u) \/ \E s : Register(u, s)
           \/ \E u, v, s, c : InDialog(u, v, s, c)
           \/ \E c \in Calls : VoicemailTakes(c) \/ Age(c)
           \/ CallSweep \/ cleanup_calls \/ CdrPurge \/ Restart \/ UNCHANGED vars
    PROVE  Records'
<1>1. SentInv'
  <2>1. Restart \/ UNCHANGED <<stored, forwarded, task, faults>>
    BY DEF Lapse, Register, InDialog, VoicemailTakes, Age, CallSweep, cleanup_calls, CdrPurge, vars,
       tableVars, sentVars
  <2> QED BY <2>1, SentOther DEF Records
<1>2. NewestInv'
  <2>1. \/ Restart \/ UNCHANGED <<reg, task, last, crossed>>
        \/ \E u \in Users : Lapse(u) \/ \E s : Register(u, s)
    BY DEF InDialog, VoicemailTakes, Age, CallSweep, cleanup_calls, CdrPurge, vars, tableVars, seenVars
  <2> QED BY <2>1, NewestOther, NewestRegister DEF Records
<1>3. CountedInv'
  <2>1. \/ Restart \/ UNCHANGED <<active, row, task, loose>>
        \/ \E c \in Calls : VoicemailTakes(c) \/ Age(c)
        \/ CallSweep \/ cleanup_calls \/ CdrPurge
    BY DEF InDialog, Lapse, Register, vars, tableVars, seenVars
  <2> QED BY <2>1, CountedOther, CountedSweep DEF Records
<1> QED BY <1>1, <1>2, <1>3 DEF Records

(* Every step of the system.                                                 *)
LEMMA RecordsNext ==
    ASSUME RInv, Records, [Next]_vars
    PROVE  Records'
<1>1. ASSUME NEW t \in Tasks, Step(t) PROVE Records'
  BY <1>1, NewestStep, CountedStep, SentStep DEF Records
<1>2. CASE SourcelessRequests
  BY <1>2, RecordsArrive DEF SourcelessRequests
<1>3. CASE Requests
  <2>1. PICK u \in Users, v \in Users : \E s \in Sources[u] :
             \/ Register(u, s)
             \/ \E t \in Tasks, c \in Calls :
                    ArriveInvite(t, u, v, s, c) \/ Conclude(t, "bye", u, v, s, c)
             \/ \E t \in Tasks, c \in Calls \cup {NoCall} : ArriveMessage(t, u, v, s, c)
             \/ \E c \in Calls : InDialog(u, v, s, c)
    BY <1>3 DEF Requests, handle_refer, handle_notify, handle_info
  <2> QED BY <2>1, RecordsArrive, RecordsOther DEF ArriveInvite, ArriveMessage
<1>4. CASE \/ \E u \in Users : Lapse(u)
           \/ \E c \in Calls : VoicemailTakes(c) \/ Age(c)
           \/ CallSweep \/ cleanup_calls \/ CdrPurge \/ Restart \/ UNCHANGED vars
  BY <1>4, RecordsOther
<1> QED BY <1>1, <1>2, <1>3, <1>4 DEF Next

(* The initial states.                                                       *)
LEMMA RecordsInit ==
    ASSUME Init, RInv
    PROVE  Records
<1>1. \A t \in Tasks : task[t] = Idle /\ Idle.pc # "delivered"
  BY DEF Init, Idle
<1>2. NewestInv
  <2>1. \A u \in Users : Refreshing(u) = {}
    BY <1>1 DEF Refreshing, InFlight
  <2> QED BY <2>1 DEF Init, NewestInv, Fresh, RInv, RTypes
<1>3. CountedInv
  <2>1. \A c \in Calls : Handling(c) = {}
    BY <1>1 DEF Handling, InFlight
  <2> QED BY <2>1 DEF Init, CountedInv, Counted
<1>4. SentInv
  <2>1. Delivering = {}
    BY <1>1 DEF Delivering
  <2> QED BY <2>1, FS_EmptySet, SMTT(30) DEF Init, SentInv
<1> QED BY <1>2, <1>3, <1>4 DEF Records

(* Both invariants are inductive.                                            *)
THEOREM RoutingInvariance == Spec => [](RInv /\ Records)
<1>1. Init => RInv /\ Records
  BY RInit, RecordsInit
<1>2. RInv /\ Records /\ [Next]_vars => (RInv /\ Records)'
  BY RNext, RecordsNext
<1> HIDE DEF Init, Next, RInv, Records, vars, Fairness
<1> QED BY <1>1, <1>2, PTL DEF Spec

(* For every set of users, sources, calls and handlers: a registration never *)
(* names an address and a port its user did not send from together, however  *)
(* refreshes and REGISTERs overlap (refresh_sender_registration_source), and *)
(* a request sent on in its dialog or by registration reaches a source of    *)
(* its addressee (handle_ack, handle_bye, handle_cancel, handle_refer,       *)
(* handle_notify, handle_info, handle_message).                              *)
THEOREM RoutingSafe == Spec => [](GenuineSource /\ RequestsReachPeer)
<1>1. RInv => GenuineSource /\ RequestsReachPeer
  BY DEF RInv
<1> QED BY <1>1, RoutingInvariance, PTL

(* However REGISTERs, refreshes, expiries and restarts interleave: between   *)
(* requests a registration names the port its user last sent from, unless    *)
(* two requests of the user overlapped or a statement failed                 *)
(* (refresh_sender_registration_source).                                     *)
THEOREM SourceFollows == Spec => []NewestSource
<1>1. Records => NewestSource
  BY DEF Records, NewestInv, Fresh, NewestSource
<1> QED BY <1>1, RoutingInvariance, PTL

(* A dialog that nobody handles has an open row, unless its handlers         *)
(* overlapped, a statement failed, its Call-ID was used before or a sweep    *)
(* closed it: for any number of calls and handlers.                          *)
THEOREM DialogsAreCounted == Spec => []DialogIsCounted
<1>1. Records => DialogIsCounted
  BY DEF Records, CountedInv, Counted, DialogIsCounted
<1> QED BY <1>1, RoutingInvariance, PTL

(* No message is stored as delivered that was not sent on; without faults    *)
(* and handlers in flight each one is (handle_message, persist_message).     *)
THEOREM MessagesAccounted == Spec => []DeliveredWasSent
<1>1. RInv /\ Records => DeliveredWasSent
  <2> SUFFICES ASSUME Records PROVE DeliveredWasSent
    OBVIOUS
  <2>1. Cardinality(Delivering) \in Nat /\ SentInv
    BY FS_CardinalityType DEF Records, SentInv
  <2>2. ASSUME \A t \in Tasks : ~ InFlight(t) PROVE Cardinality(Delivering) = 0
    <3>1. Delivering = {}
      BY <2>2, SMTT(30) DEF Delivering, InFlight, Idle
    <3> QED BY <3>1, FS_EmptySet
  <2> QED BY <2>1, <2>2, SMTT(30) DEF SentInv, DeliveredWasSent
<1> QED BY <1>1, RoutingInvariance, PTL
=============================================================================
