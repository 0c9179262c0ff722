------------------------ MODULE SecurityGuard_proofs ------------------------
(* Proofs that the guards' blocks and the rules of sip_acl agree, for any   *)
(* thresholds, surfaces, users and number of requests handled at once.      *)
EXTENDS SecurityGuard, FiniteSetTheorems, WellFoundedInduction, TLAPS

(* Leaves without arithmetic go to Zenon; the others name SMT.               *)
USE ZenonT(30)

-----------------------------------------------------------------------------
(* TypeOK is inductive by itself.                                           *)

(* Initially nothing is blocked and there is no rule.                       *)
LEMMA InitTypeOK == Init => TypeOK
<1> SUFFICES ASSUME Init PROVE TypeOK
  OBVIOUS
<1>1. clock \in Nat /\ nextId \in Nat /\ rows = {} /\ excused = {} /\ edited \in BOOLEAN
  BY DEF Init
<1>2. until \in [Surfaces -> Nat] /\ \A s \in Surfaces : until[s] <= clock + BlockSecs
  BY GuardAssumption, SMTT(30) DEF Init
<1>3. task \in [Tasks -> Requests \cup {Idle}]
  BY DEF Init
<1> QED BY <1>1, <1>2, <1>3 DEF TypeOK

(* Steps of a request that leave the guard and the table alone.             *)
LEMMA RequestType ==
  ASSUME TypeOK, NEW t \in Tasks, Receive(t) \/ CheckBlocked(t) \/ NoVerdict(t)
  PROVE  TypeOK'
<1>1. task' \in [Tasks -> Requests \cup {Idle}]
  <2>1. CASE Receive(t)
    BY <2>1, SMTT(30) DEF TypeOK, Receive, Becomes, Requests
  <2>2. CASE CheckBlocked(t)
    <3>1. task[t] \in Requests
      BY <2>2, SMTT(30) DEF TypeOK, CheckBlocked, Idle
    <3>2. [task[t] EXCEPT !.pc = "auth"] \in Requests
      BY <3>1 DEF Requests
    <3> QED BY <2>2, <3>2 DEF TypeOK, CheckBlocked, Becomes
  <2>3. CASE NoVerdict(t)
    BY <2>3 DEF TypeOK, NoVerdict, Becomes
  <2> QED BY <2>1, <2>2, <2>3
<1>2. UNCHANGED <<clock, until, rows, nextId, excused, edited>>
  BY DEF Receive, CheckBlocked, NoVerdict, guardVars, aclVars
<1> QED BY <1>1, <1>2 DEF TypeOK

(* A verdict: the new block ends block_secs from now.                       *)
LEMMA VerdictType ==
  ASSUME TypeOK, NEW t \in Tasks, record_failure(t) \/ record_success(t)
  PROVE  TypeOK'
<1>1. CASE record_failure(t)
  <2> DEFINE s == task[t].surface
  <2>1. task[t] \in Requests
    BY <1>1, SMTT(30) DEF TypeOK, record_failure, Idle
  <2>2. [task[t] EXCEPT !.pc = "ban"] \in Requests
    BY <2>1, SMTT(30) DEF Requests
  <2>3. task' \in [Tasks -> Requests \cup {Idle}]
    BY <1>1, <2>2 DEF TypeOK, record_failure, Becomes
  <2>4. s \in Surfaces
    BY <2>1, SMTT(30) DEF Requests
  <2>5. until' = until \/ until' = [until EXCEPT ![s] = clock + BlockSecs]
    BY <1>1 DEF record_failure
  <2>6. /\ until' \in [Surfaces -> Nat]
        /\ \A x \in Surfaces : until'[x] <= clock + BlockSecs
    BY <2>4, <2>5, GuardAssumption, SMTT(30) DEF TypeOK
  <2>7. UNCHANGED <<clock, rows, nextId, edited>> /\ excused' \subseteq excused
    BY <1>1 DEF record_failure, aclVars
  <2> QED BY <2>3, <2>6, <2>7 DEF TypeOK
<1>2. CASE record_success(t)
  <2>1. task' \in [Tasks -> Requests \cup {Idle}]
    BY <1>2 DEF TypeOK, record_success, Becomes
  <2>2. UNCHANGED <<clock, until, rows, nextId, excused, edited>>
    BY <1>2 DEF record_success, aclVars
  <2> QED BY <2>1, <2>2 DEF TypeOK
<1> QED BY <1>1, <1>2

(* A new rule gets an id no rule has.                                       *)
LEMMA InsertType ==
  ASSUME TypeOK, NEW r \in Rules, r.id = nextId, Insert(r)
  PROVE  /\ rows' \subseteq Rules
         /\ \A p, q \in rows' : p.id = q.id => p = q
         /\ nextId' \in Nat /\ \A q \in rows' : q.id < nextId'
<1>1. rows' = rows \cup {r} /\ nextId' = nextId + 1
  BY DEF Insert
<1>2. \A q \in rows : q.id \in Nat /\ q.id < nextId
  BY DEF TypeOK, Rules
<1> QED BY <1>1, <1>2, SMTT(30) DEF TypeOK

(* The ban a guard writes.                                                  *)
LEMMA BanIsRule == TypeOK => Ban \in Rules /\ Ban.id = nextId
  BY GuardAssumption, SMTT(30) DEF TypeOK, Ban, Rules

(* The step that writes the ban, and its failure.                           *)
LEMMA BanType ==
  ASSUME TypeOK, NEW t \in Tasks, persist_acl_ban(t) \/ BanFails(t)
  PROVE  TypeOK'
<1>1. task' \in [Tasks -> Requests \cup {Idle}]
  BY DEF TypeOK, persist_acl_ban, BanFails, Becomes
<1>2. UNCHANGED <<clock, until, edited>>
  BY DEF persist_acl_ban, BanFails, guardVars
<1>3. excused' \subseteq Surfaces
  <2>1. CASE persist_acl_ban(t)
    BY <2>1 DEF persist_acl_ban, TypeOK
  <2>2. CASE BanFails(t)
    BY <2>2, SMTT(30) DEF BanFails, TypeOK, Idle, Requests
  <2> QED BY <2>1, <2>2
<1>4. /\ rows' \subseteq Rules
      /\ \A p, q \in rows' : p.id = q.id => p = q
      /\ nextId' \in Nat /\ \A q \in rows' : q.id < nextId'
  <2>1. CASE UNCHANGED aclVars
    BY <2>1 DEF aclVars, TypeOK
  <2>2. CASE Insert(Ban)
    BY <2>2, BanIsRule, InsertType
  <2> QED BY <2>1, <2>2 DEF persist_acl_ban, BanFails
<1> QED BY <1>1, <1>2, <1>3, <1>4 DEF TypeOK

(* What the statement of an update does to one rule.                        *)
LEMMA UpdateRule ==
  ASSUME update
  PROVE  \E r \in rows, a \in {"allow", "deny"}, c \in {"host", "net"}, e \in BOOLEAN :
         \E p \in Priorities \cup {r.priority} :
           /\ rows' = (rows \ {r}) \cup
                 {[r EXCEPT !.action = a, !.cidr = c, !.priority = p, !.enabled = e]}
           /\ edited' = (edited \/ r.auto)
           /\ nextId' = nextId
  BY ZenonT(120) DEF update

(* The management API: ids stay unique and actions valid.                   *)
LEMMA AdminType ==
  ASSUME TypeOK, create \/ update \/ delete_rule \/ unblock
  PROVE  TypeOK'
<1>1. UNCHANGED <<clock, until, task>>
  BY DEF create, update, delete_rule, unblock, guardVars
<1>2. excused' \subseteq Surfaces /\ edited' \in BOOLEAN
  BY DEF create, update, delete_rule, unblock, TypeOK
<1>3. /\ rows' \subseteq Rules
      /\ \A p, q \in rows' : p.id = q.id => p = q
      /\ nextId' \in Nat /\ \A q \in rows' : q.id < nextId'
  <2>1. CASE create
    <3>1. PICK a \in {"allow", "deny"}, c \in {"host", "net"}, p \in Priorities, e \in BOOLEAN :
             Insert([id |-> nextId, action |-> a, cidr |-> c, priority |-> p,
                     auto |-> FALSE, enabled |-> e])
      BY <2>1 DEF create
    <3> DEFINE r == [id |-> nextId, action |-> a, cidr |-> c, priority |-> p,
                     auto |-> FALSE, enabled |-> e]
    <3>2. r \in Rules /\ r.id = nextId
      BY GuardAssumption DEF TypeOK, Rules
    <3> QED BY <3>1, <3>2, InsertType
  <2>2. CASE update
    <3>1. PICK r \in rows, a \in {"allow", "deny"}, c \in {"host", "net"}, e \in BOOLEAN :
             \E p \in Priorities \cup {r.priority} :
               /\ rows' = (rows \ {r}) \cup
                     {[r EXCEPT !.action = a, !.cidr = c, !.priority = p, !.enabled = e]}
               /\ nextId' = nextId
      BY <2>2, UpdateRule, ZenonT(120)
    <3>2. PICK p \in Priorities \cup {r.priority} :
             /\ rows' = (rows \ {r}) \cup
                   {[r EXCEPT !.action = a, !.cidr = c, !.priority = p, !.enabled = e]}
             /\ nextId' = nextId
      BY <3>1, ZenonT(60)
    <3> DEFINE n == [r EXCEPT !.action = a, !.cidr = c, !.priority = p, !.enabled = e]
    <3>3. r \in Rules
      BY DEF TypeOK
    <3>4. n \in Rules /\ n.id = r.id
      BY <3>3, GuardAssumption DEF Rules
    <3>5. rows' = (rows \ {r}) \cup {n} /\ nextId' = nextId
      BY <3>2
    <3> HIDE DEF n
    <3>6. \A q \in rows' : q = n \/ (q \in rows /\ q # r)
      BY <3>5
    <3>7. \A q \in rows : q # r => q.id # r.id
      BY DEF TypeOK
    <3>8. \A q \in rows' : q \in Rules /\ q.id < nextId
      BY <3>4, <3>6 DEF TypeOK
    <3>9. \A q, x \in rows' : q.id = x.id => q = x
      BY <3>4, <3>6, <3>7 DEF TypeOK
    <3> QED BY <3>5, <3>8, <3>9 DEF TypeOK
  <2>3. CASE delete_rule
    BY <2>3 DEF delete_rule, TypeOK
  <2>4. CASE unblock
    <3> DEFINE bans == {r \in EnabledRules : r.auto /\ r.action = "deny" /\ r.cidr = "host"}
               off(r) == [r EXCEPT !.enabled = FALSE]
    <3>1. rows' = (rows \ bans) \cup {off(r) : r \in bans} /\ nextId' = nextId
      BY <2>4 DEF unblock
    <3>2. bans \subseteq rows
      BY DEF EnabledRules
    <3>3. \A r \in rows : r \in Rules /\ off(r) \in Rules /\ off(r).id = r.id
      BY DEF TypeOK, Rules
    <3> HIDE DEF bans, off
    <3>4. \A q \in rows' : \E r \in rows :
             /\ q.id = r.id /\ q \in Rules
             /\ q = IF r \in bans THEN off(r) ELSE r
      BY <3>1, <3>2, <3>3
    <3>5. ASSUME NEW p \in rows', NEW q \in rows', p.id = q.id PROVE p = q
      BY <3>4, <3>5, SMTT(30) DEF TypeOK
    <3>6. \A q \in rows' : q \in Rules /\ q.id < nextId
      BY <3>4 DEF TypeOK
    <3> QED BY <3>1, <3>5, <3>6 DEF TypeOK
  <2> QED BY <2>1, <2>2, <2>3, <2>4
<1> QED BY <1>1, <1>2, <1>3 DEF TypeOK

(* The reload, the clock and a restart.                                     *)
LEMMA ServerType ==
  ASSUME TypeOK, AclRefresh \/ Tick \/ Restart
  PROVE  TypeOK'
<1>1. CASE AclRefresh
  BY <1>1 DEF AclRefresh, guardVars, aclVars, TypeOK
<1>2. CASE Tick
  BY <1>2, GuardAssumption, SMTT(30) DEF Tick, guardVars, aclVars, TypeOK
<1>3. CASE Restart
  BY <1>3, GuardAssumption, SMTT(30) DEF Restart, aclVars, TypeOK
<1> QED BY <1>1, <1>2, <1>3

(* Every step keeps the types.                                              *)
LEMMA NextTypeOK == TypeOK /\ [Next]_vars => TypeOK'
<1> SUFFICES ASSUME TypeOK, [Next]_vars PROVE TypeOK'
  OBVIOUS
<1>1. CASE UNCHANGED vars
  BY <1>1 DEF vars, guardVars, aclVars, TypeOK
<1>2. ASSUME NEW t \in Tasks, Receive(t) \/ CheckBlocked(t) \/ NoVerdict(t) PROVE TypeOK'
  BY <1>2, RequestType
<1>3. ASSUME NEW t \in Tasks, record_failure(t) \/ record_success(t) PROVE TypeOK'
  BY <1>3, VerdictType
<1>4. ASSUME NEW t \in Tasks, persist_acl_ban(t) \/ BanFails(t) PROVE TypeOK'
  BY <1>4, BanType
<1> QED
  BY <1>1, <1>2, <1>3, <1>4, AdminType, ServerType
  DEF Next, handle_register, handle_invite, login, Rejects

-----------------------------------------------------------------------------
(* OneBan needs what a ban looks like: as long as none was updated, every   *)
(* rule marked as a ban denies the address itself, so that NOT EXISTS sees  *)
(* the enabled one.                                                         *)
BansDeny == ~edited => \A r \in rows : r.auto => r.action = "deny" /\ r.cidr = "host"

(* The rules marked as bans only change where a ban is written, updated,    *)
(* deleted or lifted.                                                       *)
LEMMA OneBanStep ==
  ASSUME TypeOK, BansDeny, OneBan, [Next]_vars
  PROVE  BansDeny' /\ OneBan'
<1> USE DEF BansDeny, OneBan, EnabledRules
<1>1. CASE UNCHANGED <<rows, edited>>
  BY <1>1
<1>2. ASSUME NEW t \in Tasks, persist_acl_ban(t) PROVE BansDeny' /\ OneBan'
  <2>1. edited' = edited
    BY <1>2 DEF persist_acl_ban
  <2>2. CASE \E r \in EnabledRules : r.action = "deny" /\ r.cidr = "host"
    BY <1>2, <1>1, <2>1, <2>2 DEF persist_acl_ban, aclVars
  <2>3. CASE ~ \E r \in EnabledRules : r.action = "deny" /\ r.cidr = "host"
    <3>1. rows' = rows \cup {Ban}
      BY <1>2, <2>3 DEF persist_acl_ban, Insert
    <3>2. Ban.action = "deny" /\ Ban.cidr = "host"
      BY DEF Ban
    <3> QED BY <2>1, <2>3, <3>1, <3>2
  <2> QED BY <2>2, <2>3
<1>3. CASE create
  <2>1. PICK a \in {"allow", "deny"}, c \in {"host", "net"}, p \in Priorities, e \in BOOLEAN :
           rows' = rows \cup {[id |-> nextId, action |-> a, cidr |-> c, priority |-> p,
                               auto |-> FALSE, enabled |-> e]}
    BY <1>3, ZenonT(120) DEF create, Insert
  <2>2. edited' = edited
    BY <1>3 DEF create
  <2> QED BY <2>1, <2>2, SMTT(30)
<1>4. CASE update
  <2>1. PICK r \in rows, a \in {"allow", "deny"}, c \in {"host", "net"}, e \in BOOLEAN :
           \E p \in Priorities \cup {r.priority} :
             /\ rows' = (rows \ {r}) \cup
                   {[r EXCEPT !.action = a, !.cidr = c, !.priority = p, !.enabled = e]}
             /\ edited' = (edited \/ r.auto)
    BY <1>4, UpdateRule, ZenonT(120)
  <2>2. r \in Rules
    BY DEF TypeOK
  <2>3. PICK p \in Priorities \cup {r.priority} :
           /\ rows' = (rows \ {r}) \cup
                 {[r EXCEPT !.action = a, !.cidr = c, !.priority = p, !.enabled = e]}
           /\ edited' = (edited \/ r.auto)
    BY <2>1, ZenonT(60)
  <2> DEFINE n == [r EXCEPT !.action = a, !.cidr = c, !.priority = p, !.enabled = e]
  <2>4. n.auto = r.auto /\ r.auto \in BOOLEAN
    BY <2>2 DEF Rules
  <2>5. rows' = (rows \ {r}) \cup {n}
    BY <2>3
  <2> HIDE DEF n
  <2> QED BY <2>3, <2>4, <2>5
<1>5. CASE delete_rule
  BY <1>5, SMTT(30) DEF delete_rule
<1>6. CASE unblock
  <2> DEFINE bans == {r \in EnabledRules : r.auto /\ r.action = "deny" /\ r.cidr = "host"}
             off(r) == [r EXCEPT !.enabled = FALSE]
  <2>1. rows' = (rows \ bans) \cup {off(r) : r \in bans} /\ edited' = edited
    BY <1>6 DEF unblock
  <2>2. \A r \in bans : off(r).enabled = FALSE /\ off(r).auto = r.auto
                        /\ off(r).action = r.action /\ off(r).cidr = r.cidr
    BY DEF TypeOK, Rules
  <2>3. ~edited => \A r \in EnabledRules : r.auto => r \in bans
    OBVIOUS
  <2>4. \A q \in rows' : q \in rows \/ \E r \in bans : q = off(r)
    BY <2>1
  <2>5. bans \subseteq rows
    OBVIOUS
  <2>6. ~edited => \A q \in rows' : q.auto => ~q.enabled
    <3> HIDE DEF bans, off
    <3>1. \A q \in rows' : q \in rows \ bans \/ \E r \in bans : q = off(r)
      BY <2>1
    <3>2. ~edited => \A q \in rows \ bans : q.auto => ~q.enabled
      BY <2>3
    <3> QED BY <2>2, <3>1, <3>2
  <2> HIDE DEF bans, off
  <2>7. BansDeny'
    BY <2>1, <2>2, <2>4, <2>5, SMTT(30)
  <2> QED BY <2>1, <2>6, <2>7
<1>7. ASSUME NEW t \in Tasks,
             \/ Receive(t) \/ CheckBlocked(t) \/ NoVerdict(t)
             \/ record_failure(t) \/ record_success(t) \/ BanFails(t)
      PROVE  UNCHANGED <<rows, edited>>
  <2>1. CASE Receive(t) \/ CheckBlocked(t) \/ NoVerdict(t)
    BY <2>1 DEF Receive, CheckBlocked, NoVerdict, aclVars
  <2>2. CASE record_failure(t) \/ record_success(t)
    BY <2>2 DEF record_failure, record_success, aclVars
  <2>3. CASE BanFails(t)
    BY <2>3 DEF BanFails, aclVars
  <2> QED BY <1>7, <2>1, <2>2, <2>3
<1>8. CASE AclRefresh \/ Tick \/ Restart \/ UNCHANGED vars
  <2>1. UNCHANGED <<rows, edited>>
    BY <1>8 DEF AclRefresh, Tick, Restart, vars, aclVars
  <2> QED BY <1>1, <2>1
<1>9. ASSUME NEW t \in Tasks,
             \/ Receive(t) \/ CheckBlocked(t) \/ NoVerdict(t)
             \/ record_failure(t) \/ record_success(t) \/ BanFails(t)
      PROVE  BansDeny' /\ OneBan'
  <2>1. UNCHANGED <<rows, edited>>
    BY <1>7, <1>9
  <2> QED BY <1>1, <2>1
<1> HIDE DEF BansDeny, OneBan, EnabledRules
<1> QED
  BY <1>2, <1>3, <1>4, <1>5, <1>6, <1>8, <1>9
  DEF Next, handle_register, handle_invite, login, Rejects

-----------------------------------------------------------------------------
(* BlockHasRule is inductive given the types.                               *)
HasRule == \E r \in EnabledRules : r.action = "deny" /\ r.cidr = "host"
NoBanDue(s) == \A x \in Tasks : task[x].pc = "ban" => task[x].surface # s

(* A step keeps BlockHasRule when it keeps the rule and every block that    *)
(* needs one afterwards needed one before.                                  *)
LEMMA BlockFrame ==
  ASSUME BlockHasRule, HasRule => HasRule',
         \A s \in Surfaces \ excused' :
             PersistBans /\ until'[s] > clock' /\ NoBanDue(s)'
               => s \notin excused /\ until[s] > clock /\ NoBanDue(s)
  PROVE  BlockHasRule'
<1> SUFFICES ASSUME NEW s \in Surfaces \ excused', PersistBans, until'[s] > clock', NoBanDue(s)'
             PROVE  HasRule'
  BY DEF BlockHasRule, is_blocked, HasRule, NoBanDue
<1>1. s \in Surfaces \ excused /\ until[s] > clock /\ NoBanDue(s)
  OBVIOUS
<1> QED BY <1>1, SMTT(30) DEF BlockHasRule, is_blocked, HasRule, NoBanDue

(* A request is let in, or ends without a block.                            *)
LEMMA BlockRuleQuiet ==
  ASSUME TypeOK, BlockHasRule, NEW t \in Tasks,
         Receive(t) \/ CheckBlocked(t) \/ NoVerdict(t) \/ record_success(t)
  PROVE  BlockHasRule'
<1>1. UNCHANGED <<clock, until, rows, excused>>
  <2>1. CASE Receive(t) \/ CheckBlocked(t)
    BY <2>1, ZenonT(60) DEF Receive, CheckBlocked, guardVars, aclVars
  <2>2. CASE NoVerdict(t) \/ record_success(t)
    BY <2>2, SMTT(30) DEF NoVerdict, record_success, guardVars, aclVars
  <2> QED BY <2>1, <2>2
<1>2. task[t].pc # "ban"
  <2>1. CASE Receive(t)
    <3>1. task[t] = Idle
      BY <2>1, Zenon DEF Receive
    <3> QED BY <3>1, SMTT(30) DEF Idle
  <2>2. CASE CheckBlocked(t) \/ NoVerdict(t) \/ record_success(t)
    <3>1. task[t].pc \in {"check", "auth"}
      BY <2>2, Zenon DEF CheckBlocked, NoVerdict, record_success
    <3> QED BY <3>1
  <2> QED BY <2>1, <2>2
<1>3. \A x \in Tasks \ {t} : task'[x] = task[x]
  <2>1. CASE Receive(t) \/ CheckBlocked(t)
    BY <2>1, SMTT(30) DEF Receive, CheckBlocked, Becomes, TypeOK
  <2>2. CASE NoVerdict(t) \/ record_success(t)
    BY <2>2, SMTT(30) DEF NoVerdict, record_success, Becomes, TypeOK
  <2> QED BY <2>1, <2>2
<1>4. \A s : NoBanDue(s)' => NoBanDue(s)
  BY <1>2, <1>3 DEF NoBanDue
<1>5. HasRule => HasRule'
  BY <1>1 DEF HasRule, EnabledRules
<1> QED BY <1>1, <1>4, <1>5, BlockFrame

(* A new block leaves its request at the ban.                               *)
LEMMA BlockRuleFailure ==
  ASSUME TypeOK, BlockHasRule, NEW t \in Tasks, record_failure(t)
  PROVE  BlockHasRule'
<1> DEFINE s == task[t].surface
<1>1. task[t].pc = "auth" /\ rows' = rows /\ clock' = clock
  BY SMTT(30) DEF record_failure, aclVars
<1>2. \A x \in Tasks \ {t} : task'[x] = task[x]
  BY SMTT(30) DEF record_failure, Becomes, TypeOK
<1>3. \A x : NoBanDue(x)' => NoBanDue(x)
  BY <1>1, <1>2 DEF NoBanDue
<1>4. HasRule => HasRule'
  BY <1>1 DEF HasRule, EnabledRules
<1>5. CASE UNCHANGED <<until, excused>>
  BY <1>1, <1>3, <1>4, <1>5, BlockFrame
<1>6. CASE until' = [until EXCEPT ![s] = clock + BlockSecs] /\ excused' = excused \ {s}
           /\ task' = [task EXCEPT ![t] = IF PersistBans THEN [task[t] EXCEPT !.pc = "ban"]
                                          ELSE Idle]
  <2>1. task[t] \in Requests
    BY <1>1, SMTT(30) DEF TypeOK, Idle
  <2>2. PersistBans => task'[t].pc = "ban" /\ task'[t].surface = s
    BY <1>6, <2>1, SMTT(30) DEF TypeOK, Requests
  <2>3. \A x \in Surfaces : PersistBans /\ NoBanDue(x)' => x # s
    BY <2>2 DEF NoBanDue
  <2>4. \A x \in Surfaces \ {s} : until'[x] = until[x] /\ (x \in excused' <=> x \in excused)
    BY <1>6, SMTT(30) DEF TypeOK
  <2> HIDE DEF s
  <2> QED BY <1>1, <1>3, <1>4, <2>3, <2>4, BlockFrame
<1> QED BY <1>5, <1>6, ZenonT(60) DEF record_failure, Becomes

(* A request leaves the ban with a rule in the table or an excuse.          *)
LEMMA BlockRuleBan ==
  ASSUME TypeOK, BlockHasRule, NEW t \in Tasks, persist_acl_ban(t) \/ BanFails(t)
  PROVE  BlockHasRule'
<1>1. CASE persist_acl_ban(t)
  <2>1. CASE HasRule
    <3>1. rows' = rows
      BY <1>1, <2>1, SMTT(30) DEF persist_acl_ban, HasRule, aclVars
    <3> QED BY <2>1, <3>1 DEF HasRule, EnabledRules, BlockHasRule
  <2>2. CASE ~HasRule
    <3>1. rows' = rows \cup {Ban}
      BY <1>1, <2>2, SMTT(30) DEF persist_acl_ban, HasRule, Insert
    <3>2. Ban.action = "deny" /\ Ban.cidr = "host" /\ Ban.enabled
      BY DEF Ban
    <3>3. HasRule'
      BY <3>1, <3>2 DEF HasRule, EnabledRules
    <3> QED BY <3>3 DEF HasRule, BlockHasRule
  <2> QED BY <2>1, <2>2
<1>2. CASE BanFails(t)
  <2>1. UNCHANGED <<clock, until, rows>> /\ excused' = excused \cup {task[t].surface}
    BY <1>2, SMTT(30) DEF BanFails, guardVars, aclVars
  <2>2. \A x \in Tasks \ {t} : task'[x] = task[x]
    BY <1>2, SMTT(30) DEF BanFails, Becomes, TypeOK
  <2>3. \A s \in Surfaces \ excused' : NoBanDue(s)' => NoBanDue(s)
    BY <2>1, <2>2 DEF NoBanDue
  <2>4. HasRule => HasRule'
    BY <2>1 DEF HasRule, EnabledRules
  <2> QED BY <2>1, <2>3, <2>4, BlockFrame
<1> QED BY <1>1, <1>2

(* The other steps: rules only go away with an excuse for every surface,    *)
(* blocks only go away with time or a restart.                              *)
LEMMA BlockRuleOther ==
  ASSUME TypeOK, BlockHasRule,
         create \/ update \/ delete_rule \/ unblock \/ AclRefresh \/ Tick \/ Restart
  PROVE  BlockHasRule'
<1>1. CASE create
  <2>1. UNCHANGED <<clock, until, task, excused>> /\ rows \subseteq rows'
    BY <1>1, SMTT(30) DEF create, Insert, guardVars
  <2>2. HasRule => HasRule'
    BY <2>1 DEF HasRule, EnabledRules
  <2> QED BY <2>1, <2>2, BlockFrame DEF NoBanDue
<1>2. CASE update \/ delete_rule \/ unblock
  <2>1. excused' = Surfaces
    BY <1>2, ZenonT(60) DEF update, delete_rule, unblock
  <2> QED BY <2>1 DEF BlockHasRule
<1>3. CASE AclRefresh \/ Tick
  <2>1. UNCHANGED <<until, rows, task, excused>> /\ clock' \in {clock, clock + 1}
    BY <1>3, SMTT(30) DEF AclRefresh, Tick, guardVars, aclVars
  <2>2. \A s \in Surfaces : until'[s] > clock' => until[s] > clock
    BY <2>1, SMTT(30) DEF TypeOK
  <2>3. HasRule => HasRule'
    BY <2>1 DEF HasRule, EnabledRules
  <2> QED BY <2>1, <2>2, <2>3, BlockFrame DEF NoBanDue
<1>4. CASE Restart
  <2>1. \A s \in Surfaces : until'[s] = 0
    BY <1>4 DEF Restart
  <2>2. clock' \in Nat
    BY <1>4 DEF Restart, TypeOK
  <2> QED BY <2>1, <2>2, SMTT(30) DEF BlockHasRule, is_blocked
<1> QED BY <1>1, <1>2, <1>3, <1>4

-----------------------------------------------------------------------------
GuardInv == TypeOK /\ BansDeny /\ OneBan /\ BlockHasRule

(* At any time, for any number of requests handled at once: every block in  *)
(* force has its rule in sip_acl, unless writing it failed or an            *)
(* administrator changed the rules, and no two bans of the address are in   *)
(* force unless an administrator updated one.                               *)
THEOREM GuardSafe == Spec => [](TypeOK /\ BlockHasRule /\ OneBan)
<1>1. Init => GuardInv
  <2> SUFFICES ASSUME Init PROVE GuardInv
    OBVIOUS
  <2>1. TypeOK
    BY InitTypeOK
  <2>2. BansDeny /\ OneBan
    BY DEF Init, BansDeny, OneBan, EnabledRules
  <2>3. BlockHasRule
    BY SMTT(30) DEF Init, BlockHasRule, is_blocked
  <2> QED BY <2>1, <2>2, <2>3 DEF GuardInv
<1>2. GuardInv /\ [Next]_vars => GuardInv'
  <2> SUFFICES ASSUME GuardInv, [Next]_vars PROVE GuardInv'
    OBVIOUS
  <2>1. TypeOK' /\ BansDeny' /\ OneBan'
    BY NextTypeOK, OneBanStep DEF GuardInv
  <2>2. BlockHasRule'
    <3>1. CASE UNCHANGED vars
      BY <3>1, SMTT(30) DEF GuardInv, BlockHasRule, is_blocked, EnabledRules, vars, guardVars, aclVars
    <3>2. CASE Next
      BY <3>2, BlockRuleQuiet, BlockRuleFailure, BlockRuleBan, BlockRuleOther
      DEF Next, handle_register, handle_invite, login, Rejects, GuardInv
    <3> QED BY <3>1, <3>2
  <2> QED BY <2>1, <2>2 DEF GuardInv
<1>3. GuardInv => TypeOK /\ BlockHasRule /\ OneBan
  BY DEF GuardInv
<1> HIDE DEF GuardInv, TypeOK, BlockHasRule, OneBan
<1> QED BY <1>1, <1>2, <1>3, PTL DEF Spec
-----------------------------------------------------------------------------
(* BlockMatchesLog: the deques hold the failures of the log that can still  *)
(* count, in their order.                                                   *)
Entries == [time : Nat, user : Users \cup {NoUser}, ok : BOOLEAN]

LogType ==
    /\ log \in [Surfaces -> Seq(Entries)]
    /\ ipFails \in [Surfaces -> Seq(Nat)]
    /\ userFails \in [Surfaces -> [Users -> Seq(Nat)]]

Ordered(l) ==
    \A i \in 1 .. Len(l) : l[i].time <= clock /\ \A j \in i .. Len(l) : l[i].time <= l[j].time

(* The failures of a log, and those of a user since its last success.       *)
Failures(l) == {i \in 1 .. Len(l) : ~l[i].ok}
FailuresOf(l, u) ==
    {i \in Failures(l) : l[i].user = u /\ \A j \in i .. Len(l) : ~(l[j].ok /\ l[j].user = u)}

(* f names the entry of the log each element of the deque stands for.       *)
Follows(f, q, l, C) ==
    /\ f \in [1 .. Len(q) -> C]
    /\ \A i, j \in 1 .. Len(q) : i < j => f[i] < f[j]
    /\ \A i \in 1 .. Len(q) : q[i] = l[f[i]].time
    /\ \A k \in C : (\E i \in 1 .. Len(q) : f[i] = k) \/ clock - l[k].time > Window
Tracks(q, l, C) == \E f \in [1 .. Len(q) -> C] : Follows(f, q, l, C)

Tracked(s) ==
    /\ Ordered(log[s])
    /\ Tracks(ipFails[s], log[s], Failures(log[s]))
    /\ \A u \in Users : Tracks(userFails[s][u], log[s], FailuresOf(log[s], u))

(* A surface's block is that of the last failure which made a threshold.    *)
LastCrossing(s) ==
    /\ until[s] = 0 \/ \E k \in Crossing(s) : until[s] = log[s][k].time + BlockSecs
    /\ \A k \in Crossing(s) : log[s][k].time + BlockSecs <= until[s]

LogInv == LogType /\ \A s \in Surfaces : Tracked(s) /\ LastCrossing(s)

(* A set of naturals has a least element.                                   *)
LEMMA LeastElement ==
  ASSUME NEW S \in SUBSET Nat, S # {}
  PROVE  \E x \in S : \A y \in S : x <= y
<1> DEFINE R == OpToRel(<, Nat)
<1>1. PICK x \in S : \A y \in S : ~(<<y, x>> \in R)
  <2>1. IsWellFoundedOn(R, Nat)
    BY NatLessThanWellFounded
  <2> HIDE DEF R
  <2> QED BY <2>1, WFMin
<1>2. \A y \in S : <<y, x>> \in Nat \X Nat /\ ~(y < x)
  BY <1>1 DEF OpToRel
<1>3. \A y \in S : ~(y < x)
  BY <1>2
<1> HIDE DEF R
<1>4. \A y \in S : x <= y
  BY <1>3, SMTT(30)
<1> QED BY <1>4

(* Where prune_old cuts: before the first element that is not too old.      *)
LEMMA Pruned ==
  ASSUME NEW q \in Seq(Nat)
  PROVE  \E c \in 1 .. Len(q) + 1 :
           /\ prune_old(q) = SubSeq(q, c, Len(q))
           /\ \A i \in 1 .. c - 1 : ~(clock - q[i] <= Window)
           /\ c <= Len(q) => clock - q[c] <= Window
<1> DEFINE S == {Len(q) + 1} \cup {i \in 1 .. Len(q) : clock - q[i] <= Window}
<1>1. S \subseteq 1 .. Len(q) + 1 /\ Len(q) + 1 \in S
  BY SMTT(30)
<1>2. S \subseteq Nat /\ S # {}
  BY <1>1, SMTT(30)
<1>3. \E x \in S : \A y \in S : x <= y
  <2> HIDE DEF S
  <2> QED BY <1>2, LeastElement
<1>4. Min(S) \in S /\ \A y \in S : Min(S) <= y
  <2> HIDE DEF S
  <2> QED BY <1>3 DEF Min
<1>5. PICK c : c = Min(S)
  OBVIOUS
<1>6. c \in S /\ (\A y \in S : c <= y) /\ prune_old(q) = SubSeq(q, c, Len(q))
  BY <1>4, <1>5 DEF prune_old
<1>7. c \in 1 .. Len(q) + 1
  BY <1>1, <1>6
<1>8. \A i \in 1 .. c - 1 : ~(clock - q[i] <= Window)
  BY <1>6, <1>7, SMTT(30)
<1>9. c <= Len(q) => clock - q[c] <= Window
  BY <1>6, <1>7, SMTT(30)
<1> QED BY <1>6, <1>7, <1>8, <1>9

(* The entries of a log that still count.                                   *)
Fresh(l, C) == {k \in C : clock - l[k].time <= Window}

(* The element recorded last stands for the entry written last.             *)
LEMMA FollowsAppend ==
  ASSUME clock \in Nat, NEW l \in Seq(Entries), NEW C \in SUBSET (1 .. Len(l)),
         NEW q \in Seq(Nat), Tracks(q, l, C), NEW e \in Entries, e.time = clock
  PROVE  Tracks(Append(q, clock), Append(l, e), C \cup {Len(l) + 1})
<1>1. PICK f \in [1 .. Len(q) -> C] : Follows(f, q, l, C)
  BY DEF Tracks
<1>2. PICK m, n : m = Len(q) + 1 /\ n = Len(l) + 1
  OBVIOUS
<1> DEFINE p == Append(q, clock)
           k == Append(l, e)
           D == C \cup {n}
           g == [i \in 1 .. m |-> IF i = m THEN n ELSE f[i]]
<1>3. /\ Len(q) \in Nat /\ m \in Nat /\ Len(p) = m /\ p[m] = clock
      /\ \A i \in 1 .. Len(q) : p[i] = q[i]
  BY <1>2, SMTT(30)
<1>4. /\ Len(l) \in Nat /\ n \in Nat /\ k[n] = e
      /\ \A i \in 1 .. Len(l) : k[i] = l[i]
  BY <1>2, SMTT(30)
<1>5. 1 .. m = 1 .. Len(q) \cup {m} /\ m \notin 1 .. Len(q)
  BY <1>2, <1>3, SMTT(30)
<1>6. g[m] = n /\ \A i \in 1 .. Len(q) : g[i] = f[i] /\ g[i] \in C
  BY <1>5
<1>7. g \in [1 .. m -> D]
  BY <1>5
<1>8. \A i \in C : i < n /\ i \in 1 .. Len(l) /\ i \in Nat
  BY <1>2, SMTT(30)
<1> HIDE DEF p, k, g
<1>9. \A i, j \in 1 .. m : i < j => g[i] < g[j]
  <2>1. \A i \in 1 .. Len(q) : g[i] < g[m]
    BY <1>6, <1>8
  <2>2. \A i, j \in 1 .. Len(q) : i < j => g[i] < g[j]
    BY <1>1, <1>6 DEF Follows
  <2>3. \A i \in 1 .. m : ~(m < i)
    BY <1>3, SMTT(30)
  <2> QED BY <1>5, <2>1, <2>2, <2>3
<1>10. \A i \in 1 .. m : p[i] = k[g[i]].time
  <2>1. \A i \in 1 .. Len(q) : p[i] = k[g[i]].time
    BY <1>1, <1>3, <1>4, <1>6, <1>8, ZenonT(120) DEF Follows
  <2> QED BY <1>3, <1>4, <1>5, <1>6, <2>1
<1>11. \A i \in D : (\E j \in 1 .. m : g[j] = i) \/ clock - k[i].time > Window
  <2>1. \A i \in C : (\E j \in 1 .. Len(q) : g[j] = i) \/ clock - k[i].time > Window
    BY <1>1, <1>4, <1>6, <1>8, ZenonT(120) DEF Follows
  <2> QED BY <1>5, <1>6, <2>1
<1>12. Follows(g, p, k, D)
  BY <1>3, <1>7, <1>9, <1>10, <1>11 DEF Follows
<1> QED BY <1>2, <1>3, <1>7, <1>12 DEF Tracks, p, k

(* Pruning a deque forgets only entries that no longer count, and what is   *)
(* left are all the others.                                                 *)
LEMMA PruneFollows ==
  ASSUME clock \in Nat, NEW l \in Seq(Entries), Ordered(l), NEW C \in SUBSET (1 .. Len(l)),
         NEW q \in Seq(Nat), Tracks(q, l, C)
  PROVE  /\ prune_old(q) \in Seq(Nat)
         /\ Tracks(prune_old(q), l, C)
         /\ Cardinality(Fresh(l, C)) = Len(prune_old(q))
<1>1. PICK f \in [1 .. Len(q) -> C] : Follows(f, q, l, C)
  BY DEF Tracks
<1>2. PICK c \in 1 .. Len(q) + 1 :
        /\ prune_old(q) = SubSeq(q, c, Len(q))
        /\ \A i \in 1 .. c - 1 : ~(clock - q[i] <= Window)
        /\ c <= Len(q) => clock - q[c] <= Window
  BY Pruned
<1>3. PICK p, m : p = SubSeq(q, c, Len(q)) /\ m = Len(q) - c + 1
  OBVIOUS
<1>4. /\ p \in Seq(Nat) /\ Len(p) = m /\ m \in Nat
      /\ \A i \in 1 .. m : p[i] = q[i + c - 1]
  BY <1>3, SMTT(120)
<1>5. \A i \in 1 .. m : i + c - 1 \in 1 .. Len(q)
  BY <1>3, SMTT(30)
<1> DEFINE g == [i \in 1 .. m |-> f[i + c - 1]]
<1>6. g \in [1 .. m -> C] /\ \A i \in 1 .. m : g[i] = f[i + c - 1]
  BY <1>5
<1> HIDE DEF g
<1>7. \A i, j \in 1 .. m : i < j => g[i] < g[j]
  <2>1. \A i, j \in 1 .. m : i < j => i + c - 1 < j + c - 1
    BY SMTT(30)
  <2> QED BY <1>1, <1>5, <1>6, <2>1 DEF Follows
<1>8. \A i \in 1 .. m : p[i] = l[g[i]].time
  BY <1>1, <1>4, <1>5, <1>6, ZenonT(120) DEF Follows
<1>9. \A k \in C : l[k].time \in Nat /\ k \in Nat
  <2>1. \A k \in C : k \in 1 .. Len(l)
    OBVIOUS
  <2>2. \A k \in 1 .. Len(l) : k \in Nat /\ l[k] \in Entries
    BY SMTT(30)
  <2> QED BY <2>1, <2>2 DEF Entries
<1>10. ASSUME NEW k \in C PROVE (\E i \in 1 .. m : g[i] = k) \/ clock - l[k].time > Window
  <2>1. CASE clock - l[k].time > Window
    BY <2>1
  <2>2. CASE \E i \in 1 .. Len(q) : f[i] = k
    <3>1. PICK i \in 1 .. Len(q) : f[i] = k
      BY <2>2
    <3>2. q[i] = l[k].time
      BY <1>1, <3>1 DEF Follows
    <3>3. CASE i < c
      <4>1. i \in 1 .. c - 1
        BY <3>3, SMTT(30)
      <4>2. ~(clock - l[k].time <= Window)
        BY <1>2, <3>2, <4>1
      <4> QED BY <1>9, <4>2, GuardAssumption, SMTT(120)
    <3>4. CASE ~(i < c)
      <4>1. i - c + 1 \in 1 .. m /\ (i - c + 1) + c - 1 = i
        BY <1>3, <3>4, SMTT(30)
      <4>2. g[i - c + 1] = k
        BY <1>6, <3>1, <4>1
      <4> QED BY <4>1, <4>2
    <3> QED BY <3>3, <3>4
  <2> QED BY <1>1, <2>1, <2>2 DEF Follows
<1>11. Follows(g, p, l, C)
  BY <1>4, <1>6, <1>7, <1>8, <1>10 DEF Follows
<1>12. Tracks(p, l, C)
  BY <1>4, <1>6, <1>11 DEF Tracks
<1>13. \A i \in 1 .. m : g[i] \in Fresh(l, C)
  <2> SUFFICES ASSUME NEW i \in 1 .. m PROVE clock - l[g[i]].time <= Window
    BY <1>6 DEF Fresh
  <2>1. 1 \in 1 .. m /\ c <= Len(q) /\ 1 + c - 1 = c /\ (i = 1 \/ 1 < i)
    BY <1>3, SMTT(30)
  <2>2. clock - q[c] <= Window /\ g[1] = f[c] /\ q[c] = l[g[1]].time
    BY <1>1, <1>2, <1>5, <1>6, <2>1, ZenonT(120) DEF Follows
  <2>3. g[1] \in C /\ g[i] \in C /\ (g[1] = g[i] \/ g[1] < g[i])
    BY <1>6, <1>7, <2>1
  <2>4. g[1] \in 1 .. Len(l) /\ g[i] \in g[1] .. Len(l)
    <3>1. PICK a, b : a = g[1] /\ b = g[i]
      OBVIOUS
    <3>2. a \in 1 .. Len(l) /\ b \in 1 .. Len(l) /\ (a = b \/ a < b)
      BY <2>3, <3>1
    <3>3. b \in a .. Len(l)
      BY <3>2, SMTT(30)
    <3> QED BY <3>1, <3>2, <3>3
  <2>5. l[g[1]].time <= l[g[i]].time
    BY <2>4 DEF Ordered
  <2>6. PICK x, y : x = l[g[1]].time /\ y = l[g[i]].time
    OBVIOUS
  <2>7. x \in Nat /\ y \in Nat /\ x <= y /\ clock - x <= Window
    BY <1>9, <2>2, <2>3, <2>5, <2>6
  <2>8. clock - y <= Window
    BY <2>7, GuardAssumption, SMTT(30)
  <2> QED BY <2>6, <2>8
<1>14. \A k \in Fresh(l, C) : \E i \in 1 .. m : g[i] = k
  <2>1. \A k \in Fresh(l, C) : k \in C /\ ~(clock - l[k].time > Window)
    BY <1>9, GuardAssumption, SMTT(30) DEF Fresh
  <2> QED BY <1>10, <2>1
<1>15. g \in [1 .. m -> Fresh(l, C)]
  BY <1>6, <1>13
<1>16. \A i, j \in 1 .. m : g[i] = g[j] => i = j
  <2>1. \A i, j \in 1 .. m : i = j \/ i < j \/ j < i
    BY SMTT(30)
  <2>2. \A i, j \in 1 .. m : i < j => g[i] # g[j]
    <3>1. \A x, y \in Nat : x < y => x # y
      BY SMTT(30)
    <3> QED BY <1>6, <1>7, <1>9, <3>1
  <2> QED BY <2>1, <2>2
<1>17. ExistsBijection(1 .. m, Fresh(l, C))
  BY <1>14, <1>15, <1>16 DEF ExistsBijection, Bijection, Injection, IsInjective, Surjection
<1>18. Cardinality(Fresh(l, C)) = m
  BY <1>4, <1>17, FS_CountingElements
<1> QED BY <1>2, <1>3, <1>4, <1>12, <1>18

(* What record_failure does to a deque, and what it counts.                 *)
LEMMA Recorded ==
  ASSUME clock \in Nat, NEW l \in Seq(Entries), NEW C \in SUBSET (1 .. Len(l)),
         NEW q \in Seq(Nat), Tracks(q, l, C), NEW e \in Entries, e.time = clock,
         Ordered(Append(l, e))
  PROVE  LET p == prune_old(Append(q, clock))
             D == C \cup {Len(l) + 1}
         IN  /\ p \in Seq(Nat)
             /\ Tracks(p, Append(l, e), D)
             /\ Cardinality(Fresh(Append(l, e), D)) = Len(p)
<1> DEFINE k == Append(l, e)
           r == Append(q, clock)
           D == C \cup {Len(l) + 1}
<1>1. k \in Seq(Entries) /\ r \in Seq(Nat) /\ D \in SUBSET (1 .. Len(k))
  <2>1. k \in Seq(Entries) /\ r \in Seq(Nat) /\ 1 .. Len(k) = 1 .. Len(l) \cup {Len(l) + 1}
    BY SMTT(30)
  <2> QED BY <2>1
<1>2. Tracks(r, k, D)
  BY FollowsAppend
<1>3. Ordered(k)
  OBVIOUS
<1> HIDE DEF k, r, D
<1>4. /\ prune_old(r) \in Seq(Nat) /\ Tracks(prune_old(r), k, D)
      /\ Cardinality(Fresh(k, D)) = Len(prune_old(r))
  BY <1>1, <1>2, <1>3, PruneFollows
<1> QED BY <1>4 DEF k, r, D

(* An entry written now comes after the others.                             *)
LEMMA AppendOrdered ==
  ASSUME clock \in Nat, NEW l \in Seq(Entries), Ordered(l), NEW e \in Entries, e.time = clock
  PROVE  Ordered(Append(l, e))
<1> DEFINE k == Append(l, e)
<1>1. PICK n : n = Len(l) + 1
  OBVIOUS
<1>2. /\ Len(k) = n /\ k[n] = e /\ \A i \in 1 .. Len(l) : k[i] = l[i]
      /\ 1 .. n = 1 .. Len(l) \cup {n}
      /\ \A i \in 1 .. Len(l) : i .. n = i .. Len(l) \cup {n}
      /\ n .. n = {n}
      /\ \A i \in 1 .. Len(l) : \A j \in i .. Len(l) : j \in 1 .. Len(l)
  BY <1>1, SMTT(30)
<1>3. clock <= clock
  BY SMTT(30)
<1> HIDE DEF k
<1>4. \A i \in 1 .. Len(l) : k[i].time <= clock /\ \A j \in i .. n : k[i].time <= k[j].time
  BY <1>2 DEF Ordered
<1>5. k[n].time <= clock /\ \A j \in n .. n : k[n].time <= k[j].time
  BY <1>2, <1>3
<1>6. Ordered(k)
  BY <1>2, <1>4, <1>5 DEF Ordered
<1> QED BY <1>6 DEF k

(* How the failures that may count change with an entry.                    *)
LEMMA FailuresAppend ==
  ASSUME NEW l \in Seq(Entries), NEW e \in Entries
  PROVE  /\ e.ok => Failures(Append(l, e)) = Failures(l)
         /\ ~e.ok => Failures(Append(l, e)) = Failures(l) \cup {Len(l) + 1}
         /\ \A u \in Users :
              /\ e.user # u => FailuresOf(Append(l, e), u) = FailuresOf(l, u)
              /\ e.user = u /\ e.ok => FailuresOf(Append(l, e), u) = {}
              /\ e.user = u /\ ~e.ok =>
                     FailuresOf(Append(l, e), u) = FailuresOf(l, u) \cup {Len(l) + 1}
<1>0. PICK n, k : n = Len(l) + 1 /\ k = Append(l, e)
  OBVIOUS
<1>1. /\ Len(k) = n /\ k[n] = e /\ \A i \in 1 .. Len(l) : k[i] = l[i]
      /\ 1 .. Len(k) = 1 .. Len(l) \cup {n}
      /\ \A i \in 1 .. Len(l) : i .. n = i .. Len(l) \cup {n}
      /\ n .. n = {n}
      /\ \A i \in 1 .. Len(l) : \A j \in i .. Len(l) : j \in 1 .. Len(l)
  BY <1>0, SMTT(30)
<1>2. ASSUME NEW i
      PROVE  i \in Failures(k) <=> i \in Failures(l) \/ (i = n /\ ~e.ok)
  <2>1. \A j \in 1 .. Len(l) : j \in Failures(k) <=> j \in Failures(l)
    BY <1>1 DEF Failures
  <2>2. n \in Failures(k) <=> ~e.ok
    BY <1>1 DEF Failures
  <2>3. i \in Failures(k) => i \in 1 .. Len(l) \/ i = n
    BY <1>1 DEF Failures
  <2>4. i \in Failures(l) => i \in 1 .. Len(l)
    BY DEF Failures
  <2> QED BY <2>1, <2>2, <2>3, <2>4
<1>3. ASSUME NEW u \in Users, NEW i
      PROVE  i \in FailuresOf(k, u) <=>
                \/ i \in FailuresOf(l, u) /\ ~(e.ok /\ e.user = u)
                \/ i = n /\ ~e.ok /\ e.user = u
  <2>1. i \in 1 .. Len(l) =>
          (i \in FailuresOf(k, u) <=> i \in FailuresOf(l, u) /\ ~(e.ok /\ e.user = u))
    BY <1>1 DEF FailuresOf, Failures
  <2>2. n \in FailuresOf(k, u) <=> ~e.ok /\ e.user = u
    BY <1>1 DEF FailuresOf, Failures
  <2>3. i \in FailuresOf(k, u) => i \in 1 .. Len(l) \/ i = n
    BY <1>1 DEF FailuresOf, Failures
  <2>4. i \in FailuresOf(l, u) => i \in 1 .. Len(l)
    BY DEF FailuresOf, Failures
  <2> QED BY <2>1, <2>2, <2>3, <2>4
<1>4. (e.ok => Failures(k) = Failures(l)) /\ (~e.ok => Failures(k) = Failures(l) \cup {n})
  BY <1>2
<1>5. ASSUME NEW u \in Users
      PROVE  /\ e.user # u => FailuresOf(k, u) = FailuresOf(l, u)
             /\ e.user = u /\ e.ok => FailuresOf(k, u) = {}
             /\ e.user = u /\ ~e.ok => FailuresOf(k, u) = FailuresOf(l, u) \cup {n}
  <2>1. ASSUME e.user # u PROVE FailuresOf(k, u) = FailuresOf(l, u)
    BY <1>3, <2>1
  <2>2. ASSUME e.user = u, e.ok PROVE FailuresOf(k, u) = {}
    BY <1>3, <2>2
  <2>3. ASSUME e.user = u, ~e.ok PROVE FailuresOf(k, u) = FailuresOf(l, u) \cup {n}
    BY <1>3, <2>3
  <2> QED BY <2>1, <2>2, <2>3
<1> QED BY <1>0, <1>4, <1>5

(* A deque that is not touched still follows a longer log.                  *)
LEMMA TracksKept ==
  ASSUME NEW l \in Seq(Entries), NEW C \in SUBSET (1 .. Len(l)), NEW q, Tracks(q, l, C),
         NEW e \in Entries
  PROVE  Tracks(q, Append(l, e), C)
<1>1. \A i \in 1 .. Len(l) : Append(l, e)[i] = l[i]
  BY SMTT(30)
<1>2. PICK f \in [1 .. Len(q) -> C] : Follows(f, q, l, C)
  BY DEF Tracks
<1>3. \A i \in 1 .. Len(q) : f[i] \in 1 .. Len(l)
  OBVIOUS
<1>4. \A k \in C : k \in 1 .. Len(l)
  OBVIOUS
<1>5. Follows(f, q, Append(l, e), C)
  BY <1>1, <1>2, <1>3, <1>4 DEF Follows
<1> QED BY <1>5 DEF Tracks

(* An empty deque follows a log without failures.                           *)
LEMMA TracksNothing == ASSUME NEW l PROVE Tracks(<<>>, l, {})
<1>1. Len(<<>>) = 0 /\ 1 .. 0 = {}
  BY SMTT(30)
<1>2. PICK f : f = [i \in {} |-> 0]
  OBVIOUS
<1>3. f \in [{} -> {}]
  BY <1>2
<1>4. Follows(f, <<>>, l, {})
  BY <1>1, <1>3 DEF Follows
<1> QED BY <1>1, <1>3, <1>4 DEF Tracks

(* Which entries crossed a threshold is settled when they are written.      *)
LEMMA CrossingAppend ==
  ASSUME NEW s \in Surfaces, log[s] \in Seq(Entries), NEW e \in Entries, e.time = clock,
         log'[s] = Append(log[s], e)
  PROVE  /\ Crossing(s)' \subseteq 1 .. Len(log[s]) \cup {Len(log[s]) + 1}
         /\ Crossing(s) \subseteq 1 .. Len(log[s])
         /\ \A k \in 1 .. Len(log[s]) : k \in Crossing(s)' <=> k \in Crossing(s)
         /\ Len(log[s]) + 1 \in Crossing(s)' <=>
              /\ ~e.ok
              /\ \/ Cardinality(Fresh(log'[s], Failures(log'[s]))) >= IpThreshold
                 \/ Cardinality(IF e.user = NoUser THEN {}
                                ELSE Fresh(log'[s], FailuresOf(log'[s], e.user))) >= UserThreshold
<1>0. PICK n : n = Len(log[s]) + 1
  OBVIOUS
<1>1. /\ Len(log'[s]) = n /\ log'[s][n] = e /\ \A i \in 1 .. Len(log[s]) : log'[s][i] = log[s][i]
      /\ 1 .. n = 1 .. Len(log[s]) \cup {n}
      /\ n \notin 1 .. Len(log[s])
      /\ \A k \in 1 .. Len(log[s]) : 1 .. k \subseteq 1 .. Len(log[s])
      /\ \A k \in 1 .. Len(log[s]) : \A i \in 1 .. k : i .. k \subseteq 1 .. Len(log[s])
  BY <1>0, SMTT(30)
<1>2. ASSUME NEW k \in 1 .. Len(log[s])
      PROVE  InWindow(s, k)' = InWindow(s, k) /\ OfUser(s, k)' = OfUser(s, k)
  <2>1. \A i \in 1 .. k : log'[s][i] = log[s][i] /\ \A j \in i .. k : log'[s][j] = log[s][j]
    BY <1>1
  <2>2. log'[s][k] = log[s][k]
    BY <1>1
  <2>3. InWindow(s, k)' = InWindow(s, k) /\ InWindow(s, k) \subseteq 1 .. k
    BY <2>1, <2>2 DEF InWindow
  <2>4. \A i : i \in OfUser(s, k)' <=> i \in OfUser(s, k)
    BY <2>1, <2>2, <2>3, ZenonT(120) DEF OfUser
  <2> QED BY <2>3, <2>4
<1>3. \A k \in 1 .. Len(log[s]) : k \in Crossing(s)' <=> k \in Crossing(s)
  BY <1>1, <1>2 DEF Crossing
<1>4. InWindow(s, n)' = Fresh(log'[s], Failures(log'[s]))
  BY <1>1 DEF InWindow, Fresh, Failures
<1>5. OfUser(s, n)' = IF e.user = NoUser THEN {}
                      ELSE Fresh(log'[s], FailuresOf(log'[s], e.user))
  BY <1>1, <1>4, ZenonT(120) DEF OfUser, Fresh, FailuresOf
<1>6. n \in Crossing(s)' <=> /\ ~e.ok
                             /\ \/ Cardinality(InWindow(s, n)') >= IpThreshold
                                \/ Cardinality(OfUser(s, n)') >= UserThreshold
  BY <1>1 DEF Crossing
<1>7. Crossing(s)' \subseteq 1 .. Len(log[s]) \cup {n} /\ Crossing(s) \subseteq 1 .. Len(log[s])
  BY <1>1 DEF Crossing
<1> QED BY <1>0, <1>3, <1>4, <1>5, <1>6, <1>7

(* A surface no step of which happened.                                     *)
LEMMA OtherSurface ==
  ASSUME NEW x, Tracked(x), LastCrossing(x), clock' = clock, log'[x] = log[x],
         ipFails'[x] = ipFails[x], userFails'[x] = userFails[x], until'[x] = until[x]
  PROVE  Tracked(x)' /\ LastCrossing(x)'
<1>1. Tracked(x)'
  <2>1. Ordered(log[x])'
    BY DEF Tracked, Ordered
  <2>2. ASSUME NEW q, NEW l, NEW C, Tracks(q, l, C) PROVE Tracks(q, l, C)'
    BY <2>2 DEF Tracks, Follows
  <2>3. Tracks(ipFails[x], log[x], Failures(log[x]))'
    BY <2>2 DEF Tracked
  <2>4. \A u \in Users : Tracks(userFails[x][u], log[x], FailuresOf(log[x], u))'
    BY <2>2 DEF Tracked
  <2> QED BY <2>1, <2>3, <2>4 DEF Tracked
<1>2. Crossing(x)' = Crossing(x)
  BY ZenonT(120) DEF Crossing, InWindow, OfUser
<1> QED BY <1>1, <1>2 DEF LastCrossing

(* Time passes.                                                             *)
LEMMA LogTick ==
  ASSUME TypeOK, LogInv, Tick
  PROVE  LogInv'
<1>1. UNCHANGED <<log, ipFails, userFails, until>> /\ clock' = clock + 1
  BY DEF Tick, guardVars
<1>2. LogType'
  BY <1>1 DEF LogInv, LogType
<1>3. ASSUME NEW s \in Surfaces PROVE Tracked(s)' /\ LastCrossing(s)'
  <2>1. Crossing(s)' = Crossing(s)
    BY <1>1 DEF Crossing, InWindow, OfUser
  <2>2. LastCrossing(s)'
    BY <1>1, <2>1 DEF LastCrossing, LogInv
  <2>3. log[s] \in Seq(Entries) /\ Tracked(s)
    BY DEF LogInv, LogType
  <2>4. \A i \in 1 .. Len(log[s]) : log[s][i].time \in Nat
    <3>1. \A i \in 1 .. Len(log[s]) : log[s][i] \in Entries
      BY <2>3, SMTT(30)
    <3> QED BY <3>1 DEF Entries
  <2>5. \A y \in Nat : /\ y <= clock => y <= clock'
                       /\ clock - y > Window => clock' - y > Window
    BY <1>1, GuardAssumption, SMTT(30) DEF TypeOK
  <2>6. Ordered(log[s])'
    BY <1>1, <2>3, <2>4, <2>5 DEF Tracked, Ordered
  <2>7. ASSUME NEW q, NEW C \in SUBSET (1 .. Len(log[s])), Tracks(q, log[s], C)
        PROVE  Tracks(q, log[s], C)'
    <3>1. PICK f \in [1 .. Len(q) -> C] : Follows(f, q, log[s], C)
      BY <2>7 DEF Tracks
    <3>2. \A k \in C : clock - log[s][k].time > Window => clock' - log[s][k].time > Window
      BY <2>4, <2>5
    <3>3. Follows(f, q, log[s], C)'
      BY <1>1, <3>1, <3>2 DEF Follows
    <3> QED BY <3>3 DEF Tracks
  <2>8. Failures(log[s]) \in SUBSET (1 .. Len(log[s]))
    BY DEF Failures
  <2>9. \A u : FailuresOf(log[s], u) \in SUBSET (1 .. Len(log[s]))
    BY DEF FailuresOf, Failures
  <2>10. Tracks(ipFails[s], log[s], Failures(log[s]))'
    BY <1>1, <2>3, <2>7, <2>8 DEF Tracked
  <2>11. \A u \in Users : Tracks(userFails[s][u], log[s], FailuresOf(log[s], u))'
    BY <1>1, <2>3, <2>7, <2>9 DEF Tracked
  <2> QED BY <2>2, <2>6, <2>10, <2>11 DEF Tracked
<1> QED BY <1>2, <1>3 DEF LogInv

(* A start with empty deques and no blocks.                                 *)
Forgotten ==
    /\ ipFails = [s \in Surfaces |-> <<>>]
    /\ userFails = [s \in Surfaces |-> [u \in Users |-> <<>>]]
    /\ until = [s \in Surfaces |-> 0]
    /\ log = [s \in Surfaces |-> <<>>]

(* Then there is nothing to follow.                                         *)
LEMMA LogEmpty == Forgotten => LogInv
<1> SUFFICES ASSUME Forgotten PROVE LogInv
  OBVIOUS
<1> USE DEF Forgotten
<1>1. Len(<<>>) = 0 /\ 1 .. 0 = {} /\ <<>> \in Seq(Entries) /\ <<>> \in Seq(Nat)
  BY SMTT(30)
<1>2. LogType
  BY <1>1 DEF LogType
<1>3. ASSUME NEW s \in Surfaces PROVE Tracked(s) /\ LastCrossing(s)
  <2>1. log[s] = <<>> /\ ipFails[s] = <<>> /\ until[s] = 0
        /\ \A u \in Users : userFails[s][u] = <<>>
    OBVIOUS
  <2>2. Failures(<<>>) = {} /\ Crossing(s) = {} /\ Ordered(<<>>)
    BY <1>1, <2>1 DEF Failures, Crossing, Ordered
  <2>3. \A u : FailuresOf(<<>>, u) = {}
    BY <2>2 DEF FailuresOf
  <2>4. Tracks(<<>>, <<>>, {})
    BY TracksNothing
  <2>5. Tracked(s)
    BY <2>1, <2>2, <2>3, <2>4 DEF Tracked
  <2> QED BY <2>1, <2>2, <2>5 DEF LastCrossing
<1> QED BY <1>2, <1>3 DEF LogInv

(* The same after a restart.                                                *)
LEMMA LogForgotten == Forgotten' => LogInv'
  BY LogEmpty, PTL

(* A success: the deque of its user is emptied.                             *)
LEMMA LogSuccess ==
  ASSUME TypeOK, LogInv, NEW t \in Tasks, record_success(t)
  PROVE  LogInv'
<1>1. PICK s, u : s = task[t].surface /\ u = task[t].user
  OBVIOUS
<1>2. s \in Surfaces /\ u \in Users \cup {NoUser}
  <2>1. task[t] \in Requests
    BY SMTT(30) DEF TypeOK, record_success, Idle
  <2> QED BY <1>1, <2>1 DEF Requests
<1>3. PICK e : e = [time |-> clock, user |-> u, ok |-> TRUE]
  OBVIOUS
<1>4. e \in Entries /\ e.time = clock /\ e.user = u /\ e.ok = TRUE
  BY <1>2, <1>3 DEF Entries, TypeOK
<1>5. /\ userFails' = [userFails EXCEPT ![s][u] = <<>>]
      /\ log' = [log EXCEPT ![s] = Append(@, e)]
      /\ UNCHANGED <<clock, ipFails, until>>
  BY <1>1, <1>3 DEF record_success
<1>6. log[s] \in Seq(Entries) /\ Tracked(s) /\ LastCrossing(s)
  BY <1>2 DEF LogInv, LogType
<1>7. log'[s] = Append(log[s], e) /\ \A x \in Surfaces \ {s} : log'[x] = log[x]
  BY <1>2, <1>5 DEF LogInv, LogType
<1>8. /\ \A x \in Surfaces \ {s} : userFails'[x] = userFails[x]
      /\ \A v \in Users : userFails'[s][v] = IF v = u THEN <<>> ELSE userFails[s][v]
  BY <1>2, <1>5 DEF LogInv, LogType
<1>9. LogType'
  <2>1. Append(log[s], e) \in Seq(Entries) /\ <<>> \in Seq(Nat)
    BY <1>4, <1>6, SMTT(30)
  <2>2. log' \in [Surfaces -> Seq(Entries)]
    BY <1>5, <2>1 DEF LogInv, LogType
  <2>3. userFails' \in [Surfaces -> [Users -> Seq(Nat)]]
    <3>1. userFails[s] \in [Users -> Seq(Nat)]
      BY <1>2 DEF LogInv, LogType
    <3>2. [userFails[s] EXCEPT ![u] = <<>>] \in [Users -> Seq(Nat)]
      BY <2>1, <3>1
    <3> QED BY <1>5, <3>2 DEF LogInv, LogType
  <2> QED BY <1>5, <2>2, <2>3 DEF LogInv, LogType
<1>10. Tracked(s)'
  <2>2. /\ Failures(log'[s]) = Failures(log[s])
        /\ \A v \in Users \ {u} : FailuresOf(log'[s], v) = FailuresOf(log[s], v)
        /\ u \in Users => FailuresOf(log'[s], u) = {}
    <3>1. /\ e.ok => Failures(Append(log[s], e)) = Failures(log[s])
          /\ \A v \in Users :
               /\ e.user # v => FailuresOf(Append(log[s], e), v) = FailuresOf(log[s], v)
               /\ e.user = v /\ e.ok => FailuresOf(Append(log[s], e), v) = {}
      BY <1>4, <1>6, FailuresAppend
    <3> QED BY <1>4, <1>7, <3>1
  <2>3. Ordered(log'[s])
    BY <1>4, <1>6, <1>7, AppendOrdered DEF Tracked, TypeOK
  <2>4. Failures(log[s]) \in SUBSET (1 .. Len(log[s]))
    BY DEF Failures
  <2>5. \A v : FailuresOf(log[s], v) \in SUBSET (1 .. Len(log[s]))
    BY DEF FailuresOf, Failures
  <2>6. Tracks(ipFails'[s], log'[s], Failures(log'[s]))
    <3>1. Tracks(ipFails[s], Append(log[s], e), Failures(log[s]))
      BY <1>4, <1>6, <2>4, TracksKept DEF Tracked
    <3> QED BY <1>5, <1>7, <2>2, <3>1
  <2>7. \A v \in Users : Tracks(userFails'[s][v], log'[s], FailuresOf(log'[s], v))
    <3>1. \A v \in Users \ {u} : Tracks(userFails'[s][v], log'[s], FailuresOf(log'[s], v))
      <4>1. \A v \in Users : Tracks(userFails[s][v], Append(log[s], e), FailuresOf(log[s], v))
        BY <1>4, <1>6, <2>5, TracksKept DEF Tracked
      <4> QED BY <1>7, <1>8, <2>2, <4>1
    <3>2. u \in Users => Tracks(userFails'[s][u], log'[s], FailuresOf(log'[s], u))
      BY <1>8, <2>2, TracksNothing
    <3> QED BY <3>1, <3>2
  <2> QED BY <1>5, <2>3, <2>6, <2>7, ZenonT(120) DEF Tracked, Ordered, Tracks, Follows
<1>11. LastCrossing(s)'
  <2>1. PICK n : n = Len(log[s]) + 1
    OBVIOUS
  <2>2. Crossing(s)' = Crossing(s) /\ Crossing(s) \subseteq 1 .. Len(log[s])
    <3>1. /\ Crossing(s)' \subseteq 1 .. Len(log[s]) \cup {n}
          /\ Crossing(s) \subseteq 1 .. Len(log[s])
          /\ \A k \in 1 .. Len(log[s]) : k \in Crossing(s)' <=> k \in Crossing(s)
          /\ n \in Crossing(s)' => ~e.ok
      <4>1. /\ log[s] \in Seq(Entries) /\ e \in Entries /\ e.time = clock
            /\ log'[s] = Append(log[s], e)
        BY <1>4, <1>6, <1>7
      <4>2. /\ Crossing(s)' \subseteq 1 .. Len(log[s]) \cup {Len(log[s]) + 1}
            /\ Crossing(s) \subseteq 1 .. Len(log[s])
            /\ \A k \in 1 .. Len(log[s]) : k \in Crossing(s)' <=> k \in Crossing(s)
            /\ Len(log[s]) + 1 \in Crossing(s)' => ~e.ok
        BY <1>2, <4>1, CrossingAppend
      <4> QED BY <2>1, <4>2
    <3> QED BY <1>4, <3>1
  <2>3. \A k \in 1 .. Len(log[s]) : log'[s][k] = log[s][k]
    BY <1>4, <1>6, <1>7, SMTT(30)
  <2> QED BY <1>5, <1>6, <2>2, <2>3 DEF LastCrossing
<1>12. \A x \in Surfaces \ {s} : Tracked(x)' /\ LastCrossing(x)'
  BY <1>5, <1>7, <1>8, OtherSurface DEF LogInv
<1> QED BY <1>9, <1>10, <1>11, <1>12 DEF LogInv

(* A failure: both deques take it up, and it blocks the surface exactly     *)
(* when it crosses a threshold.                                             *)
LEMMA LogFailure ==
  ASSUME TypeOK, LogInv, NEW t \in Tasks, record_failure(t)
  PROVE  LogInv'
<1>1. PICK s, u : s = task[t].surface /\ u = task[t].user
  OBVIOUS
<1>2. s \in Surfaces /\ u \in Users \cup {NoUser} /\ clock \in Nat
  <2>1. task[t] \in Requests
    BY SMTT(30) DEF TypeOK, record_failure, Idle
  <2> QED BY <1>1, <2>1 DEF Requests, TypeOK
<1>3. PICK e : e = [time |-> clock, user |-> u, ok |-> FALSE]
  OBVIOUS
<1>4. e \in Entries /\ e.time = clock /\ e.user = u /\ e.ok = FALSE
  BY <1>2, <1>3 DEF Entries
<1>5. PICK ip : ip = prune_old(Append(ipFails[s], clock))
  OBVIOUS
<1>6. PICK mine : mine = IF u = NoUser THEN <<>> ELSE prune_old(Append(userFails[s][u], clock))
  OBVIOUS
<1>7. /\ ipFails' = [ipFails EXCEPT ![s] = ip]
      /\ userFails' = IF u = NoUser THEN userFails ELSE [userFails EXCEPT ![s][u] = mine]
      /\ until' = IF Len(ip) >= IpThreshold \/ Len(mine) >= UserThreshold
                  THEN [until EXCEPT ![s] = clock + BlockSecs] ELSE until
      /\ log' = [log EXCEPT ![s] = Append(@, e)]
      /\ clock' = clock
  BY <1>1, <1>3, <1>5, <1>6 DEF record_failure
<1>8. /\ log[s] \in Seq(Entries) /\ ipFails[s] \in Seq(Nat)
      /\ u \in Users => userFails[s][u] \in Seq(Nat)
      /\ Tracked(s) /\ LastCrossing(s)
  BY <1>2 DEF LogInv, LogType
<1>9. log'[s] = Append(log[s], e) /\ \A x \in Surfaces \ {s} : log'[x] = log[x]
  BY <1>2, <1>7 DEF LogInv, LogType
<1>10. /\ Failures(log[s]) \in SUBSET (1 .. Len(log[s]))
       /\ \A v : FailuresOf(log[s], v) \in SUBSET (1 .. Len(log[s]))
  BY DEF FailuresOf, Failures
<1>11. Ordered(Append(log[s], e))
  BY <1>2, <1>4, <1>8, AppendOrdered DEF Tracked
<1>12. /\ Failures(log'[s]) = Failures(log[s]) \cup {Len(log[s]) + 1}
       /\ \A v \in Users \ {u} : FailuresOf(log'[s], v) = FailuresOf(log[s], v)
       /\ u \in Users => FailuresOf(log'[s], u) = FailuresOf(log[s], u) \cup {Len(log[s]) + 1}
  <2>1. /\ ~e.ok => Failures(Append(log[s], e)) = Failures(log[s]) \cup {Len(log[s]) + 1}
        /\ \A v \in Users :
             /\ e.user # v => FailuresOf(Append(log[s], e), v) = FailuresOf(log[s], v)
             /\ e.user = v /\ ~e.ok =>
                  FailuresOf(Append(log[s], e), v) = FailuresOf(log[s], v) \cup {Len(log[s]) + 1}
    BY <1>4, <1>8, FailuresAppend
  <2> QED BY <1>4, <1>9, <2>1
<1>13. /\ ip \in Seq(Nat) /\ Tracks(ip, log'[s], Failures(log'[s]))
       /\ Cardinality(Fresh(log'[s], Failures(log'[s]))) = Len(ip)
  <2>1. LET p == prune_old(Append(ipFails[s], clock))
            D == Failures(log[s]) \cup {Len(log[s]) + 1}
        IN  /\ p \in Seq(Nat)
            /\ Tracks(p, Append(log[s], e), D)
            /\ Cardinality(Fresh(Append(log[s], e), D)) = Len(p)
    <3>1. ipFails[s] \in Seq(Nat) /\ Tracks(ipFails[s], log[s], Failures(log[s]))
      BY <1>8 DEF Tracked
    <3>2. PICK q, C : q = ipFails[s] /\ C = Failures(log[s])
      OBVIOUS
    <3>3. /\ clock \in Nat /\ log[s] \in Seq(Entries) /\ e \in Entries /\ e.time = clock
          /\ C \in SUBSET (1 .. Len(log[s])) /\ q \in Seq(Nat) /\ Tracks(q, log[s], C)
          /\ Ordered(Append(log[s], e))
      BY <1>2, <1>4, <1>8, <1>10, <1>11, <3>1, <3>2
    <3>4. LET p == prune_old(Append(q, clock))
              D == C \cup {Len(log[s]) + 1}
          IN  /\ p \in Seq(Nat)
              /\ Tracks(p, Append(log[s], e), D)
              /\ Cardinality(Fresh(Append(log[s], e), D)) = Len(p)
      BY <3>3, Recorded, ZenonT(120)
    <3> QED BY <3>2, <3>4
  <2> QED BY <1>5, <1>9, <1>12, <2>1
<1>14. u \in Users => /\ mine \in Seq(Nat)
                      /\ Tracks(mine, log'[s], FailuresOf(log'[s], u))
                      /\ Cardinality(Fresh(log'[s], FailuresOf(log'[s], u))) = Len(mine)
  <2> SUFFICES ASSUME u \in Users
               PROVE  /\ mine \in Seq(Nat)
                      /\ Tracks(mine, log'[s], FailuresOf(log'[s], u))
                      /\ Cardinality(Fresh(log'[s], FailuresOf(log'[s], u))) = Len(mine)
    OBVIOUS
  <2>1. LET p == prune_old(Append(userFails[s][u], clock))
            D == FailuresOf(log[s], u) \cup {Len(log[s]) + 1}
        IN  /\ p \in Seq(Nat)
            /\ Tracks(p, Append(log[s], e), D)
            /\ Cardinality(Fresh(Append(log[s], e), D)) = Len(p)
    <3>1. userFails[s][u] \in Seq(Nat) /\ Tracks(userFails[s][u], log[s], FailuresOf(log[s], u))
      BY <1>8 DEF Tracked
    <3>2. PICK q, C : q = userFails[s][u] /\ C = FailuresOf(log[s], u)
      OBVIOUS
    <3>3. /\ clock \in Nat /\ log[s] \in Seq(Entries) /\ e \in Entries /\ e.time = clock
          /\ C \in SUBSET (1 .. Len(log[s])) /\ q \in Seq(Nat) /\ Tracks(q, log[s], C)
          /\ Ordered(Append(log[s], e))
      BY <1>2, <1>4, <1>8, <1>10, <1>11, <3>1, <3>2
    <3>4. LET p == prune_old(Append(q, clock))
              D == C \cup {Len(log[s]) + 1}
          IN  /\ p \in Seq(Nat)
              /\ Tracks(p, Append(log[s], e), D)
              /\ Cardinality(Fresh(Append(log[s], e), D)) = Len(p)
      BY <3>3, Recorded, ZenonT(120)
    <3> QED BY <3>2, <3>4
  <2>2. mine = prune_old(Append(userFails[s][u], clock))
    BY <1>6, GuardAssumption
  <2> QED BY <1>9, <1>12, <2>1, <2>2
<1>15. /\ \A x \in Surfaces \ {s} : /\ ipFails'[x] = ipFails[x]
                                    /\ userFails'[x] = userFails[x]
                                    /\ until'[x] = until[x]
       /\ ipFails'[s] = ip
       /\ \A v \in Users : userFails'[s][v] = IF v = u THEN mine ELSE userFails[s][v]
  <2>1. \A x \in Surfaces \ {s} : ipFails'[x] = ipFails[x] /\ userFails'[x] = userFails[x]
    BY <1>2, <1>7 DEF LogInv, LogType
  <2>2. \A x \in Surfaces \ {s} : until'[x] = until[x]
    BY <1>2, <1>7 DEF TypeOK
  <2>3. \A v \in Users : userFails'[s][v] = IF v = u THEN mine ELSE userFails[s][v]
    <3>1. CASE u = NoUser
      BY <1>7, <3>1, GuardAssumption
    <3>2. CASE u \in Users
      <4>1. userFails' = [userFails EXCEPT ![s][u] = mine]
        BY <1>7, <3>2, GuardAssumption
      <4> QED BY <1>2, <4>1 DEF LogInv, LogType
    <3> QED BY <1>2, <3>1, <3>2
  <2> QED BY <1>2, <1>7, <2>1, <2>2, <2>3 DEF LogInv, LogType
<1>16. LogType'
  <2>1. Append(log[s], e) \in Seq(Entries)
    BY <1>4, <1>8, SMTT(30)
  <2>2. log' \in [Surfaces -> Seq(Entries)] /\ ipFails' \in [Surfaces -> Seq(Nat)]
    BY <1>7, <1>13, <2>1 DEF LogInv, LogType
  <2>3. userFails' \in [Surfaces -> [Users -> Seq(Nat)]]
    <3>1. CASE u = NoUser
      BY <1>7, <3>1 DEF LogInv, LogType
    <3>2. CASE u \in Users
      <4>1. userFails' = [userFails EXCEPT ![s][u] = mine]
        BY <1>7, <3>2, GuardAssumption
      <4>2. userFails[s] \in [Users -> Seq(Nat)]
        BY <1>2 DEF LogInv, LogType
      <4>3. [userFails[s] EXCEPT ![u] = mine] \in [Users -> Seq(Nat)]
        BY <1>14, <3>2, <4>2
      <4> QED BY <4>1, <4>3 DEF LogInv, LogType
    <3> QED BY <1>2, <3>1, <3>2
  <2> QED BY <2>2, <2>3 DEF LogType
<1>17. Tracked(s)'
  <2>1. Tracks(ipFails'[s], log'[s], Failures(log'[s])) /\ Ordered(log'[s])
    BY <1>9, <1>11, <1>13, <1>15
  <2>2. \A v \in Users \ {u} : Tracks(userFails'[s][v], log'[s], FailuresOf(log'[s], v))
    <3>1. \A v \in Users : Tracks(userFails[s][v], Append(log[s], e), FailuresOf(log[s], v))
      BY <1>4, <1>8, <1>10, TracksKept DEF Tracked
    <3> QED BY <1>9, <1>12, <1>15, <3>1
  <2>3. u \in Users => Tracks(userFails'[s][u], log'[s], FailuresOf(log'[s], u))
    BY <1>14, <1>15
  <2>4. PICK k, w : k = log'[s] /\ w = userFails'[s]
    OBVIOUS
  <2>5. ASSUME NEW q, NEW l, NEW C, Tracks(q, l, C) PROVE Tracks(q, l, C)'
    BY <1>7, <2>5 DEF Tracks, Follows
  <2>6. /\ Tracks(ip, k, Failures(k))' /\ Ordered(k)'
        /\ \A v \in Users : Tracks(w[v], k, FailuresOf(k, v))'
    <3>1. Tracks(ip, k, Failures(k)) /\ \A v \in Users : Tracks(w[v], k, FailuresOf(k, v))
      BY <1>15, <2>1, <2>2, <2>3, <2>4
    <3>2. Ordered(k)'
      BY <1>7, <2>1, <2>4 DEF Ordered
    <3> QED BY <2>5, <3>1, <3>2
  <2> QED BY <1>15, <2>4, <2>6 DEF Tracked
<1>18. /\ Crossing(s)' \subseteq 1 .. Len(log[s]) \cup {Len(log[s]) + 1}
       /\ Crossing(s) \subseteq 1 .. Len(log[s])
       /\ \A k \in 1 .. Len(log[s]) : k \in Crossing(s)' <=> k \in Crossing(s)
       /\ Len(log[s]) + 1 \in Crossing(s)' <=>
            Len(ip) >= IpThreshold \/ Len(mine) >= UserThreshold
  <2>1. /\ Crossing(s)' \subseteq 1 .. Len(log[s]) \cup {Len(log[s]) + 1}
        /\ Crossing(s) \subseteq 1 .. Len(log[s])
        /\ \A k \in 1 .. Len(log[s]) : k \in Crossing(s)' <=> k \in Crossing(s)
        /\ Len(log[s]) + 1 \in Crossing(s)' <=>
             /\ ~e.ok
             /\ \/ Cardinality(Fresh(log'[s], Failures(log'[s]))) >= IpThreshold
                \/ Cardinality(IF e.user = NoUser THEN {}
                               ELSE Fresh(log'[s], FailuresOf(log'[s], e.user))) >= UserThreshold
    BY <1>2, <1>4, <1>8, <1>9, CrossingAppend
  <2>2. Cardinality(IF e.user = NoUser THEN {}
                    ELSE Fresh(log'[s], FailuresOf(log'[s], e.user))) = Len(mine)
    <3>1. CASE u = NoUser
      <4>1. Len(mine) = 0
        BY <1>6, <3>1, SMTT(30)
      <4> QED BY <1>4, <3>1, <4>1, FS_EmptySet
    <3>2. CASE u \in Users
      <4>1. e.user # NoUser /\ e.user = u
        BY <1>4, <3>2, GuardAssumption
      <4> QED BY <1>14, <3>2, <4>1
    <3> QED BY <1>2, <3>1, <3>2
  <2> QED BY <1>4, <1>13, <2>1, <2>2
<1>19. LastCrossing(s)'
  <2>1. PICK n : n = Len(log[s]) + 1
    OBVIOUS
  <2>2. log'[s][n] = e /\ \A k \in 1 .. Len(log[s]) : log'[s][k] = log[s][k]
    BY <1>4, <1>8, <1>9, <2>1, SMTT(30)
  <2>3. CASE Len(ip) >= IpThreshold \/ Len(mine) >= UserThreshold
    <3>1. until'[s] = clock + BlockSecs
      BY <1>2, <1>7, <2>3 DEF TypeOK
    <3>2. n \in Crossing(s)' /\ log'[s][n].time + BlockSecs = clock + BlockSecs
      BY <1>4, <1>18, <2>1, <2>2, <2>3
    <3>3. ASSUME NEW k \in Crossing(s)' PROVE log'[s][k].time + BlockSecs <= clock + BlockSecs
      <4>1. k \in 1 .. Len(log'[s])
        BY <3>3 DEF Crossing
      <4>2. log'[s][k].time <= clock
        BY <1>9, <1>11, <4>1 DEF Ordered
      <4>3. log'[s][k] \in Entries
        BY <1>2, <1>16, <4>1, SMTT(30) DEF LogType
      <4>4. PICK y : y = log'[s][k].time
        OBVIOUS
      <4>5. y \in Nat /\ y <= clock
        BY <4>2, <4>3, <4>4 DEF Entries
      <4>6. y + BlockSecs <= clock + BlockSecs
        BY <1>2, <4>5, GuardAssumption, SMTT(30)
      <4> QED BY <4>4, <4>6
    <3> QED BY <3>1, <3>2, <3>3 DEF LastCrossing
  <2>4. CASE ~(Len(ip) >= IpThreshold \/ Len(mine) >= UserThreshold)
    <3>1. until'[s] = until[s]
      BY <1>7, <2>4
    <3>2. \A k : k \in Crossing(s)' <=> k \in Crossing(s)
      BY <1>18, <2>4
    <3>3. \A k \in Crossing(s) : log'[s][k] = log[s][k]
      BY <1>18, <2>2
    <3> QED BY <1>8, <3>1, <3>2, <3>3 DEF LastCrossing
  <2> QED BY <2>3, <2>4
<1>20. \A x \in Surfaces \ {s} : Tracked(x)' /\ LastCrossing(x)'
  BY <1>7, <1>9, <1>15, OtherSurface DEF LogInv
<1> QED BY <1>16, <1>17, <1>19, <1>20 DEF LogInv

(* A greatest element is the maximum.                                       *)
LEMMA MaxIs ==
  ASSUME NEW S \in SUBSET Int, NEW x \in S, \A y \in S : y <= x
  PROVE  Max(S) = x
<1>1. \A y \in S : x >= y
  BY SMTT(30)
<1>2. Max(S) \in S /\ \A y \in S : Max(S) >= y
  BY <1>1 DEF Max
<1>3. PICK m : m = Max(S)
  OBVIOUS
<1>4. m \in Int /\ x \in Int /\ m >= x /\ m <= x
  BY <1>2, <1>3
<1>5. m = x
  BY <1>4, SMTT(30)
<1> QED BY <1>3, <1>5

(* LogInv is inductive.                                                     *)
THEOREM LogInvariance == Spec => []LogInv
<1>1. Init => LogInv
  BY LogEmpty DEF Init, Forgotten
<1>2. TypeOK /\ LogInv /\ [Next]_vars => LogInv'
  <2> SUFFICES ASSUME TypeOK, LogInv, [Next]_vars PROVE LogInv'
    OBVIOUS
  <2>1. ASSUME UNCHANGED <<clock, guardVars>> PROVE LogInv'
    <3>1. LogType'
      BY <2>1 DEF LogInv, LogType, guardVars
    <3>2. ASSUME NEW x \in Surfaces PROVE Tracked(x)' /\ LastCrossing(x)'
      <4>1. clock' = clock /\ UNCHANGED <<log, ipFails, userFails, until>>
        BY <2>1 DEF guardVars
      <4> QED BY <4>1, OtherSurface DEF LogInv
    <3> QED BY <3>1, <3>2 DEF LogInv
  <2>2. CASE UNCHANGED vars
    BY <2>1, <2>2 DEF vars
  <2>3. ASSUME NEW t \in Tasks,
               \/ Receive(t) \/ CheckBlocked(t) \/ NoVerdict(t)
               \/ persist_acl_ban(t) \/ BanFails(t)
        PROVE  LogInv'
    <3>1. CASE Receive(t)
      BY <2>1, <3>1, ZenonT(60) DEF Receive
    <3>2. CASE CheckBlocked(t) \/ NoVerdict(t)
      BY <2>1, <3>2 DEF CheckBlocked, NoVerdict
    <3>3. CASE persist_acl_ban(t) \/ BanFails(t)
      BY <2>1, <3>3 DEF persist_acl_ban, BanFails
    <3> QED BY <2>3, <3>1, <3>2, <3>3
  <2>4. CASE create \/ update \/ delete_rule \/ unblock \/ AclRefresh
    <3>1. CASE create
      BY <2>1, <3>1, ZenonT(60) DEF create
    <3>2. CASE update
      BY <2>1, <3>2, ZenonT(60) DEF update
    <3>3. CASE delete_rule \/ unblock \/ AclRefresh
      BY <2>1, <3>3 DEF delete_rule, unblock, AclRefresh
    <3> QED BY <2>4, <3>1, <3>2, <3>3
  <2>5. CASE Restart
    <3>1. Forgotten'
      BY <2>5 DEF Restart, Forgotten
    <3> QED BY <3>1, LogForgotten
  <2> QED
    BY <2>2, <2>3, <2>4, <2>5, LogTick, LogSuccess, LogFailure
    DEF Next, handle_register, handle_invite, login, Rejects
<1> QED BY <1>1, <1>2, GuardSafe, PTL DEF Spec

(* Whatever the thresholds, the window and the number of requests handled   *)
(* at once, the deques of record_failure decide like the whole history      *)
(* would: a surface is blocked exactly when a failure of the window crossed *)
(* a threshold and block_secs have not passed since the last that did.      *)
THEOREM BlocksMatchLog == Spec => []BlockMatchesLog
<1>1. TypeOK /\ LogInv => BlockMatchesLog
  <2> SUFFICES ASSUME TypeOK, LogInv PROVE BlockMatchesLog
    OBVIOUS
  <2>1. ASSUME NEW s \in Surfaces PROVE until[s] = BlockEnd(s)
    <3> DEFINE S == {0} \cup {log[s][k].time + BlockSecs : k \in Crossing(s)}
    <3>1. \A k \in Crossing(s) : log[s][k].time + BlockSecs \in Nat
      <4>1. \A k \in Crossing(s) : k \in 1 .. Len(log[s])
        BY DEF Crossing
      <4>2. \A k \in 1 .. Len(log[s]) : log[s][k] \in Entries
        BY SMTT(30) DEF LogInv, LogType
      <4>3. \A y \in Nat : y + BlockSecs \in Nat
        BY GuardAssumption, SMTT(30)
      <4> QED BY <4>1, <4>2, <4>3 DEF Entries
    <3>2. until[s] \in Nat /\ \A n \in Nat : n \in Int /\ 0 <= n
      BY SMTT(30) DEF TypeOK
    <3>3. S \in SUBSET Int
      BY <3>1, <3>2
    <3>4. until[s] \in S
      BY DEF LogInv, LastCrossing
    <3>5. \A y \in S : y <= until[s]
      BY <3>2 DEF LogInv, LastCrossing
    <3> HIDE DEF S
    <3>6. Max(S) = until[s]
      BY <3>3, <3>4, <3>5, MaxIs
    <3> QED BY <3>6 DEF S, BlockEnd
  <2> QED BY <2>1 DEF BlockMatchesLog, is_blocked
<1> QED BY <1>1, GuardSafe, LogInvariance, PTL
=============================================================================
