---------------------------- MODULE SecurityGuard ----------------------------
(* Admission of the requests of one source address: the failure counters   *)
(* and blocks of the three SecurityGuards (REGISTER, INVITE, API login),   *)
(* the bans they write into sip_acl, the management API on that table and  *)
(* the AclChecker that sip/server.rs reloads from it.                      *)
(*                                                                         *)
(* Other addresses have entries of their own in every map.  SIP requests   *)
(* come by UDP: the tasks of TLS and WebSocket connections take neither    *)
(* permits nor the ACL check.  A task holds one of the server's permits; a *)
(* datagram that finds none is dropped.  The description that marks a rule *)
(* as a ban is written by persist_acl_ban alone.                           *)
EXTENDS Integers, Sequences, FiniteSets, FiniteSetsExt

CONSTANTS
    SipSurfaces,     \* register, invite: behind the AclChecker
    ApiSurfaces,     \* login
    Users,           \* user names the address tries
    NoUser,          \* an INVITE without a caller
    Tasks,           \* permits: requests handled at once
    Window, IpThreshold, UserThreshold, BlockSecs,   \* GuardLimits
    PersistBans,     \* security.persist_acl_bans
    BanPriority,     \* security.acl_ban_priority
    Priorities,      \* priorities an administrator gives
    DefaultAllow,    \* acl.default_policy
    MaxTime, MaxRequests, MaxAdmin, MaxFaults        \* bounds

Surfaces == SipSurfaces \cup ApiSurfaces

ASSUME GuardAssumption ==
    /\ {Window, IpThreshold, UserThreshold, BlockSecs, BanPriority} \subseteq Nat
    /\ IpThreshold > 0 /\ UserThreshold > 0 /\ BlockSecs > 0
    /\ Priorities \subseteq Int
    /\ NoUser \notin Users

VARIABLES
    clock,
    ipFails,    \* surface: SecurityGuard::ip_failures of the address
    userFails,  \* surface, user: SecurityGuard::user_ip_failures
    until,      \* surface: when its block ends, 0 without one
    rows,       \* sip_acl: the rules that cover the address
    nextId,
    checker,    \* the rules of the AclChecker
    task,
    requests, admin, faults,
    log,        \* history: surface: what its guard was told since the start
    excused,    \* history: surfaces whose latest block need not have a rule
    edited      \* history: an administrator updated a ban

guardVars == <<ipFails, userFails, until, log>>
aclVars == <<rows, nextId>>
vars == <<clock, guardVars, aclVars, checker, task, requests, admin, faults, excused, edited>>

Idle == [pc |-> "idle"]
EnabledRules == {r \in rows : r.enabled}

Init ==
    /\ clock = 1
    /\ ipFails = [s \in Surfaces |-> <<>>]
    /\ userFails = [s \in Surfaces |-> [u \in Users |-> <<>>]]
    /\ until = [s \in Surfaces |-> 0]
    /\ rows = {}
    /\ nextId = 1
    /\ checker = {}
    /\ task = [t \in Tasks |-> Idle]
    /\ requests = 0 /\ admin = 0 /\ faults = 0
    /\ log = [s \in Surfaces |-> <<>>]
    /\ excused = {}
    /\ edited = FALSE

Becomes(t, r) == task' = [task EXCEPT ![t] = r]
Fault == faults < MaxFaults /\ faults' = faults + 1

-----------------------------------------------------------------------------
(* The checker: the first rule by priority and id decides.                  *)
Precedes(r, q) == r.priority < q.priority \/ (r.priority = q.priority /\ r.id <= q.id)

is_allowed(rules) ==
    IF rules = {} THEN DefaultAllow
    ELSE \E r \in rules : r.action = "allow" /\ \A q \in rules : Precedes(r, q)

\* Faulty variant: rules that were disabled or deleted stay.
RefreshAdds ==
    /\ checker # checker \cup EnabledRules
    /\ checker' = checker \cup EnabledRules
    /\ UNCHANGED <<clock, guardVars, aclVars, task, requests, admin, faults, excused, edited>>

(* The periodic reload; when it fails the old rules stay.                   *)
AclRefresh ==
    /\ checker # EnabledRules
    /\ checker' = EnabledRules
    /\ UNCHANGED <<clock, guardVars, aclVars, task, requests, admin, faults, excused, edited>>

-----------------------------------------------------------------------------
(* A datagram that passes the ACL check and gets a permit, or a login.      *)
Receive(t) ==
    \E s \in Surfaces, u \in Users \cup {NoUser} :
        /\ task[t] = Idle
        /\ requests < MaxRequests /\ requests' = requests + 1
        /\ s \in SipSurfaces => is_allowed(checker)
        /\ u = NoUser => s = "invite"
        /\ Becomes(t, [pc |-> "check", surface |-> s, user |-> u])
        /\ UNCHANGED <<clock, guardVars, aclVars, checker, admin, faults, excused, edited>>

is_blocked(s) == until[s] > clock

CheckBlocked(t) ==
    /\ task[t].pc = "check"
    /\ Becomes(t, IF is_blocked(task[t].surface) THEN Idle ELSE [task[t] EXCEPT !.pc = "auth"])
    /\ UNCHANGED <<clock, guardVars, aclVars, checker, requests, admin, faults, excused, edited>>

(* A REGISTER without credentials is challenged, a known caller's INVITE    *)
(* goes on to CallControl, a failing lookup is an error.  None counts.      *)
NoVerdict(t) ==
    /\ task[t].pc = "auth"
    /\ Becomes(t, Idle)
    /\ UNCHANGED <<clock, guardVars, aclVars, checker, requests, admin, faults, excused, edited>>

\* Faulty variant: a failure just as old as the window no longer counts.
prune_too_many(entries) ==
    LET first == Min({Len(entries) + 1} \cup
                     {i \in 1 .. Len(entries) : clock - entries[i] < Window})
    IN  SubSeq(entries, first, Len(entries))

(* The front is popped as long as it is older than the window.              *)
prune_old(entries) ==
    LET first == Min({Len(entries) + 1} \cup
                     {i \in 1 .. Len(entries) : clock - entries[i] <= Window})
    IN  SubSeq(entries, first, Len(entries))

(* A stale nonce, a wrong digest, an unknown account or caller: the failure *)
(* is counted for the address and for the user at the address.              *)
record_failure(t) ==
    LET s == task[t].surface
        u == task[t].user
        ip == prune_old(Append(ipFails[s], clock))
        mine == IF u = NoUser THEN <<>> ELSE prune_old(Append(userFails[s][u], clock))
        blocked == Len(ip) >= IpThreshold \/ Len(mine) >= UserThreshold
    IN  /\ task[t].pc = "auth"
        /\ ipFails' = [ipFails EXCEPT ![s] = ip]
        /\ userFails' = IF u = NoUser THEN userFails ELSE [userFails EXCEPT ![s][u] = mine]
        /\ until' = IF blocked THEN [until EXCEPT ![s] = clock + BlockSecs] ELSE until
        /\ excused' = IF blocked THEN excused \ {s} ELSE excused
        /\ log' = [log EXCEPT ![s] = Append(@, [time |-> clock, user |-> u, ok |-> FALSE])]
        /\ Becomes(t, IF blocked /\ PersistBans THEN [task[t] EXCEPT !.pc = "ban"] ELSE Idle)
        /\ UNCHANGED <<clock, aclVars, checker, requests, admin, faults, edited>>

(* The right credentials: the failures of the user at the address are       *)
(* forgotten, those of the address are not.                                 *)
record_success(t) ==
    LET s == task[t].surface
        u == task[t].user
    IN  /\ task[t].pc = "auth"
        /\ userFails' = [userFails EXCEPT ![s][u] = <<>>]
        /\ log' = [log EXCEPT ![s] = Append(@, [time |-> clock, user |-> u, ok |-> TRUE])]
        /\ Becomes(t, Idle)
        /\ UNCHANGED <<clock, ipFails, until, aclVars, checker, requests, admin, faults>>
        /\ UNCHANGED <<excused, edited>>

Ban == [id |-> nextId, action |-> "deny", cidr |-> "host", priority |-> BanPriority,
        auto |-> TRUE, enabled |-> TRUE]

Insert(r) == rows' = rows \cup {r} /\ nextId' = nextId + 1

\* Faulty variant: a disabled ban counts as a ban.
persist_first_ban(t) ==
    /\ task[t].pc = "ban"
    /\ IF \E r \in rows : r.action = "deny" /\ r.cidr = "host"
       THEN UNCHANGED aclVars ELSE Insert(Ban)
    /\ Becomes(t, Idle)
    /\ UNCHANGED <<clock, guardVars, checker, requests, admin, faults, excused, edited>>

(* INSERT ... WHERE NOT EXISTS an enabled deny rule of the same cidr.       *)
persist_acl_ban(t) ==
    /\ task[t].pc = "ban"
    /\ IF \E r \in EnabledRules : r.action = "deny" /\ r.cidr = "host"
       THEN UNCHANGED aclVars ELSE Insert(Ban)
    /\ Becomes(t, Idle)
    /\ UNCHANGED <<clock, guardVars, checker, requests, admin, faults, excused, edited>>

(* The INSERT fails: a warning.                                             *)
BanFails(t) ==
    /\ task[t].pc = "ban"
    /\ Fault
    /\ excused' = excused \cup {task[t].surface}
    /\ Becomes(t, Idle)
    /\ UNCHANGED <<clock, guardVars, aclVars, checker, requests, admin, edited>>

Rejects(t) == record_failure(t) \/ persist_acl_ban(t) \/ BanFails(t)
On(t, s) == task[t] # Idle /\ task[t].surface = s

(* The handlers: all check the block first and ban after a failure.         *)
handle_register(t) ==
    On(t, "register") /\ (CheckBlocked(t) \/ NoVerdict(t) \/ Rejects(t) \/ record_success(t))

handle_invite(t) ==
    On(t, "invite") /\ (CheckBlocked(t) \/ NoVerdict(t) \/ Rejects(t))

login(t) ==
    On(t, "login") /\ (CheckBlocked(t) \/ NoVerdict(t) \/ Rejects(t) \/ record_success(t))

-----------------------------------------------------------------------------
(* api/acl.rs and api/security.rs                                           *)
Administer == admin < MaxAdmin /\ admin' = admin + 1

create ==
    \E a \in {"allow", "deny"}, c \in {"host", "net"}, p \in Priorities, e \in BOOLEAN :
        /\ Administer
        /\ Insert([id |-> nextId, action |-> a, cidr |-> c, priority |-> p,
                   auto |-> FALSE, enabled |-> e])
        /\ UNCHANGED <<clock, guardVars, checker, task, requests, faults, excused, edited>>

(* Columns that are not given stay.                                         *)
update ==
    \E r \in rows, a \in {"allow", "deny"}, c \in {"host", "net"}, e \in BOOLEAN :
    \E p \in Priorities \cup {r.priority} :
        /\ Administer
        /\ rows' = (rows \ {r}) \cup
              {[r EXCEPT !.action = a, !.cidr = c, !.priority = p, !.enabled = e]}
        /\ excused' = Surfaces
        /\ edited' = (edited \/ r.auto)
        /\ UNCHANGED <<clock, guardVars, nextId, checker, task, requests, faults>>

delete_rule ==
    \E r \in rows :
        /\ Administer
        /\ rows' = rows \ {r}
        /\ excused' = Surfaces
        /\ UNCHANGED <<clock, guardVars, nextId, checker, task, requests, faults, edited>>

(* The enabled bans of the cidr are disabled; the guards are not told.      *)
unblock ==
    LET bans == {r \in EnabledRules : r.auto /\ r.action = "deny" /\ r.cidr = "host"} IN
    /\ Administer
    /\ bans # {}
    /\ rows' = (rows \ bans) \cup {[r EXCEPT !.enabled = FALSE] : r \in bans}
    /\ excused' = Surfaces
    /\ UNCHANGED <<clock, guardVars, nextId, checker, task, requests, faults, edited>>

-----------------------------------------------------------------------------
Tick ==
    /\ clock < MaxTime
    /\ clock' = clock + 1
    /\ UNCHANGED <<guardVars, aclVars, checker, task, requests, admin, faults, excused, edited>>

(* Blocks and counters are gone.  The rules are loaded again; when that     *)
(* fails the server starts with none.                                       *)
Restart ==
    /\ Fault
    /\ ipFails' = [s \in Surfaces |-> <<>>]
    /\ userFails' = [s \in Surfaces |-> [u \in Users |-> <<>>]]
    /\ until' = [s \in Surfaces |-> 0]
    /\ log' = [s \in Surfaces |-> <<>>]
    /\ task' = [t \in Tasks |-> Idle]
    /\ checker' \in {EnabledRules, {}}
    /\ UNCHANGED <<clock, aclVars, requests, admin, excused, edited>>

Next ==
    \/ \E t \in Tasks :
           Receive(t) \/ handle_register(t) \/ handle_invite(t) \/ login(t)
    \/ create \/ update \/ delete_rule \/ unblock
    \/ AclRefresh \/ Tick \/ Restart

Spec == Init /\ [][Next]_vars /\ WF_vars(AclRefresh)

-----------------------------------------------------------------------------
Rules == [id : Nat, action : {"allow", "deny"}, cidr : {"host", "net"}, priority : Int,
          auto : BOOLEAN, enabled : BOOLEAN]
Requests == [pc : {"check", "auth", "ban"}, surface : Surfaces, user : Users \cup {NoUser}]

(* The state keeps its shape: no block outlasts block_secs, and every rule  *)
(* has a known action and an id of its own.                                 *)
TypeOK ==
    /\ clock \in Nat
    /\ until \in [Surfaces -> Nat]
    /\ \A s \in Surfaces : until[s] <= clock + BlockSecs
    /\ rows \subseteq Rules
    /\ \A r, q \in rows : r.id = q.id => r = q
    /\ nextId \in Nat /\ \A r \in rows : r.id < nextId
    /\ task \in [Tasks -> Requests \cup {Idle}]
    /\ excused \subseteq Surfaces
    /\ edited \in BOOLEAN

(* What record_failure should decide, from the whole log: the failures of   *)
(* the window up to entry k, and among them those of its user since the     *)
(* user's last success.                                                     *)
InWindow(s, k) ==
    {i \in 1 .. k : ~log[s][i].ok /\ log[s][k].time - log[s][i].time <= Window}
OfUser(s, k) ==
    {i \in InWindow(s, k) :
        /\ log[s][i].user = log[s][k].user /\ log[s][k].user # NoUser
        /\ \A j \in i .. k : ~(log[s][j].ok /\ log[s][j].user = log[s][i].user)}
Crossing(s) ==
    {k \in 1 .. Len(log[s]) :
        /\ ~log[s][k].ok
        /\ \/ Cardinality(InWindow(s, k)) >= IpThreshold
           \/ Cardinality(OfUser(s, k)) >= UserThreshold}
BlockEnd(s) == Max({0} \cup {log[s][k].time + BlockSecs : k \in Crossing(s)})

(* The blocks are the ones the log calls for: an address is blocked exactly *)
(* when some failure of the log made a threshold within its window and the  *)
(* block has not run out since; late failures of requests that were let in  *)
(* before prolong it.                                                       *)
BlockMatchesLog ==
    \A s \in Surfaces : IF BlockEnd(s) > clock THEN until[s] = BlockEnd(s) ELSE ~is_blocked(s)

(* A block that is in force has an enabled deny rule, which outlives it and *)
(* a restart, once the request that set it is through.  Left out are blocks *)
(* whose rule could not be written or was changed by an administrator.      *)
BlockHasRule ==
    \A s \in Surfaces \ excused :
        /\ PersistBans
        /\ is_blocked(s)
        /\ \A t \in Tasks : task[t].pc = "ban" => task[t].surface # s
        => \E r \in EnabledRules : r.action = "deny" /\ r.cidr = "host"

(* However many requests of however many surfaces cross a threshold at      *)
(* once, and however often bans are lifted, one ban is in force at a time;  *)
(* only an administrator who updates a ban can make a second one.           *)
OneBan ==
    ~edited => \A r, q \in EnabledRules : r.auto /\ q.auto => r = q

(* The checker catches up with the table: bans take effect and lifted bans  *)
(* are forgotten, whatever changed between two reloads and even if the      *)
(* server started without rules.                                            *)
CheckerCatchesUp == <>[](checker = EnabledRules)
=============================================================================
