------------------------------ MODULE RtpPorts ------------------------------
(***************************************************************************)
(* The four allocators of RTP ports: MediaRelay::bind_port_pair            *)
(* (sip/media.rs), WebRtcGateway::bind_sip_port (sip/webrtc_gateway.rs),   *)
(* ConferenceMedia::bind_socket (sip/conference_media.rs) and              *)
(* VoicemailMedia::bind_socket (sip/voicemail_media.rs).                   *)
(*                                                                         *)
(* An allocation is one call of one of them.  Each allocator has an atomic *)
(* u32 counter; binding a socket fails when the port is taken, by an       *)
(* allocation or by a socket of somebody else on the host (foreign).       *)
(***************************************************************************)
EXTENDS Integers

CONSTANTS
    Allocs,      \* calls of an allocator
    PortMin,     \* the configured range of each allocator
    PortMax,
    CounterMod   \* where the counters wrap: 2^32 in the code, a small number here

Kinds == {"relay", "webrtc", "conference", "voicemail"}

ASSUME PortRangeAssumption == PortMin \in [Kinds -> Nat] /\ PortMax \in [Kinds -> Nat]
ASSUME CounterModAssumption == CounterMod \in Nat \ {0}

VARIABLES
    kind,      \* the allocator each allocation calls, fixed from the start
    counter,   \* port_counter of each allocator
    foreign,   \* ports bound by others on the host
    stage,     \* where each allocation is
    tries,     \* candidates tried so far
    offset,    \* the last value it took from the counter, modulo the range
    held,      \* ports of the sockets it has bound
    spare,     \* history: ports nobody else had, or was about to try, since it began
    wrapped    \* history: allocations that saw the counter wrap

portVars == <<kind, counter, foreign, stage, tries, offset, held, spare, wrapped>>

Stages == {"idle", "next", "bind", "second", "held", "failed", "freed"}
Active == {"next", "bind", "second"}

range(k) ==
    IF k = "voicemail" THEN PortMax[k] + 1 - PortMin[k]
    ELSE IF PortMax[k] < PortMin[k] THEN 0 ELSE PortMax[k] - PortMin[k]

Ports(k) == PortMin[k]..PortMax[k]
AllPorts == UNION {Ports(k) : k \in Kinds}

(* Faulty variant: the loop ends one candidate early                       *)
LimitShort(k) == IF k = "relay" THEN range(k) \div 2 ELSE range(k) - 1

(* How often the loop runs                                                 *)
Limit(k) == IF k = "relay" THEN range(k) \div 2 ELSE range(k)

(* The configuration is refused before the loop                            *)
Refused(k) ==
    CASE k = "relay" -> range(k) < 2
      [] k = "voicemail" -> PortMin[k] = 0 \/ PortMin[k] > PortMax[k]
      [] OTHER -> range(k) = 0

(* The port an allocation tries, the lower one of a pair                   *)
Candidate(a) ==
    LET k == kind[a] IN
    CASE k = "relay" -> PortMin[k] + (offset[a] - (offset[a] % 2))
      [] k = "voicemail" -> PortMin[k] + ((offset[a] + (tries[a] - 1)) % range(k))
      [] OTHER -> PortMin[k] + offset[a]

Claim(a) ==
    IF stage[a] \notin {"bind", "second"} THEN {}
    ELSE IF kind[a] = "relay" THEN {Candidate(a), Candidate(a) + 1}
    ELSE {Candidate(a)}

Taken == foreign \cup UNION {held[a] : a \in Allocs}
Busy(a) == foreign \cup UNION {held[b] \cup Claim(b) : b \in Allocs \ {a}}

GotoStage(a, l) == stage' = [stage EXCEPT ![a] = l]

(* Keep the history of every running allocation                            *)
Observe == spare' = [a \in Allocs |-> spare[a] \ Busy(a)']

(* fetch_add and the remainder                                             *)
Fetch(a, step) ==
    LET k == kind[a] IN
    /\ counter' = [counter EXCEPT ![k] = (@ + step) % CounterMod]
    /\ offset' = [offset EXCEPT ![a] = counter[k] % range(k)]
    /\ wrapped' = IF counter[k] + step < CounterMod THEN wrapped
                  ELSE wrapped \cup {b \in Allocs : kind[b] = k /\ stage[b] \in Active}

-----------------------------------------------------------------------------
BeginAllocation(a) ==
    /\ stage[a] = "idle"
    /\ IF Refused(kind[a])
       THEN GotoStage(a, "failed") /\ spare' = spare /\ UNCHANGED <<counter, offset, wrapped>>
       ELSE /\ GotoStage(a, "next")
            /\ spare' = [spare EXCEPT ![a] = AllPorts \ Busy(a)]
            /\ IF kind[a] = "voicemail" THEN Fetch(a, 1)
               ELSE UNCHANGED <<counter, offset, wrapped>>
    /\ UNCHANGED <<foreign, tries, held>>

(* The head of the loop: the next candidate                                *)
TryNext(a) ==
    /\ stage[a] = "next"
    /\ tries[a] < Limit(kind[a])
    /\ GotoStage(a, "bind")
    /\ tries' = [tries EXCEPT ![a] = @ + 1]
    /\ CASE kind[a] = "relay" -> Fetch(a, 2)
         [] kind[a] = "voicemail" -> UNCHANGED <<counter, offset, wrapped>>
         [] OTHER -> Fetch(a, 1)
    /\ UNCHANGED <<foreign, held>>
    /\ Observe

GiveUp(a) ==
    /\ stage[a] = "next"
    /\ tries[a] >= Limit(kind[a])
    /\ GotoStage(a, "failed")
    /\ UNCHANGED <<counter, foreign, tries, offset, held, spare, wrapped>>

(* One socket                                                              *)
BindOne(a) ==
    /\ stage[a] = "bind"
    /\ kind[a] # "relay"
    /\ IF Candidate(a) \in Taken
       THEN GotoStage(a, "next") /\ UNCHANGED held
       ELSE GotoStage(a, "held") /\ held' = [held EXCEPT ![a] = {Candidate(a)}]
    /\ UNCHANGED <<counter, foreign, tries, offset, wrapped>>
    /\ Observe

(* tokio::join! of two binds: the first                                    *)
BindFirst(a) ==
    /\ stage[a] = "bind"
    /\ kind[a] = "relay"
    /\ GotoStage(a, "second")
    /\ held' = [held EXCEPT ![a] = {Candidate(a)} \ Taken]
    /\ UNCHANGED <<counter, foreign, tries, offset, wrapped>>
    /\ Observe

(* The second; a pair of which one is missing is dropped                   *)
BindSecond(a) ==
    /\ stage[a] = "second"
    /\ IF held[a] # {} /\ Candidate(a) + 1 \notin Taken
       THEN /\ GotoStage(a, "held")
            /\ held' = [held EXCEPT ![a] = {Candidate(a), Candidate(a) + 1}]
       ELSE /\ GotoStage(a, "next")
            /\ held' = [held EXCEPT ![a] = {}]
    /\ UNCHANGED <<counter, foreign, tries, offset, wrapped>>
    /\ Observe

(* The call ends and its sockets are closed                                *)
Release(a) ==
    /\ stage[a] = "held"
    /\ GotoStage(a, "freed")
    /\ held' = [held EXCEPT ![a] = {}]
    /\ UNCHANGED <<counter, foreign, tries, offset, spare, wrapped>>

-----------------------------------------------------------------------------
PortsInit ==
    /\ kind \in [Allocs -> Kinds]
    /\ counter = [k \in Kinds |-> 0]
    /\ foreign \in SUBSET AllPorts
    /\ stage = [a \in Allocs |-> "idle"]
    /\ tries = [a \in Allocs |-> 0]
    /\ offset = [a \in Allocs |-> 0]
    /\ held = [a \in Allocs |-> {}]
    /\ spare = [a \in Allocs |-> {}]
    /\ wrapped = {}

Step(a) ==
    \/ BeginAllocation(a) \/ TryNext(a) \/ GiveUp(a) \/ BindOne(a) \/ BindFirst(a) \/ BindSecond(a)
    \/ Release(a)

PortsNext == \E a \in Allocs : UNCHANGED kind /\ Step(a)

PortsSpec == PortsInit /\ [][PortsNext]_portVars

-----------------------------------------------------------------------------
(* Properties                                                              *)

(* Counters, positions and ports are of the expected kind, and the number  *)
(* of candidates tried never exceeds the limit of the loop.                *)
PortsTypeOK ==
    /\ kind \in [Allocs -> Kinds]
    /\ counter \in [Kinds -> 0..CounterMod - 1]
    /\ foreign \subseteq AllPorts
    /\ stage \in [Allocs -> Stages]
    /\ tries \in [Allocs -> Nat]
    /\ \A a \in Allocs : tries[a] <= Limit(kind[a])
    /\ offset \in [Allocs -> Nat]
    /\ held \in [Allocs -> SUBSET Nat]
    /\ spare \in [Allocs -> SUBSET AllPorts]
    /\ wrapped \subseteq Allocs

(* Whatever the range, its parity and its boundaries, every port that is   *)
(* bound lies in the configured range, and an allocation that succeeded    *)
(* has exactly its socket, or two consecutive ones.                        *)
BoundInRange ==
    \A a \in Allocs :
        /\ held[a] \subseteq Ports(kind[a])
        /\ stage[a] = "held" =>
               IF kind[a] = "relay" THEN \E p \in Ports(kind[a]) : held[a] = {p, p + 1}
               ELSE \E p \in Ports(kind[a]) : held[a] = {p}

(* What each loop can reach at all: the single-socket loops leave out the  *)
(* last port of the range, and the pairs are those of an even range.       *)
Reachable(a) ==
    LET k == kind[a] IN
    CASE k = "relay" -> {{PortMin[k] + i, PortMin[k] + i + 1} :
                            i \in {j \in 0..range(k) - 1 : j % 2 = 0 /\ range(k) % 2 = 0}}
      [] OTHER -> {{PortMin[k] + i} : i \in 0..range(k) - 1}

(* Although the candidates come from a counter that concurrent allocations *)
(* share, an allocation gives up only when each port it could have had was *)
(* in use, or being tried by another one, at some moment since it began,   *)
(* unless the counter wrapped on the way; voicemail takes only its start   *)
(* from the counter and does not depend on that.                           *)
NoFalseExhaustion ==
    \A a \in Allocs :
        /\ stage[a] = "failed"
        /\ ~Refused(kind[a])
        /\ a \notin wrapped \/ kind[a] = "voicemail"
        => \A C \in Reachable(a) : ~(C \subseteq spare[a])

(* media.rs:292: "No available RTP port pair in range {}-{}" is reported   *)
(* only if no pair of the range was free throughout.                       *)
RelayErrorIsTrue ==
    \A a \in Allocs : stage[a] = "failed" /\ kind[a] = "relay" /\ ~Refused("relay") =>
        \A i \in {j \in 0..range("relay") - 1 : j % 2 = 0} :
            ~({PortMin["relay"] + i, PortMin["relay"] + i + 1} \subseteq spare[a])
=============================================================================
