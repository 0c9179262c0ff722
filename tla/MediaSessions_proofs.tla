------------------------ MODULE MediaSessions_proofs ------------------------
(***************************************************************************)
(* Ports and sessions of media.  For every configuration of the ranges,    *)
(* whatever their parity and however the allocations interleave, the       *)
(* allocators of RtpPorts bind only ports of their range, hand out         *)
(* complete pairs, and give up only when each port they could have had was *)
(* in use or being tried.  For any calls, set-ups, clean-ups and responses *)
(* of MediaSessions: filed sessions are complete, running receive tasks    *)
(* are accounted for, and parties are told of bridges that are ready.      *)
(***************************************************************************)
EXTENDS RtpPorts, MediaSessions, TLAPS

-----------------------------------------------------------------------------
(* RtpPorts                                                                *)

(* What an allocation that is trying a candidate knows                     *)
CandidateKnown ==
    /\ \A a \in Allocs : stage[a] \in Active => ~Refused(kind[a])
    /\ \A a \in Allocs : stage[a] \in {"bind", "second"} =>
           tries[a] >= 1 /\ (kind[a] # "voicemail" => offset[a] < range(kind[a]))

(* Sockets exist only during the second bind and after success             *)
SocketsByPosition ==
    \A a \in Allocs :
        /\ stage[a] = "second" => kind[a] = "relay" /\ held[a] \subseteq {Candidate(a)}
        /\ stage[a] \notin {"second", "held"} => held[a] = {}

PortTypes ==
    /\ kind \in [Allocs -> Kinds]
    /\ counter \in [Kinds -> Nat]
    /\ stage \in [Allocs -> Stages]
    /\ tries \in [Allocs -> Nat]
    /\ offset \in [Allocs -> Nat]
    /\ held \in [Allocs -> SUBSET Nat]

(* The inductive invariant                                                 *)
PortsInv == PortTypes /\ CandidateKnown /\ SocketsByPosition /\ BoundInRange

(* The size of a range that is not refused is a positive number.           *)
LEMMA RangePositive ==
    ASSUME NEW k \in Kinds
    PROVE  /\ range(k) \in Int
           /\ ~Refused(k) => range(k) \in Nat /\ range(k) > 0
           /\ k # "voicemail" => range(k) \in Nat
           /\ range(k) \in Nat /\ range(k) > 0 =>
                 PortMin[k] + range(k) <= PortMax[k] + (IF k = "voicemail" THEN 1 ELSE 0)
<1> USE PortRangeAssumption
<1>1. PortMin[k] \in Nat /\ PortMax[k] \in Nat
  OBVIOUS
<1>2. CASE k = "voicemail"
  BY <1>1, <1>2 DEF range, Refused
<1>3. CASE k = "relay"
  BY <1>1, <1>3 DEF range, Refused
<1>4. CASE k \in {"webrtc", "conference"}
  BY <1>1, <1>4 DEF range, Refused
<1>5. QED BY <1>2, <1>3, <1>4 DEF Kinds

(* A remainder is smaller than its divisor.                                *)
LEMMA Remainder ==
    ASSUME NEW x \in Nat, NEW y \in Nat, y > 0
    PROVE  x % y \in Nat /\ x % y < y
  OBVIOUS

(* Candidates lie in the range, with the port above them for a pair.       *)
LEMMA CandidateInRange ==
    ASSUME PortTypes, CandidateKnown, NEW a \in Allocs, stage[a] \in {"bind", "second"}
    PROVE  /\ Candidate(a) \in Ports(kind[a])
           /\ kind[a] = "relay" => Candidate(a) + 1 \in Ports(kind[a])
<1> USE PortRangeAssumption
<1> DEFINE k == kind[a]
<1>0. k \in Kinds /\ PortMin[k] \in Nat /\ PortMax[k] \in Nat
  BY DEF PortTypes
<1>1. ~Refused(k) /\ tries[a] >= 1 /\ (k # "voicemail" => offset[a] < range(k))
  BY DEF CandidateKnown, Active
<1>2. range(k) \in Nat /\ range(k) > 0
      /\ PortMin[k] + range(k) <= PortMax[k] + (IF k = "voicemail" THEN 1 ELSE 0)
  BY <1>0, <1>1, RangePositive
<1>3. offset[a] \in Nat /\ tries[a] \in Nat
  BY DEF PortTypes
<1>4. CASE k = "relay"
  <2>1. offset[a] % 2 \in 0..1 /\ offset[a] % 2 <= offset[a]
    BY <1>3
  <2>2. Candidate(a) = PortMin[k] + (offset[a] - (offset[a] % 2))
    BY <1>4 DEF Candidate
  <2>3. QED BY <1>0, <1>1, <1>2, <1>3, <1>4, <2>1, <2>2 DEF Ports
<1>5. CASE k = "voicemail"
  <2> DEFINE x == offset[a] + (tries[a] - 1)
  <2>1. x \in Nat
    BY <1>1, <1>3
  <2>2. Candidate(a) = PortMin[k] + (x % range(k))
    BY <1>5 DEF Candidate
  <2> HIDE DEF x
  <2>3. x % range(k) \in Nat /\ x % range(k) < range(k)
    BY <1>2, <2>1, Remainder
  <2>4. QED BY <1>0, <1>2, <1>5, <2>2, <2>3 DEF Ports
<1>6. CASE k \in {"webrtc", "conference"}
  <2>1. Candidate(a) = PortMin[k] + offset[a]
    BY <1>6 DEF Candidate
  <2>2. QED BY <1>0, <1>1, <1>2, <1>3, <1>6, <2>1 DEF Ports
<1>7. QED BY <1>0, <1>4, <1>5, <1>6 DEF Kinds

(* No allocation has begun.                                                *)
LEMMA PortsInitially == PortsInit => PortsInv
  BY DEF PortsInit, PortsInv, PortTypes, CandidateKnown, SocketsByPosition, BoundInRange, Stages, Active

(* The effect of taking a value from the counter.                          *)
LEMMA FetchTypes ==
    ASSUME PortTypes, NEW a \in Allocs, NEW step \in Nat, Fetch(a, step),
           ~Refused(kind[a])
    PROVE  /\ counter' \in [Kinds -> Nat]
           /\ offset' \in [Allocs -> Nat]
           /\ offset'[a] < range(kind[a])
           /\ \A b \in Allocs \ {a} : offset'[b] = offset[b]
<1> DEFINE k == kind[a]
<1>1. k \in Kinds /\ range(k) \in Nat /\ range(k) > 0 /\ counter[k] \in Nat
  BY RangePositive DEF PortTypes
<1>2. counter[k] % range(k) \in Nat /\ counter[k] % range(k) < range(k)
  BY <1>1, Remainder
<1>3. (counter[k] + step) % CounterMod \in Nat
  BY <1>1, CounterModAssumption, Remainder
<1>4. QED BY <1>1, <1>2, <1>3 DEF Fetch, PortTypes

(* BeginAllocation keeps the invariant: the new position has no socket and no        *)
(* candidate.                                                              *)
LEMMA BeginInv ==
    ASSUME PortsInv, NEW a \in Allocs, BeginAllocation(a), kind' = kind
    PROVE  PortsInv'
<1>1. /\ stage[a] = "idle" /\ tries' = tries /\ held' = held
      /\ stage' = [stage EXCEPT ![a] = IF Refused(kind[a]) THEN "failed" ELSE "next"]
  BY DEF BeginAllocation, GotoStage
<1>2. /\ counter' \in [Kinds -> Nat] /\ offset' \in [Allocs -> Nat]
      /\ \A b \in Allocs \ {a} : offset'[b] = offset[b]
  <2>1. CASE Refused(kind[a]) \/ kind[a] # "voicemail"
    BY <2>1 DEF BeginAllocation, PortsInv, PortTypes
  <2>2. CASE ~Refused(kind[a]) /\ kind[a] = "voicemail"
    BY <2>2, FetchTypes DEF BeginAllocation, PortsInv
  <2>3. QED BY <2>1, <2>2
<1>3. PortTypes'
  BY <1>1, <1>2 DEF PortsInv, PortTypes, Stages
<1>4. CandidateKnown'
  BY <1>1, <1>2 DEF PortsInv, PortTypes, CandidateKnown, Active, Stages
<1>5. SocketsByPosition'
  BY <1>1, <1>2 DEF PortsInv, PortTypes, SocketsByPosition, Candidate, Stages
<1>6. BoundInRange'
  BY <1>1 DEF PortsInv, PortTypes, BoundInRange, Stages
<1>7. QED BY <1>3, <1>4, <1>5, <1>6 DEF PortsInv

(* TryNext keeps the invariant: the candidate it takes is in the range.    *)
LEMMA TryNextInv ==
    ASSUME PortsInv, NEW a \in Allocs, TryNext(a), kind' = kind
    PROVE  PortsInv'
<1>1. /\ stage[a] = "next" /\ held' = held
      /\ stage' = [stage EXCEPT ![a] = "bind"] /\ tries' = [tries EXCEPT ![a] = @ + 1]
  BY DEF TryNext, GotoStage
<1>2. ~Refused(kind[a])
  BY <1>1 DEF PortsInv, CandidateKnown, Active
<1>3. /\ counter' \in [Kinds -> Nat] /\ offset' \in [Allocs -> Nat]
      /\ kind[a] # "voicemail" => offset'[a] < range(kind[a])
      /\ \A b \in Allocs \ {a} : offset'[b] = offset[b]
  <2>1. CASE kind[a] = "voicemail"
    BY <2>1 DEF TryNext, PortsInv, PortTypes
  <2>2. CASE kind[a] = "relay"
    BY <2>2, <1>2, FetchTypes DEF TryNext, PortsInv
  <2>3. CASE kind[a] \in {"webrtc", "conference"}
    <3>1. Fetch(a, 1)
      BY <2>3 DEF TryNext
    <3>2. QED BY <3>1, <1>2, FetchTypes DEF PortsInv
  <2>4. QED BY <2>1, <2>2, <2>3 DEF PortsInv, PortTypes, Kinds
<1>4. PortTypes'
  <2>1. stage' \in [Allocs -> Stages] /\ held' \in [Allocs -> SUBSET Nat]
    BY <1>1 DEF PortsInv, PortTypes, Stages
  <2>2. tries' \in [Allocs -> Nat]
    BY <1>1 DEF PortsInv, PortTypes
  <2>3. QED BY <1>3, <2>1, <2>2 DEF PortsInv, PortTypes
<1>5. CandidateKnown'
  BY <1>1, <1>2, <1>3 DEF PortsInv, PortTypes, CandidateKnown, Active, Stages
<1>6. SocketsByPosition'
  BY <1>1, <1>3 DEF PortsInv, PortTypes, SocketsByPosition, Candidate, Stages
<1>7. BoundInRange'
  BY <1>1 DEF PortsInv, PortTypes, BoundInRange, Stages
<1>8. QED BY <1>4, <1>5, <1>6, <1>7 DEF PortsInv

(* Binding keeps the invariant because the candidate is in the range, and  *)
(* so does closing sockets.                                                *)
LEMMA BindInv ==
    ASSUME PortsInv, NEW a \in Allocs,
           GiveUp(a) \/ BindOne(a) \/ BindFirst(a) \/ BindSecond(a) \/ Release(a),
           kind' = kind
    PROVE  PortsInv'
<1>1. /\ counter' = counter /\ offset' = offset /\ tries' = tries
      /\ \A b \in Allocs : Candidate(b)' = Candidate(b)
  BY DEF GiveUp, BindOne, BindFirst, BindSecond, Release, Candidate
<1>2. /\ stage' \in [Allocs -> Stages] /\ held' \in [Allocs -> SUBSET Nat]
      /\ \A b \in Allocs \ {a} : stage'[b] = stage[b] /\ held'[b] = held[b]
      /\ stage'[a] \in Active => stage[a] \in Active
      /\ stage'[a] # "bind" /\ (stage'[a] = "second" => stage[a] = "bind")
      /\ stage'[a] = "second" => kind[a] = "relay" /\ held'[a] \subseteq {Candidate(a)}
      /\ stage'[a] \notin {"second", "held"} => held'[a] = {}
      /\ held'[a] \subseteq Ports(kind[a])
      /\ stage'[a] = "held" => IF kind[a] = "relay"
                            THEN \E p \in Ports(kind[a]) : held'[a] = {p, p + 1}
                            ELSE \E p \in Ports(kind[a]) : held'[a] = {p}
  <2> USE DEF PortsInv, PortTypes, Stages, Active, GotoStage
  <2>0. /\ stage[a] \in {"bind", "second"} => Candidate(a) \in Ports(kind[a])
        /\ stage[a] \in {"bind", "second"} /\ kind[a] = "relay" =>
               Candidate(a) + 1 \in Ports(kind[a])
        /\ Ports(kind[a]) \subseteq Nat
    BY CandidateInRange, PortRangeAssumption DEF Ports
  <2>1. CASE GiveUp(a)
    BY <2>1 DEF GiveUp, SocketsByPosition
  <2>2. CASE BindOne(a)
    <3>1. CASE Candidate(a) \in Taken
      BY <2>2, <3>1 DEF BindOne, SocketsByPosition
    <3>2. CASE Candidate(a) \notin Taken
      BY <2>0, <2>2, <3>2 DEF BindOne
    <3>3. QED BY <3>1, <3>2
  <2>3. CASE BindFirst(a)
    BY <2>0, <2>3 DEF BindFirst
  <2>4. CASE BindSecond(a)
    <3>1. kind[a] = "relay"
      BY <2>4 DEF BindSecond, SocketsByPosition
    <3>2. CASE held[a] # {} /\ Candidate(a) + 1 \notin Taken
      BY <2>0, <2>4, <3>1, <3>2 DEF BindSecond
    <3>3. CASE ~(held[a] # {} /\ Candidate(a) + 1 \notin Taken)
      BY <2>4, <3>3 DEF BindSecond
    <3>4. QED BY <3>2, <3>3
  <2>5. CASE Release(a)
    BY <2>5 DEF Release
  <2>6. QED BY <2>1, <2>2, <2>3, <2>4, <2>5
<1>3. PortTypes'
  BY <1>1, <1>2 DEF PortsInv, PortTypes
<1>4. CandidateKnown'
  BY <1>1, <1>2 DEF PortsInv, PortTypes, CandidateKnown, Active
<1>5. SocketsByPosition'
  BY <1>1, <1>2 DEF PortsInv, PortTypes, SocketsByPosition
<1>6. BoundInRange'
  BY <1>2 DEF PortsInv, PortTypes, BoundInRange
<1>7. QED BY <1>3, <1>4, <1>5, <1>6 DEF PortsInv

(* It holds throughout.                                                    *)
THEOREM PortsInvariance == PortsSpec => []PortsInv
<1>1. PortsInit => PortsInv
  BY PortsInitially
<1>2. PortsInv /\ [PortsNext]_portVars => PortsInv'
  <2> SUFFICES ASSUME PortsInv, [PortsNext]_portVars PROVE PortsInv'
    OBVIOUS
  <2>1. CASE PortsNext
    <3> PICK a \in Allocs : UNCHANGED kind /\ Step(a)
      BY <2>1 DEF PortsNext
    <3>1. QED BY BeginInv, TryNextInv, BindInv DEF Step
  <2>2. CASE UNCHANGED portVars
    BY <2>2 DEF portVars, PortsInv, PortTypes, CandidateKnown, SocketsByPosition, BoundInRange,
                Candidate
  <2>3. QED BY <2>1, <2>2
<1> HIDE DEF PortsInv
<1>3. QED BY <1>1, <1>2, PTL DEF PortsSpec

(* Every port that an allocator has bound lies in its configured range and *)
(* a successful allocation has its socket or its pair of consecutive ones, *)
(* for any ranges, any number of allocations and any interleaving.         *)
THEOREM PortsInRange == PortsSpec => []BoundInRange
<1>1. PortsInv => BoundInRange
  BY DEF PortsInv
<1>2. QED BY <1>1, PortsInvariance, PTL

-----------------------------------------------------------------------------
(* Exhaustion                                                              *)

(* From here on leaves without arithmetic go to Zenon; the others name SMT. *)
USE ZenonT(30)

(* By how much a loop advances its counter for each candidate              *)
Stride(k) == IF k = "relay" THEN 2 ELSE 1

(* The socket or the pair that the value n of the counter stands for       *)
PortsOf(k, n) ==
    LET o == n % range(k) IN
    IF k = "relay" THEN {PortMin[k] + (o - (o % 2)), PortMin[k] + (o - (o % 2)) + 1}
    ELSE {PortMin[k] + o}

(* The value n has been tried in vain, by this allocation or by another    *)
(* one, or this one is trying it now.                                      *)
Covered(a, n) ==
    \/ ~(PortsOf(kind[a], n) \subseteq spare[a])
    \/ stage[a] \in {"bind", "second"} /\ Claim(a) = PortsOf(kind[a], n)

(* The values the counter went through since the allocation began; those   *)
(* of voicemail are its own.                                               *)
Walked(a) ==
    \E s, c \in Nat :
        /\ IF kind[a] = "voicemail" THEN s = offset[a] /\ c = tries[a]
           ELSE counter[kind[a]] = s + Stride(kind[a]) * c
        /\ tries[a] <= c
        /\ \A i \in 0..c - 1 : Covered(a, s + Stride(kind[a]) * i)

(* The inductive invariant of the loops                                    *)
PortSweepInv ==
    /\ DOMAIN spare = Allocs
    /\ \A a \in Allocs : stage[a] = "idle" => tries[a] = 0
    /\ \A a \in Allocs : stage[a] = "second" /\ held[a] = {} => Candidate(a) \notin spare[a]
    /\ \A a \in Allocs : stage[a] \in Active /\ (a \notin wrapped \/ kind[a] = "voicemail")
           => Walked(a)
    /\ NoFalseExhaustion

(* Quotient and remainder are unique.                                      *)
LEMMA RemainderUnique ==
    ASSUME NEW q \in Nat, NEW r \in Nat, NEW y \in Nat, r < y
    PROVE  (y * q + r) % y = r
<1> DEFINE x == y * q + r
           d == x \div y
           e == x % y
<1>1. y > 0 /\ x \in Nat
  BY SMTT(30)
<1>2. x = y * d + e /\ d \in Int /\ e \in Int /\ 0 <= e /\ e < y
  BY <1>1, SMTT(30)
<1> HIDE DEF d, e
<1>3. y * (q - d) = e - r
  BY <1>1, <1>2, SMTT(30)
<1>4. CASE q - d >= 1
  <2>1. y * (q - d) >= y
    BY <1>1, <1>2, <1>4, SMTT(30)
  <2> QED
    BY <1>2, <1>3, <2>1, SMTT(30)
<1>5. CASE q - d <= 0 - 1
  <2>1. y * (q - d) <= 0 - y
    BY <1>1, <1>2, <1>5, SMTT(30)
  <2> QED
    BY <1>2, <1>3, <2>1, SMTT(30)
<1>6. CASE q = d
  <2>1. y * (q - d) = 0
    BY <1>1, <1>2, <1>6, SMTT(30)
  <2>2. e = r
    BY <1>2, <1>3, <2>1, SMTT(30)
  <2> QED
    BY <2>2 DEF e
<1> QED
  BY <1>2, <1>4, <1>5, <1>6, SMTT(30)

(* As many consecutive values as the range is wide have every remainder.   *)
LEMMA Residues ==
    ASSUME NEW s \in Nat, NEW y \in Nat, NEW i \in Nat, i < y
    PROVE  \E n \in Nat : s <= n /\ n < s + y /\ n % y = i
<1> DEFINE d == s \div y
           e == s % y
<1>1. s = y * d + e /\ d \in Nat /\ e \in Nat /\ e < y
  BY SMTT(30)
<1> HIDE DEF d, e
<1>2. CASE e <= i
  <2>1. (y * d + i) % y = i
    BY <1>1, RemainderUnique
  <2>2. y * d + i \in Nat /\ s <= y * d + i /\ y * d + i < s + y
    BY <1>1, <1>2, SMTT(30)
  <2> QED
    BY <2>1, <2>2
<1>3. CASE i < e
  <2>1. (y * (d + 1) + i) % y = i
    <3>1. d + 1 \in Nat
      BY <1>1, SMTT(30)
    <3> QED
      BY <3>1, RemainderUnique
  <2>2. y * (d + 1) = y * d + y
    BY <1>1, SMTT(30)
  <2>3. y * (d + 1) + i \in Nat /\ s <= y * (d + 1) + i /\ y * (d + 1) + i < s + y
    BY <1>1, <1>3, <2>2, SMTT(30)
  <2> QED
    BY <2>1, <2>3
<1> QED
  BY <1>1, <1>2, <1>3, SMTT(30)

(* Every second value of an even range has every remainder of its parity.  *)
LEMMA EvenResidues ==
    ASSUME NEW s \in Nat, NEW y \in Nat, y % 2 = 0, NEW i \in Nat, i < y, i % 2 = 0
    PROVE  \E c \in Nat : /\ 2 * c < y
                          /\ ((s + 2 * c) % y) - (((s + 2 * c) % y) % 2) = i
<1> DEFINE j == i + (s % 2)
<1>1. j \in Nat /\ j < y
  BY SMTT(30)
<1> HIDE DEF j
<1> PICK n \in Nat : s <= n /\ n < s + y /\ n % y = j
  BY <1>1, Residues, ZenonT(120)
<1>2. n = y * (n \div y) + j /\ n \div y \in Nat
  BY <1>1, SMTT(30)
<1>3. y = 2 * (y \div 2) /\ y \div 2 \in Nat
  BY SMTT(30)
<1> DEFINE h == (y \div 2) * (n \div y)
<1>4. y * (n \div y) = 2 * h /\ h \in Nat
  BY <1>2, <1>3, SMTT(30)
<1> HIDE DEF h
<1>5. n = 2 * h + i + (s % 2)
  BY <1>2, <1>4, SMTT(30) DEF j
<1>6. (n - s) % 2 = 0
  BY <1>4, <1>5, SMTT(30)
<1> DEFINE c == (n - s) \div 2
<1>7. c \in Nat /\ n = s + 2 * c /\ 2 * c < y
  BY <1>6, SMTT(30)
<1>8. j - (j % 2) = i
  BY SMTT(30) DEF j
<1> HIDE DEF c
<1>9. (s + 2 * c) % y = j
  BY <1>7, Zenon
<1>10. ((s + 2 * c) % y) - (((s + 2 * c) % y) % 2) = i
  BY <1>8, <1>9
<1> QED
  BY <1>7, <1>10

(* A loop that went through its limit of values has met all it can reach.  *)
LEMMA AllReached ==
    ASSUME PortTypes, NEW a \in Allocs, ~Refused(kind[a]), NEW s \in Nat, NEW c \in Nat,
           Limit(kind[a]) <= c,
           \A i \in 0..c - 1 : ~(PortsOf(kind[a], s + Stride(kind[a]) * i) \subseteq spare[a])
    PROVE  \A C \in Reachable(a) : ~(C \subseteq spare[a])
<1> DEFINE k == kind[a]
           R == range(k)
<1>0. k \in Kinds /\ R \in Nat /\ R > 0
  BY RangePositive DEF PortTypes
<1> HIDE DEF R
<1>1. CASE k = "relay"
  <2> SUFFICES ASSUME NEW i \in 0..R - 1, i % 2 = 0, R % 2 = 0
               PROVE  ~({PortMin[k] + i, PortMin[k] + i + 1} \subseteq spare[a])
    BY <1>1 DEF Reachable, R
  <2>1. i \in Nat /\ i < R
    BY <1>0, SMTT(30)
  <2> PICK n \in Nat : 2 * n < R /\ ((s + 2 * n) % R) - (((s + 2 * n) % R) % 2) = i
    BY <1>0, <2>1, EvenResidues, ZenonT(120)
  <2>2. Limit(k) = R \div 2 /\ Stride(k) = 2
    BY <1>1 DEF Limit, Stride, R
  <2>3. n \in 0..c - 1
    BY <1>0, <2>2, SMTT(30)
  <2>4. PortsOf(k, s + 2 * n) = {PortMin[k] + i, PortMin[k] + i + 1}
    BY <1>1 DEF PortsOf, R
  <2> QED
    BY <2>2, <2>3, <2>4
<1>2. CASE k # "relay"
  <2> SUFFICES ASSUME NEW i \in 0..R - 1 PROVE ~({PortMin[k] + i} \subseteq spare[a])
    BY <1>2 DEF Reachable, R
  <2>1. i \in Nat /\ i < R
    BY <1>0, SMTT(30)
  <2> PICK n \in Nat : s <= n /\ n < s + R /\ n % R = i
    BY <1>0, <2>1, Residues
  <2>2. Limit(k) = R /\ Stride(k) = 1
    BY <1>2 DEF Limit, Stride, R
  <2>3. n - s \in 0..c - 1 /\ s + 1 * (n - s) = n
    BY <1>0, <2>2, SMTT(30)
  <2>4. PortsOf(k, n) = {PortMin[k] + i}
    BY <1>2 DEF PortsOf, R
  <2> QED
    BY <2>2, <2>3, <2>4
<1> QED
  BY <1>1, <1>2

(* What is tried is the socket or pair of the value taken.                 *)
LEMMA ClaimIs ==
    ASSUME NEW a \in Allocs, NEW n
    PROVE  /\ stage[a] \in {"bind", "second"} /\
              (IF kind[a] = "voicemail" THEN n = offset[a] + (tries[a] - 1)
               ELSE offset[a] = n % range(kind[a])) => Claim(a) = PortsOf(kind[a], n)
           /\ (stage[a] \in {"bind", "second"} /\
              (IF kind[a] = "voicemail" THEN n = offset[a] + (tries[a] - 1)
               ELSE offset[a] = n % range(kind[a])) => Claim(a) = PortsOf(kind[a], n))'
  BY DEF Claim, Candidate, PortsOf

(* The parts of PortSweepInv that a step of b cannot touch in another          *)
(* allocation, and how spare and wrapped develop.                          *)
LEMMA SweepFrame ==
    ASSUME PortsInv, DOMAIN spare = Allocs, NEW b \in Allocs, Step(b), kind' = kind
    PROVE  /\ DOMAIN spare' = Allocs /\ wrapped \subseteq wrapped'
           /\ \A a \in Allocs \ {b} :
                  /\ stage'[a] = stage[a] /\ tries'[a] = tries[a] /\ offset'[a] = offset[a]
                  /\ held'[a] = held[a] /\ Claim(a)' = Claim(a) /\ Candidate(a)' = Candidate(a)
           /\ \A a \in Allocs : a # b \/ stage[b] # "idle" => spare'[a] \subseteq spare[a]
<1>0. DOMAIN stage = Allocs /\ DOMAIN tries = Allocs /\ DOMAIN offset = Allocs /\ DOMAIN held = Allocs
  BY DEF PortsInv, PortTypes
<1>1. CASE BeginAllocation(b)
  <2>1. /\ DOMAIN spare' = Allocs /\ wrapped \subseteq wrapped'
        /\ \A a \in Allocs \ {b} :
               /\ stage'[a] = stage[a] /\ tries'[a] = tries[a] /\ offset'[a] = offset[a]
               /\ held'[a] = held[a] /\ spare'[a] = spare[a]
        /\ stage[b] = "idle"
    BY <1>0, <1>1 DEF BeginAllocation, GotoStage, Fetch
  <2> QED
    BY <2>1 DEF Claim, Candidate
<1>2. CASE TryNext(b)
  <2>1. /\ \A a \in Allocs \ {b} :
               /\ stage'[a] = stage[a] /\ tries'[a] = tries[a] /\ held'[a] = held[a]
        /\ Observe
    BY <1>0, <1>2 DEF TryNext, GotoStage
  <2>2. /\ wrapped \subseteq wrapped'
        /\ \A a \in Allocs \ {b} : offset'[a] = offset[a]
    <3>1. UNCHANGED <<offset, wrapped>> \/ Fetch(b, 1) \/ Fetch(b, 2)
      BY <1>2 DEF TryNext
    <3> QED
      BY <1>0, <3>1 DEF Fetch
  <2>3. \A a \in Allocs : spare'[a] \subseteq spare[a]
    BY <2>1 DEF Observe
  <2>4. DOMAIN spare' = Allocs
    BY <2>1 DEF Observe
  <2> QED
    BY <2>1, <2>2, <2>3, <2>4 DEF Claim, Candidate
<1>3. CASE GiveUp(b) \/ BindOne(b) \/ BindFirst(b) \/ BindSecond(b) \/ Release(b)
  <2>1. /\ \A a \in Allocs \ {b} : stage'[a] = stage[a] /\ held'[a] = held[a]
        /\ UNCHANGED <<tries, offset, wrapped>>
    BY <1>0, <1>3 DEF GiveUp, BindOne, BindFirst, BindSecond, Release, GotoStage
  <2>2. spare' = spare \/ Observe
    BY <1>3 DEF GiveUp, BindOne, BindFirst, BindSecond, Release
  <2>3. DOMAIN spare' = Allocs /\ \A a \in Allocs : spare'[a] \subseteq spare[a]
    BY <2>2 DEF Observe
  <2> QED
    BY <2>1, <2>3 DEF Claim, Candidate
<1> QED
  BY <1>1, <1>2, <1>3 DEF Step

(* What the others have or try is busy, and what is taken is foreign or    *)
(* somebody's.                                                             *)
LEMMA InBusy ==
    ASSUME NEW a \in Allocs
    PROVE  /\ foreign' \subseteq Busy(a)'
           /\ \A b \in Allocs \ {a} : held'[b] \subseteq Busy(a)' /\ Claim(b)' \subseteq Busy(a)'
           /\ \A p \in Taken : p \in foreign \/ \E b \in Allocs : p \in held[b]
  BY SMTT(30) DEF Busy, Taken

(* The counter without a wrap.                                             *)
LEMMA FetchAdvances ==
    ASSUME PortTypes, NEW b \in Allocs, Fetch(b, Stride(kind[b])), NEW a \in Allocs,
           kind[a] = kind[b], stage[a] \in Active, a \notin wrapped',
           NEW s \in Nat, NEW c \in Nat, counter[kind[b]] = s + Stride(kind[b]) * c
    PROVE  /\ counter'[kind[b]] = s + Stride(kind[b]) * (c + 1)
           /\ offset'[b] = (s + Stride(kind[b]) * c) % range(kind[b])
           /\ s + Stride(kind[b]) * c \in Nat
<1> DEFINE k == kind[b]
<1>1. k \in Kinds /\ counter[k] \in Nat /\ Stride(k) \in {1, 2} /\ CounterMod \in Nat
  BY CounterModAssumption DEF PortTypes, Stride
<1>2. counter[k] + Stride(k) < CounterMod
  BY DEF Fetch
<1>3. /\ counter'[k] = (counter[k] + Stride(k)) % CounterMod
      /\ offset'[b] = counter[k] % range(k)
  BY <1>1 DEF Fetch, PortTypes
<1>4. (counter[k] + Stride(k)) % CounterMod = counter[k] + Stride(k)
  BY <1>1, <1>2, SMTT(30)
<1>5. (s + Stride(k) * c) + Stride(k) = s + Stride(k) * (c + 1) /\ s + Stride(k) * c \in Nat
  BY <1>1, SMTT(30)
<1> QED
  BY <1>3, <1>4, <1>5

(* One more value is met.                                                  *)
LEMMA OneMore ==
    ASSUME NEW a \in Allocs, NEW s \in Nat, NEW c \in Nat, kind' = kind,
           IF kind[a] = "voicemail" THEN s = offset'[a] /\ c + 1 = tries'[a]
           ELSE counter'[kind[a]] = s + Stride(kind[a]) * (c + 1),
           tries'[a] <= c + 1,
           \A i \in 0..c - 1 : Covered(a, s + Stride(kind[a]) * i)',
           Covered(a, s + Stride(kind[a]) * c)'
    PROVE  Walked(a)'
<1>1. c + 1 \in Nat
  BY SMTT(30)
<1>2. \A i \in 0..(c + 1) - 1 : i \in 0..c - 1 \/ i = c
  BY SMTT(30)
<1> QED
  BY <1>1, <1>2 DEF Walked, Stride

(* What the other allocations do counts for a: whoever takes a value from  *)
(* the counter is trying it.                                               *)
LEMMA WalkedOther ==
    ASSUME PortsInv, DOMAIN spare = Allocs, NEW b \in Allocs, Step(b), kind' = kind,
           NEW a \in Allocs, a # b, stage[a] \in Active, Walked(a),
           a \notin wrapped' \/ kind[a] = "voicemail"
    PROVE  Walked(a)'
<1>0. /\ stage'[a] = stage[a] /\ tries'[a] = tries[a] /\ offset'[a] = offset[a]
      /\ Claim(a)' = Claim(a) /\ spare'[a] \subseteq spare[a]
  BY SweepFrame
<1>1. ASSUME NEW n, Covered(a, n) PROVE Covered(a, n)'
  BY <1>0, <1>1 DEF Covered, PortsOf
<1>2. PICK s, c \in Nat :
          /\ IF kind[a] = "voicemail" THEN s = offset[a] /\ c = tries[a]
             ELSE counter[kind[a]] = s + Stride(kind[a]) * c
          /\ tries[a] <= c
          /\ \A i \in 0..c - 1 : Covered(a, s + Stride(kind[a]) * i)
  BY DEF Walked
<1>3. CASE kind[a] = "voicemail" \/ counter'[kind[a]] = counter[kind[a]]
  BY <1>0, <1>1, <1>2, <1>3 DEF Walked, Stride
<1>4. CASE kind[a] # "voicemail" /\ kind[b] = kind[a] /\ TryNext(b)
  <2>1. Fetch(b, Stride(kind[b])) /\ Observe /\ GotoStage(b, "bind")
    BY <1>4 DEF TryNext, Stride
  <2> PICK n : n = s + Stride(kind[b]) * c
    OBVIOUS
  <2>2. counter'[kind[b]] = s + Stride(kind[b]) * (c + 1) /\ offset'[b] = n % range(kind[b])
    <3>1. counter[kind[b]] = s + Stride(kind[b]) * c /\ a \notin wrapped' /\ PortTypes
      BY <1>2, <1>4 DEF PortsInv
    <3> QED
      BY <1>4, <2>1, <3>1, FetchAdvances
  <2>3. stage'[b] = "bind"
    BY <2>1 DEF GotoStage, PortsInv, PortTypes
  <2>4. Claim(b)' = PortsOf(kind[b], n)
    BY <1>4, <2>2, <2>3, ClaimIs DEF PortsOf
  <2>5. Claim(b)' \subseteq Busy(a)' /\ spare'[a] = spare[a] \ Busy(a)'
    BY <2>1, InBusy DEF Observe
  <2>6. \E p : p \in PortsOf(kind[b], n)
    BY DEF PortsOf
  <2>7. Covered(a, n)'
    BY <1>4, <2>4, <2>5, <2>6 DEF Covered, PortsOf
  <2>8. tries[a] <= c + 1
    BY <1>2, SMTT(30) DEF PortsInv, PortTypes
  <2> QED
    BY <1>0, <1>1, <1>2, <1>4, <2>2, <2>7, <2>8, OneMore
<1>5. \/ kind[a] = "voicemail" \/ counter'[kind[a]] = counter[kind[a]]
      \/ kind[a] # "voicemail" /\ kind[b] = kind[a] /\ TryNext(b)
  <2>0. kind[a] \in Kinds /\ DOMAIN counter = Kinds
    BY DEF PortsInv, PortTypes
  <2>1. CASE BeginAllocation(b)
    BY <2>0, <2>1 DEF BeginAllocation, Fetch
  <2>2. CASE TryNext(b)
    <3>1. UNCHANGED counter \/ Fetch(b, 1) \/ Fetch(b, 2)
      BY <2>2 DEF TryNext
    <3> QED
      BY <2>0, <2>2, <3>1 DEF Fetch
  <2>3. CASE GiveUp(b) \/ BindOne(b) \/ BindFirst(b) \/ BindSecond(b) \/ Release(b)
    BY <2>3 DEF GiveUp, BindOne, BindFirst, BindSecond, Release
  <2> QED
    BY <2>1, <2>2, <2>3 DEF Step
<1> QED
  BY <1>3, <1>4, <1>5

(* A new allocation has met nothing yet.                                   *)
LEMMA WalkedBegin ==
    ASSUME PortsInv, PortSweepInv, NEW a \in Allocs, BeginAllocation(a), kind' = kind, stage'[a] \in Active
    PROVE  Walked(a)'
<1>1. /\ tries'[a] = 0 /\ kind[a] \in Kinds /\ counter[kind[a]] \in Nat
      /\ kind[a] # "voicemail" => counter' = counter
  BY DEF BeginAllocation, PortSweepInv, PortsInv, PortTypes, GotoStage, Active
<1>2. offset'[a] \in Nat
  BY BeginInv DEF PortsInv, PortTypes
<1>3. \A i \in 0..0 - 1 : FALSE
  BY SMTT(30)
<1>4. \A s \in Nat : s = s + Stride(kind[a]) * 0 /\ 0 <= 0 /\ 0 \in Nat
  BY SMTT(30) DEF Stride
<1> QED
  BY <1>1, <1>2, <1>3, <1>4, ZenonT(120) DEF Walked, Stride

(* The next candidate of the allocation itself.                            *)
LEMMA WalkedTry ==
    ASSUME PortsInv, PortSweepInv, NEW a \in Allocs, TryNext(a), kind' = kind,
           a \notin wrapped' \/ kind[a] = "voicemail"
    PROVE  Walked(a)'
<1>0. /\ stage[a] = "next" /\ stage'[a] = "bind" /\ tries'[a] = tries[a] + 1 /\ stage[a] \in Active
      /\ tries[a] \in Nat /\ offset[a] \in Nat
      /\ spare'[a] \subseteq spare[a] /\ wrapped \subseteq wrapped'
  BY SweepFrame DEF TryNext, GotoStage, PortsInv, PortTypes, Active, Step, PortSweepInv
<1>1. ASSUME NEW n, Covered(a, n) PROVE Covered(a, n)'
  BY <1>0, <1>1 DEF Covered, PortsOf
<1>2. PICK s, c \in Nat :
          /\ IF kind[a] = "voicemail" THEN s = offset[a] /\ c = tries[a]
             ELSE counter[kind[a]] = s + Stride(kind[a]) * c
          /\ tries[a] <= c
          /\ \A i \in 0..c - 1 : Covered(a, s + Stride(kind[a]) * i)
  BY <1>0 DEF Walked, PortSweepInv
<1>3. tries'[a] <= c + 1
  BY <1>0, <1>2, SMTT(30)
<1>4. CASE kind[a] = "voicemail"
  <2>1. offset'[a] = offset[a]
    BY <1>4 DEF TryNext
  <2>2. Stride(kind[a]) = 1 /\ s + 1 * c = offset'[a] + (tries'[a] - 1)
    BY <1>0, <1>2, <1>4, <2>1, SMTT(30) DEF Stride
  <2> PICK n : n = s + Stride(kind[a]) * c
    OBVIOUS
  <2>3. n = offset'[a] + (tries'[a] - 1)
    BY <2>2
  <2>4. Claim(a)' = PortsOf(kind[a], n)
    BY <1>0, <1>4, <2>3, ClaimIs DEF PortsOf
  <2>5. Covered(a, n)'
    BY <1>0, <2>4 DEF Covered, PortsOf
  <2> QED
    BY <1>0, <1>1, <1>2, <1>3, <1>4, <2>1, <2>5, OneMore
<1>5. CASE kind[a] # "voicemail"
  <2>1. Fetch(a, Stride(kind[a]))
    BY <1>5 DEF TryNext, Stride
  <2> PICK n : n = s + Stride(kind[a]) * c
    OBVIOUS
  <2>2. counter'[kind[a]] = s + Stride(kind[a]) * (c + 1) /\ offset'[a] = n % range(kind[a])
    BY <1>0, <1>2, <1>5, <2>1, FetchAdvances DEF PortsInv
  <2>3. Claim(a)' = PortsOf(kind[a], n)
    BY <1>0, <1>5, <2>2, ClaimIs DEF PortsOf
  <2>4. Covered(a, n)'
    BY <1>0, <2>3 DEF Covered, PortsOf
  <2> QED
    BY <1>1, <1>2, <1>3, <1>5, <2>2, <2>4, OneMore
<1> QED
  BY <1>4, <1>5

(* A candidate that could not be bound was in use by somebody else.        *)
LEMMA WalkedBind ==
    ASSUME PortsInv, PortSweepInv, NEW a \in Allocs, BindOne(a) \/ BindFirst(a) \/ BindSecond(a),
           kind' = kind, Walked(a), stage'[a] \in Active
    PROVE  Walked(a)'
<1>0. /\ UNCHANGED <<counter, tries, offset>> /\ stage[a] \in {"bind", "second"}
      /\ spare'[a] = spare[a] \ Busy(a)' /\ Candidate(a)' = Candidate(a)
      /\ \A b \in Allocs \ {a} : held'[b] = held[b]
  BY DEF BindOne, BindFirst, BindSecond, Observe, Candidate, PortsInv, PortTypes
<1>1. ASSUME NEW p, p \in Taken, p \notin held[a] PROVE p \notin spare'[a]
  BY <1>0, <1>1, InBusy DEF BindOne, BindFirst, BindSecond
<1>2. stage'[a] \in {"bind", "second"} \/ ~(Claim(a) \subseteq spare'[a])
  <2>1. CASE BindOne(a)
    <3>1. stage[a] = "bind" /\ kind[a] # "relay" /\ held[a] = {} /\ Candidate(a) \in Taken
      BY <2>1 DEF BindOne, GotoStage, PortsInv, PortTypes, SocketsByPosition, Active
    <3> QED
      BY <1>1, <3>1 DEF Claim
  <2>2. CASE BindFirst(a)
    BY <2>2 DEF BindFirst, GotoStage, PortsInv, PortTypes
  <2>3. CASE BindSecond(a)
    <3>1. /\ stage[a] = "second" /\ kind[a] = "relay" /\ held[a] \subseteq {Candidate(a)}
          /\ held[a] = {} \/ Candidate(a) + 1 \in Taken
      BY <2>3 DEF BindSecond, GotoStage, PortsInv, PortTypes, SocketsByPosition, Active
    <3>2. Candidate(a) \in Claim(a) /\ Candidate(a) + 1 \in Claim(a)
      BY <3>1 DEF Claim
    <3>3. CASE held[a] = {}
      BY <1>0, <3>1, <3>2, <3>3 DEF PortSweepInv
    <3>4. CASE Candidate(a) + 1 \in Taken
      <4>1. Candidate(a) \in Nat
        BY <1>0, CandidateInRange, PortRangeAssumption, SMTT(30) DEF PortsInv, PortTypes, Ports
      <4>2. Candidate(a) + 1 # Candidate(a)
        BY <4>1, SMTT(30)
      <4> QED
        BY <1>1, <3>1, <3>2, <3>4, <4>2
    <3> QED
      BY <3>1, <3>3, <3>4
  <2> QED
    BY <2>1, <2>2, <2>3
<1>3. stage'[a] \in {"bind", "second"} => Claim(a)' = Claim(a)
  BY <1>0 DEF Claim
<1>4. ASSUME NEW n, Covered(a, n) PROVE Covered(a, n)'
  BY <1>0, <1>2, <1>3, <1>4 DEF Covered, PortsOf
<1> QED
  BY <1>0, <1>4 DEF Walked, Stride

(* PortSweepInv is inductive relative to PortsInv.                             *)
LEMMA SweepStep ==
    ASSUME PortsInv, PortSweepInv, NEW b \in Allocs, Step(b), kind' = kind PROVE PortSweepInv'
<1>0. /\ DOMAIN spare = Allocs /\ DOMAIN spare' = Allocs /\ wrapped \subseteq wrapped'
      /\ \A a \in Allocs \ {b} :
             /\ stage'[a] = stage[a] /\ tries'[a] = tries[a] /\ offset'[a] = offset[a]
             /\ held'[a] = held[a] /\ Claim(a)' = Claim(a) /\ Candidate(a)' = Candidate(a)
      /\ \A a \in Allocs : a # b \/ stage[b] # "idle" => spare'[a] \subseteq spare[a]
      /\ DOMAIN stage = Allocs /\ DOMAIN held = Allocs
  BY SweepFrame DEF PortSweepInv, PortsInv, PortTypes
<1>1. \A a \in Allocs : stage'[a] = "idle" => tries'[a] = 0
  <2>1. stage'[b] # "idle"
    BY <1>0 DEF Step, BeginAllocation, TryNext, GiveUp, BindOne, BindFirst, BindSecond, Release, GotoStage
  <2> QED
    BY <1>0, <2>1 DEF PortSweepInv
<1>2. ASSUME NEW a \in Allocs, stage'[a] = "second", held'[a] = {} PROVE Candidate(a)' \notin spare'[a]
  <2>1. CASE a # b
    BY <1>0, <1>2, <2>1 DEF PortSweepInv
  <2>2. CASE a = b
    <3>1. BindFirst(a)
      BY <1>0, <1>2, <2>2 DEF Step, BeginAllocation, TryNext, GiveUp, BindOne, BindFirst, BindSecond,
           Release, GotoStage
    <3>2. /\ stage[a] = "bind" /\ held[a] = {} /\ Candidate(a) \in Taken
          /\ Candidate(a)' = Candidate(a)
          /\ foreign' = foreign /\ \A d \in Allocs \ {a} : held'[d] = held[d]
          /\ spare'[a] = spare[a] \ Busy(a)'
      BY <1>0, <1>2, <3>1 DEF BindFirst, PortsInv, SocketsByPosition, Candidate, Observe
    <3> QED
      BY <3>2, InBusy
  <2> QED
    BY <2>1, <2>2
<1>3. ASSUME NEW a \in Allocs, stage'[a] \in Active, a \notin wrapped' \/ kind'[a] = "voicemail"
      PROVE  Walked(a)'
  <2>1. CASE a # b
    BY <1>0, <1>3, <2>1, WalkedOther DEF PortSweepInv
  <2>2. CASE a = b
    <3>1. CASE BeginAllocation(a)
      BY <1>3, <3>1, WalkedBegin
    <3>2. CASE TryNext(a)
      BY <1>3, <3>2, WalkedTry
    <3>3. CASE BindOne(a) \/ BindFirst(a) \/ BindSecond(a)
      <4>1. stage[a] \in Active
        BY <3>3 DEF BindOne, BindFirst, BindSecond, Active
      <4> QED
        BY <1>0, <1>3, <3>3, <4>1, WalkedBind DEF PortSweepInv
    <3>4. CASE GiveUp(a) \/ Release(a)
      BY <1>0, <1>3, <3>4 DEF GiveUp, Release, GotoStage, Active
    <3> QED
      BY <2>2, <3>1, <3>2, <3>3, <3>4 DEF Step
  <2> QED
    BY <2>1, <2>2
<1>4. ASSUME NEW a \in Allocs, stage'[a] = "failed", ~Refused(kind[a]),
             a \notin wrapped' \/ kind[a] = "voicemail"
      PROVE  \A C \in Reachable(a) : ~(C \subseteq spare'[a])
  <2>1. CASE stage[a] = "failed"
    <3>1. spare'[a] \subseteq spare[a]
      BY <1>0, <2>1
    <3> QED
      BY <1>0, <1>4, <2>1, <3>1 DEF PortSweepInv, NoFalseExhaustion
  <2>2. CASE stage[a] # "failed"
    <3>1. a = b
      BY <1>0, <1>4, <2>2
    <3>2. GiveUp(a)
      BY <1>0, <1>4, <2>2, <3>1 DEF Step, BeginAllocation, TryNext, GiveUp, BindOne, BindFirst, BindSecond,
           Release, GotoStage
    <3>3. /\ stage[a] = "next" /\ tries[a] >= Limit(kind[a]) /\ spare' = spare /\ Walked(a)
      BY <1>0, <1>4, <3>2 DEF GiveUp, PortSweepInv, Active
    <3> PICK s, c \in Nat :
            /\ tries[a] <= c
            /\ \A i \in 0..c - 1 : Covered(a, s + Stride(kind[a]) * i)
      BY <3>3 DEF Walked
    <3>4. \A i \in 0..c - 1 : ~(PortsOf(kind[a], s + Stride(kind[a]) * i) \subseteq spare[a])
      BY <3>3 DEF Covered
    <3>5. Limit(kind[a]) <= c
      <4>1. tries[a] \in Nat /\ range(kind[a]) \in Nat
        BY <1>4, RangePositive DEF PortsInv, PortTypes
      <4>2. Limit(kind[a]) \in Int
        BY <4>1, SMTT(30) DEF Limit
      <4> QED
        BY <3>3, <4>1, <4>2, SMTT(30)
    <3> QED
      BY <1>4, <3>3, <3>4, <3>5, AllReached DEF PortsInv
  <2> QED
    BY <2>1, <2>2
<1>5. NoFalseExhaustion'
  BY <1>4, ZenonT(120) DEF NoFalseExhaustion, Reachable
<1> QED
  BY <1>0, <1>1, <1>2, <1>3, <1>5 DEF PortSweepInv

(* An allocator gives up only when each socket or pair it could have had   *)
(* was in use, or being tried by another allocation, at some moment since  *)
(* it began: for any ranges, any number of allocations that take their     *)
(* candidates from one counter, and any interleaving.                      *)
THEOREM NeverFalselyExhausted == PortsSpec => []NoFalseExhaustion
<1>1. PortsInit => PortSweepInv
  BY DEF PortsInit, PortSweepInv, NoFalseExhaustion, Active
<1>2. ASSUME PortsInv, PortSweepInv, [PortsNext]_portVars PROVE PortSweepInv'
  <2>1. CASE PortsNext
    BY <1>2, <2>1, SweepStep DEF PortsNext
  <2>2. CASE UNCHANGED portVars
    <3>1. UNCHANGED <<kind, counter, stage, tries, offset, held, spare, wrapped>>
      BY <2>2 DEF portVars
    <3>2. \A a \in Allocs : Candidate(a)' = Candidate(a) /\ Claim(a)' = Claim(a)
      BY <3>1 DEF Candidate, Claim
    <3>3. ASSUME NEW a \in Allocs, Walked(a) PROVE Walked(a)'
      <4>1. \A n : Covered(a, n) => Covered(a, n)'
        BY <3>1, <3>2 DEF Covered, PortsOf
      <4> QED
        BY <3>1, <3>3, <4>1 DEF Walked
    <3>4. NoFalseExhaustion'
      <4>1. \A a \in Allocs : Reachable(a)' = Reachable(a)
        BY <3>1 DEF Reachable
      <4> QED
        BY <1>2, <3>1, <4>1 DEF PortSweepInv, NoFalseExhaustion
    <3> QED
      BY <1>2, <3>1, <3>2, <3>3, <3>4 DEF PortSweepInv
  <2> QED
    BY <1>2, <2>1, <2>2
<1>3. PortSweepInv => NoFalseExhaustion
  BY DEF PortSweepInv
<1> QED
  BY <1>1, <1>2, <1>3, PortsInvariance, PTL DEF PortsSpec


-----------------------------------------------------------------------------
(* MediaSessions                                                           *)

(* Leaves without arithmetic go to Zenon; the others name SMT.             *)
USE ZenonT(30)

MediaTypes ==
    /\ relay \in [Calls -> Setups \cup {None}]
    /\ gateway \in [Calls -> Setups \cup {None}]
    /\ flow \in [Setups -> Flows]
    /\ loops \subseteq Setups \X Streams
    /\ aged \subseteq Setups
    /\ closing \subseteq Setups
    /\ pc \in [Procs -> PC]

(* A session is filed under its own call, and only in the map of its flow  *)
Place(c, s) ==
    /\ relay[c] = s => CallOf[s] = c /\ flow[s] = "relay"
    /\ gateway[c] = s => CallOf[s] = c /\ flow[s] \in {"browser", "sip"}

Placed == \A c \in Calls, s \in Setups : Place(c, s)

(* A session is filed once, when its set-up is complete, and not while a   *)
(* sweep is closing it                                                     *)
FiledOnce ==
    \A s \in Setups :
        /\ Filed(s) \/ s \in closing => pc[s] \notin SettingUp \cup {"idle"}
        /\ s \in closing => ~Filed(s)

(* What a set-up has reached before it files                               *)
Prepared ==
    \A s \in Setups :
        /\ pc[s] \in SettingUp => flow[s] # "none"
        /\ pc[s] = "negotiate" => flow[s] # "relay"
        /\ pc[s] \in {"negotiate", "file"} => \A m \in Wants[s] : <<s, m>> \in loops

SessionInv == MediaTypes /\ Placed /\ FiledOnce /\ Prepared /\ FiledIsLive /\ LoopsAccounted

(* Nothing is filed at the start.                                          *)
LEMMA SessionInit == Init => SessionInv
<1> SUFFICES ASSUME Init PROVE SessionInv
  OBVIOUS
<1> USE CallOfAssumption, NoneAssumption DEF Init
<1>1. MediaTypes BY DEF MediaTypes, Flows, PC
<1>2. Placed BY DEF Placed, Place
<1>3. \A s \in Setups : ~Filed(s) BY DEF Filed, Procs
<1>4. FiledOnce /\ Prepared BY <1>3 DEF FiledOnce, Prepared, SettingUp, Procs
<1>5. FiledIsLive /\ LoopsAccounted BY <1>3 DEF FiledIsLive, LoopsAccounted
<1>6. QED BY <1>1, <1>2, <1>4, <1>5 DEF SessionInv

(* Steps that touch neither maps nor tasks keep the invariant as long as   *)
(* no set-up moves into or out of the part before filing.                  *)
LEMMA FrameInv ==
    ASSUME SessionInv, UNCHANGED <<relay, gateway, flow, loops, closing>>,
           replaced \subseteq replaced', dropped \subseteq dropped',
           aged' \subseteq Setups,
           pc' \in [Procs -> PC],
           \A s \in Setups : pc'[s] = pc[s] \/ (pc[s] \notin SettingUp \cup {"idle"}
                                                /\ pc'[s] \notin SettingUp \cup {"idle"})
    PROVE  SessionInv'
<1>1. \A s \in Setups : Filed(s)' <=> Filed(s) BY DEF Filed
<1>2. MediaTypes' BY DEF SessionInv, MediaTypes
<1>3. Placed' BY DEF SessionInv, Placed, Place
<1>4. FiledOnce' BY <1>1 DEF SessionInv, FiledOnce
<1>5. Prepared' BY DEF SessionInv, Prepared, SettingUp
<1>6. FiledIsLive' BY <1>1 DEF SessionInv, FiledIsLive
<1>7. LoopsAccounted' BY <1>1 DEF SessionInv, LoopsAccounted, SettingUp
<1>8. QED BY <1>2, <1>3, <1>4, <1>5, <1>6, <1>7 DEF SessionInv

(* Responses, packets and the passing of time leave the sessions alone.    *)
LEMMA ReaderInv ==
    ASSUME SessionInv,
           \/ \E s \in Setups : SetPeer(s) \/ Send(s) \/ PhoneRtp(s) \/ Age(s)
           \/ \E r \in Removers : Forget(r) /\ r \notin Setups
           \/ \E a \in Answers : (RecvAnswer(a) \/ AnswerStep(a)) /\ a \notin Setups
    PROVE  SessionInv'
<1> USE DEF mapVars, historyVars, Goto
<1>1. UNCHANGED <<relay, gateway, flow, loops, closing, replaced, dropped>>
  BY DEF SetPeer, Send, PhoneRtp, Age, Forget, RecvAnswer, AnswerStep, Lookup, AskFlow, Apply,
         Learn, Rewrite, Reply, ClearPending
<1>2. /\ pc' \in [Procs -> PC]
      /\ \A s \in Setups : pc'[s] = pc[s] \/ (pc[s] \notin SettingUp \cup {"idle"}
                                              /\ pc'[s] \notin SettingUp \cup {"idle"})
  <2> USE DEF SessionInv, MediaTypes, Procs, PC, SettingUp
  <2>1. CASE \E s \in Setups : SetPeer(s) \/ Send(s) \/ PhoneRtp(s) \/ Age(s)
    BY <2>1 DEF SetPeer, Send, PhoneRtp, Age
  <2>2. CASE \E r \in Removers : Forget(r) /\ r \notin Setups
    BY <2>2 DEF Forget
  <2>3. CASE \E a \in Answers : (RecvAnswer(a) \/ AnswerStep(a)) /\ a \notin Setups
    <3>1. PICK a \in Answers : (RecvAnswer(a) \/ AnswerStep(a)) /\ a \notin Setups
      BY <2>3, Zenon
    <3>2. \E l \in PC : pc' = [pc EXCEPT ![a] = l]
      <4>1. CASE RecvAnswer(a) \/ Lookup(a) \/ AskFlow(a)
        BY <4>1 DEF RecvAnswer, Lookup, AskFlow
      <4>2. CASE Apply(a) \/ Learn(a)
        BY <4>2 DEF Apply, Learn
      <4>3. CASE Rewrite(a) \/ Reply(a) \/ ClearPending(a)
        BY <4>3 DEF Rewrite, Reply, ClearPending
      <4> QED BY <3>1, <4>1, <4>2, <4>3 DEF AnswerStep
    <3>3. PICK l \in PC : pc' = [pc EXCEPT ![a] = l]
      BY <3>2
    <3>4. pc \in [Procs -> PC] /\ a \in Procs /\ Setups \subseteq Procs
      BY <3>1
    <3> HIDE DEF SessionInv, MediaTypes, Procs, PC, SettingUp
    <3>5. pc' \in [Procs -> PC]
      BY <3>3, <3>4
    <3>6. \A s \in Setups : pc'[s] = pc[s]
      BY <3>1, <3>3, <3>4
    <3> QED BY <3>5, <3>6
  <2>4. QED BY <2>1, <2>2, <2>3
<1>3. aged' \subseteq Setups
  BY DEF SetPeer, Send, PhoneRtp, Age, Forget, RecvAnswer, AnswerStep, Lookup, AskFlow, Apply,
         Learn, Rewrite, Reply, ClearPending, SessionInv, MediaTypes
<1>4. QED BY <1>1, <1>2, <1>3, FrameInv

(* The tasks of a session.                                                 *)
LEMMA InLoops ==
    ASSUME NEW r, NEW s, NEW m \in Streams
    PROVE  <<s, m>> \in LoopsOf(r) <=> s = r
  BY SMTT(30) DEF LoopsOf

(* A session has only audio and video.                                     *)
LEMMA WantsStreams == ASSUME NEW s \in Setups PROVE Wants[s] \subseteq Streams
  BY WantsAssumption, SMTT(30) DEF Streams

(* Taking sessions out keeps the invariant if exactly the tasks of K stop, *)
(* K is not filed any more, and what is not stopped is filed or closing.   *)
LEMMA RemovalInv ==
    ASSUME SessionInv, NEW K,
           \A c \in Calls : relay'[c] \in {relay[c], None} /\ gateway'[c] \in {gateway[c], None},
           relay' \in [Calls -> Setups \cup {None}], gateway' \in [Calls -> Setups \cup {None}],
           loops' \subseteq loops,
           \A s \in Setups, m \in Streams : <<s, m>> \in loops /\ s \notin K => <<s, m>> \in loops',
           \A s \in Setups \cap K : /\ ~Filed(s)' /\ pc[s] \notin SettingUp
                                    /\ \A m \in Streams : <<s, m>> \notin loops',
           closing' \subseteq Setups,
           \A s \in Setups : Filed(s) /\ ~Filed(s)' => s \in K \cup closing',
           \A s \in closing : s \in K \cup closing',
           \A s \in closing' : s \in closing \/ (Filed(s) /\ ~Filed(s)'),
           flow' = flow, replaced' = replaced, dropped' = dropped, aged' = aged,
           pc' \in [Procs -> PC], \A s \in Setups : pc'[s] = pc[s]
    PROVE  SessionInv'
<1> USE NoneAssumption
<1>1. ASSUME NEW s \in Setups, Filed(s)' PROVE Filed(s)
  <2>1. CallOf[s] \in Calls /\ s # None
    BY CallOfAssumption
  <2>2. relay'[CallOf[s]] = s \/ gateway'[CallOf[s]] = s
    BY <1>1 DEF Filed
  <2>3. CASE relay'[CallOf[s]] = s
    BY <2>1, <2>3 DEF Filed
  <2>4. CASE gateway'[CallOf[s]] = s
    BY <2>1, <2>4 DEF Filed
  <2> QED BY <2>2, <2>3, <2>4
<1>2. MediaTypes' BY DEF SessionInv, MediaTypes
<1>3. Placed'
  <2>1. ASSUME NEW c \in Calls, NEW s \in Setups
        PROVE  Place(c, s)'
    <3>1. (relay'[c] = s => relay[c] = s) /\ (gateway'[c] = s => gateway[c] = s)
      OBVIOUS
    <3>2. Place(c, s)
      BY DEF SessionInv, Placed
    <3>3. flow'[s] = flow[s]
      OBVIOUS
    <3>4. QED BY <3>1, <3>2, <3>3 DEF Place
  <2>2. QED BY <2>1 DEF Placed
<1>4. FiledOnce' BY <1>1 DEF SessionInv, FiledOnce
<1>5. Prepared'
  <2>1. \A s \in Setups : Wants[s] \subseteq Streams
    BY WantsStreams
  <2>2. \A s \in Setups : pc[s] \in {"negotiate", "file"} => s \notin K BY DEF SettingUp
  <2>3. QED BY <2>1, <2>2 DEF SessionInv, Prepared
<1>6. FiledIsLive' BY <1>1 DEF SessionInv, FiledIsLive
<1>7. LoopsAccounted' BY <1>1 DEF SessionInv, LoopsAccounted
<1>8. QED BY <1>2, <1>3, <1>4, <1>5, <1>6, <1>7 DEF SessionInv

(* The end of a call stops the tasks of the session it takes out.          *)
LEMMA RemoverInv ==
    ASSUME SessionInv, NEW r \in Removers, r \notin Setups, RemoverStep(r)
    PROVE  SessionInv'
<1> USE NoneAssumption, CallOfAssumption
<1> DEFINE c == CallOf[r]
<1>1. c \in Calls OBVIOUS
<1>2. /\ pc' \in [Procs -> PC] /\ \A s \in Setups : pc'[s] = pc[s]
      /\ flow' = flow /\ replaced' = replaced /\ dropped' = dropped /\ closing' = closing
      /\ aged' = aged
  BY DEF RemoverStep, RemoveRelay, RemoveGateway, Goto, historyVars, SessionInv, MediaTypes, Procs, PC
<1>3. CASE RemoveRelay(r)
  <2> DEFINE K == {relay[c]}
  <2>1. relay' = [relay EXCEPT ![c] = None] /\ gateway' = gateway /\ loops' = loops \ LoopsOf(relay[c])
    BY <1>3 DEF RemoveRelay
  <2>2. /\ \A s \in Setups, m \in Streams : <<s, m>> \in loops /\ s \notin K => <<s, m>> \in loops'
        /\ \A s \in Setups \cap K, m \in Streams : <<s, m>> \notin loops'
        /\ loops' \subseteq loops
    BY <2>1 DEF LoopsOf
  <2>3. /\ \A d \in Calls : relay'[d] \in {relay[d], None}
        /\ relay' \in [Calls -> Setups \cup {None}]
    BY <1>1, <2>1 DEF SessionInv, MediaTypes
  <2>4. ASSUME NEW s \in Setups \cap K PROVE Filed(s) /\ ~Filed(s)'
    <3>1. s = relay[c] /\ Place(c, s)
      BY <1>1 DEF SessionInv, Placed
    <3>2. CallOf[s] = c /\ gateway[c] # s
      BY <3>1 DEF Place
    <3>3. relay'[c] = None
      BY <1>1, <2>1 DEF SessionInv, MediaTypes
    <3>4. relay'[c] # s /\ gateway'[c] # s
      BY <2>1, <3>2, <3>3
    <3>5. QED BY <3>1, <3>2, <3>4 DEF Filed
  <2>5. \A s \in Setups : Filed(s) /\ ~Filed(s)' => s \in K
    BY <1>1, <2>1 DEF SessionInv, MediaTypes, Filed
  <2>6. \A s \in Setups \cap K : pc[s] \notin SettingUp
    BY <2>4 DEF SessionInv, FiledOnce
  <2>7. closing \subseteq Setups /\ gateway \in [Calls -> Setups \cup {None}]
    BY DEF SessionInv, MediaTypes
  <2> HIDE DEF K
  <2>8. QED BY <1>2, <2>1, <2>2, <2>3, <2>4, <2>5, <2>6, <2>7, RemovalInv
<1>4. CASE RemoveGateway(r)
  <2> DEFINE K == {gateway[c]}
  <2>1. gateway' = [gateway EXCEPT ![c] = None] /\ relay' = relay /\ loops' = loops \ LoopsOf(gateway[c])
    BY <1>4 DEF RemoveGateway
  <2>2. /\ \A s \in Setups, m \in Streams : <<s, m>> \in loops /\ s \notin K => <<s, m>> \in loops'
        /\ \A s \in Setups \cap K, m \in Streams : <<s, m>> \notin loops'
        /\ loops' \subseteq loops
    BY <2>1 DEF LoopsOf
  <2>3. /\ \A d \in Calls : gateway'[d] \in {gateway[d], None}
        /\ gateway' \in [Calls -> Setups \cup {None}]
    BY <1>1, <2>1 DEF SessionInv, MediaTypes
  <2>4. ASSUME NEW s \in Setups \cap K PROVE Filed(s) /\ ~Filed(s)'
    <3>1. s = gateway[c] /\ Place(c, s)
      BY <1>1 DEF SessionInv, Placed
    <3>2. CallOf[s] = c /\ relay[c] # s
      BY <3>1 DEF Place
    <3>3. gateway'[c] = None
      BY <1>1, <2>1 DEF SessionInv, MediaTypes
    <3>4. gateway'[c] # s /\ relay'[c] # s
      BY <2>1, <3>2, <3>3
    <3>5. QED BY <3>1, <3>2, <3>4 DEF Filed
  <2>5. \A s \in Setups : Filed(s) /\ ~Filed(s)' => s \in K
    BY <1>1, <2>1 DEF SessionInv, MediaTypes, Filed
  <2>6. \A s \in Setups \cap K : pc[s] \notin SettingUp
    BY <2>4 DEF SessionInv, FiledOnce
  <2>7. closing \subseteq Setups /\ relay \in [Calls -> Setups \cup {None}]
    BY DEF SessionInv, MediaTypes
  <2> HIDE DEF K
  <2>8. /\ \A d \in Calls : relay'[d] \in {relay[d], None} /\ gateway'[d] \in {gateway[d], None}
        /\ relay' \in [Calls -> Setups \cup {None}]
    BY <2>1, <2>3, <2>7
  <2>9. /\ \A s \in Setups \cap K : /\ ~Filed(s)' /\ pc[s] \notin SettingUp
                                    /\ \A m \in Streams : <<s, m>> \notin loops'
        /\ closing' \subseteq Setups
        /\ \A s \in Setups : Filed(s) /\ ~Filed(s)' => s \in K \cup closing'
        /\ \A s \in closing : s \in K \cup closing'
        /\ \A s \in closing' : s \in closing \/ (Filed(s) /\ ~Filed(s)')
    BY <1>2, <2>2, <2>4, <2>5, <2>6, <2>7
  <2>10. QED BY <1>2, <2>2, <2>3, <2>8, <2>9, RemovalInv
<1>5. QED BY <1>3, <1>4 DEF RemoverStep

(* The relay's sweep stops what it takes out, the gateway's lists it for   *)
(* closing, and closing stops it.                                          *)
LEMMA SweepInv ==
    ASSUME SessionInv, SweepRelay \/ SweepGateway \/ \E s \in Setups : CloseSwept(s)
    PROVE  SessionInv'
<1> USE NoneAssumption, CallOfAssumption
<1>1. /\ pc' \in [Procs -> PC] /\ \A s \in Setups : pc'[s] = pc[s]
      /\ flow' = flow /\ replaced' = replaced /\ dropped' = dropped /\ aged' = aged
  BY DEF SweepRelay, SweepGateway, CloseSwept, historyVars, SessionInv, MediaTypes
<1>2. /\ closing \subseteq Setups /\ relay \in [Calls -> Setups \cup {None}]
      /\ gateway \in [Calls -> Setups \cup {None}]
  BY DEF SessionInv, MediaTypes
<1>3. CASE SweepRelay
  <2> DEFINE K == {relay[c] : c \in {d \in Calls : relay[d] \in aged}}
  <2>1. /\ relay' = [c \in Calls |-> IF relay[c] \in aged THEN None ELSE relay[c]]
        /\ loops' = loops \ UNION {LoopsOf(relay[c]) : c \in {d \in Calls : relay[d] \in aged}}
        /\ gateway' = gateway /\ closing' = closing
    BY <1>3 DEF SweepRelay
  <2>2. /\ \A s \in Setups, m \in Streams : <<s, m>> \in loops /\ s \notin K => <<s, m>> \in loops'
        /\ \A s \in Setups \cap K, m \in Streams : <<s, m>> \notin loops'
        /\ loops' \subseteq loops
    <3> DEFINE U == UNION {LoopsOf(relay[c]) : c \in {d \in Calls : relay[d] \in aged}}
    <3>1. ASSUME NEW s \in Setups, NEW m \in Streams PROVE <<s, m>> \in U <=> s \in K
      <4>1. \A r : <<s, m>> \in LoopsOf(r) <=> s = r
        BY InLoops
      <4>2. <<s, m>> \in U <=> \E c \in Calls : relay[c] \in aged /\ <<s, m>> \in LoopsOf(relay[c])
        OBVIOUS
      <4>3. s \in K <=> \E c \in Calls : relay[c] \in aged /\ s = relay[c]
        OBVIOUS
      <4> HIDE DEF U, K
      <4>4. ASSUME <<s, m>> \in U PROVE s \in K
        <5>1. PICK c \in Calls : relay[c] \in aged /\ <<s, m>> \in LoopsOf(relay[c])
          BY <4>2, <4>4
        <5>2. s = relay[c]
          BY <4>1, <5>1
        <5>3. QED BY <4>3, <5>1, <5>2
      <4>5. ASSUME s \in K PROVE <<s, m>> \in U
        <5>1. PICK c \in Calls : relay[c] \in aged /\ s = relay[c]
          BY <4>3, <4>5
        <5>2. <<s, m>> \in LoopsOf(relay[c])
          BY <4>1, <5>1
        <5>3. QED BY <4>2, <5>1, <5>2
      <4>6. QED BY <4>4, <4>5
    <3>2. loops' = loops \ U
      BY <2>1
    <3> HIDE DEF U, K
    <3>3. QED BY <3>1, <3>2
  <2>3. /\ \A d \in Calls : relay'[d] \in {relay[d], None}
        /\ relay' \in [Calls -> Setups \cup {None}]
    BY <1>2, <2>1
  <2>4. ASSUME NEW s \in Setups \cap K PROVE Filed(s) /\ ~Filed(s)'
    <3>1. PICK c \in Calls : s = relay[c] /\ relay[c] \in aged
      OBVIOUS
    <3>2. CallOf[s] = c /\ flow[s] = "relay" /\ gateway[c] # s
      BY <3>1 DEF SessionInv, Placed, Place
    <3>3. relay'[c] # s /\ gateway'[c] # s
      BY <2>1, <3>1, <3>2
    <3>4. QED BY <3>1, <3>2, <3>3 DEF Filed
  <2>5. \A s \in Setups : Filed(s) /\ ~Filed(s)' => s \in K
    BY <2>1 DEF SessionInv, MediaTypes, Filed
  <2>6. \A s \in Setups \cap K : pc[s] \notin SettingUp
    BY <2>4 DEF SessionInv, FiledOnce
  <2> HIDE DEF K
  <2>7. QED BY <1>1, <1>2, <2>1, <2>2, <2>3, <2>4, <2>5, <2>6, RemovalInv
<1>4. CASE SweepGateway
  <2> DEFINE K == {}
  <2>1. /\ gateway' = [c \in Calls |-> IF gateway[c] \in aged THEN None ELSE gateway[c]]
        /\ closing' = closing \cup {gateway[c] : c \in {d \in Calls : gateway[d] \in aged}}
        /\ relay' = relay /\ loops' = loops
        /\ aged' = aged
    BY <1>4 DEF SweepGateway
  <2>2. None \notin aged
    BY DEF SessionInv, MediaTypes
  <2>3. closing' \subseteq Setups
    BY <1>2, <2>1, <2>2
  <2>4. /\ \A d \in Calls : gateway'[d] \in {gateway[d], None}
        /\ gateway' \in [Calls -> Setups \cup {None}]
    BY <1>2, <2>1
  <2>5. \A s \in Setups : Filed(s) /\ ~Filed(s)' => s \in closing'
    BY <2>1 DEF SessionInv, MediaTypes, Filed
  <2>6. ASSUME NEW s \in closing', s \notin closing PROVE Filed(s) /\ ~Filed(s)'
    <3>1. PICK c \in Calls : s = gateway[c] /\ gateway[c] \in aged
      BY <2>1, <2>6
    <3>2. s \in Setups
      BY <2>3
    <3>3. CallOf[s] = c /\ flow[s] # "relay" /\ relay[c] # s
      BY <3>1, <3>2 DEF SessionInv, Placed, Place
    <3>4. relay'[c] # s /\ gateway'[c] # s
      BY <2>1, <3>1, <3>2, <3>3
    <3>5. QED BY <3>1, <3>3, <3>4 DEF Filed
  <2>7. /\ \A s \in Setups \cap K : /\ ~Filed(s)' /\ pc[s] \notin SettingUp
                                    /\ \A m \in Streams : <<s, m>> \notin loops'
        /\ \A s \in Setups, m \in Streams : <<s, m>> \in loops /\ s \notin K => <<s, m>> \in loops'
        /\ loops' \subseteq loops
        /\ \A s \in closing : s \in K \cup closing'
        /\ \A s \in Setups : Filed(s) /\ ~Filed(s)' => s \in K \cup closing'
    BY <2>1, <2>5
  <2> HIDE DEF K
  <2>8. QED BY <1>1, <1>2, <2>1, <2>3, <2>4, <2>6, <2>7, RemovalInv
<1>5. CASE \E s \in Setups : CloseSwept(s)
  <2> PICK x \in Setups : CloseSwept(x) BY <1>5
  <2> DEFINE K == {x}
  <2>1. /\ x \in closing /\ closing' = closing \ {x} /\ loops' = loops \ LoopsOf(x)
        /\ relay' = relay /\ gateway' = gateway
    BY DEF CloseSwept, mapVars
  <2>2. /\ \A s \in Setups, m \in Streams : <<s, m>> \in loops /\ s \notin K => <<s, m>> \in loops'
        /\ \A s \in Setups \cap K, m \in Streams : <<s, m>> \notin loops'
        /\ loops' \subseteq loops
    BY <2>1 DEF LoopsOf
  <2>3. \A s \in Setups : Filed(s)' <=> Filed(s) BY <2>1 DEF Filed
  <2>4. ~Filed(x) /\ pc[x] \notin SettingUp BY <2>1 DEF SessionInv, FiledOnce
  <2>5. /\ \A s \in Setups \cap K : /\ ~Filed(s)' /\ pc[s] \notin SettingUp
                                    /\ \A m \in Streams : <<s, m>> \notin loops'
        /\ \A s \in closing : s \in K \cup closing'
        /\ \A s \in closing' : s \in closing
        /\ closing' \subseteq Setups
    BY <1>2, <2>1, <2>2, <2>3, <2>4
  <2> HIDE DEF K
  <2>6. QED BY <1>1, <1>2, <2>1, <2>2, <2>3, <2>5, RemovalInv
<1>6. QED BY <1>3, <1>4, <1>5

(* A set-up that has not filed is in no map and in nobody's hands, so its  *)
(* own tasks are all that its steps change.                                *)
LEMMA SetupInv ==
    ASSUME SessionInv, NEW x \in Setups,
           Begin(x) \/ Bind(x) \/ BindFails(x) \/ Negotiate(x)
    PROVE  SessionInv'
<1> USE NoneAssumption, CallOfAssumption
<1> USE DEF mapVars, historyVars, Goto
<1>1. /\ relay' = relay /\ gateway' = gateway /\ closing' = closing /\ aged' = aged
      /\ replaced' = replaced /\ dropped \subseteq dropped'
  BY DEF Begin, Bind, BindFails, Negotiate
<1>2. /\ \A s \in Setups \ {x} : pc'[s] = pc[s] /\ flow'[s] = flow[s]
      /\ \A s \in Setups \ {x}, m \in Streams : <<s, m>> \in loops' <=> <<s, m>> \in loops
  <2>1. CASE Begin(x) BY <2>1 DEF Begin, SessionInv, MediaTypes, Procs
  <2>2. CASE Bind(x) BY <2>2 DEF Bind, SessionInv, MediaTypes, Procs
  <2>3. CASE BindFails(x) BY <2>3 DEF BindFails, SessionInv, MediaTypes, Procs, LoopsOf
  <2>4. CASE Negotiate(x) BY <2>4 DEF Negotiate, SessionInv, MediaTypes, Procs
  <2>5. QED BY <2>1, <2>2, <2>3, <2>4
<1>3. pc[x] \in SettingUp \cup {"idle"}
  BY DEF Begin, Bind, BindFails, Negotiate, SettingUp
<1>4. ~Filed(x) /\ x \notin closing
  BY <1>3 DEF SessionInv, FiledOnce
<1>5. \A s \in Setups : Filed(s)' <=> Filed(s)
  BY <1>1 DEF Filed
<1>6. /\ flow' \in [Setups -> Flows] /\ pc' \in [Procs -> PC] /\ loops' \subseteq Setups \X Streams
  <2> USE WantsAssumption DEF SessionInv, MediaTypes, Flows, PC, SettingUp, Procs
  <2>1. CASE Begin(x)
    <3>1. PICK f \in Flows, l \in PC : flow' = [flow EXCEPT ![x] = f] /\ pc' = [pc EXCEPT ![x] = l]
      BY <2>1 DEF Begin
    <3>2. flow \in [Setups -> Flows] /\ pc \in [Procs -> PC] /\ loops' \subseteq Setups \X Streams
      BY <2>1 DEF Begin
    <3> HIDE DEF SessionInv, MediaTypes, Flows, PC, SettingUp, Procs
    <3>3. QED BY <3>1, <3>2
  <2>2. CASE Bind(x)
    <3>1. PICK m \in Wants[x] : loops' = loops \cup {<<x, m>>}
      BY <2>2 DEF Bind
    <3>2. m \in Streams
      BY <3>1 DEF Streams
    <3>3. <<x, m>> \in Setups \X Streams
      BY <3>2
    <3>4. flow' = flow /\ (pc' = pc \/ \E l \in PC : pc' = [pc EXCEPT ![x] = l])
      BY <2>2 DEF Bind
    <3>5. loops' \subseteq Setups \X Streams
      BY <3>1, <3>3
    <3>6. pc' \in [Procs -> PC]
      BY <3>4
    <3>7. QED BY <3>4, <3>5, <3>6
  <2>3. CASE BindFails(x) BY <2>3 DEF BindFails
  <2>4. CASE Negotiate(x)
    <3>1. /\ flow' = flow \/ flow' = [flow EXCEPT ![x] = "none"]
          /\ \E l \in PC : pc' = [pc EXCEPT ![x] = l]
          /\ loops' = loops
      BY <2>4 DEF Negotiate
    <3>2. /\ flow \in [Setups -> Flows] /\ pc \in [Procs -> PC] /\ "none" \in Flows
          /\ loops \subseteq Setups \X Streams
      OBVIOUS
    <3> HIDE DEF SessionInv, MediaTypes, Flows, PC, SettingUp, Procs
    <3>3. flow' \in [Setups -> Flows]
      BY <3>1, <3>2
    <3>4. pc' \in [Procs -> PC]
      BY <3>1, <3>2
    <3>5. QED BY <3>1, <3>2, <3>3, <3>4
  <2>5. QED BY <2>1, <2>2, <2>3, <2>4
<1>7. /\ pc'[x] \in SettingUp => flow'[x] # "none"
      /\ pc'[x] = "negotiate" => flow'[x] # "relay"
      /\ pc'[x] \in {"negotiate", "file"} => \A m \in Wants[x] : <<x, m>> \in loops'
      /\ \A m \in Streams : <<x, m>> \in loops' =>
             pc'[x] \in SettingUp \/ x \in closing' \cup replaced' \cup dropped'
  <2> USE DEF SessionInv, MediaTypes, SettingUp, Procs, PC, Prepared, LoopsAccounted
  <2>1. CASE Begin(x)
    BY <1>1, <1>4, <2>1 DEF Begin
  <2>2. CASE Bind(x)
    <3>1. pc[x] = "bind" /\ flow' = flow /\ x \in Procs /\ pc \in [Procs -> PC]
      BY <2>2 DEF Bind
    <3>2. flow'[x] # "none"
      BY <3>1
    <3>3. CASE \A m \in Wants[x] : <<x, m>> \in loops'
      <4>1. pc' = [pc EXCEPT ![x] = IF flow[x] = "relay" THEN "file" ELSE "negotiate"]
        BY <2>2, <3>3 DEF Bind
      <4>2. pc'[x] = IF flow[x] = "relay" THEN "file" ELSE "negotiate"
        BY <3>1, <4>1
      <4>3. QED BY <3>1, <3>2, <3>3, <4>2
    <3>4. CASE ~ \A m \in Wants[x] : <<x, m>> \in loops'
      <4>1. pc' = pc
        BY <2>2, <3>4 DEF Bind
      <4>2. pc'[x] = "bind"
        BY <3>1, <4>1
      <4>3. QED BY <3>2, <4>2
    <3>5. QED BY <3>3, <3>4
  <2>3. CASE BindFails(x)
    <3>1. pc'[x] = "send" /\ flow'[x] = "none"
      BY <2>3 DEF BindFails
    <3>2. ASSUME NEW m \in Streams, <<x, m>> \in loops' PROVE x \in dropped'
      <4>1. <<x, m>> \in LoopsOf(x)
        BY InLoops
      <4>2. QED BY <2>3, <3>2, <4>1 DEF BindFails
    <3>3. QED BY <3>1, <3>2
  <2>4. CASE Negotiate(x)
    BY <2>4 DEF Negotiate
  <2>5. QED BY <2>1, <2>2, <2>3, <2>4
<1>8. MediaTypes' BY <1>1, <1>6 DEF SessionInv, MediaTypes
<1>9. Placed'
  <2>1. \A c \in Calls : relay[c] # x /\ gateway[c] # x
    BY <1>4 DEF SessionInv, Placed, Place, Filed
  <2>2. ASSUME NEW c \in Calls, NEW s \in Setups
        PROVE  Place(c, s)'
    <3>1. CASE s = x
      BY <1>1, <2>1, <3>1 DEF Place
    <3>2. CASE s # x
      <4>1. flow'[s] = flow[s] /\ relay'[c] = relay[c] /\ gateway'[c] = gateway[c]
        BY <1>1, <1>2, <3>2
      <4>2. Place(c, s)
        BY DEF SessionInv, Placed
      <4>3. QED BY <4>1, <4>2 DEF Place
    <3>3. QED BY <3>1, <3>2
  <2>3. QED BY <2>2 DEF Placed
<1>10. FiledOnce'
  <2>1. ASSUME NEW s \in Setups
        PROVE  /\ Filed(s)' \/ s \in closing' => pc'[s] \notin SettingUp \cup {"idle"}
               /\ s \in closing' => ~Filed(s)'
    <3>1. CASE s = x
      BY <1>1, <1>4, <1>5, <3>1
    <3>2. CASE s # x
      BY <1>1, <1>2, <1>5, <3>2 DEF SessionInv, FiledOnce
    <3>3. QED BY <3>1, <3>2
  <2>2. QED BY <2>1 DEF FiledOnce
<1>11. Prepared'
  <2>1. \A s \in Setups : Wants[s] \subseteq Streams BY WantsStreams
  <2>2. QED BY <1>2, <1>7, <2>1 DEF SessionInv, Prepared
<1>12. FiledIsLive' BY <1>2, <1>4, <1>5 DEF SessionInv, FiledIsLive
<1>13. LoopsAccounted' BY <1>1, <1>2, <1>5, <1>7 DEF SessionInv, LoopsAccounted
<1>14. QED BY <1>8, <1>9, <1>10, <1>11, <1>12, <1>13 DEF SessionInv

(* Filing makes a complete session known and accounts for the one it is    *)
(* filed over.                                                             *)
LEMMA FileInv == ASSUME SessionInv, NEW x \in Setups, File(x) PROVE SessionInv'
<1> USE NoneAssumption, CallOfAssumption
<1> DEFINE c == CallOf[x]
<1>0. c \in Calls /\ x # None OBVIOUS
<1>1. /\ pc[x] = "file" /\ flow' = flow /\ loops' = loops /\ closing' = closing /\ aged' = aged
      /\ dropped' = dropped
      /\ pc' = [pc EXCEPT ![x] = IF flow[x] = "sip" THEN "peer" ELSE "send"]
  BY DEF File, Goto
<1>2. flow[x] # "none" /\ x \notin closing /\ ~Filed(x)
      /\ \A m \in Wants[x] : <<x, m>> \in loops
  BY <1>1 DEF SessionInv, Prepared, FiledOnce, SettingUp
<1>3. /\ pc' \in [Procs -> PC] /\ pc'[x] \notin SettingUp \cup {"idle"}
      /\ \A s \in Setups \ {x} : pc'[s] = pc[s]
  BY <1>1 DEF SessionInv, MediaTypes, Procs, PC, SettingUp
<1>4. /\ relay' \in [Calls -> Setups \cup {None}] /\ gateway' \in [Calls -> Setups \cup {None}]
      /\ Filed(x)'
      /\ \A s \in Setups \ {x} : Filed(s)' => Filed(s)
      /\ \A s \in Setups \ {x} : Filed(s) /\ ~Filed(s)' => s \in replaced'
      /\ replaced \subseteq replaced'
      /\ Placed'
  <2> USE DEF SessionInv, MediaTypes
  <2>1. CASE flow[x] = "relay"
    <3>1. /\ relay' = [relay EXCEPT ![c] = x] /\ gateway' = gateway
          /\ replaced' = replaced \cup ({relay[c]} \ {None})
      BY <2>1 DEF File
    <3>2. Placed'
      <4>1. ASSUME NEW d \in Calls, NEW s \in Setups
            PROVE  Place(d, s)'
        <5>1. Place(d, s)
          BY DEF SessionInv, Placed
        <5>2. flow'[s] = flow[s] /\ gateway'[d] = gateway[d]
          BY <1>1, <3>1
        <5>3. CASE d = c
          <6>1. relay'[d] = x
            BY <1>0, <3>1, <5>3
          <6>2. QED BY <5>1, <5>2, <5>3, <6>1, <2>1 DEF Place
        <5>4. CASE d # c
          <6>1. relay'[d] = relay[d]
            BY <1>0, <3>1, <5>4
          <6>2. QED BY <5>1, <5>2, <6>1 DEF Place
        <5>5. QED BY <5>3, <5>4
      <4>2. QED BY <4>1 DEF Placed
    <3>3. QED BY <1>0, <3>1, <3>2 DEF Filed
  <2>2. CASE flow[x] # "relay"
    <3>1. /\ gateway' = [gateway EXCEPT ![c] = x] /\ relay' = relay
          /\ replaced' = replaced \cup ({gateway[c]} \ {None})
      BY <2>2 DEF File
    <3>2. flow[x] \in {"browser", "sip"} BY <1>2, <2>2 DEF Flows
    <3>3. Placed'
      <4>1. ASSUME NEW d \in Calls, NEW s \in Setups
            PROVE  Place(d, s)'
        <5>1. Place(d, s)
          BY DEF SessionInv, Placed
        <5>2. flow'[s] = flow[s] /\ relay'[d] = relay[d]
          BY <1>1, <3>1
        <5>3. CASE d = c
          <6>1. gateway'[d] = x
            BY <1>0, <3>1, <5>3
          <6>2. QED BY <5>1, <5>2, <5>3, <6>1, <3>2 DEF Place
        <5>4. CASE d # c
          <6>1. gateway'[d] = gateway[d]
            BY <1>0, <3>1, <5>4
          <6>2. QED BY <5>1, <5>2, <6>1 DEF Place
        <5>5. QED BY <5>3, <5>4
      <4>2. QED BY <4>1 DEF Placed
    <3>4. QED BY <1>0, <3>1, <3>3 DEF Filed
  <2>3. QED BY <2>1, <2>2
<1>5. MediaTypes' BY <1>1, <1>3, <1>4 DEF SessionInv, MediaTypes
<1>6. FiledOnce' BY <1>1, <1>2, <1>3, <1>4 DEF SessionInv, FiledOnce
<1>7. Prepared' BY <1>1, <1>3 DEF SessionInv, Prepared, SettingUp
<1>8. FiledIsLive' BY <1>1, <1>2, <1>4 DEF SessionInv, FiledIsLive
<1>9. LoopsAccounted' BY <1>1, <1>3, <1>4 DEF SessionInv, LoopsAccounted
<1>10. QED BY <1>4, <1>5, <1>6, <1>7, <1>8, <1>9 DEF SessionInv

(* The invariant holds in every reachable state.                           *)
LEMMA SessionsInv == Spec => []SessionInv
<1>1. SessionInv /\ [Next]_vars => SessionInv'
  <2> SUFFICES ASSUME SessionInv, [Next]_vars PROVE SessionInv'
    OBVIOUS
  <2>1. CASE \E s \in Setups : Begin(s) \/ Bind(s) \/ BindFails(s) \/ Negotiate(s)
    BY <2>1, SetupInv
  <2>2. CASE \E s \in Setups : File(s)
    BY <2>2, FileInv
  <2>3. CASE \/ \E s \in Setups : SetPeer(s) \/ Send(s) \/ PhoneRtp(s) \/ Age(s)
             \/ \E r \in Removers : Forget(r)
             \/ \E a \in Answers : RecvAnswer(a) \/ AnswerStep(a)
    BY <2>3, ProcsAssumption, ReaderInv
  <2>4. CASE \E r \in Removers : RemoverStep(r)
    BY <2>4, ProcsAssumption, RemoverInv
  <2>5. CASE SweepRelay \/ SweepGateway \/ \E s \in Setups : CloseSwept(s)
    BY <2>5, SweepInv
  <2>6. CASE UNCHANGED vars
    BY <2>6, FrameInv DEF vars, SessionInv, MediaTypes
  <2>7. QED BY <2>1, <2>2, <2>3, <2>4, <2>5, <2>6 DEF Next, SetupStep
<1> HIDE DEF SessionInv
<1>2. QED BY <1>1, SessionInit, PTL DEF Spec

(* A session found in a map serves every stream of its offer, for any      *)
(* number of calls, set-ups, clean-ups, responses and sweeps.              *)
THEOREM FiledComplete == Spec => []FiledIsLive
<1>1. SessionInv => FiledIsLive BY DEF SessionInv
<1>2. QED BY <1>1, SessionsInv, PTL

(* A running receive task is of a session in set-up, filed or closing, or  *)
(* was lost to a second INVITE or a failed gateway set-up, in general.     *)
THEOREM NoOtherLeak == Spec => []LoopsAccounted
<1>1. SessionInv => LoopsAccounted BY DEF SessionInv
<1>2. QED BY <1>1, SessionsInv, PTL

-----------------------------------------------------------------------------
(* Parties are told of a bridge that is ready.  A set-up that is past filing *)
(* stays so, keeps its flow, and is never filed again.                       *)
Past(s) == pc[s] \notin SettingUp \cup {"idle"}

(* A phone's set-up that went past set_sip_peer knows the phone.             *)
PhoneKnown ==
    \A s \in Setups :
        /\ offer[s] = s => pc[s] = "done"
        /\ (s \notin refused /\ pc[s] \in {"send", "done"} /\ flow[s] = "sip" /\ Filed(s)) => s \in peer

(* What an answer took is past filing; while the call still has that session *)
(* the answer goes the way of its flow and leaves it connected.              *)
AnswerKnows(a) ==
    LET g == got[a]
        kept == got[a] # None /\ gateway[CallOf[a]] = got[a] IN
    /\ got[a] \in Setups \cup {None}
    /\ pc[a] \in {"idle", "lookup", "rewrite", "relay", "gateway"} => g = None
    /\ g # None => Past(g)
    /\ pc[a] = "apply" /\ kept => flow[g] = "sip"
    /\ pc[a] = "learn" /\ kept => flow[g] # "sip"
    /\ a \notin refused /\ pc[a] \in {"reply", "clear", "done"} /\ kept =>
           (flow[g] = "sip" => g \in applied) /\ (flow[g] = "browser" => g \in peer)

BridgeInv ==
    /\ got \in [Answers -> Setups \cup {None}] /\ offer \in [Setups -> Setups \cup {None}]
    /\ PhoneKnown
    /\ \A a \in Answers : AnswerKnows(a)

(* Whose step it is: a run moves, and notes what it sent or took, by its own *)
(* steps alone.                                                              *)
LEMMA OwnSteps ==
    ASSUME SessionInv, BridgeInv, [Next]_vars
    PROVE  /\ \A s \in Setups : \/ pc'[s] = pc[s] /\ offer'[s] = offer[s] /\ flow'[s] = flow[s]
                                \/ Begin(s) \/ SetupStep(s)
           /\ \A a \in Answers : \/ pc'[a] = pc[a] /\ got'[a] = got[a]
                                 \/ RecvAnswer(a) \/ AnswerStep(a)
                                 \/ a \in Removers /\ (Forget(a) \/ RemoverStep(a))
<1>1. /\ pc \in [Procs -> PC] /\ flow \in [Setups -> Flows]
      /\ got \in [Answers -> Setups \cup {None}] /\ offer \in [Setups -> Setups \cup {None}]
      /\ Setups \subseteq Procs /\ Answers \subseteq Procs
  BY DEF SessionInv, MediaTypes, BridgeInv, Procs
<1>2. ASSUME NEW x \in Setups, Begin(x) \/ SetupStep(x)
      PROVE  /\ \A s \in Setups \ {x} : pc'[s] = pc[s] /\ offer'[s] = offer[s] /\ flow'[s] = flow[s]
             /\ \A a \in Answers : pc'[a] = pc[a] /\ got'[a] = got[a]
  <2>1. \/ pc' = pc
        \/ \E l : pc' = [pc EXCEPT ![x] = l]
    BY <1>2 DEF Begin, SetupStep, Bind, BindFails, Negotiate, File, SetPeer, Send, Goto
  <2>2. got' = got
    BY <1>2 DEF Begin, SetupStep, Bind, BindFails, Negotiate, File, SetPeer, Send
  <2>3. offer' = offer \/ \E v : offer' = [offer EXCEPT ![x] = v]
    BY <1>2 DEF Begin, SetupStep, Bind, BindFails, Negotiate, File, SetPeer, Send
  <2>4. flow' = flow \/ \E f : flow' = [flow EXCEPT ![x] = f]
    BY <1>2 DEF Begin, SetupStep, Bind, BindFails, Negotiate, File, SetPeer, Send
  <2>5. x \notin Answers
    BY ProcsAssumption
  <2> QED BY <1>1, <2>1, <2>2, <2>3, <2>4, <2>5
<1>3. ASSUME NEW r \in Removers, Forget(r) \/ RemoverStep(r)
      PROVE  /\ \A s \in Setups : pc'[s] = pc[s] /\ offer'[s] = offer[s] /\ flow'[s] = flow[s]
             /\ \A a \in Answers \ {r} : pc'[a] = pc[a] /\ got'[a] = got[a]
  <2>1. /\ \E l : pc' = [pc EXCEPT ![r] = l]
        /\ got' = got /\ offer' = offer /\ flow' = flow
    BY <1>3 DEF Forget, RemoverStep, RemoveRelay, RemoveGateway, Goto
  <2>2. r \notin Setups
    BY ProcsAssumption
  <2> QED BY <1>1, <2>1, <2>2
<1>4. ASSUME NEW b \in Answers, RecvAnswer(b) \/ AnswerStep(b)
      PROVE  /\ \A s \in Setups : pc'[s] = pc[s] /\ offer'[s] = offer[s] /\ flow'[s] = flow[s]
             /\ \A a \in Answers \ {b} : pc'[a] = pc[a] /\ got'[a] = got[a]
  <2>1. /\ \E l : pc' = [pc EXCEPT ![b] = l]
        /\ got' = got \/ \E v : got' = [got EXCEPT ![b] = v]
        /\ offer' = offer /\ flow' = flow
    BY <1>4 DEF RecvAnswer, AnswerStep, Lookup, AskFlow, Apply, Learn, Rewrite, Reply, ClearPending, Goto
  <2>2. b \notin Setups
    BY ProcsAssumption
  <2> QED BY <1>1, <2>1, <2>2
<1>5. CASE \/ \E s \in Setups : PhoneRtp(s) \/ Age(s) \/ CloseSwept(s)
           \/ SweepRelay \/ SweepGateway \/ UNCHANGED vars
  BY <1>5 DEF PhoneRtp, Age, CloseSwept, SweepRelay, SweepGateway, vars
<1> QED BY <1>2, <1>3, <1>4, <1>5 DEF Next

(* What only ever grows, and what a set-up past filing keeps.                *)
LEMMA Onward ==
    ASSUME SessionInv, BridgeInv, [Next]_vars
    PROVE  /\ peer \subseteq peer' /\ applied \subseteq applied' /\ refused \subseteq refused'
           /\ \A s \in Setups : Past(s) =>
                  /\ Past(s)' /\ flow'[s] = flow[s]
                  /\ \A c \in Calls : gateway'[c] = s => gateway[c] = s
                  /\ Filed(s)' => Filed(s)
<1>1. peer \subseteq peer' /\ applied \subseteq applied' /\ refused \subseteq refused'
  BY DEF Next, Begin, SetupStep, Bind, BindFails, Negotiate, File, SetPeer, Send, PhoneRtp, Age,
     CloseSwept, Forget, RemoverStep, RemoveRelay, RemoveGateway, RecvAnswer, AnswerStep, Lookup,
     AskFlow, Apply, Learn, Rewrite, Reply, ClearPending, SweepRelay, SweepGateway, set_sip_peer,
     bridgeVars, vars
<1>2. ASSUME NEW s \in Setups, Past(s) PROVE Past(s)' /\ flow'[s] = flow[s]
  <2>1. CASE Begin(s) \/ SetupStep(s)
    <3>1. SetPeer(s) \/ Send(s)
      BY <1>2, <2>1 DEF Past, SettingUp, Begin, SetupStep, Bind, BindFails, Negotiate, File
    <3>2. pc'[s] \in {"send", "done"} /\ flow' = flow
      BY <3>1 DEF SetPeer, Send, Goto, SessionInv, MediaTypes, Procs
    <3> QED BY <3>2 DEF Past, SettingUp
  <2>2. CASE pc'[s] = pc[s] /\ flow'[s] = flow[s]
    BY <1>2, <2>2 DEF Past
  <2> QED BY <2>1, <2>2, OwnSteps
<1>3. ASSUME NEW s \in Setups, Past(s), NEW c \in Calls
      PROVE  (gateway'[c] = s => gateway[c] = s) /\ (relay'[c] = s => relay[c] = s)
  <2>1. s # None /\ relay \in [Calls -> Setups \cup {None}] /\ gateway \in [Calls -> Setups \cup {None}]
    BY NoneAssumption DEF SessionInv, MediaTypes
  <2>2. ASSUME NEW x \in Setups, File(x)
        PROVE  (gateway'[c] = s => gateway[c] = s) /\ (relay'[c] = s => relay[c] = s)
    <3>1. x # s
      BY <1>3, <2>2 DEF File, Past, SettingUp
    <3> QED BY <2>1, <2>2, <3>1 DEF File
  <2>3. ASSUME NEW r \in Removers, RemoverStep(r)
        PROVE  (gateway'[c] = s => gateway[c] = s) /\ (relay'[c] = s => relay[c] = s)
    <3>1. CASE RemoveRelay(r)
      BY <2>1, <3>1 DEF RemoveRelay
    <3>2. CASE RemoveGateway(r)
      BY <2>1, <3>2 DEF RemoveGateway
    <3> QED BY <2>3, <3>1, <3>2 DEF RemoverStep
  <2>4. CASE SweepRelay \/ SweepGateway
    <3>1. CASE SweepRelay
      <4>1. relay' = [d \in Calls |-> IF relay[d] \in aged THEN None ELSE relay[d]] /\ gateway' = gateway
        BY <3>1 DEF SweepRelay
      <4> QED BY <2>1, <4>1
    <3>2. CASE SweepGateway
      <4>1. gateway' = [d \in Calls |-> IF gateway[d] \in aged THEN None ELSE gateway[d]] /\ relay' = relay
        BY <3>2 DEF SweepGateway
      <4> QED BY <2>1, <4>1
    <3> QED BY <2>4, <3>1, <3>2
  <2>5. CASE relay' = relay /\ gateway' = gateway
    BY <2>5
  <2>6. \/ \E x \in Setups : File(x)
        \/ \E r \in Removers : RemoverStep(r)
        \/ SweepRelay \/ SweepGateway \/ (relay' = relay /\ gateway' = gateway)
    BY DEF Next, Begin, SetupStep, Bind, BindFails, Negotiate, SetPeer, Send, PhoneRtp, Age,
       CloseSwept, Forget, RecvAnswer, AnswerStep, Lookup, AskFlow, Apply, Learn, Rewrite, Reply,
       ClearPending, mapVars, vars
  <2> QED BY <2>2, <2>3, <2>4, <2>5, <2>6
<1>4. ASSUME NEW s \in Setups, Past(s), Filed(s)' PROVE Filed(s)
  <2>1. CallOf[s] \in Calls
    BY CallOfAssumption
  <2> QED BY <1>3, <1>4, <2>1 DEF Filed
<1> QED BY <1>1, <1>2, <1>3, <1>4

(* The set-ups of phones.                                                    *)
LEMMA PhoneStep ==
    ASSUME SessionInv, BridgeInv, [Next]_vars
    PROVE  PhoneKnown'
<1> SUFFICES ASSUME NEW s \in Setups
             PROVE  /\ offer'[s] = s => pc'[s] = "done"
                    /\ (/\ s \notin refused' /\ pc'[s] \in {"send", "done"}
                        /\ flow'[s] = "sip" /\ Filed(s)') => s \in peer'
  BY DEF PhoneKnown
<1>1. /\ pc \in [Procs -> PC] /\ flow \in [Setups -> Flows] /\ s \in Procs /\ s # None
      /\ offer \in [Setups -> Setups \cup {None}]
      /\ gateway \in [Calls -> Setups \cup {None}] /\ CallOf[s] \in Calls
  BY NoneAssumption, CallOfAssumption DEF SessionInv, MediaTypes, BridgeInv, Procs
<1>2. /\ offer[s] = s => pc[s] = "done"
      /\ (s \notin refused /\ pc[s] \in {"send", "done"} /\ flow[s] = "sip" /\ Filed(s)) => s \in peer
  BY DEF BridgeInv, PhoneKnown
<1>3. pc[s] \in {"send", "done"} => Past(s)
  BY DEF Past, SettingUp
<1>4. CASE pc'[s] = pc[s] /\ offer'[s] = offer[s] /\ flow'[s] = flow[s]
  BY <1>2, <1>3, <1>4, Onward
<1>5. CASE Begin(s) \/ Bind(s) \/ BindFails(s) \/ Negotiate(s) \/ File(s)
  <2>1. pc[s] \in {"idle", "bind", "negotiate", "file"} /\ offer' = offer
    BY <1>5 DEF Begin, Bind, BindFails, Negotiate, File
  <2>2. offer'[s] # s
    BY <1>2, <2>1
  <2>3. ~ (pc'[s] \in {"send", "done"} /\ flow'[s] = "sip")
    BY <1>1, <1>5 DEF Begin, Bind, BindFails, Negotiate, File, Goto, Procs
  <2> QED BY <2>2, <2>3
<1>6. CASE SetPeer(s)
  <2>1. pc[s] = "peer" /\ pc'[s] = "send" /\ offer' = offer /\ flow' = flow
    BY <1>1, <1>6 DEF SetPeer, Goto
  <2>2. offer'[s] # s
    BY <1>2, <2>1
  <2>3. ASSUME s \notin refused', flow'[s] = "sip", Filed(s)' PROVE s \in peer'
    <3>1. flow[s] = "sip" /\ Filed(s)
      BY <1>6, <2>1, <2>3 DEF SetPeer, mapVars, Filed
    <3>2. gateway[CallOf[s]] = s
      <4>1. relay[CallOf[s]] # s
        BY <1>1, <3>1 DEF SessionInv, Placed, Place
      <4> QED BY <3>1, <4>1 DEF Filed
    <3>3. s \in peer' \/ s \in refused'
      BY <1>1, <1>6, <3>2 DEF SetPeer, set_sip_peer
    <3> QED BY <2>3, <3>3
  <2> QED BY <2>2, <2>3
<1>7. CASE Send(s)
  <2>1. pc[s] = "send" /\ pc'[s] = "done" /\ flow' = flow /\ peer' = peer /\ refused' = refused
        /\ (Filed(s)' <=> Filed(s))
    BY <1>1, <1>7 DEF Send, Goto, bridgeVars, mapVars, Filed
  <2> QED BY <1>2, <2>1
<1> QED BY <1>4, <1>5, <1>6, <1>7, OwnSteps DEF SetupStep

(* The answers: one that does not move keeps what it knows.                  *)
LEMMA AnswerFrame ==
    ASSUME SessionInv, BridgeInv, [Next]_vars, NEW a \in Answers, got'[a] = got[a],
           \/ pc'[a] = pc[a]
           \/ pc[a] \in {"idle", "lookup", "rewrite", "relay", "gateway"}
           \/ pc[a] \in {"reply", "clear", "done"} /\ pc'[a] \in {"reply", "clear", "done"}
    PROVE  AnswerKnows(a)'
<1>1. AnswerKnows(a) /\ CallOf[a] \in Calls
  BY CallOfAssumption DEF BridgeInv
<1>2. CASE got[a] = None
  BY <1>2 DEF AnswerKnows
<1>3. CASE got[a] # None
  <2> DEFINE g == got[a]
  <2>1. g \in Setups /\ Past(g)
    BY <1>1, <1>3 DEF AnswerKnows
  <2>2. Past(g)' /\ flow'[g] = flow[g] /\ (gateway'[CallOf[a]] = g => gateway[CallOf[a]] = g)
    BY <1>1, <2>1, Onward
  <2>3. \/ pc'[a] = pc[a]
        \/ pc[a] \in {"reply", "clear", "done"} /\ pc'[a] \in {"reply", "clear", "done"}
    BY <1>1, <1>3 DEF AnswerKnows
  <2>4. pc'[a] \notin {"idle", "lookup", "rewrite", "relay", "gateway"}
    BY <1>1, <1>3, <2>3 DEF AnswerKnows
  <2>5. peer \subseteq peer' /\ applied \subseteq applied' /\ refused \subseteq refused'
    BY Onward
  <2> QED BY <1>1, <1>3, <2>1, <2>2, <2>3, <2>4, <2>5 DEF AnswerKnows
<1> QED BY <1>2, <1>3

(* One that moves looks its session up anew at every step, and finds the one *)
(* it took or leaves what it took unfiled.                                   *)
LEMMA AnswerMoves ==
    ASSUME SessionInv, BridgeInv, [Next]_vars, NEW a \in Answers,
           Lookup(a) \/ AskFlow(a) \/ Apply(a) \/ Learn(a) \/ Rewrite(a)
    PROVE  AnswerKnows(a)'
<1> DEFINE c == CallOf[a]
<1>1. /\ AnswerKnows(a) /\ c \in Calls /\ a \in Procs /\ pc \in [Procs -> PC]
      /\ got \in [Answers -> Setups \cup {None}]
      /\ gateway \in [Calls -> Setups \cup {None}] /\ relay \in [Calls -> Setups \cup {None}]
  BY CallOfAssumption DEF BridgeInv, SessionInv, MediaTypes, Procs
<1>2. gateway' = gateway /\ relay' = relay /\ flow' = flow
  BY DEF Lookup, AskFlow, Apply, Learn, Rewrite, mapVars
<1>3. ASSUME NEW g \in Setups, gateway[c] = g \/ relay[c] = g
      PROVE  Past(g)' /\ (relay[c] = g => flow[g] = "relay")
  <2>1. CallOf[g] = c /\ (relay[c] = g => flow[g] = "relay")
    BY <1>1, <1>3 DEF SessionInv, Placed, Place
  <2>2. Filed(g)
    BY <1>3, <2>1 DEF Filed
  <2>3. Past(g)
    BY <2>2 DEF SessionInv, FiledOnce, Past
  <2> QED BY <2>1, <2>3, Onward
<1>4. CASE Lookup(a)
  <2>1. got'[a] = gateway[c] /\ pc'[a] = IF gateway[c] = None THEN "rewrite" ELSE "flow"
    BY <1>1, <1>4 DEF Lookup, Goto
  <2> QED BY <1>1, <1>3, <2>1 DEF AnswerKnows
<1>5. CASE Rewrite(a)
  <2>1. got'[a] = relay[c] /\ pc'[a] = "reply"
    BY <1>1, <1>5 DEF Rewrite, Goto
  <2>2. ASSUME NEW g \in Setups, relay[c] = g PROVE flow[g] = "relay" /\ Past(g)'
    BY <1>3, <2>2
  <2> QED BY <1>1, <1>2, <2>1, <2>2 DEF AnswerKnows
<1>6. ASSUME AskFlow(a) \/ Apply(a) \/ Learn(a)
      PROVE  got' = got /\ (got[a] # None => got[a] \in Setups /\ Past(got[a])')
  <2>1. got' = got
    BY <1>6 DEF AskFlow, Apply, Learn
  <2>2. got[a] # None => got[a] \in Setups /\ Past(got[a])
    BY <1>1 DEF AnswerKnows
  <2> QED BY <2>1, <2>2, Onward
<1>7. CASE AskFlow(a)
  <2>1. pc'[a] = IF gateway[c] # None /\ flow[gateway[c]] = "sip" THEN "apply" ELSE "learn"
    BY <1>1, <1>7 DEF AskFlow, Goto
  <2> QED BY <1>1, <1>2, <1>6, <1>7, <2>1 DEF AnswerKnows
<1>8. CASE Apply(a)
  <2>1. /\ pc[a] = "apply" /\ pc'[a] = "reply"
        /\ (gateway[c] # None /\ flow[gateway[c]] = "sip") => gateway[c] \in applied' \/ a \in refused'
    BY <1>1, <1>8 DEF Apply, Goto
  <2> QED BY <1>1, <1>2, <1>6, <1>8, <2>1 DEF AnswerKnows
<1>9. CASE Learn(a)
  <2>1. /\ pc[a] = "learn" /\ pc'[a] = "reply"
        /\ gateway[c] # None => gateway[c] \in peer' \/ a \in refused'
    BY <1>1, <1>9 DEF Learn, Goto, set_sip_peer
  <2> QED BY <1>1, <1>2, <1>6, <1>9, <2>1 DEF AnswerKnows
<1> QED BY <1>4, <1>5, <1>7, <1>8, <1>9

(* Every step keeps the invariant.                                           *)
LEMMA BridgeStep ==
    ASSUME SessionInv, BridgeInv, [Next]_vars
    PROVE  BridgeInv'
<1>1. ASSUME NEW a \in Answers PROVE AnswerKnows(a)'
  <2>1. CASE pc'[a] = pc[a] /\ got'[a] = got[a]
    BY <2>1, AnswerFrame
  <2>2. CASE \/ RecvAnswer(a) \/ Reply(a) \/ ClearPending(a)
             \/ a \in Removers /\ (Forget(a) \/ RemoverStep(a))
    <3>1. got' = got
      BY <2>2 DEF RecvAnswer, Reply, ClearPending, Forget, RemoverStep, RemoveRelay, RemoveGateway
    <3>2. \/ pc[a] \in {"idle", "relay", "gateway"}
          \/ pc[a] \in {"reply", "clear"} /\ pc'[a] \in {"clear", "done"}
      BY <2>2 DEF RecvAnswer, Reply, ClearPending, Forget, RemoverStep, RemoveRelay, RemoveGateway,
         Goto, SessionInv, MediaTypes, Procs
    <3> QED BY <3>1, <3>2, AnswerFrame
  <2> QED BY <2>1, <2>2, OwnSteps, AnswerMoves DEF AnswerStep
<1>2. /\ got' \in [Answers -> Setups \cup {None}] /\ offer' \in [Setups -> Setups \cup {None}]
  <2>1. /\ gateway \in [Calls -> Setups \cup {None}] /\ relay \in [Calls -> Setups \cup {None}]
        /\ got \in [Answers -> Setups \cup {None}] /\ offer \in [Setups -> Setups \cup {None}]
        /\ \A a \in Answers : CallOf[a] \in Calls
    BY CallOfAssumption DEF SessionInv, MediaTypes, BridgeInv
  <2>2. /\ got' = got \/ \E a \in Answers : \E v \in Setups \cup {None} : got' = [got EXCEPT ![a] = v]
        /\ offer' = offer \/ \E s \in Setups : \E v \in Setups \cup {None} : offer' = [offer EXCEPT ![s] = v]
    BY <2>1 DEF Next, Begin, SetupStep, Bind, BindFails, Negotiate, File, SetPeer, Send, PhoneRtp,
       Age, CloseSwept, Forget, RemoverStep, RemoveRelay, RemoveGateway, RecvAnswer, AnswerStep,
       Lookup, AskFlow, Apply, Learn, Rewrite, Reply, ClearPending, SweepRelay, SweepGateway, vars
  <2> QED BY <2>1, <2>2
<1> QED BY <1>1, <1>2, PhoneStep DEF BridgeInv

(* However INVITEs, responses, clean-ups and sweeps of the same calls        *)
(* interleave: a party is told of a gateway session that is still filed only *)
(* once its far side is connected, or its SDP could not be used              *)
(* (relay_response, set_sip_peer, apply_callee_answer).                      *)
THEOREM BridgesReady == Spec => []BridgeReady
<1>1. Init => BridgeInv
  BY NoneAssumption, ZenonT(120) DEF Init, BridgeInv, PhoneKnown, AnswerKnows, Procs
<1>2. SessionInv /\ BridgeInv /\ [Next]_vars => BridgeInv'
  BY BridgeStep
<1>3. BridgeInv => BridgeReady
  <2> SUFFICES ASSUME BridgeInv PROVE BridgeReady
    OBVIOUS
  <2>1. \A s \in Setups \ refused : offer[s] = s /\ flow[s] = "sip" /\ Filed(s) => s \in peer
    BY DEF BridgeInv, PhoneKnown
  <2>2. ASSUME NEW a \in Answers \ refused, pc[a] \in {"clear", "done"}, got[a] # None
        PROVE  /\ gateway[CallOf[a]] = got[a] /\ flow[got[a]] = "sip" => got[a] \in applied
               /\ gateway[CallOf[a]] = got[a] /\ flow[got[a]] = "browser" => got[a] \in peer
    BY <2>2 DEF BridgeInv, AnswerKnows
  <2> QED BY <2>1, <2>2 DEF BridgeReady
<1> HIDE DEF SessionInv, BridgeInv
<1> QED BY <1>1, <1>2, <1>3, SessionsInv, PTL DEF Spec
=============================================================================
