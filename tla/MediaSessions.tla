---------------------------- MODULE MediaSessions ----------------------------
(***************************************************************************)
(* The media sessions of proxied calls: MediaRelay (sip/media.rs) and      *)
(* WebRtcGateway (sip/webrtc_gateway.rs), as handle_invite (sip/proxy.rs)  *)
(* sets them up, relay_response (sip/handler.rs) reads them and the        *)
(* clean-ups and the sweeps of sip/server.rs remove them.                  *)
(*                                                                         *)
(* A set-up is one run of handle_invite, a remover one run of any handler  *)
(* that ends a call, an answer one run of relay_response for a 200 OK with *)
(* SDP.  Each runs once and is of one call; a session is named by its      *)
(* set-up.  A stream is a socket, or a pair of them, with the task that    *)
(* reads it; aborting the task closes the socket.                          *)
(***************************************************************************)
EXTENDS Naturals

CONSTANTS
    Calls,      \* Call-IDs
    Setups,     \* runs of handle_invite, and the sessions they make
    Removers,   \* runs of handlers that end a call
    Answers,    \* runs of relay_response
    CallOf,     \* the Call-ID of each
    Wants,      \* the streams the offer of a set-up asks for, always with audio
    None        \* no session; as an offer or answer: the SDP goes through unchanged

ASSUME CallOfAssumption == CallOf \in [Setups \cup Removers \cup Answers -> Calls]
ASSUME ProcsAssumption == Setups \cap (Removers \cup Answers) = {}
ASSUME WantsAssumption == Wants \in [Setups -> {{"audio"}, {"audio", "video"}}]
ASSUME NoneAssumption == None \notin Setups

VARIABLES
    pending,   \* pending_dialogs
    relay,     \* MediaRelay.sessions
    gateway,   \* WebRtcGateway.sessions
    flow,      \* how a set-up carries media
    loops,     \* <<session, stream>>: receive tasks that run
    peer,      \* gateway sessions that know the phone's RTP address
    applied,   \* gateway sessions that were given the browser's answer
    refused,   \* history: runs that could not use the SDP of the far side
    aged,      \* sessions older than media_session_max_age_secs
    closing,   \* gateway sessions a sweep has taken out and not yet closed
    pc,        \* where each set-up, remover and answer is
    offer,     \* the session whose SDP a set-up sent to the callee
    got,       \* the session whose SDP an answer took for the caller
    replaced,  \* history: sessions another one of the call was filed over
    dropped    \* history: gateway sessions whose set-up failed half way

mapVars == <<relay, gateway>>
bridgeVars == <<peer, applied, refused>>
historyVars == <<replaced, dropped>>
vars == <<pending, relay, gateway, flow, loops, peer, applied, refused, aged, closing, pc,
          offer, got, replaced, dropped>>

Streams == {"audio", "video"}
Flows == {"none", "relay", "browser", "sip"}
Procs == Setups \cup Removers \cup Answers
SettingUp == {"bind", "negotiate", "file"}
PC == SettingUp \cup {"idle", "peer", "send", "relay", "gateway", "lookup", "flow", "apply",
                      "learn", "rewrite", "reply", "clear", "done"}

Goto(p, l) == pc' = [pc EXCEPT ![p] = l]
LoopsOf(s) == {s} \X Streams
Filed(s) == relay[CallOf[s]] = s \/ gateway[CallOf[s]] = s

-----------------------------------------------------------------------------
(* handle_invite                                                           *)

(* The caller's address is stored; the offer decides about the media.      *)
Begin(s) ==
    /\ pc[s] = "idle"
    /\ pending' = pending \cup {CallOf[s]}
    /\ \E f \in Flows :
           /\ flow' = [flow EXCEPT ![s] = f]
           /\ Goto(s, IF f = "none" THEN "send" ELSE "bind")
    /\ UNCHANGED <<mapVars, loops, bridgeVars, aged, closing, offer, got, historyVars>>

(* allocate_stream or build_media_channel for the next stream              *)
Bind(s) ==
    /\ pc[s] = "bind"
    /\ \E m \in Wants[s] :
           /\ <<s, m>> \notin loops
           /\ m = "video" => <<s, "audio">> \in loops
           /\ loops' = loops \cup {<<s, m>>}
    /\ IF \A m \in Wants[s] : <<s, m>> \in loops'
       THEN Goto(s, IF flow[s] = "relay" THEN "file" ELSE "negotiate")
       ELSE UNCHANGED pc
    /\ UNCHANGED <<pending, mapVars, flow, bridgeVars, aged, closing, offer, got,
                   historyVars>>

(* Faulty variant: the streams bound so far are kept                       *)
BindFailsKeeping(s) ==
    /\ pc[s] = "bind"
    /\ Goto(s, "send")
    /\ flow' = [flow EXCEPT ![s] = "none"]
    /\ UNCHANGED <<pending, mapVars, loops, bridgeVars, aged, closing, offer, got,
                   historyVars>>

(* No port is left.  The relay aborts the streams it has; the gateway only *)
(* drops their handles, which detaches the tasks.  The INVITE goes out     *)
(* with its own SDP.                                                       *)
BindFails(s) ==
    /\ pc[s] = "bind"
    /\ Goto(s, "send")
    /\ flow' = [flow EXCEPT ![s] = "none"]
    /\ IF flow[s] = "relay"
       THEN loops' = loops \ LoopsOf(s) /\ UNCHANGED dropped
       ELSE dropped' = dropped \cup {s} /\ UNCHANGED loops
    /\ UNCHANGED <<pending, mapVars, bridgeVars, aged, closing, offer, got, replaced>>

(* Offer and answer are made and candidates gathered, or that fails        *)
Negotiate(s) ==
    /\ pc[s] = "negotiate"
    /\ \/ Goto(s, "file") /\ UNCHANGED <<flow, dropped>>
       \/ /\ Goto(s, "send")
          /\ flow' = [flow EXCEPT ![s] = "none"]
          /\ dropped' = dropped \cup {s}
    /\ UNCHANGED <<pending, mapVars, loops, bridgeVars, aged, closing, offer, got,
                   replaced>>

(* sessions.insert, also over a session of the same call                   *)
File(s) ==
    LET c == CallOf[s] IN
    /\ pc[s] = "file"
    /\ IF flow[s] = "relay"
       THEN /\ relay' = [relay EXCEPT ![c] = s]
            /\ replaced' = replaced \cup ({relay[c]} \ {None})
            /\ UNCHANGED gateway
       ELSE /\ gateway' = [gateway EXCEPT ![c] = s]
            /\ replaced' = replaced \cup ({gateway[c]} \ {None})
            /\ UNCHANGED relay
    /\ Goto(s, IF flow[s] = "sip" THEN "peer" ELSE "send")
    /\ UNCHANGED <<pending, flow, loops, bridgeVars, aged, closing, offer, got, dropped>>

(* set_sip_peer with the RTP address in the SDP of run p, if it has one,   *)
(* for whatever session the call has by now.  Video is treated alike and   *)
(* left out.                                                               *)
set_sip_peer(p) ==
    LET g == gateway[CallOf[p]] IN
    IF g = None
    THEN UNCHANGED <<peer, refused>>
    ELSE \/ peer' = peer \cup {g} /\ UNCHANGED refused
         \/ refused' = refused \cup {p} /\ UNCHANGED peer

(* A bridge for a phone that calls learns the phone's address              *)
SetPeer(s) ==
    /\ pc[s] = "peer"
    /\ set_sip_peer(s)
    /\ Goto(s, "send")
    /\ UNCHANGED <<pending, mapVars, flow, loops, applied, aged, closing, offer, got,
                   historyVars>>

(* The INVITE goes out with the SDP of the session, if there is one        *)
Send(s) ==
    /\ pc[s] = "send"
    /\ offer' = [offer EXCEPT ![s] = IF flow[s] = "none" THEN None ELSE s]
    /\ Goto(s, "done")
    /\ UNCHANGED <<pending, mapVars, flow, loops, bridgeVars, aged, closing, got,
                   historyVars>>

-----------------------------------------------------------------------------
(* The end of a call: BYE, CANCEL, a final error, busy, the fired timer    *)
Forget(r) ==
    /\ pc[r] = "idle"
    /\ \E s \in Setups : CallOf[s] = CallOf[r] /\ pc[s] # "idle"
    /\ pending' = pending \ {CallOf[r]}
    /\ Goto(r, "relay")
    /\ UNCHANGED <<mapVars, flow, loops, bridgeVars, aged, closing, offer, got,
                   historyVars>>

(* MediaRelay::remove_session                                              *)
RemoveRelay(r) ==
    LET c == CallOf[r] IN
    /\ pc[r] = "relay"
    /\ relay' = [relay EXCEPT ![c] = None]
    /\ loops' = loops \ LoopsOf(relay[c])
    /\ Goto(r, "gateway")
    /\ UNCHANGED <<pending, gateway, flow, bridgeVars, aged, closing, offer, got,
                   historyVars>>

(* WebRtcGateway::remove_session                                           *)
RemoveGateway(r) ==
    LET c == CallOf[r] IN
    /\ pc[r] = "gateway"
    /\ gateway' = [gateway EXCEPT ![c] = None]
    /\ loops' = loops \ LoopsOf(gateway[c])
    /\ Goto(r, "done")
    /\ UNCHANGED <<pending, relay, flow, bridgeVars, aged, closing, offer, got,
                   historyVars>>

-----------------------------------------------------------------------------
(* relay_response for a 200 OK with SDP, which a callee may send once it   *)
(* has an offer; without a pending dialog it is dropped                    *)
RecvAnswer(a) ==
    /\ pc[a] = "idle"
    /\ \E s \in Setups : CallOf[s] = CallOf[a] /\ pc[s] = "done"
    /\ Goto(a, IF CallOf[a] \in pending THEN "lookup" ELSE "done")
    /\ UNCHANGED <<pending, mapVars, flow, loops, bridgeVars, aged, closing, offer, got,
                   historyVars>>

(* Faulty variant: the answer is sent before the far side is connected     *)
LookupOnly(a) ==
    /\ pc[a] = "lookup"
    /\ got' = [got EXCEPT ![a] = gateway[CallOf[a]]]
    /\ Goto(a, IF gateway[CallOf[a]] = None THEN "rewrite" ELSE "reply")
    /\ UNCHANGED <<pending, mapVars, flow, loops, bridgeVars, aged, closing, offer,
                   historyVars>>

(* get_answer_sdp                                                          *)
Lookup(a) ==
    /\ pc[a] = "lookup"
    /\ got' = [got EXCEPT ![a] = gateway[CallOf[a]]]
    /\ Goto(a, IF gateway[CallOf[a]] = None THEN "rewrite" ELSE "flow")
    /\ UNCHANGED <<pending, mapVars, flow, loops, bridgeVars, aged, closing, offer,
                   historyVars>>

(* is_sip_caller_session, of the session the call has by now               *)
AskFlow(a) ==
    LET g == gateway[CallOf[a]] IN
    /\ pc[a] = "flow"
    /\ Goto(a, IF g # None /\ flow[g] = "sip" THEN "apply" ELSE "learn")
    /\ UNCHANGED <<pending, mapVars, flow, loops, bridgeVars, aged, closing, offer, got,
                   historyVars>>

(* apply_callee_answer; when the answer is not accepted the caller is      *)
(* still told                                                              *)
Apply(a) ==
    LET g == gateway[CallOf[a]] IN
    /\ pc[a] = "apply"
    /\ IF g # None /\ flow[g] = "sip"
       THEN \/ applied' = applied \cup {g} /\ UNCHANGED refused
            \/ refused' = refused \cup {a} /\ UNCHANGED applied
       ELSE UNCHANGED <<applied, refused>>
    /\ Goto(a, "reply")
    /\ UNCHANGED <<pending, mapVars, flow, loops, peer, aged, closing, offer, got,
                   historyVars>>

(* A bridge for a browser that calls learns the phone's address            *)
Learn(a) ==
    /\ pc[a] = "learn"
    /\ set_sip_peer(a)
    /\ Goto(a, "reply")
    /\ UNCHANGED <<pending, mapVars, flow, loops, applied, aged, closing, offer, got,
                   historyVars>>

(* rewrite_200ok_sdp; without a session the SDP stays as it is             *)
Rewrite(a) ==
    /\ pc[a] = "rewrite"
    /\ got' = [got EXCEPT ![a] = relay[CallOf[a]]]
    /\ Goto(a, "reply")
    /\ UNCHANGED <<pending, mapVars, flow, loops, bridgeVars, aged, closing, offer,
                   historyVars>>

(* The response goes to the caller                                         *)
Reply(a) ==
    /\ pc[a] = "reply"
    /\ Goto(a, "clear")
    /\ UNCHANGED <<pending, mapVars, flow, loops, bridgeVars, aged, closing, offer, got,
                   historyVars>>

ClearPending(a) ==
    /\ pc[a] = "clear"
    /\ pending' = pending \ {CallOf[a]}
    /\ Goto(a, "done")
    /\ UNCHANGED <<mapVars, flow, loops, bridgeVars, aged, closing, offer, got,
                   historyVars>>

-----------------------------------------------------------------------------
(* A packet of the phone tells a gateway session its address               *)
PhoneRtp(s) ==
    /\ <<s, "audio">> \in loops
    /\ flow[s] \in {"browser", "sip"}
    /\ peer' = peer \cup {s}
    /\ UNCHANGED <<pending, mapVars, flow, loops, applied, refused, aged, closing, pc, offer,
                   got, historyVars>>

(* Time passes                                                             *)
Age(s) ==
    /\ Filed(s)
    /\ aged' = aged \cup {s}
    /\ UNCHANGED <<pending, mapVars, flow, loops, bridgeVars, closing, pc, offer, got,
                   historyVars>>

(* MediaRelay::cleanup_stale_sessions                                      *)
SweepRelay ==
    /\ \E c \in Calls : relay[c] \in aged
    /\ relay' = [c \in Calls |-> IF relay[c] \in aged THEN None ELSE relay[c]]
    /\ loops' = loops \ UNION {LoopsOf(relay[c]) : c \in {d \in Calls : relay[d] \in aged}}
    /\ UNCHANGED <<pending, gateway, flow, bridgeVars, aged, closing, pc, offer, got,
                   historyVars>>

(* Faulty variant: only the map is cleaned                                 *)
SweepGatewayForgets ==
    /\ \E c \in Calls : gateway[c] \in aged
    /\ gateway' = [c \in Calls |-> IF gateway[c] \in aged THEN None ELSE gateway[c]]
    /\ UNCHANGED <<pending, relay, flow, loops, bridgeVars, aged, closing, pc, offer, got,
                   historyVars>>

(* WebRtcGateway::cleanup_stale_sessions: first the map, under the lock    *)
SweepGateway ==
    /\ \E c \in Calls : gateway[c] \in aged
    /\ gateway' = [c \in Calls |-> IF gateway[c] \in aged THEN None ELSE gateway[c]]
    /\ closing' = closing \cup {gateway[c] : c \in {d \in Calls : gateway[d] \in aged}}
    /\ UNCHANGED <<pending, relay, flow, loops, bridgeVars, aged, pc, offer, got,
                   historyVars>>

(* then the sessions, one after the other                                  *)
CloseSwept(s) ==
    /\ s \in closing
    /\ closing' = closing \ {s}
    /\ loops' = loops \ LoopsOf(s)
    /\ UNCHANGED <<pending, mapVars, flow, bridgeVars, aged, pc, offer, got, historyVars>>

-----------------------------------------------------------------------------
Init ==
    /\ pending = {}
    /\ relay = [c \in Calls |-> None]
    /\ gateway = [c \in Calls |-> None]
    /\ flow = [s \in Setups |-> "none"]
    /\ loops = {}
    /\ peer = {}
    /\ applied = {}
    /\ refused = {}
    /\ aged = {}
    /\ closing = {}
    /\ pc = [p \in Procs |-> "idle"]
    /\ offer = [s \in Setups |-> None]
    /\ got = [a \in Answers |-> None]
    /\ replaced = {}
    /\ dropped = {}

SetupStep(s) ==
    Bind(s) \/ BindFails(s) \/ Negotiate(s) \/ File(s) \/ SetPeer(s) \/ Send(s)
RemoverStep(r) == RemoveRelay(r) \/ RemoveGateway(r)
AnswerStep(a) ==
    \/ Lookup(a) \/ AskFlow(a) \/ Apply(a) \/ Learn(a) \/ Rewrite(a) \/ Reply(a)
    \/ ClearPending(a)

Next ==
    \/ \E s \in Setups : Begin(s) \/ SetupStep(s) \/ PhoneRtp(s) \/ Age(s) \/ CloseSwept(s)
    \/ \E r \in Removers : Forget(r) \/ RemoverStep(r)
    \/ \E a \in Answers : RecvAnswer(a) \/ AnswerStep(a)
    \/ SweepRelay
    \/ SweepGateway

(* Time passes and the sweeps are repeated; nothing is assumed of the      *)
(* handlers or of the parties                                              *)
Fairness ==
    /\ \A s \in Setups : WF_vars(Age(s)) /\ WF_vars(CloseSwept(s))
    /\ WF_vars(SweepRelay)
    /\ WF_vars(SweepGateway)

Spec == Init /\ [][Next]_vars /\ Fairness

-----------------------------------------------------------------------------
(* Properties                                                              *)

(* Maps, positions and sets hold values of the expected kind.              *)
TypeOK ==
    /\ pending \subseteq Calls
    /\ relay \in [Calls -> Setups \cup {None}]
    /\ gateway \in [Calls -> Setups \cup {None}]
    /\ flow \in [Setups -> Flows]
    /\ loops \subseteq Setups \X Streams
    /\ peer \subseteq Setups
    /\ applied \subseteq Setups
    /\ refused \subseteq Procs
    /\ aged \subseteq Setups
    /\ closing \subseteq Setups
    /\ pc \in [Procs -> PC]
    /\ offer \in [Setups -> Setups \cup {None}]
    /\ got \in [Answers -> Setups \cup {None}]
    /\ replaced \subseteq Setups
    /\ dropped \subseteq Setups

(* A session that the maps know is complete: all streams of its offer are  *)
(* served, whatever set-ups, clean-ups and sweeps of its call run at the   *)
(* same time.  A response that takes a session from a map can use it.      *)
FiledIsLive ==
    \A s \in Setups, m \in Streams : Filed(s) /\ m \in Wants[s] => <<s, m>> \in loops

(* A receive task that runs, and holds its port, belongs to a session that *)
(* is being set up, is filed or is being closed; the exceptions are a      *)
(* session another INVITE of the call was filed over and a gateway set-up  *)
(* that failed.                                                            *)
LoopsAccounted ==
    \A s \in Setups, m \in Streams :
        <<s, m>> \in loops =>
            pc[s] \in SettingUp \/ Filed(s) \/ s \in closing \cup replaced \cup dropped

(* A party is told of a gateway session only once its far side is          *)
(* connected: as long as the session is filed, the browser's answer was    *)
(* applied, or the phone's address set, before the SDP went out, although  *)
(* the map is looked up anew for every part of it.  The exception is a far *)
(* side whose SDP could not be used.                                       *)
BridgeReady ==
    /\ \A s \in Setups \ refused :
           offer[s] = s /\ flow[s] = "sip" /\ Filed(s) => s \in peer
    /\ \A a \in Answers \ refused : pc[a] \in {"clear", "done"} /\ got[a] # None =>
           LET g == got[a] IN
           /\ gateway[CallOf[a]] = g /\ flow[g] = "sip" => g \in applied
           /\ gateway[CallOf[a]] = g /\ flow[g] = "browser" => g \in peer

(* Ports are given back even if no party ever hangs up: a session that was *)
(* filed ends, by a clean-up or by a sweep, or another one took its place. *)
SessionsEnd ==
    \A s \in Setups :
        Filed(s) ~> ((\A m \in Streams : <<s, m>> \notin loops) \/ s \in replaced)
=============================================================================
