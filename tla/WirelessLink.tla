---------------------------- MODULE WirelessLink ----------------------------
(***************************************************************************)
(* The wireless check of src/wireless/wireless_check.c and what it shares  *)
(* with the server.  The check thread calls c_do_wireless_check_handler    *)
(* for ever; it leaves the access point it has for a better one, reconnects*)
(* to the network when it has none, and mutes all streams (g_bStopSend)    *)
(* until the signal is good again: next_live_frame then sends nothing.  The*)
(* event loop's thread begins and ends the check from what the clients     *)
(* report (src/rtp.c).                                                     *)
(*                                                                         *)
(* The handler is cut where it talks to the driver, so that the link and   *)
(* the other thread may change between two of its calls.  Of its delays    *)
(* (50, 100 or 200 ticks) only their end is modelled.  Signals are ranks:  *)
(* 0 is out of range.  The driver is external: it associates with an access*)
(* point it may choose and that is in range.                               *)
(***************************************************************************)
EXTENDS Integers, FiniteSets

CONSTANTS
  Endpoints, AccessPoints,
  NoAp,           \* not associated, or no access point asked for by address
  Signals,        \* the signals an access point may have
  Threshold,      \* g_nSignalQualityThreshold
  Diff,           \* g_nSignalDiffThreshold
  MaxChkTimes,    \* nMaxChkTimes
  ScanRetries     \* bound: how often a scan is asked for its results again

\* config_wifi_signal_quality and config_wifi_signal_diff
ConfigSignals == Threshold \in 0 .. 100 /\ Diff \in 0 .. 255

ASSUME ThresholdsAssumption ==
  /\ Signals \subseteq Nat /\ 0 \in Signals
  /\ ConfigSignals
  /\ MaxChkTimes \in Nat \ {0} /\ ScanRetries \in Nat
  /\ NoAp \notin AccessPoints /\ IsFiniteSet(AccessPoints)

VARIABLES
  g_bStopSend, g_bChkWirelessLink,
  nCurChkTimes,
  due,            \* nNextChkTime has passed
  pc,             \* where the handler is
  ap_addr,        \* its local: the current access point, then the better one
  bConnect2NewAp,
  tries,          \* how often the scan was asked for its results again
  signal,         \* of each access point
  assoc,          \* the access point the driver is associated with
  wanted,         \* the one it was told to take, NoAp for any of the network's
  calm,           \* the signals and the driver have become steady
  patience,       \* history: failed checks since a good one or a reconnection
  alive,          \* the endpoints there are
  trigger         \* bTriggerWirelessCheck

thread == <<nCurChkTimes, due, pc, ap_addr, bConnect2NewAp, tries, patience>>
radio  == <<signal, assoc, wanted, calm>>
client == <<alive, trigger>>
vars   == <<g_bStopSend, g_bChkWirelessLink, thread, radio, client>>

Absent == -256

Init ==
  /\ g_bStopSend = FALSE /\ g_bChkWirelessLink = FALSE
  /\ nCurChkTimes = 0 /\ due = TRUE /\ pc = "idle"
  /\ ap_addr = NoAp /\ bConnect2NewAp = FALSE /\ tries = 0 /\ patience = 0
  /\ signal \in [AccessPoints -> Signals]
  /\ assoc = NoAp /\ wanted = NoAp /\ calm = FALSE
  /\ alive = {} /\ trigger = [e \in Endpoints |-> FALSE]

-----------------------------------------------------------------------------
(* The driver and the air. *)

\* A query of the driver fails only while it is unsteady.
MayFail == ~calm

SignalChanges ==
  /\ ~calm
  /\ \E a \in AccessPoints, s \in Signals :
       signal' = [signal EXCEPT ![a] = s]
  /\ UNCHANGED <<g_bStopSend, g_bChkWirelessLink, thread, assoc, wanted, calm, client>>

CanJoin(a) == signal[a] > 0 /\ wanted \in {NoAp, a}

Associate ==
  /\ assoc = NoAp
  /\ \E a \in AccessPoints : CanJoin(a) /\ assoc' = a
  /\ UNCHANGED <<g_bStopSend, g_bChkWirelessLink, thread, signal, wanted, calm, client>>

LoseLink ==
  /\ assoc # NoAp
  /\ MayFail \/ signal[assoc] = 0
  /\ assoc' = NoAp
  /\ UNCHANGED <<g_bStopSend, g_bChkWirelessLink, thread, signal, wanted, calm, client>>

CalmDown ==
  /\ ~calm /\ calm' = TRUE
  /\ UNCHANGED <<g_bStopSend, g_bChkWirelessLink, thread, signal, assoc, wanted, client>>

-----------------------------------------------------------------------------
(* c_do_wireless_check_handler *)

\* A steady driver associates before the last of the delays it is given.
Settled == assoc # NoAp \/ \A a \in AccessPoints : ~CanJoin(a)

DelayEnds ==
  /\ pc = "idle" /\ ~due /\ due' = TRUE
  /\ calm /\ nCurChkTimes = MaxChkTimes - 1 => Settled
  /\ UNCHANGED <<g_bStopSend, g_bChkWirelessLink, nCurChkTimes, pc, ap_addr,
                 bConnect2NewAp, tries, patience, radio, client>>

\* get_info: the access point it finds, none when one of its queries fails
GetInfo == {assoc} \cup (IF MayFail THEN {NoAp} ELSE {})

\* get_wifi_signal_quality: 0 when there is no link
Quality == {IF a = NoAp THEN 0 ELSE signal[a] : a \in GetInfo}

MustCheck_OnlyIfAsked == g_bChkWirelessLink /\ due

MustCheck == (g_bStopSend \/ g_bChkWirelessLink) /\ due

\* A muted server waits for MaxChkTimes failed checks.
Waits == g_bStopSend /\ nCurChkTimes + 1 < MaxChkTimes

NextTimes_NotReset(good) == IF good THEN 0
                            ELSE IF g_bStopSend THEN nCurChkTimes + 1 ELSE nCurChkTimes

NextTimes(good) == IF ~good /\ Waits THEN nCurChkTimes + 1 ELSE 0

\* STEP 1 and STEP 2
CheckQuality ==
  /\ pc = "idle" /\ MustCheck
  /\ \E quality \in Quality :
       LET good == quality > 0 /\ quality >= Threshold
       IN /\ g_bStopSend' = (g_bStopSend /\ ~good)
          /\ nCurChkTimes' = NextTimes(good)
          /\ patience' = IF good THEN 0
                         ELSE IF g_bStopSend /\ patience < MaxChkTimes
                              THEN patience + 1 ELSE patience
          /\ due' = FALSE
          /\ pc' = IF good \/ Waits THEN "idle"
                   ELSE IF quality = 0 THEN "ssid" ELSE "search"
  /\ UNCHANGED <<g_bChkWirelessLink, ap_addr, bConnect2NewAp, tries, radio, client>>

\* get_wifi_addr
WifiAddr == pc' = "scan" /\ ap_addr' = assoc

\* STEP 3: without an address it gives the link up, with one it scans.
Search ==
  /\ pc = "search"
  /\ WifiAddr \/ (MayFail /\ pc' = "ssid" /\ UNCHANGED ap_addr)
  /\ UNCHANGED <<g_bStopSend, g_bChkWirelessLink, nCurChkTimes, due, bConnect2NewAp,
                 tries, patience, radio, client>>

\* The driver has no results yet, or needs a larger buffer for them.
ScanAgain ==
  /\ pc = "scan" /\ tries < ScanRetries /\ tries' = tries + 1
  /\ UNCHANGED <<g_bStopSend, g_bChkWirelessLink, nCurChkTimes, due, pc, ap_addr,
                 bConnect2NewAp, patience, radio, client>>

InRange == {a \in AccessPoints : signal[a] > 0}

\* What the scan says of an access point of the network.
Heard(a) == IF a \in InRange THEN signal[a] ELSE Absent

Better_OrAsGood(a) == /\ \A b \in InRange : signal[b] <= signal[a]
                      /\ signal[a] >= Heard(ap_addr)

Better(a) == /\ \A b \in InRange : signal[b] <= signal[a]
             /\ signal[a] > Heard(ap_addr) + Diff

\* The interface cannot scan or refuses to, or takes too long.
ScanFails == MayFail

\* get_bestap_by_ssid
ScanEnds ==
  /\ pc = "scan"
  /\ \/ /\ ScanFails \/ \A a \in InRange : ~Better(a)
        /\ pc' = "idle" /\ UNCHANGED <<ap_addr, bConnect2NewAp>>
     \/ \E a \in InRange : /\ Better(a)
                           /\ ap_addr' = a /\ bConnect2NewAp' = TRUE /\ pc' = "ssid"
  /\ tries' = 0
  /\ UNCHANGED <<g_bStopSend, g_bChkWirelessLink, nCurChkTimes, due, patience, radio, client>>

\* The driver leaves its access point for a, or for any of the network's; the
\* command that tells it to may fail, which is only logged.
Reconnect(a) == \/ assoc' = NoAp /\ wanted' = a
                \/ MayFail /\ UNCHANGED <<assoc, wanted>>

\* STEP 4, connect2ssid
Connect2Ssid ==
  /\ pc = "ssid" /\ pc' = "mute"
  /\ Reconnect(NoAp) /\ patience' = 0
  /\ UNCHANGED <<g_bStopSend, g_bChkWirelessLink, nCurChkTimes, due, ap_addr,
                 bConnect2NewAp, tries, signal, calm, client>>

\* "stop sending when connect 2 SSID", after it has connected
Mute ==
  /\ pc = "mute" /\ pc' = IF bConnect2NewAp THEN "ap" ELSE "idle"
  /\ g_bStopSend' = TRUE
  /\ UNCHANGED <<g_bChkWirelessLink, nCurChkTimes, due, ap_addr, bConnect2NewAp, tries,
                 patience, radio, client>>

\* connect2newap
Connect2NewAp ==
  /\ pc = "ap" /\ pc' = "idle"
  /\ Reconnect(ap_addr)
  /\ g_bStopSend' = TRUE /\ bConnect2NewAp' = FALSE /\ ap_addr' = NoAp
  /\ UNCHANGED <<g_bChkWirelessLink, nCurChkTimes, due, tries, patience, signal, calm, client>>

Handler == CheckQuality \/ Search \/ ScanAgain \/ ScanEnds \/ Connect2Ssid \/ Mute
             \/ Connect2NewAp

-----------------------------------------------------------------------------
(* The event loop's thread. *)

\* new_rtp_endpoint
NewEndpoint(e) ==
  /\ e \notin alive /\ alive' = alive \cup {e}
  /\ UNCHANGED <<g_bStopSend, g_bChkWirelessLink, thread, radio, trigger>>

\* udp_rtcp_read: the client reports much loss, or none; a little changes nothing.
LossReport(e) ==
  /\ e \in alive
  /\ \E lossy \in BOOLEAN : /\ trigger' = [trigger EXCEPT ![e] = lossy]
                            /\ g_bChkWirelessLink' = lossy
  /\ UNCHANGED <<g_bStopSend, thread, radio, alive>>

\* rtcp_send: no report for 1.2 seconds
ClientSilent(e) ==
  /\ e \in alive /\ g_bChkWirelessLink' = TRUE
  /\ UNCHANGED <<g_bStopSend, thread, radio, client>>

\* del_rtp_endpoint, at the end of a session or after 15 seconds of silence
DelEndpoint(e) ==
  /\ e \in alive /\ alive' = alive \ {e}
  /\ \E silent \in BOOLEAN :
       g_bChkWirelessLink' = ((g_bChkWirelessLink \/ silent) /\ ~trigger[e])
  /\ trigger' = [trigger EXCEPT ![e] = FALSE]
  /\ UNCHANGED <<g_bStopSend, thread, radio>>

Server == \E e \in Endpoints : NewEndpoint(e) \/ LossReport(e) \/ ClientSilent(e)
                                 \/ DelEndpoint(e)

Next == SignalChanges \/ Associate \/ LoseLink \/ CalmDown \/ DelayEnds \/ Handler \/ Server

\* The check thread never stops and its delays end; a driver that can associate
\* does, and notices that its access point is gone.  Nothing is assumed of the
\* clients or of the signals.
Spec == /\ Init /\ [][Next]_vars
        /\ WF_vars(Handler) /\ WF_vars(DelayEnds) /\ WF_vars(Associate) /\ WF_vars(LoseLink)

-----------------------------------------------------------------------------
(* Properties. *)

Pcs == {"idle", "search", "scan", "ssid", "mute", "ap"}

\* The ranges of the thread's variables; at most one check less than
\* MaxChkTimes is remembered, and a better access point only on the way to it.
TypeOK ==
  /\ g_bStopSend \in BOOLEAN /\ g_bChkWirelessLink \in BOOLEAN
  /\ nCurChkTimes \in 0 .. MaxChkTimes - 1 /\ patience \in 0 .. MaxChkTimes
  /\ due \in BOOLEAN /\ pc \in Pcs /\ tries \in 0 .. ScanRetries
  /\ ap_addr \in AccessPoints \cup {NoAp} /\ bConnect2NewAp \in BOOLEAN
  /\ signal \in [AccessPoints -> Signals] /\ calm \in BOOLEAN
  /\ assoc \in AccessPoints \cup {NoAp} /\ wanted \in AccessPoints \cup {NoAp}
  /\ alive \subseteq Endpoints /\ trigger \in [Endpoints -> BOOLEAN]
  /\ bConnect2NewAp => pc \in {"ssid", "mute", "ap"} /\ ap_addr \in AccessPoints

\* While streams are muted a connection is given time: the thread takes the
\* link down again only after MaxChkTimes checks in a row, since the last
\* reconnection, that found it bad ("Current AP is not connected in 2s").
Patient ==
  [][Connect2Ssid => (g_bStopSend => patience = MaxChkTimes)]_vars

\* Once signals and driver are steady, streams do not stay muted while there
\* is an access point whose signal is good and clearly better than any bad
\* one the driver may have chosen, or when all it may choose are good.
NoneBetter == assoc \in InRange /\ \A a \in InRange : signal[a] <= signal[assoc] + Diff
SendingResumes ==
  calm ~> (~g_bStopSend \/ InRange = {} \/ (NoneBetter /\ signal[assoc] < Threshold))

\* The thread does not flap: with steady signals, and some access point in
\* range, it reconnects only finitely often.
StopsFlapping ==
  (<>[](calm /\ InRange # {})) => <>[][~Connect2Ssid]_vars

=============================================================================
