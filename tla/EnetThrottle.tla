---------------------------- MODULE EnetThrottle ----------------------------
(***************************************************************************)
(* How an ENet host divides its bandwidth between its peers once a second  *)
(* (src/enet-1.3.3/host.c), and what a peer makes of it: a packet throttle *)
(* in thirty-seconds of the unreliable packets, and a window.              *)
(*                                                                         *)
(* A peer is a record of up (it is connected), in and out (its             *)
(* incomingBandwidth and outgoingBandwidth), data, limit, throttle, window, *)
(* capped and settled: outgoingDataTotal,                                  *)
(* packetThrottleLimit, packetThrottle, windowSize, and whether its two    *)
(* BandwidthThrottleEpochs are timeCurrent.  A bandwidth of 0 is unknown.  *)
(***************************************************************************)
EXTENDS Integers, Sequences, FiniteSetsExt, SequencesExt

Scale    == 32
Interval == 1000

WindowScale   == 64 * 1024
MinimumWindow == 4096
MaximumWindow == 32768

\* Stands for the 32-bit word, as wide as sums can be evaluated.
Word     == 2 ^ 30

Unlimited == Word - 1

Minus(a, b) == (a - b) % Word

Share(bandwidth, elapsed) == (bandwidth * elapsed) \div 1000

Lowered(p, limit) == [p EXCEPT !.limit = limit, !.throttle = Min({@, limit})]

\* One peer of a pass: one that would get more than it can receive is capped, and
\* leaves the rest to the others.
Cap_KeepsBandwidth(throttle, elapsed, s, i) ==
  LET p     == s.peers[i]
      share == Share(p.in, elapsed)
      limit == Max({1, (share * Scale) \div p.data})
  IN  IF ~p.up \/ p.in = 0 \/ p.capped \/ (throttle * p.data) \div Scale <= share THEN s
      ELSE [s EXCEPT !.peers[i]   = [Lowered(p, limit) EXCEPT !.capped = TRUE],
                     !.adjusted   = TRUE,
                     !.remaining  = @ - 1,
                     !.dataTotal  = Minus(@, share)]

Cap(throttle, elapsed, s, i) ==
  LET p     == s.peers[i]
      share == Share(p.in, elapsed)
      limit == Max({1, (share * Scale) \div p.data})
  IN  IF ~p.up \/ p.in = 0 \/ p.capped \/ (throttle * p.data) \div Scale <= share THEN s
      ELSE [s EXCEPT !.peers[i]   = [Lowered(p, limit) EXCEPT !.capped = TRUE],
                     !.adjusted   = TRUE,
                     !.remaining  = @ - 1,
                     !.bandwidth  = Minus(@, share),
                     !.dataTotal  = Minus(@, share)]

\* One peer of a pass: one that sends less than an equal part leaves the rest.
Settle(bandwidthLimit, s, i) ==
  LET p == s.peers[i]
  IN  IF ~p.up \/ p.settled \/ (p.out > 0 /\ p.out >= bandwidthLimit) THEN s
      ELSE [s EXCEPT !.peers[i].settled = TRUE,
                     !.adjusted  = TRUE,
                     !.remaining = @ - 1,
                     !.bandwidth = Minus(@, p.out)]

\* while( peersRemaining > 0 && needsAdjustment != 0 ): Level gives what a pass hands
\* out, OnePeer is the body of its loop.
Passes(start, Level(_), OnePeer(_, _, _)) ==
  LET N == Len(start.peers)
      Again(s) == s.remaining > 0 /\ s.adjusted
      Pass(s) == LET level == Level(s)
                 IN  FoldLeft(LAMBDA t, i : OnePeer(level, t, i),
                              [s EXCEPT !.adjusted = FALSE, !.level = level],
                              [i \in 1 .. N |-> i])
      after[n \in 0 .. N + 1] ==
        IF n = 0 THEN start ELSE IF Again(after[n - 1]) THEN Pass(after[n - 1]) ELSE after[n - 1]
  IN  after[N + 1]

Start(peers, bandwidth) ==
  LET up == {i \in DOMAIN peers : peers[i].up}
  IN  [peers |-> peers, bandwidth |-> bandwidth, adjusted |-> TRUE, level |-> 0,
       dataTotal |-> MapThenSumSet(LAMBDA i : peers[i].data, up),
       remaining |-> Cardinality(up)]

OutgoingLimits(host, peers, elapsed) ==
  LET bandwidth == IF host.out = 0 THEN Unlimited ELSE Share(host.out, elapsed)
      Throttle(s) == IF s.dataTotal < s.bandwidth THEN Scale
                     ELSE (s.bandwidth * Scale) \div s.dataTotal
      OnePeer(throttle, s, i) == Cap(throttle, elapsed, s, i)
      s == Passes(Start(peers, bandwidth), Throttle, OnePeer)
  IN  [i \in DOMAIN peers |->
         IF s.remaining = 0 \/ ~s.peers[i].up \/ s.peers[i].capped THEN s.peers[i]
         ELSE Lowered(s.peers[i], s.level)]

\* The incomingBandwidth that each peer is told; its outgoingBandwidth is host.out.
IncomingLimits(host, peers) ==
  LET Level(s) == s.bandwidth \div s.remaining
      s == IF host.in = 0 THEN [Start(peers, 0) EXCEPT !.level = 0]
           ELSE Passes(Start(peers, host.in), Level, Settle)
  IN  [i \in DOMAIN peers |-> IF s.peers[i].settled THEN peers[i].out ELSE s.level]

\* enet_host_bandwidth_throttle: the peers it leaves and what it tells those that are up.
Throttled(host, peers, elapsed) ==
  IF elapsed < Interval \/ \A i \in DOMAIN peers : ~peers[i].up
  THEN [peers |-> peers, told |-> [i \in {} |-> 0], recalculate |-> host.recalculate]
  ELSE LET limited == OutgoingLimits(host, peers, elapsed)
           told    == IncomingLimits(host, limited)
       IN  [peers |-> [i \in DOMAIN peers |-> [limited[i] EXCEPT !.data = 0]],
            told  |-> IF host.recalculate
                      THEN [i \in {j \in DOMAIN peers : peers[j].up} |-> told[i]]
                      ELSE [i \in {} |-> 0],
            recalculate |-> FALSE]

\* enet_peer_throttle: what a round trip of rtt does, given the lowest mean and the highest
\* variance of the last interval.
RoundTrip(p, rtt, last, variance, acceleration, deceleration) ==
  [p EXCEPT !.throttle =
     IF last <= variance THEN p.limit
     ELSE IF rtt < last THEN Min({@ + acceleration, p.limit})
     ELSE IF rtt > last + 2 * variance THEN Max({0, @ - deceleration})
     ELSE @]

\* enet_protocol_handle_bandwidth_limit: a peer makes known what it can take in and what
\* this end may send it.  One unknown bandwidth gives the least window, two the largest.
HandleBandwidthLimit(host, p, in, out) ==
  LET window == IF in = 0 /\ host.out = 0 THEN MaximumWindow
                ELSE (Min({in, host.out}) \div WindowScale) * MinimumWindow
  IN  [p EXCEPT !.in = in, !.out = out,
                !.window = Max({MinimumWindow, Min({MaximumWindow, window})})]

-----------------------------------------------------------------------------

NewPeer(in, out, data) ==
  [up |-> TRUE, in |-> in, out |-> out, data |-> data, limit |-> Scale, throttle |-> Scale,
   capped |-> FALSE, settled |-> FALSE, window |-> MaximumWindow]

\* What the peers send after a division fits in the bandwidth that was divided, and in
\* what each of them can receive, but for one packet in 32 that every peer may send; and
\* a round trip never lifts a throttle over its limit.
ThrottleFits(host, peers, elapsed) ==
  LET after == Throttled(host, peers, elapsed).peers
      Up    == {i \in DOMAIN peers : peers[i].up}
      Bare  == {i \in Up : after[i].limit = 1}
      Passed(i) == after[i].limit * peers[i].data
  IN  /\ elapsed >= Interval /\ host.out > 0 =>
            MapThenSumSet(Passed, Up \ Bare) <= Share(host.out, elapsed) * Scale
      /\ \A i \in Up \ Bare : elapsed >= Interval /\ peers[i].in > 0 =>
            Passed(i) < (Share(peers[i].in, elapsed) + 1) * Scale
      /\ \A i \in Up :
           /\ after[i].limit \in 0 .. Scale
           /\ \A rtt \in 1 .. 4 : LET p == RoundTrip(after[i], rtt, 3, 0, 2, 2)
                                  IN  p.throttle \in 0 .. p.limit

\* What clients of known bandwidth send, each throttled by what the host told it, fits in
\* what the host can receive.
ToldFits(host, peers, elapsed) ==
  LET told  == Throttled(host, peers, elapsed).told
      Known == {i \in DOMAIN told : peers[i].out > 0}
      Sends(i) == LET client == [in |-> 0, out |-> peers[i].out, recalculate |-> FALSE]
                      server == HandleBandwidthLimit(client, NewPeer(0, 0, 64), told[i], host.out)
                      limit  == Throttled(client, <<server>>, Interval).peers[1].limit
                  IN  IF limit = 1 THEN 0 ELSE (limit * 64) \div Scale
  IN  host.in > 0 => MapThenSumSet(Sends, Known) <= host.in

=============================================================================
