---------------------------- MODULE MCAlgorithms ----------------------------
(***************************************************************************)
(* The program's computations, each against what it should compute, and    *)
(* the soft queues that carry sound to its encoder.  A behaviour is either *)
(* a run of the queues or one computation, whose input it picks.           *)
(***************************************************************************)
EXTENDS Companding, Pixels, Md5Pieces, Tunnel, EnetThrottle, AudioRing, Meter, SoftQueue

VARIABLE input

\* Dates of three hexadecimal digits.
Date == INSTANCE DigestAuth WITH Digits <- 3, Lifetime <- 15

Idle == [what |-> "none"]

\* Lengths on both sides of the places where MD5 pads and transforms.
MCLengths == {0, 1, 31, 54, 55, 56, 62, 63, 64, 65, 120}

\* Levels at the ends and the middle of the scale, and some between.
MCLevels == {0, 1, 51, 100, 127, 128, 129, 200, 254, 255}

MCTexts == {<<0>>, <<255, 77>>, <<77, 77, 255>>, <<255, 0, 255, 77>>}
MCCuts  == {<<c, d>> \in (0 .. 12) \X (0 .. 12) : c <= d}

\* Peers that can take in nothing known, little and enough and send nothing, little and
\* too much; peers of other outgoing bandwidths; and one that is not connected.
MCPeers == {NewPeer(i, 5, d) : i \in {0, 1, 10, 40}, d \in {0, 1, 33, 64, 200}}
           \cup {NewPeer(i, o, 33) : i \in {10, 40}, o \in {0, 30}}
           \cup {[NewPeer(10, 5, 33) EXCEPT !.up = FALSE]}
MCHosts == {[out |-> o, in |-> i, recalculate |-> TRUE] : o \in {0, 1, 20, 60}, i \in {0, 25, 60}}

Ask(what, args) == input' = [what |-> what, args |-> args]

AskCompanding == \E x \in Samples : Ask("companding", x)
AskPixels     == \E y0, y1, u, v \in MCLevels : Ask("pixels", <<y0, y1, u, v>>)
AskDate       == \E n \in 0 .. Date!Width - 1 : Ask("date", n)
AskMd5        == \E n1, n2, n3 \in MCLengths : Ask("md5", <<n1, n2, n3>>)
AskTunnel     == \E a, b \in MCTexts : \E skip \in 0 .. 8 : \E cut \in MCCuts :
                   Ask("tunnel", <<a, b, skip, cut>>)
AskThrottle   == \E h \in MCHosts : \E p, q \in MCPeers : \E elapsed \in {999, 1200} :
                   Ask("throttle", <<h, <<p, q, NewPeer(20, 10, 64)>>, elapsed>>)
AskSamples    == \E size \in {<<9, 3, 2>>, <<12, 3, 3>>, <<12, 4, 3>>} :
                 \E n1 \in {0, 1, 2, 5} : \E n2 \in 1 .. 9 : \E n3 \in {0, 4, 7} :
                 \E r2 \in {-3, -2, 0, 2, 5} : \E r3 \in {-3, 0, 4} :
                   Ask("samples", <<size, n1, n2, n3, r2, r3>>)

AskMeter      == \E cards \in [1 .. 5 -> {7900, 7990, 8000, 8001, 8100}] : \E seconds \in {30, 31} :
                   Ask("meter", <<cards, seconds>>)

Compute == /\ QueueInit /\ input = Idle
           /\ \/ AskCompanding \/ AskPixels \/ AskDate \/ AskMd5 \/ AskTunnel \/ AskThrottle \/ AskSamples
              \/ AskMeter
           /\ UNCHANGED queueVars

Init == QueueInit /\ input = Idle
Next == \/ Compute
        \/ input = Idle /\ QueueNext /\ UNCHANGED input
Spec == Init /\ [][Next]_<<queueVars, input>>

Asked(what, P(_)) == input.what = what => P(input.args)

-----------------------------------------------------------------------------

\* sound_conv.c: every 16-bit sample survives its coding as CompandingFaithful says; and
\* conversions.c, input-v4l.c: all packings of the same pixels give the same colours, and
\* brightness survives rgb2yuy2; http-auth.c: no date is read as an earlier one.
ConversionsHold ==
  /\ Asked("companding", CompandingFaithful)
  /\ Asked("pixels", LAMBDA a : /\ PackingsAgree(a[1], a[2], a[3], a[4])
                                /\ BrightnessSurvives(a[1], a[2], a[3]))
  /\ Asked("date", Date!NeverEarlier)

\* md5.c, http-auth.c and tcp.c: neither a hash nor a tunnelled request depends on the pieces
\* in which its text comes.
PiecesDoNotMatter ==
  /\ Asked("md5", LAMBDA a : HashSeesWhole(a[1], a[2], a[3]))
  /\ Asked("tunnel", LAMBDA a : a[4][2] <= Len(Encoded(a[1])) + Len(Encoded(a[2])) =>
                                TunnelDecodes(a[1], a[2], a[3], a[4][1], a[4][2]))

\* host.c: the division of the bandwidth, on both ends of it.
BandwidthFits ==
  Asked("throttle", LAMBDA a : ThrottleFits(a[1], a[2], a[3]) /\ ToldFits(a[1], a[2], a[3]))

\* audio.c, frame.c, encoder-mp2.c: the samples through the ring, the frames and the
\* blocks; and their number, whatever the card's clock does.
SamplesHold ==
  /\ Asked("samples", LAMBDA a : SamplesInOrder(a[1][1], a[1][2], a[1][3], a[2], a[3], a[4], a[5], a[6]))
  /\ Asked("meter", LAMBDA a : RateKept(8000, a[2], a[1], 100))

=============================================================================
