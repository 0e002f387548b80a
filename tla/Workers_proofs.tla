--------------------------- MODULE Workers_proofs ---------------------------
(***************************************************************************)
(* Theorems about the threads that work beside the event loop: the one that*)
(* looks after the wireless link (WirelessLink), for every set of access   *)
(* points and all thresholds, and the encoder's (SoftQueue), for queues of *)
(* every length.  The two share no variable.                               *)
(***************************************************************************)
EXTENDS WirelessLink, SoftQueue, SequenceTheorems, TLAPS

-----------------------------------------------------------------------------
(* The wireless thread                                                      *)

USE ThresholdsAssumption

-----------------------------------------------------------------------------
(* Type correctness                                                         *)

\* The handler's steps keep the types, each where it leaves the handler.
LEMMA HandlerType ==
  ASSUME TypeOK, Handler
  PROVE  TypeOK'
<1>1. CASE CheckQuality
  <2>1. PICK quality \in Quality :
          LET good == quality > 0 /\ quality >= Threshold
          IN /\ g_bStopSend' = (g_bStopSend /\ ~good)
             /\ nCurChkTimes' = NextTimes(good)
             /\ patience' = IF good THEN 0
                            ELSE IF g_bStopSend /\ patience < MaxChkTimes
                                 THEN patience + 1 ELSE patience
             /\ due' = FALSE
             /\ pc' = IF good \/ Waits THEN "idle"
                      ELSE IF quality = 0 THEN "ssid" ELSE "search"
    BY <1>1 DEF CheckQuality
  <2>2. /\ pc = "idle"
        /\ UNCHANGED <<g_bChkWirelessLink, ap_addr, bConnect2NewAp, tries, radio, client>>
    BY <1>1 DEF CheckQuality
  <2>3. g_bStopSend' \in BOOLEAN /\ pc' \in Pcs
    BY <2>1 DEF Pcs, TypeOK
  <2>4. nCurChkTimes' \in 0 .. MaxChkTimes - 1
    BY <2>1 DEF TypeOK, NextTimes, Waits
  <2>5. patience' \in 0 .. MaxChkTimes
    BY <2>1 DEF TypeOK
  <2>6. bConnect2NewAp' = FALSE
    BY <2>2 DEF TypeOK
  <2>7. QED BY <2>1, <2>2, <2>3, <2>4, <2>5, <2>6 DEF TypeOK, radio, client
<1>2. CASE Search
  BY <1>2 DEF Search, WifiAddr, TypeOK, Pcs, radio, client
<1>3. CASE ScanAgain
  BY <1>3 DEF ScanAgain, TypeOK, Pcs, radio, client
<1>4. CASE ScanEnds
  <2>1. /\ tries' = 0 /\ 0 \in 0 .. ScanRetries
        /\ UNCHANGED <<g_bStopSend, g_bChkWirelessLink, nCurChkTimes, due, patience,
                       radio, client>>
    BY <1>4 DEF ScanEnds
  <2>2. /\ pc' \in Pcs /\ ap_addr' \in AccessPoints \cup {NoAp} /\ bConnect2NewAp' \in BOOLEAN
        /\ bConnect2NewAp' => pc' \in {"ssid", "mute", "ap"} /\ ap_addr' \in AccessPoints
    <3>1. bConnect2NewAp = FALSE /\ ap_addr \in AccessPoints \cup {NoAp}
      BY <1>4 DEF ScanEnds, TypeOK
    <3>2. CASE pc' = "idle" /\ UNCHANGED <<ap_addr, bConnect2NewAp>>
      BY <3>1, <3>2 DEF Pcs
    <3>3. CASE ap_addr' \in AccessPoints /\ bConnect2NewAp' = TRUE /\ pc' = "ssid"
      BY <3>3 DEF Pcs
    <3>4. QED BY <1>4, <3>2, <3>3 DEF ScanEnds, InRange
  <2>3. QED BY <2>1, <2>2 DEF TypeOK, radio, client
<1>5. CASE Connect2Ssid
  BY <1>5 DEF Connect2Ssid, Reconnect, TypeOK, Pcs, client
<1>6. CASE Mute
  BY <1>6 DEF Mute, TypeOK, Pcs, radio, client
<1>7. CASE Connect2NewAp
  BY <1>7 DEF Connect2NewAp, Reconnect, TypeOK, Pcs, client
<1>8. QED
  BY <1>1, <1>2, <1>3, <1>4, <1>5, <1>6, <1>7 DEF Handler

\* The event loop's thread only begins and ends checks.
LEMMA ServerType ==
  ASSUME TypeOK, Server
  PROVE  TypeOK' /\ UNCHANGED <<g_bStopSend, thread, radio>>
<1> PICK e \in Endpoints :
      NewEndpoint(e) \/ LossReport(e) \/ ClientSilent(e) \/ DelEndpoint(e)
  BY DEF Server
<1>1. CASE NewEndpoint(e)
  BY <1>1 DEF NewEndpoint, TypeOK, thread, radio
<1>2. CASE LossReport(e)
  BY <1>2 DEF LossReport, TypeOK, thread, radio
<1>3. CASE ClientSilent(e)
  BY <1>3 DEF ClientSilent, TypeOK, thread, radio, client
<1>4. CASE DelEndpoint(e)
  <2>1. g_bChkWirelessLink' \in BOOLEAN
    BY <1>4 DEF DelEndpoint
  <2>2. QED BY <1>4, <2>1 DEF DelEndpoint, TypeOK, thread, radio
<1>5. QED BY <1>1, <1>2, <1>3, <1>4

\* Every step keeps the types.
LEMMA TypeStep == TypeOK /\ [Next]_vars => TypeOK'
<1> SUFFICES ASSUME TypeOK, [Next]_vars PROVE TypeOK'
  OBVIOUS
<1>1. CASE SignalChanges
  BY <1>1 DEF SignalChanges, TypeOK, thread, client
<1>2. CASE Associate
  BY <1>2 DEF Associate, TypeOK, thread, client
<1>3. CASE LoseLink
  BY <1>3 DEF LoseLink, TypeOK, thread, client
<1>4. CASE CalmDown
  BY <1>4 DEF CalmDown, TypeOK, thread, client
<1>5. CASE DelayEnds
  BY <1>5 DEF DelayEnds, TypeOK, radio, client
<1>6. CASE UNCHANGED vars
  BY <1>6 DEF vars, TypeOK, thread, radio, client
<1>7. QED
  BY <1>1, <1>2, <1>3, <1>4, <1>5, <1>6, HandlerType, ServerType DEF Next

\* At start-up the variables have their types.
LEMMA InitType == Init => TypeOK
<1> SUFFICES ASSUME Init PROVE TypeOK
  OBVIOUS
<1>1. /\ nCurChkTimes \in 0 .. MaxChkTimes - 1 /\ patience \in 0 .. MaxChkTimes
      /\ tries \in 0 .. ScanRetries
  BY DEF Init
<1>2. signal \in [AccessPoints -> Signals] /\ trigger \in [Endpoints -> BOOLEAN]
  BY DEF Init
<1>3. QED BY <1>1, <1>2 DEF Init, TypeOK, Pcs

\* The ranges of the thread's counters, and the better access point it has
\* found, hold throughout.
THEOREM TypeCorrect == Spec => []TypeOK
BY InitType, TypeStep, PTL DEF Spec

-----------------------------------------------------------------------------
(* A muted server gives its connection time                                 *)

\* Checks are only counted while streams are muted, between two handlers; the
\* count never runs ahead of the failures there have been, and a handler that
\* got past the count was patient.
Counted ==
  /\ pc # "idle" \/ ~g_bStopSend => nCurChkTimes = 0
  /\ g_bStopSend /\ pc = "idle" => nCurChkTimes <= patience
  /\ g_bStopSend /\ pc \in {"search", "scan", "ssid"} => patience = MaxChkTimes

PatienceInv == TypeOK /\ Counted

\* The count is kept by the handler.
LEMMA HandlerCounts ==
  ASSUME PatienceInv, Handler
  PROVE  Counted'
<1>1. TypeOK /\ Counted
  BY DEF PatienceInv
<1>2. CASE CheckQuality
  <2>1. PICK quality \in Quality :
          LET good == quality > 0 /\ quality >= Threshold
          IN /\ g_bStopSend' = (g_bStopSend /\ ~good)
             /\ nCurChkTimes' = NextTimes(good)
             /\ patience' = IF good THEN 0
                            ELSE IF g_bStopSend /\ patience < MaxChkTimes
                                 THEN patience + 1 ELSE patience
             /\ due' = FALSE
             /\ pc' = IF good \/ Waits THEN "idle"
                      ELSE IF quality = 0 THEN "ssid" ELSE "search"
    BY <1>2 DEF CheckQuality
  <2> DEFINE good == quality > 0 /\ quality >= Threshold
  <2>2. /\ pc = "idle"
        /\ nCurChkTimes' = NextTimes(good)
        /\ patience' = IF good THEN 0
                       ELSE IF g_bStopSend /\ patience < MaxChkTimes
                            THEN patience + 1 ELSE patience
        /\ g_bStopSend' <=> g_bStopSend /\ ~good
    BY <1>2, <2>1 DEF CheckQuality
  <2>3. /\ good \/ Waits => pc' = "idle"
        /\ ~(good \/ Waits) => pc' = "ssid" \/ pc' = "search"
    BY <2>1
  <2> HIDE DEF good
  <2>4. CASE good
    BY <2>2, <2>4 DEF Counted, NextTimes
  <2>5. CASE ~good /\ Waits
    <3>1. nCurChkTimes' = nCurChkTimes + 1
      BY <2>2, <2>5 DEF NextTimes
    <3>2. pc' = "idle"
      BY <2>3, <2>5
    <3>3. /\ patience' = IF patience < MaxChkTimes THEN patience + 1 ELSE patience
          /\ g_bStopSend /\ nCurChkTimes + 1 < MaxChkTimes
      BY <2>2, <2>5 DEF Waits
    <3>4. nCurChkTimes' <= patience'
      BY <1>1, <2>2, <3>1, <3>3 DEF Counted, TypeOK
    <3>5. g_bStopSend'
      BY <2>2, <2>5, <3>3
    <3>6. QED BY <3>2, <3>4, <3>5 DEF Counted
  <2>6. CASE ~good /\ ~Waits
    <3>1. nCurChkTimes' = 0 /\ (pc' = "ssid" \/ pc' = "search")
      BY <1>1, <2>3, <2>2, <2>6 DEF NextTimes, TypeOK
    <3>2. ASSUME g_bStopSend PROVE patience' = MaxChkTimes
      <4>1. patience' = IF patience < MaxChkTimes THEN patience + 1 ELSE patience
        BY <2>2, <2>6, <3>2
      <4>2. nCurChkTimes + 1 >= MaxChkTimes
        BY <1>1, <2>6, <3>2 DEF Waits, TypeOK
      <4>3. nCurChkTimes <= patience
        BY <1>1, <2>2, <3>2 DEF Counted
      <4>4. QED BY <1>1, <4>1, <4>2, <4>3 DEF TypeOK
    <3>3. QED BY <2>2, <3>1, <3>2 DEF Counted
  <2>7. QED BY <2>4, <2>5, <2>6
<1>3. CASE Search
  BY <1>1, <1>3 DEF Search, WifiAddr, Counted
<1>4. CASE ScanAgain
  BY <1>1, <1>4 DEF ScanAgain, Counted
<1>5. CASE ScanEnds
  BY <1>1, <1>5 DEF ScanEnds, Counted, TypeOK
<1>6. CASE Connect2Ssid
  BY <1>1, <1>6 DEF Connect2Ssid, Counted
<1>7. CASE Mute
  BY <1>1, <1>7 DEF Mute, Counted, TypeOK
<1>8. CASE Connect2NewAp
  BY <1>1, <1>8 DEF Connect2NewAp, Counted, TypeOK
<1>9. QED
  BY <1>2, <1>3, <1>4, <1>5, <1>6, <1>7, <1>8 DEF Handler

\* Nobody else touches the mute flag, the count or the handler's place.
LEMMA PatienceStep == PatienceInv /\ [Next]_vars => PatienceInv'
<1> SUFFICES ASSUME PatienceInv, [Next]_vars PROVE PatienceInv'
  OBVIOUS
<1>1. TypeOK'
  BY TypeStep DEF PatienceInv
<1>2. CASE Handler
  BY <1>1, <1>2, HandlerCounts DEF PatienceInv
<1>3. ASSUME UNCHANGED <<g_bStopSend, nCurChkTimes, pc, patience>> PROVE PatienceInv'
  BY <1>1, <1>3 DEF PatienceInv, Counted
<1>4. CASE SignalChanges \/ Associate \/ LoseLink \/ CalmDown
  BY <1>3, <1>4 DEF SignalChanges, Associate, LoseLink, CalmDown, thread
<1>5. CASE DelayEnds
  BY <1>3, <1>5 DEF DelayEnds
<1>6. CASE Server
  BY <1>3, <1>6, ServerType DEF PatienceInv, thread
<1>7. CASE UNCHANGED vars
  BY <1>3, <1>7 DEF vars, thread
<1>8. QED
  BY <1>2, <1>4, <1>5, <1>6, <1>7 DEF Next

\* The counts of PatienceInv hold in every state.
THEOREM Invariance == Spec => []PatienceInv
<1>1. Init => PatienceInv
  BY InitType DEF PatienceInv, Counted, Init
<1>2. QED BY <1>1, PatienceStep, PTL DEF Spec

\* While streams are muted, the thread reconnects only after MaxChkTimes failed
\* checks in a row since the last reconnection: a link that is coming up is not
\* taken down again.
THEOREM MutedIsPatient == Spec => Patient
<1>1. PatienceInv /\ Connect2Ssid => (g_bStopSend => patience = MaxChkTimes)
  BY DEF PatienceInv, Counted, Connect2Ssid
<1>2. PatienceInv /\ [Next]_vars => [Connect2Ssid => (g_bStopSend => patience = MaxChkTimes)]_vars
  BY <1>1
<1>3. Spec => [][Next]_vars
  BY PTL DEF Spec
<1>4. QED BY <1>2, <1>3, Invariance, PTL DEF Patient

-----------------------------------------------------------------------------
(* The encoder's queue                                                      *)

USE QueueAssumption

\* The encoder alone, without what else is checked beside it.
QueueSpec == QueueInit /\ [][QueueNext]_queueVars

-----------------------------------------------------------------------------
(* Sequences of numbers                                                     *)

\* Growing, between any two of its members and not only between neighbours.
Sorted(s) == \A i, j \in 1 .. Len(s) : i < j => s[i] < s[j]

LEMMA Associative ==
  ASSUME NEW x \in Seq(Nat), NEW y \in Seq(Nat), NEW z \in Seq(Nat)
  PROVE  (x \o y) \o z = x \o (y \o z)
BY ConcatAssociative, SMTT(30)

LEMMA SetOf ==
  ASSUME NEW s \in Seq(Nat), NEW x
  PROVE  x \in ToSet(s) <=> \E i \in 1 .. Len(s) : s[i] = x
BY DEF ToSet

\* A sequence is its first member and the others.
LEMMA HeadAndTail ==
  ASSUME NEW t \in Seq(Nat), t # <<>>
  PROVE  /\ Head(t) \in Nat /\ Tail(t) \in Seq(Nat) /\ Len(Tail(t)) = Len(t) - 1
         /\ <<Head(t)>> \in Seq(Nat) /\ <<Head(t)>> \o Tail(t) = t
<1>1. /\ Head(t) \in Nat /\ Tail(t) \in Seq(Nat) /\ Len(Tail(t)) = Len(t) - 1
      /\ \A i \in 1 .. Len(Tail(t)) : Tail(t)[i] = t[i + 1]
  BY HeadTailProperties
<1>2. <<Head(t)>> \in Seq(Nat) /\ Len(<<Head(t)>>) = 1 /\ <<Head(t)>>[1] = t[1]
  BY <1>1
<1>3. Len(t) \in Nat /\ Len(t) # 0
  BY EmptySeq
<1> PICK u : u = <<Head(t)>> \o Tail(t) OBVIOUS
<1>4. /\ u \in Seq(Nat) /\ Len(u) = 1 + Len(Tail(t))
      /\ \A i \in 1 .. 1 + Len(Tail(t)) :
           u[i] = IF i <= 1 THEN <<Head(t)>>[i] ELSE Tail(t)[i - 1]
  BY <1>1, <1>2, ConcatProperties
<1>5. Len(u) = Len(t)
  BY <1>1, <1>3, <1>4
<1>6. ASSUME NEW i \in 1 .. Len(t) PROVE u[i] = t[i]
  <2>1. CASE i = 1
    BY <1>1, <1>2, <1>3, <1>4, <2>1
  <2>2. CASE i # 1
    <3>1. i - 1 \in 1 .. Len(Tail(t)) /\ ~(i <= 1) /\ (i - 1) + 1 = i /\ i \in 1 .. 1 + Len(Tail(t))
      BY <1>1, <1>3, <2>2
    <3>2. Tail(t)[i - 1] = t[i]
      BY <1>1, <3>1
    <3>3. QED BY <1>4, <3>1, <3>2
  <2>3. QED BY <2>1, <2>2
<1>7. u = t
  BY <1>4, <1>5, <1>6, SeqEqual
<1>8. QED BY <1>1, <1>2, <1>7

\* The first member of the second of two sequences goes between them.
LEMMA HeadMoves ==
  ASSUME NEW s \in Seq(Nat), NEW t \in Seq(Nat), t # <<>>
  PROVE  (s \o <<Head(t)>>) \o Tail(t) = s \o t
<1>1. <<Head(t)>> \in Seq(Nat) /\ Tail(t) \in Seq(Nat) /\ <<Head(t)>> \o Tail(t) = t
  BY HeadAndTail
<1>2. (s \o <<Head(t)>>) \o Tail(t) = s \o (<<Head(t)>> \o Tail(t))
  BY <1>1, Associative
<1>3. QED BY <1>1, <1>2

\* What is larger than all the others comes last.
LEMMA SortedAppend ==
  ASSUME NEW s \in Seq(Nat), Sorted(s), NEW n \in Nat, \A x \in ToSet(s) : x < n
  PROVE  /\ Append(s, n) \in Seq(Nat) /\ Sorted(Append(s, n))
         /\ \A y : y \in ToSet(Append(s, n)) <=> y \in ToSet(s) \/ y = n
<1> PICK t, l : t = Append(s, n) /\ l = Len(s) OBVIOUS
<1>1. /\ t \in Seq(Nat) /\ Len(t) = l + 1 /\ l \in Nat
      /\ \A i \in 1 .. l : t[i] = s[i]
      /\ t[l + 1] = n
  BY AppendProperties
<1>2. ASSUME NEW i \in 1 .. l PROVE s[i] < n /\ s[i] \in Nat
  <2>1. s[i] \in ToSet(s)
    BY SetOf
  <2>2. QED BY <2>1
<1>3. ASSUME NEW i \in 1 .. Len(t), NEW j \in 1 .. Len(t), i < j PROVE t[i] < t[j]
  <2>1. i \in 1 .. l
    BY <1>1, <1>3
  <2>2. CASE j = l + 1
    BY <1>1, <1>2, <2>1, <2>2
  <2>3. CASE j # l + 1
    <3>1. j \in 1 .. l
      BY <1>1, <2>3
    <3>2. s[i] < s[j]
      BY <1>3, <2>1, <3>1 DEF Sorted
    <3>3. QED BY <1>1, <2>1, <3>1, <3>2
  <2>4. QED BY <2>2, <2>3
<1>4. ASSUME NEW x PROVE x \in ToSet(t) <=> x \in ToSet(s) \cup {n}
  <2>1. ASSUME x \in ToSet(t) PROVE x \in ToSet(s) \cup {n}
    <3>1. PICK i \in 1 .. Len(t) : t[i] = x
      BY <1>1, <2>1, SetOf
    <3>2. i \in 1 .. l + 1 /\ t[i] = x
      BY <1>1, <3>1
    <3>3. CASE i = l + 1
      BY <1>1, <3>2, <3>3
    <3>4. CASE i # l + 1
      <4>1. i \in 1 .. l
        BY <1>1, <3>4
      <4>2. QED BY <1>1, <3>2, <4>1, SetOf
    <3>5. QED BY <3>3, <3>4
  <2>2. ASSUME x \in ToSet(s) PROVE x \in ToSet(t)
    <3>1. PICK i \in 1 .. l : s[i] = x
      BY <2>2, SetOf
    <3>2. t[i] = x /\ i \in 1 .. Len(t)
      BY <1>1, <3>1
    <3>3. QED BY <1>1, <3>2, SetOf
  <2>3. n \in ToSet(t)
    <3>1. l + 1 \in 1 .. Len(t)
      BY <1>1
    <3>2. QED BY <1>1, <3>1, SetOf
  <2>4. QED BY <2>1, <2>2, <2>3
<1>5. Sorted(t)
  BY <1>3 DEF Sorted
<1>6. \A y : y \in ToSet(t) <=> y \in ToSet(s) \/ y = n
  BY <1>4
<1>7. QED BY <1>1, <1>5, <1>6

\* The sequence t is s without its member number m.
LEMMA WithoutOne ==
  ASSUME NEW s \in Seq(Nat), NEW t \in Seq(Nat), NEW m \in 1 .. Len(s),
         Len(s) = Len(t) + 1,
         \A i \in 1 .. Len(t) : t[i] = IF i < m THEN s[i] ELSE s[i + 1],
         Sorted(s)
  PROVE  Sorted(t) /\ \A y : y \in ToSet(t) <=> y \in ToSet(s) /\ y # s[m]
\* Where the members of t are in s.
<1> DEFINE at(i) == IF i < m THEN i ELSE i + 1
<1> PICK n : n = Len(t)
  OBVIOUS
<1>1. n \in Nat /\ Len(s) = n + 1 /\ m \in 1 .. n + 1
  OBVIOUS
<1>2. ASSUME NEW i \in 1 .. n
      PROVE  at(i) \in 1 .. n + 1 /\ at(i) # m /\ t[i] = s[at(i)]
  <2>1. t[i] = IF i < m THEN s[i] ELSE s[i + 1]
    OBVIOUS
  <2>2. QED BY <1>1, <2>1
<1>3. ASSUME NEW i \in 1 .. n, NEW j \in 1 .. n, i < j PROVE t[i] < t[j]
  <2> PICK c, d : c = at(i) /\ d = at(j)
    OBVIOUS
  <2>1. c < d
    BY SMTT(30), <1>1, <1>3
  <2>2. c \in 1 .. Len(s) /\ d \in 1 .. Len(s) /\ t[i] = s[c] /\ t[j] = s[d]
    BY <1>1, <1>2
  <2>3. s[c] < s[d]
    BY <2>1, <2>2 DEF Sorted
  <2>4. QED BY <2>2, <2>3
<1>4. ASSUME NEW k \in 1 .. n + 1, k # m
      PROVE  s[k] # s[m] /\ \E i \in 1 .. n : at(i) = k
  <2>1. k \in 1 .. Len(s)
    BY <1>1
  <2>2. s[k] \in Nat /\ s[m] \in Nat
    BY <2>1
  <2>3. CASE k < m
    <3>1. s[k] < s[m]
      BY <2>1, <2>3 DEF Sorted
    <3>2. at(k) = k /\ k \in 1 .. n
      BY <1>1, <2>3
    <3> HIDE DEF at
    <3>3. \E i \in 1 .. n : at(i) = k
      BY <3>2
    <3>4. s[k] # s[m]
      BY <2>2, <3>1
    <3>5. QED BY <3>3, <3>4
  <2>4. CASE m < k
    <3>1. s[m] < s[k]
      BY <2>1, <2>4 DEF Sorted
    <3>2. at(k - 1) = k /\ k - 1 \in 1 .. n
      BY <1>1, <2>4
    <3> HIDE DEF at
    <3>3. \E i \in 1 .. n : at(i) = k
      BY <3>2
    <3>4. s[k] # s[m]
      BY <2>2, <3>1
    <3>5. QED BY <3>3, <3>4
  <2>5. QED BY <1>1, <1>4, <2>3, <2>4
<1> HIDE DEF at
<1>5. ASSUME NEW y PROVE y \in ToSet(t) <=> y \in ToSet(s) /\ y # s[m]
  <2>1. ASSUME y \in ToSet(t) PROVE y \in ToSet(s) /\ y # s[m]
    <3>1. PICK i \in 1 .. Len(t) : t[i] = y
      BY <2>1, SetOf
    <3>2. at(i) \in 1 .. n + 1 /\ at(i) # m /\ s[at(i)] = y
      BY <1>2, <3>1
    <3>3. s[at(i)] # s[m]
      BY <1>4, <3>2
    <3>4. at(i) \in 1 .. Len(s)
      BY <1>1, <3>2
    <3>5. QED BY <3>2, <3>3, <3>4, SetOf
  <2>2. ASSUME y \in ToSet(s), y # s[m] PROVE y \in ToSet(t)
    <3>1. PICK k \in 1 .. Len(s) : s[k] = y
      BY <2>2, SetOf
    <3>2. k \in 1 .. n + 1 /\ k # m
      BY <1>1, <2>2, <3>1
    <3>3. PICK i \in 1 .. n : at(i) = k
      BY <1>4, <3>2
    <3>4. t[i] = y /\ i \in 1 .. Len(t)
      BY <1>2, <3>1, <3>3
    <3>5. QED BY <3>4, SetOf
  <2>3. QED BY <2>1, <2>2
<1>6. Sorted(t)
  BY <1>3 DEF Sorted
<1>7. QED BY <1>5, <1>6

\* One taken out of the middle leaves the others in their order.
LEMMA SortedWithout ==
  ASSUME NEW p \in Seq(Nat), NEW x \in Nat, NEW n \in Seq(Nat), Sorted((p \o <<x>>) \o n)
  PROVE  /\ Sorted(p \o n)
         /\ \A y : y \in ToSet(p \o n) <=> y \in ToSet((p \o <<x>>) \o n) /\ y # x
<1> PICK q, s, t, a, b :
      q = p \o <<x>> /\ s = q \o n /\ t = p \o n /\ a = Len(p) /\ b = Len(n)
  OBVIOUS
<1>1. a \in Nat /\ b \in Nat
  OBVIOUS
<1>2. /\ q \in Seq(Nat) /\ Len(q) = a + 1
      /\ \A i \in 1 .. a : q[i] = p[i]
      /\ q[a + 1] = x
  OBVIOUS
<1>3. /\ s \in Seq(Nat) /\ Len(s) = a + 1 + b
      /\ \A i \in 1 .. a + 1 + b : s[i] = IF i <= a + 1 THEN q[i] ELSE n[i - (a + 1)]
  BY <1>2, ConcatProperties
<1>4. /\ t \in Seq(Nat) /\ Len(t) = a + b
      /\ \A i \in 1 .. a + b : t[i] = IF i <= a THEN p[i] ELSE n[i - a]
  BY ConcatProperties
<1>5. ASSUME NEW i \in 1 .. a + b PROVE t[i] = IF i <= a THEN s[i] ELSE s[i + 1]
  <2>1. CASE i <= a
    <3>1. i \in 1 .. a /\ i <= a + 1 /\ i \in 1 .. a + 1 + b
      BY ONLY <1>1, <2>1
    <3>2. QED BY ONLY <1>2, <1>3, <1>4, <2>1, <3>1
  <2>2. CASE ~(i <= a)
    <3>1. ~(i + 1 <= a + 1) /\ (i + 1) - (a + 1) = i - a /\ i + 1 \in 1 .. a + 1 + b
      BY ONLY <1>1, <2>2
    <3>2. QED BY ONLY <1>3, <1>4, <2>2, <3>1
  <2>3. QED BY ONLY <2>1, <2>2
<1> PICK m : m = a + 1
  OBVIOUS
<1>6. s[m] = x
  BY <1>1, <1>2, <1>3
<1>7. Sorted(t) /\ \A y : y \in ToSet(t) <=> y \in ToSet(s) /\ y # x
  <2>1. Sorted(s)
    OBVIOUS
  <2>2. s \in Seq(Nat) /\ t \in Seq(Nat) /\ m \in 1 .. Len(s) /\ Len(s) = Len(t) + 1
    BY <1>1, <1>3, <1>4
  <2>3. \A i \in 1 .. Len(t) : t[i] = IF i < m THEN s[i] ELSE s[i + 1]
    <3> TAKE i \in 1 .. Len(t)
    <3>1. i \in 1 .. a + b /\ (i <= a <=> i < m)
      BY <1>1, <1>4
    <3>2. QED BY ONLY <1>5, <3>1
  <2>4. Sorted(t)
    BY ONLY <2>1, <2>2, <2>3, WithoutOne
  <2>5. \A y : y \in ToSet(t) <=> y \in ToSet(s) /\ y # s[m]
    BY ONLY <2>1, <2>2, <2>3, WithoutOne
  <2>6. QED BY ONLY <1>6, <2>4, <2>5
<1>8. QED BY <1>7

-----------------------------------------------------------------------------
(* The invariant                                                            *)

QueueTypeOK ==
  /\ se_list \in [Queues -> Seq(Nat)] /\ bytes \in Nat /\ signalled \in BOOLEAN
  /\ worker \in {"get", "waiting", "have"} /\ in \in Nat
  /\ put \in Nat /\ dropped \in SUBSET (1 .. put) /\ delivered \in Seq(Nat)

\* The frames on their way, the oldest first.
InHand == IF in = None THEN <<>> ELSE <<in>>
Behind == delivered \o se_list["out"]
Order  == (Behind \o InHand) \o se_list["in"]

\* The frames that are not lost are on their way, in the order of their numbers.
InOrder == Sorted(Order) /\ \A y : y \in ToSet(Order) <=> y \in 1 .. put /\ y \notin dropped

\* The worker has a frame when it is encoding one, and waits without a signal
\* exactly while the queue is empty.
WorkerKnows == /\ worker = "have" <=> in # None
               /\ worker = "waiting" => (signalled <=> se_list["in"] # <<>>)

\* A byte of the pipe for each entry of the queue.
BytesMatch == bytes = Len(se_list["out"])

QueueInv == QueueTypeOK /\ InOrder /\ WorkerKnows /\ BytesMatch

LEMMA Parts ==
  ASSUME QueueTypeOK
  PROVE  /\ se_list["in"] \in Seq(Nat) /\ se_list["out"] \in Seq(Nat)
         /\ InHand \in Seq(Nat) /\ Behind \in Seq(Nat) /\ Order \in Seq(Nat)
<1>1. se_list["in"] \in Seq(Nat) /\ se_list["out"] \in Seq(Nat) /\ delivered \in Seq(Nat)
  BY DEF QueueTypeOK, Queues
<1>2. InHand \in Seq(Nat)
  BY DEF QueueTypeOK, InHand
<1>3. Behind \in Seq(Nat)
  BY <1>1 DEF Behind
<1>4. QED BY <1>1, <1>2, <1>3 DEF Order

LEMMA QueueInitInv == QueueInit => QueueInv
<1> SUFFICES ASSUME QueueInit PROVE QueueInv
  OBVIOUS
<1>1. QueueTypeOK
  <2>1. se_list \in [Queues -> Seq(Nat)]
    BY DEF QueueInit
  <2>2. dropped \in SUBSET (1 .. put)
    BY DEF QueueInit
  <2>3. delivered \in Seq(Nat)
    BY DEF QueueInit
  <2>4. signalled \in BOOLEAN /\ worker \in {"get", "waiting", "have"}
    BY DEF QueueInit
  <2>5. bytes \in Nat /\ in \in Nat /\ put \in Nat
    BY DEF QueueInit, None
  <2>6. QED BY <2>1, <2>2, <2>3, <2>4, <2>5 DEF QueueTypeOK
<1>2. Order = <<>>
  <2>1. se_list["in"] = <<>> /\ se_list["out"] = <<>> /\ InHand = <<>> /\ delivered = <<>>
    BY DEF QueueInit, Queues, InHand
  <2>2. <<>> \o <<>> = <<>>
    BY EmptySeq, ConcatEmptySeq
  <2>3. QED BY <2>1, <2>2 DEF Order, Behind
<1>3. InOrder
  <2>1. Sorted(<<>>)
    BY DEF Sorted
  <2>2. ASSUME NEW y PROVE y \notin ToSet(<<>>)
    BY DEF ToSet
  <2>3. \A y : y \notin 1 .. put
    BY DEF QueueInit
  <2>4. QED BY <1>2, <2>1, <2>2, <2>3 DEF InOrder
<1>4. WorkerKnows /\ BytesMatch
  BY DEF QueueInit, WorkerKnows, BytesMatch, Queues
<1>5. QED BY <1>1, <1>3, <1>4 DEF QueueInv

\* A frame on its way has a number that was given out.
LEMMA OnItsWay ==
  ASSUME QueueInv
  PROVE  /\ \A y \in ToSet(Order) : y \in 1 .. put
         /\ se_list["in"] # <<>> => Head(se_list["in"]) # None
<1>1. \A y \in ToSet(Order) : y \in 1 .. put
  BY DEF QueueInv, InOrder
<1>2. ASSUME se_list["in"] # <<>> PROVE Head(se_list["in"]) # None
  <2> PICK n, p, t : n = se_list["in"] /\ p = Behind \o InHand /\ t = Order
    OBVIOUS
  <2>1. n \in Seq(Nat) /\ p \in Seq(Nat) /\ t \in Seq(Nat) /\ t = p \o n
    BY Parts DEF QueueInv, Order
  <2>2. Len(n) \in Nat /\ Len(n) # 0 /\ Head(n) = n[1]
    BY <1>2, <2>1, EmptySeq
  <2> PICK k : k = Len(p) + 1
    OBVIOUS
  <2>3. k \in 1 .. Len(t) /\ t[k] = n[1]
    <3>1. /\ Len(t) = Len(p) + Len(n)
          /\ \A i \in 1 .. Len(p) + Len(n) : t[i] = IF i <= Len(p) THEN p[i] ELSE n[i - Len(p)]
      BY ONLY <2>1, ConcatProperties
    <3>2. k \in 1 .. Len(p) + Len(n) /\ ~(k <= Len(p)) /\ k - Len(p) = 1
      BY <2>1, <2>2
    <3>3. QED BY ONLY <3>1, <3>2
  <2>4. t[k] \in ToSet(t)
    BY ONLY <2>1, <2>3, SetOf
  <2>5. t[k] \in 1 .. put
    BY <1>1, <2>4
  <2>6. QED BY <2>2, <2>3, <2>5 DEF None
<1>3. QED BY <1>1, <1>2

\* Order does not see that the worker takes the first frame of its queue.
LEMMA TakeKeepsOrder ==
  ASSUME QueueInv, in = None, se_list["in"] # <<>>, in' = Head(se_list["in"]), Take("in"),
         delivered' = delivered
  PROVE  /\ in' \in Nat /\ in' # None /\ se_list' \in [Queues -> Seq(Nat)]
         /\ se_list'["out"] = se_list["out"] /\ Order' = Order
<1>1. QueueTypeOK
  BY DEF QueueInv
<1> PICK n, b : n = se_list["in"] /\ b = Behind
  OBVIOUS
<1>2. n \in Seq(Nat) /\ b \in Seq(Nat) /\ n # <<>>
  BY <1>1, Parts
<1>3. /\ Head(n) \in Nat /\ Tail(n) \in Seq(Nat)
      /\ (b \o <<Head(n)>>) \o Tail(n) = b \o n
  BY ONLY <1>2, HeadAndTail, HeadMoves
<1>4. in' \in Nat /\ in' # None
  BY <1>3, OnItsWay
<1>5. /\ se_list' \in [Queues -> Seq(Nat)]
      /\ se_list'["in"] = Tail(n) /\ se_list'["out"] = se_list["out"]
  BY <1>1, <1>3 DEF Take, QueueTypeOK, Queues
<1>6. Behind' = b /\ InHand' = <<Head(n)>>
  BY <1>4, <1>5 DEF Behind, InHand
<1>7. Order' = (b \o <<Head(n)>>) \o Tail(n)
  BY <1>5, <1>6 DEF Order
<1>8. b \o <<>> = b
  BY ONLY <1>2, ConcatEmptySeq
<1>9. Order = b \o n
  BY <1>8 DEF Order, InHand
<1>10. QED BY <1>3, <1>4, <1>5, <1>7, <1>9

LEMMA GetStep ==
  ASSUME QueueInv, get_next_event \/ get_next_event_Woken
  PROVE  QueueInv'
<1>1. QueueTypeOK /\ InOrder /\ WorkerKnows /\ BytesMatch
  BY DEF QueueInv
<1>2. in = None
  BY <1>1 DEF WorkerKnows, get_next_event, get_next_event_Woken
<1>3. UNCHANGED <<bytes, put, dropped, delivered>>
  BY DEF get_next_event, get_next_event_Woken
<1>4. CASE se_list["in"] = <<>>
  <2>1. get_next_event
    BY <1>1, <1>4 DEF get_next_event_Woken, WorkerKnows
  <2>2. worker' = "waiting" /\ signalled' = FALSE /\ UNCHANGED <<se_list, in>>
    BY <1>4, <2>1 DEF get_next_event
  <2>3. Order' = Order
    BY <1>3, <2>2 DEF Order, Behind, InHand
  <2>4. QueueTypeOK'
    BY <1>1, <1>3, <2>2 DEF QueueTypeOK
  <2>5. InOrder'
    BY <1>1, <1>3, <2>3 DEF InOrder
  <2>6. WorkerKnows' /\ BytesMatch'
    BY <1>1, <1>2, <1>3, <1>4, <2>2 DEF WorkerKnows, BytesMatch
  <2>7. QED BY <2>4, <2>5, <2>6 DEF QueueInv
<1>5. CASE se_list["in"] # <<>>
  <2>1. worker' = "have" /\ in' = Head(se_list["in"]) /\ Take("in") /\ UNCHANGED signalled
    BY <1>5 DEF get_next_event, get_next_event_Woken
  <2>2. /\ in' \in Nat /\ in' # None /\ se_list' \in [Queues -> Seq(Nat)]
        /\ se_list'["out"] = se_list["out"] /\ Order' = Order
    BY <1>2, <1>3, <1>5, <2>1, TakeKeepsOrder
  <2>3. QueueTypeOK'
    BY <1>1, <1>3, <2>1, <2>2 DEF QueueTypeOK
  <2>4. InOrder'
    BY <1>1, <1>3, <2>2 DEF InOrder
  <2>5. WorkerKnows' /\ BytesMatch'
    BY <1>1, <1>3, <2>1, <2>2 DEF WorkerKnows, BytesMatch
  <2>6. QED BY <2>3, <2>4, <2>5 DEF QueueInv
<1>6. QED BY <1>4, <1>5

\* What an added entry does to a queue.
LEMMA AppendEntry ==
  ASSUME QueueTypeOK, NEW q \in Queues, NEW f \in Nat, add_to_list(q, f)
  PROVE  /\ se_list' \in [Queues -> Seq(Nat)]
         /\ se_list'[q] = Append(se_list[q], f)
         /\ \A o \in Queues : o # q => se_list'[o] = se_list[o]
         /\ Len(se_list'[q]) = Len(se_list[q]) + 1
<1>1. se_list \in [Queues -> Seq(Nat)] /\ se_list[q] \in Seq(Nat)
  BY DEF QueueTypeOK
<1>2. Append(se_list[q], f) \in Seq(Nat) /\ Len(Append(se_list[q], f)) = Len(se_list[q]) + 1
  BY <1>1, AppendProperties
<1>3. QED BY <1>1, <1>2 DEF add_to_list

LEMMA EncodeStep ==
  ASSUME QueueInv, mp2_encode
  PROVE  QueueInv'
<1>1. QueueTypeOK /\ InOrder /\ WorkerKnows /\ BytesMatch
  BY DEF QueueInv
<1> PICK f, n, o : f = put + 1 /\ n = se_list["in"] /\ o = Order
  OBVIOUS
<1>2. /\ f \in Nat /\ put' = f /\ soft_queue_add("in", f)
      /\ UNCHANGED <<worker, in, delivered>>
  BY <1>1 DEF QueueTypeOK, mp2_encode
<1>3. /\ n \in Seq(Nat) /\ o \in Seq(Nat) /\ Behind \o InHand \in Seq(Nat)
      /\ o = (Behind \o InHand) \o n
  BY <1>1, Parts DEF Order
<1>4. \A y : y \in 1 .. f <=> y \in 1 .. put \/ y = f
  BY <1>1 DEF QueueTypeOK
<1>5. f \notin 1 .. put /\ \A y \in 1 .. put : y < f
  BY <1>1 DEF QueueTypeOK
<1>6. dropped \subseteq 1 .. put
  BY <1>1 DEF QueueTypeOK
<1>7. CASE HasEntry("in")
  <2>1. /\ add_to_list("in", f) /\ bytes' = bytes /\ dropped' = dropped
        /\ signalled' = (signalled \/ worker = "waiting")
    BY <1>2, <1>7 DEF soft_queue_add, Watched
  <2>2. /\ se_list' \in [Queues -> Seq(Nat)] /\ se_list'["in"] = Append(n, f)
        /\ se_list'["out"] = se_list["out"]
    BY <1>1, <1>2, <2>1, AppendEntry DEF Queues
  <2>3. Order' = (Behind \o InHand) \o Append(n, f)
    BY <1>2, <2>2 DEF Order, Behind, InHand
  <2>4. (Behind \o InHand) \o Append(n, f) = Append(o, f)
    <3>1. \A p \in Seq(Nat) : p \o Append(n, f) = Append(p \o n, f)
      <4> TAKE p \in Seq(Nat)
      <4>1. Append(n, f) = n \o <<f>> /\ p \o n \in Seq(Nat) /\ <<f>> \in Seq(Nat)
        BY ONLY <1>2, <1>3, AppendIsConcat
      <4>2. Append(p \o n, f) = (p \o n) \o <<f>>
        BY ONLY <1>2, <4>1, AppendIsConcat
      <4>3. \A x, y, z \in Seq(Nat) : (x \o y) \o z = x \o (y \o z)
        BY ONLY Associative
      <4>4. (p \o n) \o <<f>> = p \o (n \o <<f>>)
        BY ONLY <1>3, <4>1, <4>3
      <4>5. QED BY ONLY <4>1, <4>2, <4>4
    <3>2. QED BY <1>3, <3>1
  <2>5. Sorted(o) /\ \A y : y \in ToSet(o) <=> y \in 1 .. put /\ y \notin dropped
    BY <1>1 DEF InOrder
  <2>6. Sorted(Append(o, f)) /\ \A y : y \in ToSet(Append(o, f)) <=> y \in ToSet(o) \/ y = f
    <3>1. \A x \in ToSet(o) : x < f
      BY <1>5, <2>5
    <3>2. QED BY ONLY <1>2, <1>3, <2>5, <3>1, SortedAppend
  <2>7. InOrder'
    <3>1. Sorted(Order')
      BY <2>3, <2>4, <2>6
    <3>2. ASSUME NEW y PROVE y \in ToSet(Order') <=> y \in 1 .. put' /\ y \notin dropped'
      BY <1>2, <1>4, <1>5, <1>6, <2>1, <2>3, <2>4, <2>5, <2>6
    <3>3. QED BY <3>1, <3>2 DEF InOrder
  <2>8. QueueTypeOK'
    <3>1. dropped' \in SUBSET (1 .. put')
      BY <1>2, <1>4, <1>6, <2>1
    <3>2. signalled' \in BOOLEAN
      BY <1>1, <2>1 DEF QueueTypeOK
    <3>3. QED BY <1>1, <1>2, <2>1, <2>2, <3>1, <3>2 DEF QueueTypeOK
  <2>9. WorkerKnows'
    <3>1. Append(n, f) # <<>>
      <4>1. n \in Seq(Nat) /\ f \in Nat
        BY <1>2, <1>3
      <4>2. QED BY ONLY ZenonT(30), <4>1, AppendProperties
    <3>2. QED BY <1>1, <1>2, <2>1, <2>2, <3>1, ZenonT(30) DEF WorkerKnows
  <2>10. BytesMatch'
    BY <1>1, <2>1, <2>2 DEF BytesMatch
  <2>11. QED BY <2>7, <2>8, <2>9, <2>10 DEF QueueInv
<1>8. CASE ~HasEntry("in")
  <2>1. dropped' = dropped \cup {f} /\ UNCHANGED <<se_list, bytes, signalled>>
    BY <1>2, <1>8 DEF soft_queue_add
  <2>2. Order' = o
    BY <1>2, <2>1 DEF Order, Behind, InHand
  <2>3. InOrder'
    <3>1. Sorted(Order')
      BY <1>1, <2>2 DEF InOrder
    <3>2. ASSUME NEW y PROVE y \in ToSet(Order') <=> y \in 1 .. put' /\ y \notin dropped'
      <4>1. y \in ToSet(o) <=> y \in 1 .. put /\ y \notin dropped
        BY <1>1 DEF InOrder
      <4>2. QED BY <1>2, <1>4, <1>5, <2>1, <2>2, <4>1
    <3>3. QED BY <3>1, <3>2 DEF InOrder
  <2>4. QueueTypeOK'
    <3>1. dropped' \in SUBSET (1 .. put')
      BY <1>2, <1>4, <1>6, <2>1
    <3>2. QED BY <1>1, <1>2, <2>1, <3>1 DEF QueueTypeOK
  <2>5. WorkerKnows' /\ BytesMatch'
    BY <1>1, <1>2, <2>1 DEF WorkerKnows, BytesMatch
  <2>6. QED BY <2>3, <2>4, <2>5 DEF QueueInv
<1>9. QED BY <1>7, <1>8

\* What the worker has, encoded, goes to the end of the other queue.
LEMMA EncodedKeepsOrder ==
  ASSUME QueueInv, in # None, in' = None, delivered' = delivered,
         se_list'["in"] = se_list["in"], se_list'["out"] = Append(se_list["out"], in)
  PROVE  Order' = Order
<1>1. QueueTypeOK
  BY DEF QueueInv
<1> PICK n, o, d, x : n = se_list["in"] /\ o = se_list["out"] /\ d = delivered /\ x = in
  OBVIOUS
<1>2. n \in Seq(Nat) /\ o \in Seq(Nat) /\ d \in Seq(Nat) /\ x \in Nat
  BY <1>1, Parts DEF QueueTypeOK
<1>3. <<x>> \in Seq(Nat) /\ d \o o \in Seq(Nat) /\ Append(o, x) \in Seq(Nat)
  BY ONLY <1>2
<1>4. Order = ((d \o o) \o <<x>>) \o n
  BY DEF Order, Behind, InHand
<1>5. Order' = ((d \o Append(o, x)) \o <<>>) \o n
  BY DEF Order, Behind, InHand
<1>6. Append(o, x) = o \o <<x>>
  BY ONLY <1>2, AppendIsConcat
<1>7. (d \o o) \o <<x>> = d \o (o \o <<x>>)
  BY ONLY <1>2, <1>3, Associative
<1>8. d \o Append(o, x) \in Seq(Nat)
  BY ONLY <1>2, <1>3
<1>9. (d \o Append(o, x)) \o <<>> = d \o Append(o, x)
  BY ONLY <1>8, ConcatEmptySeq
<1>10. QED BY ONLY <1>4, <1>5, <1>6, <1>7, <1>9

LEMMA EncodedStep ==
  ASSUME QueueInv, mp2_loop_Encoded
  PROVE  QueueInv'
<1>1. QueueTypeOK /\ InOrder /\ WorkerKnows /\ BytesMatch
  BY DEF QueueInv
<1>2. /\ worker = "have" /\ worker' = "get" /\ in' = None /\ in # None /\ in \in Nat
      /\ UNCHANGED <<put, delivered>>
  BY <1>1 DEF mp2_loop_Encoded, WorkerKnows, QueueTypeOK
<1>3. CASE soft_queue_add("out", in) /\ HasEntry("out")
  <2>1. /\ add_to_list("out", in) /\ bytes' = bytes + 1 /\ dropped' = dropped
        /\ signalled' = (signalled \/ FALSE)
    BY <1>3 DEF soft_queue_add, Watched
  <2>2. /\ se_list' \in [Queues -> Seq(Nat)] /\ se_list'["in"] = se_list["in"]
        /\ se_list'["out"] = Append(se_list["out"], in)
        /\ Len(se_list'["out"]) = Len(se_list["out"]) + 1
    BY <1>1, <1>2, <2>1, AppendEntry DEF Queues
  <2>3. Order' = Order
    BY <1>2, <2>2, EncodedKeepsOrder
  <2>4. InOrder'
    BY <1>1, <1>2, <2>1, <2>3 DEF InOrder
  <2>5. signalled' \in BOOLEAN
    BY <1>1, <2>1 DEF QueueTypeOK
  <2>6. bytes' \in Nat /\ in' \in Nat
    BY <1>1, <1>2, <2>1 DEF QueueTypeOK, None
  <2>7. QueueTypeOK'
    BY <1>1, <1>2, <2>1, <2>2, <2>5, <2>6 DEF QueueTypeOK
  <2>8. WorkerKnows'
    BY <1>2 DEF WorkerKnows
  <2>9. BytesMatch'
    BY <1>1, <2>1, <2>2 DEF BytesMatch
  <2>10. QED BY <2>4, <2>7, <2>8, <2>9 DEF QueueInv
<1>4. CASE dropped' = dropped \cup {in} /\ UNCHANGED <<se_list, bytes, signalled>>
  <2> PICK n, b, x : n = se_list["in"] /\ b = Behind /\ x = in
    OBVIOUS
  <2>1. n \in Seq(Nat) /\ b \in Seq(Nat) /\ x \in Nat
    BY <1>1, <1>2, Parts
  <2>2. Order = (b \o <<x>>) \o n
    BY <1>2 DEF Order, InHand
  <2>3. Order' = b \o n
    <3>1. Order' = (b \o <<>>) \o n
      BY <1>2, <1>4 DEF Order, InHand, Behind
    <3>2. b \o <<>> = b
      BY ONLY <2>1, ConcatEmptySeq
    <3>3. QED BY <3>1, <3>2
  <2>4. /\ Sorted((b \o <<x>>) \o n)
        /\ \A y : y \in ToSet((b \o <<x>>) \o n) <=> y \in 1 .. put /\ y \notin dropped
    BY <1>1, <2>2 DEF InOrder
  <2>5. /\ Sorted(b \o n)
        /\ \A y : y \in ToSet(b \o n) <=> y \in ToSet((b \o <<x>>) \o n) /\ y # x
    BY ONLY <2>1, <2>4, SortedWithout
  <2>6. \A y : y \in dropped' <=> y \in dropped \/ y = x
    BY <1>4
  <2>7. InOrder'
    <3>1. \A y : y \in ToSet(b \o n) <=> y \in 1 .. put' /\ y \notin dropped'
      BY <1>2, <2>4, <2>5, <2>6
    <3>2. QED BY <2>3, <2>5, <3>1 DEF InOrder
  <2>8. QueueTypeOK'
    <3>1. in \in 1 .. put
      <4> PICK c, k : c = b \o <<x>> /\ k = Len(b) + 1
        OBVIOUS
      <4>1. c \in Seq(Nat) /\ k \in 1 .. Len(c) /\ c[k] = x
        BY <2>1
      <4>2. c \o n \in Seq(Nat) /\ k \in 1 .. Len(c \o n) /\ (c \o n)[k] = x
        <5>1. /\ c \o n \in Seq(Nat) /\ Len(c \o n) = Len(c) + Len(n)
              /\ \A i \in 1 .. Len(c) + Len(n) :
                   (c \o n)[i] = IF i <= Len(c) THEN c[i] ELSE n[i - Len(c)]
          BY ONLY <2>1, <4>1, ConcatProperties
        <5>2. k \in 1 .. Len(c) + Len(n) /\ k <= Len(c)
          BY ONLY <2>1, <4>1
        <5>3. QED BY ONLY <4>1, <5>1, <5>2
      <4>3. x \in ToSet(c \o n)
        BY ONLY <4>2, SetOf
      <4>4. QED BY <2>4, <4>3
    <3>2. dropped' \in SUBSET (1 .. put')
      BY <1>1, <1>2, <1>4, <3>1 DEF QueueTypeOK
    <3>3. in' \in Nat
      BY <1>2 DEF None
    <3>4. QED BY <1>1, <1>2, <1>4, <3>2, <3>3 DEF QueueTypeOK
  <2>9. WorkerKnows' /\ BytesMatch'
    BY <1>1, <1>2, <1>4 DEF WorkerKnows, BytesMatch
  <2>10. QED BY <2>7, <2>8, <2>9 DEF QueueInv
<1>5. QED BY <1>3, <1>4 DEF mp2_loop_Encoded, soft_queue_add

LEMMA SqRunStep ==
  ASSUME QueueInv, sq_run
  PROVE  QueueInv'
<1>1. QueueTypeOK /\ InOrder /\ WorkerKnows /\ BytesMatch
  BY DEF QueueInv
<1> PICK o, d : o = se_list["out"] /\ d = delivered
  OBVIOUS
<1>2. o \in Seq(Nat) /\ d \in Seq(Nat) /\ bytes \in Nat /\ bytes = Len(o) /\ bytes > 0
  BY <1>1, Parts DEF QueueTypeOK, BytesMatch, sq_run
<1>3. o # <<>>
  BY <1>2, EmptySeq
<1>4. /\ Head(o) \in Nat /\ Tail(o) \in Seq(Nat) /\ Len(Tail(o)) = Len(o) - 1
      /\ (d \o <<Head(o)>>) \o Tail(o) = d \o o
  BY ONLY <1>2, <1>3, HeadAndTail, HeadMoves
<1>5. /\ bytes' = bytes - 1 /\ delivered' = Append(d, Head(o))
      /\ se_list' = [se_list EXCEPT !["out"] = Tail(o)]
      /\ UNCHANGED <<signalled, worker, in, put, dropped>>
  BY <1>1, <1>3 DEF sq_run, QueueTypeOK, Queues
<1>6. /\ se_list' \in [Queues -> Seq(Nat)]
      /\ se_list'["out"] = Tail(o) /\ se_list'["in"] = se_list["in"]
  BY <1>1, <1>4, <1>5 DEF QueueTypeOK, Queues
<1>7. Append(d, Head(o)) = d \o <<Head(o)>> /\ Append(d, Head(o)) \in Seq(Nat)
  BY ONLY <1>2, <1>4, AppendIsConcat, AppendProperties
<1>8. Behind' = d \o o
  BY <1>4, <1>5, <1>6, <1>7 DEF Behind
<1>9. Order' = Order
  BY <1>5, <1>6, <1>8 DEF Order, Behind, InHand
<1>10. InOrder'
  BY <1>1, <1>5, <1>9 DEF InOrder
<1>11. QueueTypeOK'
  <2>1. bytes' \in Nat
    BY <1>2, <1>5
  <2>2. QED BY <1>1, <1>5, <1>6, <1>7, <2>1 DEF QueueTypeOK
<1>12. WorkerKnows'
  BY <1>1, <1>5, <1>6 DEF WorkerKnows
<1>13. BytesMatch'
  BY <1>2, <1>4, <1>5, <1>6 DEF BytesMatch
<1>14. QED BY <1>10, <1>11, <1>12, <1>13 DEF QueueInv

LEMMA QueueNextInv == QueueInv /\ [QueueNext]_queueVars => QueueInv'
<1> SUFFICES ASSUME QueueInv, [QueueNext]_queueVars PROVE QueueInv'
  OBVIOUS
<1>1. CASE mp2_encode
  BY <1>1, EncodeStep
<1>2. CASE get_next_event \/ get_next_event_Woken
  BY <1>2, GetStep
<1>3. CASE mp2_loop_Encoded
  BY <1>3, EncodedStep
<1>4. CASE sq_run
  BY <1>4, SqRunStep
<1>5. CASE UNCHANGED queueVars
  <2>1. Order' = Order
    BY <1>5 DEF queueVars, Order, Behind, InHand
  <2>2. InOrder'
    BY <1>5, <2>1 DEF queueVars, InOrder, QueueInv
  <2>3. QueueTypeOK' /\ WorkerKnows' /\ BytesMatch'
    BY <1>5 DEF queueVars, QueueInv, QueueTypeOK, WorkerKnows, BytesMatch
  <2>4. QED BY <2>2, <2>3 DEF QueueInv
<1>6. QED BY <1>1, <1>2, <1>3, <1>4, <1>5 DEF QueueNext

-----------------------------------------------------------------------------
(* The theorems                                                             *)

\* The frames on their way are sorted, and a sleeping worker's signal and the
\* pipe's bytes agree with the queues, whatever the order of the two threads.
THEOREM QueueInvariance == QueueSpec => []QueueInv
<1>1. QED BY QueueInitInv, QueueNextInv, PTL DEF QueueSpec

\* Every frame given to the encoder is on its way, delivered or lost, once; the
\* main loop gets them in their order and never follows a NULL; the worker never
\* sleeps over an entry that it has not been signalled.
THEOREM FramesGetThrough == QueueSpec => []QueueInOrder
<1>1. ASSUME QueueInv PROVE QueueInOrder
  <2>1. QueueTypeOK /\ InOrder /\ WorkerKnows /\ BytesMatch
    BY <1>1 DEF QueueInv
  <2> PICK s : s = Order
    OBVIOUS
  <2>2. s = delivered \o se_list["out"] \o (IF in = None THEN <<>> ELSE <<in>>) \o se_list["in"]
    BY DEF Order, Behind, InHand
  <2>3. s \in Seq(Nat) /\ Sorted(s)
    BY <2>1, Parts DEF InOrder
  <2>4. ASSUME NEW i \in 2 .. Len(s) PROVE s[i - 1] < s[i]
    <3>1. i \in 1 .. Len(s) /\ i - 1 \in 1 .. Len(s) /\ i - 1 < i
      BY <2>3
    <3>2. QED BY <2>3, <3>1 DEF Sorted
  <2>5. ToSet(s) = (1 .. put) \ dropped
    BY <2>1 DEF InOrder
  <2>6. bytes = Len(se_list["out"])
    BY <2>1 DEF BytesMatch
  <2>7. worker = "waiting" /\ se_list["in"] # <<>> => signalled
    BY <2>1 DEF WorkerKnows
  <2>8. QED BY <2>2, <2>4, <2>5, <2>6, <2>7 DEF QueueInOrder
<1>2. QED BY <1>1, QueueInvariance, PTL
=============================================================================
