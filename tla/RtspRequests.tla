---------------------------- MODULE RtspRequests ----------------------------
(***************************************************************************)
(* What a client of the RTSP server is answered (src/rtsp.c), with the     *)
(* header it adds to a reply (src/pmsg.c) and the digest authentication of *)
(* a location (DigestAuth).  A client waits for the reply before it asks   *)
(* again and the server answers a request in one callback, so that a       *)
(* request and its reply are one step.  The sessions' endpoints and their  *)
(* packets are LiveServer's matter: here a session has the tracks that     *)
(* were set up, and may lose them when its client is silent.               *)
(***************************************************************************)
EXTENDS DigestAuth, FiniteSets

CONSTANTS
  Clients,
  Knows,       \* the clients that know the password
  Locations,   \* the paths of the live entries
  Guarded,     \* those whose Path directive has a realm
  Nowhere,     \* a URI that names no location
  Tracks,      \* the tracks of every location
  NoSuch,      \* the number of a track that no location has
  Ids,         \* bound: the session identifiers in use; random_id repeats none
  RealmLen,    \* the length of the realm, at most 127
  CSeqLens,    \* bound: the lengths of a CSeq value
  Dates,       \* bound: the seconds the clock shows, an interval
  MaxHidden,   \* bound: sessions nobody can name
  None         \* no session; a URI without a track

ASSUME KnowsAssumption   == Knows \subseteq Clients
ASSUME GuardedAssumption == Guarded \subseteq Locations /\ Nowhere \notin Locations
ASSUME TracksAssumption  == NoSuch \notin Tracks /\ None \notin Tracks \cup {NoSuch}
ASSUME NoneAssumption    == None \notin Ids /\ None \notin Locations
ASSUME RealmAssumption   == RealmLen \in 0 .. 127
ASSUME DatesAssumption   == Dates \subseteq 0 .. Width - 1 /\ Dates # {}

NoAuth == -2     \* no Authorization header, or one that cannot be parsed

\* (A name that ends in _ and words is a wrong version of the definition that
\* follows it: a plausible slip, with which some property must fail.)

VARIABLES
  alive,       \* the program has not called through a wild pointer
  now,         \* the clock
  where,       \* where[i]: the location of the session i of sess_list, None for no such session
  up,          \* up[i]: its tracks that were set up
  hidden,      \* sessions of src/session.c that no identifier leads to
  nonce,       \* nonce[c]: the date of the last challenge c was given, NoAuth before
  session,     \* session[c]: the last session c was given
  last         \* the request that was answered in this very step, None after any other step

vars == <<alive, now, where, up, hidden, nonce, session, last>>

Listed == {i \in Ids : where[i] # None}

Init ==
  /\ alive = TRUE /\ hidden = 0
  /\ now \in Dates /\ \A t \in Dates : now <= t
  /\ where = [i \in Ids |-> None]
  /\ up = [i \in Ids |-> {}]
  /\ nonce = [c \in Clients |-> NoAuth]
  /\ session = [c \in Clients |-> None]
  /\ last = None

-----------------------------------------------------------------------------
(* What happens around the server                                           *)

Tick ==
  /\ alive /\ now + 1 \in Dates /\ now' = now + 1 /\ last' = None
  /\ UNCHANGED <<alive, where, up, hidden, nonce, session>>

\* The session without its tracks t; it goes with its last one.
Without(i, t) ==
  /\ up' = [up EXCEPT ![i] = @ \ t]
  /\ where' = [where EXCEPT ![i] = IF up[i] \subseteq t THEN None ELSE @]

\* Tracks go with a silent client or its connection.
Lose(i, t) ==
  /\ alive /\ where[i] # None /\ t # {} /\ t \subseteq up[i] /\ Without(i, t) /\ last' = None
  /\ UNCHANGED <<alive, now, hidden, nonce, session>>

-----------------------------------------------------------------------------
(* The reply: a message of 512 bytes, in which a header that does not fit is *)
(* left out.  used is msg_len, each string with its NUL.                     *)

ReplySize == 512

\* add_pmsg_string
Room_Strict(used, len) == used + len < ReplySize

Room(used, len) == used + len <= ReplySize

\* rtsp_create_reply: "RTSP/1.0", the reason, CSeq.
Created(reason, cseq) ==
  LET used == 9 + reason + 1
  IN  IF Room(used + 5, cseq + 1) THEN [cseq |-> TRUE, used |-> used + 5 + cseq + 1]
      ELSE [cseq |-> FALSE, used |-> used + 5]

\* "Digest realm="..", nonce="64 digits"" and ", stale=true", without the NUL:
\* add_header_printf puts the value in first, and the name after it.
ChallengeLen(stale) == 14 + RealmLen + 10 + 64 + 1 + (IF stale THEN 12 ELSE 0)

Reply(code, m) == [code |-> code, cseq |-> m.cseq, names |-> None, challenge |-> NoAuth]

\* A reply with no more than its status, with and without a session: "Session" and
\* thirty characters.  A reply to SETUP has a Transport header of up to 128 before it.
Plain(r, code, reason) == Reply(code, Created(reason, r.cseq))

OkOf(r, i, transport) ==
  LET m == Created(2, r.cseq)
  IN  [Reply(200, m) EXCEPT !.names = IF Room(m.used + transport + 8, 31) THEN i ELSE None]

\* rtsp_verify_auth's reply: add_digest_challenge with a nonce of now.
Unauthorized(r, stale) ==
  LET m    == Created(12, r.cseq)
      len  == ChallengeLen(stale)
      fits == m.used + len < ReplySize /\ Room(m.used + len + 1, 17)
  IN  [Reply(401, m) EXCEPT !.challenge = IF fits THEN now ELSE NoAuth]

-----------------------------------------------------------------------------
(* The server: rtsp_handle_msg and the handlers.  A request r of c has what  *)
(* its handler reads: the answer to the last challenge, to none of ours, or  *)
(* none; the session c was given, or none.                                   *)

Asks(c) == [auth : {NoAuth, Foreign, nonce[c]}, session : {None, session[c]},
            loc : Locations \cup {Nowhere}, cseq : CSeqLens]

\* A request without a URI that matters, of the session s.
Short(c) == {r \in Asks(c) : r.auth = NoAuth /\ r.loc = Nowhere}

\* tcp_send_pmsg, and what the client keeps of the reply.
Answer(c, r, rep) ==
  /\ alive
  /\ last' = [client |-> c, auth |-> r.auth, reply |-> rep]
  /\ nonce' = [nonce EXCEPT ![c] = IF rep.challenge # NoAuth THEN rep.challenge ELSE @]
  /\ session' = [session EXCEPT ![c] = IF rep.names # None THEN rep.names ELSE @]
  /\ UNCHANGED now

Error(c, r, code, reason) == Answer(c, r, Plain(r, code, reason)) /\ UNCHANGED <<alive, where, up, hidden>>

\* rtsp_verify_auth
Verified(c, r) ==
  IF r.auth = NoAuth THEN -1 ELSE CheckDigestResponse(c \in Knows, r.auth, now)

Admitted_Stale(c, r) == r.loc \in Guarded => Verified(c, r) >= 0

Admitted(c, r) == r.loc \in Guarded => Verified(c, r) > 0

Refuse(c, r) == Answer(c, r, Unauthorized(r, Verified(c, r) = 0)) /\ UNCHANGED <<alive, where, up>>

\* The location of a URI that has none, and a client that is not admitted.
NoLocation(c, r) == r.loc = Nowhere /\ Error(c, r, 404, 9)
Refused(c, r) == r.loc # Nowhere /\ ~ Admitted(c, r) /\ Refuse(c, r)
Passes(c, r) == r.loc # Nowhere /\ Admitted(c, r)

Options(c) == \E r \in Short(c) :
  Answer(c, r, Plain(r, 200, 2)) /\ UNCHANGED <<alive, where, up, hidden>>

Unknown(c) == \E r \in Short(c) : Error(c, r, 501, 15)

\* The session DESCRIBE opens is torn down before it returns, also when the client
\* is not admitted; a location without a frame so far has no description.
Describe(c) == \E r \in Asks(c) :
  /\ r.session = None
  /\ \/ NoLocation(c, r)
     \/ Refused(c, r) /\ UNCHANGED hidden
     \/ Passes(c, r) /\ Error(c, r, 404, 13)
     \/ Passes(c, r) /\ Answer(c, r, Plain(r, 200, 2)) /\ UNCHANGED <<alive, where, up, hidden>>

\* The session ANNOUNCE opens stays when the client is not admitted, and when
\* set_sdp is NULL, and then there is no answer either.  new_session and live_open
\* leave set_sdp as malloc returns it.
Announce(c) == \E r \in Asks(c) :
  /\ r.session = None
  /\ \/ NoLocation(c, r)
     \/ hidden < MaxHidden /\ Refused(c, r) /\ hidden' = hidden + 1
     \/ /\ hidden < MaxHidden /\ Passes(c, r) /\ alive /\ alive' \in BOOLEAN
        /\ hidden' = hidden + 1 /\ last' = None /\ UNCHANGED <<now, where, up, nonce, session>>

\* handle_SETUP, with a session of the location or, when the request names one,
\* that session, whichever its location is; 461 without a Transport header the server knows.
SessionFor(c, r) ==
  IF r.session = None THEN Ids \ (Listed \cup {session[d] : d \in Clients}) ELSE {r.session} \cap Listed

SetUp(c, r, t, i) ==
  /\ up' = [up EXCEPT ![i] = @ \cup {t}]
  /\ where' = [where EXCEPT ![i] = IF @ = None THEN r.loc ELSE @]
  /\ Answer(c, r, OkOf(r, i, 10 + 128))
  /\ UNCHANGED <<alive, hidden>>

Setup(c) == \E r \in Asks(c), t \in Tracks \cup {None, NoSuch} :
  \/ (r.loc = Nowhere \/ t = None) /\ Error(c, r, 404, 9)
  \/ t # None /\ Refused(c, r) /\ UNCHANGED hidden
  \/ /\ t # None /\ Passes(c, r)
     /\ \/ r.session \notin Listed \cup {None} /\ Error(c, r, 454, 17)
        \/ \E i \in SessionFor(c, r) :
             \/ t \in up[i] /\ Error(c, r, 461, 22)
             \/ t = NoSuch /\ Error(c, r, 404, 9)
             \/ t \in Tracks \ up[i] /\ Error(c, r, 461, 21)
             \/ t \in Tracks \ up[i] /\ SetUp(c, r, t, i)

\* PLAY and PAUSE look at the session only; pause is not implemented.
NoSession(c, r) == r.session \notin Listed /\ Error(c, r, 454, 17)

Play(c) == \E r \in Short(c) :
  \/ NoSession(c, r)
  \/ r.session \in Listed /\ Answer(c, r, OkOf(r, r.session, 0)) /\ UNCHANGED <<alive, where, up, hidden>>

Pause(c) == \E r \in Short(c) :
  NoSession(c, r) \/ (r.session \in Listed /\ Error(c, r, 501, 15))

\* TEARDOWN of a track; of the session, when the URI names no track or one that is
\* not set up: ep[track] is NULL then.
Teardown(c) == \E r \in Asks(c), t \in Tracks \cup {None, NoSuch} :
  /\ r.auth = NoAuth
  /\ \/ NoLocation(c, r)
     \/ r.loc # Nowhere /\ NoSession(c, r)
     \/ /\ r.loc # Nowhere /\ r.session \in Listed
        /\ Answer(c, r, OkOf(r, r.session, 0))
        /\ Without(r.session, IF t \in up[r.session] THEN {t} ELSE up[r.session])
        /\ UNCHANGED <<alive, hidden>>

Next ==
  \/ Tick
  \/ \E i \in Ids, t \in SUBSET Tracks : Lose(i, t)
  \/ \E c \in Clients : \/ Options(c) \/ Unknown(c) \/ Describe(c) \/ Announce(c)
                        \/ Setup(c) \/ Play(c) \/ Pause(c) \/ Teardown(c)

Spec == Init /\ [][Next]_vars

-----------------------------------------------------------------------------
(* Properties                                                               *)

\* A client that knows the password and answers a challenge within its lifetime is
\* not challenged again, whatever the digits of the date are and whoever else asked
\* meanwhile: get_hex_u32 never reads a date as an earlier one.
KnownClientsGetIn ==
  last # None =>
    (last.client \in Knows /\ last.auth >= 0 /\ now <= last.auth + Lifetime => last.reply.code # 401)

\* A client that sets up a session is told its identifier, and a session of a
\* guarded location comes to be only for a client that knows the password and has a
\* nonce of ours.
StrangersStayOut ==
  [][\A i \in Ids : where[i] = None /\ where'[i] # None =>
       /\ session'[last'.client] = i
       /\ where'[i] \in Guarded => last'.client \in Knows /\ last'.auth >= 0]_vars

\* No header a client needs is crowded out of the 512 bytes of a reply, as long as
\* its CSeq has at most 238 characters: a reply has its CSeq, and a 401 a challenge
\* it can answer.  add_header's result is not looked at.
RepliesWhole ==
  last # None =>
    /\ last.reply.cseq
    /\ last.reply.code = 401 => last.reply.challenge = now

=============================================================================
