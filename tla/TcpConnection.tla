---------------------------- MODULE TcpConnection ----------------------------
(***************************************************************************)
(* One TCP connection of src/tcp.c: its request buffer, the ring of bytes  *)
(* it has still to send, drop_after, and the event that writes the ring    *)
(* out.  Requests are handled by src/http.c and src/rtsp.c, of which this  *)
(* module has what they queue; packets of interleaved endpoints and the    *)
(* frames of an HTTP stream are queued at any time.                        *)
(*                                                                         *)
(* The request side counts in pieces of text: "line" (a first line),       *)
(* "text", "end" (the empty line), "$" (the head of an interleaved packet) *)
(* and "data" (its payload).  The send side counts bytes, scaled down.     *)
(* TCP may cut both anywhere.                                              *)
(*                                                                         *)
(* Left out: the base64 decoding of a tunnelled connection, and a second   *)
(* stream or a tunnel on a connection that is already streaming, for which *)
(* proto_state has no room.                                                *)
(***************************************************************************)
EXTENDS Integers, Sequences, SequencesExt

CONSTANTS
  ReqSize,      \* sizeof( req_buf ), in pieces
  SendSize,     \* sizeof( send_buf )
  Allowance,    \* the 400 bytes handle_GET allows for a reply's header
  MaxFrame      \* bound: the length of a frame; it may exceed SendSize

ASSUME SizesAssumption ==
  /\ ReqSize \in Nat /\ ReqSize > 2 /\ SendSize \in Nat /\ Allowance \in Nat
  /\ 0 < Allowance /\ Allowance < SendSize - 1
  /\ MaxFrame \in Nat

Pieces == {"line", "text", "end", "$", "data"}
Protos == {"START", "HTTP", "RTSP"}
Cells  == 0 .. SendSize - 1

VARIABLES
  open,         \* the connection exists
  proto,
  req_buf,      \* the first req_len pieces of the buffer
  send_buf, send_buf_r, send_buf_w,
  write_event,  \* enabled
  drop_after,
  streaming,    \* it is in the sess_list of an HTTP location
  owed,         \* history: the bytes of the messages queued and not yet written
  serial        \* history: tells a byte from its neighbours

requests == <<proto, req_buf>>
sending  == <<send_buf, send_buf_r, send_buf_w, write_event, owed, serial>>
connVars == <<open, requests, sending, drop_after, streaming>>

Empty == [i \in Cells |-> 0]

ConnInit ==
  /\ open = FALSE /\ proto = "START" /\ req_buf = <<>>
  /\ send_buf = Empty /\ send_buf_r = 0 /\ send_buf_w = 0 /\ write_event = FALSE
  /\ drop_after = FALSE /\ streaming = FALSE
  /\ owed = <<>> /\ serial = 0

\* do_accept
Accept == /\ ~open
          /\ open' = TRUE
          /\ UNCHANGED <<requests, sending, drop_after, streaming>>

\* drop_conn: nothing is left of the connection.
Drop ==
  /\ open' = FALSE /\ proto' = "START" /\ req_buf' = <<>>
  /\ send_buf' = Empty /\ send_buf_r' = 0 /\ send_buf_w' = 0 /\ write_event' = FALSE
  /\ drop_after' = FALSE /\ streaming' = FALSE
  /\ owed' = <<>> /\ serial' = 0

-----------------------------------------------------------------------------
(* The send ring. *)

\* The ring as a record, for the handlers that queue several messages.
Ring == [buf |-> send_buf, r |-> send_buf_r, w |-> send_buf_w, on |-> write_event,
         owed |-> owed, serial |-> serial]

Becomes(s) ==
  /\ send_buf' = s.buf /\ send_buf_r' = s.r /\ send_buf_w' = s.w /\ write_event' = s.on
  /\ owed' = s.owed /\ serial' = s.serial

avail_NoGap(s) == IF s.r > s.w THEN s.r - s.w ELSE SendSize - s.w + s.r

\* avail_send_buf
avail(s) == IF s.r > s.w THEN s.r - s.w - 1 ELSE SendSize - s.w + s.r - 1

\* send_data
Send(s, d) ==
  IF avail(s) < Len(d) THEN s
  ELSE [s EXCEPT !.buf = [i \in Cells |-> LET k == (i - s.w) % SendSize
                                          IN IF k < Len(d) THEN d[k + 1] ELSE s.buf[i]],
                 !.w = (s.w + Len(d)) % SendSize,
                 !.on = TRUE]

\* The bytes that conn_write would write.
Used     == (send_buf_w - send_buf_r) % SendSize
Contents == [i \in 1 .. Used |-> send_buf[(send_buf_r + i - 1) % SendSize]]

\* The next n bytes: more values than the ring has cells, so that a byte out
\* of place is seen.
Values        == SendSize + 1
Message(s, n) == [i \in 1 .. n |-> (s.serial + i) % Values]

\* A message of a head of h and a body of n bytes, each handed to send_data:
\* tcp_send_pmsg with what follows it, interleave_send, send_multipart_frame.
\* It goes in whole or not at all.
Put(s, h, n) ==
  IF avail(s) < h + n THEN s
  ELSE LET m == Message(s, h + n)
       IN [Send(Send(s, SubSeq(m, 1, h)), SubSeq(m, h + 1, h + n))
             EXCEPT !.owed = @ \o m, !.serial = (@ + h + n) % Values]

\* conn_write: the socket takes k bytes, in one write or in two around the end
\* of the ring.  When that was all, the connection is dropped or the event
\* turned off.
ConnWrite(k) ==
  /\ open /\ write_event /\ k <= Used
  /\ \/ /\ k = Used /\ drop_after /\ Drop
     \/ /\ k > 0 /\ ~(k = Used /\ drop_after)
        /\ send_buf_r' = (send_buf_r + k) % SendSize
        /\ owed' = SubSeq(owed, k + 1, Len(owed))
        /\ write_event' = (k < Used)
        /\ UNCHANGED <<open, requests, send_buf, send_buf_w, serial, drop_after, streaming>>

\* write fails
WriteError == open /\ write_event /\ Drop

-----------------------------------------------------------------------------
(* Requests. *)

\* What a read may append: anything, cut anywhere, that leaves room for the
\* final 0.  Then the buffer holds Filled(x).
Segments  == UNION {[1 .. n -> Pieces] : n \in 1 .. ReqSize - 1 - Len(req_buf)}
Filled(x) == req_buf \o x

\* "malformed request from client; exceeded maximum size"
TooLong(x) == Len(Filled(x)) = ReqSize - 1

\* parse_client_data, from the state in which the first line tells the protocol
HasLine(x)   == Range(Filled(x)) \cap {"line", "end"} # {}
Speaks(x, p) == IF proto = "START" THEN HasLine(x) /\ p \in {"HTTP", "RTSP"} ELSE p = proto
IsPacket(x, p) == p = "RTSP" /\ Filled(x)[1] = "$"
Complete(x, p) == IF IsPacket(x, p) THEN Len(Filled(x)) > 1
                  ELSE "end" \in Range(Filled(x))

\* req_len = 0, whatever else the buffer holds.
Clear == req_buf' = <<>>

\* do_read finds neither a whole request nor a whole packet.
ReadMore(x) ==
  /\ open /\ ~TooLong(x)
  /\ req_buf' = Filled(x)
  /\ \/ proto = "START" /\ ~HasLine(x) /\ proto' = proto
     \/ \E p \in Protos : Speaks(x, p) /\ ~Complete(x, p) /\ proto' = p
  /\ UNCHANGED <<open, sending, drop_after, streaming>>

\* do_read ends the connection: the buffer is full, parse_client_data or the
\* handler refuses what it holds, or its descriptor has been handed to the
\* tunnel it belongs to.
ReadBad(x) ==
  /\ open
  /\ \/ TooLong(x)
     \/ proto = "START" /\ HasLine(x)
     \/ \E p \in Protos : Speaks(x, p) /\ Complete(x, p) /\ ~IsPacket(x, p)
  /\ Drop

\* read fails or the client has closed
ReadEnd == open /\ Drop

\* interleave_recv
ReadPacket(x) ==
  /\ open /\ ~TooLong(x)
  /\ \E p \in Protos : /\ Speaks(x, p) /\ IsPacket(x, p) /\ Complete(x, p)
                       /\ proto' = p /\ Clear
  /\ UNCHANGED <<open, sending, drop_after, streaming>>

\* handle_request is called for a request of protocol p.
Requested(x, p) == /\ open /\ ~TooLong(x)
                   /\ Speaks(x, p) /\ ~IsPacket(x, p) /\ Complete(x, p)
                   /\ Clear

\* rtsp_handle_msg: a reply, perhaps with a description; it may not fit, and
\* then there is none.
RtspRequest(x) ==
  /\ Requested(x, "RTSP") /\ proto' = "RTSP"
  /\ \E h \in 1 .. Allowance, n \in 0 .. 1 : Becomes(Put(Ring, h, n))
  /\ UNCHANGED <<open, drop_after, streaming>>

\* http_send_error, and the refusals of handle_QT_tunnel, which have no body
HttpError(x) ==
  /\ Requested(x, "HTTP") /\ proto' = "HTTP"
  /\ drop_after' = TRUE
  /\ \E h \in 1 .. Allowance - 1, n \in 0 .. 1 : Becomes(Put(Ring, h, n))
  /\ UNCHANGED <<open, streaming>>

Fits_NoAllowance(f) == avail(Ring) >= f

\* The test of handle_GET for a frame of length f
Fits(f) == avail(Ring) >= f + Allowance

\* handle_GET of a location that is not streaming
HttpFrame(x, f) ==
  /\ Fits(f)
  /\ Requested(x, "HTTP") /\ proto' = "HTTP"
  /\ drop_after' = TRUE
  /\ \E h \in 1 .. Allowance : Becomes(Put(Ring, h, f))
  /\ UNCHANGED <<open, streaming>>

\* handle_GET of one that is: the reply's header and, if there is still room,
\* the frame as the first part
HttpStream(x, f) ==
  /\ Fits(f) /\ ~streaming
  /\ Requested(x, "HTTP") /\ proto' = "HTTP"
  /\ \E h, b \in 1 .. Allowance : Becomes(Put(Put(Ring, h, 0), b, f))
  /\ streaming' = TRUE
  /\ UNCHANGED <<open, drop_after>>

\* handle_QT_tunnel for GET: the connection goes on as an RTSP one
TunnelGet(x) ==
  /\ ~streaming
  /\ Requested(x, "HTTP") /\ proto' = "RTSP"
  /\ \E h \in 1 .. Allowance : Becomes(Put(Ring, h, 0))
  /\ UNCHANGED <<open, drop_after, streaming>>

\* interleave_send from an endpoint; send_multipart_frame from jpeg_next_frame
SendFrame(h, n) ==
  /\ open /\ (proto = "RTSP" \/ streaming)
  /\ Becomes(Put(Ring, h, n))
  /\ UNCHANGED <<open, requests, drop_after, streaming>>

Read(x) == \/ ReadMore(x) \/ ReadBad(x) \/ ReadPacket(x) \/ RtspRequest(x) \/ HttpError(x)
           \/ TunnelGet(x)
           \/ \E f \in 1 .. MaxFrame : HttpFrame(x, f) \/ HttpStream(x, f)

ConnNext == \/ Accept \/ ReadEnd \/ WriteError
            \/ \E x \in Segments : Read(x)
            \/ \E k \in Cells : ConnWrite(k)
            \/ \E h \in 1 .. Allowance, n \in 0 .. MaxFrame : SendFrame(h, n)

ConnSpec == ConnInit /\ [][ConnNext]_connVars

\* The event loop calls conn_write again and again while its event is on; a
\* client that keeps reading lets one of the calls write all there is.
FairSpec == ConnSpec /\ WF_connVars(\E k \in Cells : k = Used /\ ConnWrite(k))

-----------------------------------------------------------------------------
(* Properties. *)

\* Types; both indices stay inside send_buf, which conn_write and send_data
\* see to by wrapping at its end.
TypeOK ==
  /\ open \in BOOLEAN /\ proto \in Protos
  /\ req_buf \in Seq(Pieces)
  /\ send_buf_r \in Cells /\ send_buf_w \in Cells
  /\ write_event \in BOOLEAN /\ drop_after \in BOOLEAN
  /\ streaming \in BOOLEAN /\ serial \in 0 .. Values - 1

\* The ring holds whole messages, in the order in which they were queued, less
\* what the client has got: a ring filled to the brim would look empty, and a
\* message cut short would take the next one's head for its body.
RingMatches == Contents = owed

\* The event that calls conn_write is on exactly while the ring holds bytes: off
\* too early, and the last of a message is not sent before the next one comes; on
\* for an empty ring, and the loop spins.
EventWhileOwed == write_event <=> Used > 0

\* A connection that is to end after its last byte does end, if the client
\* reads, whatever is queued in between.
DropHappens == drop_after ~> ~drop_after

=============================================================================
