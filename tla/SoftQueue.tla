------------------------------ MODULE SoftQueue ------------------------------
(***************************************************************************)
(* The soft queues of src/event.c between the main thread and a worker, as *)
(* src/encoder-mp2.c uses them: mp2_encode adds the input frames to inq,   *)
(* from which mp2_loop takes them in get_next_event, waiting on the        *)
(* queue's condition; it adds what it encodes to outq, for which           *)
(* add_softqueue_event has made a pipe that event_loop watches, and sq_run *)
(* takes one event per byte.  Each call holds the queue's mutex, so it is  *)
(* one step, but for pthread_cond_wait, which lets go of it.               *)
(* A frame is its number; one of 1152 samples, as input-oss.c makes them,  *)
(* is encoded to one.  The main thread has no other part here than to call *)
(* mp2_encode and, between two calls, sq_run.                              *)
(***************************************************************************)
EXTENDS Naturals, Sequences, SequencesExt, FiniteSets

CONSTANTS
  Length,     \* the entries of a queue (new_soft_queue)
  MaxFrames   \* bound: the frames that are put in

ASSUME QueueAssumption == Length \in Nat \ {0} /\ MaxFrames \in Nat

Queues == {"in", "out"}
None   == 0

VARIABLES
  se_list,    \* se_list[q]: the event_data of its entries, the oldest first
  bytes,      \* what is in outq's pipe
  signalled,  \* inq's condition has been signalled since the worker waits
  worker,     \* where mp2_loop is
  in,         \* the frame that it has
  put, dropped, delivered   \* history: frames given to mp2_encode, lost, delivered

queueVars == <<se_list, bytes, signalled, worker, in, put, dropped, delivered>>

QueueInit ==
  /\ se_list = [q \in Queues |-> <<>>] /\ bytes = 0 /\ signalled = FALSE
  /\ worker = "get" /\ in = None
  /\ put = 0 /\ dropped = {} /\ delivered = <<>>

HasEntry(q) == Len(se_list[q]) < Length

\* In a ring of entries, the place before the first is the last.
add_to_list(q, f) == se_list' = [se_list EXCEPT ![q] = Append(@, f)]

\* add_softqueue_event has given the queue a pipe, and the pipe an event of event_loop.
Watched(q) == q = "out"

\* soft_queue_add, and unref_frame when it has no entry left.  A byte goes to the pipe of a
\* queue that is watched, a signal to whoever waits for another.
soft_queue_add(q, f) ==
  IF HasEntry(q)
  THEN /\ add_to_list(q, f)
       /\ bytes' = IF Watched(q) THEN bytes + 1 ELSE bytes
       /\ signalled' = (signalled \/ (~ Watched(q) /\ worker = "waiting"))
       /\ UNCHANGED dropped
  ELSE dropped' = dropped \cup {f} /\ UNCHANGED <<se_list, bytes, signalled>>

mp2_encode ==
  /\ put < MaxFrames
  /\ put' = put + 1 /\ soft_queue_add("in", put + 1)
  /\ UNCHANGED <<worker, in, delivered>>

\* locked_get_next_event
Take(q) == se_list' = [se_list EXCEPT ![q] = Tail(@)]

\* get_next_event: one entry, or a wait for one.
get_next_event ==
  /\ worker = "get"
  /\ IF se_list["in"] = <<>>
     THEN /\ worker' = "waiting" /\ signalled' = FALSE
          /\ UNCHANGED <<se_list, in>>
     ELSE /\ worker' = "have" /\ in' = Head(se_list["in"]) /\ Take("in")
          /\ UNCHANGED signalled
  /\ UNCHANGED <<bytes, put, dropped, delivered>>

get_next_event_Woken_NotTaken ==
  /\ worker = "waiting" /\ signalled
  /\ worker' = "have" /\ in' = Head(se_list["in"])
  /\ UNCHANGED <<se_list, signalled, bytes, put, dropped, delivered>>

\* pthread_cond_wait returns: the list is not looked at again before an entry is taken.
get_next_event_Woken ==
  /\ worker = "waiting" /\ signalled
  /\ worker' = "have" /\ in' = Head(se_list["in"]) /\ Take("in")
  /\ UNCHANGED <<signalled, bytes, put, dropped, delivered>>

\* mp2_loop encodes what it has, unless the heap has no frame for it.
mp2_loop_Encoded ==
  /\ worker = "have"
  /\ worker' = "get" /\ in' = None
  /\ \/ soft_queue_add("out", in)
     \/ dropped' = dropped \cup {in} /\ UNCHANGED <<se_list, bytes, signalled>>
  /\ UNCHANGED <<put, delivered>>

\* sq_run, and get_back_frame with what it found: a NULL would be followed.
sq_run ==
  /\ bytes > 0
  /\ bytes' = bytes - 1
  /\ delivered' = Append(delivered, IF se_list["out"] = <<>> THEN None ELSE Head(se_list["out"]))
  /\ se_list' = [se_list EXCEPT !["out"] = IF @ = <<>> THEN @ ELSE Tail(@)]
  /\ UNCHANGED <<signalled, worker, in, put, dropped>>

QueueNext == \/ mp2_encode \/ get_next_event \/ get_next_event_Woken
             \/ mp2_loop_Encoded \/ sq_run

\* Every frame given to the encoder is in one place: in one of the queues, with the worker,
\* delivered or counted as lost; frames are delivered in their order, never a NULL; a byte
\* in the pipe means an entry in the queue and the reverse; and the worker never sleeps
\* over an entry that it has not been signalled.
QueueInOrder ==
  LET Order == delivered \o se_list["out"] \o (IF in = None THEN <<>> ELSE <<in>>) \o se_list["in"]
  IN  /\ \A i \in 2 .. Len(Order) : Order[i - 1] < Order[i]
      /\ ToSet(Order) = (1 .. put) \ dropped
      /\ bytes = Len(se_list["out"])
      /\ worker = "waiting" /\ se_list["in"] # <<>> => signalled

=============================================================================
