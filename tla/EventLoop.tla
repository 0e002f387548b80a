------------------------------ MODULE EventLoop ------------------------------
(***************************************************************************)
(* event.c: the lists of timer and descriptor events, and event_loop,      *)
(* which the main thread calls for one pass at a time.  The loop's clients *)
(* are what matters to it of them: connections (src/tcp.c), endpoints      *)
(* (src/rtp.c) and one object that is never freed, which stands for the    *)
(* listeners and the frame exchangers.  A callback makes any calls that    *)
(* some callback makes: it opens and frees objects, its own included,      *)
(* enables events, hands a descriptor to another connection.               *)
(*                                                                         *)
(* A stripped event is not freed by the code, and nothing refers to it: an *)
(* element of Events that is in no list stands for the next malloc, and    *)
(* what it was before is forgotten.                                        *)
(* Objects and descriptors are reused at once, as malloc and the kernel    *)
(* may.  Always events, alarms and one-shot events have no user in the     *)
(* build and are left out.                                                 *)
(***************************************************************************)
EXTENDS Integers, FiniteSets, Sequences, SequencesExt

CONSTANTS
  Events,     \* bound: the events in the lists at one time
  Objects,    \* bound: the conns and rtp_endpoints at one time, with Root
  Root,       \* the object that is never freed
  MaxFd,      \* bound: the descriptors open at one time are 0 .. MaxFd
  MaxCalls,   \* bound: the calls one callback makes
  NULL        \* a NULL event

ASSUME RootAssumption == Root \in Objects
ASSUME EventsAssumption == IsFiniteSet(Events) /\ Events # {} /\ NULL \notin Events
ASSUME BoundsAssumption == MaxCalls \in Nat /\ MaxFd \in Nat

Fds  == 0 .. MaxFd
NoFd == -1

Lists == {"time", "fd"}
Roles == {"time", "read", "write"}
Kinds == {"free", "root", "conn", "endpoint"}

VARIABLES
  head,       \* time_event_list and fd_event_list
  next, prev, \* the links of an event
  listed,     \* the events in a list: the ones malloc does not return
  role,       \* role[e]: its type, and ev.fd.write of a descriptor event
  efd,        \* ev.fd.fd
  data,       \* the object its callback is called with
  enabled, remove, running,         \* the events with that flag set
  due,        \* the timers with less than 5 ms to go
  kind,       \* kind[o]: what lives at that address
  held,       \* the events an object points to
  fd,         \* c->fd, ep->trans.udp.rtp_fd
  second_fd,  \* c->second_fd, ep->trans.udp.rtcp_fd
  open,       \* the descriptors the kernel has open
  readable,   \* the pairs of descriptor and direction that would not block
  phase,      \* where event_loop is
  cur,        \* e of its loops
  selected,   \* rfds and wfds after select: {} when it failed
  examined,   \* the events this pass asked select about
  cb,         \* the event whose callback runs
  calls       \* the calls that callback may still make

links == <<head, next, prev, listed, role, efd, data>>
flags == <<enabled, remove, running>>
objects == <<kind, held, fd, second_fd, open>>
loop  == <<phase, cur, selected, examined>>
vars  == <<links, flags, due, objects, readable, loop, cb, calls>>

ListOf(r) == IF r = "time" THEN "time" ELSE "fd"
Ports(o)  == {fd[o], second_fd[o]} \ {NoFd}
Held      == UNION {held[o] : o \in Objects}

\* The events met by following next from e, NULL past the end of the list.
Most    == Cardinality(Events)
Steps   == 1 .. Most + 1
Walk(e) == LET at[n \in Steps] ==
                 IF n = 1 THEN e
                 ELSE LET x == at[n - 1] IN IF x = NULL THEN NULL ELSE next[x]
           IN at
Order(l) == Walk(head[l])

\* A piece of memory for an event: any will do, as they are all alike.
Malloc(es) == CHOOSE e \in es : TRUE

\* The listener's event has been added to the list.
Init ==
  LET e == Malloc(Events) IN
    /\ head = [l \in Lists |-> IF l = "fd" THEN e ELSE NULL]
    /\ next = [x \in Events |-> NULL] /\ prev = [x \in Events |-> NULL]
    /\ listed = {e}
    /\ role = [x \in Events |-> "read"]
    /\ efd = [x \in Events |-> IF x = e THEN 0 ELSE NoFd]
    /\ data = [x \in Events |-> Root]
    /\ enabled = {e} /\ remove = {} /\ running = {} /\ due = {}
    /\ kind = [o \in Objects |-> IF o = Root THEN "root" ELSE "free"]
    /\ held = [o \in Objects |-> IF o = Root THEN {e} ELSE {}]
    /\ fd = [o \in Objects |-> IF o = Root THEN 0 ELSE NoFd]
    /\ second_fd = [o \in Objects |-> NoFd]
    /\ open = {0} /\ readable = {}
    /\ phase = "idle" /\ cur = NULL /\ selected = {} /\ examined = {}
    /\ cb = NULL /\ calls = 0

-----------------------------------------------------------------------------
(* The calls of a callback. *)

\* A state of the lists, to which several events can be added in turn.
Linked == [head |-> head, next |-> next, prev |-> prev]

\* new_event and the insertion before the head of its list.
Push(s, e, l) ==
  [head |-> [s.head EXCEPT ![l] = e],
   next |-> [s.next EXCEPT ![e] = s.head[l]],
   prev |-> [x \in Events |-> IF x = e THEN NULL
                              ELSE IF x = s.head[l] THEN e ELSE s.prev[x]]]

SetLinks(s) == head' = s.head /\ next' = s.next /\ prev' = s.prev

\* add_timer_event and add_fd_event for the events of r, and the calls of
\* set_event_enabled after which the ones in on are enabled.
Add(s, r, f, o, on) ==
  LET new == DOMAIN r IN
  /\ SetLinks(s)
  /\ listed' = listed \cup new
  /\ role' = [e \in Events |-> IF e \in new THEN r[e] ELSE role[e]]
  /\ efd'  = [e \in Events |-> IF e \in new THEN f[e] ELSE efd[e]]
  /\ data' = [e \in Events |-> IF e \in new THEN o ELSE data[e]]
  /\ enabled' = (enabled \ new) \cup on
  /\ remove'  = remove \ new
  /\ running' = running \ new
  /\ due'     = due \ new

RemoveEvents_StillRunning(es) ==
  /\ remove'  = remove \cup es
  /\ enabled' = enabled \ es
  /\ running' = running

\* remove_event for each of es.
RemoveEvents(es) ==
  /\ remove'  = remove \cup es
  /\ enabled' = enabled \ es
  /\ running' = running \ es

Fresh == Events \ listed
Call  == cb # NULL /\ calls > 0 /\ calls' = calls - 1 /\ UNCHANGED <<loop, cb>>

\* The kernel gives the lowest free descriptor.
Lowest(f, fs) == f \in fs /\ \A g \in fs : f <= g

\* What the kernel knows of a descriptor ends with it.
Close(fs) == /\ open' = open \ fs
             /\ readable' = {x \in readable : x[1] \notin fs}

\* do_accept: the read and the write event, and the latter is disabled.
NewConn(o) ==
  /\ Call
  /\ kind[o] = "free"
  /\ \E a, b \in Fresh : a # b
  /\ \E f \in Fds :
       LET r == Malloc(Fresh)
           w == Malloc(Fresh \ {r})
       IN /\ Lowest(f, Fds \ open)
          /\ Add(Push(Push(Linked, r, "fd"), w, "fd"),
                 [e \in {r, w} |-> IF e = r THEN "read" ELSE "write"],
                 [e \in {r, w} |-> f], o, {r})
          /\ kind' = [kind EXCEPT ![o] = "conn"]
          /\ held' = [held EXCEPT ![o] = {r, w}]
          /\ fd'   = [fd EXCEPT ![o] = f]
          /\ open' = open \cup {f}
  /\ UNCHANGED <<second_fd, readable>>

\* new_rtp_endpoint: the timer, which set_event_enabled turns off.
NewEndpoint(o) ==
  /\ Call
  /\ kind[o] = "free"
  /\ Fresh # {}
  /\ LET t == Malloc(Fresh)
     IN /\ Add(Push(Linked, t, "time"), [e \in {t} |-> "time"], [e \in {t} |-> NoFd], o, {})
        /\ kind' = [kind EXCEPT ![o] = "endpoint"]
        /\ held' = [held EXCEPT ![o] = {t}]
  /\ UNCHANGED <<fd, second_fd, open, readable>>

\* connect_udp_endpoint: two sockets, each with a read event.
ConnectUdp(o) ==
  /\ Call
  /\ kind[o] = "endpoint" /\ Ports(o) = {}
  /\ \E a, b \in Fresh : a # b
  /\ \E f, g \in Fds :
       LET r == Malloc(Fresh)
           s == Malloc(Fresh \ {r})
       IN /\ Lowest(f, Fds \ open) /\ Lowest(g, Fds \ (open \cup {f}))
          /\ Add(Push(Push(Linked, r, "fd"), s, "fd"), [e \in {r, s} |-> "read"],
                 [e \in {r, s} |-> IF e = r THEN f ELSE g], o, {r, s})
          /\ held' = [held EXCEPT ![o] = @ \cup {r, s}]
          /\ fd' = [fd EXCEPT ![o] = f] /\ second_fd' = [second_fd EXCEPT ![o] = g]
          /\ open' = open \cup {f, g}
  /\ UNCHANGED <<kind, readable>>

\* The second read event of a connection, the RTCP event of an endpoint.
SecondRead(p) == {e \in held[p] : efd[e] = second_fd[p]}

Free_WriteLeft(o) ==
  /\ Call
  /\ kind[o] \in {"conn", "endpoint"}
  /\ RemoveEvents({e \in held[o] : role[e] # "write"})
  /\ Close(Ports(o))
  /\ kind' = [kind EXCEPT ![o] = "free"] /\ held' = [held EXCEPT ![o] = {}]
  /\ fd' = [fd EXCEPT ![o] = NoFd] /\ second_fd' = [second_fd EXCEPT ![o] = NoFd]
  /\ UNCHANGED <<links, due>>

\* drop_conn, del_rtp_endpoint: every event is removed, every descriptor is
\* closed, the memory is freed.
Free(o) ==
  /\ Call
  /\ kind[o] \in {"conn", "endpoint"}
  /\ RemoveEvents(held[o])
  /\ Close(Ports(o))
  /\ kind' = [kind EXCEPT ![o] = "free"] /\ held' = [held EXCEPT ![o] = {}]
  /\ fd' = [fd EXCEPT ![o] = NoFd] /\ second_fd' = [second_fd EXCEPT ![o] = NoFd]
  /\ UNCHANGED <<links, due>>

\* send_data turns the write event of a connection on, the first packet the
\* timer of an endpoint.
Enable(e) ==
  /\ Call
  /\ e \in Held \ enabled /\ role[e] \in {"write", "time"}
  /\ enabled' = enabled \cup {e}
  /\ UNCHANGED <<links, remove, running, due, objects, readable>>

\* conn_write has written everything and turns its own event off.
WriteDone ==
  /\ Call
  /\ cb \in Held /\ role[cb] = "write"
  /\ enabled' = enabled \ {cb}
  /\ UNCHANGED <<links, remove, running, due, objects, readable>>

\* handle_QT_tunnel in do_read of connection o: its descriptor becomes the
\* second one of p, whose former second one is closed; then drop_conn of o.
Tunnel(o, p) ==
  /\ Call
  /\ kind[o] = "conn" /\ kind[p] = "conn" /\ o # p
  /\ cb \in held[o] /\ role[cb] = "read" /\ efd[cb] = fd[o]
  /\ second_fd[o] = NoFd
  /\ Fresh # {}
  /\ LET e    == Malloc(Fresh)
         gone == held[o] \cup SecondRead(p)
     IN /\ SetLinks(Push(Linked, e, "fd"))
        /\ listed' = listed \cup {e}
        /\ role' = [role EXCEPT ![e] = "read"]
        /\ efd'  = [efd EXCEPT ![e] = fd[o]]
        /\ data' = [data EXCEPT ![e] = p]
        /\ remove'  = (remove \ {e}) \cup gone
        /\ enabled' = (enabled \ gone) \cup {e}
        /\ running' = running \ (gone \cup {e})
        /\ due' = due \ {e}
        /\ held' = [held EXCEPT ![o] = {}, ![p] = (@ \ SecondRead(p)) \cup {e}]
  /\ Close({second_fd[p]})
  /\ kind' = [kind EXCEPT ![o] = "free"]
  /\ fd' = [fd EXCEPT ![o] = NoFd]
  /\ second_fd' = [second_fd EXCEPT ![p] = fd[o]]

CloseSecond_NotReset(p) ==
  /\ Call
  /\ kind[p] = "conn" /\ second_fd[p] # NoFd /\ cb \in SecondRead(p)
  /\ RemoveEvents(SecondRead(p))
  /\ Close({second_fd[p]})
  /\ held' = [held EXCEPT ![p] = @ \ SecondRead(p)]
  /\ UNCHANGED <<links, due, kind, fd, second_fd>>

\* do_read when the second descriptor of p has been closed by the client.
CloseSecond(p) ==
  /\ Call
  /\ kind[p] = "conn" /\ second_fd[p] # NoFd /\ cb \in SecondRead(p)
  /\ RemoveEvents(SecondRead(p))
  /\ Close({second_fd[p]})
  /\ held' = [held EXCEPT ![p] = @ \ SecondRead(p)]
  /\ second_fd' = [second_fd EXCEPT ![p] = NoFd]
  /\ UNCHANGED <<links, due, kind, fd>>

-----------------------------------------------------------------------------
(* The loop. *)

Asked(e) == <<efd[e], role[e]>>

\* The lists are walked, RUNNING is made to agree with ENABLED, and select is
\* asked about the enabled descriptors; a closed one makes it fail.
Poll ==
  /\ phase = "idle"
  /\ running' = enabled \cap listed
  /\ examined' = {e \in enabled \cap listed : role[e] # "time"}
  /\ selected' = IF \A e \in examined' : efd[e] \in open
                 THEN {Asked(e) : e \in examined'} \cap readable
                 ELSE {}
  /\ phase' = "time" /\ cur' = head["time"]
  /\ UNCHANGED <<links, enabled, remove, due, objects, readable, cb, calls>>

ToRun_Enabled(e) ==
  IF phase = "time" THEN e \in running \cap due
  ELSE e \in enabled /\ Asked(e) \in selected

\* Whether the pass calls e back.
ToRun(e) == IF phase = "time" THEN e \in running \cap due
            ELSE e \in running /\ Asked(e) \in selected

\* The walk goes on from cur: the first event it does not step over, if any.
Met == LET w == Walk(cur)
           Called == {n \in Steps : ToRun(w[n])}
       IN {w[n] : n \in {k \in Called : \A m \in Called : k <= m}}

\* A due timer is rescheduled, which enables it, and called.  (One that is
\* late by more than its interval is still due: a Tick at once.)
TimeRun ==
  /\ phase = "time" /\ cb = NULL
  /\ \E e \in Met : /\ enabled' = enabled \cup {e} /\ remove' = remove \ {e}
                    /\ due' = due \ {e}
                    /\ cb' = e /\ cur' = e
  /\ calls' = MaxCalls
  /\ UNCHANGED <<links, running, objects, readable, phase, selected, examined>>

\* The descriptor pass begins if select has found any.
TimeDone ==
  /\ phase = "time" /\ cb = NULL /\ Met = {}
  /\ phase' = IF selected # {} THEN "fd" ELSE "strip"
  /\ cur' = IF selected # {} THEN head["fd"] ELSE NULL
  /\ UNCHANGED <<links, flags, due, objects, readable, selected, examined, cb, calls>>

FdRun ==
  /\ phase = "fd" /\ cb = NULL
  /\ \E e \in Met : cb' = e /\ cur' = e
  /\ calls' = MaxCalls
  /\ UNCHANGED <<links, flags, due, objects, readable, phase, selected, examined>>

FdDone ==
  /\ phase = "fd" /\ cb = NULL /\ Met = {}
  /\ phase' = "strip" /\ cur' = NULL
  /\ UNCHANGED <<links, flags, due, objects, readable, selected, examined, cb, calls>>

\* The callback returns and the loop goes on to the next event.  What it was
\* called for has been read or written up, or what is left arrives again.
Return ==
  /\ cb # NULL
  /\ cb' = NULL /\ calls' = 0
  /\ cur' = next[cur]
  /\ readable' = readable \ {Asked(cb)}
  /\ UNCHANGED <<links, flags, due, objects, phase, selected, examined>>

Unlink_PrevKept(s, e, l) ==
  [head |-> IF s.prev[e] = NULL THEN [s.head EXCEPT ![l] = s.next[e]] ELSE s.head,
   next |-> IF s.prev[e] = NULL THEN s.next
            ELSE [s.next EXCEPT ![s.prev[e]] = s.next[e]],
   prev |-> s.prev]

\* One event of strip_events.
Unlink(s, e, l) ==
  [head |-> IF s.prev[e] = NULL THEN [s.head EXCEPT ![l] = s.next[e]] ELSE s.head,
   next |-> IF s.prev[e] = NULL THEN s.next
            ELSE [s.next EXCEPT ![s.prev[e]] = s.next[e]],
   prev |-> IF s.next[e] = NULL THEN s.prev
            ELSE [s.prev EXCEPT ![s.next[e]] = s.prev[e]]]

Forget(f, v) == [e \in Events |-> IF e \in remove THEN v ELSE f[e]]

\* strip_events: what is marked is unlinked, from the head on.
Stripped(s, l) ==
  LET w == Order(l)
      after[n \in 0 .. Most] ==
        IF n = 0 THEN s
        ELSE IF w[n] \in remove THEN Unlink(after[n - 1], w[n], l) ELSE after[n - 1]
  IN after[Most]

\* The end of a pass: strip_events for both lists.
Strip ==
  /\ phase = "strip"
  /\ LET s == Stripped(Stripped(Linked, "time"), "fd")
     IN /\ head' = s.head
        /\ next' = Forget(s.next, NULL) /\ prev' = Forget(s.prev, NULL)
  /\ listed' = listed \ remove
  /\ role' = Forget(role, "read") /\ efd' = Forget(efd, NoFd) /\ data' = Forget(data, Root)
  /\ remove' = {} /\ enabled' = enabled \ remove /\ running' = running \ remove
  /\ due' = due \ remove
  /\ phase' = "idle" /\ selected' = {} /\ examined' = {}
  /\ UNCHANGED <<objects, readable, cur, cb, calls>>

-----------------------------------------------------------------------------
(* The world outside. *)

\* A packet, a client or room in a socket's buffer arrives.  Only Poll looks
\* at readable, and only for enabled events: what arrives during a pass, or
\* for an event that is off, may as well arrive after it, or once it is on.
Arrive ==
  /\ phase = "idle"
  /\ \E e \in enabled : /\ role[e] # "time" /\ Asked(e) \notin readable
                        /\ readable' = readable \cup {Asked(e)}
  /\ UNCHANGED <<links, flags, due, objects, loop, cb, calls>>

\* The time of a timer comes, or has come before it was enabled, or while
\* nobody was looking.
Tick ==
  /\ phase = "time"
  /\ \E e \in enabled \ due : role[e] = "time" /\ due' = due \cup {e}
  /\ UNCHANGED <<links, flags, objects, readable, loop, cb, calls>>

Calls == \/ \E o \in Objects : \/ NewConn(o) \/ NewEndpoint(o) \/ ConnectUdp(o)
                               \/ Free(o) \/ CloseSecond(o)
         \/ \E o, p \in Objects : Tunnel(o, p)
         \/ \E e \in Events : Enable(e)
         \/ WriteDone
Loop  == \/ Poll \/ TimeRun \/ TimeDone \/ FdRun \/ FdDone \/ Return \/ Strip

Next == Calls \/ Loop \/ Arrive \/ Tick

Spec == Init /\ [][Next]_vars

\* The main thread calls event_loop again and again, and callbacks return.
FairSpec == Spec /\ WF_vars(Loop)

-----------------------------------------------------------------------------
(* Properties. *)

\* Types of the events, the objects and where the loop is.
TypeOK ==
  /\ role \in [Events -> Roles] /\ efd \in [Events -> Fds \cup {NoFd}]
  /\ data \in [Events -> Objects]
  /\ listed \subseteq Events /\ enabled \subseteq Events /\ remove \subseteq Events
  /\ running \subseteq Events /\ due \subseteq Events /\ examined \subseteq Events
  /\ kind \in [Objects -> Kinds] /\ held \in [Objects -> SUBSET Events]
  /\ fd \in [Objects -> Fds \cup {NoFd}] /\ second_fd \in [Objects -> Fds \cup {NoFd}]
  /\ open \subseteq Fds
  /\ readable \subseteq Fds \X Roles /\ selected \subseteq Fds \X Roles
  /\ phase \in {"idle", "time", "fd", "strip"}
  /\ cb \in Events \cup {NULL} /\ calls \in 0 .. MaxCalls

\* Following next from a head meets every event of that list once and ends,
\* and prev is the way back: events come and go in the middle of a walk.
ListsSound ==
  /\ \A l \in Lists :
       LET w   == Order(l)
           Places == {n \in Steps : w[n] # NULL} IN
         /\ {w[n] : n \in Places} = {e \in listed : ListOf(role[e]) = l}
         /\ \A m, n \in Places : w[m] = w[n] => m = n
         /\ w[Most + 1] = NULL
         /\ \A n \in Places : prev[w[n]] = IF n = 1 THEN NULL ELSE w[n - 1]
  /\ Held \subseteq listed

\* A callback is called with an object that exists and still points to the
\* event: never with the memory of one freed earlier in the pass, whether by
\* its own callback or by another's, or with its successor there.
CalledAlive ==
  [][cb = NULL /\ cb' # NULL => cb' \in held[data[cb']] /\ kind[data[cb']] # "free"]_vars

\* A descriptor's callback is called only when this pass's select has found
\* that very descriptor ready: a new one of the same number, opened during
\* the pass, would have its callback block the thread in a read.
CalledReady ==
  [][cb = NULL /\ cb' # NULL /\ role[cb'] # "time" =>
       /\ cb' \in examined
       /\ Asked(cb') \in selected
       /\ efd[cb'] \in Ports(data[cb'])]_vars

\* A descriptor has one owner and every open one has one: none is leaked, and
\* none is closed that somebody else has been given meanwhile.
DescriptorsOwned ==
  /\ open = UNION {Ports(o) : o \in Objects}
  /\ \A o \in Objects : fd[o] = second_fd[o] => fd[o] = NoFd
  /\ \A o, p \in Objects : o # p => Ports(o) \cap Ports(p) = {}

\* What select is asked about is open, or else it fails for everyone.
PolledOpen == \A e \in enabled : role[e] # "time" => efd[e] \in open

\* Whatever other callbacks do, a ready descriptor and a due timer with an
\* enabled event have their callback called, unless they cease to be so.
Served ==
  \A e \in Events :
    /\ (e \in enabled /\ role[e] # "time" /\ Asked(e) \in readable)
         ~> (cb = e \/ e \notin enabled \/ Asked(e) \notin readable)
    /\ (e \in enabled /\ role[e] = "time" /\ e \in due) ~> (cb = e \/ e \notin enabled)

\* Of its events an object holds those that are not being removed, and only
\* they are enabled or running; each asks about a descriptor of its object.
EventsHeld ==
  /\ Held \subseteq listed \ remove
  /\ enabled \cup running \subseteq Held
  /\ remove \subseteq listed
  /\ \A o \in Objects : \A e \in held[o] :
       /\ data[e] = o
       /\ IF role[e] = "time" THEN efd[e] = NoFd ELSE efd[e] \in Ports(o)
  /\ \A o \in Objects : kind[o] = "free" => held[o] = {} /\ Ports(o) = {}
  /\ \A o \in Objects : kind[o] = "conn" => \A e \in held[o] : role[e] # "time"
  /\ \A e \in due : role[e] = "time"
  /\ phase # "idle" => \A e \in running : role[e] = "time" \/ e \in examined

\* Inductive.
IInv == TypeOK /\ EventsHeld /\ DescriptorsOwned

=============================================================================
