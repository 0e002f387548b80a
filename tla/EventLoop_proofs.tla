--------------------------- MODULE EventLoop_proofs ---------------------------
(***************************************************************************)
(* Theorems about EventLoop, for any number of events, objects and         *)
(* descriptors, and any number of calls in a callback.                     *)
(*                                                                         *)
(* IInv does not need the lists to be sound: a walk, wherever it leads,    *)
(* calls only events with RUNNING set, and EventsHeld says what that flag  *)
(* stands for.  That the lists are sound comes after it.                   *)
(***************************************************************************)
EXTENDS EventLoop, FiniteSetTheorems, TLAPS

USE RootAssumption, EventsAssumption, BoundsAssumption

\* What malloc returns is in no list.
LEMMA MallocIn ==
  ASSUME NEW S, S # {}
  PROVE  Malloc(S) \in S
BY DEF Malloc

\* The two events of a connection, or of a pair of sockets.
LEMMA MallocTwo ==
  ASSUME \E a, b \in Fresh : a # b
  PROVE  /\ Malloc(Fresh) \in Fresh
         /\ Malloc(Fresh \ {Malloc(Fresh)}) \in Fresh
         /\ Malloc(Fresh \ {Malloc(Fresh)}) # Malloc(Fresh)
<1>1. Malloc(Fresh) \in Fresh BY MallocIn
<1>2. Fresh \ {Malloc(Fresh)} # {} OBVIOUS
<1>3. Malloc(Fresh \ {Malloc(Fresh)}) \in Fresh \ {Malloc(Fresh)} BY <1>2, MallocIn
<1>4. QED BY <1>1, <1>3

\* NoFd is not a descriptor.
LEMMA NoFdNotFd == NoFd \notin Fds
BY DEF NoFd, Fds

\* An event that malloc returns is held by nobody and has no flag set.
LEMMA FreshUnheld ==
  ASSUME IInv, NEW e \in Fresh
  PROVE  /\ e \in Events /\ e \notin listed
         /\ \A o \in Objects : e \notin held[o]
         /\ e \notin enabled /\ e \notin running /\ e \notin remove
BY DEF IInv, TypeOK, EventsHeld, Held, Fresh

\* An object is given descriptors nobody has.
LEMMA OwnedStep ==
  ASSUME DescriptorsOwned, NEW o \in Objects, NEW new, new \cap open = {},
         Ports(o) = {}, Ports(o)' = new, open' = open \cup new,
         fd'[o] = second_fd'[o] => fd'[o] = NoFd,
         \A p \in Objects \ {o} :
           Ports(p)' = Ports(p) /\ fd'[p] = fd[p] /\ second_fd'[p] = second_fd[p]
  PROVE  DescriptorsOwned'
<1>1. \A p \in Objects : Ports(p) \subseteq open BY DEF DescriptorsOwned
<1>2. open' = UNION {Ports(p)' : p \in Objects}
  <2>1. \A f : f \in open <=> \E p \in Objects : f \in Ports(p) BY DEF DescriptorsOwned
  <2>2. \A f : f \in open' <=> \E p \in Objects : f \in Ports(p)' BY <2>1
  <2>3. QED BY <2>2
<1>3. \A p, q \in Objects : p # q => Ports(p)' \cap Ports(q)' = {}
  BY <1>1 DEF DescriptorsOwned
<1>4. \A p \in Objects : fd'[p] = second_fd'[p] => fd'[p] = NoFd
  BY DEF DescriptorsOwned
<1>5. QED BY <1>2, <1>3, <1>4 DEF DescriptorsOwned

\* An object closes some of its descriptors.
LEMMA ClosedStep ==
  ASSUME DescriptorsOwned, NEW o \in Objects, NEW gone, gone \subseteq Ports(o),
         Ports(o)' = Ports(o) \ gone, open' = open \ gone,
         fd'[o] = second_fd'[o] => fd'[o] = NoFd,
         \A p \in Objects \ {o} :
           Ports(p)' = Ports(p) /\ fd'[p] = fd[p] /\ second_fd'[p] = second_fd[p]
  PROVE  DescriptorsOwned'
<1>1. \A p \in Objects \ {o} : Ports(p) \cap gone = {} BY DEF DescriptorsOwned
<1>2. open' = UNION {Ports(p)' : p \in Objects}
  <2>1. \A f : f \in open <=> \E p \in Objects : f \in Ports(p) BY DEF DescriptorsOwned
  <2>2. \A f : f \in open' <=> \E p \in Objects : f \in Ports(p)' BY <1>1, <2>1
  <2>3. QED BY <2>2
<1>3. \A p, q \in Objects : p # q => Ports(p)' \cap Ports(q)' = {}
  BY DEF DescriptorsOwned
<1>4. \A p \in Objects : fd'[p] = second_fd'[p] => fd'[p] = NoFd
  BY DEF DescriptorsOwned
<1>5. QED BY <1>2, <1>3, <1>4 DEF DescriptorsOwned

\* Object o is given the events of n, which were in no list, and the ones of
\* on are enabled; what it had stays as it was.
Adds(o, n, on) ==
  /\ n \subseteq Fresh /\ on \subseteq n
  /\ held'[o] = held[o] \cup n /\ \A p \in Objects \ {o} : held'[p] = held[p]
  /\ listed' = listed \cup n
  /\ enabled' = (enabled \ n) \cup on /\ remove' = remove \ n
  /\ running' = running \ n /\ due' = due \ n
  /\ \A e \in Events \ n : role'[e] = role[e] /\ efd'[e] = efd[e] /\ data'[e] = data[e]
  /\ \A e \in n : /\ data'[e] = o
                  /\ IF role'[e] = "time" THEN efd'[e] = NoFd ELSE efd'[e] \in Ports(o)'
                  /\ kind'[o] = "conn" => role'[e] # "time"
  /\ kind'[o] # "free" /\ (kind'[o] = kind[o] \/ held[o] = {})
  /\ Ports(o) \subseteq Ports(o)'
  /\ \A p \in Objects \ {o} : Ports(p)' = Ports(p) /\ kind'[p] = kind[p]
  /\ phase' = phase /\ examined' = examined

\* Then the events and their objects still agree.
LEMMA AddedEvents ==
  ASSUME IInv, NEW o \in Objects, NEW n, NEW on, Adds(o, n, on)
  PROVE  EventsHeld'
<1> USE DEF Adds
<1>1. \A e \in n : /\ e \in Events /\ e \notin listed
                   /\ \A p \in Objects : e \notin held[p]
                   /\ e \notin enabled /\ e \notin running /\ e \notin remove
  BY FreshUnheld
<1>2. held'[o] = held[o] \cup n /\ \A p \in Objects \ {o} : held'[p] = held[p]
  OBVIOUS
<1>3. Held' = Held \cup n
  <2>1. \A e : e \in Held' <=> e \in Held \/ e \in n BY <1>2 DEF Held
  <2>2. QED BY <2>1
<1>4. (Held \subseteq listed \ remove /\ enabled \cup running \subseteq Held /\ remove \subseteq listed)'
  BY <1>1, <1>3 DEF IInv, EventsHeld
<1>5. ASSUME NEW p \in Objects, NEW e \in held'[p]
      PROVE  /\ data'[e] = p
             /\ IF role'[e] = "time" THEN efd'[e] = NoFd ELSE efd'[e] \in Ports(p)'
             /\ kind'[p] = "conn" => role'[e] # "time"
  <2>1. CASE e \in n BY <1>1, <1>2, <2>1
  <2>2. CASE e \notin n
    <3>1. e \in held[p] /\ e \in Events \ n BY <1>2, <1>5, <2>2 DEF IInv, TypeOK
    <3>2. /\ data[e] = p
          /\ IF role[e] = "time" THEN efd[e] = NoFd ELSE efd[e] \in Ports(p)
          /\ kind[p] = "conn" => role[e] # "time"
      BY <3>1 DEF IInv, EventsHeld
    <3>3. Ports(p) \subseteq Ports(p)' /\ kind'[p] = kind[p] BY <3>1
    <3>4. QED BY <3>1, <3>2, <3>3
  <2>3. QED BY <2>1, <2>2
<1>6. \A p \in Objects : kind'[p] = "free" => held'[p] = {} /\ Ports(p)' = {}
  BY <1>2 DEF IInv, EventsHeld
<1>7. \A e \in due' : role'[e] = "time"
  BY DEF IInv, EventsHeld, TypeOK
<1>8. phase' # "idle" => \A e \in running' : role'[e] = "time" \/ e \in examined'
  BY DEF IInv, EventsHeld, TypeOK
<1>9. QED BY <1>4, <1>5, <1>6, <1>7, <1>8 DEF EventsHeld

\* An object removes events, and is freed or keeps the descriptors of the rest.
LEMMA RemovedEvents ==
  ASSUME IInv, NEW o \in Objects, NEW g, g \subseteq held[o],
         held' = [held EXCEPT ![o] = @ \ g], RemoveEvents(g),
         UNCHANGED <<links, due, phase, examined>>,
         \/ kind'[o] = kind[o] /\ kind[o] # "free"
         \/ held'[o] = {} /\ Ports(o)' = {},
         \A e \in held[o] \ g : role[e] # "time" => efd[e] \in Ports(o)',
         \A p \in Objects \ {o} : Ports(p)' = Ports(p) /\ kind'[p] = kind[p]
  PROVE  EventsHeld'
<1>1. held'[o] = held[o] \ g /\ \A p \in Objects \ {o} : held'[p] = held[p]
  BY DEF IInv, TypeOK
<1>2. /\ listed' = listed /\ role' = role /\ efd' = efd /\ data' = data
      /\ due' = due /\ phase' = phase /\ examined' = examined
  BY DEF links
<1>3. \A p \in Objects \ {o} : held[p] \cap g = {}
  BY DEF IInv, EventsHeld
<1>4. Held' = Held \ g
  <2>1. \A e : e \in Held' <=> e \in Held /\ e \notin g BY <1>1, <1>3 DEF Held
  <2>2. QED BY <2>1
<1>5. g \subseteq Held BY DEF Held
<1>6. (Held \subseteq listed \ remove /\ enabled \cup running \subseteq Held /\ remove \subseteq listed)'
  BY <1>2, <1>4, <1>5 DEF IInv, EventsHeld, RemoveEvents
<1>7. ASSUME NEW p \in Objects, NEW e \in held'[p]
      PROVE  /\ data'[e] = p
             /\ IF role'[e] = "time" THEN efd'[e] = NoFd ELSE efd'[e] \in Ports(p)'
             /\ kind'[p] = "conn" => role'[e] # "time"
  <2>1. e \in held[p] /\ (p = o => e \notin g) BY <1>1, <1>7
  <2>2. /\ data[e] = p
        /\ IF role[e] = "time" THEN efd[e] = NoFd ELSE efd[e] \in Ports(p)
        /\ kind[p] = "conn" => role[e] # "time"
    BY <2>1 DEF IInv, EventsHeld
  <2>3. kind'[p] = kind[p] BY <1>7
  <2>4. QED BY <1>2, <2>1, <2>2, <2>3
<1>8. \A p \in Objects : kind'[p] = "free" => held'[p] = {} /\ Ports(p)' = {}
  BY <1>1 DEF IInv, EventsHeld
<1>9. \A e \in due' : role'[e] = "time" BY <1>2 DEF IInv, EventsHeld
<1>10. phase' # "idle" => \A e \in running' : role'[e] = "time" \/ e \in examined'
  BY <1>2 DEF IInv, EventsHeld, RemoveEvents
<1>11. QED BY <1>6, <1>7, <1>8, <1>9, <1>10 DEF EventsHeld

-----------------------------------------------------------------------------
(* The calls of a callback *)

\* do_accept
LEMMA NewConnPreserves ==
  ASSUME IInv, NEW o \in Objects, NewConn(o)
  PROVE  IInv'
<1> USE DEF IInv
<1> DEFINE r == Malloc(Fresh)
           w == Malloc(Fresh \ {r})
<1>1. PICK f \in Fds :
          /\ Lowest(f, Fds \ open)
          /\ Add(Push(Push(Linked, r, "fd"), w, "fd"),
                 [e \in {r, w} |-> IF e = r THEN "read" ELSE "write"],
                 [e \in {r, w} |-> f], o, {r})
          /\ kind' = [kind EXCEPT ![o] = "conn"]
          /\ held' = [held EXCEPT ![o] = {r, w}]
          /\ fd'   = [fd EXCEPT ![o] = f]
          /\ open' = open \cup {f}
  BY DEF NewConn
<1>2. r \in Fresh /\ w \in Fresh /\ w # r BY MallocTwo DEF NewConn
<1>3. /\ r \in Events /\ w \in Events /\ r \notin listed /\ w \notin listed
      /\ \A p \in Objects : r \notin held[p] /\ w \notin held[p]
      /\ r \notin running /\ w \notin running
  BY <1>2, FreshUnheld
<1> HIDE DEF r, w
<1>4. /\ f \notin open /\ f # NoFd
      /\ second_fd' = second_fd /\ readable' = readable /\ cb' = cb /\ calls' = calls - 1
      /\ calls > 0 /\ phase' = phase /\ selected' = selected /\ examined' = examined
      /\ kind[o] = "free"
  BY <1>1, NoFdNotFd DEF NewConn, Call, Lowest, loop
<1>5. /\ listed' = listed \cup {r, w}
      /\ role' = [e \in Events |-> IF e = r THEN "read" ELSE IF e = w THEN "write" ELSE role[e]]
      /\ efd' = [e \in Events |-> IF e \in {r, w} THEN f ELSE efd[e]]
      /\ data' = [e \in Events |-> IF e \in {r, w} THEN o ELSE data[e]]
      /\ enabled' = (enabled \ {r, w}) \cup {r} /\ remove' = remove \ {r, w}
      /\ running' = running \ {r, w} /\ due' = due \ {r, w}
  BY <1>1, <1>2 DEF Add
<1>6. TypeOK' BY <1>1, <1>3, <1>4, <1>5 DEF TypeOK, Roles, Kinds
<1>7. /\ Ports(o) = {} /\ fd[o] = NoFd /\ second_fd[o] = NoFd
      /\ fd'[o] = f /\ second_fd'[o] = NoFd /\ Ports(o)' = {f}
      /\ \A p \in Objects \ {o} :
           Ports(p)' = Ports(p) /\ fd'[p] = fd[p] /\ second_fd'[p] = second_fd[p]
  <2>1. Ports(o) = {} BY <1>4 DEF EventsHeld
  <2>2. fd[o] = NoFd /\ second_fd[o] = NoFd BY <2>1 DEF Ports
  <2>3. fd'[o] = f /\ second_fd'[o] = NoFd BY <1>1, <1>4, <2>2 DEF TypeOK
  <2>4. Ports(o)' = {f} BY <1>4, <2>3 DEF Ports
  <2>5. \A p \in Objects \ {o} : fd'[p] = fd[p] /\ second_fd'[p] = second_fd[p]
    BY <1>1, <1>4 DEF TypeOK
  <2>6. QED BY <2>1, <2>2, <2>3, <2>4, <2>5 DEF Ports
<1>8. EventsHeld'
  <2>1. /\ held'[o] = held[o] \cup {r, w} /\ held[o] = {}
        /\ \A p \in Objects \ {o} : held'[p] = held[p]
    BY <1>1, <1>4 DEF TypeOK, EventsHeld
  <2>2. \A e \in {r, w} : /\ data'[e] = o
                          /\ role'[e] # "time" /\ efd'[e] \in Ports(o)'
    BY <1>2, <1>3, <1>5, <1>7
  <2>3. \A e \in Events \ {r, w} : role'[e] = role[e] /\ efd'[e] = efd[e] /\ data'[e] = data[e]
    BY <1>5
  <2>4. kind'[o] = "conn" /\ \A p \in Objects \ {o} : kind'[p] = kind[p]
    BY <1>1 DEF TypeOK
  <2>5. Adds(o, {r, w}, {r}) BY <1>2, <1>4, <1>5, <1>7, <2>1, <2>2, <2>3, <2>4 DEF Adds
  <2>6. QED BY <2>5, AddedEvents
<1>9. DescriptorsOwned' BY <1>1, <1>4, <1>7, OwnedStep DEF DescriptorsOwned
<1>10. QED BY <1>6, <1>8, <1>9

\* new_rtp_endpoint
LEMMA NewEndpointPreserves ==
  ASSUME IInv, NEW o \in Objects, NewEndpoint(o)
  PROVE  IInv'
<1> USE DEF IInv
<1> DEFINE t == Malloc(Fresh)
<1>1. t \in Fresh BY MallocIn DEF NewEndpoint
<1>2. t \in Events /\ t \notin listed BY <1>1, FreshUnheld
<1>3. /\ fd' = fd /\ second_fd' = second_fd /\ readable' = readable /\ open' = open
      /\ cb' = cb /\ calls' = calls - 1 /\ calls > 0
      /\ phase' = phase /\ selected' = selected /\ examined' = examined
      /\ kind[o] = "free" /\ kind' = [kind EXCEPT ![o] = "endpoint"]
      /\ held' = [held EXCEPT ![o] = {t}]
  BY DEF NewEndpoint, Call, loop
<1>4. /\ listed' = listed \cup {t}
      /\ role' = [e \in Events |-> IF e = t THEN "time" ELSE role[e]]
      /\ efd' = [e \in Events |-> IF e = t THEN NoFd ELSE efd[e]]
      /\ data' = [e \in Events |-> IF e = t THEN o ELSE data[e]]
      /\ enabled' = enabled \ {t} /\ remove' = remove \ {t}
      /\ running' = running \ {t} /\ due' = due \ {t}
  BY <1>1 DEF NewEndpoint, Add
<1> HIDE DEF t
<1>5. TypeOK' BY <1>2, <1>3, <1>4 DEF TypeOK, Roles, Kinds
<1>6. \A p \in Objects : Ports(p)' = Ports(p) BY <1>3 DEF Ports
<1>7. EventsHeld'
  <2>1. /\ held'[o] = held[o] \cup {t} /\ held[o] = {}
        /\ \A p \in Objects \ {o} : held'[p] = held[p]
    BY <1>3 DEF TypeOK, EventsHeld
  <2>2. data'[t] = o /\ role'[t] = "time" /\ efd'[t] = NoFd BY <1>2, <1>4
  <2>3. \A e \in Events \ {t} : role'[e] = role[e] /\ efd'[e] = efd[e] /\ data'[e] = data[e]
    BY <1>4
  <2>4. kind'[o] = "endpoint" /\ \A p \in Objects \ {o} : kind'[p] = kind[p]
    BY <1>3 DEF TypeOK
  <2>5. Adds(o, {t}, {}) BY <1>1, <1>3, <1>4, <1>6, <2>1, <2>2, <2>3, <2>4 DEF Adds
  <2>6. QED BY <2>5, AddedEvents
<1>8. DescriptorsOwned' BY <1>3, <1>6 DEF DescriptorsOwned
<1>9. QED BY <1>5, <1>7, <1>8

\* connect_udp_endpoint
LEMMA ConnectUdpPreserves ==
  ASSUME IInv, NEW o \in Objects, ConnectUdp(o)
  PROVE  IInv'
<1> USE DEF IInv
<1> DEFINE r == Malloc(Fresh)
           s == Malloc(Fresh \ {r})
<1>1. PICK f \in Fds, g \in Fds :
          /\ Lowest(f, Fds \ open) /\ Lowest(g, Fds \ (open \cup {f}))
          /\ Add(Push(Push(Linked, r, "fd"), s, "fd"), [e \in {r, s} |-> "read"],
                 [e \in {r, s} |-> IF e = r THEN f ELSE g], o, {r, s})
          /\ held' = [held EXCEPT ![o] = @ \cup {r, s}]
          /\ fd' = [fd EXCEPT ![o] = f] /\ second_fd' = [second_fd EXCEPT ![o] = g]
          /\ open' = open \cup {f, g}
  BY DEF ConnectUdp
<1>2. r \in Fresh /\ s \in Fresh /\ s # r BY MallocTwo DEF ConnectUdp
<1>3. r \in Events /\ s \in Events BY <1>2, FreshUnheld
<1> HIDE DEF r, s
<1>4. /\ f \notin open /\ g \notin open /\ f # g /\ f # NoFd /\ g # NoFd
      /\ readable' = readable /\ cb' = cb /\ calls' = calls - 1 /\ kind' = kind
      /\ calls > 0 /\ phase' = phase /\ selected' = selected /\ examined' = examined
      /\ kind[o] = "endpoint" /\ Ports(o) = {}
  BY <1>1, NoFdNotFd DEF ConnectUdp, Call, Lowest, loop
<1>5. /\ listed' = listed \cup {r, s}
      /\ role' = [e \in Events |-> IF e \in {r, s} THEN "read" ELSE role[e]]
      /\ efd' = [e \in Events |-> IF e = r THEN f ELSE IF e = s THEN g ELSE efd[e]]
      /\ data' = [e \in Events |-> IF e \in {r, s} THEN o ELSE data[e]]
      /\ enabled' = (enabled \ {r, s}) \cup {r, s} /\ remove' = remove \ {r, s}
      /\ running' = running \ {r, s} /\ due' = due \ {r, s}
  BY <1>1, <1>2 DEF Add
<1>6. TypeOK' BY <1>1, <1>3, <1>4, <1>5 DEF TypeOK, Roles, Kinds
<1>7. /\ fd'[o] = f /\ second_fd'[o] = g /\ Ports(o)' = {f, g}
      /\ \A p \in Objects \ {o} :
           Ports(p)' = Ports(p) /\ fd'[p] = fd[p] /\ second_fd'[p] = second_fd[p]
  <2>1. fd'[o] = f /\ second_fd'[o] = g BY <1>1 DEF TypeOK
  <2>2. \A p \in Objects \ {o} : fd'[p] = fd[p] /\ second_fd'[p] = second_fd[p]
    BY <1>1 DEF TypeOK
  <2>3. QED BY <1>4, <2>1, <2>2 DEF Ports
<1>8. EventsHeld'
  <2>1. \A e \in {r, s} : /\ data'[e] = o
                          /\ role'[e] # "time" /\ efd'[e] \in Ports(o)'
    BY <1>2, <1>3, <1>5, <1>7
  <2>2. \A e \in Events \ {r, s} : role'[e] = role[e] /\ efd'[e] = efd[e] /\ data'[e] = data[e]
    BY <1>5
  <2>3. /\ held'[o] = held[o] \cup {r, s}
        /\ \A p \in Objects \ {o} : held'[p] = held[p]
    BY <1>1 DEF TypeOK
  <2>4. Adds(o, {r, s}, {r, s}) BY <1>2, <1>4, <1>5, <1>7, <2>1, <2>2, <2>3 DEF Adds
  <2>5. QED BY <2>4, AddedEvents
<1>9. DescriptorsOwned'
  <2>1. {f, g} \cap open = {} BY <1>4
  <2>2. QED BY <1>1, <1>4, <1>7, <2>1, OwnedStep DEF DescriptorsOwned
<1>10. QED BY <1>6, <1>8, <1>9

\* drop_conn, del_rtp_endpoint
LEMMA FreePreserves ==
  ASSUME IInv, NEW o \in Objects, Free(o)
  PROVE  IInv'
<1> USE DEF IInv
<1>1. /\ RemoveEvents(held[o]) /\ open' = open \ Ports(o) /\ readable' \subseteq readable
      /\ kind' = [kind EXCEPT ![o] = "free"] /\ held' = [held EXCEPT ![o] = {}]
      /\ fd' = [fd EXCEPT ![o] = NoFd] /\ second_fd' = [second_fd EXCEPT ![o] = NoFd]
      /\ UNCHANGED <<links, due>> /\ calls > 0 /\ calls' = calls - 1 /\ UNCHANGED <<loop, cb>>
  BY DEF Free, Call, Close
<1>2. TypeOK' BY <1>1 DEF TypeOK, RemoveEvents, links, loop, Kinds
<1>3. /\ fd'[o] = NoFd /\ second_fd'[o] = NoFd /\ Ports(o)' = {}
      /\ \A p \in Objects \ {o} :
           Ports(p)' = Ports(p) /\ fd'[p] = fd[p] /\ second_fd'[p] = second_fd[p]
  <2>1. fd'[o] = NoFd /\ second_fd'[o] = NoFd BY <1>1 DEF TypeOK
  <2>2. \A p \in Objects \ {o} : fd'[p] = fd[p] /\ second_fd'[p] = second_fd[p]
    BY <1>1 DEF TypeOK
  <2>3. QED BY <2>1, <2>2 DEF Ports
<1>4. EventsHeld'
  <2>1. held' = [held EXCEPT ![o] = @ \ held[o]] /\ held'[o] = {} BY <1>1 DEF TypeOK
  <2>2. \A p \in Objects \ {o} : kind'[p] = kind[p] BY <1>1 DEF TypeOK
  <2>3. UNCHANGED <<links, due, phase, examined>> BY <1>1 DEF loop
  <2>4. QED BY <1>1, <1>3, <2>1, <2>2, <2>3, RemovedEvents
<1>5. DescriptorsOwned'
  <2>1. Ports(o)' = Ports(o) \ Ports(o) BY <1>3
  <2>2. QED BY <1>1, <1>3, <2>1, ClosedStep
<1>6. QED BY <1>2, <1>4, <1>5

\* set_event_enabled, in send_data, send_rtp_packet and conn_write
LEMMA EnablingPreserves ==
  ASSUME IInv, (\E e \in Events : Enable(e)) \/ WriteDone
  PROVE  IInv'
<1> USE DEF IInv
<1>1. /\ enabled' \subseteq Held
      /\ UNCHANGED <<links, remove, running, due, objects, readable, loop, cb>>
      /\ calls > 0 /\ calls' = calls - 1
  BY DEF Enable, WriteDone, Call, EventsHeld
<1>2. /\ listed' = listed /\ role' = role /\ efd' = efd /\ data' = data
      /\ remove' = remove /\ running' = running /\ due' = due /\ kind' = kind
      /\ held' = held /\ fd' = fd /\ second_fd' = second_fd /\ open' = open
      /\ readable' = readable /\ phase' = phase /\ selected' = selected
      /\ examined' = examined /\ cb' = cb
  BY <1>1 DEF links, objects, loop
<1>3. Held' = Held /\ \A o \in Objects : Ports(o)' = Ports(o) BY <1>2 DEF Held, Ports
<1>4. Held \subseteq Events BY DEF Held, TypeOK
<1>5. TypeOK' BY <1>1, <1>2, <1>4 DEF TypeOK
<1>6. EventsHeld' BY <1>1, <1>2, <1>3 DEF EventsHeld
<1>7. DescriptorsOwned' BY <1>2, <1>3 DEF DescriptorsOwned
<1>8. QED BY <1>5, <1>6, <1>7

\* The end of the second descriptor, in do_read
LEMMA CloseSecondPreserves ==
  ASSUME IInv, NEW o \in Objects, CloseSecond(o)
  PROVE  IInv'
<1> USE DEF IInv
<1> DEFINE g == SecondRead(o)
<1>1. /\ RemoveEvents(g) /\ open' = open \ {second_fd[o]} /\ readable' \subseteq readable
      /\ kind[o] = "conn" /\ second_fd[o] # NoFd
      /\ held' = [held EXCEPT ![o] = @ \ g] /\ second_fd' = [second_fd EXCEPT ![o] = NoFd]
      /\ UNCHANGED <<links, due, kind, fd>>
      /\ calls > 0 /\ calls' = calls - 1 /\ UNCHANGED <<loop, cb>>
  BY DEF CloseSecond, Call, Close
<1>2. g \subseteq held[o] /\ \A e \in held[o] \ g : efd[e] # second_fd[o] BY DEF SecondRead
<1> HIDE DEF g
<1>3. TypeOK' BY <1>1, <1>2 DEF TypeOK, RemoveEvents, links, loop
<1>4. /\ fd'[o] = fd[o] /\ second_fd'[o] = NoFd /\ Ports(o)' = Ports(o) \ {second_fd[o]}
      /\ \A p \in Objects \ {o} :
           Ports(p)' = Ports(p) /\ fd'[p] = fd[p] /\ second_fd'[p] = second_fd[p]
  <2>1. fd'[o] = fd[o] /\ second_fd'[o] = NoFd BY <1>1 DEF TypeOK
  <2>2. \A p \in Objects \ {o} : fd'[p] = fd[p] /\ second_fd'[p] = second_fd[p]
    BY <1>1 DEF TypeOK
  <2>3. fd[o] # second_fd[o] BY <1>1 DEF DescriptorsOwned
  <2>4. Ports(o)' = Ports(o) \ {second_fd[o]} BY <2>1, <2>3 DEF Ports
  <2>5. QED BY <2>1, <2>2, <2>4 DEF Ports
<1>5. EventsHeld'
  <2>1. \A e \in held[o] \ g : role[e] # "time" => efd[e] \in Ports(o)'
    BY <1>2, <1>4 DEF EventsHeld
  <2>2. UNCHANGED <<links, due, phase, examined>> BY <1>1 DEF loop
  <2>3. QED BY <1>1, <1>2, <1>4, <2>1, <2>2, RemovedEvents
<1>6. DescriptorsOwned'
  <2>1. {second_fd[o]} \subseteq Ports(o) BY <1>1 DEF Ports
  <2>2. QED BY <1>1, <1>4, <2>1, ClosedStep
<1>7. QED BY <1>3, <1>5, <1>6

\* handle_QT_tunnel and the drop_conn that follows it
LEMMA TunnelPreserves ==
  ASSUME IInv, NEW o \in Objects, NEW q \in Objects, Tunnel(o, q)
  PROVE  IInv'
<1> USE DEF IInv
<1> DEFINE n    == Malloc(Fresh)
           old  == SecondRead(q)
           gone == held[o] \cup old
<1>1. /\ kind[o] = "conn" /\ kind[q] = "conn" /\ o # q
      /\ cb \in held[o] /\ role[cb] = "read" /\ efd[cb] = fd[o] /\ second_fd[o] = NoFd
      /\ listed' = listed \cup {n}
      /\ role' = [role EXCEPT ![n] = "read"] /\ efd' = [efd EXCEPT ![n] = fd[o]]
      /\ data' = [data EXCEPT ![n] = q]
      /\ remove' = (remove \ {n}) \cup gone /\ enabled' = (enabled \ gone) \cup {n}
      /\ running' = running \ (gone \cup {n}) /\ due' = due \ {n}
      /\ held' = [held EXCEPT ![o] = {}, ![q] = (@ \ old) \cup {n}]
      /\ open' = open \ {second_fd[q]} /\ readable' \subseteq readable
      /\ kind' = [kind EXCEPT ![o] = "free"] /\ fd' = [fd EXCEPT ![o] = NoFd]
      /\ second_fd' = [second_fd EXCEPT ![q] = fd[o]]
      /\ calls > 0 /\ calls' = calls - 1 /\ phase' = phase /\ selected' = selected
      /\ examined' = examined /\ cb' = cb
  BY DEF Tunnel, Call, Close, loop
<1>2. n \in Fresh BY MallocIn DEF Tunnel
<1>3. /\ n \in Events /\ n \notin listed /\ n \notin enabled /\ n \notin running
      /\ \A p \in Objects : n \notin held[p]
  BY <1>2, FreshUnheld
<1>4. old \subseteq held[q] /\ \A e \in held[q] \ old : efd[e] # second_fd[q]
  BY DEF SecondRead
<1> HIDE DEF n, old
<1>5. fd[o] \in Fds /\ fd[o] # NoFd
  <2>1. fd[o] \in Ports(o) BY <1>1 DEF EventsHeld
  <2>2. QED BY <2>1 DEF Ports, TypeOK
<1>6. TypeOK' BY <1>1, <1>3, <1>4, <1>5 DEF TypeOK, Roles, Kinds
<1>7. /\ Ports(o) = {fd[o]} /\ fd[o] \notin Ports(q) /\ fd[q] # fd[o]
      /\ Ports(o)' = {} /\ fd'[o] = NoFd /\ second_fd'[o] = NoFd
      /\ Ports(q)' = (Ports(q) \ {second_fd[q]}) \cup {fd[o]}
      /\ fd'[q] = fd[q] /\ second_fd'[q] = fd[o]
      /\ \A p \in Objects \ {o, q} :
           Ports(p)' = Ports(p) /\ fd'[p] = fd[p] /\ second_fd'[p] = second_fd[p]
  <2>1. Ports(o) = {fd[o]} BY <1>1, <1>5 DEF Ports
  <2>2. fd[o] \notin Ports(q) BY <1>1, <2>1 DEF DescriptorsOwned
  <2>3. fd[q] # fd[o] BY <1>5, <2>2 DEF Ports
  <2>4. /\ fd'[o] = NoFd /\ second_fd'[o] = NoFd /\ fd'[q] = fd[q] /\ second_fd'[q] = fd[o]
        /\ \A p \in Objects \ {o, q} : fd'[p] = fd[p] /\ second_fd'[p] = second_fd[p]
    BY <1>1 DEF TypeOK
  <2>5. fd[q] = second_fd[q] => fd[q] = NoFd BY DEF DescriptorsOwned
  <2>6. Ports(q)' = (Ports(q) \ {second_fd[q]}) \cup {fd[o]}
    BY <1>5, <2>4, <2>5 DEF Ports
  <2>7. QED BY <2>1, <2>2, <2>3, <2>4, <2>6 DEF Ports
<1>8. DescriptorsOwned'
  <2>1. \A f : f \in open <=> \E p \in Objects : f \in Ports(p) BY DEF DescriptorsOwned
  <2>2. \A p \in Objects : p # q => second_fd[q] \notin Ports(p)
    BY DEF DescriptorsOwned, Ports
  <2>3. \A f : f \in open' <=> \E p \in Objects : f \in Ports(p)'
    <3>1. ASSUME NEW f, f \in open' PROVE \E p \in Objects : f \in Ports(p)'
      <4>1. PICK p \in Objects : f \in Ports(p) BY <1>1, <2>1, <3>1
      <4>2. f # second_fd[q] BY <1>1, <3>1
      <4>3. QED BY <1>7, <4>1, <4>2
    <3>2. ASSUME NEW f, NEW p \in Objects, f \in Ports(p)' PROVE f \in open'
      <4>1. CASE p = o BY <1>7, <3>2, <4>1
      <4>2. CASE p = q
        <5>1. CASE f = fd[o]
          <6>1. fd[o] \in open BY <1>7, <2>1
          <6>2. fd[o] # second_fd[q] BY <1>5, <1>7 DEF Ports
          <6>3. QED BY <1>1, <5>1, <6>1, <6>2
        <5>2. CASE f # fd[o] BY <1>1, <1>7, <2>1, <3>2, <4>2, <5>2
        <5>3. QED BY <5>1, <5>2
      <4>3. CASE p \in Objects \ {o, q} BY <1>1, <1>7, <2>1, <2>2, <3>2, <4>3
      <4>4. QED BY <4>1, <4>2, <4>3
    <3>3. QED BY <3>1, <3>2
  <2>4. open' = UNION {Ports(p)' : p \in Objects} BY <2>3
  <2>5. \A p \in Objects : fd'[p] = second_fd'[p] => fd'[p] = NoFd
    BY <1>7 DEF DescriptorsOwned
  <2>6. \A p \in Objects \ {o, q} : Ports(p)' \cap Ports(q)' = {}
    BY <1>7 DEF DescriptorsOwned
  <2>7. \A p, r \in Objects : p # r => Ports(p)' \cap Ports(r)' = {}
    BY <1>7, <2>6 DEF DescriptorsOwned
  <2>8. QED BY <2>4, <2>5, <2>7 DEF DescriptorsOwned
<1>9. EventsHeld'
  <2>1. /\ held'[o] = {} /\ held'[q] = (held[q] \ old) \cup {n}
        /\ \A p \in Objects \ {o, q} : held'[p] = held[p]
    BY <1>1 DEF TypeOK
  <2>2. \A p \in Objects \ {o, q} : held[p] \cap gone = {}
    BY <1>4 DEF EventsHeld
  <2>3. held[o] \cap held[q] = {} BY <1>1 DEF EventsHeld
  <2>4. Held' = (Held \ gone) \cup {n}
    <3>1. ASSUME NEW p \in Objects, NEW e \in held'[p]
          PROVE  e \in Held \ gone \/ e = n
      <4>1. e = n \/ (e \in held[p] /\ p # o /\ (p = q => e \notin old)) BY <2>1, <3>1
      <4>2. e = n \/ (e \in held[p] /\ e \notin gone) BY <2>2, <2>3, <4>1
      <4>3. QED BY <4>2 DEF Held
    <3>2. ASSUME NEW p \in Objects, NEW e \in held[p], e \notin gone
          PROVE  e \in held'[p]
      BY <2>1, <3>2
    <3>3. n \in held'[q] BY <2>1
    <3>4. QED BY <3>1, <3>2, <3>3 DEF Held
  <2>5. gone \subseteq Held BY <1>4 DEF Held
  <2>6. (Held \subseteq listed \ remove /\ enabled \cup running \subseteq Held /\ remove \subseteq listed)'
    BY <1>1, <1>3, <2>4, <2>5 DEF EventsHeld
  <2>7. ASSUME NEW p \in Objects, NEW e \in held'[p]
        PROVE  /\ data'[e] = p
               /\ IF role'[e] = "time" THEN efd'[e] = NoFd ELSE efd'[e] \in Ports(p)'
               /\ kind'[p] = "conn" => role'[e] # "time"
    <3>1. CASE e = n
      <4>1. p = q BY <1>3, <2>1, <2>7, <3>1
      <4>2. data'[e] = q /\ role'[e] = "read" /\ efd'[e] = fd[o]
        BY <1>1, <1>3, <3>1 DEF TypeOK
      <4>3. QED BY <1>7, <4>1, <4>2
    <3>2. CASE e # n
      <4>1. e \in held[p] /\ p # o /\ (p = q => e \notin old) BY <2>1, <2>7, <3>2
      <4>2. e \in Events BY <4>1 DEF TypeOK
      <4>3. data'[e] = data[e] /\ role'[e] = role[e] /\ efd'[e] = efd[e]
        BY <1>1, <3>2, <4>2 DEF TypeOK
      <4>4. kind'[p] = kind[p] BY <1>1, <4>1 DEF TypeOK
      <4>5. efd[e] \in Ports(p) => efd[e] \in Ports(p)' BY <1>4, <1>7, <4>1
      <4>6. QED BY <4>1, <4>3, <4>4, <4>5 DEF EventsHeld
    <3>3. QED BY <3>1, <3>2
  <2>8. \A p \in Objects : kind'[p] = "free" => held'[p] = {} /\ Ports(p)' = {}
    BY <1>1, <1>7, <2>1 DEF EventsHeld, TypeOK
  <2>9. \A e \in due' : role'[e] = "time" BY <1>1 DEF EventsHeld, TypeOK
  <2>10. phase' # "idle" => \A e \in running' : role'[e] = "time" \/ e \in examined'
    BY <1>1 DEF EventsHeld, TypeOK
  <2>11. QED BY <2>6, <2>7, <2>8, <2>9, <2>10 DEF EventsHeld
<1>10. QED BY <1>6, <1>8, <1>9

-----------------------------------------------------------------------------
(* The loop *)

\* A walk calls only events that are to run.
LEMMA MetToRun ==
  ASSUME NEW e \in Met
  PROVE  ToRun(e)
BY DEF Met

\* Steps that leave objects, descriptors and lists alone.
LEMMA QuietStep ==
  ASSUME IInv, UNCHANGED <<links, objects>>,
         enabled' \subseteq Held, running' \subseteq Held, remove' \subseteq remove,
         due' \subseteq Events, \A e \in due' : role[e] = "time",
         examined' \subseteq Events, readable' \subseteq Fds \X Roles,
         selected' \subseteq Fds \X Roles, phase' \in {"idle", "time", "fd", "strip"},
         cb' \in Events \cup {NULL}, calls' \in 0 .. MaxCalls,
         phase' # "idle" => \A e \in running' : role[e] = "time" \/ e \in examined'
  PROVE  IInv'
<1>1. /\ listed' = listed /\ role' = role /\ efd' = efd /\ data' = data /\ kind' = kind
      /\ held' = held /\ fd' = fd /\ second_fd' = second_fd /\ open' = open
  BY DEF links, objects
<1>2. Held' = Held /\ \A o \in Objects : Ports(o)' = Ports(o) BY <1>1 DEF Held, Ports
<1>3. Held \subseteq Events BY DEF Held, IInv, TypeOK
<1>4. TypeOK' BY <1>1, <1>3 DEF IInv, TypeOK
<1>5. EventsHeld' BY <1>1, <1>2 DEF IInv, EventsHeld
<1>6. DescriptorsOwned' BY <1>1, <1>2 DEF IInv, DescriptorsOwned
<1>7. QED BY <1>4, <1>5, <1>6 DEF IInv

\* Everything the loop and the world do but strip_events
LEMMA LoopPreserves ==
  ASSUME IInv,
         \/ Poll \/ TimeRun \/ TimeDone \/ FdRun \/ FdDone \/ Return \/ Arrive \/ Tick
  PROVE  IInv'
<1> USE DEF IInv
<1>1. /\ enabled \subseteq Held /\ running \subseteq Held /\ Held \subseteq Events
      /\ \A e \in due : role[e] = "time"
  BY DEF EventsHeld, Held, TypeOK
<1>2. CASE Poll
  <2>1. /\ running' = enabled \cap listed
        /\ examined' = {e \in enabled \cap listed : role[e] # "time"}
        /\ selected' = {} \/ selected' \subseteq readable
        /\ phase' = "time"
        /\ UNCHANGED <<links, enabled, remove, due, objects, readable, cb, calls>>
    BY <1>2 DEF Poll
  <2>2. QED BY <1>1, <2>1, QuietStep DEF TypeOK
<1>3. CASE TimeRun
  <2>1. PICK e \in Met : /\ enabled' = enabled \cup {e} /\ remove' = remove \ {e}
                         /\ due' = due \ {e} /\ cb' = e
    BY <1>3 DEF TimeRun
  <2>2. e \in running /\ e \in Held BY <1>1, <1>3, MetToRun DEF TimeRun, ToRun
  <2>3. /\ UNCHANGED <<links, running, objects, readable, phase, selected, examined>>
        /\ calls' = MaxCalls
    BY <1>3 DEF TimeRun
  <2>4. QED BY <1>1, <2>1, <2>2, <2>3, QuietStep DEF TypeOK, EventsHeld
<1>4. CASE FdRun
  <2>1. PICK e \in Met : cb' = e BY <1>4 DEF FdRun
  <2>2. e \in running /\ e \in Events BY <1>1, <1>4, MetToRun DEF FdRun, ToRun
  <2>3. /\ UNCHANGED <<links, enabled, remove, running, due, objects, readable, phase,
                       selected, examined>>
        /\ calls' = MaxCalls
    BY <1>4 DEF FdRun, flags
  <2>4. QED BY <1>1, <2>1, <2>2, <2>3, QuietStep DEF TypeOK, EventsHeld
<1>5. CASE TimeDone \/ FdDone
  <2>1. /\ UNCHANGED <<links, enabled, remove, running, due, objects, readable,
                       selected, examined, cb, calls>>
        /\ phase' \in {"fd", "strip"} /\ phase # "idle"
    BY <1>5 DEF TimeDone, FdDone, flags
  <2>2. QED BY <1>1, <2>1, QuietStep DEF TypeOK, EventsHeld
<1>6. CASE Return
  <2>1. /\ UNCHANGED <<links, enabled, remove, running, due, objects, phase, selected, examined>>
        /\ cb' = NULL /\ calls' = 0 /\ readable' \subseteq readable
    BY <1>6 DEF Return, flags
  <2>2. QED BY <1>1, <2>1, QuietStep DEF TypeOK, EventsHeld
<1>7. CASE Arrive
  <2>1. PICK e \in enabled : role[e] # "time" /\ readable' = readable \cup {Asked(e)}
    BY <1>7 DEF Arrive
  <2>2. PICK o \in Objects : e \in held[o] BY <1>1, <2>1 DEF Held
  <2>3. efd[e] \in Ports(o) /\ role[e] \in Roles /\ e \in Events
    BY <1>1, <2>1, <2>2 DEF EventsHeld, TypeOK
  <2>4. efd[e] \in Fds BY <2>3 DEF Ports, TypeOK
  <2>5. UNCHANGED <<links, enabled, remove, running, due, objects, phase, selected, examined,
                    cb, calls>>
    BY <1>7 DEF Arrive, flags, loop
  <2>6. readable' \subseteq Fds \X Roles BY <2>1, <2>3, <2>4 DEF Asked, TypeOK
  <2>7. QED BY <1>1, <2>5, <2>6, QuietStep DEF TypeOK, EventsHeld
<1>8. CASE Tick
  <2>1. PICK e \in enabled : role[e] = "time" /\ due' = due \cup {e} BY <1>8 DEF Tick
  <2>2. UNCHANGED <<links, enabled, remove, running, objects, readable, phase, selected,
                    examined, cb, calls>>
    BY <1>8 DEF Tick, flags, loop
  <2>3. QED BY <1>1, <2>1, <2>2, QuietStep DEF TypeOK, EventsHeld
<1>9. QED BY <1>2, <1>3, <1>4, <1>5, <1>6, <1>7, <1>8

\* strip_events forgets only what nobody holds.
LEMMA StripPreserves ==
  ASSUME IInv, Strip
  PROVE  IInv'
<1> USE DEF IInv
<1>1. /\ listed' = listed \ remove
      /\ role' = Forget(role, "read") /\ efd' = Forget(efd, NoFd) /\ data' = Forget(data, Root)
      /\ remove' = {} /\ enabled' = enabled \ remove /\ running' = running \ remove
      /\ due' = due \ remove
      /\ phase' = "idle" /\ selected' = {} /\ examined' = {}
      /\ kind' = kind /\ held' = held /\ fd' = fd /\ second_fd' = second_fd /\ open' = open
      /\ readable' = readable /\ cb' = cb /\ calls' = calls
  BY DEF Strip, objects
<1>2. TypeOK' BY <1>1 DEF TypeOK, Forget, Roles
<1>3. Held' = Held /\ \A o \in Objects : Ports(o)' = Ports(o) BY <1>1 DEF Held, Ports
<1>4. \A e \in Events \ remove : role'[e] = role[e] /\ efd'[e] = efd[e] /\ data'[e] = data[e]
  BY <1>1 DEF Forget
<1>5. \A o \in Objects : held[o] \subseteq Events \ remove BY DEF EventsHeld, Held, TypeOK
<1>6. EventsHeld'
  <2>1. (Held \subseteq listed \ remove /\ enabled \cup running \subseteq Held /\ remove \subseteq listed)'
    BY <1>1, <1>3 DEF EventsHeld
  <2>2. ASSUME NEW o \in Objects, NEW e \in held'[o]
        PROVE  /\ data'[e] = o
               /\ IF role'[e] = "time" THEN efd'[e] = NoFd ELSE efd'[e] \in Ports(o)'
               /\ kind'[o] = "conn" => role'[e] # "time"
    BY <1>1, <1>3, <1>4, <1>5 DEF EventsHeld
  <2>3. \A o \in Objects : kind'[o] = "free" => held'[o] = {} /\ Ports(o)' = {}
    BY <1>1, <1>3 DEF EventsHeld
  <2>4. \A e \in due' : role'[e] = "time" BY <1>1, <1>4 DEF EventsHeld, TypeOK
  <2>5. QED BY <1>1, <2>1, <2>2, <2>3, <2>4 DEF EventsHeld
<1>7. DescriptorsOwned' BY <1>1, <1>3 DEF DescriptorsOwned
<1>8. QED BY <1>2, <1>6, <1>7

\* Every step preserves the invariant.
LEMMA StepPreserves ==
  ASSUME IInv, [Next]_vars
  PROVE  IInv'
<1>1. CASE Calls
  BY <1>1, NewConnPreserves, NewEndpointPreserves, ConnectUdpPreserves, FreePreserves,
     CloseSecondPreserves, TunnelPreserves, EnablingPreserves DEF Calls
<1>2. CASE Loop BY <1>2, LoopPreserves, StripPreserves DEF Loop
<1>3. CASE Arrive \/ Tick BY <1>3, LoopPreserves
<1>4. CASE UNCHANGED vars
  <2>1. UNCHANGED <<links, enabled, remove, running, due, objects, readable, phase, selected,
                    examined, cb, calls>>
    BY <1>4 DEF vars, flags, loop
  <2>2. QED BY <2>1, QuietStep DEF IInv, TypeOK, EventsHeld
<1>5. QED BY <1>1, <1>2, <1>3, <1>4 DEF Next

\* The invariant holds when the listener has been set up.
LEMMA InitIInv ==
  ASSUME Init
  PROVE  IInv
<1> DEFINE e == Malloc(Events)
<1>1. e \in Events BY MallocIn
<1>2. /\ listed = {e} /\ enabled = {e} /\ remove = {} /\ running = {} /\ due = {}
      /\ role = [x \in Events |-> "read"] /\ data = [x \in Events |-> Root]
      /\ efd = [x \in Events |-> IF x = e THEN 0 ELSE NoFd]
      /\ kind = [o \in Objects |-> IF o = Root THEN "root" ELSE "free"]
      /\ held = [o \in Objects |-> IF o = Root THEN {e} ELSE {}]
      /\ fd = [o \in Objects |-> IF o = Root THEN 0 ELSE NoFd]
      /\ second_fd = [o \in Objects |-> NoFd] /\ open = {0} /\ readable = {}
      /\ phase = "idle" /\ selected = {} /\ examined = {} /\ cb = NULL /\ calls = 0
  BY DEF Init
<1> HIDE DEF e
<1>3. 0 \in Fds /\ 0 # NoFd BY DEF Fds, NoFd
<1>4. TypeOK BY <1>1, <1>2, <1>3 DEF TypeOK, Roles, Kinds
<1>5. Ports(Root) = {0} /\ \A o \in Objects \ {Root} : Ports(o) = {}
  BY <1>2, <1>3 DEF Ports
<1>6. Held = {e}
  <2>1. \A x : x \in Held <=> x = e BY <1>2 DEF Held
  <2>2. QED BY <2>1
<1>7. EventsHeld BY <1>1, <1>2, <1>5, <1>6 DEF EventsHeld
<1>8. DescriptorsOwned
  <2>1. \A f : f \in open <=> \E o \in Objects : f \in Ports(o) BY <1>2, <1>5
  <2>2. open = UNION {Ports(o) : o \in Objects} BY <2>1
  <2>3. QED BY <1>2, <1>3, <1>5, <2>2 DEF DescriptorsOwned
<1>9. QED BY <1>4, <1>7, <1>8 DEF IInv

\* The inductive invariant of the loop and its clients.
THEOREM Invariance == Spec => []IInv
<1>1. Init => IInv BY InitIInv
<1>2. IInv /\ [Next]_vars => IInv' BY StepPreserves
<1>3. QED BY <1>1, <1>2, PTL DEF Spec

\* Descriptors have one owner each and none is lost (drop_conn,
\* del_rtp_endpoint, handle_QT_tunnel, do_read).
THEOREM DescriptorsCorrect == Spec => []DescriptorsOwned
<1>1. IInv => DescriptorsOwned BY DEF IInv
<1>2. QED BY <1>1, Invariance, PTL

\* select in event_loop is never asked about a closed descriptor.
THEOREM SelectSucceeds == Spec => []PolledOpen
<1>1. ASSUME IInv PROVE PolledOpen
  <2>1. SUFFICES ASSUME NEW e \in enabled, role[e] # "time" PROVE efd[e] \in open
    BY DEF PolledOpen
  <2>2. PICK o \in Objects : e \in held[o] BY <1>1 DEF IInv, EventsHeld, Held
  <2>3. efd[e] \in Ports(o) BY <1>1, <2>1, <2>2 DEF IInv, EventsHeld
  <2>4. QED BY <1>1, <2>3 DEF IInv, DescriptorsOwned
<1>2. QED BY <1>1, Invariance, PTL

\* The event of a callback that begins.
LEMMA CallbackBegins ==
  ASSUME IInv, [Next]_vars, cb = NULL, cb' # NULL
  PROVE  /\ cb' \in running
         /\ \/ cb' \in due
            \/ phase = "fd" /\ Asked(cb') \in selected
<1>1. TimeRun \/ FdRun
  BY DEF Next, Calls, Loop, NewConn, NewEndpoint, ConnectUdp, Free, CloseSecond, Tunnel,
         Enable, WriteDone, Call, Poll, TimeDone, FdDone, Return, Strip, Arrive, Tick, vars
<1>2. cb' \in Met BY <1>1 DEF TimeRun, FdRun
<1>3. ToRun(cb') BY <1>2, MetToRun
<1>4. QED BY <1>1, <1>3 DEF ToRun, TimeRun, FdRun

\* No callback is called with an object that has been freed, whoever freed it
\* and whatever lives at its address now (remove_event, event_loop).
THEOREM NeverCalledFreed == Spec => CalledAlive
<1>1. ASSUME IInv, [Next]_vars
      PROVE  [cb = NULL /\ cb' # NULL =>
                cb' \in held[data[cb']] /\ kind[data[cb']] # "free"]_vars
  <2>1. SUFFICES ASSUME cb = NULL, cb' # NULL
                 PROVE  cb' \in held[data[cb']] /\ kind[data[cb']] # "free"
    OBVIOUS
  <2>2. cb' \in running BY <1>1, <2>1, CallbackBegins
  <2>3. PICK o \in Objects : cb' \in held[o] BY <1>1, <2>2 DEF IInv, EventsHeld, Held
  <2>4. data[cb'] = o /\ kind[o] # "free" BY <1>1, <2>3 DEF IInv, EventsHeld
  <2>5. QED BY <2>3, <2>4
<1>2. QED BY <1>1, Invariance, PTL DEF Spec, CalledAlive

\* A descriptor's callback is called only for the descriptor select found
\* ready in this pass, not for one of the same number opened since.
THEOREM NeverCalledUnready == Spec => CalledReady
<1>1. ASSUME IInv, [Next]_vars
      PROVE  [cb = NULL /\ cb' # NULL /\ role[cb'] # "time" =>
                /\ cb' \in examined
                /\ Asked(cb') \in selected
                /\ efd[cb'] \in Ports(data[cb'])]_vars
  <2>1. SUFFICES ASSUME cb = NULL, cb' # NULL, role[cb'] # "time"
                 PROVE  /\ cb' \in examined
                        /\ Asked(cb') \in selected
                        /\ efd[cb'] \in Ports(data[cb'])
    OBVIOUS
  <2>2. cb' \in running /\ cb' \notin due /\ phase = "fd" /\ Asked(cb') \in selected
    BY <1>1, <2>1, CallbackBegins DEF IInv, EventsHeld
  <2>3. cb' \in examined BY <1>1, <2>1, <2>2 DEF IInv, EventsHeld
  <2>4. PICK o \in Objects : cb' \in held[o] BY <1>1, <2>2 DEF IInv, EventsHeld, Held
  <2>5. data[cb'] = o /\ efd[cb'] \in Ports(o) BY <1>1, <2>1, <2>4 DEF IInv, EventsHeld
  <2>6. QED BY <2>2, <2>3, <2>5
<1>2. QED BY <1>1, Invariance, PTL DEF Spec, CalledReady

-----------------------------------------------------------------------------
(* Induction over numbers, which the proofs about the walks need            *)

\* The order of the numbers as a set, in which a least number is sought.
Before == {p \in Nat \X Nat : p[1] < p[2]}

LEMMA LeastNumber ==
  ASSUME NEW S \in SUBSET Nat, S # {}
  PROVE  \E n \in S : \A m \in S : n <= m
<1>1. IsWellFoundedOn(Before, Nat)
  BY NatLessThanWellFounded DEF OpToRel, Before
<1>2. \E n \in S : \A m \in S : ~ (<<m, n>> \in Before)
  BY <1>1, WFMin, S \subseteq Nat
<1>3. PICK n \in S : \A m \in S : ~ (<<m, n>> \in Before)
  BY <1>2
<1>4. ASSUME NEW m \in S PROVE n <= m
  <2>1. m \in Nat /\ n \in Nat
    OBVIOUS
  <2>2. m < n => <<m, n>> \in Before
    BY <2>1 DEF Before
  <2>3. QED BY <1>3, <2>1, <2>2
<1>5. QED BY <1>4

LEMMA UpTo ==
  ASSUME NEW k \in Nat, NEW S \in SUBSET (0 .. k), 0 \in S,
         \A n \in 0 .. k - 1 : n \in S => n + 1 \in S
  PROVE  \A n \in 0 .. k : n \in S
<1>1. SUFFICES ASSUME (0 .. k) \ S # {} PROVE FALSE
  OBVIOUS
<1>2. (0 .. k) \ S \in SUBSET Nat
  OBVIOUS
<1>3. PICK n \in (0 .. k) \ S : \A m \in (0 .. k) \ S : n <= m
  BY <1>1, <1>2, LeastNumber
<1>4. n - 1 \in 0 .. k - 1 /\ n - 1 \in S
  BY <1>3
<1>5. QED BY <1>3, <1>4

-----------------------------------------------------------------------------
(* Doubly linked lists                                                      *)

Links == [head : [Lists -> Events \cup {NULL}],
          next : [Events -> Events \cup {NULL}], prev : [Events -> Events \cup {NULL}]]

\* The list l of s is u, from the head on and back.
Chain(s, l, n, u) ==
  /\ s.head[l] = IF n = 0 THEN NULL ELSE u[1]
  /\ \A i \in 1 .. n : s.next[u[i]] = IF i = n THEN NULL ELSE u[i + 1]
  /\ \A i \in 1 .. n : s.prev[u[i]] = IF i = 1 THEN NULL ELSE u[i - 1]
  /\ \A i, j \in 1 .. n : u[i] = u[j] => i = j

\* Its events are those of A.
Sound(s, l, A) ==
  \E n \in Nat : \E u \in [1 .. n -> Events] :
    Chain(s, l, n, u) /\ \A e \in Events : e \in A <=> \E i \in 1 .. n : u[i] = e

\* An event that is in no list is put before the head of one.
LEMMA PushChain ==
  ASSUME NEW s \in Links, NEW l \in Lists, NEW A \in SUBSET Events, Sound(s, l, A),
         NEW e \in Events \ A
  PROVE  Sound(Push(s, e, l), l, A \cup {e})
<1>1. PICK n \in Nat : \E u \in [1 .. n -> Events] :
         Chain(s, l, n, u) /\ \A x \in Events : x \in A <=> \E i \in 1 .. n : u[i] = x
  BY DEF Sound
<1>2. PICK u \in [1 .. n -> Events] :
         Chain(s, l, n, u) /\ \A x \in Events : x \in A <=> \E i \in 1 .. n : u[i] = x
  BY <1>1
<1> DEFINE v == [i \in 1 .. n + 1 |-> IF i = 1 THEN e ELSE u[i - 1]]
           t == Push(s, e, l)
<1>3. v \in [1 .. n + 1 -> Events]
  BY <1>2
<1>4. \A i \in 1 .. n : u[i] \in A /\ u[i] # e
  BY <1>2
<1>5. /\ t.head[l] = e
      /\ t.next[e] = s.head[l] /\ \A x \in Events \ {e} : t.next[x] = s.next[x]
      /\ t.prev[e] = NULL
      /\ \A x \in Events \ {e} : t.prev[x] = IF x = s.head[l] THEN e ELSE s.prev[x]
  BY DEF Push, Links
<1> HIDE DEF t
<1>6. v[1] = e /\ \A i \in 2 .. n + 1 : v[i] = u[i - 1] /\ i - 1 \in 1 .. n
  OBVIOUS
<1> HIDE DEF v
<1>7. s.head[l] = IF n = 0 THEN NULL ELSE u[1]
  BY <1>2 DEF Chain
<1>8. ASSUME NEW i \in 1 .. n + 1
      PROVE  t.next[v[i]] = IF i = n + 1 THEN NULL ELSE v[i + 1]
  <2>1. CASE i = 1 BY <1>5, <1>6, <1>7, <2>1
  <2>2. CASE i \in 2 .. n + 1
    <3>1. PICK j \in 1 .. n : j = i - 1 /\ v[i] = u[j] /\ (i # n + 1 => v[i + 1] = u[j + 1])
      BY <1>6, <2>2
    <3>2. s.next[u[j]] = IF j = n THEN NULL ELSE u[j + 1]
      BY <1>2 DEF Chain
    <3>3. QED BY <1>4, <1>5, <3>1, <3>2
  <2>3. QED BY <2>1, <2>2
<1>9. ASSUME NEW i \in 1 .. n + 1
      PROVE  t.prev[v[i]] = IF i = 1 THEN NULL ELSE v[i - 1]
  <2>1. CASE i = 1 BY <1>5, <1>6, <2>1
  <2>2. CASE i \in 2 .. n + 1
    <3>1. PICK j \in 1 .. n : j = i - 1 /\ v[i] = u[j] /\ (j # 1 => v[i - 1] = u[j - 1])
      BY <1>6, <2>2
    <3>2. s.prev[u[j]] = IF j = 1 THEN NULL ELSE u[j - 1]
      BY <1>2 DEF Chain
    <3>3. u[j] = s.head[l] <=> j = 1
      BY <1>2, <1>7 DEF Chain
    <3>4. QED BY <1>4, <1>5, <1>6, <3>1, <3>2, <3>3
  <2>3. QED BY <2>1, <2>2
<1>10. \A i, j \in 1 .. n + 1 : v[i] = v[j] => i = j
  BY <1>2, <1>4, <1>6 DEF Chain
<1>11. Chain(t, l, n + 1, v)
  BY <1>5, <1>6, <1>8, <1>9, <1>10 DEF Chain
<1>12. \A x \in Events : x \in A \cup {e} <=> \E i \in 1 .. n + 1 : v[i] = x
  <2>1. \A i \in 1 .. n : v[i + 1] = u[i]
    BY <1>6
  <2>2. QED BY <1>2, <1>6, <2>1
<1>13. QED BY <1>3, <1>11, <1>12 DEF Sound, t

\* A list whose events' links and whose head stay as they were.
LEMMA SameChain ==
  ASSUME NEW s, NEW t, NEW l, NEW A, Sound(s, l, A), t.head[l] = s.head[l],
         \A e \in A : t.next[e] = s.next[e] /\ t.prev[e] = s.prev[e]
  PROVE  Sound(t, l, A)
<1>1. PICK n \in Nat : \E u \in [1 .. n -> Events] :
         Chain(s, l, n, u) /\ \A x \in Events : x \in A <=> \E i \in 1 .. n : u[i] = x
  BY DEF Sound
<1>2. PICK u \in [1 .. n -> Events] :
         Chain(s, l, n, u) /\ \A x \in Events : x \in A <=> \E i \in 1 .. n : u[i] = x
  BY <1>1
<1>3. \A i \in 1 .. n : u[i] \in A
  BY <1>2
<1>4. Chain(t, l, n, u)
  BY <1>2, <1>3 DEF Chain
<1>5. QED BY <1>2, <1>4 DEF Sound

\* One event of a list is taken out of it.
LEMMA UnlinkChain ==
  ASSUME NEW s \in Links, NEW l \in Lists, NEW A \in SUBSET Events, Sound(s, l, A),
         NEW e \in A
  PROVE  Sound(Unlink(s, e, l), l, A \ {e})
<1>1. PICK n \in Nat : \E u \in [1 .. n -> Events] :
         Chain(s, l, n, u) /\ \A x \in Events : x \in A <=> \E i \in 1 .. n : u[i] = x
  BY DEF Sound
<1>2. PICK u \in [1 .. n -> Events] :
         Chain(s, l, n, u) /\ \A x \in Events : x \in A <=> \E i \in 1 .. n : u[i] = x
  BY <1>1
<1>3. PICK k \in 1 .. n : u[k] = e
  BY <1>2
<1> DEFINE v == [i \in 1 .. n - 1 |-> IF i < k THEN u[i] ELSE u[i + 1]]
           t == Unlink(s, e, l)
<1>4. n - 1 \in Nat /\ v \in [1 .. n - 1 -> Events]
  BY <1>2
<1>5. \A i \in 1 .. n : u[i] \in Events /\ u[i] # NULL
  BY <1>2
<1>6. /\ s.prev[e] = IF k = 1 THEN NULL ELSE u[k - 1]
      /\ s.next[e] = IF k = n THEN NULL ELSE u[k + 1]
  BY <1>2, <1>3 DEF Chain
<1>7. /\ t.head[l] = IF k = 1 THEN s.next[e] ELSE s.head[l]
      /\ \A x \in Events : t.next[x] = IF k # 1 /\ x = u[k - 1] THEN s.next[e] ELSE s.next[x]
      /\ \A x \in Events : t.prev[x] = IF k # n /\ x = u[k + 1] THEN s.prev[e] ELSE s.prev[x]
  <2>1. s.prev[e] = NULL <=> k = 1
    BY <1>5, <1>6
  <2>2. s.next[e] = NULL <=> k = n
    BY <1>5, <1>6
  <2>3. t.head[l] = IF k = 1 THEN s.next[e] ELSE s.head[l]
    BY <2>1 DEF Unlink, Links
  <2>4. \A x \in Events : t.next[x] = IF k # 1 /\ x = u[k - 1] THEN s.next[e] ELSE s.next[x]
    BY <1>6, <2>1 DEF Unlink, Links
  <2>5. \A x \in Events : t.prev[x] = IF k # n /\ x = u[k + 1] THEN s.prev[e] ELSE s.prev[x]
    BY <1>6, <2>2 DEF Unlink, Links
  <2>6. QED BY <2>3, <2>4, <2>5
<1> HIDE DEF t
<1>8. \A i \in 1 .. n - 1 : v[i] = IF i < k THEN u[i] ELSE u[i + 1]
  OBVIOUS
<1> HIDE DEF v
<1>9. /\ s.head[l] = u[1]
      /\ \A i \in 1 .. n : s.next[u[i]] = IF i = n THEN NULL ELSE u[i + 1]
      /\ \A i \in 1 .. n : s.prev[u[i]] = IF i = 1 THEN NULL ELSE u[i - 1]
      /\ \A i, j \in 1 .. n : u[i] = u[j] => i = j
  BY <1>2 DEF Chain
<1>10. t.head[l] = IF n - 1 = 0 THEN NULL ELSE v[1]
  BY <1>3, <1>6, <1>7, <1>8, <1>9
<1>11. ASSUME NEW i \in 1 .. n - 1
       PROVE  t.next[v[i]] = IF i = n - 1 THEN NULL ELSE v[i + 1]
  <2>1. CASE i < k - 1
    <3>1. i \in 1 .. n /\ i # n /\ i # n - 1 /\ k # 1 /\ k - 1 \in 1 .. n /\ i # k - 1
      BY <2>1
    <3>2. v[i] = u[i] /\ v[i + 1] = u[i + 1]
      BY <1>8, <2>1
    <3>3. u[i] # u[k - 1]
      BY <1>9, <3>1
    <3>4. t.next[u[i]] = u[i + 1]
      BY <1>5, <1>7, <1>9, <3>1, <3>3
    <3>5. QED BY <3>1, <3>2, <3>4
  <2>2. CASE i = k - 1
    BY <1>5, <1>6, <1>7, <1>8, <1>9, <2>2
  <2>3. CASE i >= k
    <3>1. PICK j \in 1 .. n : j = i + 1 /\ j > k
      BY <2>3
    <3>2. v[i] = u[j] /\ (i # n - 1 => v[i + 1] = u[j + 1])
      BY <1>8, <2>3, <3>1
    <3>3. k # 1 => u[j] # u[k - 1]
      BY <1>9, <3>1
    <3>4. t.next[u[j]] = IF j = n THEN NULL ELSE u[j + 1]
      BY <1>5, <1>7, <1>9, <3>1, <3>3
    <3>5. QED BY <3>1, <3>2, <3>4
  <2>4. QED BY <2>1, <2>2, <2>3
<1>12. ASSUME NEW i \in 1 .. n - 1
       PROVE  t.prev[v[i]] = IF i = 1 THEN NULL ELSE v[i - 1]
  <2>1. CASE i < k
    <3>1. v[i] = u[i] /\ (i # 1 => v[i - 1] = u[i - 1])
      BY <1>8, <2>1
    <3>2. k # n => u[i] # u[k + 1]
      BY <1>9, <2>1
    <3>3. t.prev[u[i]] = IF i = 1 THEN NULL ELSE u[i - 1]
      BY <1>5, <1>7, <1>9, <3>2
    <3>4. QED BY <3>1, <3>3
  <2>2. CASE i = k
    BY <1>5, <1>6, <1>7, <1>8, <1>9, <2>2
  <2>3. CASE i > k
    <3>1. PICK j \in 1 .. n : j = i + 1 /\ j > k + 1 /\ j # 1
      BY <2>3
    <3>2. i # 1 /\ v[i] = u[j] /\ v[i - 1] = u[j - 1]
      BY <1>8, <2>3, <3>1
    <3>3. k # n => u[j] # u[k + 1]
      BY <1>9, <3>1
    <3>4. t.prev[u[j]] = u[j - 1]
      BY <1>5, <1>7, <1>9, <3>1, <3>3
    <3>5. QED BY <3>2, <3>4
  <2>4. QED BY <2>1, <2>2, <2>3
<1>13. ASSUME NEW i \in 1 .. n - 1, NEW j \in 1 .. n - 1, v[i] = v[j] PROVE i = j
  <2>1. PICK a \in 1 .. n : a = (IF i < k THEN i ELSE i + 1) /\ v[i] = u[a]
    BY <1>8
  <2>2. PICK b \in 1 .. n : b = (IF j < k THEN j ELSE j + 1) /\ v[j] = u[b]
    BY <1>8
  <2>3. u[a] = u[b]
    BY <1>13, <2>1, <2>2
  <2>4. a = b
    BY <1>9, <2>3
  <2>5. QED BY <2>1, <2>2, <2>4
<1>14. Chain(t, l, n - 1, v)
  BY <1>10, <1>11, <1>12, <1>13 DEF Chain
<1>15. ASSUME NEW x \in Events
       PROVE  x \in A \ {e} <=> \E i \in 1 .. n - 1 : v[i] = x
  <2>1. ASSUME x \in A \ {e} PROVE \E i \in 1 .. n - 1 : v[i] = x
    <3>1. PICK j \in 1 .. n : u[j] = x
      BY <1>2, <2>1
    <3>2. CASE j < k
      BY <1>8, <3>1, <3>2
    <3>3. CASE j > k
      <4>1. j - 1 \in 1 .. n - 1 /\ v[j - 1] = x
        BY <1>8, <3>1, <3>3
      <4>2. QED BY <4>1
    <3>4. QED BY <1>3, <2>1, <3>1, <3>2, <3>3
  <2>2. ASSUME NEW i \in 1 .. n - 1, v[i] = x PROVE x \in A \ {e}
    <3>1. CASE i < k
      BY <1>2, <1>3, <1>8, <1>9, <2>2, <3>1
    <3>2. CASE i >= k
      BY <1>2, <1>3, <1>8, <1>9, <2>2, <3>2
    <3>3. QED BY <3>1, <3>2
  <2>3. QED BY <2>1, <2>2
<1>16. QED BY <1>4, <1>14, <1>15 DEF Sound, t

\* Neither touches the other list.
LEMMA OtherList ==
  ASSUME NEW s \in Links, NEW l \in Lists, NEW k \in Lists \ {l},
         NEW A \in SUBSET Events, NEW B \in SUBSET Events,
         Sound(s, l, A), Sound(s, k, B), A \cap B = {}, NEW e \in Events \ B
  PROVE  /\ e \notin A => Sound(Push(s, e, l), k, B)
         /\ e \in A => Sound(Unlink(s, e, l), k, B)
<1>1. PICK n \in Nat : \E u \in [1 .. n -> Events] :
         Chain(s, l, n, u) /\ \A x \in Events : x \in A <=> \E i \in 1 .. n : u[i] = x
  BY DEF Sound
<1>2. PICK u \in [1 .. n -> Events] :
         Chain(s, l, n, u) /\ \A x \in Events : x \in A <=> \E i \in 1 .. n : u[i] = x
  BY <1>1
<1>3. s.head[l] = NULL \/ s.head[l] \in A
  BY <1>2 DEF Chain
<1>4. ASSUME e \notin A PROVE Sound(Push(s, e, l), k, B)
  <2> DEFINE t == Push(s, e, l)
  <2>1. t.head[k] = s.head[k]
    BY DEF Push, Links
  <2>2. \A x \in B : t.next[x] = s.next[x] /\ t.prev[x] = s.prev[x]
    BY <1>3 DEF Push, Links
  <2>3. QED BY <2>1, <2>2, SameChain
<1>5. ASSUME e \in A PROVE Sound(Unlink(s, e, l), k, B)
  <2> DEFINE t == Unlink(s, e, l)
  <2>1. PICK i \in 1 .. n : u[i] = e
    BY <1>2, <1>5
  <2>2. /\ s.next[e] = NULL \/ s.next[e] \in A
        /\ s.prev[e] = NULL \/ s.prev[e] \in A
    BY <1>2, <2>1 DEF Chain
  <2>3. t.head[k] = s.head[k]
    BY DEF Unlink, Links
  <2>4. \A x \in B : t.next[x] = s.next[x] /\ t.prev[x] = s.prev[x]
    BY <2>2 DEF Unlink, Links
  <2>5. QED BY <2>3, <2>4, SameChain
<1>6. QED BY <1>4, <1>5

LEMMA LinksKept ==
  ASSUME NEW s \in Links, NEW l \in Lists, NEW e \in Events
  PROVE  Push(s, e, l) \in Links /\ Unlink(s, e, l) \in Links
<1>1. Push(s, e, l) \in Links
  BY DEF Links, Push
<1>2. Unlink(s, e, l) \in Links
  <2>1. /\ s.next[e] \in Events \cup {NULL} /\ s.prev[e] \in Events \cup {NULL}
        /\ s.head \in [Lists -> Events \cup {NULL}]
        /\ s.next \in [Events -> Events \cup {NULL}] /\ s.prev \in [Events -> Events \cup {NULL}]
    BY DEF Links
  <2>2. QED BY <2>1 DEF Links, Unlink
<1>3. QED BY <1>1, <1>2

-----------------------------------------------------------------------------
(* Walks and what strip_events makes of them                                *)

\* A list is no longer than there are events.
LEMMA ChainLength ==
  ASSUME NEW s, NEW l, NEW n \in Nat, NEW u \in [1 .. n -> Events], Chain(s, l, n, u)
  PROVE  Most \in Nat /\ n <= Most
<1>1. IsFiniteSet(1 .. n) /\ Cardinality(1 .. n) = n
  BY FS_Interval
<1>2. u \in Injection(1 .. n, Events)
  BY DEF Chain, Injection, IsInjective
<1>3. Cardinality(1 .. n) <= Cardinality(Events)
  BY <1>2, FS_Injection
<1>4. Cardinality(Events) \in Nat
  BY FS_CardinalityType
<1>5. QED BY <1>1, <1>3, <1>4 DEF Most

\* Following next from its head, one meets a list's events in their order.
LEMMA WalkIs ==
  ASSUME NEW l \in Lists, NEW n \in Nat, NEW u \in [1 .. n -> Events],
         Chain(Linked, l, n, u)
  PROVE  Order(l) = [k \in Steps |-> IF k <= n THEN u[k] ELSE NULL]
<1> DEFINE Def(g) == [k \in Steps |-> IF k = 1 THEN head[l]
                                     ELSE LET x == g[k - 1]
                                          IN IF x = NULL THEN NULL ELSE next[x]]
           w == [k \in Steps |-> IF k <= n THEN u[k] ELSE NULL]
<1>1. Most \in Nat
  BY ChainLength
<1>2. /\ head[l] = IF n = 0 THEN NULL ELSE u[1]
      /\ \A i \in 1 .. n : next[u[i]] = IF i = n THEN NULL ELSE u[i + 1]
      /\ \A i \in 1 .. n : u[i] # NULL
  BY DEF Chain, Linked
<1>3. ASSUME NEW k \in Steps, k # 1
      PROVE  w[k] = IF w[k - 1] = NULL THEN NULL ELSE next[w[k - 1]]
  <2>1. PICK m \in Steps : m = k - 1
    BY <1>1, <1>3 DEF Steps
  <2>2. w[m] = (IF m <= n THEN u[m] ELSE NULL) /\ w[k] = IF m + 1 <= n THEN u[m + 1] ELSE NULL
    BY <1>1, <2>1 DEF Steps
  <2>3. m \in Nat \ {0}
    BY <1>1 DEF Steps
  <2> HIDE DEF w, Def
  <2>4. w[k] = IF w[m] = NULL THEN NULL ELSE next[w[m]]
    <3>1. CASE m < n
      BY <1>2, <2>2, <2>3, <3>1
    <3>2. CASE m = n
      BY <1>2, <2>2, <2>3, <3>2
    <3>3. CASE m > n
      BY <2>2, <2>3, <3>3
    <3>4. QED BY <2>3, <3>1, <3>2, <3>3
  <2>5. QED BY <2>1, <2>4
<1>4. w = Def(w)
  <2>1. ASSUME NEW k \in Steps
        PROVE  w[k] = IF k = 1 THEN head[l]
                      ELSE LET x == w[k - 1] IN IF x = NULL THEN NULL ELSE next[x]
    <3>1. CASE k = 1
      BY <1>2, <3>1
    <3>2. CASE k # 1
      BY <1>3, <3>2
    <3>3. QED BY <3>1, <3>2
  <2> HIDE DEF w
  <2>2. w = [k \in Steps |-> w[k]]
    BY DEF w
  <2>3. QED BY <2>1, <2>2
<1>5. ASSUME NEW g, g = Def(g) PROVE g = w
  <2> DEFINE S == {k \in 0 .. Most : g[k + 1] = w[k + 1]}
  <2>1. \A k \in 0 .. Most : k \in S
    <3>1. 0 \in S
      BY <1>1, <1>2, <1>5 DEF Steps
    <3>2. ASSUME NEW k \in 0 .. Most - 1, k \in S PROVE k + 1 \in S
      <4>1. PICK m \in Steps : m = k + 2 /\ m # 1 /\ m - 1 = k + 1 /\ k + 1 \in 0 .. Most
        BY <1>1 DEF Steps
      <4>2. g[m] = IF g[m - 1] = NULL THEN NULL ELSE next[g[m - 1]]
        BY <1>5, <4>1
      <4>3. w[m] = IF w[m - 1] = NULL THEN NULL ELSE next[w[m - 1]]
        BY <1>3, <4>1
      <4>4. g[m - 1] = w[m - 1]
        BY <3>2, <4>1
      <4>5. g[m] = w[m]
        BY <4>2, <4>3, <4>4
      <4>6. QED BY <4>1, <4>5
    <3>3. S \in SUBSET (0 .. Most)
      OBVIOUS
    <3> HIDE DEF S
    <3>4. QED BY <1>1, <3>1, <3>2, <3>3, UpTo
  <2>2. ASSUME NEW k \in Steps PROVE g[k] = w[k]
    <3>1. k - 1 \in 0 .. Most /\ (k - 1) + 1 = k
      BY <1>1 DEF Steps
    <3>2. QED BY <2>1, <3>1
  <2> HIDE DEF w
  <2>3. g = [k \in Steps |-> g[k]] /\ w = [k \in Steps |-> w[k]]
    BY <1>5 DEF w
  <2>4. QED BY <2>2, <2>3
<1>6. Order(l) = CHOOSE g : g = Def(g)
  BY DEF Order, Walk
<1> HIDE DEF w, Def
<1>7. QED BY <1>4, <1>5, <1>6 DEF w

\* strip_events takes its steps one after the other.
LEMMA StripSteps ==
  ASSUME NEW s, NEW l
  PROVE  \E g : /\ Stripped(s, l) = g[Most]
               /\ g[0] = s
               /\ \A k \in 1 .. Most :
                    g[k] = IF Order(l)[k] \in remove THEN Unlink(g[k - 1], Order(l)[k], l)
                           ELSE g[k - 1]
<1> DEFINE w == Order(l)
           Part(g, m) == [k \in 0 .. m |->
                            IF k = 0 THEN s
                            ELSE IF w[k] \in remove THEN Unlink(g[k - 1], w[k], l) ELSE g[k - 1]]
           S == {m \in 0 .. Most : \E g : g = Part(g, m)}
<1>1. Most \in Nat
  BY FS_CardinalityType DEF Most
<1>2. Stripped(s, l) = (CHOOSE g : g = Part(g, Most))[Most]
  BY DEF Stripped
<1> HIDE DEF w
<1>3. 0 \in S
  <2> DEFINE g == [k \in 0 .. 0 |-> s]
  <2>1. g = Part(g, 0)
    OBVIOUS
  <2>2. \E f : f = Part(f, 0)
    BY <2>1
  <2>3. QED BY <1>1, <2>2
<1>4. ASSUME NEW m \in 0 .. Most - 1, m \in S PROVE m + 1 \in S
  <2>1. PICK g : g = Part(g, m)
    BY <1>4
  <2> DEFINE Step(x, k) == IF w[k] \in remove THEN Unlink(x, w[k], l) ELSE x
             h == [k \in 0 .. m + 1 |-> IF k <= m THEN g[k] ELSE Step(g[m], m + 1)]
  <2>2. g[0] = s /\ \A k \in 1 .. m : g[k] = Step(g[k - 1], k)
    BY <2>1
  <2>3. h[0] = s /\ \A k \in 1 .. m + 1 : h[k] = Step(h[k - 1], k)
    <3>1. (\A k \in 0 .. m : h[k] = g[k]) /\ h[m + 1] = Step(g[m], m + 1)
      BY <1>1
    <3> HIDE DEF h, Step
    <3>2. ASSUME NEW k \in 1 .. m + 1 PROVE h[k] = Step(h[k - 1], k)
      <4>1. CASE k <= m
        BY <1>1, <2>2, <3>1, <4>1
      <4>2. CASE k = m + 1
        <5>1. k - 1 = m /\ m \in 0 .. m
          BY <1>1, <4>2
        <5>2. QED BY <3>1, <4>2, <5>1
      <4>3. QED BY <1>1, <4>1, <4>2
    <3>3. QED BY <1>1, <2>2, <3>1, <3>2
  <2>4. h = [k \in 0 .. m + 1 |-> h[k]]
    OBVIOUS
  <2> HIDE DEF h
  <2>5. h = Part(h, m + 1)
    <3>1. ASSUME NEW k \in 0 .. m + 1
          PROVE  h[k] = IF k = 0 THEN s
                        ELSE IF w[k] \in remove THEN Unlink(h[k - 1], w[k], l) ELSE h[k - 1]
      <4>1. CASE k = 0
        BY <2>3, <4>1
      <4>2. CASE k # 0
        <5>1. k \in 1 .. m + 1
          BY <1>1, <4>2
        <5>2. QED BY <2>3, <4>2, <5>1
      <4>3. QED BY <4>1, <4>2
    <3>2. QED BY ONLY <2>4, <3>1
  <2>6. \E f : f = Part(f, m + 1)
    BY <2>5
  <2> HIDE DEF Part
  <2>7. m + 1 \in 0 .. Most
    BY <1>1
  <2>8. QED BY <2>6, <2>7
<1>5. \E g : g = Part(g, Most)
  <2>1. S \in SUBSET (0 .. Most) /\ Most \in 0 .. Most
    BY <1>1
  <2> HIDE DEF S
  <2>2. Most \in S
    BY <1>1, <1>3, <1>4, <2>1, UpTo
  <2>3. QED BY <2>2 DEF S
<1>6. PICK g : g = Part(g, Most) /\ Stripped(s, l) = g[Most]
  BY <1>2, <1>5
<1>7. g[0] = s
  BY <1>1, <1>6
<1>8. \A k \in 1 .. Most : g[k] = IF w[k] \in remove THEN Unlink(g[k - 1], w[k], l) ELSE g[k - 1]
  BY <1>1, <1>6
<1>9. QED BY <1>6, <1>7, <1>8 DEF w

\* It takes out of a list what is marked, and leaves the other list alone.
LEMMA StripList ==
  ASSUME remove \subseteq Events,
         NEW s \in Links, NEW l \in Lists, NEW k \in Lists \ {l},
         NEW A \in SUBSET Events, NEW B \in SUBSET Events, A \cap B = {},
         Sound(Linked, l, A), Sound(s, l, A), Sound(s, k, B)
  PROVE  /\ Stripped(s, l) \in Links
         /\ Sound(Stripped(s, l), l, A \ remove) /\ Sound(Stripped(s, l), k, B)
<1>1. PICK n \in Nat : \E u \in [1 .. n -> Events] :
         Chain(Linked, l, n, u) /\ \A x \in Events : x \in A <=> \E i \in 1 .. n : u[i] = x
  BY DEF Sound
<1>2. PICK u \in [1 .. n -> Events] :
         Chain(Linked, l, n, u) /\ \A x \in Events : x \in A <=> \E i \in 1 .. n : u[i] = x
  BY <1>1
<1>3. Most \in Nat /\ n <= Most
  BY <1>2, ChainLength
<1>4. Order(l) = [i \in Steps |-> IF i <= n THEN u[i] ELSE NULL]
  BY <1>2, WalkIs
<1>5. \A i \in 1 .. Most : Order(l)[i] = IF i <= n THEN u[i] ELSE NULL
  BY <1>3, <1>4 DEF Steps
<1>6. PICK g : /\ Stripped(s, l) = g[Most] /\ g[0] = s
               /\ \A i \in 1 .. Most :
                    g[i] = IF Order(l)[i] \in remove THEN Unlink(g[i - 1], Order(l)[i], l)
                           ELSE g[i - 1]
  BY StripSteps
<1> DEFINE Gone(m) == {x \in remove : \E i \in 1 .. n : i <= m /\ u[i] = x}
           S == {m \in 0 .. Most : /\ g[m] \in Links
                                   /\ Sound(g[m], l, A \ Gone(m)) /\ Sound(g[m], k, B)}
<1>7. 0 \in S
  <2>1. A \ Gone(0) = A
    OBVIOUS
  <2> HIDE DEF Gone
  <2>2. /\ g[0] \in Links /\ Sound(g[0], l, A \ Gone(0)) /\ Sound(g[0], k, B)
    BY <1>6, <2>1
  <2>3. QED BY <1>3, <2>2
<1>8. ASSUME NEW m \in 0 .. Most - 1, m \in S PROVE m + 1 \in S
  <2>1. m + 1 \in 0 .. Most /\ m + 1 \in 1 .. Most /\ (m + 1) - 1 = m
    BY <1>3
  <2>2. /\ g[m] \in Links /\ Sound(g[m], l, A \ Gone(m)) /\ Sound(g[m], k, B)
    BY <1>8
  <2>3. CASE m + 1 <= n /\ u[m + 1] \in remove
    <3>1. PICK e \in Events : e = u[m + 1]
      BY <2>1, <2>3
    <3>2. g[m + 1] = Unlink(g[m], e, l)
      BY <1>5, <1>6, <2>1, <2>3, <3>1
    <3>3. e \in A
      BY <1>2, <2>1, <2>3, <3>1
    <3>4. e \notin Gone(m)
      BY <1>2, <2>1, <2>3, <3>1 DEF Chain
    <3>5. A \ Gone(m + 1) = (A \ Gone(m)) \ {e}
      <4>1. \A x : x \in Gone(m + 1) <=> x \in Gone(m) \/ x = e
        BY <2>1, <2>3, <3>1
      <4> HIDE DEF Gone
      <4>2. QED BY <4>1
    <3> HIDE DEF Gone
    <3>6. A \ Gone(m) \in SUBSET Events /\ e \in A \ Gone(m) /\ e \notin B
          /\ (A \ Gone(m)) \cap B = {}
      BY <3>3, <3>4
    <3>7. Sound(Unlink(g[m], e, l), l, (A \ Gone(m)) \ {e})
      BY <2>2, <3>6, UnlinkChain
    <3>8. Sound(Unlink(g[m], e, l), k, B)
      BY <2>2, <3>6, OtherList
    <3>9. Unlink(g[m], e, l) \in Links
      BY <2>2, LinksKept
    <3>10. QED BY <2>1, <3>2, <3>5, <3>7, <3>8, <3>9
  <2>4. CASE ~ (m + 1 <= n /\ u[m + 1] \in remove)
    <3>1. Order(l)[m + 1] \notin remove
      BY <1>5, <2>1, <2>4
    <3>2. g[m + 1] = g[m]
      BY <1>6, <2>1, <3>1
    <3>3. \A x : x \in Gone(m + 1) <=> x \in Gone(m)
      BY <2>1, <2>4
    <3> HIDE DEF Gone
    <3>4. Gone(m + 1) = Gone(m)
      BY <3>3
    <3>5. QED BY <2>1, <2>2, <3>2, <3>4
  <2>5. QED BY <2>3, <2>4
<1>9. Most \in S
  <2>1. S \in SUBSET (0 .. Most) /\ Most \in 0 .. Most
    BY <1>3
  <2> HIDE DEF S
  <2>2. QED BY <1>3, <1>7, <1>8, <2>1, UpTo
<1>10. A \ Gone(Most) = A \ remove
  <2>1. \A x \in A : x \in Gone(Most) <=> x \in remove
    BY <1>2, <1>3
  <2> HIDE DEF Gone
  <2>2. QED BY <2>1
<1> HIDE DEF Gone
<1>11. QED BY <1>6, <1>9, <1>10

-----------------------------------------------------------------------------
(* Both lists in every step                                                 *)

\* The events that belong in list l.
Members(l) == {e \in listed : ListOf(role[e]) = l}

LinksInv == Linked \in Links /\ \A l \in Lists : Sound(Linked, l, Members(l))

\* M says what is in each list; an event that is in none is added to list l.
LEMMA PushBoth ==
  ASSUME NEW s \in Links, NEW M \in [Lists -> SUBSET Events],
         \A k, m \in Lists : k # m => M[k] \cap M[m] = {},
         \A k \in Lists : Sound(s, k, M[k]),
         NEW l \in Lists, NEW e \in Events, \A k \in Lists : e \notin M[k]
  PROVE  /\ Push(s, e, l) \in Links
         /\ \A k \in Lists : Sound(Push(s, e, l), k, IF k = l THEN M[k] \cup {e} ELSE M[k])
<1>1. Push(s, e, l) \in Links
  BY LinksKept
<1>2. M[l] \in SUBSET Events /\ e \in Events \ M[l] /\ e \notin M[l] /\ Sound(s, l, M[l])
  OBVIOUS
<1>3. Sound(Push(s, e, l), l, M[l] \cup {e})
  BY <1>2, PushChain
<1>4. ASSUME NEW k \in Lists \ {l} PROVE Sound(Push(s, e, l), k, M[k])
  <2>1. M[k] \in SUBSET Events /\ e \in Events \ M[k] /\ M[l] \cap M[k] = {} /\ Sound(s, k, M[k])
    OBVIOUS
  <2>2. QED BY <1>2, <2>1, OtherList
<1>5. QED BY <1>1, <1>3, <1>4

\* An event is added to a list.
LEMMA AddOne ==
  ASSUME IInv, LinksInv, NEW e \in Fresh, NEW l \in Lists,
         Linked' = Push(Linked, e, l), listed' = listed \cup {e},
         \A x \in listed : role'[x] = role[x], ListOf(role'[e]) = l
  PROVE  LinksInv'
<1> DEFINE M == [k \in Lists |-> Members(k)]
<1>1. /\ M \in [Lists -> SUBSET Events] /\ \A k \in Lists : M[k] = Members(k)
      /\ \A k, m \in Lists : k # m => M[k] \cap M[m] = {}
      /\ e \in Events /\ \A k \in Lists : e \notin M[k]
  BY DEF IInv, TypeOK, Members, Fresh
<1> HIDE DEF M
<1>2. \A k \in Lists : Sound(Linked, k, M[k])
  BY <1>1 DEF LinksInv
<1>3. /\ Push(Linked, e, l) \in Links
      /\ \A k \in Lists : Sound(Push(Linked, e, l), k, IF k = l THEN M[k] \cup {e} ELSE M[k])
  BY <1>1, <1>2, PushBoth DEF LinksInv
<1>4. ASSUME NEW k \in Lists PROVE Members(k)' = IF k = l THEN M[k] \cup {e} ELSE M[k]
  <2>1. \A x : x \in Members(k)' <=> x \in Members(k) \/ (k = l /\ x = e)
    BY DEF Members, Fresh
  <2>2. QED BY <1>1, <2>1
<1>5. QED BY <1>3, <1>4 DEF LinksInv

\* Two descriptor events are added, one after the other.
LEMMA AddTwo ==
  ASSUME IInv, LinksInv, NEW a \in Fresh, NEW b \in Fresh, a # b,
         Linked' = Push(Push(Linked, a, "fd"), b, "fd"), listed' = listed \cup {a, b},
         \A x \in listed : role'[x] = role[x],
         ListOf(role'[a]) = "fd", ListOf(role'[b]) = "fd"
  PROVE  LinksInv'
<1> DEFINE M == [k \in Lists |-> Members(k)]
           N == [k \in Lists |-> IF k = "fd" THEN M[k] \cup {a} ELSE M[k]]
<1>1. /\ M \in [Lists -> SUBSET Events] /\ \A k \in Lists : M[k] = Members(k)
      /\ \A k, m \in Lists : k # m => M[k] \cap M[m] = {}
      /\ a \in Events /\ b \in Events /\ \A k \in Lists : a \notin M[k] /\ b \notin M[k]
      /\ "fd" \in Lists
  BY DEF IInv, TypeOK, Members, Fresh, Lists
<1> HIDE DEF M
<1>2. \A k \in Lists : Sound(Linked, k, M[k])
  BY <1>1 DEF LinksInv
<1>3. /\ Push(Linked, a, "fd") \in Links
      /\ \A k \in Lists : Sound(Push(Linked, a, "fd"), k,
                                IF k = "fd" THEN M[k] \cup {a} ELSE M[k])
  BY <1>1, <1>2, PushBoth DEF LinksInv
<1>4. /\ N \in [Lists -> SUBSET Events]
      /\ \A k \in Lists : N[k] = IF k = "fd" THEN M[k] \cup {a} ELSE M[k]
      /\ \A k, m \in Lists : k # m => N[k] \cap N[m] = {}
      /\ \A k \in Lists : b \notin N[k]
  BY <1>1
<1> HIDE DEF N
<1>5. \A k \in Lists : Sound(Push(Linked, a, "fd"), k, N[k])
  BY <1>3, <1>4
<1>6. PICK s \in Links : s = Push(Linked, a, "fd")
  BY <1>3
<1>7. /\ Push(s, b, "fd") \in Links
      /\ \A k \in Lists : Sound(Push(s, b, "fd"), k, IF k = "fd" THEN N[k] \cup {b} ELSE N[k])
  BY <1>1, <1>4, <1>5, <1>6, PushBoth
<1>8. ASSUME NEW k \in Lists PROVE Members(k)' = IF k = "fd" THEN N[k] \cup {b} ELSE N[k]
  <2>1. \A x : x \in Members(k)' <=> x \in Members(k) \/ (k = "fd" /\ x \in {a, b})
    BY DEF Members, Fresh
  <2>2. QED BY <1>1, <1>4, <2>1
<1>9. QED BY <1>6, <1>7, <1>8 DEF LinksInv

\* Steps that leave both lists alone.
LEMMA LinksStay ==
  ASSUME LinksInv, UNCHANGED links
  PROVE  LinksInv'
<1>1. Linked' = Linked /\ \A l \in Lists : Members(l)' = Members(l)
  BY DEF Linked, Members, links
<1>2. QED BY <1>1 DEF LinksInv

\* What SetLinks makes the lists.
LEMMA LinkedAfter ==
  ASSUME NEW s \in Links, SetLinks(s)
  PROVE  Linked' = s
BY DEF SetLinks, Linked, Links

\* The end of a pass
LEMMA StripLinks ==
  ASSUME IInv, LinksInv, Strip
  PROVE  LinksInv'
<1> DEFINE A == Members("time")
           B == Members("fd")
           s == Stripped(Linked, "time")
           t == Stripped(s, "fd")
<1>1. /\ A \in SUBSET Events /\ B \in SUBSET Events /\ A \cap B = {} /\ B \cap A = {}
      /\ remove \subseteq Events /\ "time" \in Lists /\ "fd" \in Lists
      /\ "time" \in Lists \ {"fd"} /\ "fd" \in Lists \ {"time"}
  BY DEF IInv, TypeOK, Members, Lists
<1>2. Linked \in Links /\ Sound(Linked, "time", A) /\ Sound(Linked, "fd", B)
  BY <1>1 DEF LinksInv
<1>3. s \in Links /\ Sound(s, "time", A \ remove) /\ Sound(s, "fd", B)
  <2> HIDE DEF A, B
  <2>1. QED BY <1>1, <1>2, StripList
<1>4. t \in Links /\ Sound(t, "fd", B \ remove) /\ Sound(t, "time", A \ remove)
  <2>1. A \ remove \in SUBSET Events /\ B \cap (A \ remove) = {}
    BY <1>1
  <2> HIDE DEF A, B, s
  <2>2. QED BY <1>1, <1>2, <1>3, <2>1, StripList
<1>5. /\ head' = t.head /\ next' = Forget(t.next, NULL) /\ prev' = Forget(t.prev, NULL)
      /\ listed' = listed \ remove /\ role' = Forget(role, "read")
  BY DEF Strip
<1> HIDE DEF t
<1>6. Linked' \in Links
  BY <1>4, <1>5 DEF Linked, Links, Forget
<1>7. \A l \in Lists : Linked'.head[l] = t.head[l]
  BY <1>5 DEF Linked
<1>8. \A e \in Events \ remove : Linked'.next[e] = t.next[e] /\ Linked'.prev[e] = t.prev[e]
  BY <1>5 DEF Linked, Forget
<1>9. Members("time")' = A \ remove /\ Members("fd")' = B \ remove
  <2>1. ASSUME NEW l \in Lists PROVE Members(l)' = Members(l) \ remove
    <3>1. \A e : e \in Members(l)' <=> e \in Members(l) \ remove
      BY <1>5 DEF Members, Forget, IInv, TypeOK
    <3>2. QED BY <3>1
  <2>2. QED BY <1>1, <2>1
<1>10. Sound(Linked', "time", A \ remove) /\ Sound(Linked', "fd", B \ remove)
  <2>1. /\ \A e \in A \ remove : Linked'.next[e] = t.next[e] /\ Linked'.prev[e] = t.prev[e]
        /\ \A e \in B \ remove : Linked'.next[e] = t.next[e] /\ Linked'.prev[e] = t.prev[e]
    BY <1>1, <1>8
  <2> HIDE DEF A, B
  <2>2. PICK y : y = Linked'
    OBVIOUS
  <2>3. Sound(y, "time", A \ remove)
    BY <1>1, <1>4, <1>7, <2>1, <2>2, SameChain
  <2>4. Sound(y, "fd", B \ remove)
    BY <1>1, <1>4, <1>7, <2>1, <2>2, SameChain
  <2>5. QED BY <2>2, <2>3, <2>4
<1>11. QED BY <1>6, <1>9, <1>10 DEF LinksInv, Lists

\* Every step keeps the lists.
LEMMA LinksStep ==
  ASSUME IInv, LinksInv, [Next]_vars
  PROVE  LinksInv'
<1>1. ASSUME NEW o \in Objects, NewConn(o) PROVE LinksInv'
  <2> DEFINE r == Malloc(Fresh)
             w == Malloc(Fresh \ {r})
  <2>1. r \in Fresh /\ w \in Fresh /\ w # r
    BY <1>1, MallocTwo DEF NewConn
  <2>2. PICK f \in Fds :
          Add(Push(Push(Linked, r, "fd"), w, "fd"),
              [e \in {r, w} |-> IF e = r THEN "read" ELSE "write"],
              [e \in {r, w} |-> f], o, {r})
    BY <1>1 DEF NewConn
  <2> HIDE DEF r, w
  <2>3. r \in Events /\ w \in Events /\ r \notin listed /\ w \notin listed /\ "fd" \in Lists
    BY <2>1 DEF Fresh, Lists
  <2>4. /\ SetLinks(Push(Push(Linked, r, "fd"), w, "fd")) /\ listed' = listed \cup {r, w}
        /\ role' = [e \in Events |-> IF e = r THEN "read" ELSE IF e = w THEN "write" ELSE role[e]]
    BY <2>1, <2>2 DEF Add
  <2>5. Push(Linked, r, "fd") \in Links
    BY <2>3, LinksKept DEF LinksInv
  <2>6. PICK s \in Links : s = Push(Push(Linked, r, "fd"), w, "fd")
    BY <2>3, <2>5, LinksKept
  <2>7. Linked' = Push(Push(Linked, r, "fd"), w, "fd")
    BY <2>4, <2>6, LinkedAfter
  <2>8. /\ \A x \in listed : role'[x] = role[x]
        /\ ListOf(role'[r]) = "fd" /\ ListOf(role'[w]) = "fd"
    BY <2>3, <2>4 DEF IInv, TypeOK, ListOf
  <2>9. QED BY <2>1, <2>4, <2>7, <2>8, AddTwo
<1>2. ASSUME NEW o \in Objects, NewEndpoint(o) PROVE LinksInv'
  <2> DEFINE t == Malloc(Fresh)
  <2>1. t \in Fresh
    BY <1>2, MallocIn DEF NewEndpoint
  <2>2. Add(Push(Linked, t, "time"), [e \in {t} |-> "time"], [e \in {t} |-> NoFd], o, {})
    BY <1>2 DEF NewEndpoint
  <2> HIDE DEF t
  <2>3. t \in Events /\ t \notin listed /\ "time" \in Lists
    BY <2>1 DEF Fresh, Lists
  <2>4. /\ SetLinks(Push(Linked, t, "time")) /\ listed' = listed \cup {t}
        /\ role' = [e \in Events |-> IF e = t THEN "time" ELSE role[e]]
    BY <2>2 DEF Add
  <2>5. PICK s \in Links : s = Push(Linked, t, "time")
    BY <2>3, LinksKept DEF LinksInv
  <2>6. Linked' = Push(Linked, t, "time")
    BY <2>4, <2>5, LinkedAfter
  <2>7. (\A x \in listed : role'[x] = role[x]) /\ ListOf(role'[t]) = "time"
    BY <2>3, <2>4 DEF IInv, TypeOK, ListOf
  <2>8. QED BY <2>1, <2>3, <2>4, <2>6, <2>7, AddOne
<1>3. ASSUME NEW o \in Objects, ConnectUdp(o) PROVE LinksInv'
  <2> DEFINE r == Malloc(Fresh)
             w == Malloc(Fresh \ {r})
  <2>1. r \in Fresh /\ w \in Fresh /\ w # r
    BY <1>3, MallocTwo DEF ConnectUdp
  <2>2. PICK f \in Fds, g \in Fds :
          Add(Push(Push(Linked, r, "fd"), w, "fd"), [e \in {r, w} |-> "read"],
              [e \in {r, w} |-> IF e = r THEN f ELSE g], o, {r, w})
    BY <1>3 DEF ConnectUdp
  <2> HIDE DEF r, w
  <2>3. r \in Events /\ w \in Events /\ r \notin listed /\ w \notin listed /\ "fd" \in Lists
    BY <2>1 DEF Fresh, Lists
  <2>4. /\ SetLinks(Push(Push(Linked, r, "fd"), w, "fd")) /\ listed' = listed \cup {r, w}
        /\ role' = [e \in Events |-> IF e \in {r, w} THEN "read" ELSE role[e]]
    BY <2>1, <2>2 DEF Add
  <2>5. Push(Linked, r, "fd") \in Links
    BY <2>3, LinksKept DEF LinksInv
  <2>6. PICK s \in Links : s = Push(Push(Linked, r, "fd"), w, "fd")
    BY <2>3, <2>5, LinksKept
  <2>7. Linked' = Push(Push(Linked, r, "fd"), w, "fd")
    BY <2>4, <2>6, LinkedAfter
  <2>8. /\ \A x \in listed : role'[x] = role[x]
        /\ ListOf(role'[r]) = "fd" /\ ListOf(role'[w]) = "fd"
    BY <2>3, <2>4 DEF IInv, TypeOK, ListOf
  <2>9. QED BY <2>1, <2>4, <2>7, <2>8, AddTwo
<1>4. ASSUME NEW o \in Objects, NEW p \in Objects, Tunnel(o, p) PROVE LinksInv'
  <2> DEFINE e == Malloc(Fresh)
  <2>1. e \in Fresh
    BY <1>4, MallocIn DEF Tunnel
  <2>2. /\ SetLinks(Push(Linked, e, "fd")) /\ listed' = listed \cup {e}
        /\ role' = [role EXCEPT ![e] = "read"]
    BY <1>4 DEF Tunnel
  <2> HIDE DEF e
  <2>3. e \in Events /\ e \notin listed /\ "fd" \in Lists
    BY <2>1 DEF Fresh, Lists
  <2>4. PICK s \in Links : s = Push(Linked, e, "fd")
    BY <2>3, LinksKept DEF LinksInv
  <2>5. Linked' = Push(Linked, e, "fd")
    BY <2>2, <2>4, LinkedAfter
  <2>6. (\A x \in listed : role'[x] = role[x]) /\ ListOf(role'[e]) = "fd"
    BY <2>2, <2>3 DEF IInv, TypeOK, ListOf
  <2>7. QED BY <2>1, <2>2, <2>3, <2>5, <2>6, AddOne
<1>5. CASE Strip
  BY <1>5, StripLinks
<1>6. CASE UNCHANGED links
  BY <1>6, LinksStay
<1>7. QED
  BY <1>1, <1>2, <1>3, <1>4, <1>5, <1>6
  DEF Next, Calls, Loop, Free, CloseSecond, Enable, WriteDone, Poll, TimeRun, TimeDone,
      FdRun, FdDone, Return, Arrive, Tick, vars

LEMMA InitLinks ==
  ASSUME Init
  PROVE  LinksInv
<1> DEFINE e == Malloc(Events)
<1>1. e \in Events
  BY MallocIn
<1>2. /\ head = [l \in Lists |-> IF l = "fd" THEN e ELSE NULL]
      /\ next = [x \in Events |-> NULL] /\ prev = [x \in Events |-> NULL]
      /\ listed = {e} /\ role = [x \in Events |-> "read"]
  BY DEF Init
<1> HIDE DEF e
<1>3. Linked \in Links
  BY <1>1, <1>2 DEF Linked, Links
<1>4. Members("fd") = {e} /\ Members("time") = {}
  <2>1. \A x : (x \in Members("fd") <=> x = e) /\ x \notin Members("time")
    BY <1>1, <1>2 DEF Members, ListOf
  <2>2. QED BY <2>1
<1>5. Sound(Linked, "fd", {e})
  <2> DEFINE u == [i \in 1 .. 1 |-> e]
  <2>1. u \in [1 .. 1 -> Events] /\ u[1] = e
    BY <1>1
  <2>2. Chain(Linked, "fd", 1, u)
    BY <1>1, <1>2, <2>1 DEF Chain, Linked, Lists
  <2>3. \A x \in Events : x \in {e} <=> \E i \in 1 .. 1 : u[i] = x
    BY <2>1
  <2> HIDE DEF u
  <2>4. QED BY <2>1, <2>2, <2>3 DEF Sound
<1>6. Sound(Linked, "time", {})
  <2> DEFINE u == [i \in 1 .. 0 |-> e]
  <2>1. u \in [1 .. 0 -> Events]
    BY <1>1
  <2>2. Chain(Linked, "time", 0, u)
    BY <1>2 DEF Chain, Linked, Lists
  <2>3. \A x \in Events : x \in {} <=> \E i \in 1 .. 0 : u[i] = x
    OBVIOUS
  <2> HIDE DEF u
  <2>4. QED BY <2>1, <2>2, <2>3 DEF Sound
<1>7. QED BY <1>3, <1>4, <1>5, <1>6 DEF LinksInv, Lists

\* In every state both lists are chains of the events that belong in them.
THEOREM ListInvariance == Spec => [](IInv /\ LinksInv)
<1>1. Init => IInv /\ LinksInv
  BY InitIInv, InitLinks
<1>2. (IInv /\ LinksInv) /\ [Next]_vars => (IInv /\ LinksInv)'
  BY StepPreserves, LinksStep
<1>3. QED BY <1>1, <1>2, PTL DEF Spec

\* However events come and go in the middle of a walk, next leads from the head of
\* a list to each of its events once and ends, prev leads back, and what an object
\* holds is in a list (add_timer_event, add_fd_event, remove_event, strip_events).
THEOREM WalksAreSound == Spec => []ListsSound
<1>1. ASSUME IInv, LinksInv PROVE ListsSound
  <2>1. ASSUME NEW l \in Lists
        PROVE  LET w      == Order(l)
                   Places == {n \in Steps : w[n] # NULL} IN
                 /\ {w[n] : n \in Places} = {e \in listed : ListOf(role[e]) = l}
                 /\ \A m, n \in Places : w[m] = w[n] => m = n
                 /\ w[Most + 1] = NULL
                 /\ \A n \in Places : prev[w[n]] = IF n = 1 THEN NULL ELSE w[n - 1]
    <3>1. PICK n \in Nat : \E u \in [1 .. n -> Events] :
            Chain(Linked, l, n, u)
            /\ \A x \in Events : x \in Members(l) <=> \E i \in 1 .. n : u[i] = x
      BY <1>1 DEF LinksInv, Sound
    <3>2. PICK u \in [1 .. n -> Events] :
            Chain(Linked, l, n, u)
            /\ \A x \in Events : x \in Members(l) <=> \E i \in 1 .. n : u[i] = x
      BY <3>1
    <3>3. Most \in Nat /\ n <= Most
      BY <3>2, ChainLength
    <3> DEFINE w == Order(l)
               Places == {i \in Steps : w[i] # NULL}
    <3>4. \A i \in Steps : w[i] = IF i <= n THEN u[i] ELSE NULL
      BY <3>2, WalkIs
    <3> HIDE DEF w
    <3>5. \A i : i \in Places <=> i \in 1 .. n
      BY <3>3, <3>4 DEF Steps
    <3>6. \A i \in 1 .. n : w[i] = u[i]
      BY <3>3, <3>4 DEF Steps
    <3>7. {w[i] : i \in Places} = Members(l)
      <4>1. Members(l) \subseteq Events
        BY <1>1 DEF Members, IInv, TypeOK
      <4> HIDE DEF Places
      <4>2. \A x : x \in {w[i] : i \in Places} <=> \E i \in 1 .. n : u[i] = x
        BY <3>5, <3>6
      <4>3. \A x : x \in {w[i] : i \in Places} <=> x \in Members(l)
        BY <3>2, <4>1, <4>2
      <4>4. QED BY <4>3
    <3>8. \A i, j \in Places : w[i] = w[j] => i = j
      BY <3>2, <3>5, <3>6 DEF Chain
    <3>9. w[Most + 1] = NULL
      BY <3>3, <3>4 DEF Steps
    <3>10. ASSUME NEW i \in Places PROVE prev[w[i]] = IF i = 1 THEN NULL ELSE w[i - 1]
      <4>1. i \in 1 .. n /\ (i # 1 => i - 1 \in 1 .. n)
        BY <3>5
      <4>2. prev[u[i]] = IF i = 1 THEN NULL ELSE u[i - 1]
        BY <3>2, <4>1 DEF Chain, Linked
      <4>3. QED BY <3>6, <4>1, <4>2
    <3>11. QED BY <3>7, <3>8, <3>9, <3>10 DEF w, Members
  <2>2. Held \subseteq listed
    BY <1>1 DEF IInv, EventsHeld
  <2>3. QED BY <2>1, <2>2 DEF ListsSound
<1>2. QED BY <1>1, ListInvariance, PTL
=============================================================================
