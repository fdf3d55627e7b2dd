-------------------------- MODULE ConnectionProofs --------------------------
(***************************************************************************)
(* Connections, for any number of clients, descriptors and requests: the   *)
(* timer thread never erases another connection's entry, a connection that *)
(* is kept has one item on the wheel, that of its last request, and the    *)
(* loop never waits with data left behind.  A connection is kept as the    *)
(* request at the beginning of the buffer asks.                            *)
(*                                                                         *)
(* Descriptors are given out again, so MmapSound rests on the references:  *)
(* a channel is open exactly while Mmap, the loop or an item refers to it  *)
(* (Alive).  NothingUnread speaks of the moment before epoll_wait; in      *)
(* between, a connection whose edge has been consumed is still in event_fd *)
(* or in the results to be handled (Unread).                               *)
(***************************************************************************)
EXTENDS Connection, ListLemmas

\* Where Poll() and the loop over its results are.
Phases ==
  /\ pc = "poll" => results = << >>
  /\ pc \in {"poll", "find", "take"} => done = 0
  /\ pc = "take" => batch # << >>
  /\ pc \notin {"find", "take"} => batch = << >>
  /\ pc \in {"http", "timer"} => done < Len(results)

\* The connections whose channel somebody has a shared_ptr to.
Held ==
  {k \in Conns : \/ \E fd \in Fds : Mmap[fd] = k
                 \/ k \in Range(results)
                 \/ \E i \in items : i.conn = k
                 \/ dying.conn = k}

\* A channel lives exactly as long as somebody refers to it.
Alive ==
  /\ \A k \in Conns : state[k] = "open" <=> k \in Held
  /\ \A k \in Conns : state[k] = "open" => num[k] \in Fds
  /\ \A k \in Conns : state[k] = "backlog" => served[k] = 0

\* Mmap's entries, and the descriptors in use.
Registered ==
  /\ \A fd \in Fds : Mmap[fd] # None => num[Mmap[fd]] = fd
  /\ \A k \in Conns : k \in interest <=> \E fd \in Fds : Mmap[fd] = k
  /\ \A j, k \in Conns : j # k /\ state[j] = "open" /\ state[k] = "open" => num[j] # num[k]

\* An item that has not been separated is that of the last request; a served
\* connection is not in Mmap without one.
Timed ==
  /\ \A i \in items : i.after = served[i.conn]
  /\ \A fd \in Fds : Mmap[fd] # None /\ served[Mmap[fd]] > 0 =>
       \E i \in items \cup {dying} : i.conn = Mmap[fd]

\* The connections that have been reported and whose handler has still to read.
Pending ==
  {results[i] : i \in (IF pc = "timer" THEN done + 2 ELSE done + 1) .. Len(results)}
    \cup {Mmap[batch[i]] : i \in DOMAIN batch}

Unread == \A k \in interest : Readable(k) => k \in edge \cup Pending

IInv == TypeOK /\ Phases /\ Alive /\ Registered /\ Timed /\ Unread

\* The item whose destructor runs is older than the one on the wheel.
Aged ==
  dying # Idle =>
    /\ dying.after <= served[dying.conn]
    /\ \A i \in items : i.conn = dying.conn => dying.after < i.after

\* A connection is kept because the request being handled asks for it, or one
\* before did.
Kept ==
  /\ \A k \in Conns : Keep_Alive[k] =>
       served[k] > 0 \/ (pc = "timer" /\ k = Handled /\ AsksKeepAlive(buff))
  /\ pc = "timer" /\ AsksKeepAlive(buff) => Keep_Alive[Handled]

-----------------------------------------------------------------------------

\* What the types say about the two lists of the loop.
LEMMA ListTypes ==
  ASSUME TypeOK
  PROVE  /\ batch \in Seq(Fds) /\ results \in Seq(Conns) /\ Range(results) \subseteq Conns
         /\ done \in Nat /\ done <= Len(results) /\ Len(results) \in Nat
         /\ \A i \in 1 .. Len(results) : results[i] \in Conns /\ results[i] \in Range(results)
         /\ None \notin Conns
         /\ \A fd \in Fds : Mmap[fd] \in Conns \cup {None}
BY ConnectionAssumption DEF TypeOK, Range

\* The invariants that are checked follow.
LEMMA InvMeans ==
  ASSUME IInv
  PROVE  MmapSound /\ (Aged => OneTimer) /\ NothingUnread
<1> USE DEF IInv
<1>1. None \notin Conns /\ dying \in Item \cup {Idle} /\ items \subseteq Item
      /\ \A fd \in Fds : Mmap[fd] \in Conns \cup {None}
  BY ConnectionAssumption DEF TypeOK
<1>2. \A fd \in Fds : Mmap[fd] # None => state[Mmap[fd]] = "open" /\ num[Mmap[fd]] = fd
  BY <1>1 DEF Alive, Held, Registered
<1>3. dying # Idle => Mmap[num[dying.conn]] \in {None, dying.conn}
  <2>1. SUFFICES ASSUME dying # Idle PROVE Mmap[num[dying.conn]] \in {None, dying.conn}
    OBVIOUS
  <2>2. PICK d \in Conns : d = dying.conn
    BY <1>1, <2>1 DEF Item
  <2>3. state[d] = "open" /\ num[d] \in Fds
    BY <2>2 DEF Alive, Held
  <2>4. Mmap[num[d]] \in Conns => Mmap[num[d]] = d
    BY <1>1, <1>2, <2>3 DEF Registered
  <2>5. QED
    BY <1>1, <2>2, <2>3, <2>4
<1>4. MmapSound
  BY <1>2, <1>3 DEF MmapSound, Registered
<1>5. \A i, j \in items : i.conn = j.conn => i = j
  BY <1>1 DEF Timed, Item
<1>6. ASSUME NEW k \in Conns, state[k] = "open", served[k] > 0, k \notin Range(results)
      PROVE  \E i \in items \cup {dying} : i.conn = k
  BY <1>1, <1>6 DEF Alive, Held, Timed
<1>7. Aged => OneTimer
  BY <1>5, <1>6 DEF OneTimer, Aged, Timed
<1>8. NothingUnread
  <2>1. SUFFICES ASSUME pc = "poll" PROVE Pending = {}
    BY DEF NothingUnread, Unread
  <2>2. results = << >> /\ batch = << >>
    BY <2>1 DEF Phases
  <2>3. Len(results) = 0 /\ DOMAIN batch = {} /\ done \in Nat
    BY <2>2, ListTypes
  <2>4. QED
    BY <2>1, <2>3 DEF Pending
<1>9. QED
  BY <1>4, <1>7, <1>8

\* The server starts without connections.
LEMMA InitInv ==
  Init => IInv
<1> SUFFICES ASSUME Init PROVE IInv
  OBVIOUS
<1> USE DEF Init
<1>1. TypeOK
  <2>1. /\ batch \in Seq(Fds) /\ results \in Seq(Conns) /\ done \in 0 .. Len(results)
        /\ buff \in Seq(STRING) /\ Len(buff) <= BUFF /\ sends \in 0 .. MaxSends
    BY ConnectionAssumption
  <2>2. inbox \in [Conns -> Seq(STRING)]
    OBVIOUS
  <2>3. /\ items \subseteq Item /\ dying \in Item \cup {Idle} /\ served \in [Conns -> Nat]
        /\ Keep_Alive \in [Conns -> BOOLEAN] /\ down \in BOOLEAN
    OBVIOUS
  <2>4. QED
    BY <2>1, <2>2, <2>3 DEF TypeOK
<1>2. Held = {}
  BY ConnectionAssumption, EmptyList DEF Held, Idle
<1>3. Phases /\ Alive /\ Registered /\ Timed /\ Unread
  BY <1>2, ConnectionAssumption DEF Phases, Alive, Registered, Timed, Unread
<1>4. QED
  BY <1>1, <1>3 DEF IInv

\* Min of two numbers.
LEMMA MinOfTwo ==
  ASSUME NEW a \in Nat, NEW b \in Nat
  PROVE  Min({a, b}) = IF a <= b THEN a ELSE b
<1>1. PICK m \in {a, b} : \A x \in {a, b} : m <= x
  OBVIOUS
<1>2. Min({a, b}) \in {a, b} /\ \A x \in {a, b} : Min({a, b}) <= x
  BY <1>1 DEF Min
<1>3. QED
  BY <1>2

\* Epoll_Del removes the entry and the registration of one connection.
LEMMA DelEffect ==
  ASSUME TypeOK, Alive, Registered, NEW k \in Conns, state[k] = "open", Epoll_Del(num[k])
  PROVE  /\ Mmap' \in [Fds -> Conns \cup {None}]
         /\ interest' \subseteq Conns /\ edge' \subseteq interest'
         /\ interest' = interest \ {k} /\ edge' = edge \ {k}
         /\ \A fd \in Fds : Mmap'[fd] = IF Mmap[fd] = k THEN None ELSE Mmap[fd]
<1>1. num[k] \in Fds /\ Mmap \in [Fds -> Conns \cup {None}] /\ None \notin Conns
      /\ interest \subseteq Conns /\ edge \subseteq interest
  BY ConnectionAssumption DEF Alive, TypeOK
<1>2. Mmap[num[k]] \in {None, k}
  BY <1>1 DEF Alive, Held, Registered
<1>3. \A fd \in Fds : Mmap[fd] = k => fd = num[k]
  BY <1>1 DEF Registered
<1>4. Mmap[num[k]] = None => k \notin interest /\ None \notin interest
  BY <1>1, <1>3 DEF Registered
<1>5. /\ Mmap' = [Mmap EXCEPT ![num[k]] = None]
      /\ interest' = interest \ {Mmap[num[k]]} /\ edge' = edge \ {Mmap[num[k]]}
  BY DEF Epoll_Del
<1>6. interest' = interest \ {k} /\ edge' = edge \ {k}
  BY <1>1, <1>2, <1>4, <1>5
<1>7. \A fd \in Fds : Mmap'[fd] = IF Mmap[fd] = k THEN None ELSE Mmap[fd]
  BY <1>1, <1>2, <1>3, <1>5
<1>8. QED
  BY <1>1, <1>5, <1>6, <1>7

\* ~channel: the channels nobody refers to any more are closed.
LEMMA DestroyedEffect ==
  ASSUME TypeOK, Alive, Registered, Destroyed, num' = num, Held' \subseteq Held,
         Mmap' \in [Fds -> Conns \cup {None}], items' \subseteq Item,
         \A k \in Conns : served'[k] = served[k] \/ state[k] = "open"
  PROVE  /\ state' \in [Conns -> {"backlog", "open", "gone"}]
         /\ Alive'
         /\ \A k \in Conns : state'[k] = "open" => state[k] = "open"
<1>1. \A k \in Conns : k \in Holders <=> k \in Held'
  BY DEF Holders, Held, Range
<1>2. \A k \in Conns : state'[k] = IF state[k] = "open" /\ k \notin Held' THEN "gone" ELSE state[k]
  BY <1>1 DEF Destroyed
<1>3. state' \in [Conns -> {"backlog", "open", "gone"}]
  BY DEF Destroyed, TypeOK
<1>4. Alive'
  BY <1>2 DEF Alive
<1>5. QED
  BY <1>2, <1>3, <1>4

\* Clients: data and ends of stream are announced.
LEMMA ClientInv ==
  ASSUME IInv, NEW k \in Conns,
         \/ \E piece \in Pieces : Send(k, piece)
         \/ Hangup(k, "eof") \/ Hangup(k, "reset")
  PROVE  IInv'
<1>1. TypeOK /\ Phases /\ Alive /\ Registered /\ Timed /\ Unread
  BY DEF IInv
<1>2. /\ UNCHANGED <<state, num, Mmap, interest, loopVars, timerVars, Keep_Alive, served, down>>
      /\ Announce(k)
      /\ \A c \in Conns : c # k => peer'[c] = peer[c] /\ inbox'[c] = inbox[c]
  BY <1>1 DEF Send, Hangup, TypeOK
<1>3. /\ peer' \in [Conns -> {"open", "eof", "reset"}] /\ inbox' \in [Conns -> Seq(STRING)]
      /\ sends' \in 0 .. MaxSends
  <2>1. ASSUME NEW piece \in Pieces, Send(k, piece)
        PROVE  /\ peer' \in [Conns -> {"open", "eof", "reset"}] /\ inbox' \in [Conns -> Seq(STRING)]
               /\ sends' \in 0 .. MaxSends
    <3>1. inbox[k] \in Seq(STRING) /\ piece \in Seq(STRING)
      BY <1>1, ConnectionAssumption DEF TypeOK
    <3>2. inbox[k] \o piece \in Seq(STRING)
      BY <3>1
    <3>3. inbox' \in [Conns -> Seq(STRING)]
      BY <1>1, <2>1, <3>2 DEF TypeOK, Send
    <3>4. QED
      BY <1>1, <2>1, <3>3, ConnectionAssumption DEF TypeOK, Send
  <2>2. CASE Hangup(k, "eof") \/ Hangup(k, "reset")
    BY <1>1, <2>2 DEF TypeOK, Hangup
  <2>3. QED
    BY <2>1, <2>2
<1>4. /\ edge' \subseteq interest' /\ edge \subseteq edge'
      /\ k \in interest => k \in edge'
  BY <1>1, <1>2 DEF Announce, TypeOK
<1>5. TypeOK'
  BY <1>1, <1>2, <1>3, <1>4 DEF TypeOK, loopVars, timerVars
<1>6. Held' = Held /\ Pending' = Pending
  BY <1>2 DEF Held, Pending, loopVars, timerVars
<1>7. Phases' /\ Alive' /\ Registered' /\ Timed'
  BY <1>1, <1>2, <1>6 DEF Phases, Alive, Registered, Timed, loopVars, timerVars
<1>8. Unread'
  <2>1. ASSUME NEW c \in interest, Readable(c)'
        PROVE  c \in edge' \cup Pending
    <3>1. CASE c = k
      BY <1>4, <3>1
    <3>2. CASE c # k
      BY <1>1, <1>2, <1>4, <2>1, <3>2 DEF Readable, TypeOK, Unread
    <3>3. QED
      BY <3>1, <3>2
  <2>2. QED
    BY <1>2, <1>6, <2>1 DEF Unread
<1>9. QED
  BY <1>5, <1>7, <1>8 DEF IInv

\* Add_New_Connect: the number is free, so no entry is left under it.
LEMMA AddInv ==
  ASSUME IInv, NEW k \in Conns, NEW fd \in Fds, Add_New_Connect(k, fd)
  PROVE  IInv'
<1>1. TypeOK /\ Phases /\ Alive /\ Registered /\ Timed /\ Unread
  BY DEF IInv
<1>2. /\ pc \in {"poll", "read"} /\ state[k] = "backlog" /\ fd \notin InUse
      /\ num' = [num EXCEPT ![k] = fd]
      /\ UNCHANGED <<clientVars, loopVars, timerVars, Keep_Alive, served, down>>
  BY DEF Add_New_Connect
<1>3. \A c \in Conns : state[c] = "open" => num[c] # fd /\ c # k
  BY <1>2 DEF InUse
<1>4. Mmap[fd] = None
  <2>1. Mmap[fd] # None => Mmap[fd] \in Conns /\ Mmap[fd] \in Held /\ num[Mmap[fd]] = fd
    BY <1>1, ListTypes DEF Held, Registered
  <2>2. QED
    BY <1>1, <1>3, <2>1 DEF Alive
<1>5. /\ Mmap' = [Mmap EXCEPT ![fd] = k]
      /\ interest' = interest \cup {k}
      /\ edge' = IF Readable(k) THEN edge \cup {k} ELSE edge
      /\ state' = [state EXCEPT ![k] = "open"]
  BY <1>4 DEF Add_New_Connect
<1>6. /\ results' = results /\ items' = items /\ dying' = dying /\ batch' = batch
      /\ done' = done /\ pc' = pc /\ served' = served /\ inbox' = inbox /\ peer' = peer
      /\ batch = << >>
  BY <1>1, <1>2 DEF clientVars, loopVars, timerVars, Phases
<1>7. /\ \A f \in Fds : Mmap'[f] = IF f = fd THEN k ELSE Mmap[f]
      /\ \A c \in Conns : /\ state'[c] = IF c = k THEN "open" ELSE state[c]
                          /\ num'[c] = IF c = k THEN fd ELSE num[c]
      /\ None \notin Conns /\ \A f \in Fds : Mmap[f] \in Conns \cup {None}
  BY <1>1, <1>2, <1>5, ConnectionAssumption DEF TypeOK
<1>8. TypeOK'
  BY <1>1, <1>2, <1>5 DEF TypeOK, clientVars, loopVars, timerVars
<1>9. k \notin Held /\ Held' = Held \cup {k}
  <2>1. k \notin Held
    BY <1>1, <1>2 DEF Alive
  <2>2. ASSUME NEW c \in Conns
        PROVE  (\E f \in Fds : Mmap'[f] = c) <=> (c = k \/ \E f \in Fds : Mmap[f] = c)
    BY <1>4, <1>7
  <2>3. ASSUME NEW c \in Conns
        PROVE  c \in Held' <=> c = k \/ c \in Held
    <3>1. c \in Held' <=> \/ \E f \in Fds : Mmap'[f] = c
                          \/ c \in Range(results')
                          \/ \E i \in items' : i.conn = c
                          \/ dying'.conn = c
      BY DEF Held
    <3>2. c \in Held <=> \/ \E f \in Fds : Mmap[f] = c
                         \/ c \in Range(results)
                         \/ \E i \in items : i.conn = c
                         \/ dying.conn = c
      BY DEF Held
    <3>3. QED
      BY <1>6, <2>2, <3>1, <3>2
  <2>4. Held \subseteq Conns /\ Held' \subseteq Conns
    BY DEF Held
  <2>5. QED
    BY <2>1, <2>3, <2>4
<1>10. Alive'
  BY <1>1, <1>6, <1>7, <1>9 DEF Alive
<1>11. Registered'
  <2>1. \A f \in Fds : Mmap[f] # k
    BY <1>9 DEF Held
  <2>2. \A f \in Fds : Mmap'[f] # None => num'[Mmap'[f]] = f
    BY <1>1, <1>7, <2>1 DEF Registered
  <2>3. \A c \in Conns : c \in interest' <=> \E f \in Fds : Mmap'[f] = c
    BY <1>1, <1>4, <1>5, <1>7 DEF Registered
  <2>4. \A i, j \in Conns : i # j /\ state'[i] = "open" /\ state'[j] = "open" => num'[i] # num'[j]
    BY <1>1, <1>3, <1>7 DEF Registered
  <2>5. QED
    BY <2>2, <2>3, <2>4 DEF Registered
<1>12. Timed'
  BY <1>1, <1>2, <1>6, <1>7, <1>9 DEF Timed, Alive
<1>13. Unread'
  <2>1. ASSUME NEW c \in interest', Readable(c)'
        PROVE  c \in edge' \cup Pending'
    <3>1. Readable(c) /\ Pending' = Pending
      <4>1. DOMAIN batch = {}
        BY <1>6
      <4>2. Pending' = Pending
        BY <1>6, <4>1 DEF Pending
      <4>3. QED
        BY <1>6, <2>1, <4>2 DEF Readable
    <3>2. CASE c = k
      BY <1>5, <3>1, <3>2
    <3>3. CASE c # k
      BY <1>1, <1>5, <2>1, <3>1, <3>3 DEF Unread
    <3>4. QED
      BY <3>2, <3>3
  <2>2. QED
    BY <2>1 DEF Unread
<1>14. Phases'
  BY <1>1, <1>6 DEF Phases
<1>15. QED
  BY <1>8, <1>10, <1>11, <1>12, <1>13, <1>14 DEF IInv

\* Channels are released, and entries of Mmap with them; no number is given out.
LEMMA ReleaseEffect ==
  ASSUME TypeOK, Alive, Registered, Destroyed, num' = num, Held' \subseteq Held,
         Mmap' \in [Fds -> Conns \cup {None}], items' \subseteq Item,
         \A fd \in Fds : Mmap'[fd] = Mmap[fd] \/ Mmap'[fd] = None,
         \A k \in Conns : k \in interest' <=> \E fd \in Fds : Mmap'[fd] = k,
         \A k \in Conns : served'[k] = served[k] \/ state[k] = "open"
  PROVE  state' \in [Conns -> {"backlog", "open", "gone"}] /\ Alive' /\ Registered'
<1>1. /\ state' \in [Conns -> {"backlog", "open", "gone"}] /\ Alive'
      /\ \A k \in Conns : state'[k] = "open" => state[k] = "open"
  BY DestroyedEffect
<1>2. \A fd \in Fds : Mmap'[fd] # None => num'[Mmap'[fd]] = fd
  BY DEF Registered
<1>3. \A j, k \in Conns : j # k /\ state'[j] = "open" /\ state'[k] = "open" => num'[j] # num'[k]
  BY <1>1 DEF Registered
<1>4. QED
  BY <1>1, <1>2, <1>3 DEF Registered

\* The channel that is handled is open: results refers to it.
LEMMA HandledOpen ==
  ASSUME IInv, done < Len(results)
  PROVE  Handled \in Conns /\ Handled \in Held /\ state[Handled] = "open"
<1>1. done + 1 \in 1 .. Len(results)
  BY ListTypes DEF IInv
<1>2. Handled \in Conns /\ Handled \in Range(results)
  BY <1>1, ListTypes DEF IInv, Handled
<1>3. QED
  BY <1>2 DEF Held, IInv, Alive

\* Poll: an edge that is used up is in event_fd.
LEMMA PollInv ==
  ASSUME IInv, Poll
  PROVE  IInv'
<1>0. PICK S \in SUBSET edge :
        /\ \E s \in SetToSeqs(S) : batch' = [i \in DOMAIN s |-> num[s[i]]]
        /\ edge' = edge \ S
  BY DEF Poll
<1>1. TypeOK /\ Phases /\ Alive /\ Registered /\ Timed /\ Unread
  BY DEF IInv
<1>2. /\ pc = "poll" /\ pc' = "find" /\ results = << >> /\ done = 0
      /\ UNCHANGED <<state, num, clientVars, Mmap, interest, results, done, buff, timerVars,
                     Keep_Alive, served, down>>
  BY <1>1 DEF Poll, Phases
<1>3. edge \subseteq interest /\ interest \subseteq Conns /\ IsFiniteSet(edge)
  BY <1>1, ConnectionAssumption, FS_Subset DEF TypeOK
<1>4. \A k \in interest : num[k] \in Fds /\ Mmap[num[k]] = k
  <2>1. ASSUME NEW k \in interest PROVE num[k] \in Fds /\ Mmap[num[k]] = k
    <3>1. PICK fd \in Fds : Mmap[fd] = k
      BY <1>1, <1>3 DEF Registered
    <3>2. Mmap[fd] # None
      BY <1>3, <3>1, ConnectionAssumption
    <3>3. QED
      BY <1>1, <3>1, <3>2 DEF Registered
  <2>2. QED
    BY <2>1
<1>5. PICK s \in SetToSeqs(S) : batch' = [i \in DOMAIN s |-> num[s[i]]]
  BY <1>0
<1>6. s \in Seq(S) /\ Range(s) = S
  <2>1. IsFiniteSet(S)
    BY <1>3, FS_Subset
  <2>2. QED
    BY <2>1, OrderedSet
<1>7. batch' \in Seq(Fds)
  <2>1. Len(s) \in Nat /\ DOMAIN s = 1 .. Len(s) /\ \A i \in 1 .. Len(s) : s[i] \in S
    BY <1>6
  <2>2. batch' \in [1 .. Len(s) -> Fds]
    BY <1>3, <1>4, <1>5, <2>1
  <2>3. QED
    BY <2>1, <2>2
<1>8. \A k \in S : k \in Pending'
  <2>1. ASSUME NEW k \in S PROVE k \in Pending'
    <3>1. PICK i \in DOMAIN s : s[i] = k
      BY <1>6 DEF Range
    <3>2. i \in DOMAIN batch' /\ batch'[i] = num[k]
      BY <1>5, <3>1
    <3>3. Mmap'[batch'[i]] = k
      BY <1>2, <1>3, <1>4, <3>2
    <3>4. QED
      BY <3>2, <3>3 DEF Pending
  <2>2. QED
    BY <2>1
<1>9. Pending = {}
  <2>1. Len(results) = 0 /\ DOMAIN batch = {}
    BY <1>1, <1>2 DEF Phases
  <2>2. QED
    BY <1>2, <2>1 DEF Pending
<1>10. TypeOK'
  BY <1>0, <1>1, <1>2, <1>3, <1>7 DEF TypeOK, clientVars, timerVars
<1>11. Phases'
  BY <1>2 DEF Phases
<1>12. Alive' /\ Registered' /\ Timed'
  <2>1. Held' = Held
    BY <1>2 DEF Held, timerVars
  <2>2. QED
    BY <1>1, <1>2, <2>1 DEF Alive, Registered, Timed, timerVars
<1>13. Unread'
  <2>1. \A k : Readable(k)' <=> Readable(k)
    BY <1>2 DEF Readable, clientVars
  <2>2. QED
    BY <1>0, <1>1, <1>2, <1>8, <1>9, <2>1 DEF Unread
<1>14. QED
  BY <1>10, <1>11, <1>12, <1>13 DEF IInv

\* PollFind and PollTake move a reported connection from event_fd to the results.
LEMMA FindInv ==
  ASSUME IInv, PollFind
  PROVE  IInv'
<1>1. TypeOK /\ Phases /\ Alive /\ Registered /\ Timed /\ Unread
  BY DEF IInv
<1>2. /\ pc = "find" /\ pc' \in {"find", "take", "read"} /\ done = 0
      /\ UNCHANGED <<state, num, clientVars, epollVars, results, done, buff, timerVars,
                     Keep_Alive, served, down>>
  BY <1>1 DEF PollFind, Phases
<1>3. /\ batch' \in Seq(Fds)
      /\ pc' = "take" => batch' # << >>
      /\ pc' = "read" => batch' = << >>
      /\ \A f \in Range(batch) : f \in Range(batch') \/ Mmap[f] = None
  <2>1. batch \in Seq(Fds)
    BY <1>1, ListTypes
  <2>2. CASE batch = << >>
    BY <2>1, <2>2 DEF PollFind
  <2>3. CASE batch # << >> /\ Mmap[Head(batch)] = None
    <3>1. batch' = Tail(batch) /\ pc' = "find"
      BY <1>2, <2>3 DEF PollFind
    <3>2. Tail(batch) \in Seq(Fds) /\ Range(batch) = Range(Tail(batch)) \cup {Head(batch)}
      BY <2>1, <2>3, TailList
    <3>3. QED
      BY <2>3, <3>1, <3>2
  <2>4. CASE batch # << >> /\ Mmap[Head(batch)] # None
    BY <2>1, <2>4 DEF PollFind
  <2>5. QED
    BY <2>2, <2>3, <2>4
<1>4. TypeOK'
  BY <1>1, <1>2, <1>3 DEF TypeOK, clientVars, epollVars, timerVars
<1>5. Phases'
  BY <1>1, <1>2, <1>3 DEF Phases
<1>6. Alive' /\ Registered' /\ Timed'
  <2>1. Held' = Held
    BY <1>2 DEF Held, timerVars, epollVars
  <2>2. QED
    BY <1>1, <1>2, <2>1 DEF Alive, Registered, Timed, timerVars, epollVars
<1>7. \A k \in Conns : k \in Pending => k \in Pending'
  <2>1. Mmap' = Mmap /\ results' = results /\ done' = done /\ pc # "timer" /\ pc' # "timer"
        /\ None \notin Conns
    BY <1>2, ConnectionAssumption DEF epollVars
  <2>2. \A k \in Conns : (\E f \in Range(batch) : Mmap[f] = k) => \E f \in Range(batch') : Mmap[f] = k
    BY <1>3, <2>1
  <2>3. QED
    BY <2>1, <2>2 DEF Pending, Range
<1>8. Unread'
  <2>1. \A k : Readable(k)' <=> Readable(k)
    BY <1>2 DEF Readable, clientVars
  <2>2. interest' = interest /\ edge' = edge /\ interest \subseteq Conns
    BY <1>1, <1>2 DEF TypeOK, epollVars
  <2>3. QED
    BY <1>1, <1>7, <2>1, <2>2 DEF Unread
<1>9. QED
  BY <1>4, <1>5, <1>6, <1>8 DEF IInv

\* An entry that has gone when Poll uses it ends the process; else the channel
\* is referred to once more.
LEMMA TakeInv ==
  ASSUME IInv, PollTake
  PROVE  IInv'
<1>1. TypeOK /\ Phases /\ Alive /\ Registered /\ Timed /\ Unread
  BY DEF IInv
<1>2. /\ pc = "take" /\ done = 0 /\ batch # << >>
      /\ UNCHANGED <<state, num, clientVars, epollVars, done, buff, timerVars, Keep_Alive, served>>
  BY <1>1 DEF PollTake, Phases
<1>3. CASE Mmap[Head(batch)] = None
  <2>1. down' = TRUE /\ UNCHANGED <<pc, batch, results>>
    BY <1>3 DEF PollTake
  <2>2. Held' = Held /\ Pending' = Pending
    BY <1>2, <2>1 DEF Held, Pending, timerVars, epollVars
  <2>3. TypeOK'
    BY <1>1, <1>2, <2>1 DEF TypeOK, clientVars, epollVars, timerVars
  <2>4. Phases' /\ Alive' /\ Registered' /\ Timed'
    BY <1>1, <1>2, <2>1, <2>2 DEF Phases, Alive, Registered, Timed, timerVars, epollVars
  <2>5. Unread'
    BY <1>1, <1>2, <2>2 DEF Unread, Readable, clientVars, epollVars
  <2>6. QED
    BY <2>3, <2>4, <2>5 DEF IInv
<1>4. CASE Mmap[Head(batch)] # None
  <2>1. batch \in Seq(Fds) /\ results \in Seq(Conns)
    BY <1>1, ListTypes
  <2>2. PICK h \in Fds : h = Head(batch)
    BY <1>2, <2>1, TailList
  <2>3. PICK m \in Conns : m = Mmap[h]
    BY <1>1, <1>4, <2>2, ListTypes
  <2>4. results' = Append(results, m) /\ batch' = Tail(batch) /\ pc' = "find" /\ down' = down
    BY <1>4, <2>2, <2>3 DEF PollTake
  <2>5. Tail(batch) \in Seq(Fds) /\ Range(batch) = Range(Tail(batch)) \cup {h}
    BY <1>2, <2>1, <2>2, TailList
  <2>6. /\ Append(results, m) \in Seq(Conns) /\ Len(Append(results, m)) = Len(results) + 1
        /\ Range(Append(results, m)) = Range(results) \cup {m}
    BY <2>1, AppendList
  <2>7. m \in Held
    BY <2>3 DEF Held
  <2>8. Held' = Held
    <3>1. Range(results') = Range(results) \cup {m}
      BY <2>4, <2>6
    <3>2. Held' = Held \cup {m}
      BY <1>2, <3>1 DEF Held, timerVars, epollVars
    <3>3. QED
      BY <2>7, <3>2
  <2>9. TypeOK'
    <3>1. /\ batch' \in Seq(Fds) /\ results' \in Seq(Conns) /\ done' \in 0 .. Len(results')
          /\ pc' = "find" /\ down' = down
      BY <1>2, <2>1, <2>4, <2>5, <2>6
    <3>2. QED
      BY <1>1, <1>2, <3>1 DEF TypeOK, clientVars, epollVars, timerVars
  <2>10. Phases'
    BY <1>2, <2>4 DEF Phases
  <2>11. Alive' /\ Registered' /\ Timed'
    BY <1>1, <1>2, <2>8 DEF Alive, Registered, Timed, timerVars, epollVars
  <2>12. \A k \in Conns : k \in Pending => k \in Pending'
    <3>1. Pending = Range(results) \cup {Mmap[f] : f \in Range(batch)}
      BY <1>2, <2>1 DEF Pending, Range
    <3>2. Pending' = Range(results') \cup {Mmap[f] : f \in Range(batch')}
      <4>1. DOMAIN results' = 1 .. Len(results') /\ done' = 0 /\ Mmap' = Mmap
        BY <1>2, <2>4, <2>6 DEF epollVars
      <4>2. QED
        BY <2>4, <4>1 DEF Pending, Range
    <3>3. QED
      BY <2>3, <2>4, <2>5, <2>6, <3>1, <3>2
  <2>13. Unread'
    <3>1. \A k : Readable(k)' <=> Readable(k)
      BY <1>2 DEF Readable, clientVars
    <3>2. interest' = interest /\ edge' = edge /\ interest \subseteq Conns
      BY <1>1, <1>2 DEF TypeOK, epollVars
    <3>3. QED
      BY <1>1, <2>12, <3>1, <3>2 DEF Unread
  <2>14. QED
    BY <2>9, <2>10, <2>11, <2>13 DEF IInv
<1>5. QED
  BY <1>3, <1>4

\* The batch is dropped when all of it has been handled.
LEMMA BatchDoneInv ==
  ASSUME IInv, BatchDone
  PROVE  IInv'
<1>1. TypeOK /\ Phases /\ Alive /\ Registered /\ Timed /\ Unread
  BY DEF IInv
<1>2. /\ pc = "read" /\ done = Len(results) /\ results' = << >> /\ done' = 0 /\ pc' = "poll"
      /\ batch = << >>
      /\ UNCHANGED <<num, clientVars, epollVars, batch, buff, timerVars, Keep_Alive, served, down>>
      /\ Destroyed
  BY <1>1 DEF BatchDone, Phases
<1>3. Held' \subseteq Held
  BY <1>2, EmptyList DEF Held, timerVars, epollVars
<1>4. state' \in [Conns -> {"backlog", "open", "gone"}] /\ Alive' /\ Registered'
  <2>1. /\ num' = num /\ Mmap' = Mmap /\ interest' = interest /\ items' = items /\ served' = served
        /\ Mmap \in [Fds -> Conns \cup {None}] /\ items \subseteq Item
    BY <1>1, <1>2 DEF epollVars, timerVars, TypeOK
  <2>2. \A k \in Conns : k \in interest' <=> \E fd \in Fds : Mmap'[fd] = k
    BY <1>1, <2>1 DEF Registered
  <2>3. QED
    BY <1>1, <1>2, <1>3, <2>1, <2>2, ReleaseEffect
<1>5. TypeOK'
  <2>1. results' \in Seq(Conns) /\ done' \in 0 .. Len(results') /\ pc' = "poll"
    BY <1>2
  <2>2. QED
    BY <1>1, <1>2, <1>4, <2>1 DEF TypeOK, clientVars, epollVars, timerVars
<1>6. Phases' /\ Timed'
  BY <1>1, <1>2 DEF Phases, Timed, epollVars, timerVars
<1>7. Unread'
  <2>1. Pending = {}
    <3>1. (done + 1) .. Len(results) = {} /\ DOMAIN batch = {}
      BY <1>1, <1>2, ListTypes
    <3>2. QED
      BY <1>2, <3>1 DEF Pending
  <2>2. QED
    BY <1>1, <1>2, <2>1 DEF Unread, Readable, epollVars, clientVars
<1>8. QED
  BY <1>4, <1>5, <1>6, <1>7 DEF IInv

\* handle_close, or nothing, done to a channel that is open: what is left of
\* Mmap, of the registrations and of the items.
LEMMA CloseEffect ==
  ASSUME TypeOK, Alive, Registered, NEW k \in Conns, state[k] = "open", NEW close \in BOOLEAN,
         IF close THEN handle_close(k) ELSE UNCHANGED <<items, epollVars>>
  PROVE  /\ Mmap' \in [Fds -> Conns \cup {None}]
         /\ interest' \subseteq interest /\ edge' \subseteq interest'
         /\ items' \subseteq items
         /\ \A fd \in Fds : Mmap'[fd] = Mmap[fd] \/ Mmap'[fd] = None
         /\ \A fd \in Fds : Mmap'[fd] = Mmap[fd] \/ Mmap[fd] = k
         /\ \A c \in Conns : c \in interest' <=> \E fd \in Fds : Mmap'[fd] = c
         /\ \A c \in edge : c # k => c \in edge'
         /\ \A i \in items : i.conn # k => i \in items'
         /\ close => k \notin interest' /\ items' = SeparateTimer(k)
                     /\ \A fd \in Fds : Mmap'[fd] # k
         /\ ~ close => UNCHANGED <<Mmap, interest, edge, items>>
<1>1. CASE close
  <2>1. items' = SeparateTimer(k) /\ Epoll_Del(num[k])
    BY <1>1 DEF handle_close
  <2>2. /\ Mmap' \in [Fds -> Conns \cup {None}]
        /\ interest' \subseteq Conns /\ edge' \subseteq interest'
        /\ interest' = interest \ {k} /\ edge' = edge \ {k}
        /\ \A fd \in Fds : Mmap'[fd] = IF Mmap[fd] = k THEN None ELSE Mmap[fd]
    BY <2>1, DelEffect
  <2>3. items' \subseteq items /\ \A i \in items : i.conn # k => i \in items'
    BY <2>1 DEF SeparateTimer
  <2>4. None \notin Conns
    BY ConnectionAssumption
  <2>5. \A c \in Conns : c \in interest' <=> \E fd \in Fds : Mmap'[fd] = c
    BY <2>2, <2>4 DEF Registered
  <2>6. QED
    BY <1>1, <2>1, <2>2, <2>3, <2>4, <2>5
<1>2. CASE ~ close
  <2>1. UNCHANGED <<Mmap, interest, edge, items>>
    BY <1>2 DEF epollVars
  <2>2. QED
    BY <1>2, <2>1 DEF TypeOK, Registered
<1>3. QED
  BY <1>1, <1>2

\* readn takes at most a buffer, and leaves nothing behind unless it is full.
LEMMA ReadEffect ==
  ASSUME TypeOK, NEW k \in Conns
  PROVE  /\ ReadSize(k) \in Nat /\ ReadSize(k) <= BUFF
         /\ ReadSize(k) = 0 => inbox[k] = << >>
         /\ SubSeq(inbox[k], ReadSize(k) + 1, Len(inbox[k])) \in Seq(STRING)
         /\ SubSeq(inbox[k], 1, ReadSize(k)) \in Seq(STRING)
         /\ Len(SubSeq(inbox[k], 1, ReadSize(k))) = ReadSize(k)
         /\ ReadSize(k) = 0 => SubSeq(inbox[k], ReadSize(k) + 1, Len(inbox[k])) = << >>
<1>1. PICK s \in Seq(STRING) : s = inbox[k]
  BY DEF TypeOK
<1>2. Len(s) \in Nat /\ BUFF \in Nat \ {0}
  BY ConnectionAssumption
<1>3. PICK n \in Nat : /\ n = ReadSize(k) /\ n <= BUFF /\ n <= Len(s)
                       /\ n = BUFF \/ n = Len(s)
  BY <1>1, <1>2, MinOfTwo DEF ReadSize
<1>4. n = 0 => s = << >>
  BY <1>2, <1>3
<1>5. /\ SubSeq(s, n + 1, Len(s)) \in Seq(STRING) /\ SubSeq(s, 1, n) \in Seq(STRING)
      /\ Len(SubSeq(s, 1, n)) = n
  BY <1>2, <1>3
<1>6. n = 0 => SubSeq(s, n + 1, Len(s)) = << >>
  BY <1>2, <1>4
<1>7. QED
  BY <1>1, <1>3, <1>4, <1>5, <1>6

\* HandleRead: what is not read is reported by Epoll_Mod later; a handler that
\* ends here has read everything, or has closed the connection.
LEMMA ReadInv ==
  ASSUME IInv, HandleRead
  PROVE  IInv'
<1>1. TypeOK /\ Phases /\ Alive /\ Registered /\ Timed /\ Unread
  BY DEF IInv
<1>2. ~ down /\ pc = "read" /\ done < Len(results) /\ batch = << >> /\ Destroyed
      /\ UNCHANGED <<num, peer, sends, batch, results, dying, Keep_Alive, served, down>>
  BY <1>1 DEF HandleRead, Phases
<1>3. PICK k \in Conns : k = Handled /\ k \in Held /\ state[k] = "open"
  BY <1>2, HandledOpen
<1>4. PICK n \in Nat : n = ReadSize(k)
  BY <1>1, ReadEffect
<1>5. PICK end \in BOOLEAN : end = (n < BUFF /\ peer[k] # "open")
  OBVIOUS
<1>6. /\ inbox' = [inbox EXCEPT ![k] = SubSeq(inbox[k], n + 1, Len(inbox[k]))]
      /\ IF end THEN handle_close(k) ELSE UNCHANGED <<items, epollVars>>
      /\ IF end \/ n = 0
         THEN done' = done + 1 /\ UNCHANGED <<pc, buff>>
         ELSE pc' = "http" /\ buff' = SubSeq(inbox[k], 1, n) /\ UNCHANGED done
  BY <1>3, <1>4, <1>5 DEF HandleRead
<1>7. /\ Mmap' \in [Fds -> Conns \cup {None}]
      /\ interest' \subseteq interest /\ edge' \subseteq interest'
      /\ items' \subseteq items
      /\ \A fd \in Fds : Mmap'[fd] = Mmap[fd] \/ Mmap'[fd] = None
      /\ \A c \in Conns : c \in interest' <=> \E fd \in Fds : Mmap'[fd] = c
      /\ \A c \in edge : c # k => c \in edge'
      /\ \A i \in items : i.conn # k => i \in items'
      /\ end => k \notin interest' /\ \A fd \in Fds : Mmap'[fd] # k
      /\ ~ end => UNCHANGED <<Mmap, interest, edge, items>>
  BY <1>1, <1>3, <1>6, CloseEffect
<1>8. /\ n <= BUFF /\ (n = 0 => SubSeq(inbox[k], n + 1, Len(inbox[k])) = << >>)
      /\ SubSeq(inbox[k], n + 1, Len(inbox[k])) \in Seq(STRING)
      /\ SubSeq(inbox[k], 1, n) \in Seq(STRING) /\ Len(SubSeq(inbox[k], 1, n)) = n
  BY <1>1, <1>4, ReadEffect
<1>9. /\ inbox' \in [Conns -> Seq(STRING)] /\ (n = 0 => inbox'[k] = << >>)
      /\ \A c \in Conns : c # k => inbox'[c] = inbox[c]
  <2>1. PICK rest \in Seq(STRING) : /\ rest = SubSeq(inbox[k], n + 1, Len(inbox[k]))
                                    /\ n = 0 => rest = << >>
    BY <1>8
  <2>2. inbox' = [inbox EXCEPT ![k] = rest] /\ inbox \in [Conns -> Seq(STRING)]
    BY <1>1, <1>6, <2>1 DEF TypeOK
  <2>3. QED
    BY <2>1, <2>2
<1>10. Held' \subseteq Held
  <2>1. ASSUME NEW c \in Held' PROVE c \in Held
    BY <1>2, <1>7, ConnectionAssumption DEF Held
  <2>2. QED
    BY <2>1
<1>11. state' \in [Conns -> {"backlog", "open", "gone"}] /\ Alive' /\ Registered'
  <2>1. items' \subseteq Item /\ num' = num /\ served' = served
    BY <1>1, <1>2, <1>7 DEF TypeOK
  <2>2. QED
    BY <1>1, <1>2, <1>7, <1>10, <2>1, ReleaseEffect
<1>12. /\ done' \in 0 .. Len(results') /\ buff' \in Seq(STRING) /\ Len(buff') <= BUFF
       /\ pc' \in {"read", "http"} /\ (pc' = "http" => done' < Len(results'))
       /\ done \in Nat /\ Len(results) \in Nat
  <2>1. done \in Nat /\ Len(results) \in Nat /\ buff \in Seq(STRING) /\ Len(buff) <= BUFF
    BY <1>1, ListTypes DEF TypeOK
  <2>2. CASE end \/ n = 0
    BY <1>2, <1>6, <2>1, <2>2
  <2>3. CASE ~ (end \/ n = 0)
    BY <1>2, <1>6, <1>8, <2>1, <2>3
  <2>4. QED
    BY <2>2, <2>3
<1>13. TypeOK'
  BY <1>1, <1>2, <1>7, <1>9, <1>11, <1>12 DEF TypeOK
<1>14. Phases'
  BY <1>2, <1>12 DEF Phases
<1>15. Timed'
  <2>1. \A i \in items' : i.after = served'[i.conn]
    BY <1>1, <1>2, <1>7 DEF Timed
  <2>2. ASSUME NEW fd \in Fds, Mmap'[fd] # None, served'[Mmap'[fd]] > 0
        PROVE  \E i \in items' \cup {dying'} : i.conn = Mmap'[fd]
    <3>1. PICK i \in items \cup {dying} : i.conn = Mmap[fd] /\ Mmap'[fd] = Mmap[fd]
      BY <1>1, <1>2, <1>7, <2>2 DEF Timed
    <3>2. i \in items' \cup {dying'}
      BY <1>2, <1>7, <3>1
    <3>3. QED
      BY <3>1, <3>2
  <2>3. QED
    BY <2>1, <2>2 DEF Timed
<1>16. Unread'
  <2>1. ASSUME NEW c \in interest', Readable(c)'
        PROVE  c \in edge' \cup Pending'
    <3>1. c \in Conns /\ c \in interest
      BY <1>1, <1>7 DEF TypeOK
    <3>2. Pending = {results[i] : i \in done + 1 .. Len(results)} /\ k = results[done + 1]
      <4>1. DOMAIN batch = {}
        BY <1>2
      <4>2. QED
        BY <1>2, <1>3, <4>1 DEF Pending, Handled
    <3>3. {results[i] : i \in done' + 1 .. Len(results)} \subseteq Pending'
      BY <1>2, <1>12 DEF Pending
    <3>4. CASE c # k
      <4>1. c \in edge \cup Pending
        BY <1>1, <1>2, <1>9, <2>1, <3>1, <3>4 DEF Readable, Unread
      <4>2. CASE c \in edge
        BY <1>7, <3>4, <4>2
      <4>3. CASE c \in Pending
        <5>1. PICK i \in done + 1 .. Len(results) : c = results[i]
          BY <3>2, <4>3
        <5>2. i # done + 1 /\ (done' = done + 1 \/ done' = done)
          BY <1>6, <3>2, <3>4, <5>1
        <5>3. i \in done' + 1 .. Len(results)
          <6>1. done \in Nat /\ Len(results) \in Nat
            BY <1>12
          <6>2. i \in Nat /\ i > done + 1 /\ i <= Len(results)
            BY <5>1, <5>2, <6>1
          <6>3. QED
            BY <5>2, <6>1, <6>2
        <5>4. QED
          BY <3>3, <5>1, <5>3
      <4>4. QED
        BY <4>1, <4>2, <4>3
    <3>5. CASE c = k
      <4>1. ~ end
        BY <1>7, <3>5
      <4>2. n # 0
        <5>1. n = 0 => peer'[k] = "open" /\ inbox'[k] = << >>
          <6>1. n = 0 => n < BUFF
            BY ConnectionAssumption
          <6>2. ~ (n < BUFF /\ peer[k] # "open")
            BY <1>5, <4>1
          <6>3. QED
            BY <1>2, <1>9, <6>1, <6>2
        <5>2. QED
          BY <2>1, <3>5, <5>1 DEF Readable
      <4>3. done' = done
        BY <1>6, <4>1, <4>2
      <4>4. done + 1 \in done' + 1 .. Len(results)
        BY <1>2, <1>12, <4>3
      <4>5. QED
        BY <3>2, <3>3, <3>5, <4>4
    <3>6. QED
      BY <3>4, <3>5
  <2>2. QED
    BY <2>1 DEF Unread
<1>17. QED
  BY <1>11, <1>13, <1>14, <1>15, <1>16 DEF IInv

\* handle_http: Epoll_Mod makes the kernel report what has not been read.
LEMMA HttpInv ==
  ASSUME IInv, handle_http
  PROVE  IInv'
<1>1. TypeOK /\ Phases /\ Alive /\ Registered /\ Timed /\ Unread
  BY DEF IInv
<1>2. /\ pc = "http" /\ done < Len(results) /\ batch = << >>
      /\ UNCHANGED <<state, num, clientVars, Mmap, interest, batch, results, done, buff,
                     timerVars, served>>
  BY <1>1 DEF handle_http, Phases
<1>3. PICK k \in Conns : k = Handled
  BY <1>2, HandledOpen
<1>4. Held' = Held
  BY <1>2 DEF Held, timerVars
<1>5. Alive' /\ Registered' /\ Timed'
  BY <1>1, <1>2, <1>4 DEF Alive, Registered, Timed, timerVars
<1>6. \A c : Readable(c)' <=> Readable(c)
  BY <1>2 DEF Readable, clientVars
<1>7. CASE peer[k] = "reset"
  <2>1. down' = TRUE /\ UNCHANGED <<Keep_Alive, edge, pc>>
    BY <1>3, <1>7 DEF handle_http
  <2>2. TypeOK'
    BY <1>1, <1>2, <2>1 DEF TypeOK, clientVars, timerVars
  <2>3. Phases'
    BY <1>1, <1>2, <2>1 DEF Phases
  <2>4. Pending' = Pending
    BY <1>2, <2>1 DEF Pending
  <2>5. Unread'
    BY <1>1, <1>2, <1>6, <2>1, <2>4 DEF Unread
  <2>6. QED
    BY <1>5, <2>2, <2>3, <2>5 DEF IInv
<1>8. CASE peer[k] # "reset"
  <2>1. /\ Keep_Alive' = [Keep_Alive EXCEPT ![k] = Keep_Alive[k] \/ AsksKeepAlive(buff)]
        /\ (\E cut \in BOOLEAN : edge' = Rearmed(k, cut)) /\ pc' = "timer" /\ down' = down
    BY <1>3, <1>8 DEF handle_http
  <2>2. Keep_Alive' \in [Conns -> BOOLEAN]
    <3>1. PICK b \in BOOLEAN : b = (Keep_Alive[k] \/ AsksKeepAlive(buff))
      OBVIOUS
    <3>2. Keep_Alive' = [Keep_Alive EXCEPT ![k] = b] /\ Keep_Alive \in [Conns -> BOOLEAN]
      BY <1>1, <2>1, <3>1 DEF TypeOK
    <3>3. QED
      BY <3>1, <3>2
  <2>3. edge \subseteq edge' /\ edge' \subseteq interest
        /\ (k \in interest /\ Readable(k) => k \in edge')
    BY <1>1, <2>1 DEF Rearmed, TypeOK
  <2>4. TypeOK'
    BY <1>1, <1>2, <2>1, <2>2, <2>3 DEF TypeOK, clientVars, timerVars
  <2>5. Phases'
    BY <1>1, <1>2, <2>1 DEF Phases
  <2>6. Pending \subseteq Pending' \cup {k}
    <3>1. done \in Nat /\ Len(results) \in Nat /\ DOMAIN batch = {}
      BY <1>1, <1>2, ListTypes
    <3>2. Pending = {results[i] : i \in done + 1 .. Len(results)}
      BY <1>2, <3>1 DEF Pending
    <3>3. {results[i] : i \in done + 2 .. Len(results)} \subseteq Pending'
      BY <1>2, <2>1 DEF Pending
    <3>4. \A i \in done + 1 .. Len(results) : i = done + 1 \/ i \in done + 2 .. Len(results)
      BY <3>1
    <3>5. k = results[done + 1]
      BY <1>3 DEF Handled
    <3>6. QED
      BY <3>2, <3>3, <3>4, <3>5
  <2>7. Unread'
    BY <1>1, <1>2, <1>6, <2>3, <2>6 DEF Unread
  <2>8. QED
    BY <1>5, <2>4, <2>5, <2>7 DEF IInv
<1>9. QED
  BY <1>7, <1>8

\* SetTimer: the item of the request before goes, that of this one comes, or the
\* connection is closed.
LEMMA SetTimerInv ==
  ASSUME IInv, SetTimer
  PROVE  IInv'
<1>1. TypeOK /\ Phases /\ Alive /\ Registered /\ Timed /\ Unread
  BY DEF IInv
<1>2. /\ pc = "timer" /\ done < Len(results) /\ batch = << >> /\ Destroyed
      /\ pc' = "read" /\ done' = done + 1 /\ buff' = << >>
      /\ UNCHANGED <<num, clientVars, batch, results, dying, Keep_Alive, down>>
  BY <1>1 DEF SetTimer, Phases
<1>3. PICK k \in Conns : k = Handled /\ k \in Held /\ state[k] = "open"
  BY <1>2, HandledOpen
<1>4. PICK n \in Nat : n = served[k]
  BY <1>1 DEF TypeOK
<1> DEFINE old == [conn |-> k, after |-> n]
           new == [conn |-> k, after |-> n + 1]
<1>5. /\ served' = [served EXCEPT ![k] = n + 1]
      /\ IF Keep_Alive[k]
         THEN items' = (items \ {old}) \cup {new} /\ UNCHANGED epollVars
         ELSE handle_close(k)
  BY <1>3, <1>4 DEF SetTimer, SeparateTimer
<1>6. /\ served' \in [Conns -> Nat] /\ served'[k] = n + 1
      /\ \A c \in Conns : c # k => served'[c] = served[c]
  BY <1>1, <1>5 DEF TypeOK
<1>7. /\ Mmap' \in [Fds -> Conns \cup {None}]
      /\ interest' \subseteq interest /\ edge' \subseteq interest'
      /\ \A fd \in Fds : Mmap'[fd] = Mmap[fd] \/ Mmap'[fd] = None
      /\ \A c \in Conns : c \in interest' <=> \E fd \in Fds : Mmap'[fd] = c
      /\ \A c \in edge : c # k => c \in edge'
      /\ k \in interest' => edge' = edge
      /\ \A i \in items : i # old => i \in items'
      /\ new \in items' \/ \A fd \in Fds : Mmap'[fd] # k
      /\ \A i \in items' : i = new \/ (i \in items /\ i # old)
  <2>1. CASE Keep_Alive[k]
    <3>1. Mmap' = Mmap /\ interest' = interest /\ edge' = edge
          /\ items' = (items \ {old}) \cup {new}
      BY <1>5, <2>1 DEF epollVars
    <3>2. QED
      BY <1>1, <3>1 DEF TypeOK, Registered
  <2>2. CASE ~ Keep_Alive[k]
    <3>1. handle_close(k)
      BY <1>5, <2>2
    <3>2. /\ Mmap' \in [Fds -> Conns \cup {None}]
          /\ interest' \subseteq interest /\ edge' \subseteq interest'
          /\ \A fd \in Fds : Mmap'[fd] = Mmap[fd] \/ Mmap'[fd] = None
          /\ \A c \in Conns : c \in interest' <=> \E fd \in Fds : Mmap'[fd] = c
          /\ \A c \in edge : c # k => c \in edge'
          /\ k \notin interest' /\ items' = SeparateTimer(k)
          /\ \A fd \in Fds : Mmap'[fd] # k
      <4>1. IF TRUE THEN handle_close(k) ELSE UNCHANGED <<items, epollVars>>
        BY <3>1
      <4>2. QED
        BY <1>1, <1>3, <4>1, CloseEffect
    <3>3. items' = items \ {old}
      BY <1>4, <3>2 DEF SeparateTimer
    <3>4. QED
      BY <3>2, <3>3
  <2>3. QED
    BY <2>1, <2>2
<1>8. \A i \in items : i.conn = k => i = old
  BY <1>1, <1>4 DEF TypeOK, Timed, Item
<1>9. new \in Item /\ new.conn = k /\ new.after = n + 1 /\ old.conn = k
  BY DEF Item
<1> HIDE DEF old, new
<1>10. items' \subseteq Item
  BY <1>1, <1>7, <1>9 DEF TypeOK
<1>11. Held' \subseteq Held
  <2>1. ASSUME NEW c \in Held' PROVE c \in Held
    <3>1. c \in Conns /\ \/ \E f \in Fds : Mmap'[f] = c
                         \/ c \in Range(results')
                         \/ \E i \in items' : i.conn = c
                         \/ dying'.conn = c
      BY DEF Held
    <3>2. \/ \E f \in Fds : Mmap[f] = c
          \/ c \in Range(results)
          \/ \E i \in items : i.conn = c
          \/ dying.conn = c
          \/ c = k
      BY <1>2, <1>7, <1>9, <3>1, ConnectionAssumption
    <3>3. QED
      BY <1>3, <3>1, <3>2 DEF Held
  <2>2. QED
    BY <2>1
<1>12. state' \in [Conns -> {"backlog", "open", "gone"}] /\ Alive' /\ Registered'
  <2>1. num' = num /\ \A c \in Conns : served'[c] = served[c] \/ state[c] = "open"
    BY <1>2, <1>3, <1>6
  <2>2. QED
    BY <1>1, <1>2, <1>7, <1>10, <1>11, <2>1, ReleaseEffect
<1>13. /\ done \in Nat /\ Len(results) \in Nat /\ results' = results /\ batch' = batch
       /\ done' \in 0 .. Len(results') /\ buff' \in Seq(STRING) /\ Len(buff') <= BUFF
  BY <1>1, <1>2, ListTypes, ConnectionAssumption
<1>14. TypeOK'
  BY <1>1, <1>2, <1>6, <1>7, <1>10, <1>12, <1>13 DEF TypeOK, clientVars
<1>15. Phases'
  BY <1>2 DEF Phases
<1>16. Timed'
  <2>1. ASSUME NEW i \in items' PROVE i.after = served'[i.conn]
    <3>1. CASE i = new
      BY <1>6, <1>9, <3>1
    <3>2. CASE i \in items /\ i # old
      <4>1. i.conn \in Conns /\ i.conn # k /\ i.after = served[i.conn]
        BY <1>1, <1>8, <3>2 DEF TypeOK, Timed, Item
      <4>2. QED
        BY <1>6, <4>1
    <3>3. QED
      BY <1>7, <3>1, <3>2
  <2>2. ASSUME NEW fd \in Fds, Mmap'[fd] # None, served'[Mmap'[fd]] > 0
        PROVE  \E i \in items' \cup {dying'} : i.conn = Mmap'[fd]
    <3>1. PICK c \in Conns : c = Mmap'[fd] /\ c = Mmap[fd]
      BY <1>7, <2>2
    <3>2. CASE c = k
      BY <1>7, <1>9, <3>1, <3>2
    <3>3. CASE c # k
      <4>1. served[c] > 0 /\ Mmap[fd] # None
        BY <1>6, <2>2, <3>1, <3>3
      <4>2. PICK i \in items \cup {dying} : i.conn = c
        BY <1>1, <3>1, <4>1 DEF Timed
      <4>3. i \in items' \cup {dying'}
        BY <1>2, <1>7, <1>9, <3>3, <4>2
      <4>4. QED
        BY <3>1, <4>2, <4>3
    <3>4. QED
      BY <3>2, <3>3
  <2>3. QED
    BY <2>1, <2>2 DEF Timed
<1>17. Unread'
  <2>1. Pending' = Pending
    <3>1. DOMAIN batch = {} /\ done + 2 = done' + 1
      BY <1>2, <1>13
    <3>2. QED
      BY <1>2, <1>13, <3>1 DEF Pending
  <2>2. \A c : Readable(c)' <=> Readable(c)
    BY <1>2 DEF Readable, clientVars
  <2>3. QED
    BY <1>1, <1>7, <2>1, <2>2 DEF Unread
<1>18. QED
  BY <1>12, <1>14, <1>15, <1>16, <1>17 DEF IInv

\* An item expires: its reference passes to the timer thread.
LEMMA ExpireInv ==
  ASSUME IInv, NEW i \in items, Expire(i)
  PROVE  IInv'
<1>1. TypeOK /\ Phases /\ Alive /\ Registered /\ Timed /\ Unread
  BY DEF IInv
<1>2. /\ dying = Idle /\ items' = items \ {i} /\ dying' = i /\ i \in Item
      /\ UNCHANGED <<state, num, clientVars, epollVars, loopVars, Keep_Alive, served, down>>
  BY <1>1 DEF Expire, TypeOK
<1>3. TypeOK'
  BY <1>1, <1>2 DEF TypeOK, clientVars, epollVars, loopVars
<1>4. Held' = Held
  <2>1. Mmap' = Mmap /\ results' = results
    BY <1>2 DEF epollVars, loopVars
  <2>2. dying.conn \notin Conns
    BY <1>2, ConnectionAssumption DEF Idle
  <2>3. \A c \in Conns : (\E j \in items : j.conn = c) \/ dying.conn = c
                         <=> (\E j \in items' : j.conn = c) \/ dying'.conn = c
    BY <1>2, <2>2
  <2>4. QED
    BY <2>1, <2>3 DEF Held
<1>5. Pending' = Pending
  BY <1>2 DEF Pending, epollVars, loopVars
<1>6. Phases' /\ Alive' /\ Registered'
  BY <1>1, <1>2, <1>4 DEF Phases, Alive, Registered, epollVars, loopVars
<1>7. Timed'
  <2>1. \A j \in items' : j.after = served'[j.conn]
    BY <1>1, <1>2 DEF Timed
  <2>2. ASSUME NEW fd \in Fds, Mmap'[fd] # None, served'[Mmap'[fd]] > 0
        PROVE  \E j \in items' \cup {dying'} : j.conn = Mmap'[fd]
    <3>1. Mmap' = Mmap /\ served' = served /\ Mmap[fd] \in Conns
      BY <1>1, <1>2, <2>2, ListTypes DEF epollVars
    <3>2. PICK j \in items \cup {dying} : j.conn = Mmap[fd]
      BY <1>1, <2>2, <3>1 DEF Timed
    <3>3. j # dying
      BY <1>2, <3>1, <3>2, ConnectionAssumption DEF Idle
    <3>4. QED
      BY <1>2, <3>1, <3>2, <3>3
  <2>3. QED
    BY <2>1, <2>2 DEF Timed
<1>8. Unread'
  BY <1>1, <1>2, <1>5 DEF Unread, Readable, clientVars, epollVars
<1>9. QED
  BY <1>3, <1>6, <1>7, <1>8 DEF IInv

\* ~TimeRoundItem: Close erases the entry of its own channel, if it is there.
LEMMA TimerCloseInv ==
  ASSUME IInv, TimerClose
  PROVE  IInv'
<1>1. TypeOK /\ Phases /\ Alive /\ Registered /\ Timed /\ Unread
  BY DEF IInv
<1>2. /\ dying # Idle /\ Epoll_Del(num[dying.conn]) /\ dying' = Idle /\ Destroyed
      /\ UNCHANGED <<num, clientVars, loopVars, items, Keep_Alive, served, down>>
  BY DEF TimerClose
<1>3. PICK d \in Conns : d = dying.conn /\ state[d] = "open"
  <2>1. dying.conn \in Conns
    BY <1>1, <1>2 DEF TypeOK, Item
  <2>2. QED
    BY <1>1, <2>1 DEF Alive, Held
<1>4. /\ Mmap' \in [Fds -> Conns \cup {None}]
      /\ interest' \subseteq Conns /\ edge' \subseteq interest'
      /\ interest' = interest \ {d} /\ edge' = edge \ {d}
      /\ \A fd \in Fds : Mmap'[fd] = IF Mmap[fd] = d THEN None ELSE Mmap[fd]
  BY <1>1, <1>2, <1>3, DelEffect
<1>5. None \notin Conns /\ items' = items /\ items \subseteq Item /\ results' = results
      /\ batch' = batch /\ done' = done /\ pc' = pc /\ served' = served /\ num' = num
  BY <1>1, <1>2, ConnectionAssumption DEF TypeOK, loopVars
<1>6. Held' \subseteq Held
  <2>1. ASSUME NEW c \in Held' PROVE c \in Held
    <3>1. c \in Conns /\ \/ \E f \in Fds : Mmap'[f] = c
                         \/ c \in Range(results)
                         \/ \E i \in items : i.conn = c
                         \/ c = None
      BY <1>2, <1>5 DEF Held, Idle
    <3>2. QED
      BY <1>4, <1>5, <3>1 DEF Held
  <2>2. QED
    BY <2>1
<1>7. state' \in [Conns -> {"backlog", "open", "gone"}] /\ Alive' /\ Registered'
  <2>1. \A fd \in Fds : Mmap'[fd] = Mmap[fd] \/ Mmap'[fd] = None
    BY <1>4
  <2>2. \A c \in Conns : c \in interest' <=> \E fd \in Fds : Mmap'[fd] = c
    BY <1>1, <1>4, <1>5 DEF Registered
  <2>3. QED
    BY <1>1, <1>2, <1>4, <1>5, <1>6, <2>1, <2>2, ReleaseEffect
<1>8. TypeOK'
  BY <1>1, <1>2, <1>4, <1>5, <1>7 DEF TypeOK, clientVars, loopVars
<1>9. Phases'
  BY <1>1, <1>5 DEF Phases
<1>10. Timed'
  <2>1. ASSUME NEW fd \in Fds, Mmap'[fd] # None, served'[Mmap'[fd]] > 0
        PROVE  \E i \in items' \cup {dying'} : i.conn = Mmap'[fd]
    <3>1. Mmap'[fd] = Mmap[fd] /\ Mmap[fd] # d
      BY <1>4, <2>1
    <3>2. PICK i \in items \cup {dying} : i.conn = Mmap[fd]
      BY <1>1, <1>5, <2>1, <3>1 DEF Timed
    <3>3. i \in items'
      BY <1>3, <1>5, <3>1, <3>2
    <3>4. QED
      BY <3>1, <3>2, <3>3
  <2>2. QED
    BY <1>1, <1>5, <2>1 DEF Timed
<1>11. Unread'
  <2>1. ASSUME NEW c \in interest', Readable(c)'
        PROVE  c \in edge' \cup Pending'
    <3>1. c \in Conns /\ c \in interest /\ c # d /\ Readable(c)
      BY <1>2, <1>4, <2>1 DEF Readable, clientVars
    <3>2. c \in edge \cup Pending
      BY <1>1, <3>1 DEF Unread
    <3>3. CASE c \in Pending
      <4>1. CASE \E i \in DOMAIN batch : c = Mmap[batch[i]]
        <5>1. PICK i \in DOMAIN batch : c = Mmap[batch[i]]
          BY <4>1
        <5>2. batch[i] \in Fds
          BY <1>1, <5>1, ListTypes
        <5>3. c = Mmap'[batch'[i]] /\ i \in DOMAIN batch'
          BY <1>4, <1>5, <3>1, <5>1, <5>2
        <5>4. QED
          BY <5>3 DEF Pending
      <4>2. CASE ~ \E i \in DOMAIN batch : c = Mmap[batch[i]]
        BY <1>5, <3>3, <4>2 DEF Pending
      <4>3. QED
        BY <4>1, <4>2
    <3>4. QED
      BY <1>4, <3>1, <3>2, <3>3
  <2>2. QED
    BY <2>1 DEF Unread
<1>12. QED
  BY <1>7, <1>8, <1>9, <1>10, <1>11 DEF IInv

-----------------------------------------------------------------------------

\* Every step of the clients, the loop and the timer thread keeps IInv.
LEMMA NextInv ==
  IInv /\ [Next]_vars => IInv'
<1> SUFFICES ASSUME IInv, [Next]_vars PROVE IInv'
  OBVIOUS
<1>1. CASE UNCHANGED vars
  BY <1>1 DEF vars, clientVars, epollVars, loopVars, timerVars, IInv, TypeOK, Phases, Alive,
     Held, Registered, Timed, Unread, Pending, Readable
<1>2. ASSUME NEW k \in Conns,
             \/ \E piece \in Pieces : Send(k, piece)
             \/ Hangup(k, "eof") \/ Hangup(k, "reset")
             \/ \E fd \in Fds : Add_New_Connect(k, fd)
      PROVE  IInv'
  BY <1>2, ClientInv, AddInv
<1>3. CASE LoopStep
  BY <1>3, PollInv, FindInv, TakeInv, BatchDoneInv, ReadInv, HttpInv, SetTimerInv DEF LoopStep
<1>4. CASE TimerStep
  BY <1>4, ExpireInv, TimerCloseInv DEF TimerStep
<1>5. QED
  BY <1>1, <1>2, <1>3, <1>4 DEF Next

\* IInv is an invariant.
LEMMA Invariant ==
  Spec => []IInv
BY InitInv, NextInv, PTL DEF Spec

\* Types: descriptors, lists, buffers and items stay what they are, whatever the
\* sizes of the requests and of the buffer.
THEOREM TypeCorrect ==
  Spec => []TypeOK
<1>1. IInv => TypeOK
  BY DEF IInv
<1>2. QED
  BY Invariant, <1>1, PTL

\* The destructor of an item, on the timer thread, never erases another
\* connection's entry of Mmap, however descriptors are given out again, and an
\* entry of Mmap is a live channel under its own number.
THEOREM MmapSoundCorrect ==
  Spec => []MmapSound
BY Invariant, InvMeans, PTL

\* Every step keeps the order of a connection's items.
LEMMA StepAged ==
  IInv /\ Aged /\ [Next]_vars => Aged'
<1> SUFFICES ASSUME IInv, Aged, [Next]_vars PROVE Aged'
  OBVIOUS
<1>1. TypeOK /\ Phases /\ Timed
  BY DEF IInv
<1>2. /\ items \subseteq Item /\ dying \in Item \cup {Idle} /\ served \in [Conns -> Nat]
      /\ \A i \in items : i.after = served[i.conn]
  BY <1>1 DEF TypeOK, Timed
<1>3. CASE dying' = dying /\ items' \subseteq items /\ served' = served
  BY <1>3 DEF Aged
<1>4. CASE dying' = Idle
  BY <1>4 DEF Aged
<1>5. ASSUME NEW i \in items, Expire(i) PROVE Aged'
  <2>1. dying' = i /\ items' = items \ {i} /\ served' = served
    BY <1>5 DEF Expire
  <2>2. i \in Item /\ i.conn \in Conns /\ i.after = served[i.conn] /\ served[i.conn] \in Nat
    BY <1>2 DEF Item
  <2>3. ASSUME NEW j \in items', j.conn = i.conn PROVE FALSE
    <3>1. j \in Item /\ j # i /\ j.after = i.after
      BY <1>2, <2>1, <2>2, <2>3
    <3>2. QED
      BY <2>2, <2>3, <3>1 DEF Item
  <2>4. QED
    BY <2>1, <2>2, <2>3 DEF Aged
<1>6. CASE SetTimer
  <2>1. PICK k \in Conns : k = Handled
    <3>1. done < Len(results)
      BY <1>1, <1>6 DEF SetTimer, Phases
    <3>2. QED
      BY <3>1, HandledOpen
  <2>2. /\ served' = [served EXCEPT ![k] = served[k] + 1] /\ dying' = dying
        /\ items' \subseteq items \cup {[conn |-> k, after |-> served[k] + 1]}
    BY <1>6, <2>1 DEF SetTimer, SeparateTimer, handle_close
  <2>3. SUFFICES ASSUME dying # Idle
                 PROVE  /\ dying.after <= served'[dying.conn]
                        /\ \A i \in items' : i.conn = dying.conn => dying.after < i.after
    BY <2>2 DEF Aged
  <2>4. dying \in Item /\ dying.conn \in Conns /\ dying.after \in Nat
    BY <1>2, <2>3 DEF Item
  <2>5. /\ dying.after <= served[dying.conn]
        /\ \A i \in items : i.conn = dying.conn => dying.after < i.after
    BY <2>3 DEF Aged
  <2>6. dying.after <= served'[dying.conn]
    <3>1. served'[dying.conn] \in {served[dying.conn], served[dying.conn] + 1}
      BY <1>2, <2>2, <2>4
    <3>2. served[dying.conn] \in Nat
      BY <1>2, <2>4
    <3>3. QED
      BY <2>4, <2>5, <3>1, <3>2
  <2>7. ASSUME NEW i \in items', i.conn = dying.conn PROVE dying.after < i.after
    <3>1. CASE i \in items
      BY <2>5, <2>7, <3>1
    <3>2. CASE i = [conn |-> k, after |-> served[k] + 1]
      <4>1. i.after = served[dying.conn] + 1 /\ served[dying.conn] \in Nat
        BY <1>2, <2>4, <2>7, <3>2
      <4>2. QED
        BY <2>4, <2>5, <4>1
    <3>3. QED
      BY <2>2, <3>1, <3>2
  <2>8. QED
    BY <2>6, <2>7
<1>7. CASE HandleRead
  BY <1>3, <1>7 DEF HandleRead, handle_close, SeparateTimer
<1>8. CASE TimerClose
  BY <1>4, <1>8 DEF TimerClose
<1>9. CASE Poll \/ PollFind \/ PollTake \/ BatchDone \/ handle_http \/ UNCHANGED vars
  BY <1>3, <1>9 DEF Poll, PollFind, PollTake, BatchDone, handle_http, vars, timerVars
<1>10. ASSUME NEW k \in Conns,
             \/ \E piece \in Pieces : Send(k, piece)
             \/ Hangup(k, "eof") \/ Hangup(k, "reset")
             \/ \E fd \in Fds : Add_New_Connect(k, fd)
      PROVE  Aged'
  BY <1>3, <1>10 DEF Send, Hangup, Add_New_Connect, timerVars
<1>11. QED
  BY <1>5, <1>6, <1>7, <1>8, <1>9, <1>10 DEF Next, LoopStep, TimerStep

\* The item on the wheel is that of its connection's last request and the only
\* one there; an item in its destructor, which can be of an earlier request, is
\* older than it.  A served connection that is not being handled has one of them.
THEOREM OneTimerCorrect ==
  Spec => []OneTimer
<1>1. Init => Aged
  BY DEF Init, Aged
<1>2. Spec => []Aged
  BY <1>1, Invariant, StepAged, PTL DEF Spec
<1>3. IInv /\ Aged => OneTimer
  BY InvMeans
<1>4. QED
  BY <1>2, <1>3, Invariant, PTL

\* The loop never waits in epoll_wait while a registered connection has data or
\* an end of stream that nobody will report again.
THEOREM NothingUnreadCorrect ==
  Spec => []NothingUnread
BY Invariant, InvMeans, PTL

-----------------------------------------------------------------------------
(* What no step does: the two threads erase and close, each on its own.        *)

\* From the moment its handler reads until the timer is set, a connection keeps
\* its descriptor, and no other has its number, whatever the timer thread closes
\* in between: handle_event never reads from, writes to or rearms a descriptor
\* that the kernel has given to another client.
OwnDescriptor ==
  pc \in {"read", "http", "timer"} /\ done < Len(results) =>
    /\ state[Handled] = "open" /\ num[Handled] \in Fds
    /\ \A k \in Conns : state[k] = "open" /\ num[k] = num[Handled] => k = Handled

\* An entry of Mmap is replaced by nothing but the empty one, and only by the
\* thread that closes its channel: the loop erases that of the channel it
\* handles, the timer thread that of the item it destroys.
Erases ==
  \A fd \in Fds : Mmap[fd] # None /\ Mmap'[fd] # Mmap[fd] =>
    /\ Mmap'[fd] = None
    /\ \/ dying # Idle /\ dying' = Idle /\ Mmap[fd] = dying.conn
       \/ pc \in {"read", "timer"} /\ done < Len(results) /\ Mmap[fd] = Handled

ErasesItsOwn == [][Erases]_vars

\* When a descriptor is closed nothing is left of the connection: no entry, no
\* registration, no result to be handled and no item whose destructor would act
\* on the number later.
Closes ==
  \A k \in Conns : state[k] = "open" /\ state'[k] # "open" =>
    /\ state'[k] = "gone" /\ k \notin interest' /\ k \notin Range(Mmap')
    /\ k \notin Range(results') /\ \A i \in items' \cup {dying'} : i.conn # k

ClosesReleased == [][Closes]_vars

\* A step erases entries of the channel it closes only.
LEMMA StepErases ==
  IInv /\ [Next]_vars => Erases
<1> SUFFICES ASSUME IInv, [Next]_vars PROVE Erases
  OBVIOUS
<1>1. TypeOK /\ Phases /\ Alive /\ Registered
  BY DEF IInv
<1>2. CASE UNCHANGED Mmap
  BY <1>2 DEF Erases
<1>3. ASSUME NEW k \in Conns, NEW fd \in Fds, Add_New_Connect(k, fd) PROVE Erases
  BY <1>1, <1>3 DEF Add_New_Connect, epollVars, TypeOK, Erases
<1>4. ASSUME NEW close \in BOOLEAN, done < Len(results), pc \in {"read", "timer"},
             IF close THEN handle_close(Handled) ELSE UNCHANGED <<items, epollVars>>
      PROVE  Erases
  <2>1. PICK k \in Conns : k = Handled /\ state[k] = "open"
    BY <1>4, HandledOpen
  <2>2. \A fd \in Fds : /\ Mmap'[fd] = Mmap[fd] \/ Mmap'[fd] = None
                        /\ Mmap'[fd] = Mmap[fd] \/ Mmap[fd] = k
    BY <1>1, <1>4, <2>1, CloseEffect
  <2>3. QED
    BY <1>4, <2>1, <2>2 DEF Erases
<1>5. CASE HandleRead
  <2>1. PICK close \in BOOLEAN : close = (ReadSize(Handled) < BUFF /\ peer[Handled] # "open")
    OBVIOUS
  <2>2. /\ done < Len(results) /\ pc = "read"
        /\ IF close THEN handle_close(Handled) ELSE UNCHANGED <<items, epollVars>>
    BY <1>5, <2>1 DEF HandleRead
  <2>3. QED
    BY <1>4, <2>2
<1>6. CASE SetTimer
  <2>1. done < Len(results) /\ pc = "timer"
    BY <1>1, <1>6 DEF SetTimer, Phases
  <2>2. CASE Keep_Alive[Handled]
    BY <1>2, <1>6, <2>2 DEF SetTimer, epollVars
  <2>3. CASE ~ Keep_Alive[Handled]
    BY <1>4, <1>6, <2>1, <2>3 DEF SetTimer
  <2>4. QED
    BY <2>2, <2>3
<1>7. CASE TimerClose
  <2>1. dying # Idle /\ dying' = Idle /\ Epoll_Del(num[dying.conn])
    BY <1>7 DEF TimerClose
  <2>2. PICK d \in Conns : d = dying.conn /\ state[d] = "open"
    <3>1. dying.conn \in Conns
      BY <1>1, <2>1 DEF TypeOK, Item
    <3>2. QED
      BY <1>1, <3>1 DEF Alive, Held
  <2>3. \A fd \in Fds : Mmap'[fd] = IF Mmap[fd] = d THEN None ELSE Mmap[fd]
    BY <1>1, <2>1, <2>2, DelEffect
  <2>4. QED
    BY <2>1, <2>2, <2>3 DEF Erases
<1>8. CASE Poll \/ PollFind \/ PollTake \/ BatchDone \/ handle_http
  BY <1>2, <1>8 DEF Poll, PollFind, PollTake, BatchDone, handle_http, epollVars
<1>9. ASSUME NEW k \in Conns,
             \/ \E piece \in Pieces : Send(k, piece)
             \/ Hangup(k, "eof") \/ Hangup(k, "reset")
      PROVE  Erases
  BY <1>2, <1>9 DEF Send, Hangup
<1>10. ASSUME NEW i \in items, Expire(i) PROVE Erases
  BY <1>2, <1>10 DEF Expire, epollVars
<1>11. CASE UNCHANGED vars
  BY <1>2, <1>11 DEF vars, epollVars
<1>12. QED
  BY <1>3, <1>5, <1>6, <1>7, <1>8, <1>9, <1>10, <1>11 DEF Next, LoopStep, TimerStep

\* A step closes what nobody refers to any more.
LEMMA StepCloses ==
  IInv /\ [Next]_vars => Closes
<1> SUFFICES ASSUME IInv, [Next]_vars, NEW k \in Conns, state[k] = "open", state'[k] # "open"
             PROVE  /\ state'[k] = "gone" /\ k \notin interest' /\ k \notin Range(Mmap')
                    /\ k \notin Range(results') /\ \A i \in items' \cup {dying'} : i.conn # k
  BY DEF Closes
<1>0. TypeOK' /\ Alive' /\ Registered'
  BY NextInv DEF IInv
<1>1. CASE Destroyed
  <2>1. state'[k] = "gone"
    BY <1>1 DEF Destroyed
  <2>2. k \notin Held' /\ ~ \E fd \in Fds : Mmap'[fd] = k
    BY <1>0, <2>1 DEF Alive, Held
  <2>3. k \notin interest' /\ DOMAIN Mmap' = Fds
    BY <1>0, <2>2 DEF Registered, TypeOK
  <2>4. QED
    BY <2>1, <2>2, <2>3 DEF Held, Range
<1>2. CASE UNCHANGED state
  BY <1>2
<1>3. ASSUME NEW c \in Conns, NEW fd \in Fds, Add_New_Connect(c, fd) PROVE FALSE
  BY <1>3 DEF Add_New_Connect, IInv, TypeOK
<1>4. QED
  BY <1>1, <1>2, <1>3 DEF Next, LoopStep, TimerStep, vars, Poll, PollFind, PollTake, BatchDone,
     HandleRead, handle_http, SetTimer, TimerClose, Expire, Send, Hangup

\* The handler's descriptor is its own.
THEOREM OwnDescriptorCorrect ==
  Spec => []OwnDescriptor
<1>1. IInv => OwnDescriptor
  <2>1. SUFFICES ASSUME IInv, done < Len(results)
                 PROVE  /\ state[Handled] = "open" /\ num[Handled] \in Fds
                        /\ \A k \in Conns : state[k] = "open" /\ num[k] = num[Handled] => k = Handled
    BY DEF OwnDescriptor
  <2>2. PICK h \in Conns : h = Handled /\ state[h] = "open"
    BY <2>1, HandledOpen
  <2>3. QED
    BY <2>1, <2>2 DEF IInv, Alive, Registered
<1>2. QED
  BY <1>1, Invariant, PTL

\* Epoll_Del, in the loop or in the timer thread, erases no other connection's
\* entry, although descriptors are given out again.
THEOREM ErasesItsOwnCorrect ==
  Spec => ErasesItsOwn
<1>1. IInv /\ [Next]_vars => [Erases]_vars
  BY StepErases
<1>2. QED
  BY <1>1, Invariant, PTL DEF Spec, ErasesItsOwn

\* A descriptor is closed when Mmap, the epoll, the loop and the timers have all
\* let go of it.
THEOREM ClosesReleasedCorrect ==
  Spec => ClosesReleased
<1>1. IInv /\ [Next]_vars => [Closes]_vars
  BY StepCloses
<1>2. QED
  BY <1>1, Invariant, PTL DEF Spec, ClosesReleased

-----------------------------------------------------------------------------
(* The parser reads what a client writes.  Render puts every header line into  *)
(* six tokens, so line m of the head begins at token 6 * m + 2; the scans      *)
(* are followed from there, and the lines by induction from the last one.      *)

\* A scan stops where it is, or goes on at the next token.
LEMMA UntilSteps ==
  ASSUME NEW text, Len(text) \in Nat, NEW D
  PROVE  \A i \in Nat : Until(text, D)[i] = IF i > Len(text) \/ text[i] \in D
                                            THEN i ELSE Until(text, D)[i + 1]
<1> DEFINE Stop(i) == i > Len(text) \/ text[i] \in D
           From(i) == {j \in Nat : j >= i /\ Stop(j)}
           Def(f) == f = [i \in Nat |-> IF Stop(i) THEN i ELSE f[i + 1]]
           least == [i \in Nat |-> CHOOSE m \in From(i) : \A j \in From(i) : m <= j]
<1>1. ASSUME NEW i \in Nat, Stop(i) PROVE least[i] = i
  <2>1. i \in From(i) /\ \A j \in From(i) : i <= j
    BY <1>1
  <2>2. \A m \in From(i) : (\A j \in From(i) : m <= j) => m = i
    BY <2>1
  <2> HIDE DEF From
  <2>3. QED
    BY <2>1, <2>2
<1>2. ASSUME NEW i \in Nat, ~ Stop(i) PROVE least[i] = least[i + 1]
  <2>1. \A j \in Nat : Stop(j) => (j >= i <=> j >= i + 1)
    <3> HIDE DEF Stop
    <3>1. QED
      BY <1>2
  <2>2. From(i) = From(i + 1)
    BY <2>1
  <2> HIDE DEF From
  <2>3. QED
    BY <2>2
<1>3. Def(least)
  <2> HIDE DEF From
  <2>1. least = [i \in Nat |-> least[i]]
    OBVIOUS
  <2> HIDE DEF least, Stop
  <2>2. \A i \in Nat : least[i] = IF Stop(i) THEN i ELSE least[i + 1]
    BY <1>1, <1>2
  <2>3. QED
    BY <2>1, <2>2
<1>4. Def(Until(text, D))
  <2> HIDE DEF least
  <2>1. Until(text, D) = CHOOSE f : Def(f)
    BY DEF Until
  <2> HIDE DEF Def
  <2>2. QED
    BY <1>3, <2>1
<1> HIDE DEF least, Stop
<1>5. \A i \in Nat : Until(text, D)[i] = IF Stop(i) THEN i ELSE Until(text, D)[i + 1]
  <2>1. PICK f : f = Until(text, D)
    OBVIOUS
  <2>2. f = [i \in Nat |-> IF Stop(i) THEN i ELSE f[i + 1]]
    BY <1>4, <2>1
  <2>3. \A i \in Nat : f[i] = IF Stop(i) THEN i ELSE f[i + 1]
    BY <2>2
  <2>4. QED
    BY <2>1, <2>3
<1>6. QED
  BY <1>5 DEF Stop

\* A scan never ends before the place where it began.
LEMMA UntilFinds ==
  ASSUME NEW text, Len(text) \in Nat, NEW D, NEW i \in Nat
  PROVE  Until(text, D)[i] \in Nat /\ Until(text, D)[i] >= i
<1> DEFINE U(j) == Until(text, D)[j]
           Near == {n \in Nat : \A j \in Nat : j + n > Len(text) => U(j) \in Nat /\ U(j) >= j}
<1>1. \A j \in Nat : U(j) = IF j > Len(text) \/ text[j] \in D THEN j ELSE U(j + 1)
  BY UntilSteps
<1> HIDE DEF U
<1>2. 0 \in Near
  BY <1>1
<1>3. ASSUME NEW n \in Nat, n \in Near PROVE n + 1 \in Near
  <2>1. ASSUME NEW j \in Nat, j + (n + 1) > Len(text) PROVE U(j) \in Nat /\ U(j) >= j
    <3>1. U(j + 1) \in Nat /\ U(j + 1) >= j + 1
      BY <1>3, <2>1
    <3>2. QED
      BY <1>1, <3>1
  <2>2. QED
    BY <2>1
<1>4. Nat \subseteq Near
  <2> HIDE DEF Near
  <2>1. QED
    BY <1>2, <1>3, NatInductionSet
<1>5. Len(text) + 1 \in Near
  <2> HIDE DEF Near
  <2>1. QED
    BY <1>4
<1>6. U(i) \in Nat /\ U(i) >= i
  BY <1>5
<1>7. QED
  BY <1>6 DEF U

\* A scan that stops at the next token.
LEMMA UntilNext ==
  ASSUME NEW text, Len(text) \in Nat, NEW D, NEW i \in Nat, i < Len(text),
         text[i] \notin D, text[i + 1] \in D
  PROVE  Until(text, D)[i] = i + 1
<1>1. \A j \in Nat : Until(text, D)[j] = IF j > Len(text) \/ text[j] \in D
                                         THEN j ELSE Until(text, D)[j + 1]
  BY UntilSteps
<1>2. ~ (i > Len(text)) /\ i + 1 \in Nat
  OBVIOUS
<1>3. Until(text, D)[i] = Until(text, D)[i + 1]
  BY <1>1, <1>2
<1>4. Until(text, D)[i + 1] = i + 1
  BY <1>1, <1>2
<1>5. QED
  BY <1>3, <1>4

\* The text between two neighbouring delimiters.
LEMMA OneToken ==
  ASSUME NEW S, NEW s \in Seq(S), NEW i \in 1 .. Len(s)
  PROVE  SubSeq(s, i, i) = <<s[i]>>
<1>1. /\ SubSeq(s, i, i) \in Seq(S) /\ Len(SubSeq(s, i, i)) = 1
      /\ SubSeq(s, i, i)[1] = s[i]
  BY SubSeqProperties
<1>2. PICK t \in Seq(S) : t = SubSeq(s, i, i) /\ Len(t) = 1 /\ t[1] = s[i]
  BY <1>1
<1>3. <<s[i]>> \in Seq(S) /\ Len(<<s[i]>>) = 1 /\ <<s[i]>>[1] = s[i]
  OBVIOUS
<1>4. \A j \in 1 .. Len(t) : t[j] = <<s[i]>>[j]
  BY <1>2, <1>3
<1>5. QED
  BY <1>2, <1>3, <1>4, SeqEqual

\* One line of the head, and the lines after it.
LEMMA HeadSteps ==
  ASSUME NEW text, Len(text) \in Nat, NEW i \in Nat
  PROVE  LET colon == Until(text, {COLON})[i]
             eol   == Until(text, {CR, LF})[ValueStart(colon)]
         IN  handle_request_head(text, i) =
               IF i > Len(text) \/ text[i] \in {CR, LF} THEN << >>
               ELSE Under(SubSeq(text, i, colon - 1), SubSeq(text, ValueStart(colon), eol - 1),
                          handle_request_head(text, eol + 2))
<1> DEFINE Stop(j) == j > Len(text) \/ text[j] \in {CR, LF}
           colon(j) == Until(text, {COLON})[j]
           eol(j) == Until(text, {CR, LF})[ValueStart(colon(j))]
           Body(j, rest) == Under(SubSeq(text, j, colon(j) - 1),
                                  SubSeq(text, ValueStart(colon(j)), eol(j) - 1), rest)
           Def(S, f) == f = [j \in S |-> IF Stop(j) THEN << >> ELSE Body(j, f[eol(j) + 2])]
           After(n) == {j \in Nat : j + n > Len(text)}
           Has == {n \in Nat : \E f : Def(After(n), f)}
<1>1. \A j \in Nat : eol(j) + 2 \in Nat /\ eol(j) + 2 >= j + 1
  <2>1. ASSUME NEW j \in Nat PROVE eol(j) + 2 \in Nat /\ eol(j) + 2 >= j + 1
    <3>1. colon(j) \in Nat /\ colon(j) >= j
      BY UntilFinds
    <3>2. ValueStart(colon(j)) \in Nat /\ ValueStart(colon(j)) >= j
      BY <3>1 DEF ValueStart
    <3>3. eol(j) \in Nat /\ eol(j) >= ValueStart(colon(j))
      BY <3>2, UntilFinds
    <3>4. QED
      BY <3>2, <3>3
  <2>2. QED
    BY <2>1
<1>2. \A j \in After(0) : Stop(j)
  OBVIOUS
<1> HIDE DEF Stop, eol, Body
<1>3. 0 \in Has
  <2> HIDE DEF After
  <2>1. Def(After(0), [j \in After(0) |-> << >>])
    BY <1>2
  <2>2. QED
    BY <2>1
<1>4. ASSUME NEW n \in Nat, n \in Has PROVE n + 1 \in Has
  <2>1. PICK f : Def(After(n), f)
    BY <1>4
  <2> DEFINE g == [j \in After(n + 1) |->
                     IF j \in After(n) THEN f[j]
                     ELSE IF Stop(j) THEN << >> ELSE Body(j, f[eol(j) + 2])]
  <2>2. ASSUME NEW j \in After(n + 1) PROVE eol(j) + 2 \in After(n)
    <3>1. j \in Nat /\ j + (n + 1) > Len(text)
      OBVIOUS
    <3>2. PICK e \in Nat : e = eol(j) + 2 /\ e >= j + 1
      BY <1>1, <3>1
    <3>3. e + n > Len(text)
      BY <3>1, <3>2
    <3>4. QED
      BY <3>2, <3>3
  <2>3. After(n) \subseteq After(n + 1)
    OBVIOUS
  <2> HIDE DEF After
  <2>4. \A j \in After(n) : f[j] = IF Stop(j) THEN << >> ELSE Body(j, f[eol(j) + 2])
    BY <2>1
  <2>5. \A j \in After(n) : g[j] = f[j]
    BY <2>3
  <2>6. ASSUME NEW j \in After(n + 1)
        PROVE  g[j] = IF Stop(j) THEN << >> ELSE Body(j, g[eol(j) + 2])
    <3>1. g[eol(j) + 2] = f[eol(j) + 2]
      BY <2>2, <2>5
    <3>2. g[j] = IF Stop(j) THEN << >> ELSE Body(j, f[eol(j) + 2])
      BY <2>4, <2>5
    <3> HIDE DEF g
    <3>3. QED
      BY <3>1, <3>2
  <2>7. g = [j \in After(n + 1) |-> g[j]]
    OBVIOUS
  <2> HIDE DEF g
  <2>8. Def(After(n + 1), g)
    BY <2>6, <2>7
  <2> HIDE DEF Def
  <2>9. QED
    BY <2>8
<1>5. \E f : Def(Nat, f)
  <2>1. Nat \subseteq Has
    <3> HIDE DEF Has
    <3>1. QED
      BY <1>3, <1>4, NatInductionSet
  <2>2. After(Len(text) + 1) = Nat
    OBVIOUS
  <2> HIDE DEF After, Def
  <2>3. Len(text) + 1 \in Has
    BY <2>1
  <2>4. QED
    BY <2>2, <2>3
<1>6. PICK h : h = CHOOSE f : Def(Nat, f)
  OBVIOUS
<1>7. Def(Nat, h)
  <2> HIDE DEF Def
  <2>1. QED
    BY <1>5, <1>6
<1>8. \A j \in Nat : handle_request_head(text, j) = h[j]
  BY <1>6 DEF handle_request_head, Stop, Body, eol
<1>9. h[i] = IF Stop(i) THEN << >> ELSE Body(i, h[eol(i) + 2])
  BY <1>7
<1>10. handle_request_head(text, i) = IF Stop(i) THEN << >>
                                      ELSE Body(i, handle_request_head(text, eol(i) + 2))
  <2>1. h[i] = handle_request_head(text, i) /\ h[eol(i) + 2] = handle_request_head(text, eol(i) + 2)
    BY <1>1, <1>8
  <2>2. QED
    BY <1>9, <2>1
<1>11. QED
  BY <1>10 DEF Stop, Body, eol

\* Where the elements of two lists are when they are joined.
LEMMA JoinPlaces ==
  ASSUME NEW S, NEW s \in Seq(S), NEW t \in Seq(S)
  PROVE  /\ s \o t \in Seq(S) /\ Len(s \o t) = Len(s) + Len(t)
         /\ Len(s) \in Nat /\ Len(t) \in Nat
         /\ \A p \in 1 .. Len(s) : (s \o t)[p] = s[p]
         /\ \A p \in 1 .. Len(t) : (s \o t)[Len(s) + p] = t[p]
<1>1. /\ s \o t \in Seq(S) /\ Len(s \o t) = Len(s) + Len(t)
      /\ Len(s) \in Nat /\ Len(t) \in Nat
      /\ \A i \in 1 .. Len(s) + Len(t) : (s \o t)[i] = IF i <= Len(s) THEN s[i] ELSE t[i - Len(s)]
  BY ConcatProperties
<1>2. ASSUME NEW p \in 1 .. Len(t) PROVE (s \o t)[Len(s) + p] = t[p]
  <2>1. PICK n \in Nat : n = Len(s) /\ p \in Nat /\ n + p \in 1 .. Len(s) + Len(t) /\ ~ (n + p <= n)
                         /\ (n + p) - n = p
    BY <1>1
  <2>2. QED
    BY <1>1, <2>1
<1>3. QED
  BY <1>1, <1>2

\* The empty line at the end of a head.
LEMMA TwoTokens ==
  ASSUME NEW S, NEW a \in S, NEW b \in S
  PROVE  <<a, b>> \in Seq(S) /\ Len(<<a, b>>) = 2 /\ <<a, b>>[1] = a
OBVIOUS

\* A line of six tokens.
LEMMA SixTokens ==
  ASSUME NEW S, NEW a \in S, NEW b \in S, NEW c \in S, NEW d \in S, NEW e \in S, NEW f \in S
  PROVE  /\ <<a, b, c, d, e, f>> \in Seq(S) /\ Len(<<a, b, c, d, e, f>>) = 6
         /\ <<a, b, c, d, e, f>>[1] = a /\ <<a, b, c, d, e, f>>[2] = b
         /\ <<a, b, c, d, e, f>>[4] = d /\ <<a, b, c, d, e, f>>[5] = e
OBVIOUS

\* The request line has seven.
LEMMA SevenTokens ==
  ASSUME NEW S, NEW a \in S, NEW b \in S, NEW c \in S, NEW d \in S, NEW e \in S, NEW f \in S,
         NEW g \in S
  PROVE  /\ <<a, b, c, d, e, f, g>> \in Seq(S) /\ Len(<<a, b, c, d, e, f, g>>) = 7
         /\ <<a, b, c, d, e, f, g>>[1] = a /\ <<a, b, c, d, e, f, g>>[2] = b
         /\ <<a, b, c, d, e, f, g>>[3] = c /\ <<a, b, c, d, e, f, g>>[4] = d
         /\ <<a, b, c, d, e, f, g>>[5] = e /\ <<a, b, c, d, e, f, g>>[6] = f
OBVIOUS

\* Lines of six tokens each, one behind the other.
LEMMA FlattenLines ==
  ASSUME NEW S, NEW ls \in Seq(Seq(S)), \A i \in 1 .. Len(ls) : Len(ls[i]) = 6
  PROVE  /\ FlattenSeq(ls) \in Seq(S) /\ Len(FlattenSeq(ls)) = 6 * Len(ls)
         /\ \A m \in 1 .. Len(ls), q \in 1 .. 6 : FlattenSeq(ls)[6 * (m - 1) + q] = ls[m][q]
<1>1. FlattenSeq(ls) \in Seq(S)
  BY FlattenList
<1>2. CASE Len(ls) = 0
  <2>1. FlattenSeq(ls) = ls /\ ls = << >>
    BY <1>2 DEF FlattenSeq
  <2>2. QED
    BY <1>1, <1>2, <2>1
<1>3. CASE Len(ls) # 0
  <2>1. PICK f : /\ f = [i \in 1 .. Len(ls) |-> IF i = 1 THEN ls[i] ELSE f[i - 1] \o ls[i]]
                 /\ FlattenSeq(ls) = f[Len(ls)]
    BY <1>3, FlattenSteps
  <2> DEFINE Good(n) == /\ f[n] \in Seq(S) /\ Len(f[n]) = 6 * n
                        /\ \A m \in 1 .. n, q \in 1 .. 6 : f[n][6 * (m - 1) + q] = ls[m][q]
             Done == {n \in Nat : n + 1 <= Len(ls) => Good(n + 1)}
  <2>2. \A i \in 1 .. Len(ls) : f[i] = IF i = 1 THEN ls[i] ELSE f[i - 1] \o ls[i]
    BY <2>1
  <2>3. 0 \in Done
    <3>1. 1 \in 1 .. Len(ls) /\ ls[1] \in Seq(S) /\ Len(ls[1]) = 6
      BY <1>3
    <3>2. f[1] = ls[1]
      BY <2>2, <3>1
    <3>3. Good(1)
      BY <3>1, <3>2
    <3> HIDE DEF Good
    <3>4. QED
      BY <3>3
  <2>4. ASSUME NEW n \in Nat, n \in Done PROVE n + 1 \in Done
    <3>1. SUFFICES ASSUME (n + 1) + 1 <= Len(ls) PROVE Good((n + 1) + 1)
      OBVIOUS
    <3>2. PICK k \in Nat : k = n + 1
      OBVIOUS
    <3>3. k >= 1 /\ k + 1 \in 1 .. Len(ls) /\ k \in 1 .. Len(ls)
      BY <3>1, <3>2
    <3>4. Good(k)
      BY <2>4, <3>2, <3>3
    <3>5. f[k + 1] = f[k] \o ls[k + 1]
      <4>1. k + 1 # 1 /\ (k + 1) - 1 = k
        BY <3>3
      <4>2. f[k + 1] = IF k + 1 = 1 THEN ls[k + 1] ELSE f[(k + 1) - 1] \o ls[k + 1]
        BY <2>2, <3>3
      <4>3. QED
        BY <4>1, <4>2
    <3>6. PICK s \in Seq(S) : /\ s = f[k] /\ Len(s) = 6 * k
                              /\ \A m \in 1 .. k, q \in 1 .. 6 : s[6 * (m - 1) + q] = ls[m][q]
      BY <3>4
    <3>7. PICK t \in Seq(S) : t = ls[k + 1] /\ Len(t) = 6
      BY <3>3
    <3>8. s \o t \in Seq(S) /\ Len(s \o t) = 6 * (k + 1)
               /\ (\A p \in 1 .. Len(s) : (s \o t)[p] = s[p])
               /\ \A p \in 1 .. Len(t) : (s \o t)[Len(s) + p] = t[p]
      <4>1. /\ s \o t \in Seq(S) /\ Len(s \o t) = Len(s) + Len(t)
            /\ \A p \in 1 .. Len(s) : (s \o t)[p] = s[p]
            /\ \A p \in 1 .. Len(t) : (s \o t)[Len(s) + p] = t[p]
        BY JoinPlaces
      <4>2. 6 * k + 6 = 6 * (k + 1)
        OBVIOUS
      <4>3. Len(s) + Len(t) = 6 * k + 6
        BY <3>6, <3>7
      <4>4. QED
        BY <4>1, <4>2, <4>3
    <3>9. ASSUME NEW m \in 1 .. k + 1, NEW q \in 1 .. 6
          PROVE  (s \o t)[6 * (m - 1) + q] = ls[m][q]
      <4>1. CASE m <= k
        <5>1. 6 * (m - 1) + q \in 1 .. Len(s)
          BY <3>6, <4>1
        <5>2. (s \o t)[6 * (m - 1) + q] = s[6 * (m - 1) + q]
          BY <3>8, <5>1
        <5>3. m \in 1 .. k
          BY <4>1
        <5>4. QED
          BY <3>6, <5>2, <5>3
      <4>2. CASE m = k + 1
        <5>1. 6 * (m - 1) + q = Len(s) + q
          BY <3>6, <4>2
        <5>2. (s \o t)[Len(s) + q] = t[q]
          BY <3>7, <3>8
        <5>3. QED
          BY <3>7, <4>2, <5>1, <5>2
      <4>3. m <= k \/ m = k + 1
        OBVIOUS
      <4>4. QED
        BY <4>1, <4>2, <4>3
    <3>10. Good(k + 1)
      <4>1. f[k + 1] = s \o t
        BY <3>5, <3>6, <3>7
      <4>2. PICK g : g = s \o t
        OBVIOUS
      <4>3. g \in Seq(S) /\ Len(g) = 6 * (k + 1)
        BY <3>8, <4>2
      <4>4. \A m \in 1 .. k + 1, q \in 1 .. 6 : g[6 * (m - 1) + q] = ls[m][q]
        BY <3>9, <4>2, Zenon
      <4>5. f[k + 1] = g
        BY <4>1, <4>2
      <4>6. QED
        BY <4>3, <4>4, <4>5, Zenon
    <3> HIDE DEF Good
    <3>11. QED
      BY <3>2, <3>10
  <2>5. Nat \subseteq Done
    <3> HIDE DEF Done
    <3>1. QED
      BY <2>3, <2>4, NatInductionSet
  <2>6. Good(Len(ls))
    <3>1. PICK n \in Nat : n + 1 = Len(ls)
      <4>1. Len(ls) - 1 \in Nat /\ (Len(ls) - 1) + 1 = Len(ls)
        BY <1>3
      <4>2. QED
        BY <4>1
    <3> HIDE DEF Good
    <3>2. n + 1 <= Len(ls) => Good(n + 1)
      BY <2>5
    <3>3. QED
      BY <3>1, <3>2
  <2>7. QED
    BY <2>1, <2>6
<1>4. QED
  BY <1>2, <1>3

\* The tokens of requests.
Token == STRING \cup {SP, CR, LF, COLON, "GET", "HTTP"}

\* Where the tokens of a request are.
LEMMA RenderLayout ==
  ASSUME NEW r \in Request
  PROVE  LET b == Render(r)
             L == Len(r.heads)
         IN  /\ L \in Nat /\ b \in Seq(Token) /\ Len(b) = 6 * L + 9
             /\ b[1] = "GET" /\ b[2] = SP /\ b[3] = r.URI /\ b[4] = SP
             /\ b[5] = "HTTP" /\ b[6] = CR
             /\ \A m \in 1 .. L : /\ b[6 * m + 2] = r.heads[m][1] /\ b[6 * m + 3] = COLON
                                  /\ b[6 * m + 5] = r.heads[m][2] /\ b[6 * m + 6] = CR
             /\ b[6 * L + 8] = CR
<1> DEFINE L == Len(r.heads)
           ls == [i \in DOMAIN r.heads |-> Line(r.heads[i])]
           first == <<"GET", SP, r.URI, SP, "HTTP", CR, LF>>
           last == <<CR, LF>>
           mid == FlattenSeq(ls)
<1>1. /\ SP \in Token /\ CR \in Token /\ LF \in Token /\ COLON \in Token
      /\ "GET" \in Token /\ "HTTP" \in Token /\ r.URI \in Token /\ L \in Nat /\ DOMAIN r.heads = 1 .. L
      /\ \A i \in 1 .. L : r.heads[i][1] \in Token /\ r.heads[i][2] \in Token
  BY DEF Request, Token
<1>2. ls \in Seq(Seq(Token)) /\ Len(ls) = L /\ \A i \in 1 .. L : ls[i] = Line(r.heads[i])
  <2>1. ASSUME NEW i \in 1 .. L PROVE Line(r.heads[i]) \in Seq(Token)
    BY <1>1, SixTokens DEF Line
  <2>2. ls \in [1 .. L -> Seq(Token)]
    BY <1>1, <2>1
  <2>3. QED
    BY <1>1, <2>2
<1>3. \A i \in 1 .. L : /\ Len(ls[i]) = 6 /\ ls[i][1] = r.heads[i][1] /\ ls[i][2] = COLON
                        /\ ls[i][4] = r.heads[i][2] /\ ls[i][5] = CR
  BY <1>1, <1>2, SixTokens DEF Line
<1> HIDE DEF ls
<1>4. /\ mid \in Seq(Token) /\ Len(mid) = 6 * L /\ 6 * L \in Nat
      /\ \A m \in 1 .. L, q \in 1 .. 6 : mid[6 * (m - 1) + q] = ls[m][q]
  BY <1>2, <1>3, FlattenLines
<1>5. first \in Seq(Token) /\ Len(first) = 7 /\ last \in Seq(Token) /\ Len(last) = 2
      /\ first[1] = "GET" /\ first[2] = SP /\ first[3] = r.URI /\ first[4] = SP
      /\ first[5] = "HTTP" /\ first[6] = CR /\ last[1] = CR
  <2>1. last \in Seq(Token) /\ Len(last) = 2 /\ last[1] = CR
    BY <1>1, TwoTokens
  <2>2. QED
    BY <1>1, <2>1, SevenTokens
<1>6. Render(r) = (first \o mid) \o last
  BY DEF Render, ls
<1>7. PICK x \in Seq(Token), y \in Seq(Token), z \in Seq(Token), n \in Nat :
        /\ Render(r) = (x \o y) \o z /\ n = 6 * L
        /\ Len(x) = 7 /\ x[1] = "GET" /\ x[2] = SP /\ x[3] = r.URI /\ x[4] = SP
        /\ x[5] = "HTTP" /\ x[6] = CR
        /\ Len(y) = n /\ \A m \in 1 .. L, q \in 1 .. 6 : y[6 * (m - 1) + q] = ls[m][q]
        /\ Len(z) = 2 /\ z[1] = CR
  <2> HIDE DEF first, last, mid, L
  <2>1. 6 * L \in Nat
    BY <1>1
  <2>2. QED
    BY <1>4, <1>5, <1>6, <2>1
<1> HIDE DEF first, last, mid, L
<1>8. PICK c \in Seq(Token) : /\ c = x \o y /\ Len(c) = n + 7
                              /\ \A p \in 1 .. 7 : c[p] = x[p]
                              /\ \A p \in 1 .. n : c[7 + p] = y[p]
  <2>1. /\ x \o y \in Seq(Token) /\ Len(x \o y) = Len(x) + Len(y)
        /\ \A p \in 1 .. Len(x) : (x \o y)[p] = x[p]
        /\ \A p \in 1 .. Len(y) : (x \o y)[Len(x) + p] = y[p]
    BY JoinPlaces
  <2>2. Len(x) = 7 /\ Len(y) = n /\ Len(x) + Len(y) = n + 7
    BY <1>7
  <2>3. PICK c : c = x \o y
    OBVIOUS
  <2>4. /\ c \in Seq(Token) /\ Len(c) = n + 7
        /\ \A p \in 1 .. 7 : c[p] = x[p]
        /\ \A p \in 1 .. n : c[7 + p] = y[p]
    BY <2>1, <2>2, <2>3
  <2>5. QED
    BY <2>3, <2>4
<1>9. PICK b \in Seq(Token) : /\ b = Render(r) /\ Len(b) = n + 9
                              /\ \A p \in 1 .. n + 7 : b[p] = c[p]
                              /\ b[n + 8] = CR
  <2>1. /\ c \o z \in Seq(Token) /\ Len(c \o z) = Len(c) + Len(z)
        /\ \A p \in 1 .. Len(c) : (c \o z)[p] = c[p]
        /\ \A p \in 1 .. Len(z) : (c \o z)[Len(c) + p] = z[p]
    BY JoinPlaces
  <2>2. Render(r) = c \o z /\ z[1] = CR
    BY <1>7, <1>8
  <2>3. Len(c) = n + 7 /\ 1 \in 1 .. Len(z) /\ Len(c) + 1 = n + 8 /\ Len(c) + Len(z) = n + 9
    BY <1>7, <1>8
  <2>4. QED
    BY <2>1, <2>2, <2>3
<1>10. ASSUME NEW m \in 1 .. L, NEW q \in 1 .. 6
       PROVE  b[6 * m + 1 + q] = ls[m][q]
  <2>1. PICK p \in 1 .. n : p = 6 * (m - 1) + q
    BY <1>1, <1>7
  <2>2. y[p] = ls[m][q]
    BY <1>7, <2>1
  <2>3. 7 + p = 6 * m + 1 + q /\ 7 + p \in 1 .. n + 7
    BY <1>1, <2>1
  <2>4. b[7 + p] = y[p]
    BY <1>8, <1>9, <2>1, <2>3
  <2>5. QED
    BY <2>2, <2>3, <2>4
<1>11. ASSUME NEW m \in 1 .. L
       PROVE  /\ b[6 * m + 2] = r.heads[m][1] /\ b[6 * m + 3] = COLON
              /\ b[6 * m + 5] = r.heads[m][2] /\ b[6 * m + 6] = CR
  <2>1. /\ 6 * m + 1 + 1 = 6 * m + 2 /\ 6 * m + 1 + 2 = 6 * m + 3
        /\ 6 * m + 1 + 4 = 6 * m + 5 /\ 6 * m + 1 + 5 = 6 * m + 6
    BY <1>1
  <2>2. \A q \in 1 .. 6 : b[6 * m + 1 + q] = ls[m][q]
    BY <1>10
  <2>3. /\ b[6 * m + 1 + 1] = ls[m][1] /\ b[6 * m + 1 + 2] = ls[m][2]
        /\ b[6 * m + 1 + 4] = ls[m][4] /\ b[6 * m + 1 + 5] = ls[m][5]
    BY <2>2
  <2>4. QED
    BY <1>3, <2>1, <2>3
<1>12. \A q \in 1 .. 7 : b[q] = x[q]
  <2>1. \A q \in 1 .. 7 : q \in 1 .. n + 7
    OBVIOUS
  <2>2. QED
    BY <1>8, <1>9, <2>1
<1>13. /\ b[1] = "GET" /\ b[2] = SP /\ b[3] = r.URI /\ b[4] = SP /\ b[5] = "HTTP" /\ b[6] = CR
  BY <1>7, <1>12
<1>14. Len(b) = 6 * L + 9 /\ b[6 * L + 8] = CR
  BY <1>7, <1>9
<1>15. QED
  BY <1>1, <1>9, <1>11, <1>13, <1>14 DEF L

\* The same layout in a text that begins with the request.
LEMMA TextLayout ==
  ASSUME NEW r \in Request, NEW text \in Seq(Token), IsPrefix(Render(r), text)
  PROVE  LET b == text
             L == Len(r.heads)
         IN  /\ L \in Nat /\ Len(b) \in Nat /\ Len(b) >= 6 * L + 9
             /\ b[1] = "GET" /\ b[2] = SP /\ b[3] = r.URI /\ b[4] = SP
             /\ b[5] = "HTTP" /\ b[6] = CR
             /\ \A m \in 1 .. L : /\ b[6 * m + 2] = r.heads[m][1] /\ b[6 * m + 3] = COLON
                                  /\ b[6 * m + 5] = r.heads[m][2] /\ b[6 * m + 6] = CR
             /\ b[6 * L + 8] = CR
<1>1. PICK b \in Seq(Token), L \in Nat :
        /\ b = Render(r) /\ L = Len(r.heads) /\ Len(b) = 6 * L + 9
        /\ b[1] = "GET" /\ b[2] = SP /\ b[3] = r.URI /\ b[4] = SP /\ b[5] = "HTTP" /\ b[6] = CR
        /\ \A m \in 1 .. L : /\ b[6 * m + 2] = r.heads[m][1] /\ b[6 * m + 3] = COLON
                             /\ b[6 * m + 5] = r.heads[m][2] /\ b[6 * m + 6] = CR
        /\ b[6 * L + 8] = CR
  BY RenderLayout
<1>2. PICK n \in Nat : n = Len(b) /\ n >= 9 /\ n = 6 * L + 9
  BY <1>1
<1>3. Len(text) \in Nat /\ n <= Len(text) /\ SubSeq(b, 1, n) = SubSeq(text, 1, n)
  BY <1>1, <1>2 DEF IsPrefix
<1>4. ASSUME NEW p \in 1 .. n PROVE text[p] = b[p]
  <2>1. SubSeq(b, 1, n)[p] = b[p]
    BY <1>2
  <2>2. SubSeq(text, 1, n)[p] = text[p]
    BY <1>3
  <2>3. QED
    BY <1>3, <2>1, <2>2
<1>5. /\ text[1] = b[1] /\ text[2] = b[2] /\ text[3] = b[3] /\ text[4] = b[4]
      /\ text[5] = b[5] /\ text[6] = b[6] /\ text[6 * L + 8] = b[6 * L + 8]
  BY <1>2, <1>4
<1>6. ASSUME NEW m \in 1 .. L
      PROVE  /\ text[6 * m + 2] = b[6 * m + 2] /\ text[6 * m + 3] = b[6 * m + 3]
             /\ text[6 * m + 5] = b[6 * m + 5] /\ text[6 * m + 6] = b[6 * m + 6]
  <2>1. 6 * m + 2 \in 1 .. n /\ 6 * m + 3 \in 1 .. n /\ 6 * m + 5 \in 1 .. n /\ 6 * m + 6 \in 1 .. n
    BY <1>2
  <2>2. QED
    BY <1>4, <2>1
<1>7. QED
  BY <1>1, <1>2, <1>3, <1>5, <1>6

\* handle_request_line finds the three parts of the first line.
LEMMA LineParsed ==
  ASSUME NEW r \in Request, NEW text \in Seq(Token), IsPrefix(Render(r), text)
  PROVE  /\ handle_request_line(text).URI = <<r.URI>>
         /\ handle_request_line(text).index = 8
<1>1. PICK b \in Seq(Token), L \in Nat :
        /\ b = text /\ L = Len(r.heads) /\ Len(b) >= 6 * L + 9
        /\ b[1] = "GET" /\ b[2] = SP /\ b[3] = r.URI /\ b[4] = SP /\ b[5] = "HTTP" /\ b[6] = CR
  BY TextLayout
<1>2. Len(b) \in Nat /\ Len(b) >= 9
  BY <1>1
<1>4. r.URI # SP /\ "GET" # SP /\ "HTTP" \notin {CR, LF}
  BY DEF Request, SP, CR, LF
<1>5. Until(b, {SP})[1] = 2
  <2>1. b[1] \notin {SP} /\ b[1 + 1] \in {SP} /\ 1 < Len(b)
    BY <1>1, <1>2, <1>4
  <2>2. QED
    BY <1>2, <2>1, UntilNext
<1>6. Until(b, {SP})[3] = 4
  <2>1. b[3] \notin {SP} /\ b[3 + 1] \in {SP} /\ 3 < Len(b)
    BY <1>1, <1>2, <1>4
  <2>2. QED
    BY <1>2, <2>1, UntilNext
<1>7. Until(b, {CR, LF})[5] = 6
  <2>1. b[5] \notin {CR, LF} /\ b[5 + 1] \in {CR, LF} /\ 5 < Len(b)
    BY <1>1, <1>2, <1>4
  <2>2. QED
    BY <1>2, <2>1, UntilNext
<1>8. SubSeq(b, 3, 3) = <<b[3]>>
  BY <1>2, OneToken
<1>9. /\ handle_request_line(b).URI = SubSeq(b, 2 + 1, 4 - 1)
      /\ handle_request_line(b).index = 6 + 2
  BY <1>5, <1>6, <1>7 DEF handle_request_line
<1>10. QED
  BY <1>1, <1>8, <1>9

\* One line of a written head gives its key its value, unless a line after it
\* gives another; the head ends at the empty line.
LEMMA HeadLine ==
  ASSUME NEW r \in Request, NEW text \in Seq(Token), IsPrefix(Render(r), text)
  PROVE  LET b == text
             L == Len(r.heads)
         IN  /\ \A m \in 1 .. L :
                  handle_request_head(b, 6 * m + 2) =
                    Under(<<r.heads[m][1]>>, <<r.heads[m][2]>>,
                          handle_request_head(b, 6 * (m + 1) + 2))
             /\ handle_request_head(b, 6 * (L + 1) + 2) = << >>
<1>1. PICK b \in Seq(Token), L \in Nat :
        /\ b = text /\ L = Len(r.heads) /\ Len(b) >= 6 * L + 9
        /\ \A m \in 1 .. L : /\ b[6 * m + 2] = r.heads[m][1] /\ b[6 * m + 3] = COLON
                             /\ b[6 * m + 5] = r.heads[m][2] /\ b[6 * m + 6] = CR
        /\ b[6 * L + 8] = CR
  BY TextLayout
<1>2. Len(b) \in Nat
  OBVIOUS
<1>4. ASSUME NEW m \in 1 .. L
      PROVE  handle_request_head(b, 6 * m + 2) =
               Under(<<r.heads[m][1]>>, <<r.heads[m][2]>>, handle_request_head(b, 6 * (m + 1) + 2))
  <2>1. PICK i \in Nat : /\ i = 6 * m + 2 /\ i + 1 = 6 * m + 3 /\ i + 3 = 6 * m + 5
                         /\ i + 4 = 6 * m + 6 /\ i + 6 = 6 * (m + 1) + 2
                         /\ i + 4 <= Len(b) /\ i >= 1
    BY <1>1
  <2>2. PICK key, value : /\ key = r.heads[m][1] /\ value = r.heads[m][2]
                          /\ key \notin {COLON, CR, LF} /\ value \notin {CR, LF}
    <3>1. r.heads[m] \in (STRING \ {COLON, CR, LF}) \X (STRING \ {CR, LF})
      BY <1>1 DEF Request
    <3>2. QED
      BY <3>1
  <2>3. b[i] = key /\ b[i + 1] = COLON /\ b[i + 3] = value /\ b[i + 4] = CR
    BY <1>1, <2>1, <2>2
  <2>4. Until(b, {COLON})[i] = i + 1
    <3>1. b[i] \notin {COLON} /\ b[i + 1] \in {COLON}
      BY <2>2, <2>3
    <3>2. i < Len(b)
      BY <1>2, <2>1
    <3>3. QED
      BY <1>2, <3>1, <3>2, UntilNext
  <2>5. Until(b, {CR, LF})[i + 3] = i + 4
    <3>1. PICK j \in Nat : j = i + 3 /\ j + 1 = i + 4
      OBVIOUS
    <3>2. b[j] \notin {CR, LF} /\ b[j + 1] \in {CR, LF}
      BY <2>2, <2>3, <3>1
    <3>3. j < Len(b)
      BY <1>2, <2>1, <3>1
    <3>4. Until(b, {CR, LF})[j] = j + 1
      BY <1>2, <3>2, <3>3, UntilNext
    <3>5. QED
      BY <3>1, <3>4
  <2>6. SubSeq(b, i, i) = <<b[i]>> /\ SubSeq(b, i + 3, i + 3) = <<b[i + 3]>>
    <3>1. i \in 1 .. Len(b) /\ i + 3 \in 1 .. Len(b)
      BY <1>2, <2>1
    <3>2. QED
      BY <3>1, OneToken
  <2>7. ValueStart(i + 1) = i + 3 /\ (i + 1) - 1 = i /\ (i + 4) - 1 = i + 3 /\ (i + 4) + 2 = i + 6
    BY DEF ValueStart
  <2>8. ~ (i > Len(b) \/ b[i] \in {CR, LF})
    BY <1>2, <2>1, <2>2, <2>3
  <2>9. handle_request_head(b, i) =
          Under(SubSeq(b, i, (i + 1) - 1), SubSeq(b, ValueStart(i + 1), (i + 4) - 1),
                handle_request_head(b, (i + 4) + 2))
    BY <1>2, <2>4, <2>5, <2>7, <2>8, HeadSteps
  <2>10. QED
    BY <2>1, <2>2, <2>3, <2>6, <2>7, <2>9
<1>5. handle_request_head(b, 6 * (L + 1) + 2) = << >>
  <2>1. PICK i \in Nat : i = 6 * (L + 1) + 2 /\ i = 6 * L + 8
    OBVIOUS
  <2>2. b[i] \in {CR, LF}
    BY <1>1, <2>1
  <2>3. handle_request_head(b, i) = << >>
    BY <1>2, <2>2, HeadSteps
  <2>4. QED
    BY <2>1, <2>3
<1>6. QED
  BY <1>1, <1>4, <1>5

\* The map h has the key K exactly if one of the lines has, with the value of the
\* last such line.
LastOf(h, lines, K) ==
  /\ <<K>> \in DOMAIN h <=> \E j \in 1 .. Len(lines) : lines[j][1] = K
  /\ \A j \in 1 .. Len(lines) :
       lines[j][1] = K /\ (\A i \in j + 1 .. Len(lines) : lines[i][1] # K) =>
         h[<<K>>] = <<lines[j][2]>>

\* handle_request_head builds such a map.
LEMMA HeadParsed ==
  ASSUME NEW r \in Request, NEW text \in Seq(Token), NEW K, IsPrefix(Render(r), text)
  PROVE  LastOf(handle_request_head(text, 8), r.heads, K)
<1>1. PICK L \in Nat : L = Len(r.heads)
  BY DEF Request
<1> DEFINE h(m) == handle_request_head(text, 6 * m + 2)
           key(m) == r.heads[m][1]
           value(m) == r.heads[m][2]
           Good(m) == /\ <<K>> \in DOMAIN h(m) <=> \E j \in m .. L : key(j) = K
                      /\ \A j \in m .. L :
                           key(j) = K /\ (\A i \in j + 1 .. L : key(i) # K) =>
                             h(m)[<<K>>] = <<value(j)>>
           Near == {n \in Nat : \A m \in Nat : m >= 1 /\ m + n = L + 1 => Good(m)}
<1>2. /\ \A m \in 1 .. L : h(m) = Under(<<key(m)>>, <<value(m)>>, h(m + 1))
      /\ h(L + 1) = << >>
  BY <1>1, HeadLine
<1>3. h(1) = handle_request_head(text, 8)
  <2>1. 6 * 1 + 2 = 8
    OBVIOUS
  <2>2. QED
    BY <2>1
<1> HIDE DEF h, key, value
<1>4. 0 \in Near
  <2>1. DOMAIN h(L + 1) = {} /\ L + 1 .. L = {}
    BY <1>2
  <2>2. Good(L + 1)
    BY <2>1
  <2>3. \A m \in Nat : m + 0 = L + 1 => m = L + 1
    OBVIOUS
  <2> HIDE DEF Good
  <2>4. QED
    BY <2>2, <2>3
<1>5. ASSUME NEW n \in Nat, n \in Near PROVE n + 1 \in Near
  <2>1. ASSUME NEW m \in Nat, m >= 1, m + (n + 1) = L + 1 PROVE Good(m)
    <3>1. m \in 1 .. L /\ m + 1 \in Nat /\ m + 1 >= 1 /\ (m + 1) + n = L + 1
      BY <2>1
    <3>2. Good(m + 1)
      <4> HIDE DEF Good
      <4>1. QED
        BY <1>5, <3>1
    <3>3. PICK g : g = h(m + 1)
      OBVIOUS
    <3>4. h(m) = [x \in DOMAIN g \cup {<<key(m)>>} |-> IF x \in DOMAIN g THEN g[x] ELSE <<value(m)>>]
      BY <1>2, <3>1, <3>3 DEF Under
    <3>5. <<K>> = <<key(m)>> <=> key(m) = K
      OBVIOUS
    <3>6. \A j \in m .. L : j = m \/ j \in m + 1 .. L
      BY <3>1
    <3>7. m \in m .. L /\ \A j \in m + 1 .. L : j \in m .. L
      BY <3>1
    <3>8. <<K>> \in DOMAIN g <=> \E j \in m + 1 .. L : key(j) = K
      BY <3>2, <3>3
    <3>9. <<K>> \in DOMAIN h(m) <=> \E j \in m .. L : key(j) = K
      <4>1. <<K>> \in DOMAIN h(m) <=> <<K>> \in DOMAIN g \/ key(m) = K
        BY <3>4, <3>5
      <4>2. QED
        BY <3>6, <3>7, <3>8, <4>1
    <3>10. ASSUME NEW j \in m .. L, key(j) = K, \A i \in j + 1 .. L : key(i) # K
           PROVE  h(m)[<<K>>] = <<value(j)>>
      <4>1. CASE j = m
        <5>1. <<K>> \notin DOMAIN g
          BY <3>8, <3>10, <4>1
        <5>2. QED
          BY <3>4, <3>5, <3>10, <4>1, <5>1
      <4>2. CASE j \in m + 1 .. L
        <5>1. <<K>> \in DOMAIN g
          BY <3>8, <3>10, <4>2
        <5>2. g[<<K>>] = <<value(j)>>
          BY <3>2, <3>3, <3>10, <4>2
        <5>3. QED
          BY <3>4, <5>1, <5>2
      <4>3. QED
        BY <3>6, <4>1, <4>2
    <3>11. QED
      BY <3>9, <3>10
  <2> HIDE DEF Good
  <2>2. QED
    BY <2>1
<1>6. Nat \subseteq Near
  <2> HIDE DEF Near
  <2>1. QED
    BY <1>4, <1>5, NatInductionSet
<1>7. Good(1)
  <2> HIDE DEF Good
  <2>1. L \in Near /\ 1 + L = L + 1
    BY <1>6
  <2>2. QED
    BY <2>1
<1>8. QED
  BY <1>1, <1>3, <1>7 DEF key, value, LastOf

\* The last of some lines.
LEMMA LastLine ==
  ASSUME NEW L \in Nat, NEW S \in SUBSET (1 .. L), S # {}
  PROVE  Max(S) \in S /\ \A i \in S : i <= Max(S)
<1> DEFINE T == {L - i : i \in S}
<1>1. T \subseteq Nat /\ T # {}
  <2>1. \A i \in S : i \in 1 .. L
    OBVIOUS
  <2>2. \A i \in 1 .. L : L - i \in Nat
    OBVIOUS
  <2>3. QED
    BY <2>1, <2>2
<1>2. PICK t \in T : \A n \in T : t <= n
  <2> HIDE DEF T
  <2>1. QED
    BY <1>1, Lowest
<1>3. PICK m \in S : t = L - m
  BY <1>2
<1>4. \A i \in S : m >= i
  <2>1. ASSUME NEW i \in S PROVE m >= i
    <3>1. i \in Nat /\ m \in Nat
      OBVIOUS
    <3>2. L - i \in T
      OBVIOUS
    <3>3. L - m <= L - i
      BY <1>2, <1>3, <3>2
    <3>4. QED
      BY <3>1, <3>3
  <2>2. QED
    BY <2>1
<1>5. Max(S) \in S /\ \A i \in S : Max(S) >= i
  BY <1>4 DEF Max
<1>6. QED
  BY <1>5

\* The parser reads the request a text begins with.
LEMMA RequestParsed ==
  ASSUME NEW r \in Request, NEW text \in Seq(Token), IsPrefix(Render(r), text)
  PROVE  /\ handle_request_line(text).URI = <<r.URI>>
         /\ AsksKeepAlive(text) = Says(r, "Connection", {"keep-alive", "Keep-Alive"})
<1>1. /\ handle_request_line(text).URI = <<r.URI>>
      /\ handle_request_line(text).index = 8
  BY LineParsed
<1> DEFINE h == handle_request_head(text, 8)
           K == "Connection"
           V == {"keep-alive", "Keep-Alive"}
           lines == {i \in DOMAIN r.heads : r.heads[i][1] = K}
<1>2. PICK L \in Nat : L = Len(r.heads) /\ DOMAIN r.heads = 1 .. L
  BY DEF Request
<1>3. /\ <<K>> \in DOMAIN h <=> \E j \in 1 .. L : r.heads[j][1] = K
      /\ \A j \in 1 .. L :
           r.heads[j][1] = K /\ (\A i \in j + 1 .. L : r.heads[i][1] # K) =>
             h[<<K>>] = <<r.heads[j][2]>>
  <2>1. LastOf(h, r.heads, K)
    BY HeadParsed
  <2>2. QED
    BY <1>2, <2>1 DEF LastOf
<1>4. AsksKeepAlive(text) =
        (<<K>> \in DOMAIN h /\ h[<<K>>] \in {<<"keep-alive">>, <<"Keep-Alive">>})
  BY <1>1 DEF AsksKeepAlive
<1>5. Says(r, K, V) = (lines # {} /\ r.heads[Max(lines)][2] \in V)
  BY DEF Says
<1> HIDE DEF h
<1>6. <<K>> \in DOMAIN h <=> lines # {}
  BY <1>2, <1>3
<1>7. ASSUME lines # {}
      PROVE  h[<<K>>] \in {<<"keep-alive">>, <<"Keep-Alive">>} <=> r.heads[Max(lines)][2] \in V
  <2>1. PICK m : m = Max(lines)
    OBVIOUS
  <2>2. m \in lines /\ \A i \in lines : i <= m
    BY <1>2, <1>7, <2>1, LastLine
  <2>3. m \in 1 .. L /\ r.heads[m][1] = K
    BY <1>2, <2>2
  <2>4. \A i \in m + 1 .. L : r.heads[i][1] # K
    <3>1. ASSUME NEW i \in m + 1 .. L PROVE i \in 1 .. L /\ ~ (i <= m)
      BY <2>3
    <3>2. QED
      BY <1>2, <2>2, <3>1
  <2>5. h[<<K>>] = <<r.heads[m][2]>>
    BY <1>3, <2>3, <2>4
  <2>6. ASSUME NEW v PROVE <<v>> \in {<<"keep-alive">>, <<"Keep-Alive">>} <=> v \in V
    OBVIOUS
  <2>7. QED
    BY <2>1, <2>5, <2>6
<1>8. QED
  BY <1>1, <1>4, <1>5, <1>6, <1>7

\* Every step keeps Kept: only handle_http sets Keep_Alive.
LEMMA StepKept ==
  IInv /\ Kept /\ [Next]_vars => Kept'
<1> SUFFICES ASSUME IInv, Kept, [Next]_vars PROVE Kept'
  OBVIOUS
<1>1. TypeOK /\ Phases
  BY DEF IInv
<1>2. served \in [Conns -> Nat] /\ Keep_Alive \in [Conns -> BOOLEAN]
  BY <1>1 DEF TypeOK
<1>3. CASE UNCHANGED <<Keep_Alive, served, loopVars>>
  BY <1>3 DEF Kept, Handled, loopVars
<1>4. CASE pc # "timer" /\ pc' # "timer" /\ Keep_Alive' = Keep_Alive /\ served' = served
  BY <1>4 DEF Kept
<1>5. CASE handle_http
  <2>1. PICK k \in Conns : k = Handled
    <3>1. done < Len(results)
      BY <1>1, <1>5 DEF handle_http, Phases
    <3>2. QED
      BY <3>1, HandledOpen
  <2>2. pc = "http" /\ results' = results /\ done' = done /\ buff' = buff /\ served' = served
    BY <1>5 DEF handle_http
  <2>3. Handled' = k
    BY <2>1, <2>2 DEF Handled
  <2>4. CASE peer[k] = "reset"
    BY <1>4, <1>5, <2>1, <2>2, <2>4 DEF handle_http
  <2>5. CASE peer[k] # "reset"
    <3>1. PICK asks \in BOOLEAN : asks <=> AsksKeepAlive(buff)
      OBVIOUS
    <3>2. Keep_Alive' = [Keep_Alive EXCEPT ![k] = Keep_Alive[k] \/ asks] /\ pc' = "timer"
      BY <1>5, <2>1, <2>5, <3>1 DEF handle_http
    <3>3. \A c \in Conns : Keep_Alive'[c] => Keep_Alive[c] \/ (c = k /\ asks)
      BY <1>2, <3>2
    <3>4. asks => Keep_Alive'[k]
      BY <1>2, <3>2
    <3>5. AsksKeepAlive(buff') <=> asks
      BY <2>2, <3>1
    <3>6. \A c \in Conns : Keep_Alive[c] => served[c] > 0
      BY <2>2 DEF Kept
    <3>7. QED
      BY <2>2, <2>3, <3>2, <3>3, <3>4, <3>5, <3>6 DEF Kept
  <2>6. QED
    BY <2>4, <2>5
<1>6. CASE SetTimer
  <2>1. PICK k \in Conns : k = Handled
    <3>1. done < Len(results)
      BY <1>1, <1>6 DEF SetTimer, Phases
    <3>2. QED
      BY <3>1, HandledOpen
  <2>2. /\ served' = [served EXCEPT ![k] = served[k] + 1]
        /\ Keep_Alive' = Keep_Alive /\ pc' = "read"
    BY <1>6, <2>1 DEF SetTimer
  <2>3. ASSUME NEW c \in Conns, Keep_Alive[c] PROVE served'[c] > 0
    <3>1. CASE c = k
      BY <1>2, <2>2, <3>1
    <3>2. CASE c # k
      BY <1>2, <2>1, <2>2, <2>3, <3>2 DEF Kept
    <3>3. QED
      BY <3>1, <3>2
  <2>4. QED
    BY <2>2, <2>3 DEF Kept
<1>7. CASE Poll \/ PollFind \/ PollTake \/ BatchDone \/ HandleRead
  BY <1>4, <1>7 DEF Poll, PollFind, PollTake, BatchDone, HandleRead
<1>8. CASE TimerClose \/ \E i \in items : Expire(i)
  BY <1>3, <1>8 DEF TimerClose, Expire
<1>9. ASSUME NEW k \in Conns,
             \/ \E piece \in Pieces : Send(k, piece)
             \/ Hangup(k, "eof") \/ Hangup(k, "reset")
             \/ \E fd \in Fds : Add_New_Connect(k, fd)
      PROVE  Kept'
  BY <1>3, <1>9 DEF Send, Hangup, Add_New_Connect
<1>10. CASE UNCHANGED vars
  BY <1>3, <1>10 DEF vars
<1>11. QED
  BY <1>5, <1>6, <1>7, <1>8, <1>9, <1>10 DEF Next, LoopStep, TimerStep

\* When the buffer begins with a whole request, of any number of header lines
\* and with anything behind it, its URI is found and the connection is kept as
\* its last Connection header asks.
THEOREM KeptAsAskedCorrect ==
  Spec => []KeptAsAsked
<1>1. Init => Kept
  BY DEF Init, Kept
<1>2. Spec => []Kept
  BY <1>1, Invariant, StepKept, PTL DEF Spec
<1>3. IInv /\ Kept => KeptAsAsked
  <2>1. SUFFICES ASSUME IInv, Kept, pc = "timer", NEW r \in Requests, IsPrefix(Render(r), buff)
                 PROVE  LET asks == Says(r, "Connection", {"keep-alive", "Keep-Alive"})
                        IN  /\ handle_request_line(buff).URI = <<r.URI>>
                            /\ asks => Keep_Alive[Handled]
                            /\ Keep_Alive[Handled] => asks \/ served[Handled] > 0
    BY DEF KeptAsAsked
  <2>2. r \in Request /\ buff \in Seq(Token)
    <3>1. buff \in Seq(STRING)
      BY <2>1 DEF IInv, TypeOK
    <3>2. buff \in Seq(Token)
      BY <3>1 DEF Token
    <3>3. QED
      BY <3>2, ConnectionAssumption
  <2>3. /\ handle_request_line(buff).URI = <<r.URI>>
        /\ AsksKeepAlive(buff) = Says(r, "Connection", {"keep-alive", "Keep-Alive"})
    BY <2>1, <2>2, RequestParsed
  <2>4. Handled \in Conns
    BY <2>1, HandledOpen DEF IInv, Phases
  <2>5. /\ AsksKeepAlive(buff) => Keep_Alive[Handled]
        /\ Keep_Alive[Handled] => AsksKeepAlive(buff) \/ served[Handled] > 0
    BY <2>1, <2>4 DEF Kept
  <2>6. QED
    BY <2>3, <2>5
<1>4. QED
  BY <1>2, <1>3, Invariant, PTL

=============================================================================
