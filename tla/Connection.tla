----------------------------- MODULE Connection -----------------------------
(***************************************************************************)
(* The life of a connection: its channel (channel.cpp, Httpdata.cpp), its  *)
(* registration in the epoll and in Mmap (Epoll.cpp), reading and writing  *)
(* (otherFun.cpp), and the timer that closes it (TimeRoundItem.h).         *)
(*                                                                         *)
(* Two threads share these: the event loop, which polls and runs           *)
(* handle_event, and the timer thread, which runs Close from the           *)
(* destructor of an expired TimeRoundItem.  A channel lives, and keeps its *)
(* descriptor, as long as Mmap, the loop or an item refers to it.          *)
(***************************************************************************)
EXTENDS HttpRequest

CONSTANTS
  Conns,        \* clients; each connects once
  Fds,          \* descriptor numbers, given out lowest first
  Requests,     \* what clients ask for: URI and header lines
  Pieces,       \* what a client sends at once: sequences of tokens
  BUFF,         \* max_read_write_buff_length, in tokens
  size,         \* event_fd.size(), the events one epoll_wait returns at most
  MaxSends,     \* bound: pieces sent, by all clients
  None

ASSUME ConnectionAssumption ==
  /\ IsFiniteSet(Conns) /\ Fds \subseteq Nat
  /\ BUFF \in Nat \ {0} /\ size \in Nat \ {0} /\ MaxSends \in Nat /\ Pieces \subseteq Seq(STRING)
  /\ Requests \subseteq Request
  /\ None \notin Conns

VARIABLES
  state,        \* "backlog", "open" or "gone": the server's end of a connection
  peer,         \* "open", "eof" or "reset": the client's end
  inbox,        \* received and not read
  sends,        \* pieces sent so far
  num,          \* channel::fd
  Mmap,         \* Epoll::Mmap
  interest,     \* connections registered in the epoll
  edge,         \* connections with an event epoll_wait has not reported
  pc,           \* where the event loop is
  batch,        \* event_fd[] entries Poll() has still to look at
  results,      \* the vector Poll() returns
  done,         \* how many of results have been handled
  buff,         \* read_buff of the channel that is handled
  Keep_Alive,   \* Httpdata::Keep_Alive
  served,       \* requests handled
  items,        \* TimeRoundItems that still refer to their channel
  dying,        \* the item whose destructor the timer thread runs
  down          \* the process has died

clientVars == <<peer, inbox, sends>>
epollVars == <<Mmap, interest, edge>>
loopVars == <<pc, batch, results, done, buff>>
timerVars == <<items, dying>>
vars == <<state, num, clientVars, epollVars, loopVars, timerVars, Keep_Alive, served,
          down>>

Item == [conn : Conns, after : Nat \ {0}]
Idle == [conn |-> None, after |-> 0]

TypeOK ==
  /\ state \in [Conns -> {"backlog", "open", "gone"}]
  /\ peer \in [Conns -> {"open", "eof", "reset"}]
  /\ inbox \in [Conns -> Seq(STRING)]
  /\ sends \in 0 .. MaxSends
  /\ num \in [Conns -> Fds \cup {None}]
  /\ Mmap \in [Fds -> Conns \cup {None}]
  /\ interest \subseteq Conns /\ edge \subseteq interest
  /\ pc \in {"poll", "find", "take", "read", "http", "timer"}
  /\ batch \in Seq(Fds) /\ results \in Seq(Conns) /\ done \in 0 .. Len(results)
  /\ buff \in Seq(STRING) /\ Len(buff) <= BUFF
  /\ Keep_Alive \in [Conns -> BOOLEAN]
  /\ served \in [Conns -> Nat]
  /\ items \subseteq Item /\ dying \in Item \cup {Idle}
  /\ down \in BOOLEAN

Init ==
  /\ state = [k \in Conns |-> "backlog"]
  /\ peer = [k \in Conns |-> "open"]
  /\ inbox = [k \in Conns |-> << >>]
  /\ sends = 0
  /\ num = [k \in Conns |-> None]
  /\ Mmap = [fd \in Fds |-> None]
  /\ interest = {} /\ edge = {}
  /\ pc = "poll" /\ batch = << >> /\ results = << >> /\ done = 0 /\ buff = << >>
  /\ Keep_Alive = [k \in Conns |-> FALSE]
  /\ served = [k \in Conns |-> 0]
  /\ items = {} /\ dying = Idle
  /\ down = FALSE

-----------------------------------------------------------------------------
(* References, and the calls that drop them *)

Holders_NoTimer == Range(Mmap') \cup Range(results')
\* The channels somebody has a shared_ptr to after the step.
Holders == Range(Mmap') \cup Range(results') \cup {i.conn : i \in items'} \cup {dying'.conn}

\* ~channel: a channel without references closes its descriptor, which takes
\* it out of the epoll.
Destroyed ==
  state' = [k \in Conns |-> IF state[k] = "open" /\ k \notin Holders THEN "gone" ELSE state[k]]

\* Something to read, or the end of the stream.
Readable(k) == inbox[k] # << >> \/ peer[k] # "open"

Epoll_Del_KeepsEntry(fd) ==
  /\ UNCHANGED Mmap
  /\ interest' = interest \ {Mmap[fd]}
  /\ edge' = edge \ {Mmap[fd]}
\* Epoll_Del(fd) of the channel with that number: nothing when Mmap has no
\* such entry, else the registration of the descriptor and the entry go.
Epoll_Del(fd) ==
  /\ Mmap' = [Mmap EXCEPT ![fd] = None]
  /\ interest' = interest \ {Mmap[fd]}
  /\ edge' = edge \ {Mmap[fd]}

SeparateTimer_None(k) == items
\* SeparateTimer: the item of the last request (wp_time_round_item), unless its
\* destructor runs already, is made to forget the channel (reset).
SeparateTimer(k) == items \ {[conn |-> k, after |-> served[k]]}

\* handle_close.
handle_close(k) ==
  /\ items' = SeparateTimer(k)
  /\ Epoll_Del(num[k])

-----------------------------------------------------------------------------
(* Clients *)

Announce(k) == edge' = IF k \in interest THEN edge \cup {k} ELSE edge

Send(k, piece) ==
  /\ state[k] # "gone" /\ peer[k] = "open" /\ sends < MaxSends
  /\ inbox' = [inbox EXCEPT ![k] = @ \o piece]
  /\ sends' = sends + 1
  /\ Announce(k)
  /\ UNCHANGED <<state, num, peer, Mmap, interest, loopVars, timerVars, Keep_Alive,
                 served, down>>

\* The client closes its end, or resets the connection.
Hangup(k, how) ==
  /\ state[k] # "gone" /\ peer[k] \in {"open", "eof"} \ {how}
  /\ peer' = [peer EXCEPT ![k] = how]
  /\ Announce(k)
  /\ UNCHANGED <<state, num, inbox, sends, Mmap, interest, loopVars, timerVars,
                 Keep_Alive, served, down>>

-----------------------------------------------------------------------------
(* The event loop *)

InUse == {num[k] : k \in {c \in Conns : state[c] = "open"}}

\* Add_New_Connect, in the handler of the listen socket or the eventfd: with
\* nothing else to handle, or before, between and after the channels of a batch.
Add_New_Connect(k, fd) ==
  /\ ~ down /\ pc \in {"poll", "read"}
  /\ state[k] = "backlog"
  /\ fd \notin InUse /\ \A n \in Fds : n < fd => n \in InUse
  /\ num' = [num EXCEPT ![k] = fd]
  /\ IF Mmap[fd] = None
     THEN /\ Mmap' = [Mmap EXCEPT ![fd] = k]
          /\ interest' = interest \cup {k}
          /\ edge' = IF Readable(k) THEN edge \cup {k} ELSE edge
          /\ state' = [state EXCEPT ![k] = "open"]
     ELSE /\ state' = [state EXCEPT ![k] = "gone"]
          /\ UNCHANGED epollVars
  /\ UNCHANGED <<clientVars, loopVars, timerVars, Keep_Alive, served, down>>

\* epoll_wait reports an edge once, in this call or, when there are more than
\* event_fd holds, in a later one.  An event that comes late is left to a later
\* call too.
Poll ==
  /\ ~ down /\ pc = "poll"
  /\ \E S \in SUBSET edge :
       /\ S # {} /\ Cardinality(S) <= size
       /\ \E s \in SetToSeqs(S) : batch' = [i \in DOMAIN s |-> num[s[i]]]
       /\ edge' = edge \ S
  /\ pc' = "find"
  /\ UNCHANGED <<state, num, clientVars, Mmap, interest, results, done, buff, timerVars,
                 Keep_Alive, served, down>>

\* Poll looks each descriptor up in Mmap ...
PollFind ==
  /\ ~ down /\ pc = "find"
  /\ IF batch = << >> THEN pc' = "read" /\ UNCHANGED batch
     ELSE IF Mmap[Head(batch)] = None THEN batch' = Tail(batch) /\ UNCHANGED pc
     ELSE pc' = "take" /\ UNCHANGED batch
  /\ UNCHANGED <<state, num, clientVars, epollVars, results, done, buff, timerVars,
                 Keep_Alive, served, down>>

\* ... and again to use it: an entry the timer thread has erased meanwhile is a
\* null pointer.
PollTake ==
  /\ ~ down /\ pc = "take"
  /\ IF Mmap[Head(batch)] = None
     THEN down' = TRUE /\ UNCHANGED <<pc, batch, results>>
     ELSE /\ results' = Append(results, Mmap[Head(batch)])
          /\ batch' = Tail(batch)
          /\ pc' = "find"
          /\ UNCHANGED down
  /\ UNCHANGED <<state, num, clientVars, epollVars, done, buff, timerVars, Keep_Alive, served>>

Handled == results[done + 1]

\* The whole batch has been handled: the loop drops it and polls again.
BatchDone ==
  /\ ~ down /\ pc = "read"
  /\ done = Len(results)
  /\ results' = << >> /\ done' = 0 /\ pc' = "poll"
  /\ UNCHANGED <<num, clientVars, epollVars, batch, buff, timerVars, Keep_Alive, served, down>>
  /\ Destroyed

ReadSize_OneMore(k) == Min({BUFF + 1, Len(inbox[k])})
\* What one readn takes: all there is, or the buffer full.
ReadSize(k) == Min({BUFF, Len(inbox[k])})

\* readn: it reads until the buffer is full, until nothing is left, or to the
\* end of the stream; there it closes the connection, and what it had read is
\* not handled.
HandleRead ==
  LET k == Handled
      n == ReadSize(k)
      end == n < BUFF /\ peer[k] # "open"
  IN  /\ ~ down /\ pc = "read"
      /\ done < Len(results)
      /\ inbox' = [inbox EXCEPT ![k] = SubSeq(@, n + 1, Len(@))]
      /\ IF end THEN handle_close(k) ELSE UNCHANGED <<items, epollVars>>
      /\ IF end \/ n = 0
         THEN done' = done + 1 /\ UNCHANGED <<pc, buff>>
         ELSE pc' = "http" /\ buff' = SubSeq(inbox[k], 1, n) /\ UNCHANGED done
      /\ UNCHANGED <<num, peer, sends, batch, results, dying, Keep_Alive, served, down>>
      /\ Destroyed

Rearmed_Not(k, out) == edge
\* Epoll_Mod: the kernel looks at the descriptor anew and reports what it finds;
\* with EPOLLOUT also that it can be written, be there anything to read or not.
Rearmed(k, out) == IF k \in interest /\ (out \/ Readable(k)) THEN edge \cup {k} ELSE edge

\* handle_http and HandleWrite.  Which page the URI selects makes no difference
\* here.  A response that does not fit into the send buffer is cut and asks for
\* EPOLLOUT; either way Epoll_Mod is called.  Writing to a connection the client
\* has reset ends in SIGPIPE.
handle_http ==
  LET k == Handled
  IN  /\ ~ down /\ pc = "http"
      /\ IF peer[k] = "reset"
         THEN down' = TRUE /\ UNCHANGED <<Keep_Alive, edge, pc>>
         ELSE /\ Keep_Alive' = [Keep_Alive EXCEPT ![k] = @ \/ AsksKeepAlive(buff)]
              /\ \E cut \in BOOLEAN : edge' = Rearmed(k, cut)
              /\ pc' = "timer"
              /\ UNCHANGED down
      /\ UNCHANGED <<state, num, clientVars, Mmap, interest, batch, results, done, buff,
                     timerVars, served>>

\* The end of handle_event: the old timer is separated; a connection to be kept
\* gets a new one, another is closed.
SetTimer ==
  LET k == Handled
  IN  /\ ~ down /\ pc = "timer"
      /\ served' = [served EXCEPT ![k] = @ + 1]
      /\ IF Keep_Alive[k]
         THEN /\ items' = SeparateTimer(k) \cup {[conn |-> k, after |-> served[k] + 1]}
              /\ UNCHANGED epollVars
         ELSE handle_close(k)
      /\ pc' = "read" /\ done' = done + 1 /\ buff' = << >>
      /\ UNCHANGED <<num, clientVars, batch, results, dying, Keep_Alive, down>>
      /\ Destroyed

-----------------------------------------------------------------------------
(* The timer thread *)

\* An item's last reference is dropped: its destructor runs, and lock() of a
\* weak_ptr to it fails from here on.
Expire(i) ==
  /\ ~ down /\ dying = Idle
  /\ i \in items
  /\ items' = items \ {i}
  /\ dying' = i
  /\ UNCHANGED <<state, num, clientVars, epollVars, loopVars, Keep_Alive, served, down>>

\* ~TimeRoundItem: fun() is Close, that is Epoll_Del; then the channel is released.
TimerClose ==
  /\ ~ down /\ dying # Idle
  /\ Epoll_Del(num[dying.conn])
  /\ dying' = Idle
  /\ UNCHANGED <<num, clientVars, loopVars, items, Keep_Alive, served, down>>
  /\ Destroyed

-----------------------------------------------------------------------------

LoopStep == Poll \/ PollFind \/ PollTake \/ BatchDone \/ HandleRead \/ handle_http \/ SetTimer

TimerStep == TimerClose \/ \E i \in items : Expire(i)

Next ==
  \/ \E k \in Conns :
       \/ \E piece \in Pieces : Send(k, piece)
       \/ Hangup(k, "eof") \/ Hangup(k, "reset")
       \/ \E fd \in Fds : Add_New_Connect(k, fd)
  \/ LoopStep
  \/ TimerStep

Spec == Init /\ [][Next]_vars

\* The loop runs whenever it has something to do; the timer thread turns the
\* wheel, so every item expires, and runs the destructors of those that have.
FairSpec == Spec /\ WF_vars(LoopStep) /\ WF_vars(TimerStep)

-----------------------------------------------------------------------------
(* Properties *)

\* Whenever the loop is about to wait, a registered connection with unread data
\* or an unseen end of stream has an event pending: edge-triggered events are
\* never used up with data left behind, full buffers and pipelined requests
\* included.
NothingUnread ==
  pc = "poll" => \A k \in interest : Readable(k) => k \in edge

\* Mmap holds live channels under their own numbers, and an open descriptor has
\* one channel, while two threads erase and the kernel gives numbers out again:
\* the destructor of an item never erases another connection's entry.
MmapSound ==
  /\ \A fd \in Fds : Mmap[fd] # None => state[Mmap[fd]] = "open" /\ num[Mmap[fd]] = fd
  /\ \A k \in Conns : k \in interest <=> \E fd \in Fds : Mmap[fd] = k
  /\ \A j, k \in Conns : j # k /\ state[j] = "open" /\ state[k] = "open" => num[j] # num[k]
  /\ dying # Idle => Mmap[num[dying.conn]] \in {None, dying.conn}

\* An item on the wheel is that of its connection's last request and the
\* connection's only one there: SeparateTimer has made those of earlier requests
\* forget it.  Only an item whose destructor has begun is out of its reach: that
\* one may be of an earlier request, and it closes the connection even though a
\* later one has been served since; its successor, if there is one, is on the
\* wheel.  An open connection that has been served and is not being handled is
\* never without a timer.
OneTimer ==
  /\ \A i, j \in items : i.conn = j.conn => i = j
  /\ \A i \in items : i.after = served[i.conn]
  /\ dying # Idle =>
       /\ dying.after <= served[dying.conn]
       /\ \A i \in items : i.conn = dying.conn => dying.after < i.after
  /\ \A k \in Conns : state[k] = "open" /\ served[k] > 0 /\ k \notin Range(results) =>
       \E i \in items \cup {dying} : i.conn = k

\* A connection that has been served and whose client sends no more (MaxSends)
\* is eventually closed, even when the client never hangs up, unless the process
\* dies: no reference keeps the channel.
EventuallyReleased ==
  \A k \in Conns : (state[k] = "open" /\ served[k] > 0) ~> (state[k] = "gone" \/ down)

\* When the buffer begins with a whole request, written with ": " and CR LF, the
\* connection is treated as that request asks, whatever the buffer holds behind
\* it: the parser has found its URI, and the connection is kept if its last
\* Connection header says so; one that is served for the first time, only then.
\* (On a later request a Connection header other than keep-alive does not undo
\* Keep_Alive.  Of buffers that begin otherwise nothing is said.)
KeptAsAsked ==
  pc = "timer" =>
    \A r \in Requests : IsPrefix(Render(r), buff) =>
      LET asks == Says(r, "Connection", {"keep-alive", "Keep-Alive"})
      IN  /\ handle_request_line(buff).URI = <<r.URI>>
          /\ asks => Keep_Alive[Handled]
          /\ Keep_Alive[Handled] => asks \/ served[Handled] > 0

=============================================================================
