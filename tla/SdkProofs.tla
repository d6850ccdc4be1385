------------------------------ MODULE SdkProofs ------------------------------
(***************************************************************************)
(* Theorems about SdkConnection, for every number of connections, retries, *)
(* failures and messages.  The argument follows the turn of a connection:  *)
(* its timer, its request for a URL or its one live socket.                *)
(***************************************************************************)
EXTENDS SdkConnection, FiniteSetTheorems, SequenceTheorems, TLAPS

Link == [ws : Sockets \union {None}, isOpen : BOOLEAN, closedByUser : BOOLEAN,
         attempts : 0 .. MaxRetries, timers : Nat, getting : Nat,
         pending : Seq(Nat), streak : Nat]

SocketStates == {"unused", "connecting", "open", "closing", "closed"}
Socket == [owner : Conns \union {None}, pc : SocketStates, sent : Seq(Nat)]

(* TypeOK in two parts, without what Queues says. *)
Linked ==
    /\ link \in [Conns -> Link] /\ sock \in [Sockets -> Socket]
    /\ \A c \in Conns : link[c].isOpen => link[c].ws # None /\ sock[link[c].ws].pc = "open"

Scalars ==
    /\ conn \in Conns \union {None} /\ made \in 0 .. MaxConns
    /\ view \in {"disconnected", "connecting", "connected"}
    /\ said \in 0 .. MaxSaid /\ lost \subseteq Said
    /\ failures \in 0 .. MaxFailures

Live(s) == sock[s].pc \in {"connecting", "open"}

(* The queue is bounded, and holds only what the application has said.     *)
Queues ==
    \A c \in Conns :
        /\ Len(link[c].pending) <= MaxPending
        /\ \A i \in 1 .. Len(link[c].pending) : link[c].pending[i] \in 0 .. said

(* Whose turn it is: a timer, a URL or a socket, and nothing's once the    *)
(* connection is closed, apart from the URL it waited for then.            *)
Turns ==
    /\ \A c \in Conns :
         /\ link[c].timers + link[c].getting <= 1
         /\ link[c].closedByUser => link[c].timers = 0
         /\ link[c].ws # None => sock[link[c].ws].owner = c
    /\ \A s \in Sockets :
         /\ Live(s) => LET c == sock[s].owner
                       IN  /\ c \in Conns /\ link[c].ws = s
                           /\ link[c].timers = 0 /\ link[c].getting = 0
         /\ sock[s].pc = "closing" =>
                sock[s].owner \in Conns /\ link[sock[s].owner].closedByUser
         /\ sock[s].pc = "unused" => sock[s].owner = None
         /\ sock[s].owner <= made

(* Connections are made one after the other, each when the last is closed. *)
OneAfterTheOther ==
    /\ conn <= made
    /\ \A c \in Conns :
         /\ c > made => link[c] = Fresh
         /\ c <= made /\ c # conn => link[c].closedByUser
         /\ c = conn => ~link[c].closedByUser

(* The open socket of the session's connection has been greeted. *)
Greeted ==
    \A s \in Sockets :
        /\ sock[s].pc \in {"unused", "connecting"} => sock[s].sent = << >>
        /\ sock[s].sent # << >> => Head(sock[s].sent) = Hello
        /\ sock[s].pc = "open" /\ sock[s].owner = conn => sock[s].sent # << >>

Inv == Linked /\ Scalars /\ strayed \in BOOLEAN /\ Queues /\ Turns /\ OneAfterTheOther /\ Greeted

-----------------------------------------------------------------------------
(* What the operators on a connection keep. *)

LEMMA Bounds ==
    /\ MaxConns \in Nat \ {0} /\ MaxPending \in Nat \ {0}
    /\ MaxRetries \in Nat /\ MaxSaid \in Nat /\ MaxFailures \in Nat
  BY SdkAssumption DEF SdkAssumption

LEMMA ScheduledKeeps ==
    ASSUME NEW l \in Link
    PROVE  /\ Scheduled(l) \in Link
           /\ Scheduled(l).ws = l.ws /\ Scheduled(l).isOpen = l.isOpen
           /\ Scheduled(l).closedByUser = l.closedByUser
           /\ Scheduled(l).getting = l.getting
           /\ Scheduled(l).pending = l.pending
           /\ Scheduled(l).timers >= l.timers
           /\ l.closedByUser => Scheduled(l).timers = l.timers
           /\ l.timers <= 1 => Scheduled(l).timers <= 1
<1> DEFINE next == [l EXCEPT !.timers = @ + 1, !.attempts = @ + 1]
<1>1. CASE l.closedByUser \/ l.attempts >= MaxRetries \/ l.timers > 0
  <2>1. l.timers \in Nat
    BY DEF Link
  <2> QED
    BY <1>1, <2>1 DEF Scheduled
<1>2. CASE ~(l.closedByUser \/ l.attempts >= MaxRetries \/ l.timers > 0)
  <2>1. l.timers + 1 \in Nat /\ l.attempts + 1 \in 0 .. MaxRetries /\ l.timers = 0
    BY <1>2, Bounds DEF Link
  <2>2. next \in Link
    BY <2>1 DEF Link
  <2>3. /\ next.ws = l.ws /\ next.isOpen = l.isOpen /\ next.closedByUser = l.closedByUser
        /\ next.getting = l.getting /\ next.pending = l.pending /\ next.timers = 1
    BY <2>1 DEF Link
  <2>4. Scheduled(l) = next
    BY <1>2 DEF Scheduled
  <2> QED
    BY <1>2, <2>1, <2>2, <2>3, <2>4
<1> QED
  BY <1>1, <1>2

LEMMA BrokenKeeps ==
    ASSUME NEW l \in Link
    PROVE  /\ Broken(l) \in Link
           /\ Broken(l).ws = l.ws /\ ~Broken(l).isOpen
           /\ Broken(l).closedByUser = l.closedByUser
           /\ Broken(l).getting = l.getting
           /\ Broken(l).pending = l.pending
           /\ l.closedByUser => Broken(l).timers = l.timers
           /\ l.timers <= 1 => Broken(l).timers <= 1
<1> DEFINE once == Scheduled(l)
           told == [once EXCEPT !.isOpen = FALSE, !.streak = @ + 1]
<1>1. once \in Link
  BY ScheduledKeeps
<1>2. /\ told \in Link
      /\ told.ws = once.ws /\ ~told.isOpen /\ told.closedByUser = once.closedByUser
      /\ told.getting = once.getting /\ told.pending = once.pending
      /\ told.timers = once.timers
  <2> HIDE DEF once
  <2>1. once.streak + 1 \in Nat
    BY <1>1 DEF Link
  <2>2. told \in Link
    BY <1>1, <2>1 DEF Link
  <2>3. told.ws = once.ws /\ told.isOpen = FALSE /\ told.closedByUser = once.closedByUser
    BY <1>1 DEF Link
  <2>4. told.getting = once.getting /\ told.pending = once.pending /\ told.timers = once.timers
    BY <1>1 DEF Link
  <2> QED
    BY <2>2, <2>3, <2>4
<1>3. Broken(l) = Scheduled(told)
  BY DEF Broken
<1> HIDE DEF told
<1>4. /\ Scheduled(told) \in Link
      /\ Scheduled(told).ws = told.ws /\ Scheduled(told).isOpen = told.isOpen
      /\ Scheduled(told).closedByUser = told.closedByUser
      /\ Scheduled(told).getting = told.getting
      /\ Scheduled(told).pending = told.pending
      /\ told.closedByUser => Scheduled(told).timers = told.timers
      /\ told.timers <= 1 => Scheduled(told).timers <= 1
  BY <1>2, ScheduledKeeps
<1> QED
  BY <1>2, <1>3, <1>4, ScheduledKeeps

LEMMA QueuedKeeps ==
    ASSUME NEW l \in Link, NEW m \in Nat, NEW n \in Nat, m <= n,
           Len(l.pending) <= MaxPending,
           \A i \in 1 .. Len(l.pending) : l.pending[i] \in 0 .. n
    PROVE  /\ Queued(l, m) \in Link
           /\ Len(Queued(l, m).pending) <= MaxPending
           /\ \A i \in 1 .. Len(Queued(l, m).pending) : Queued(l, m).pending[i] \in 0 .. n
           /\ Queued(l, m) = [l EXCEPT !.pending = Queued(l, m).pending]
           /\ Overflown(l) \subseteq 1 .. n
<1> DEFINE all == Append(l.pending, m)
           kept == IF Len(all) > MaxPending THEN Tail(all) ELSE all
<1>1. l.pending \in Seq(Nat)
  BY DEF Link
<1>2. /\ all \in Seq(Nat) /\ Len(all) = Len(l.pending) + 1
      /\ \A i \in 1 .. Len(all) : all[i] \in 0 .. n
  BY <1>1
<1>3. /\ kept \in Seq(Nat) /\ Len(kept) <= MaxPending
      /\ \A i \in 1 .. Len(kept) : kept[i] \in 0 .. n
  BY <1>2, Bounds, SMTT(40)
<1>4. Queued(l, m) = [l EXCEPT !.pending = kept]
  BY DEF Queued
<1>5. Queued(l, m) \in Link /\ Queued(l, m).pending = kept
  <2> HIDE DEF kept
  <2> QED BY <1>3, <1>4 DEF Link
<1>6. Overflown(l) \subseteq 1 .. n
  BY <1>1, Bounds DEF Overflown, Hello
<1> QED
  BY <1>3, <1>4, <1>5, <1>6

LEMMA OpenedKeeps ==
    ASSUME NEW l \in Link
    PROVE  Opened(l) = [l EXCEPT !.isOpen = TRUE, !.attempts = 0, !.pending = << >>, !.streak = 0]
           /\ Opened(l) \in Link
<1>1. 0 \in 0 .. MaxRetries /\ << >> \in Seq(Nat)
  BY Bounds
<1>2. [l EXCEPT !.isOpen = TRUE, !.attempts = 0, !.pending = << >>, !.streak = 0] \in Link
  BY <1>1 DEF Link
<1> QED
  BY <1>2 DEF Opened

-----------------------------------------------------------------------------
LEMMA InvTyped == Inv => TypeOK
  BY DEF Inv, Linked, Scalars, Queues, TypeOK, Link, Socket, SocketStates

LEMMA FreshType == Fresh \in Link
<1>1. 0 \in 0 .. MaxRetries /\ << >> \in Seq(Nat)
  BY Bounds
<1> QED
  BY <1>1 DEF Fresh, Link

LEMMA InvInit == Init => Inv
<1> SUFFICES ASSUME Init PROVE Inv
  OBVIOUS
<1>2. Linked
  BY FreshType DEF Init, Linked, Socket, SocketStates, Fresh
<1>3. Scalars
  <2>1. conn \in Conns \union {None} /\ made \in 0 .. MaxConns /\ view = "disconnected"
    BY Bounds DEF Init
  <2>2. said \in 0 .. MaxSaid /\ lost \subseteq Said /\ failures \in 0 .. MaxFailures
    BY Bounds DEF Init, Said
  <2> QED
    BY <2>1, <2>2 DEF Scalars
<1>4. Queues /\ Turns /\ OneAfterTheOther /\ Greeted
  BY Bounds DEF Init, Queues, Turns, OneAfterTheOther, Greeted, Live, Fresh, Conns, None
<1>5. strayed \in BOOLEAN
  BY DEF Init
<1> QED
  BY <1>2, <1>3, <1>4, <1>5 DEF Inv

(* connect(): the new connection has nothing yet. *)
LEMMA ConnectStep == ASSUME Inv, Connect PROVE Inv'
<1> DEFINE d == made + 1
           new == [Fresh EXCEPT !.getting = 1]
<1>1. /\ conn = None /\ d \in Conns /\ link[d] = Fresh
      /\ conn' = d /\ made' = d /\ view' = "connecting"
      /\ link' = [link EXCEPT ![d] = new]
      /\ UNCHANGED <<sock, said, lost, strayed, failures>>
  <2>1. conn = None /\ made < MaxConns /\ made \in Nat
    BY Bounds DEF Connect, Inv, Scalars
  <2>2. d \in Conns /\ d > made
    BY <2>1, Bounds DEF Conns
  <2>3. link[d] = Fresh
    BY <2>2 DEF Inv, OneAfterTheOther
  <2> QED
    BY <2>1, <2>2, <2>3 DEF Connect, Inv, Linked
<1>2. \A s \in Sockets : sock[s].owner # d
  BY Bounds DEF Inv, Turns, Scalars, Linked, Socket, Conns, None
<1>3. /\ new \in Link
      /\ new.ws = None /\ ~new.isOpen /\ ~new.closedByUser
      /\ new.timers = 0 /\ new.getting = 1 /\ new.pending = << >>
  <2>1. Fresh \in Link
    BY FreshType
  <2>2. /\ Fresh.ws = None /\ ~Fresh.isOpen /\ ~Fresh.closedByUser
        /\ Fresh.timers = 0 /\ Fresh.pending = << >>
    BY DEF Fresh
  <2>3. new \in Link /\ new.getting = 1 /\ new.pending = Fresh.pending
    BY <2>1 DEF Link
  <2>4. new.ws = Fresh.ws /\ new.timers = Fresh.timers
    BY <2>1 DEF Link
  <2>5. new.isOpen = Fresh.isOpen /\ new.closedByUser = Fresh.closedByUser
    BY <2>1 DEF Link
  <2> QED
    BY <2>2, <2>3, <2>4, <2>5
<1> HIDE DEF new
<1>4. Linked'
  BY <1>1, <1>3 DEF Inv, Linked
<1>5. Scalars'
  BY <1>1, Bounds DEF Inv, Scalars, Conns, None, Said
<1>6. Queues'
  BY <1>1, <1>3, Bounds DEF Inv, Queues, Linked
<1>7. Turns'
  <2>1. \A c \in Conns : c # d => link'[c] = link[c]
    BY <1>1 DEF Inv, Linked
  <2>2. link'[d] = new
    BY <1>1 DEF Inv, Linked
  <2>3. \A s \in Sockets : sock[s].owner <= made'
    BY <1>1, Bounds DEF Inv, Linked, Scalars, Turns, Socket, None, Conns
  <2>4. ASSUME NEW c \in Conns
        PROVE  /\ link'[c].timers + link'[c].getting <= 1
               /\ link'[c].closedByUser => link'[c].timers = 0
               /\ link'[c].ws # None => sock[link'[c].ws].owner = c
    BY <1>3, <2>1, <2>2 DEF Inv, Turns
  <2>5. ASSUME NEW s \in Sockets
        PROVE  /\ Live(s) => LET c == sock[s].owner
                             IN  /\ c \in Conns /\ link'[c].ws = s
                                 /\ link'[c].timers = 0 /\ link'[c].getting = 0
               /\ sock[s].pc = "closing" =>
                      sock[s].owner \in Conns /\ link'[sock[s].owner].closedByUser
               /\ sock[s].pc = "unused" => sock[s].owner = None
    BY <1>2, <2>1 DEF Inv, Turns
  <2> QED
    BY <1>1, <2>3, <2>4, <2>5 DEF Turns, Live
<1>8. OneAfterTheOther'
  BY <1>1, <1>3, Bounds DEF Inv, Linked, Scalars, OneAfterTheOther, None, Conns
<1>9. Greeted'
  BY <1>1, <1>2 DEF Inv, Greeted
<1>10. strayed' \in BOOLEAN
  BY <1>1 DEF Inv
<1> QED
  BY <1>4, <1>5, <1>6, <1>7, <1>8, <1>9, <1>10 DEF Inv

(* All other actions change one connection, and sockets of that connection *)
(* or one that was nobody's.                                               *)
LEMMA OneChanges ==
    ASSUME Inv, NEW STATE c, c \in Conns, c <= made, made' = made, said <= said', said' \in Nat,
           link' \in [Conns -> Link], sock' \in [Sockets -> Socket],
           \A d \in Conns : d # c => link'[d] = link[d],
           \A t \in Sockets : sock'[t] # sock[t] =>
               sock[t].owner \in {c, None} /\ sock'[t].owner = c,
           Len(link'[c].pending) <= MaxPending,
           \A i \in 1 .. Len(link'[c].pending) : link'[c].pending[i] \in 0 .. said',
           link'[c].timers + link'[c].getting <= 1,
           link'[c].closedByUser => link'[c].timers = 0,
           link'[c].ws # None => sock'[link'[c].ws].owner = c,
           link'[c].isOpen => link'[c].ws # None /\ sock'[link'[c].ws].pc = "open",
           \A t \in Sockets : sock'[t].owner = c =>
               /\ Live(t)' => link'[c].ws = t /\ link'[c].timers = 0 /\ link'[c].getting = 0
               /\ sock'[t].pc = "closing" => link'[c].closedByUser
               /\ sock'[t].pc # "unused"
    PROVE  Linked' /\ Queues' /\ Turns'
<1>1. \A d \in Conns : d # c /\ link[d].ws # None => sock'[link[d].ws] = sock[link[d].ws]
  <2> SUFFICES ASSUME NEW d \in Conns, d # c, link[d].ws # None
               PROVE  sock'[link[d].ws] = sock[link[d].ws]
    OBVIOUS
  <2>1. link[d].ws \in Sockets /\ sock[link[d].ws].owner = d
    BY SMTT(40) DEF Inv, Linked, Link, Turns
  <2>2. d # None
    BY DEF Conns, None
  <2> QED
    BY <2>1, <2>2
<1>2. Linked'
  BY <1>1 DEF Inv, Linked
<1>3. Queues'
  <2>1. said \in Nat
    BY Bounds DEF Inv, Scalars
  <2>2. ASSUME NEW d \in Conns, d # c
        PROVE  /\ Len(link'[d].pending) <= MaxPending
               /\ \A i \in 1 .. Len(link'[d].pending) : link'[d].pending[i] \in 0 .. said'
    <3>1. 0 .. said \subseteq 0 .. said'
      BY <2>1
    <3> QED
      BY <2>2, <3>1 DEF Inv, Queues
  <2> QED
    BY <2>2 DEF Queues
<1>4. Turns'
  <2>1. ASSUME NEW d \in Conns
        PROVE  /\ link'[d].timers + link'[d].getting <= 1
               /\ link'[d].closedByUser => link'[d].timers = 0
               /\ link'[d].ws # None => sock'[link'[d].ws].owner = d
    BY <1>1 DEF Inv, Turns
  <2>2. ASSUME NEW t \in Sockets
        PROVE  /\ Live(t)' => LET d == sock'[t].owner
                              IN  /\ d \in Conns /\ link'[d].ws = t
                                  /\ link'[d].timers = 0 /\ link'[d].getting = 0
               /\ sock'[t].pc = "closing" =>
                      sock'[t].owner \in Conns /\ link'[sock'[t].owner].closedByUser
               /\ sock'[t].pc = "unused" => sock'[t].owner = None
               /\ sock'[t].owner <= made'
    <3>1. CASE sock'[t].owner = c
      BY <3>1
    <3>2. CASE sock'[t].owner # c
      <4>1. sock'[t] = sock[t]
        BY <3>2
      <4> QED
        BY <3>2, <4>1 DEF Inv, Turns, Live
    <3> QED
      BY <3>1, <3>2
  <2> QED
    BY <2>1, <2>2 DEF Turns
<1> QED
  BY <1>2, <1>3, <1>4

LEMMA NobodyLeaves ==
    ASSUME Inv, NEW STATE c, c \in Conns, c <= made, UNCHANGED <<conn, made>>,
           \A d \in Conns : d # c => link'[d] = link[d],
           link'[c].closedByUser = link[c].closedByUser
    PROVE  OneAfterTheOther'
<1>1. made \in Nat /\ Conns \subseteq Nat
  BY Bounds DEF Inv, Scalars, Conns
<1>2. ASSUME NEW d \in Conns
      PROVE  /\ d > made => link'[d] = Fresh
             /\ d <= made /\ d # conn => link'[d].closedByUser
             /\ d = conn => ~link'[d].closedByUser
  BY <1>1 DEF Inv, OneAfterTheOther
<1> QED
  BY <1>2 DEF Inv, OneAfterTheOther

(* What is sent on a socket matters to Greeted only. *)
LEMMA OnlySent ==
    ASSUME Inv, UNCHANGED <<link, conn, made>>, said <= said', said' \in Nat,
           sock' \in [Sockets -> Socket],
           \A t \in Sockets : sock'[t].owner = sock[t].owner /\ sock'[t].pc = sock[t].pc
    PROVE  Linked' /\ Queues' /\ Turns' /\ OneAfterTheOther'
<1>1. 0 .. said \subseteq 0 .. said'
  BY Bounds DEF Inv, Scalars
<1>2. \A c \in Conns : link[c].ws # None => link[c].ws \in Sockets
  BY DEF Inv, Linked, Link
<1>3. \A t \in Sockets : Live(t)' = Live(t)
  BY DEF Live
<1>4. Linked'
  BY <1>2 DEF Inv, Linked
<1>5. Queues'
  BY <1>1 DEF Inv, Queues
<1>6. Turns'
  BY <1>2, <1>3 DEF Inv, Turns
<1>7. OneAfterTheOther'
  BY DEF Inv, OneAfterTheOther
<1> QED
  BY <1>4, <1>5, <1>6, <1>7

LEMMA SentType ==
    ASSUME NEW t \in Socket, NEW m \in Nat
    PROVE  /\ [t EXCEPT !.sent = Append(@, m)] \in Socket
           /\ [t EXCEPT !.sent = Append(@, m)].sent = Append(t.sent, m)
           /\ [t EXCEPT !.sent = Append(@, m)].owner = t.owner
           /\ [t EXCEPT !.sent = Append(@, m)].pc = t.pc
           /\ t.sent \in Seq(Nat)
<1>1. t.sent \in Seq(Nat) /\ Append(t.sent, m) \in Seq(Nat)
  BY DEF Socket
<1> QED
  BY <1>1 DEF Socket

LEMMA CurrentConn ==
    ASSUME Inv, conn # None
    PROVE  conn \in Conns /\ conn <= made /\ ~link[conn].closedByUser
  BY DEF Inv, Scalars, OneAfterTheOther

LEMMA OwnerMade ==
    ASSUME Inv, NEW s \in Sockets, sock[s].owner \in Conns
    PROVE  sock[s].owner <= made
  BY DEF Inv, Turns

(* A message is sent, or waits. *)
LEMMA SayStep == ASSUME Inv, Say PROVE Inv'
<1>1. /\ conn \in Conns /\ conn <= made /\ said' = said + 1 /\ said' \in 0 .. MaxSaid
      /\ said \in Nat /\ UNCHANGED <<conn, made, view, strayed, failures>>
  BY CurrentConn, Bounds DEF Say, Inv, Scalars
<1>2. link[conn] \in Link
  BY <1>1 DEF Inv, Linked
<1>5. strayed' \in BOOLEAN
  BY <1>1 DEF Inv
<1>3. CASE link[conn].isOpen
  <2> DEFINE w == link[conn].ws
  <2>1. w \in Sockets /\ sock[w].pc = "open" /\ sock[w].owner = conn
    BY <1>1, <1>2, <1>3 DEF Inv, Linked, Turns, Link
  <2>2. /\ sock' = [sock EXCEPT ![w].sent = Append(@, said')]
        /\ UNCHANGED <<link, lost>>
    BY <1>3 DEF Say
  <2> HIDE DEF w
  <2>3. /\ sock' \in [Sockets -> Socket]
        /\ sock'[w].sent = Append(sock[w].sent, said') /\ sock[w].sent \in Seq(Nat)
        /\ \A t \in Sockets : t # w => sock'[t] = sock[t]
        /\ \A t \in Sockets : sock'[t].owner = sock[t].owner /\ sock'[t].pc = sock[t].pc
    <3> DEFINE new == [sock[w] EXCEPT !.sent = Append(@, said')]
    <3>1. /\ new \in Socket /\ new.sent = Append(sock[w].sent, said')
          /\ new.owner = sock[w].owner /\ new.pc = sock[w].pc /\ sock[w].sent \in Seq(Nat)
      BY <1>1, <2>1, SentType DEF Inv, Linked
    <3>2. sock' = [sock EXCEPT ![w] = new]
      BY <2>2
    <3> HIDE DEF new
    <3> QED
      BY <2>1, <3>1, <3>2 DEF Inv, Linked
  <2>4. Linked' /\ Queues' /\ Turns' /\ OneAfterTheOther'
    BY <1>1, <2>2, <2>3, OnlySent
  <2>8. Greeted'
    <3>1. sock[w].sent # << >> /\ Head(sock[w].sent) = Hello
      BY <2>1 DEF Inv, Greeted
    <3>2. sock'[w].sent # << >> /\ Head(sock'[w].sent) = Hello
      BY <1>1, <2>3, <3>1
    <3> QED
      BY <1>1, <2>1, <2>3, <3>2 DEF Inv, Greeted
  <2>9. Scalars'
    BY <1>1, <2>2 DEF Inv, Scalars, Said
  <2> QED
    BY <1>5, <2>4, <2>8, <2>9 DEF Inv
<1>4. CASE ~link[conn].isOpen
  <2>1. /\ link' = [link EXCEPT ![conn] = Queued(link[conn], said')]
        /\ lost' = lost \union Overflown(link[conn])
        /\ UNCHANGED sock
    BY <1>4 DEF Say
  <2>2. /\ Len(link[conn].pending) <= MaxPending
        /\ \A i \in 1 .. Len(link[conn].pending) : link[conn].pending[i] \in 0 .. said'
    BY <1>1 DEF Inv, Queues
  <2> DEFINE l == Queued(link[conn], said')
  <2>3. /\ l \in Link /\ Len(l.pending) <= MaxPending
        /\ \A i \in 1 .. Len(l.pending) : l.pending[i] \in 0 .. said'
        /\ l = [link[conn] EXCEPT !.pending = l.pending]
    BY <1>1, <1>2, <2>2, QueuedKeeps, SMTT(40)
  <2>4. Overflown(link[conn]) \subseteq 1 .. said
    BY <1>1, <1>2, QueuedKeeps DEF Inv, Queues
  <2> HIDE DEF l
  <2>5. /\ l.ws = link[conn].ws /\ l.isOpen = link[conn].isOpen
        /\ l.closedByUser = link[conn].closedByUser
        /\ l.timers = link[conn].timers /\ l.getting = link[conn].getting
    BY <1>2, <2>3 DEF Link
  <2>6. /\ link' \in [Conns -> Link] /\ link'[conn] = l
        /\ \A d \in Conns : d # conn => link'[d] = link[d]
    BY <1>1, <2>1, <2>3 DEF Inv, Linked, l
  <2>7. Linked' /\ Queues' /\ Turns'
    <3>1. /\ l.timers + l.getting <= 1
          /\ l.closedByUser => l.timers = 0
          /\ l.ws # None => sock[l.ws].owner = conn
          /\ l.isOpen => l.ws # None /\ sock[l.ws].pc = "open"
          /\ sock' \in [Sockets -> Socket]
      BY <1>1, <2>1, <2>5 DEF Inv, Turns, Linked
    <3>2. ASSUME NEW t \in Sockets, sock[t].owner = conn
          PROVE  /\ Live(t) => l.ws = t /\ l.timers = 0 /\ l.getting = 0
                 /\ sock[t].pc = "closing" => l.closedByUser
                 /\ sock[t].pc # "unused"
      BY <1>1, <2>5, <3>2 DEF Inv, Turns, Conns, None
    <3>3. \A t \in Sockets : Live(t)' = Live(t)
      BY <2>1 DEF Live
    <3> QED
      BY <1>1, <2>1, <2>3, <2>6, <3>1, <3>2, <3>3, OneChanges
  <2>8. OneAfterTheOther'
    BY <1>1, <2>5, <2>6, NobodyLeaves
  <2>9. Greeted' /\ Scalars'
    <3>1. Greeted'
      BY <1>1, <2>1 DEF Inv, Greeted
    <3>2. lost' \subseteq 1 .. said'
      <4>1. 1 .. said \subseteq 1 .. said'
        BY <1>1
      <4>2. lost \subseteq 1 .. said
        BY DEF Inv, Scalars, Said
      <4> QED
        BY <2>1, <2>4, <4>1, <4>2
    <3>3. Scalars'
      BY <1>1, <3>2 DEF Inv, Scalars, Said
    <3> QED
      BY <3>1, <3>3
  <2> QED
    BY <1>5, <2>7, <2>8, <2>9 DEF Inv
<1> QED
  BY <1>3, <1>4

(* close(). *)
LEMMA CloseStep == ASSUME Inv, Close PROVE Inv'
<1> DEFINE l == [link[conn] EXCEPT !.closedByUser = TRUE, !.isOpen = FALSE,
                   !.pending = << >>, !.timers = 0, !.ws = None]
<1>1. /\ conn \in Conns /\ conn <= made /\ conn' = None /\ view' = "disconnected"
      /\ lost' = lost \union (ToSet(link[conn].pending) \ {Hello})
      /\ UNCHANGED <<made, said, strayed, failures>>
  BY CurrentConn DEF Close
<1>2. link[conn] \in Link /\ link[conn].pending \in Seq(Nat)
  BY <1>1 DEF Inv, Linked, Link
<1>3. /\ l \in Link /\ l.pending = << >> /\ l.timers = 0 /\ l.ws = None
      /\ l.getting = link[conn].getting
  <2>1. << >> \in Seq(Nat)
    OBVIOUS
  <2> QED
    BY <1>2, <2>1 DEF Link
<1>4. ~l.isOpen /\ l.closedByUser
  BY <1>2 DEF Link
<1>5. link' = [link EXCEPT ![conn] = l]
  BY DEF Close
<1> HIDE DEF l
<1>6. /\ link' \in [Conns -> Link] /\ link'[conn] = l
      /\ \A d \in Conns : d # conn => link'[d] = link[d]
  BY <1>1, <1>3, <1>5 DEF Inv, Linked
<1>7. ASSUME NEW s \in Sockets
      PROVE  /\ sock'[s] \in Socket
             /\ sock'[s].owner = sock[s].owner /\ sock'[s].sent = sock[s].sent
             /\ s # link[conn].ws => sock'[s] = sock[s]
             /\ s = link[conn].ws => ~Live(s)'
             /\ sock'[s].pc # sock[s].pc => s = link[conn].ws /\ sock'[s].pc = "closing"
  <2>1. sock[s] \in Socket /\ [sock[s] EXCEPT !.pc = "closing"] \in Socket
    BY DEF Inv, Linked, Socket, SocketStates
  <2>2. sock'[s] = IF s = link[conn].ws /\ Live(s)
                   THEN [sock[s] EXCEPT !.pc = "closing"] ELSE sock[s]
    BY DEF Close, Live
  <2>3. /\ [sock[s] EXCEPT !.pc = "closing"].pc = "closing"
        /\ [sock[s] EXCEPT !.pc = "closing"].owner = sock[s].owner
        /\ [sock[s] EXCEPT !.pc = "closing"].sent = sock[s].sent
    BY <2>1 DEF Socket
  <2> QED
    BY <2>1, <2>2, <2>3 DEF Live
<1>8. sock' \in [Sockets -> Socket]
  BY <1>7 DEF Close
<1>9. /\ \A t \in Sockets : sock'[t] # sock[t] =>
           sock[t].owner \in {conn, None} /\ sock'[t].owner = conn
      /\ \A t \in Sockets : sock'[t].owner = conn => ~Live(t)' /\ sock'[t].pc # "unused"
  <2>1. \A t \in Sockets : t = link[conn].ws => sock[t].owner = conn
    BY <1>1 DEF Inv, Turns, Scalars, Conns, None, Sockets
  <2>2. \A t \in Sockets : sock[t].owner = conn /\ Live(t) => t = link[conn].ws
    BY <1>1 DEF Inv, Turns
  <2>3. \A t \in Sockets : sock[t].owner = conn => sock[t].pc # "unused"
    BY <1>1 DEF Inv, Turns, Conns, None
  <2>4. \A t \in Sockets : sock'[t].owner = conn => sock'[t].pc # "unused"
    BY <1>7, <2>3
  <2> QED
    BY <1>7, <2>1, <2>2, <2>4 DEF Live
<1>10. Linked' /\ Queues' /\ Turns'
  <2>1. l.timers + l.getting <= 1 /\ Len(l.pending) <= MaxPending
    BY <1>1, <1>3, Bounds DEF Inv, Turns, Linked, Link
  <2>2. said' \in Nat /\ said <= said'
    BY <1>1, Bounds DEF Inv, Scalars
  <2> QED
    BY <1>1, <1>3, <1>4, <1>6, <1>8, <1>9, <2>1, <2>2, OneChanges
<1>11. OneAfterTheOther'
  BY <1>1, <1>4, <1>6, Bounds DEF Inv, OneAfterTheOther, Scalars, Conns, None
<1>12. Greeted'
  <2>1. ASSUME NEW s \in Sockets, sock'[s].pc = "open" PROVE sock'[s].owner # conn'
    <3>1. sock[s].pc = "open"
      BY <1>7, <2>1
    <3> QED
      BY <1>1, <1>7, <3>1 DEF Inv, Turns, Live, Conns, None
  <2>2. \A s \in Sockets : sock'[s].pc \in {"unused", "connecting"} => sock'[s].pc = sock[s].pc
    BY <1>7
  <2> QED
    BY <1>7, <2>1, <2>2 DEF Inv, Greeted
<1>13. Scalars'
  <2>1. ToSet(link[conn].pending) \ {Hello} \subseteq 1 .. said
    BY <1>1, <1>2, Bounds DEF ToSet, Inv, Queues, Scalars, Hello
  <2> QED
    BY <1>1, <2>1 DEF Inv, Scalars, Said
<1>14. strayed' \in BOOLEAN
  BY <1>1 DEF Inv
<1> QED
  BY <1>10, <1>11, <1>12, <1>13, <1>14 DEF Inv

(* getUrl answers: the connection's turn is its socket's now. *)
LEMMA GotUrlStep == ASSUME Inv, NEW c \in Conns, GotUrl(c) PROVE Inv'
<1>1. PICK s \in Unused :
        /\ sock' = [sock EXCEPT ![s].owner = c, ![s].pc = "connecting"]
        /\ link' = [link EXCEPT ![c].getting = @ - 1, ![c].ws = s]
  BY DEF GotUrl
<1>2. /\ link[c].getting > 0 /\ UNCHANGED <<conn, made, view, said, lost, strayed, failures>>
  BY DEF GotUrl
<1>3. /\ s \in Sockets /\ sock[s].pc = "unused" /\ sock[s] \in Socket /\ link[c] \in Link
  BY DEF Unused, Inv, Linked
<1>4. sock[s].sent = << >>
  BY <1>3 DEF Inv, Greeted
<1> DEFINE l == [link[c] EXCEPT !.getting = @ - 1, !.ws = s]
           t == [sock[s] EXCEPT !.owner = c, !.pc = "connecting"]
<1>5. /\ link[c].getting = 1 /\ link[c].timers = 0 /\ ~link[c].isOpen /\ c <= made
      /\ \A u \in Sockets : sock[u].owner = c => ~Live(u)
  <2>1. link[c].getting = 1 /\ link[c].timers = 0
    BY <1>2, <1>3 DEF Inv, Turns, Link
  <2>2. \A u \in Sockets : sock[u].owner = c => ~Live(u)
    BY <2>1 DEF Inv, Turns
  <2>3. ~link[c].isOpen
    BY <1>3, <2>2 DEF Inv, Linked, Turns, Link, Live
  <2>4. c <= made
    BY <2>1, Bounds DEF Inv, OneAfterTheOther, Scalars, Conns, Fresh
  <2> QED
    BY <2>1, <2>2, <2>3, <2>4
<1>6. /\ l \in Link /\ l.getting = 0 /\ l.timers = 0 /\ l.ws = s
      /\ l.pending = link[c].pending
  <2>1. link[c].getting - 1 \in Nat /\ link[c].getting - 1 = 0
    BY <1>5
  <2> QED
    BY <1>3, <1>5, <2>1 DEF Link
<1>7. l.isOpen = link[c].isOpen /\ l.closedByUser = link[c].closedByUser
  BY <1>3 DEF Link
<1>8. t \in Socket /\ t.owner = c /\ t.pc = "connecting" /\ t.sent = sock[s].sent
  BY <1>3 DEF Socket, SocketStates
<1>9. link' = [link EXCEPT ![c] = l] /\ sock' = [sock EXCEPT ![s] = t]
  BY <1>1, <1>3 DEF Inv, Linked
<1> HIDE DEF l, t
<1>10. /\ link' \in [Conns -> Link] /\ link'[c] = l
       /\ \A d \in Conns : d # c => link'[d] = link[d]
  BY <1>6, <1>9 DEF Inv, Linked
<1>11. /\ sock' \in [Sockets -> Socket] /\ sock'[s] = t
       /\ \A u \in Sockets : u # s => sock'[u] = sock[u]
  BY <1>3, <1>8, <1>9 DEF Inv, Linked
<1>12. Linked' /\ Queues' /\ Turns'
  <2>1. /\ Len(l.pending) <= MaxPending
        /\ \A i \in 1 .. Len(l.pending) : l.pending[i] \in 0 .. said'
        /\ said <= said' /\ said' \in Nat
    BY <1>2, <1>6, Bounds DEF Inv, Queues, Scalars
  <2>2. \A u \in Sockets : sock'[u].owner = c =>
            /\ Live(u)' => u = s
            /\ sock'[u].pc = "closing" => link[c].closedByUser
            /\ sock'[u].pc # "unused"
    BY <1>5, <1>8, <1>11 DEF Inv, Turns, Live, Conns, None
  <2>3. sock[s].owner \in {c, None}
    BY <1>3 DEF Inv, Turns
  <2> QED
    BY <1>2, <1>5, <1>6, <1>7, <1>8, <1>10, <1>11, <2>1, <2>2, <2>3, OneChanges
<1>13. OneAfterTheOther'
  BY <1>2, <1>5, <1>7, <1>10, NobodyLeaves
<1>14. Greeted'
  BY <1>2, <1>4, <1>8, <1>11 DEF Inv, Greeted
<1>15. Scalars' /\ strayed' \in BOOLEAN
  BY <1>2 DEF Inv, Scalars, Said
<1> QED
  BY <1>12, <1>13, <1>14, <1>15 DEF Inv

LEMMA FailsBounded == ASSUME Inv, Fails PROVE failures' \in 0 .. MaxFailures
  BY Bounds DEF Inv, Scalars, Fails

(* A failure: the turn is the timer's, or nothing's. *)
LEMMA UrlFailsStep == ASSUME Inv, NEW c \in Conns, UrlFails(c) PROVE Inv'
<1> DEFINE k == [link[c] EXCEPT !.getting = @ - 1, !.streak = @ + 1]
           l == Scheduled(k)
<1>1. /\ link' = [link EXCEPT ![c] = l] /\ link[c].getting > 0 /\ failures' \in 0 .. MaxFailures
      /\ UNCHANGED <<conn, made, sock, view, said, lost, strayed>>
  <2>1. link' = [link EXCEPT ![c] = l]
    BY DEF UrlFails, Unanswered
  <2>2. link[c].getting > 0 /\ UNCHANGED <<conn, made, sock, view, said, lost, strayed>>
    BY DEF UrlFails
  <2>3. failures' \in 0 .. MaxFailures
    BY FailsBounded DEF UrlFails
  <2> QED
    BY <2>1, <2>2, <2>3
<1>2. link[c] \in Link
  BY DEF Inv, Linked
<1>3. link[c].getting = 1 /\ link[c].timers = 0 /\ c <= made
  <2>1. link[c].getting = 1 /\ link[c].timers = 0
    BY <1>1, <1>2 DEF Inv, Turns, Link
  <2> QED
    BY <2>1, Bounds DEF Inv, OneAfterTheOther, Scalars, Conns, Fresh
<1>4. /\ k \in Link /\ k.getting = 0 /\ k.timers = 0 /\ k.ws = link[c].ws
      /\ k.pending = link[c].pending
  <2>1. link[c].getting - 1 \in Nat /\ link[c].getting - 1 = 0 /\ link[c].streak + 1 \in Nat
    BY <1>2, <1>3 DEF Link
  <2> QED
    BY <1>2, <1>3, <2>1 DEF Link
<1>5. k.isOpen = link[c].isOpen /\ k.closedByUser = link[c].closedByUser
  BY <1>2 DEF Link
<1> HIDE DEF k
<1>6. /\ l \in Link /\ l.ws = link[c].ws /\ l.pending = link[c].pending /\ l.getting = 0
      /\ l.timers <= 1 /\ l.timers \in Nat
      /\ l.closedByUser => l.timers = 0
  <2>1. /\ l \in Link /\ l.ws = k.ws /\ l.pending = k.pending /\ l.getting = k.getting
        /\ l.closedByUser = k.closedByUser
        /\ k.closedByUser => l.timers = k.timers
        /\ k.timers <= 1 => l.timers <= 1
    BY <1>4, ScheduledKeeps
  <2>2. l.timers \in Nat
    BY <2>1 DEF Link
  <2> HIDE DEF l
  <2> QED
    BY <1>4, <2>1, <2>2
<1>7. l.isOpen = link[c].isOpen /\ l.closedByUser = link[c].closedByUser
  BY <1>4, <1>5, ScheduledKeeps
<1> HIDE DEF l
<1>8. /\ link' \in [Conns -> Link] /\ link'[c] = l
      /\ \A d \in Conns : d # c => link'[d] = link[d]
  BY <1>1, <1>6 DEF Inv, Linked
<1>9. Linked' /\ Queues' /\ Turns'
  <2>1. /\ Len(l.pending) <= MaxPending
        /\ \A i \in 1 .. Len(l.pending) : l.pending[i] \in 0 .. said'
        /\ said <= said' /\ said' \in Nat
    BY <1>1, <1>6, Bounds DEF Inv, Queues, Scalars
  <2>2. \A u \in Sockets : sock'[u].owner = c =>
            /\ ~Live(u)'
            /\ sock'[u].pc = "closing" => link[c].closedByUser
            /\ sock'[u].pc # "unused"
    BY <1>1, <1>3 DEF Inv, Turns, Live, Conns, None
  <2>3. l.ws # None => sock'[l.ws].owner = c
    BY <1>1, <1>6 DEF Inv, Turns
  <2>4. l.isOpen => l.ws # None /\ sock'[l.ws].pc = "open"
    BY <1>1, <1>6, <1>7 DEF Inv, Linked
  <2>5. sock' \in [Sockets -> Socket]
    BY <1>1 DEF Inv, Linked
  <2> QED
    BY <1>1, <1>3, <1>6, <1>7, <1>8, <2>1, <2>2, <2>3, <2>4, <2>5, OneChanges
<1>10. OneAfterTheOther'
  BY <1>1, <1>3, <1>7, <1>8, NobodyLeaves
<1>11. Greeted' /\ Scalars' /\ strayed' \in BOOLEAN
  <2>1. Greeted' /\ Scalars'
    BY <1>1 DEF Inv, Greeted, Scalars, Said
  <2>2. strayed' \in BOOLEAN
    BY <1>1 DEF Inv
  <2> QED
    BY <2>1, <2>2
<1> QED
  BY <1>9, <1>10, <1>11 DEF Inv

(* connectNow: the turn passes from the timer to the URL. *)
LEMMA TimerStep == ASSUME Inv, NEW c \in Conns, Timer(c) PROVE Inv'
<1> DEFINE l == [link[c] EXCEPT !.timers = @ - 1, !.getting = @ + 1]
<1>1. /\ link' = [link EXCEPT ![c] = l] /\ link[c].timers > 0
      /\ UNCHANGED <<conn, made, sock, view, said, lost, strayed, failures>>
  BY DEF Timer
<1>2. link[c] \in Link
  BY DEF Inv, Linked
<1>3. link[c].getting = 0 /\ link[c].timers = 1 /\ c <= made /\ ~link[c].closedByUser
  <2>1. link[c].getting = 0 /\ link[c].timers = 1 /\ ~link[c].closedByUser
    BY <1>1, <1>2 DEF Inv, Turns, Link
  <2> QED
    BY <2>1, Bounds DEF Inv, OneAfterTheOther, Scalars, Conns, Fresh
<1>4. /\ l \in Link /\ l.getting = 1 /\ l.timers = 0 /\ l.ws = link[c].ws
      /\ l.pending = link[c].pending
  <2>1. link[c].timers - 1 = 0 /\ link[c].getting + 1 = 1 /\ 0 \in Nat /\ 1 \in Nat
    BY <1>3
  <2> QED
    BY <1>2, <1>3, <2>1 DEF Link
<1>5. l.isOpen = link[c].isOpen /\ l.closedByUser = link[c].closedByUser
  BY <1>2 DEF Link
<1> HIDE DEF l
<1>6. /\ link' \in [Conns -> Link] /\ link'[c] = l
      /\ \A d \in Conns : d # c => link'[d] = link[d]
  BY <1>1, <1>4 DEF Inv, Linked
<1>7. Linked' /\ Queues' /\ Turns'
  <2>1. /\ Len(l.pending) <= MaxPending
        /\ \A i \in 1 .. Len(l.pending) : l.pending[i] \in 0 .. said'
        /\ said <= said' /\ said' \in Nat
    BY <1>1, <1>4, Bounds DEF Inv, Queues, Scalars
  <2>2. \A u \in Sockets : sock'[u].owner = c =>
            /\ ~Live(u)'
            /\ sock'[u].pc = "closing" => link[c].closedByUser
            /\ sock'[u].pc # "unused"
    BY <1>1, <1>3 DEF Inv, Turns, Live, Conns, None
  <2>3. l.ws # None => sock'[l.ws].owner = c
    BY <1>1, <1>4 DEF Inv, Turns
  <2>4. l.isOpen => l.ws # None /\ sock'[l.ws].pc = "open"
    BY <1>1, <1>4, <1>5 DEF Inv, Linked
  <2>5. sock' \in [Sockets -> Socket]
    BY <1>1 DEF Inv, Linked
  <2> QED
    BY <1>1, <1>3, <1>4, <1>5, <1>6, <2>1, <2>2, <2>3, <2>4, <2>5, OneChanges
<1>8. OneAfterTheOther'
  BY <1>1, <1>3, <1>5, <1>6, NobodyLeaves
<1>9. Greeted' /\ Scalars' /\ strayed' \in BOOLEAN
  <2>1. Greeted' /\ Scalars'
    BY <1>1 DEF Inv, Greeted, Scalars, Said
  <2>2. strayed' \in BOOLEAN
    BY <1>1 DEF Inv
  <2> QED
    BY <2>1, <2>2
<1> QED
  BY <1>7, <1>8, <1>9 DEF Inv

(* The close event of a socket: the turn is the timer's, or nothing's. *)
LEMMA EndsStep ==
    ASSUME Inv, NEW s \in Sockets, sock[s].pc \in {"connecting", "open", "closing"},
           Ends(s), failures' \in 0 .. MaxFailures
    PROVE  Inv'
<1> DEFINE c == sock[s].owner
           l == Broken(link[c])
           t == [sock[s] EXCEPT !.pc = "closed"]
<1>1. /\ link' = [link EXCEPT ![c] = l] /\ sock' = [sock EXCEPT ![s] = t]
      /\ view' = "disconnected" /\ UNCHANGED <<conn, made, said, lost>>
  BY DEF Ends
<1>2. /\ c \in Conns /\ c <= made /\ link[c] \in Link /\ sock[s] \in Socket
  BY DEF Inv, Turns, Live, Linked
<1>3. /\ Live(s) => link[c].ws = s /\ link[c].timers = 0 /\ link[c].getting = 0
      /\ sock[s].pc = "closing" => link[c].closedByUser
      /\ link[c].closedByUser => link[c].timers = 0
      /\ Live(s) \/ sock[s].pc = "closing"
  BY <1>2 DEF Inv, Turns, Live
<1>4. /\ l \in Link /\ l.ws = link[c].ws /\ l.pending = link[c].pending
      /\ l.getting = link[c].getting
      /\ link[c].closedByUser => l.timers = link[c].timers
      /\ link[c].timers <= 1 => l.timers <= 1
  BY <1>2, BrokenKeeps
<1>5. ~l.isOpen /\ l.closedByUser = link[c].closedByUser
  BY <1>2, BrokenKeeps
<1>6. l.timers + l.getting <= 1 /\ (l.closedByUser => l.timers = 0)
  <2>1. l.timers \in Nat /\ l.getting \in Nat /\ link[c].timers \in Nat
    BY <1>2, <1>4 DEF Link
  <2>2. link[c].timers + link[c].getting <= 1
    BY <1>2 DEF Inv, Turns
  <2> QED
    BY <1>3, <1>4, <1>5, <2>1, <2>2
<1>7. t \in Socket /\ t.owner = c /\ t.pc = "closed" /\ t.sent = sock[s].sent
  BY <1>2 DEF Socket, SocketStates
<1> HIDE DEF l, t
<1>8. /\ link' \in [Conns -> Link] /\ link'[c] = l
      /\ \A d \in Conns : d # c => link'[d] = link[d]
  BY <1>1, <1>2, <1>4 DEF Inv, Linked
<1>9. /\ sock' \in [Sockets -> Socket] /\ sock'[s] = t
      /\ \A u \in Sockets : u # s => sock'[u] = sock[u]
  BY <1>1, <1>7, SMTT(40) DEF Inv, Linked
<1>10. Linked' /\ Queues' /\ Turns'
  <2>1. /\ Len(l.pending) <= MaxPending
        /\ \A i \in 1 .. Len(l.pending) : l.pending[i] \in 0 .. said'
        /\ said <= said' /\ said' \in Nat
    BY <1>1, <1>2, <1>4, Bounds, SMTT(40) DEF Inv, Queues, Scalars
  <2>2. \A u \in Sockets : sock'[u].owner = c =>
            /\ Live(u)' => link[c].ws = u /\ l.timers = 0 /\ l.getting = 0
            /\ sock'[u].pc = "closing" => link[c].closedByUser
            /\ sock'[u].pc # "unused"
    <3> SUFFICES ASSUME NEW u \in Sockets, sock'[u].owner = c
                 PROVE  /\ Live(u)' => link[c].ws = u /\ l.timers = 0 /\ l.getting = 0
                        /\ sock'[u].pc = "closing" => link[c].closedByUser
                        /\ sock'[u].pc # "unused"
      OBVIOUS
    <3>1. CASE u = s
      BY <1>7, <1>9, <3>1 DEF Live
    <3>2. CASE u # s
      <4>1. sock'[u] = sock[u]
        BY <1>9, <3>2
      <4>2. sock[u].pc # "unused" /\ (sock[u].pc = "closing" => link[c].closedByUser)
        BY <1>2, <4>1 DEF Inv, Turns, Conns, None
      <4>3. ASSUME Live(u)' PROVE link[c].ws = u /\ l.timers = 0 /\ l.getting = 0
        <5>1. link[c].ws = u /\ link[c].timers = 0 /\ link[c].getting = 0
          BY <1>2, <4>1, <4>3 DEF Inv, Turns, Live
        <5>2. link[c].closedByUser
          BY <1>3, <3>2, <5>1
        <5> QED
          BY <1>4, <5>1, <5>2
      <4> QED
        BY <4>1, <4>2, <4>3
    <3> QED
      BY <3>1, <3>2
  <2>3. l.ws # None => sock'[l.ws].owner = c
    <3>1. l.ws # None => l.ws \in Sockets /\ sock[l.ws].owner = c
      BY <1>2, <1>4 DEF Inv, Turns, Link
    <3> QED
      BY <1>7, <1>9, <3>1
  <2> QED
    BY <1>1, <1>2, <1>4, <1>5, <1>6, <1>7, <1>8, <1>9, <2>1, <2>2, <2>3, OneChanges
<1>11. OneAfterTheOther'
  BY <1>1, <1>2, <1>5, <1>8, NobodyLeaves
<1>12. Greeted'
  BY <1>1, <1>7, <1>9 DEF Inv, Greeted
<1>13. Scalars'
  BY <1>1 DEF Inv, Scalars, Said
<1>14. strayed' \in BOOLEAN
  BY DEF Ends, Inv
<1> QED
  BY <1>10, <1>11, <1>12, <1>13, <1>14 DEF Inv

(* An open event changes nobody's turn. *)
LEMMA SameTurns ==
    ASSUME Inv, made' = made,
           \A d \in Conns : /\ link'[d].ws = link[d].ws
                            /\ link'[d].timers = link[d].timers
                            /\ link'[d].getting = link[d].getting
                            /\ link'[d].closedByUser = link[d].closedByUser,
           \A u \in Sockets : /\ sock'[u].owner = sock[u].owner
                              /\ sock'[u].pc # sock[u].pc =>
                                    sock[u].pc = "connecting" /\ sock'[u].pc = "open"
    PROVE  Turns'
<1>1. \A u \in Sockets : Live(u)' = Live(u)
  BY DEF Live
<1>2. \A d \in Conns : link[d].ws # None => link[d].ws \in Sockets
  BY DEF Inv, Linked, Link
<1> QED
  BY <1>1, <1>2 DEF Inv, Turns

LEMMA OpenedFields ==
    ASSUME NEW l \in Link
    PROVE  /\ Opened(l) \in Link /\ Opened(l).ws = l.ws /\ Opened(l).pending = << >>
           /\ Opened(l).timers = l.timers /\ Opened(l).getting = l.getting
           /\ Opened(l).closedByUser = l.closedByUser
<1>1. Opened(l) \in Link
  BY OpenedKeeps
<1>2. Opened(l) = [l EXCEPT !.isOpen = TRUE, !.attempts = 0, !.pending = << >>, !.streak = 0]
  BY OpenedKeeps
<1> QED
  BY <1>1, <1>2 DEF Link

LEMMA FirstStays ==
    ASSUME NEW a \in Seq(Nat), NEW b \in Seq(Nat), Len(a) >= 1
    PROVE  a \o b \in Seq(Nat) /\ Len(a \o b) = Len(a) + Len(b) /\ (a \o b)[1] = a[1]
<1>1. Len(a) \in Nat /\ Len(b) \in Nat
  OBVIOUS
<1>2. 1 \in 1 .. Len(a) + Len(b)
  BY <1>1
<1>3. /\ a \o b \in Seq(Nat) /\ Len(a \o b) = Len(a) + Len(b)
      /\ \A i \in 1 .. Len(a) + Len(b) : (a \o b)[i] = IF i <= Len(a) THEN a[i] ELSE b[i - Len(a)]
  BY ConcatProperties
<1> QED
  BY <1>2, <1>3

(* The socket of the session's connection opens, and is greeted first. *)
LEMMA OpensStep == ASSUME Inv, NEW s \in Sockets, Opens(s) PROVE Inv'
<1> DEFINE c == sock[s].owner
           l == Opened(link[c])
<1>1. /\ sock[s].pc = "connecting" /\ c = conn /\ link' = [link EXCEPT ![c] = l]
      /\ view' = "connected" /\ UNCHANGED <<conn, made, lost, strayed, failures>>
  BY DEF Opens
<1>2. /\ c \in Conns /\ c <= made /\ link[c] \in Link /\ sock[s] \in Socket
      /\ link[c].ws = s /\ link[c].pending \in Seq(Nat) /\ sock[s].sent = << >>
  BY <1>1 DEF Inv, Turns, Live, Linked, Link, Greeted
<1>3. PICK extra \in {<< >>} \union (IF Listens /\ said < MaxSaid THEN {<<said + 1>>} ELSE {}) :
        /\ said' = said + Len(extra)
        /\ sock' = [sock EXCEPT ![s].pc = "open",
                               ![s].sent = @ \o Greeting(extra, link[c].pending)]
  BY DEF Opens
<1>4. said \in Nat /\ extra \in Seq(Nat) /\ said' \in 0 .. MaxSaid /\ said <= said'
  <2>1. said \in 0 .. MaxSaid /\ MaxSaid \in Nat
    BY Bounds DEF Inv, Scalars
  <2>2. CASE extra = << >>
    BY <1>3, <2>1, <2>2
  <2>3. CASE extra = <<said + 1>> /\ said < MaxSaid
    BY <1>3, <2>1, <2>3, SMTT(40)
  <2> QED
    BY <2>2, <2>3
<1> DEFINE g == sock[s].sent \o Greeting(extra, link[c].pending)
           t == [sock[s] EXCEPT !.pc = "open", !.sent = g]
<1>5. g \in Seq(Nat) /\ g # << >> /\ Head(g) = Hello
  <2> DEFINE first == <<Hello>> \o extra
  <2>1. first \in Seq(Nat) /\ Len(first) = 1 + Len(extra) /\ first[1] = Hello
    BY <1>4 DEF Hello
  <2> HIDE DEF first
  <2>2. /\ first \o link[c].pending \in Seq(Nat)
        /\ Len(first \o link[c].pending) = Len(first) + Len(link[c].pending)
        /\ (first \o link[c].pending)[1] = first[1]
    <3>1. Len(extra) \in Nat
      BY <1>4
    <3>2. Len(first) >= 1
      BY <2>1, <3>1
    <3> QED
      BY <1>2, <2>1, <3>2, FirstStays
  <2>3. g = << >> \o (first \o link[c].pending)
    BY <1>2 DEF Greeting, first
  <2>4. g = first \o link[c].pending
    BY <2>2, <2>3, ConcatEmptySeq
  <2>5. Len(g) \in Nat /\ Len(g) > 0 /\ g[1] = Hello
    BY <1>2, <1>4, <2>1, <2>2, <2>4, SMTT(40)
  <2> QED
    BY <2>2, <2>4, <2>5, HeadTailProperties, EmptySeq
<1>6. sock' = [sock EXCEPT ![s] = t]
  BY <1>3
<1> HIDE DEF g
<1>7. t \in Socket /\ t.owner = c /\ t.pc = "open" /\ t.sent = g
  BY <1>2, <1>5 DEF Socket, SocketStates
<1>8. /\ l \in Link /\ l.ws = s /\ l.pending = << >> /\ l.timers = link[c].timers
      /\ l.getting = link[c].getting
      /\ l.closedByUser = link[c].closedByUser
  BY <1>2, OpenedFields
<1> HIDE DEF l, t
<1>9. /\ link' \in [Conns -> Link] /\ link'[c] = l
      /\ \A d \in Conns : d # c => link'[d] = link[d]
  BY <1>1, <1>2, <1>8 DEF Inv, Linked
<1>10. /\ sock' \in [Sockets -> Socket] /\ sock'[s] = t
       /\ \A u \in Sockets : u # s => sock'[u] = sock[u]
  BY <1>6, <1>7 DEF Inv, Linked
<1>11. Turns'
  <2>1. \A d \in Conns : /\ link'[d].ws = link[d].ws
                         /\ link'[d].timers = link[d].timers
                         /\ link'[d].getting = link[d].getting
                         /\ link'[d].closedByUser = link[d].closedByUser
    BY <1>2, <1>8, <1>9
  <2> QED
    BY <1>1, <1>7, <1>10, <2>1, SameTurns
<1>12. Linked'
  <2>1. \A d \in Conns : d # c /\ link'[d].isOpen
            => link'[d].ws # None /\ sock'[link'[d].ws].pc = "open"
    <3> SUFFICES ASSUME NEW d \in Conns, d # c, link[d].isOpen
                 PROVE  link[d].ws # None /\ sock'[link[d].ws].pc = "open"
      BY <1>9
    <3>1. link[d].ws # None /\ link[d].ws \in Sockets /\ sock[link[d].ws].pc = "open"
      BY DEF Inv, Linked, Link
    <3> QED
      BY <1>1, <1>10, <3>1
  <2>2. l.ws # None /\ sock'[l.ws].pc = "open"
    BY <1>7, <1>8, <1>10 DEF Sockets, None
  <2> QED
    BY <1>2, <1>9, <1>10, <2>1, <2>2 DEF Linked
<1>13. Queues'
  <2>1. 0 .. said \subseteq 0 .. said'
    BY <1>4
  <2> QED
    BY <1>2, <1>8, <1>9, <2>1, Bounds DEF Inv, Queues
<1>14. OneAfterTheOther'
  BY <1>1, <1>2, <1>8, <1>9, NobodyLeaves
<1>15. Greeted'
  BY <1>1, <1>5, <1>7, <1>10 DEF Inv, Greeted
<1>16. Scalars'
  <2>1. 1 .. said \subseteq 1 .. said'
    BY <1>4
  <2> QED
    BY <1>1, <1>4, <2>1 DEF Inv, Scalars, Said
<1>17. strayed' \in BOOLEAN
  BY <1>1 DEF Inv
<1> QED
  BY <1>11, <1>12, <1>13, <1>14, <1>15, <1>16, <1>17 DEF Inv

(* The socket of a connection the session has left opens: its listener     *)
(* greets the connection the session has now.                              *)
LEMMA OpensLateStep == ASSUME Inv, NEW s \in Sockets, OpensLate(s) PROVE Inv'
<1> DEFINE c == sock[s].owner
           w == link[conn].ws
           heard == conn # None /\ link[conn].isOpen
           waits == conn # None /\ ~link[conn].isOpen
           x == [sock[s] EXCEPT !.pc = "open"]
           y == [sock[w] EXCEPT !.sent = Append(@, Hello)]
           q == Queued(link[conn], Hello)
<1>1. /\ sock[s].pc = "connecting" /\ c # conn /\ view' = "connected" /\ strayed' = TRUE
      /\ UNCHANGED <<conn, made, said, failures>>
  BY DEF OpensLate
<1>2. /\ c \in Conns /\ link[c] \in Link /\ sock[s] \in Socket
      /\ link[c].ws = s /\ sock[s].sent = << >>
  BY <1>1 DEF Inv, Turns, Live, Linked, Greeted
<1>3. /\ link' = [d \in Conns |-> IF d = c THEN Opened(link[d])
                                 ELSE IF d = conn /\ waits THEN q ELSE link[d]]
      /\ lost' = lost \union (IF waits THEN Overflown(link[conn]) ELSE {})
  BY DEF OpensLate
<1>4. conn # None => /\ conn \in Conns /\ link[conn] \in Link
  BY CurrentConn DEF Inv, Linked
<1>5. heard => w \in Sockets /\ w # s /\ sock[w].pc = "open" /\ sock[w].owner = conn
                 /\ sock[w] \in Socket
  BY <1>1, <1>4 DEF Inv, Linked, Turns, Link
<1>6. sock' = IF heard THEN [sock EXCEPT ![s] = x, ![w] = y] ELSE [sock EXCEPT ![s] = x]
  <2>1. CASE heard
    <3>1. sock' = [sock EXCEPT ![s].pc = "open", ![w].sent = Append(@, Hello)]
      BY <2>1 DEF OpensLate
    <3> QED
      BY <2>1, <1>2, <1>5, <3>1 DEF Inv, Linked
  <2>2. CASE ~heard
    <3>1. sock' = [sock EXCEPT ![s].pc = "open", ![s].sent = @]
      BY <2>2 DEF OpensLate
    <3> QED
      BY <2>2, <1>2, <3>1 DEF Inv, Linked, Socket
  <2> QED
    BY <2>1, <2>2
<1>7. x \in Socket /\ x.owner = c /\ x.pc = "open" /\ x.sent = << >>
  BY <1>2 DEF Socket, SocketStates
<1>8. heard => /\ y \in Socket /\ y.owner = conn /\ y.pc = "open"
               /\ y.sent # << >> /\ Head(y.sent) = Hello
  <2> SUFFICES ASSUME heard
               PROVE  /\ y \in Socket /\ y.owner = conn /\ y.pc = "open"
                      /\ y.sent # << >> /\ Head(y.sent) = Hello
    OBVIOUS
  <2>1. Hello \in Nat
    BY DEF Hello
  <2>2. /\ y \in Socket /\ y.sent = Append(sock[w].sent, Hello)
        /\ y.owner = sock[w].owner /\ y.pc = sock[w].pc /\ sock[w].sent \in Seq(Nat)
    BY <1>5, <2>1, SentType
  <2>3. sock[w].sent # << >> /\ Head(sock[w].sent) = Hello
    BY <1>5 DEF Inv, Greeted
  <2> HIDE DEF y
  <2>4. y.sent # << >> /\ Head(y.sent) = Hello
    BY <2>1, <2>2, <2>3
  <2> QED
    BY <1>5, <2>2, <2>4
<1> HIDE DEF x, y
<1>9. /\ sock' \in [Sockets -> Socket] /\ sock'[s] = x
      /\ heard => sock'[w] = y
      /\ \A u \in Sockets : u # s /\ (heard => u # w) => sock'[u] = sock[u]
  BY <1>2, <1>5, <1>6, <1>7, <1>8 DEF Inv, Linked
<1>10. \A u \in Sockets : /\ sock'[u].owner = sock[u].owner
                          /\ sock'[u].pc # sock[u].pc => u = s
  BY <1>5, <1>7, <1>8, <1>9
<1>11. ASSUME waits
       PROVE  /\ q \in Link /\ q.ws = w /\ q.timers = link[conn].timers
              /\ q.getting = link[conn].getting
              /\ Len(q.pending) <= MaxPending
              /\ \A i \in 1 .. Len(q.pending) : q.pending[i] \in 0 .. said
              /\ Overflown(link[conn]) \subseteq 1 .. said
              /\ q = [link[conn] EXCEPT !.pending = q.pending]
  <2>1. Hello \in Nat /\ said \in Nat /\ Hello <= said
    BY Bounds DEF Hello, Inv, Scalars
  <2>2. /\ Len(link[conn].pending) <= MaxPending
        /\ \A i \in 1 .. Len(link[conn].pending) : link[conn].pending[i] \in 0 .. said
    BY <1>4, <1>11 DEF Inv, Queues
  <2>3. /\ q \in Link /\ Len(q.pending) <= MaxPending
        /\ \A i \in 1 .. Len(q.pending) : q.pending[i] \in 0 .. said
        /\ Overflown(link[conn]) \subseteq 1 .. said
        /\ q = [link[conn] EXCEPT !.pending = q.pending]
    BY <1>4, <1>11, <2>1, <2>2, QueuedKeeps
  <2> HIDE DEF q
  <2> QED
    BY <1>4, <1>11, <2>3 DEF Link
<1>12. waits => /\ q.isOpen = link[conn].isOpen /\ q.closedByUser = link[conn].closedByUser
  <2> HIDE DEF q
  <2> QED
    BY <1>4, <1>11 DEF Link
<1>13. /\ Opened(link[c]) \in Link /\ Opened(link[c]).ws = s /\ Opened(link[c]).pending = << >>
       /\ Opened(link[c]).timers = link[c].timers /\ Opened(link[c]).getting = link[c].getting
       /\ Opened(link[c]).closedByUser = link[c].closedByUser
  BY <1>2, OpenedFields
<1> HIDE DEF q
<1>14. /\ link' \in [Conns -> Link] /\ link'[c] = Opened(link[c])
       /\ waits => link'[conn] = q
       /\ \A d \in Conns : d # c /\ ~(waits /\ d = conn) => link'[d] = link[d]
  BY <1>1, <1>2, <1>3, <1>4, <1>11, <1>13 DEF Inv, Linked
<1>15. \A d \in Conns : /\ link'[d].ws = link[d].ws
                        /\ link'[d].timers = link[d].timers
                        /\ link'[d].getting = link[d].getting
  BY <1>2, <1>11, <1>13, <1>14
<1>16. \A d \in Conns : link'[d].closedByUser = link[d].closedByUser
  BY <1>12, <1>13, <1>14
<1>17. \A d \in Conns : d # c => link'[d].isOpen = link[d].isOpen
  BY <1>12, <1>14
<1>18. Turns'
  BY <1>1, <1>7, <1>9, <1>10, <1>15, <1>16, SameTurns
<1>19. Linked'
  <2>1. ASSUME NEW d \in Conns, link'[d].isOpen
        PROVE  link'[d].ws # None /\ sock'[link'[d].ws].pc = "open"
    <3>1. CASE d = c
      BY <1>2, <1>7, <1>9, <1>15, <3>1 DEF Sockets, None
    <3>2. CASE d # c
      <4>1. link[d].isOpen /\ link[d].ws \in Sockets /\ sock[link[d].ws].pc = "open"
              /\ link[d].ws # None
        BY <1>17, <2>1, <3>2 DEF Inv, Linked, Link
      <4> QED
        BY <1>1, <1>10, <1>15, <4>1
    <3> QED
      BY <3>1, <3>2
  <2> QED
    BY <1>9, <1>14, <2>1 DEF Linked
<1>20. Queues'
  <2>1. Len(link'[c].pending) = 0
    BY <1>13, <1>14
  <2>2. ASSUME NEW d \in Conns
        PROVE  /\ Len(link'[d].pending) <= MaxPending
               /\ \A i \in 1 .. Len(link'[d].pending) : link'[d].pending[i] \in 0 .. said
    BY <1>11, <1>14, <2>1, Bounds DEF Inv, Queues
  <2> QED
    BY <1>1, <2>2 DEF Queues
<1>21. OneAfterTheOther'
  <2>1. c <= made
    BY <1>2, OwnerMade
  <2>2. \A d \in Conns : d > made => link'[d] = link[d]
    <3>1. made \in Nat /\ conn <= made
      BY Bounds DEF Inv, Scalars, OneAfterTheOther
    <3> QED
      BY <1>14, <2>1, <3>1 DEF Conns
  <2> QED
    BY <1>1, <1>16, <2>2 DEF Inv, OneAfterTheOther
<1>22. Greeted'
  <2>1. ASSUME NEW u \in Sockets
        PROVE  /\ sock'[u].pc \in {"unused", "connecting"} => sock'[u].sent = << >>
               /\ sock'[u].sent # << >> => Head(sock'[u].sent) = Hello
               /\ sock'[u].pc = "open" /\ sock'[u].owner = conn => sock'[u].sent # << >>
    <3>1. CASE u = s
      BY <1>1, <1>7, <1>9, <3>1
    <3>2. CASE heard /\ u = w
      BY <1>8, <1>9, <3>2
    <3>3. CASE u # s /\ ~(heard /\ u = w)
      <4>1. sock'[u] = sock[u]
        BY <1>9, <3>3
      <4> QED
        BY <4>1 DEF Inv, Greeted
    <3> QED
      BY <3>1, <3>2, <3>3
  <2> QED
    BY <1>1, <2>1 DEF Greeted
<1>23. Scalars'
  <2>1. lost' \subseteq 1 .. said
    BY <1>3, <1>11 DEF Inv, Scalars, Said
  <2> QED
    BY <1>1, <2>1 DEF Inv, Scalars, Said
<1> QED
  BY <1>1, <1>18, <1>19, <1>20, <1>21, <1>22, <1>23 DEF Inv

-----------------------------------------------------------------------------
LEMMA InvStep == Inv /\ [Next]_vars => Inv'
<1> SUFFICES ASSUME Inv, [Next]_vars PROVE Inv'
  OBVIOUS
<1>1. CASE Connect
  BY <1>1, ConnectStep
<1>2. CASE Say
  BY <1>2, SayStep
<1>3. CASE Close
  BY <1>3, CloseStep
<1>4. ASSUME NEW c \in Conns, Tries(c) PROVE Inv'
  BY <1>4, GotUrlStep, UrlFailsStep, TimerStep DEF Tries
<1>5. ASSUME NEW s \in Sockets, Settles(s) \/ Breaks(s) PROVE Inv'
  <2>1. CASE Opens(s)
    BY <2>1, OpensStep
  <2>2. CASE OpensLate(s)
    BY <2>2, OpensLateStep
  <2>3. CASE ConnectFails(s) \/ Breaks(s)
    BY <2>3, FailsBounded, EndsStep DEF ConnectFails, Breaks
  <2>4. CASE Closed(s)
    <3>1. failures' \in 0 .. MaxFailures
      BY <2>4 DEF Closed, Inv, Scalars
    <3> QED
      BY <2>4, <3>1, EndsStep DEF Closed
  <2> QED
    BY <1>5, <2>1, <2>2, <2>3, <2>4 DEF Settles
<1>6. CASE UNCHANGED vars
  BY <1>6 DEF vars, Inv, Linked, Scalars, Queues, Turns, Live, OneAfterTheOther, Greeted, Said
<1> QED
  BY <1>1, <1>2, <1>3, <1>4, <1>5, <1>6 DEF Next

LEMMA InvAlways == Spec => []Inv
  BY InvInit, InvStep, PTL DEF Spec

(* Every variable keeps its type: the queue of a connection never exceeds  *)
(* maxPendingSends, attempts never exceed maxRetries, and a connection     *)
(* that says it is open has an open socket, whatever fails in between.     *)
THEOREM SdkTypeCorrect == Spec => []TypeOK
  BY InvAlways, InvTyped, PTL

(* On every socket the credentials are sent before any other message, even *)
(* where an earlier connection of the session opens late and where         *)
(* messages have waited.                                                   *)
THEOREM HelloComesFirst == Spec => []HelloFirst
<1>1. Inv => HelloFirst
  BY DEF Inv, Greeted, HelloFirst
<1> QED
  BY <1>1, InvAlways, PTL

(* No interleaving of timers, URLs and socket events gives a connection    *)
(* two sockets, or one and another on its way.                             *)
THEOREM OneSocketAtATime == Spec => []OneSocket
<1>1. ASSUME Inv PROVE OneSocket
  <2> SUFFICES ASSUME NEW c \in Conns
               PROVE  link[c].timers + link[c].getting
                        + Cardinality({s \in Sockets : sock[s].owner = c /\ Live(s)}) <= 1
    BY DEF OneSocket, Live
  <2> DEFINE live == {s \in Sockets : sock[s].owner = c /\ Live(s)}
  <2>1. link[c].timers + link[c].getting <= 1 /\ link[c].timers \in Nat /\ link[c].getting \in Nat
    BY <1>1 DEF Inv, Linked, Link, Turns
  <2>2. CASE live = {}
    <3>1. Cardinality(live) = 0
      BY <2>2, FS_EmptySet
    <3> QED
      BY <2>1, <3>1
  <2>3. CASE live # {}
    <3>1. live = {link[c].ws} /\ link[c].timers = 0 /\ link[c].getting = 0
      BY <1>1, <2>3 DEF Inv, Turns
    <3>2. Cardinality(live) = 1
      BY <3>1, FS_Singleton
    <3> QED
      BY <3>1, <3>2
  <2> QED
    BY <2>2, <2>3
<1> QED
  BY <1>1, InvAlways, PTL

(* close() is final for a connection that waits for no URL: no event of an *)
(* old socket and no timer makes it ask for a URL or open a socket again.  *)
THEOREM ClosedStaysClosed == Spec => ClosedForGood
<1> DEFINE Final == \A c \in Conns :
                      link[c].closedByUser /\ link[c].getting = 0 =>
                          link'[c].getting = 0 /\ link'[c].ws = link[c].ws
<1>1. ASSUME Inv, Inv', [Next]_vars PROVE Final
  <2> SUFFICES ASSUME NEW c \in Conns, link[c].closedByUser, link[c].getting = 0
               PROVE  link'[c].getting = 0 /\ link'[c].ws = link[c].ws
    OBVIOUS
  <2>1. link[c] \in Link /\ link \in [Conns -> Link] /\ link[c].timers = 0 /\ c # conn /\ c <= made
    BY <1>1, Bounds DEF Inv, Linked, Turns, OneAfterTheOther, Fresh, Scalars, Conns
  <2>2. CASE UNCHANGED link
    BY <2>2
  <2>3. CASE Connect
    <3>1. link'[c] = link[c]
      BY <1>1, <2>1, <2>3, Bounds DEF Connect, Inv, Scalars, Conns
    <3> QED
      BY <3>1
  <2>4. CASE Say \/ Close
    BY <2>1, <2>4 DEF Say, Close
  <2>5. ASSUME NEW d \in Conns, Tries(d) PROVE link'[c] = link[c]
    <3>1. d # c
      BY <2>1, <2>5 DEF Tries, GotUrl, UrlFails, Timer
    <3> QED
      BY <2>1, <2>5, <3>1 DEF Tries, GotUrl, UrlFails, Timer
  <2>6. ASSUME NEW s \in Sockets, Opens(s) \/ OpensLate(s)
        PROVE  link'[c].getting = 0 /\ link'[c].ws = link[c].ws
    <3>1. link'[c] \in {link[c], Opened(link[c])}
      BY <2>1, <2>6 DEF Opens, OpensLate
    <3> QED
      BY <2>1, <3>1, OpenedFields
  <2>7. ASSUME NEW s \in Sockets, Ends(s)
        PROVE  link'[c].getting = 0 /\ link'[c].ws = link[c].ws
    <3>1. link'[c] \in {link[c], Broken(link[c])}
      BY <2>1, <2>7 DEF Ends
    <3> QED
      BY <2>1, <3>1, BrokenKeeps
  <2>8. CASE UNCHANGED vars
    BY <2>8 DEF vars
  <2> QED
    BY <1>1, <2>2, <2>3, <2>4, <2>5, <2>6, <2>7, <2>8
    DEF Next, Settles, Breaks, ConnectFails, Closed
<1>2. Inv /\ Inv' /\ [Next]_vars => [Final]_vars
  BY <1>1
<1> QED
  BY <1>2, InvAlways, PTL DEF Spec, ClosedForGood

-----------------------------------------------------------------------------
(* The order of the messages.  S is what the sockets were sent, P what     *)
(* waits, n the number of messages said and L those lost.                  *)
Occurs(S, P, m) ==
    \/ \E s \in Sockets : \E i \in 1 .. Len(S[s]) : S[s][i] = m
    \/ \E j \in 1 .. Len(P) : P[j] = m

SentOrder(S) ==
    \A s, t \in Sockets : \A i \in 1 .. Len(S[s]), j \in 1 .. Len(S[t]) :
        (s < t \/ (s = t /\ i < j)) /\ S[s][i] # 0 /\ S[t][j] # 0 => S[s][i] < S[t][j]

WaitOrder(S, P) ==
    \A j \in 1 .. Len(P) : P[j] # 0 =>
        /\ \A i \in 1 .. j - 1 : P[i] < P[j]
        /\ \A s \in Sockets : \A i \in 1 .. Len(S[s]) : S[s][i] < P[j]

AllThere(S, P, n, L) ==
    \A m \in Nat \ {0} : (m <= n /\ m \notin L) <=> Occurs(S, P, m)

Ordered(S, P, n, L) == SentOrder(S) /\ WaitOrder(S, P) /\ AllThere(S, P, n, L)

Sends == [Sockets -> Seq(Nat)]

SilentAfter(S, w) ==
    \A t \in Sockets : w < t => \A i \in 1 .. Len(S[t]) : S[t][i] = 0

(* Hello is sent: the application's messages stay where they are. *)
LEMMA HelloIsSilent ==
    ASSUME NEW S \in Sends, NEW P \in Seq(Nat), NEW n \in Nat, NEW L, Ordered(S, P, n, L),
           NEW Z \in Sends, \A s \in Sockets : Z[s] = S[s] \/ Z[s] = Append(S[s], 0)
    PROVE  Ordered(Z, P, n, L)
<1>1. ASSUME NEW s \in Sockets
      PROVE  /\ S[s] \in Seq(Nat) /\ Len(S[s]) \in Nat
             /\ \A i \in 1 .. Len(Z[s]) : (i \in 1 .. Len(S[s]) /\ Z[s][i] = S[s][i]) \/ Z[s][i] = 0
             /\ \A i \in 1 .. Len(S[s]) : i \in 1 .. Len(Z[s]) /\ Z[s][i] = S[s][i]
  <2>1. S[s] \in Seq(Nat)
    BY DEF Sends
  <2>2. CASE Z[s] = S[s]
    BY <2>1, <2>2
  <2>3. CASE Z[s] = Append(S[s], 0)
    BY <2>1, <2>3
  <2> QED
    BY <2>1, <2>2, <2>3
<1>2. SentOrder(Z)
  <2> SUFFICES ASSUME NEW s \in Sockets, NEW t \in Sockets,
                      NEW i \in 1 .. Len(Z[s]), NEW j \in 1 .. Len(Z[t]),
                      s < t \/ (s = t /\ i < j), Z[s][i] # 0, Z[t][j] # 0
               PROVE  Z[s][i] < Z[t][j]
    BY DEF SentOrder
  <2>1. /\ i \in 1 .. Len(S[s]) /\ Z[s][i] = S[s][i]
        /\ j \in 1 .. Len(S[t]) /\ Z[t][j] = S[t][j]
    BY <1>1
  <2> QED
    BY <2>1 DEF Ordered, SentOrder
<1>3. WaitOrder(Z, P)
  <2> SUFFICES ASSUME NEW j \in 1 .. Len(P), P[j] # 0
               PROVE  /\ \A i \in 1 .. j - 1 : P[i] < P[j]
                      /\ \A s \in Sockets : \A i \in 1 .. Len(Z[s]) : Z[s][i] < P[j]
    BY DEF WaitOrder
  <2>1. ASSUME NEW s \in Sockets, NEW i \in 1 .. Len(Z[s]) PROVE Z[s][i] < P[j]
    <3>1. CASE Z[s][i] = 0
      BY <3>1
    <3>2. CASE Z[s][i] # 0
      <4>1. i \in 1 .. Len(S[s]) /\ Z[s][i] = S[s][i]
        BY <1>1, <3>2
      <4> QED
        BY <4>1 DEF Ordered, WaitOrder
    <3> QED
      BY <3>1, <3>2
  <2> QED
    BY <2>1 DEF Ordered, WaitOrder
<1>4. ASSUME NEW m \in Nat \ {0} PROVE Occurs(Z, P, m) <=> Occurs(S, P, m)
  <2>1. ASSUME NEW s \in Sockets
        PROVE  (\E i \in 1 .. Len(Z[s]) : Z[s][i] = m) <=> (\E i \in 1 .. Len(S[s]) : S[s][i] = m)
    BY <1>1
  <2> QED
    BY <2>1 DEF Occurs
<1> QED
  BY <1>2, <1>3, <1>4 DEF Ordered, AllThere

(* The next message is sent on the last socket that was ever spoken on. *)
LEMMA NextIsSent ==
    ASSUME NEW S \in Sends, NEW n \in Nat, NEW L \in SUBSET (1 .. n), Ordered(S, << >>, n, L),
           NEW w \in Sockets, SilentAfter(S, w),
           NEW Z \in Sends, Z[w] = Append(S[w], n + 1), \A s \in Sockets \ {w} : Z[s] = S[s]
    PROVE  Ordered(Z, << >>, n + 1, L)
<1>0. \A s \in Sockets : S[s] \in Seq(Nat) /\ Len(S[s]) \in Nat
  BY DEF Sends
<1>1. /\ Len(Z[w]) = Len(S[w]) + 1 /\ Z[w][Len(S[w]) + 1] = n + 1
      /\ \A i \in 1 .. Len(S[w]) : Z[w][i] = S[w][i]
  BY <1>0
<1>2. ASSUME NEW s \in Sockets, NEW i \in 1 .. Len(S[s]) PROVE S[s][i] \in 0 .. n
  <2>1. S[s][i] \in Nat
    BY <1>0
  <2>2. S[s][i] # 0 => S[s][i] <= n
    BY <2>1 DEF Ordered, AllThere, Occurs
  <2> QED
    BY <2>1, <2>2
<1>6. ASSUME NEW s \in Sockets, NEW i \in 1 .. Len(Z[s]), ~(s = w /\ i = Len(S[w]) + 1)
      PROVE  i \in 1 .. Len(S[s]) /\ Z[s][i] = S[s][i]
  <2>1. CASE s = w
    <3>1. Len(S[w]) \in Nat /\ i \in 1 .. Len(S[w]) + 1 /\ i # Len(S[w]) + 1
      BY <1>0, <1>1, <1>6, <2>1
    <3>2. i \in 1 .. Len(S[w])
      BY <3>1
    <3> QED
      BY <1>1, <2>1, <3>2
  <2>2. CASE s # w
    <3>1. Z[s] = S[s]
      BY <2>2
    <3> QED
      BY <3>1
  <2> QED
    BY <2>1, <2>2
<1>3. SentOrder(Z)
  <2> SUFFICES ASSUME NEW s \in Sockets, NEW t \in Sockets,
                      NEW i \in 1 .. Len(Z[s]), NEW j \in 1 .. Len(Z[t]),
                      s < t \/ (s = t /\ i < j), Z[s][i] # 0, Z[t][j] # 0
               PROVE  Z[s][i] < Z[t][j]
    BY DEF SentOrder
  <2>1. s \in Nat /\ t \in Nat /\ w \in Nat
    BY Bounds DEF Sockets
  <2>2. CASE t = w /\ j = Len(S[w]) + 1
    <3>1. i \in 1 .. Len(S[s]) /\ Z[s][i] = S[s][i]
      <4>1. ~(s = w /\ i = Len(S[w]) + 1)
        BY <1>0, <2>1, <2>2
      <4> QED
        BY <1>6, <4>1
    <3>2. S[s][i] \in 0 .. n /\ Z[t][j] = n + 1
      BY <1>1, <1>2, <2>2, <3>1
    <3> QED
      BY <3>1, <3>2
  <2>3. CASE ~(t = w /\ j = Len(S[w]) + 1)
    <3>1. j \in 1 .. Len(S[t]) /\ Z[t][j] = S[t][j]
      BY <1>6, <2>3
    <3>2. CASE s = w /\ i = Len(S[w]) + 1
      <4>1. w < t
        <5>1. Len(S[w]) \in Nat
          BY <1>0
        <5>2. t = w => j < i
          BY <3>1, <3>2, <5>1
        <5> QED
          BY <2>1, <3>1, <3>2, <5>1, <5>2
      <4> QED
        BY <3>1, <4>1 DEF SilentAfter
    <3>3. CASE ~(s = w /\ i = Len(S[w]) + 1)
      <4>1. i \in 1 .. Len(S[s]) /\ Z[s][i] = S[s][i]
        BY <1>6, <3>3
      <4> QED
        BY <3>1, <4>1 DEF Ordered, SentOrder
    <3> QED
      BY <3>2, <3>3
  <2> QED
    BY <2>2, <2>3
<1>4. WaitOrder(Z, << >>)
  BY DEF WaitOrder
<1>5. ASSUME NEW m \in Nat \ {0} PROVE (m <= n + 1 /\ m \notin L) <=> Occurs(Z, << >>, m)
  <2>1. CASE m = n + 1
    <3>1. Occurs(Z, << >>, m)
      <4>1. Len(S[w]) + 1 \in 1 .. Len(Z[w])
        BY <1>0, <1>1
      <4> QED
        BY <1>1, <2>1, <4>1 DEF Occurs
    <3> QED
      BY <2>1, <3>1
  <2>2. CASE m # n + 1
    <3>1. ASSUME NEW s \in Sockets
          PROVE  (\E i \in 1 .. Len(Z[s]) : Z[s][i] = m) <=> (\E i \in 1 .. Len(S[s]) : S[s][i] = m)
      <4>1. CASE s = w
        <5>1. \A i \in 1 .. Len(Z[w]) : i \in 1 .. Len(S[w]) \/ i = Len(S[w]) + 1
          BY <1>0, <1>1
        <5>2. \A i \in 1 .. Len(S[w]) : i \in 1 .. Len(Z[w])
          BY <1>0, <1>1
        <5> QED
          BY <1>1, <2>2, <4>1, <5>1, <5>2
      <4>2. CASE s # w
        BY <4>2
      <4> QED
        BY <4>1, <4>2
    <3>2. Occurs(Z, << >>, m) <=> Occurs(S, << >>, m)
      BY <3>1 DEF Occurs
    <3> QED
      BY <2>2, <3>2 DEF Ordered, AllThere
  <2> QED
    BY <2>1, <2>2
<1> QED
  BY <1>3, <1>4, <1>5 DEF Ordered, AllThere

(* Hello, or the next message, waits. *)
LEMMA NextWaits ==
    ASSUME NEW S \in Sends, NEW P \in Seq(Nat), NEW n \in Nat, NEW L \in SUBSET (1 .. n),
           Ordered(S, P, n, L), NEW m \in Nat, NEW k \in Nat,
           (m = 0 /\ k = n) \/ (m = n + 1 /\ k = n + 1)
    PROVE  Ordered(S, Append(P, m), k, L)
<1> DEFINE Q == Append(P, m)
<1>1. /\ Len(P) \in Nat /\ Len(Q) = Len(P) + 1 /\ Q[Len(P) + 1] = m
      /\ \A i \in 1 .. Len(P) : Q[i] = P[i]
  OBVIOUS
<1> HIDE DEF Q
<1>2. \A s \in Sockets : S[s] \in Seq(Nat)
  BY DEF Sends
<1>3. /\ \A s \in Sockets : \A i \in 1 .. Len(S[s]) : S[s][i] \in 0 .. n
      /\ \A i \in 1 .. Len(P) : P[i] \in 0 .. n
  <2>1. ASSUME NEW x \in Nat, x # 0, Occurs(S, P, x) PROVE x <= n
    BY <2>1 DEF Ordered, AllThere
  <2>2. \A s \in Sockets : \A i \in 1 .. Len(S[s]) : S[s][i] \in Nat /\ Occurs(S, P, S[s][i])
    BY <1>2 DEF Occurs
  <2>3. \A i \in 1 .. Len(P) : P[i] \in Nat /\ Occurs(S, P, P[i])
    BY DEF Occurs
  <2> QED
    BY <2>1, <2>2, <2>3
<1>4. WaitOrder(S, Q)
  <2> SUFFICES ASSUME NEW j \in 1 .. Len(Q), Q[j] # 0
               PROVE  /\ \A i \in 1 .. j - 1 : Q[i] < Q[j]
                      /\ \A s \in Sockets : \A i \in 1 .. Len(S[s]) : S[s][i] < Q[j]
    BY DEF WaitOrder
  <2>1. CASE j = Len(P) + 1
    <3>1. Q[j] = n + 1 /\ \A i \in 1 .. j - 1 : i \in 1 .. Len(P)
      BY <1>1, <2>1
    <3> QED
      BY <1>1, <1>3, <3>1
  <2>2. CASE j # Len(P) + 1
    <3>1. j \in 1 .. Len(P) /\ Q[j] = P[j] /\ \A i \in 1 .. j - 1 : i \in 1 .. Len(P)
      BY <1>1, <2>2
    <3> QED
      BY <1>1, <3>1 DEF Ordered, WaitOrder
  <2> QED
    BY <2>1, <2>2
<1>5. ASSUME NEW x \in Nat \ {0} PROVE (x <= k /\ x \notin L) <=> Occurs(S, Q, x)
  <2>1. (\E j \in 1 .. Len(Q) : Q[j] = x) <=> (x = m \/ \E j \in 1 .. Len(P) : P[j] = x)
    <3>1. \A j \in 1 .. Len(Q) : j \in 1 .. Len(P) \/ j = Len(P) + 1
      BY <1>1
    <3>2. Len(P) + 1 \in 1 .. Len(Q) /\ \A j \in 1 .. Len(P) : j \in 1 .. Len(Q)
      BY <1>1
    <3> QED
      BY <1>1, <3>1, <3>2
  <2>2. Occurs(S, Q, x) <=> (x = m \/ Occurs(S, P, x))
    BY <2>1 DEF Occurs
  <2>3. (x <= n /\ x \notin L) <=> Occurs(S, P, x)
    BY DEF Ordered, AllThere
  <2> QED
    BY <2>2, <2>3
<1> QED
  BY <1>4, <1>5 DEF Ordered, AllThere, Q

(* The oldest message that waits is dropped. *)
LEMMA OldestIsLost ==
    ASSUME NEW S \in Sends, NEW P \in Seq(Nat), NEW n \in Nat, NEW L, Ordered(S, P, n, L),
           P # << >>
    PROVE  Ordered(S, Tail(P), n, L \union ({Head(P)} \ {0}))
<1> DEFINE Q == Tail(P)
           h == Head(P)
<1>1. /\ Len(P) \in Nat /\ Len(P) > 0 /\ Len(Q) = Len(P) - 1 /\ h = P[1]
      /\ \A i \in 1 .. Len(Q) : Q[i] = P[i + 1]
  OBVIOUS
<1> HIDE DEF Q, h
<1>2. \A i \in 1 .. Len(Q) : i + 1 \in 1 .. Len(P)
  BY <1>1
<1>3. WaitOrder(S, Q)
  <2> SUFFICES ASSUME NEW j \in 1 .. Len(Q), Q[j] # 0
               PROVE  /\ \A i \in 1 .. j - 1 : Q[i] < Q[j]
                      /\ \A s \in Sockets : \A i \in 1 .. Len(S[s]) : S[s][i] < Q[j]
    BY DEF WaitOrder
  <2>1. j + 1 \in 1 .. Len(P) /\ P[j + 1] = Q[j]
    BY <1>1, <1>2
  <2>2. \A i \in 1 .. j - 1 : i + 1 \in 1 .. (j + 1) - 1 /\ i \in 1 .. Len(Q)
    BY <1>1
  <2> QED
    BY <1>1, <2>1, <2>2 DEF Ordered, WaitOrder
<1>4. ASSUME NEW x \in Nat \ {0} PROVE (x <= n /\ x \notin L \union ({h} \ {0})) <=> Occurs(S, Q, x)
  <2>1. (\E j \in 1 .. Len(P) : P[j] = x) <=> (x = h \/ \E j \in 1 .. Len(Q) : Q[j] = x)
    <3>1. ASSUME NEW j \in 1 .. Len(P), j # 1 PROVE j - 1 \in 1 .. Len(Q) /\ Q[j - 1] = P[j]
      BY <1>1, <3>1
    <3>2. 1 \in 1 .. Len(P)
      BY <1>1
    <3> QED
      BY <1>1, <1>2, <3>1, <3>2
  <2>2. (x <= n /\ x \notin L) <=> Occurs(S, P, x)
    BY DEF Ordered, AllThere
  <2>3. x = h => ~Occurs(S, Q, x)
    <3> SUFFICES ASSUME x = h PROVE ~Occurs(S, Q, x)
      OBVIOUS
    <3>1. 1 \in 1 .. Len(P) /\ P[1] # 0
      BY <1>1
    <3>2. ASSUME NEW s \in Sockets, NEW i \in 1 .. Len(S[s]) PROVE S[s][i] # x
      <4>1. S[s][i] < P[1] /\ S[s][i] \in Nat
        BY <3>1 DEF Ordered, WaitOrder, Sends
      <4> QED
        BY <1>1, <4>1
    <3>3. ASSUME NEW j \in 1 .. Len(Q), Q[j] = x PROVE FALSE
      <4>1. j + 1 \in 1 .. Len(P) /\ P[j + 1] = x /\ 1 \in 1 .. (j + 1) - 1
        BY <1>1, <1>2, <3>3
      <4>2. P[1] < P[j + 1]
        BY <4>1 DEF Ordered, WaitOrder
      <4> QED
        BY <1>1, <4>1, <4>2
    <3> QED
      BY <3>2, <3>3 DEF Occurs
  <2> QED
    BY <2>1, <2>2, <2>3 DEF Occurs
<1> QED
  BY <1>3, <1>4 DEF Ordered, AllThere, Q, h

(* close() drops all that wait. *)
LEMMA WaitingIsLost ==
    ASSUME NEW S \in Sends, NEW P \in Seq(Nat), NEW n \in Nat, NEW L, Ordered(S, P, n, L)
    PROVE  Ordered(S, << >>, n, L \union (ToSet(P) \ {0}))
<1>1. ASSUME NEW x \in Nat \ {0}
      PROVE  (x <= n /\ x \notin L \union (ToSet(P) \ {0})) <=> Occurs(S, << >>, x)
  <2>1. x \in ToSet(P) <=> \E j \in 1 .. Len(P) : P[j] = x
    BY DEF ToSet
  <2>2. (x <= n /\ x \notin L) <=> Occurs(S, P, x)
    BY DEF Ordered, AllThere
  <2>3. ASSUME NEW j \in 1 .. Len(P), P[j] = x, NEW s \in Sockets, NEW i \in 1 .. Len(S[s])
        PROVE  S[s][i] # x
    <3>1. S[s][i] < P[j] /\ S[s][i] \in Nat
      BY <2>3, SMTT(40) DEF Ordered, WaitOrder, Sends
    <3> QED
      BY <2>3, <3>1
  <2> QED
    BY <2>1, <2>2, <2>3 DEF Occurs
<1>2. WaitOrder(S, << >>)
  BY DEF WaitOrder
<1> QED
  BY <1>1, <1>2 DEF Ordered, AllThere

(* What waits is sent on a new socket, after Hello. *)
LEMMA WaitingIsSent ==
    ASSUME NEW S \in Sends, NEW P \in Seq(Nat), NEW n \in Nat, NEW L, Ordered(S, P, n, L),
           NEW w \in Sockets, SilentAfter(S, w), S[w] = << >>,
           NEW Z \in Sends, Z[w] = << 0 >> \o P, \A s \in Sockets \ {w} : Z[s] = S[s]
    PROVE  Ordered(Z, << >>, n, L)
<1>0. \A s \in Sockets : S[s] \in Seq(Nat) /\ Len(S[s]) \in Nat
  BY DEF Sends
<1>1. /\ Len(P) \in Nat /\ Len(Z[w]) = Len(P) + 1
      /\ \A i \in 1 .. Len(P) + 1 : Z[w][i] = IF i <= 1 THEN 0 ELSE P[i - 1]
  <2>1. << 0 >> \in Seq(Nat) /\ Len(<< 0 >>) = 1 /\ << 0 >>[1] = 0
    OBVIOUS
  <2>2. /\ Len(<< 0 >> \o P) = 1 + Len(P)
        /\ \A i \in 1 .. 1 + Len(P) : (<< 0 >> \o P)[i] = IF i <= 1 THEN << 0 >>[i] ELSE P[i - 1]
    BY <2>1, ConcatProperties
  <2>3. Len(P) \in Nat
    OBVIOUS
  <2> QED
    BY <2>1, <2>2, <2>3
<1>2. ASSUME NEW i \in 1 .. Len(Z[w]), Z[w][i] # 0
      PROVE  i - 1 \in 1 .. Len(P) /\ Z[w][i] = P[i - 1]
  BY <1>1, <1>2
<1>3. SentOrder(Z)
  <2> SUFFICES ASSUME NEW s \in Sockets, NEW t \in Sockets,
                      NEW i \in 1 .. Len(Z[s]), NEW j \in 1 .. Len(Z[t]),
                      s < t \/ (s = t /\ i < j), Z[s][i] # 0, Z[t][j] # 0
               PROVE  Z[s][i] < Z[t][j]
    BY DEF SentOrder
  <2>1. s \in Nat /\ t \in Nat /\ w \in Nat
    BY Bounds DEF Sockets
  <2>2. CASE s = w /\ t = w
    <3>1. /\ i - 1 \in 1 .. Len(P) /\ Z[s][i] = P[i - 1]
          /\ j - 1 \in 1 .. Len(P) /\ Z[t][j] = P[j - 1]
      BY <1>2, <2>2
    <3>2. i - 1 \in 1 .. (j - 1) - 1
      BY <1>1, <2>1, <2>2, <3>1
    <3> QED
      BY <3>1, <3>2 DEF Ordered, WaitOrder
  <2>3. CASE s # w /\ t = w
    <3>1. i \in 1 .. Len(S[s]) /\ Z[s][i] = S[s][i] /\ j - 1 \in 1 .. Len(P) /\ Z[t][j] = P[j - 1]
      BY <1>2, <2>3
    <3> QED
      BY <3>1 DEF Ordered, WaitOrder
  <2>4. CASE s = w /\ t # w
    <3>1. w < t /\ Z[t] = S[t]
      BY <2>1, <2>4
    <3> QED
      BY <3>1 DEF SilentAfter
  <2>5. CASE s # w /\ t # w
    <3>1. Z[s] = S[s] /\ Z[t] = S[t]
      BY <2>5
    <3> QED
      BY <3>1 DEF Ordered, SentOrder
  <2> QED
    BY <2>2, <2>3, <2>4, <2>5
<1>4. ASSUME NEW x \in Nat \ {0} PROVE Occurs(Z, << >>, x) <=> Occurs(S, P, x)
  <2>1. (\E i \in 1 .. Len(Z[w]) : Z[w][i] = x) <=> (\E j \in 1 .. Len(P) : P[j] = x)
    <3>1. ASSUME NEW j \in 1 .. Len(P) PROVE j + 1 \in 1 .. Len(Z[w]) /\ Z[w][j + 1] = P[j]
      <4>1. j + 1 \in 1 .. Len(P) + 1 /\ ~(j + 1 <= 1) /\ (j + 1) - 1 = j
        BY <1>1
      <4> QED
        BY <1>1, <4>1
    <3> QED
      BY <1>2, <3>1
  <2>2. ~\E i \in 1 .. Len(S[w]) : S[w][i] = x
    OBVIOUS
  <2>3. \A s \in Sockets : s # w => Z[s] = S[s]
    OBVIOUS
  <2>4. (\E s \in Sockets : \E i \in 1 .. Len(Z[s]) : Z[s][i] = x)
          <=> \/ \E i \in 1 .. Len(Z[w]) : Z[w][i] = x
              \/ \E s \in Sockets : \E i \in 1 .. Len(S[s]) : S[s][i] = x
    BY <2>2, <2>3
  <2> QED
    BY <2>1, <2>4 DEF Occurs
<1>5. WaitOrder(Z, << >>)
  BY DEF WaitOrder
<1> QED
  BY <1>3, <1>4, <1>5 DEF Ordered, AllThere

-----------------------------------------------------------------------------
(* The same of the connections. *)
Sent == [s \in Sockets |-> sock[s].sent]

Waiting == IF conn = None THEN << >> ELSE link[conn].pending

(* Sockets are taken in their order; only the connection the session has   *)
(* keeps messages, while it is not open; and since it took its socket      *)
(* nothing of the application's was sent on a later one.                   *)
Numbered == \A s, t \in Sockets : s < t /\ sock[s].pc = "unused" => sock[t].pc = "unused"

Emptied == \A c \in Conns : c # conn \/ link[c].isOpen => link[c].pending = << >>

Latest == conn # None /\ link[conn].ws # None => SilentAfter(Sent, link[conn].ws)

OrderInv == Numbered /\ Emptied /\ Latest /\ Ordered(Sent, Waiting, said, lost)

LEMMA SentIs ==
    ASSUME Inv
    PROVE  /\ Sent \in Sends /\ \A s \in Sockets : Sent[s] = sock[s].sent
           /\ Waiting \in Seq(Nat) /\ said \in Nat /\ lost \in SUBSET (1 .. said)
<1>1. Sent \in Sends /\ \A s \in Sockets : Sent[s] = sock[s].sent
  BY DEF Sent, Sends, Inv, Linked, Socket
<1>2. Waiting \in Seq(Nat)
  BY CurrentConn DEF Waiting, Inv, Linked, Link
<1>3. said \in Nat /\ lost \in SUBSET (1 .. said)
  BY Bounds DEF Inv, Scalars, Said
<1> QED
  BY <1>1, <1>2, <1>3

LEMMA SentNext ==
    ASSUME Inv'
    PROVE  Sent' \in Sends /\ \A s \in Sockets : Sent'[s] = sock'[s].sent
  BY DEF Sent, Sends, Inv, Linked, Socket

LEMMA OrderInit == ASSUME Init PROVE OrderInv
<1>1. Numbered /\ Emptied /\ Latest
  BY DEF Init, Numbered, Emptied, Latest, Fresh
<1>2. Waiting = << >> /\ said = 0 /\ lost = {} /\ \A s \in Sockets : Sent[s] = << >>
  BY DEF Init, Waiting, Sent
<1>3. SentOrder(Sent) /\ WaitOrder(Sent, << >>)
  BY <1>2 DEF SentOrder, WaitOrder
<1>4. AllThere(Sent, << >>, 0, {})
  BY <1>2 DEF AllThere, Occurs
<1> QED
  BY <1>1, <1>2, <1>3, <1>4 DEF OrderInv, Ordered

(* Hello at most is sent, on a socket that another one does not replace. *)
LEMMA SilentStays ==
    ASSUME Inv, Inv', NEW STATE w, SilentAfter(Sent, w),
           \A s \in Sockets : sock'[s].sent \in {sock[s].sent, Append(sock[s].sent, Hello)}
    PROVE  SilentAfter(Sent', w)
<1> SUFFICES ASSUME NEW t \in Sockets, w < t, NEW i \in 1 .. Len(Sent'[t])
             PROVE  Sent'[t][i] = 0
  BY DEF SilentAfter
<1>1. /\ Sent[t] \in Seq(Nat) /\ (Sent'[t] = Sent[t] \/ Sent'[t] = Append(Sent[t], 0))
      /\ \A j \in 1 .. Len(Sent[t]) : Sent[t][j] = 0
  BY SentIs, SentNext DEF Sends, Hello, SilentAfter
<1> QED
  BY <1>1

(* A step that gives and takes no message of the application. *)
LEMMA QuietOrder ==
    ASSUME Inv, Inv', OrderInv, UNCHANGED <<said, lost>>, Waiting' = Waiting,
           \A s \in Sockets : sock'[s].sent \in {sock[s].sent, Append(sock[s].sent, Hello)}
    PROVE  Ordered(Sent, Waiting, said, lost)'
<1>1. \A s \in Sockets : Sent'[s] = Sent[s] \/ Sent'[s] = Append(Sent[s], 0)
  BY SentIs, SentNext DEF Hello
<1>2. Ordered(Sent', Waiting, said, lost)
  BY <1>1, SentIs, SentNext, HelloIsSilent DEF OrderInv
<1> QED
  BY <1>2

(* One connection changes what does not concern its messages. *)
LEMMA SameMessages ==
    ASSUME Inv, Inv', OrderInv, NEW STATE c, c \in Conns,
           UNCHANGED <<conn, said, lost>>, \A d \in Conns : d # c => link'[d] = link[d],
           link'[c].pending = link[c].pending, link'[c].isOpen => link[c].isOpen,
           \A s \in Sockets : sock'[s].sent = sock[s].sent
    PROVE  Emptied' /\ Ordered(Sent, Waiting, said, lost)'
<1>1. \A d \in Conns : link'[d].pending = link[d].pending /\ (link'[d].isOpen => link[d].isOpen)
  OBVIOUS
<1>2. Emptied'
  BY <1>1 DEF OrderInv, Emptied
<1>3. Waiting' = Waiting
  BY <1>1, CurrentConn DEF Waiting
<1> QED
  BY <1>2, <1>3, QuietOrder

LEMMA SameLatest ==
    ASSUME Inv, Inv', Latest, conn' = conn, conn # None => link'[conn].ws = link[conn].ws,
           \A s \in Sockets : sock'[s].sent \in {sock[s].sent, Append(sock[s].sent, Hello)}
    PROVE  Latest'
<1> SUFFICES ASSUME conn # None, link[conn].ws # None
             PROVE  SilentAfter(Sent', link[conn].ws)
  BY DEF Latest
<1> QED
  BY SilentStays DEF Latest

LEMMA ConnectOrder == ASSUME Inv, Inv', OrderInv, Connect PROVE OrderInv'
<1> DEFINE d == made + 1
           new == [Fresh EXCEPT !.getting = 1]
<1>1. /\ conn = None /\ d \in Conns /\ d # None /\ link[d] = Fresh /\ conn' = d
      /\ link' = [link EXCEPT ![d] = new] /\ UNCHANGED <<sock, said, lost>>
  <2>1. conn = None /\ made < MaxConns /\ made \in Nat
    BY Bounds DEF Connect, Inv, Scalars
  <2>2. d \in Conns /\ d > made /\ d # None
    BY <2>1, Bounds DEF Conns, None
  <2>3. link[d] = Fresh
    BY <2>2 DEF Inv, OneAfterTheOther
  <2> QED
    BY <2>1, <2>2, <2>3 DEF Connect, Inv, Linked
<1>2. new.pending = << >> /\ new.ws = None
  <2>1. Fresh \in Link /\ Fresh.pending = << >> /\ Fresh.ws = None
    BY FreshType DEF Fresh
  <2> QED
    BY <2>1 DEF Link
<1> HIDE DEF new, d
<1>3. link'[d] = new /\ \A c \in Conns : c # d => link'[c] = link[c]
  BY <1>1 DEF Inv, Linked
<1>4. Numbered'
  BY <1>1 DEF OrderInv, Numbered
<1>5. Emptied'
  <2>1. \A c \in Conns : link[c].pending = << >>
    <3>1. \A c \in Conns : c # conn
      BY <1>1, Bounds DEF Conns, None
    <3> QED
      BY <3>1 DEF OrderInv, Emptied
  <2> QED
    BY <1>2, <1>3, <2>1 DEF Emptied
<1>6. Latest'
  BY <1>1, <1>2, <1>3 DEF Latest
<1>7. Waiting' = Waiting
  BY <1>1, <1>2, <1>3 DEF Waiting
<1>8. Ordered(Sent, Waiting, said, lost)'
  BY <1>1, <1>7, QuietOrder
<1> QED
  BY <1>4, <1>5, <1>6, <1>8 DEF OrderInv

(* Queued, and what it drops. *)
LEMMA QueuedOrder ==
    ASSUME Inv, OrderInv, conn # None, NEW m \in Nat, NEW n \in Nat,
           (m = Hello /\ n = said) \/ (m = said + 1 /\ n = said + 1)
    PROVE  Ordered(Sent, Queued(link[conn], m).pending, n, lost \union Overflown(link[conn]))
<1> DEFINE P == link[conn].pending
           all == Append(P, m)
           kept == IF Len(all) > MaxPending THEN Tail(all) ELSE all
<1>1. /\ link[conn] \in Link /\ P \in Seq(Nat) /\ Len(P) <= MaxPending /\ Waiting = P
      /\ Len(P) \in Nat
  <2>1. conn \in Conns /\ link[conn] \in Link
    BY CurrentConn DEF Inv, Linked
  <2>2. P \in Seq(Nat) /\ Len(P) \in Nat
    BY <2>1 DEF Link
  <2>3. Len(P) <= MaxPending /\ Waiting = P
    BY <2>1 DEF Inv, Queues, Waiting
  <2> QED
    BY <2>1, <2>2, <2>3
<1>2. Queued(link[conn], m).pending = kept
  <2>1. Queued(link[conn], m) = [link[conn] EXCEPT !.pending = kept]
    BY DEF Queued
  <2> HIDE DEF kept
  <2> QED
    BY <1>1, <2>1 DEF Link
<1>3. Overflown(link[conn]) = IF Len(P) >= MaxPending THEN {Head(P)} \ {Hello} ELSE {}
  BY DEF Overflown
<1> HIDE DEF P
<1>4. Ordered(Sent, all, n, lost)
  <2>1. Ordered(Sent, P, said, lost)
    BY <1>1 DEF OrderInv
  <2> QED
    BY <1>1, <2>1, SentIs, NextWaits DEF Hello
<1>5. all \in Seq(Nat) /\ all # << >> /\ Len(all) = Len(P) + 1
  BY <1>1
<1>6. CASE Len(P) >= MaxPending
  <2>1. Head(all) = Head(P)
    BY <1>1, <1>6, Bounds
  <2>2. kept = Tail(all)
    BY <1>1, <1>5, <1>6, Bounds
  <2>3. Ordered(Sent, Tail(all), n, lost \union ({Head(all)} \ {0}))
    BY <1>4, <1>5, SentIs, OldestIsLost
  <2> QED
    BY <1>2, <1>3, <1>6, <2>1, <2>2, <2>3 DEF Hello
<1>7. CASE Len(P) < MaxPending
  <2>1. kept = all /\ Overflown(link[conn]) = {}
    BY <1>1, <1>3, <1>5, <1>7, Bounds
  <2>2. lost \union {} = lost
    OBVIOUS
  <2> QED
    BY <1>2, <1>4, <2>1, <2>2
<1> QED
  BY <1>1, <1>6, <1>7, Bounds

LEMMA SayOrder == ASSUME Inv, Inv', OrderInv, Say PROVE OrderInv'
<1>1. /\ conn \in Conns /\ conn # None /\ said' = said + 1 /\ conn' = conn /\ link[conn] \in Link
  BY CurrentConn DEF Say, Inv, Linked
<1>2. CASE link[conn].isOpen
  <2> DEFINE w == link[conn].ws
  <2>1. w \in Sockets /\ w # None /\ Waiting = << >>
    BY <1>1, <1>2 DEF Inv, Linked, Link, OrderInv, Emptied, Waiting
  <2>2. sock' = [sock EXCEPT ![w].sent = Append(@, said')] /\ UNCHANGED <<link, lost>>
    BY <1>2 DEF Say
  <2> HIDE DEF w
  <2>3. /\ sock'[w].sent = Append(sock[w].sent, said + 1)
        /\ \A s \in Sockets \ {w} : sock'[s] = sock[s]
        /\ \A s \in Sockets : sock'[s].pc = sock[s].pc
    <3> DEFINE new == [sock[w] EXCEPT !.sent = Append(@, said')]
    <3>1. said' \in Nat /\ sock[w] \in Socket
      BY <1>1, <2>1, SentIs DEF Inv, Linked
    <3>2. new.sent = Append(sock[w].sent, said') /\ new.pc = sock[w].pc
      BY <3>1, SentType
    <3>3. sock' = [sock EXCEPT ![w] = new]
      BY <2>2
    <3> HIDE DEF new
    <3> QED
      BY <1>1, <2>1, <3>2, <3>3 DEF Inv, Linked
  <2>4. SilentAfter(Sent, w)
    BY <1>1, <2>1 DEF OrderInv, Latest, w
  <2>5. Ordered(Sent', << >>, said + 1, lost)
    <3>1. Sent'[w] = Append(Sent[w], said + 1) /\ \A s \in Sockets \ {w} : Sent'[s] = Sent[s]
      BY <2>1, <2>3, SentIs, SentNext
    <3>2. Ordered(Sent, << >>, said, lost)
      BY <2>1 DEF OrderInv
    <3> QED
      BY <2>1, <2>4, <3>1, <3>2, SentIs, SentNext, NextIsSent
  <2>6. Ordered(Sent, Waiting, said, lost)'
    <3>1. Waiting' = << >>
      BY <1>1, <2>1, <2>2 DEF Waiting
    <3> QED
      BY <1>1, <2>2, <2>5, <3>1
  <2>7. Numbered' /\ Emptied'
    BY <1>1, <2>2, <2>3 DEF OrderInv, Numbered, Emptied
  <2>8. Latest'
    <3>1. \A t \in Sockets : w < t => Sent'[t] = Sent[t]
      BY <2>1, <2>3, SentIs, SentNext DEF Sockets
    <3>2. SilentAfter(Sent', w)
      BY <2>4, <3>1 DEF SilentAfter
    <3> QED
      BY <1>1, <2>2, <3>2 DEF Latest, w
  <2> QED
    BY <2>6, <2>7, <2>8 DEF OrderInv
<1>3. CASE ~link[conn].isOpen
  <2>1. /\ link' = [link EXCEPT ![conn] = Queued(link[conn], said')]
        /\ lost' = lost \union Overflown(link[conn]) /\ UNCHANGED sock
    BY <1>3 DEF Say
  <2>2. said + 1 \in Nat /\ said \in Nat
    BY SentIs
  <2> DEFINE l == Queued(link[conn], said + 1)
  <2>3. l = [link[conn] EXCEPT !.pending = l.pending]
    <3>1. /\ Len(link[conn].pending) <= MaxPending
          /\ \A i \in 1 .. Len(link[conn].pending) : link[conn].pending[i] \in 0 .. said + 1
      BY <1>1, <2>2 DEF Inv, Queues
    <3> QED
      BY <1>1, <2>2, <3>1, QueuedKeeps
  <2> HIDE DEF l
  <2>4. l.ws = link[conn].ws /\ l.isOpen = link[conn].isOpen
    BY <1>1, <2>3 DEF Link
  <2>5. link'[conn] = l /\ \A d \in Conns : d # conn => link'[d] = link[d]
    BY <1>1, <2>1 DEF Inv, Linked, l
  <2>6. Ordered(Sent, l.pending, said + 1, lost \union Overflown(link[conn]))
    BY <1>1, <2>2, QueuedOrder DEF l
  <2>7. Ordered(Sent, Waiting, said, lost)'
    <3>1. Waiting' = l.pending /\ Sent' = Sent
      BY <1>1, <2>1, <2>5 DEF Waiting, Sent
    <3> QED
      BY <1>1, <2>1, <2>6, <3>1
  <2>8. Numbered' /\ Emptied'
    BY <1>1, <1>3, <2>1, <2>4, <2>5 DEF OrderInv, Numbered, Emptied
  <2>9. Latest'
    BY <1>1, <2>1, <2>4, <2>5, SameLatest DEF OrderInv
  <2> QED
    BY <2>7, <2>8, <2>9 DEF OrderInv
<1> QED
  BY <1>2, <1>3

LEMMA CloseOrder == ASSUME Inv, Inv', OrderInv, Close PROVE OrderInv'
<1> DEFINE l == [link[conn] EXCEPT !.closedByUser = TRUE, !.isOpen = FALSE,
                   !.pending = << >>, !.timers = 0, !.ws = None]
<1>1. /\ conn \in Conns /\ conn # None /\ conn' = None /\ said' = said
      /\ lost' = lost \union (ToSet(link[conn].pending) \ {Hello})
      /\ link[conn] \in Link /\ link' = [link EXCEPT ![conn] = l]
  BY CurrentConn DEF Close, Inv, Linked
<1>2. l.pending = << >>
  BY <1>1 DEF Link
<1> HIDE DEF l
<1>3. link'[conn] = l /\ \A d \in Conns : d # conn => link'[d] = link[d]
  BY <1>1 DEF Inv, Linked
<1>4. \A s \in Sockets : sock'[s].sent = sock[s].sent
                         /\ (sock'[s].pc = "unused" <=> sock[s].pc = "unused")
  <2> SUFFICES ASSUME NEW s \in Sockets
               PROVE  sock'[s].sent = sock[s].sent
                      /\ (sock'[s].pc = "unused" <=> sock[s].pc = "unused")
    OBVIOUS
  <2>1. sock[s] \in Socket
    BY DEF Inv, Linked
  <2>2. \/ sock'[s] = sock[s]
        \/ sock[s].pc \in {"connecting", "open"} /\ sock'[s] = [sock[s] EXCEPT !.pc = "closing"]
    BY DEF Close
  <2> QED
    BY <2>1, <2>2 DEF Socket
<1>5. Numbered' /\ Emptied' /\ Latest'
  BY <1>1, <1>2, <1>3, <1>4 DEF OrderInv, Numbered, Emptied, Latest
<1>6. Sent' = Sent
  BY <1>4 DEF Sent
<1>7. Ordered(Sent, << >>, said, lost \union (ToSet(Waiting) \ {0}))
  BY SentIs, WaitingIsLost DEF OrderInv
<1>8. Ordered(Sent, Waiting, said, lost)'
  <2>1. Waiting' = << >> /\ lost' = lost \union (ToSet(Waiting) \ {0})
    BY <1>1 DEF Waiting, Hello
  <2> QED
    BY <1>1, <1>6, <1>7, <2>1
<1> QED
  BY <1>5, <1>8 DEF OrderInv

LEMMA GotUrlOrder == ASSUME Inv, Inv', OrderInv, NEW c \in Conns, GotUrl(c) PROVE OrderInv'
<1>1. PICK s \in Unused :
        /\ \A t \in Unused : s <= t
        /\ sock' = [sock EXCEPT ![s].owner = c, ![s].pc = "connecting"]
        /\ link' = [link EXCEPT ![c].getting = @ - 1, ![c].ws = s]
  BY DEF GotUrl
<1> DEFINE l == [link[c] EXCEPT !.getting = @ - 1, !.ws = s]
           x == [sock[s] EXCEPT !.owner = c, !.pc = "connecting"]
<1>2. /\ s \in Sockets /\ sock[s].pc = "unused" /\ sock[s] \in Socket /\ link[c] \in Link
      /\ UNCHANGED <<conn, said, lost>>
  BY DEF Unused, Inv, Linked, GotUrl
<1>3. l.ws = s /\ l.pending = link[c].pending /\ l.isOpen = link[c].isOpen
  BY <1>2 DEF Link
<1>4. x.pc = "connecting" /\ x.sent = sock[s].sent
  BY <1>2 DEF Socket
<1>5. link' = [link EXCEPT ![c] = l] /\ sock' = [sock EXCEPT ![s] = x]
  BY <1>1, <1>2 DEF Inv, Linked
<1> HIDE DEF l, x
<1>6. /\ link'[c] = l /\ \A d \in Conns : d # c => link'[d] = link[d]
      /\ sock'[s] = x /\ \A t \in Sockets : t # s => sock'[t] = sock[t]
  BY <1>2, <1>5 DEF Inv, Linked
<1>7. Emptied' /\ Ordered(Sent, Waiting, said, lost)'
  BY <1>2, <1>3, <1>4, <1>6, SameMessages
<1>8. Numbered'
  <2> SUFFICES ASSUME NEW t \in Sockets, NEW u \in Sockets, t < u, sock'[t].pc = "unused"
               PROVE  sock'[u].pc = "unused"
    BY DEF Numbered
  <2>1. t # s /\ sock[t].pc = "unused" /\ t \in Nat /\ u \in Nat /\ s \in Nat
    BY <1>2, <1>4, <1>6, Bounds DEF Sockets
  <2>2. s <= t
    BY <1>1, <2>1 DEF Unused
  <2>3. u # s
    BY <2>1, <2>2
  <2> QED
    BY <1>6, <2>1, <2>3 DEF OrderInv, Numbered
<1>9. Latest'
  <2>1. CASE c = conn
    <3>1. SilentAfter(Sent', s)
      <4> SUFFICES ASSUME NEW t \in Sockets, s < t PROVE Sent'[t] = << >>
        BY DEF SilentAfter
      <4>1. sock[t].pc = "unused"
        BY <1>2 DEF OrderInv, Numbered
      <4>2. t # s
        BY <1>2, Bounds DEF Sockets
      <4> QED
        BY <1>6, <4>1, <4>2, SentNext DEF Inv, Greeted
    <3> QED
      BY <1>2, <1>3, <1>6, <2>1, <3>1 DEF Latest
  <2>2. CASE c # conn
    <3>1. conn # None => link'[conn].ws = link[conn].ws
      BY <1>6, <2>2, CurrentConn
    <3>2. \A t \in Sockets : sock'[t].sent = sock[t].sent
      BY <1>4, <1>6
    <3> QED
      BY <1>2, <3>1, <3>2, SameLatest DEF OrderInv
  <2> QED
    BY <2>1, <2>2
<1> QED
  BY <1>7, <1>8, <1>9 DEF OrderInv

LEMMA WaitsOrder ==
    ASSUME Inv, Inv', OrderInv, NEW c \in Conns, UrlFails(c) \/ Timer(c) PROVE OrderInv'
<1>1. UNCHANGED <<conn, said, lost, sock>> /\ link[c] \in Link
  BY DEF UrlFails, Timer, Inv, Linked
<1>2. \A d \in Conns : d # c => link'[d] = link[d]
  BY DEF UrlFails, Timer, Inv, Linked
<1>3. /\ link'[c].pending = link[c].pending /\ link'[c].isOpen = link[c].isOpen
      /\ link'[c].ws = link[c].ws
  <2>1. CASE Timer(c)
    <3>1. link'[c] = [link[c] EXCEPT !.timers = @ - 1, !.getting = @ + 1]
      BY <2>1 DEF Timer, Inv, Linked
    <3> QED
      BY <1>1, <3>1 DEF Link
  <2>2. CASE UrlFails(c)
    <3> DEFINE k == [link[c] EXCEPT !.getting = @ - 1, !.streak = @ + 1]
    <3>1. link' = [link EXCEPT ![c] = Scheduled(k)] /\ link[c].getting > 0
      BY <2>2 DEF UrlFails, Unanswered
    <3>2. /\ k \in Link /\ k.pending = link[c].pending /\ k.isOpen = link[c].isOpen
          /\ k.ws = link[c].ws
      <4>1. link[c].getting - 1 \in Nat /\ link[c].streak + 1 \in Nat
        BY <1>1, <3>1 DEF Link
      <4> QED
        BY <1>1, <4>1 DEF Link
    <3> HIDE DEF k
    <3>3. link'[c] = Scheduled(k)
      BY <3>1 DEF Inv, Linked
    <3> QED
      BY <3>2, <3>3, ScheduledKeeps
  <2> QED
    BY <2>1, <2>2
<1>4. Emptied' /\ Ordered(Sent, Waiting, said, lost)'
  BY <1>1, <1>2, <1>3, SameMessages
<1>5. Numbered'
  BY <1>1 DEF OrderInv, Numbered
<1>6. Latest'
  <2>1. conn # None => link'[conn].ws = link[conn].ws
    BY <1>2, <1>3, CurrentConn
  <2> QED
    BY <1>1, <2>1, SameLatest DEF OrderInv
<1> QED
  BY <1>4, <1>5, <1>6 DEF OrderInv

LEMMA EndsOrder ==
    ASSUME Inv, Inv', OrderInv, NEW s \in Sockets, Ends(s),
           sock[s].pc \in {"connecting", "open", "closing"}
    PROVE  OrderInv'
<1> DEFINE c == sock[s].owner
           l == Broken(link[c])
           t == [sock[s] EXCEPT !.pc = "closed"]
<1>1. /\ link' = [link EXCEPT ![c] = l] /\ sock' = [sock EXCEPT ![s] = t]
      /\ UNCHANGED <<conn, said, lost>>
  BY DEF Ends
<1>2. c \in Conns /\ link[c] \in Link /\ sock[s] \in Socket
  BY DEF Inv, Turns, Live, Linked
<1>3. l.ws = link[c].ws /\ l.pending = link[c].pending /\ ~l.isOpen
  BY <1>2, BrokenKeeps
<1>4. t.pc = "closed" /\ t.sent = sock[s].sent
  BY <1>2 DEF Socket
<1> HIDE DEF l, t, c
<1>5. /\ link'[c] = l /\ \A d \in Conns : d # c => link'[d] = link[d]
      /\ sock'[s] = t /\ \A u \in Sockets : u # s => sock'[u] = sock[u]
  BY <1>1, <1>2 DEF Inv, Linked
<1>6. \A u \in Sockets : sock'[u].sent = sock[u].sent
                         /\ (sock'[u].pc = "unused" <=> sock[u].pc = "unused")
  BY <1>4, <1>5
<1>7. Emptied' /\ Ordered(Sent, Waiting, said, lost)'
  BY <1>1, <1>2, <1>3, <1>5, <1>6, SameMessages
<1>8. Numbered'
  BY <1>6 DEF OrderInv, Numbered
<1>9. Latest'
  <2>1. conn # None => link'[conn].ws = link[conn].ws
    BY <1>3, <1>5, CurrentConn
  <2> QED
    BY <1>1, <1>6, <2>1, SameLatest DEF OrderInv
<1> QED
  BY <1>7, <1>8, <1>9 DEF OrderInv

(* The socket of the session's connection opens, and is sent what waited,  *)
(* unless the application sends first, from its own listener.              *)
LEMMA OpensOrder ==
    ASSUME Inv, Inv', OrderInv, ~Listens, NEW s \in Sockets, Opens(s) PROVE OrderInv'
<1> DEFINE c == sock[s].owner
           l == Opened(link[c])
           g == sock[s].sent \o Greeting(<< >>, link[c].pending)
           t == [sock[s] EXCEPT !.pc = "open", !.sent = g]
<1>1. /\ sock[s].pc = "connecting" /\ c = conn /\ link' = [link EXCEPT ![c] = l]
      /\ UNCHANGED <<conn, lost>>
  BY DEF Opens
<1>2. /\ c \in Conns /\ c # None /\ link[c] \in Link /\ sock[s] \in Socket
      /\ link[c].ws = s /\ link[c].pending \in Seq(Nat) /\ sock[s].sent = << >>
  BY <1>1, SMTT(40) DEF Inv, Turns, Live, Linked, Link, Greeted, Conns, None
<1>3. said' = said /\ sock' = [sock EXCEPT ![s] = t]
  <2>1. PICK extra \in {<< >>} :
          /\ said' = said + Len(extra)
          /\ sock' = [sock EXCEPT ![s].pc = "open",
                                 ![s].sent = @ \o Greeting(extra, link[c].pending)]
    BY DEF Opens
  <2>2. extra = << >> /\ said + 0 = said /\ Len(extra) = 0
    BY <2>1, SentIs, SMTT(40)
  <2> QED
    BY <2>1, <2>2
<1>4. g = << 0 >> \o link[c].pending /\ g \in Seq(Nat)
  <2>1. << 0 >> \in Seq(Nat)
    OBVIOUS
  <2>2. << 0 >> \o << >> = << 0 >>
    BY <2>1, ConcatEmptySeq
  <2>3. g = << >> \o (<< 0 >> \o link[c].pending)
    BY <1>2, <2>2 DEF Greeting, Hello
  <2>4. << 0 >> \o link[c].pending \in Seq(Nat)
    BY <1>2, <2>1, ConcatProperties
  <2> QED
    BY <2>3, <2>4, ConcatEmptySeq
<1> HIDE DEF g
<1>5. t.pc = "open" /\ t.sent = g
  BY <1>2, <1>4 DEF Socket
<1>6. l.ws = s /\ l.pending = << >>
  BY <1>2, OpenedFields
<1> HIDE DEF l, t, c
<1>7. /\ link'[c] = l /\ \A d \in Conns : d # c => link'[d] = link[d]
      /\ sock'[s] = t /\ \A u \in Sockets : u # s => sock'[u] = sock[u]
  BY <1>1, <1>2, <1>3 DEF Inv, Linked
<1>8. Waiting = link[c].pending /\ Waiting' = << >>
  BY <1>1, <1>2, <1>6, <1>7 DEF Waiting
<1>9. SilentAfter(Sent, s)
  BY <1>1, <1>2 DEF OrderInv, Latest, Sockets, None
<1>10. /\ Sent[s] = << >> /\ Sent'[s] = << 0 >> \o Waiting
       /\ \A u \in Sockets \ {s} : Sent'[u] = Sent[u]
  <2>1. Sent[s] = << >> /\ Sent'[s] = g
    BY <1>2, <1>5, <1>7, SentIs, SentNext
  <2>2. ASSUME NEW u \in Sockets \ {s} PROVE Sent'[u] = Sent[u]
    BY <1>7, SentIs, SentNext
  <2> QED
    BY <1>4, <1>8, <2>1, <2>2
<1>11. Ordered(Sent, Waiting, said, lost)'
  <2>1. Ordered(Sent', << >>, said, lost)
    BY <1>9, <1>10, SentIs, SentNext, WaitingIsSent DEF OrderInv
  <2> QED
    BY <1>1, <1>3, <1>8, <2>1
<1>12. Numbered'
  BY <1>1, <1>5, <1>7 DEF OrderInv, Numbered
<1>13. Emptied'
  BY <1>1, <1>6, <1>7 DEF OrderInv, Emptied
<1>14. Latest'
  <2>1. \A u \in Sockets : s < u => Sent'[u] = Sent[u]
    BY <1>10, Bounds DEF Sockets
  <2>2. SilentAfter(Sent', s)
    BY <1>9, <2>1 DEF SilentAfter
  <2> QED
    BY <1>1, <1>6, <1>7, <2>2 DEF Latest
<1> QED
  BY <1>11, <1>12, <1>13, <1>14 DEF OrderInv

(* The socket of a connection the session has left opens: it had nothing   *)
(* to send, and Hello goes where the session is now.                       *)
LEMMA OpensLateOrder ==
    ASSUME Inv, Inv', OrderInv, NEW s \in Sockets, OpensLate(s) PROVE OrderInv'
<1> DEFINE c == sock[s].owner
           w == link[conn].ws
           heard == conn # None /\ link[conn].isOpen
           waits == conn # None /\ ~link[conn].isOpen
           x == [sock[s] EXCEPT !.pc = "open"]
           y == [sock[w] EXCEPT !.sent = Append(@, Hello)]
           q == Queued(link[conn], Hello)
<1>1. /\ sock[s].pc = "connecting" /\ c # conn /\ UNCHANGED <<conn, said>>
  BY DEF OpensLate
<1>2. /\ c \in Conns /\ link[c] \in Link /\ sock[s] \in Socket /\ link[c].ws = s
  BY <1>1 DEF Inv, Turns, Live, Linked
<1>3. /\ link' = [d \in Conns |-> IF d = c THEN Opened(link[d])
                                 ELSE IF d = conn /\ waits THEN q ELSE link[d]]
      /\ lost' = lost \union (IF waits THEN Overflown(link[conn]) ELSE {})
  BY DEF OpensLate
<1>4. conn # None => /\ conn \in Conns /\ link[conn] \in Link
  BY CurrentConn DEF Inv, Linked
<1>5. heard => w \in Sockets /\ w # s /\ sock[w].pc = "open" /\ sock[w] \in Socket
  BY <1>1, <1>4 DEF Inv, Linked, Turns, Link
<1>6. sock' = IF heard THEN [sock EXCEPT ![s] = x, ![w] = y] ELSE [sock EXCEPT ![s] = x]
  <2>1. CASE heard
    <3>1. sock' = [sock EXCEPT ![s].pc = "open", ![w].sent = Append(@, Hello)]
      BY <2>1 DEF OpensLate
    <3> QED
      BY <2>1, <1>2, <1>5, <3>1 DEF Inv, Linked
  <2>2. CASE ~heard
    <3>1. sock' = [sock EXCEPT ![s].pc = "open", ![s].sent = @]
      BY <2>2 DEF OpensLate
    <3> QED
      BY <2>2, <1>2, <3>1 DEF Inv, Linked, Socket
  <2> QED
    BY <2>1, <2>2
<1>7. x.pc = "open" /\ x.sent = sock[s].sent
  BY <1>2 DEF Socket
<1>8. heard => y.pc = "open" /\ y.sent = Append(sock[w].sent, Hello)
  BY <1>5, SentType DEF Hello
<1> HIDE DEF x, y
<1>9. \A u \in Sockets : /\ sock'[u].sent \in {sock[u].sent, Append(sock[u].sent, Hello)}
                         /\ sock'[u].pc = "unused" <=> sock[u].pc = "unused"
  <2> SUFFICES ASSUME NEW u \in Sockets
               PROVE  /\ sock'[u].sent \in {sock[u].sent, Append(sock[u].sent, Hello)}
                      /\ sock'[u].pc = "unused" <=> sock[u].pc = "unused"
    OBVIOUS
  <2>1. CASE u = s
    <3>1. sock'[u] = x
      BY <1>5, <1>6, <2>1 DEF Inv, Linked
    <3> QED
      BY <1>1, <1>7, <2>1, <3>1
  <2>2. CASE heard /\ u = w
    <3>1. sock'[u] = y
      BY <1>5, <1>6, <2>2 DEF Inv, Linked
    <3> QED
      BY <1>5, <1>8, <2>2, <3>1
  <2>3. CASE u # s /\ ~(heard /\ u = w)
    <3>1. sock'[u] = sock[u]
      BY <1>6, <2>3 DEF Inv, Linked
    <3> QED
      BY <3>1
  <2> QED
    BY <2>1, <2>2, <2>3
<1>10. waits => q.ws = w /\ q.isOpen = link[conn].isOpen
  <2> SUFFICES ASSUME waits PROVE q.ws = w /\ q.isOpen = link[conn].isOpen
    OBVIOUS
  <2>1. q = [link[conn] EXCEPT !.pending = q.pending]
    <3>1. /\ Len(link[conn].pending) <= MaxPending
          /\ \A i \in 1 .. Len(link[conn].pending) : link[conn].pending[i] \in 0 .. said
      BY <1>4 DEF Inv, Queues
    <3>2. Hello \in Nat /\ said \in Nat /\ Hello <= said
      BY SentIs DEF Hello
    <3> QED
      BY <1>4, <3>1, <3>2, QueuedKeeps
  <2> HIDE DEF q
  <2> QED
    BY <1>4, <2>1 DEF Link
<1>11. Opened(link[c]).ws = s /\ Opened(link[c]).pending = << >>
  BY <1>2, OpenedFields
<1> HIDE DEF q
<1>12. /\ link'[c] = Opened(link[c])
       /\ waits => link'[conn] = q
       /\ \A d \in Conns : d # c /\ ~(waits /\ d = conn) => link'[d] = link[d]
  BY <1>1, <1>2, <1>3, <1>4
<1>13. Numbered'
  BY <1>9 DEF OrderInv, Numbered
<1>14. Emptied'
  <2> SUFFICES ASSUME NEW d \in Conns, d # conn \/ link'[d].isOpen PROVE link'[d].pending = << >>
    BY <1>1 DEF Emptied
  <2>1. CASE d = c
    BY <1>11, <1>12, <2>1
  <2>2. CASE d # c
    <3>1. ~(waits /\ d = conn)
      BY <1>10, <1>12
    <3>2. link'[d] = link[d]
      BY <1>12, <2>2, <3>1
    <3> QED
      BY <3>2 DEF OrderInv, Emptied
  <2> QED
    BY <2>1, <2>2
<1>15. Latest'
  <2>1. conn # None => link'[conn].ws = link[conn].ws
    BY <1>1, <1>4, <1>10, <1>12
  <2> QED
    BY <1>1, <1>9, <2>1, SameLatest DEF OrderInv
<1>16. Ordered(Sent, Waiting, said, lost)'
  <2>1. CASE ~waits
    <3>1. Waiting' = Waiting
      BY <1>1, <1>4, <1>12, <2>1 DEF Waiting
    <3>2. lost' = lost
      BY <1>3, <2>1
    <3> QED
      BY <1>1, <1>9, <3>1, <3>2, QuietOrder
  <2>2. CASE waits
    <3>1. Waiting' = q.pending
      BY <1>1, <1>12, <2>2 DEF Waiting
    <3>2. Sent' = Sent
      BY <1>2, <1>6, <1>7, <2>2 DEF Sent, Inv, Linked
    <3>3. Ordered(Sent, q.pending, said, lost \union Overflown(link[conn]))
      BY <2>2, SentIs, QueuedOrder DEF Hello, q
    <3> QED
      BY <1>1, <1>3, <2>2, <3>1, <3>2, <3>3
  <2> QED
    BY <2>1, <2>2
<1> QED
  BY <1>13, <1>14, <1>15, <1>16 DEF OrderInv

LEMMA OrderStep == ~Listens /\ Inv /\ Inv' /\ OrderInv /\ [Next]_vars => OrderInv'
<1> SUFFICES ASSUME ~Listens, Inv, Inv', OrderInv, [Next]_vars PROVE OrderInv'
  OBVIOUS
<1>1. CASE Connect \/ Say \/ Close
  BY <1>1, ConnectOrder, SayOrder, CloseOrder
<1>2. ASSUME NEW c \in Conns, Tries(c) PROVE OrderInv'
  BY <1>2, GotUrlOrder, WaitsOrder DEF Tries
<1>3. ASSUME NEW s \in Sockets, Settles(s) \/ Breaks(s) PROVE OrderInv'
  BY <1>3, OpensOrder, OpensLateOrder, EndsOrder DEF Settles, Breaks, ConnectFails, Closed
<1>4. CASE UNCHANGED vars
  <2>1. UNCHANGED <<conn, link, sock, said, lost>>
    BY <1>4 DEF vars
  <2>2. Sent' = Sent /\ Waiting' = Waiting
    BY <2>1 DEF Sent, Waiting
  <2> QED
    BY <2>1, <2>2 DEF OrderInv, Numbered, Emptied, Latest
<1> QED
  BY <1>1, <1>2, <1>3, <1>4 DEF Next

LEMMA OrderImplies == Inv /\ OrderInv => InOrderOnce
<1> SUFFICES ASSUME Inv, OrderInv PROVE InOrderOnce
  OBVIOUS
<1>1. \A s \in Sockets : /\ Sent[s] = sock[s].sent /\ sock[s].sent \in Seq(Nat)
                         /\ DOMAIN sock[s].sent = 1 .. Len(sock[s].sent)
  BY SentIs DEF Sends
<1>2. \A c \in Conns : /\ link[c].pending \in Seq(Nat)
                       /\ DOMAIN link[c].pending = 1 .. Len(link[c].pending)
                       /\ link[c].pending # << >> => c = conn /\ c # None /\ Waiting = link[c].pending
  <2> SUFFICES ASSUME NEW c \in Conns
               PROVE  /\ link[c].pending \in Seq(Nat)
                      /\ DOMAIN link[c].pending = 1 .. Len(link[c].pending)
                      /\ link[c].pending # << >> => c = conn /\ c # None /\ Waiting = link[c].pending
    OBVIOUS
  <2>1. link[c].pending \in Seq(Nat)
    BY DEF Inv, Linked, Link
  <2>2. link[c].pending # << >> => c = conn /\ c # None
    BY DEF OrderInv, Emptied, Conns, None
  <2> QED
    BY <2>1, <2>2 DEF Waiting
<1>3. SentInOrder
  <2>1. \A s, t \in Sockets : \A i \in DOMAIN sock[s].sent, j \in DOMAIN sock[t].sent :
            (s < t \/ (s = t /\ i < j)) /\ sock[s].sent[i] # 0 /\ sock[t].sent[j] # 0
            => sock[s].sent[i] < sock[t].sent[j]
    BY <1>1, ZenonT(60) DEF OrderInv, Ordered, SentOrder
  <2> QED
    BY <2>1 DEF SentInOrder, Hello
<1>4. QueuedInOrder
  <2> SUFFICES ASSUME NEW c \in Conns, NEW j \in DOMAIN link[c].pending, link[c].pending[j] # 0
               PROVE  /\ \A i \in 1 .. j - 1 : link[c].pending[i] < link[c].pending[j]
                      /\ \A s \in Sockets : \A i \in DOMAIN sock[s].sent :
                            sock[s].sent[i] < link[c].pending[j]
    BY DEF QueuedInOrder, Hello
  <2>1. Waiting = link[c].pending /\ j \in 1 .. Len(Waiting)
    BY <1>2
  <2> QED
    BY <1>1, <2>1 DEF OrderInv, Ordered, WaitOrder
<1>5. ASSUME NEW m \in Nat \ {0} PROVE m \in Held <=> Occurs(Sent, Waiting, m)
  <2>1. m \in Held <=> \/ \E s \in Sockets : \E i \in DOMAIN sock[s].sent : sock[s].sent[i] = m
                       \/ \E c \in Conns : \E j \in DOMAIN link[c].pending : link[c].pending[j] = m
    BY DEF Held, ToSet
  <2>2. (\E s \in Sockets : \E i \in DOMAIN sock[s].sent : sock[s].sent[i] = m)
          <=> \E s \in Sockets : \E i \in 1 .. Len(Sent[s]) : Sent[s][i] = m
    BY <1>1
  <2>3. (\E c \in Conns : \E j \in DOMAIN link[c].pending : link[c].pending[j] = m)
          <=> \E j \in 1 .. Len(Waiting) : Waiting[j] = m
    <3>1. ASSUME NEW c \in Conns, NEW j \in DOMAIN link[c].pending, link[c].pending[j] = m
          PROVE  \E k \in 1 .. Len(Waiting) : Waiting[k] = m
      <4>1. Waiting = link[c].pending /\ j \in 1 .. Len(Waiting)
        BY <1>2
      <4> QED
        BY <3>1, <4>1
    <3>2. ASSUME NEW j \in 1 .. Len(Waiting), Waiting[j] = m
          PROVE  \E c \in Conns : \E k \in DOMAIN link[c].pending : link[c].pending[k] = m
      <4>1. conn # None
        BY DEF Waiting
      <4>2. conn \in Conns /\ Waiting = link[conn].pending
        BY <4>1, CurrentConn DEF Waiting
      <4> QED
        BY <1>2, <3>2, <4>2
    <3> QED
      BY <3>1, <3>2
  <2> QED
    BY <2>1, <2>2, <2>3 DEF Occurs
<1>6. Held \subseteq Nat
  <2>1. \A s \in Sockets : ToSet(sock[s].sent) \subseteq Nat
    BY <1>1 DEF ToSet
  <2>2. \A c \in Conns : ToSet(link[c].pending) \subseteq Nat
    BY <1>2 DEF ToSet
  <2> QED
    BY <2>1, <2>2 DEF Held
<1>7. Said \ lost = Held \ {Hello}
  <2>1. \A m \in Nat \ {0} : m \in Said \ lost <=> m \in Held
    <3>1. \A m \in Nat \ {0} : (m <= said /\ m \notin lost) <=> Occurs(Sent, Waiting, m)
      BY DEF OrderInv, Ordered, AllThere
    <3>2. \A m \in Nat \ {0} : m \in Said \ lost <=> (m <= said /\ m \notin lost)
      BY SentIs DEF Said
    <3> QED
      BY <1>5, <3>1, <3>2
  <2>2. Said \ lost \subseteq Nat \ {0}
    BY SentIs DEF Said
  <2> QED
    BY <1>6, <2>1, <2>2 DEF Hello
<1> QED
  BY <1>3, <1>4, <1>7 DEF InOrderOnce

(* Over any number of reconnects, failures and connections the messages of *)
(* an application that does not send from its own ws:open listener arrive  *)
(* on the sockets in the order in which it sent them, none twice, and none *)
(* is missing but those a full queue or close() dropped.                   *)
THEOREM MessagesInOrderOnce == ASSUME ~Listens PROVE Spec => []InOrderOnce
<1>1. Init => OrderInv
  BY OrderInit
<1>2. Inv /\ Inv' /\ OrderInv /\ [Next]_vars => OrderInv'
  BY OrderStep
<1> QED
  BY <1>1, <1>2, InvAlways, OrderImplies, PTL DEF Spec

=============================================================================
