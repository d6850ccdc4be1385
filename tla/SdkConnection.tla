--------------------------- MODULE SdkConnection ---------------------------
(***************************************************************************)
(* A BuildSession of the SDK and the WebSocket connections it makes, one   *)
(* after the other.  A connection asks for a URL with a fresh ticket and   *)
(* opens a socket; when the socket or the URL fails it tries again after a *)
(* delay.  Messages wait in pendingSends while no socket is open.          *)
(*                                                                         *)
(* An action is a callback of the event loop: a promise that settles, a    *)
(* timer, an event of a socket, a call of the application.  A socket that  *)
(* fails fires error and close in the same task, as the WebSocket standard *)
(* has it.  session_init and get_conversation_state, which are sent        *)
(* together, are one message, Hello.  The application's own messages are   *)
(* numbered in the order in which it sends them.                           *)
(***************************************************************************)
EXTENDS Integers, Sequences, FiniteSets, SequencesExt

CONSTANTS
    MaxConns,     \* bound on the connections of the session
    MaxRetries,   \* retry.maxRetries; 0 stands for retry.enabled = false too
    MaxPending,   \* maxPendingSends
    Listens,      \* whether the application sends from its own ws:open listener
    MaxSaid,      \* bound on the messages of the application
    MaxFailures   \* bound on failures of URLs and sockets

ASSUME SdkAssumption ==
    /\ MaxConns \in Nat \ {0} /\ MaxPending \in Nat \ {0}
    /\ {MaxRetries, MaxSaid, MaxFailures} \subseteq Nat
    /\ Listens \in BOOLEAN

Conns == 1 .. MaxConns
Sockets == 1 .. MaxConns + MaxFailures
None == 0
Hello == 0

VARIABLES
    conn,       \* BuildSession.connection: the number of a connection, or None
    made,       \* how many connections there have been
    link,       \* the variables of each connection
    sock,       \* the sockets: whose, in what state, and what was sent on them
    view,       \* BuildSession.state.connection
    said,       \* how many messages the application has sent
    lost,       \* history: messages dropped by a full queue or by close()
    strayed,    \* history: a connection the session had left changed its state
    failures

vars == <<conn, made, link, sock, view, said, lost, strayed, failures>>

(* streak is history: the failures since the last socket opened. *)
Fresh == [ws |-> None, isOpen |-> FALSE, closedByUser |-> FALSE, attempts |-> 0,
          timers |-> 0, getting |-> 0, pending |-> << >>, streak |-> 0]

Init ==
    /\ conn = None /\ made = 0
    /\ link = [c \in Conns |-> Fresh]
    /\ sock = [s \in Sockets |-> [owner |-> None, pc |-> "unused", sent |-> << >>]]
    /\ view = "disconnected"
    /\ said = 0 /\ lost = {} /\ strayed = FALSE
    /\ failures = 0

Fails == failures < MaxFailures /\ failures' = failures + 1

-----------------------------------------------------------------------------
(* What the connection does to its own variables.                          *)

(* Mutant of Scheduled: a timer under way is not looked for. *)
ScheduledAgain(l) ==
    IF l.closedByUser \/ l.attempts >= MaxRetries THEN l
    ELSE [l EXCEPT !.timers = @ + 1, !.attempts = @ + 1]

(* scheduleReconnect. *)
Scheduled(l) ==
    IF l.closedByUser \/ l.attempts >= MaxRetries \/ l.timers > 0 THEN l
    ELSE [l EXCEPT !.timers = @ + 1, !.attempts = @ + 1]

(* onError and onClose of one failure. *)
Broken(l) == Scheduled([Scheduled(l) EXCEPT !.isOpen = FALSE, !.streak = @ + 1])

(* send, while no socket is open: the oldest message is dropped. *)
Queued(l, m) ==
    LET all == Append(l.pending, m)
    IN  [l EXCEPT !.pending = IF Len(all) > MaxPending THEN Tail(all) ELSE all]

Overflown(l) == IF Len(l.pending) >= MaxPending THEN {Head(l.pending)} \ {Hello} ELSE {}

(* Mutant of Opened: the attempts go on counting. *)
OpenedOnce(l) == [l EXCEPT !.isOpen = TRUE, !.pending = << >>, !.streak = 0]

(* Mutant of Opened: the queue is kept. *)
OpenedKept(l) == [l EXCEPT !.isOpen = TRUE, !.attempts = 0, !.streak = 0]

(* onOpen, with flushPendingSends at its end. *)
Opened(l) == [l EXCEPT !.isOpen = TRUE, !.attempts = 0, !.pending = << >>, !.streak = 0]

(* Mutant of Greeting: the queue is flushed before ws:open is emitted. *)
GreetingLast(extra, pending) == pending \o <<Hello>> \o extra

(* What an opening socket is sent: the listeners of ws:open are called     *)
(* before the queue is flushed.                                            *)
Greeting(extra, pending) == <<Hello>> \o extra \o pending

-----------------------------------------------------------------------------
(* The application.                                                        *)

(* connect(). *)
Connect ==
    /\ conn = None /\ made < MaxConns
    /\ conn' = made + 1 /\ made' = made + 1
    /\ link' = [link EXCEPT ![made + 1].getting = 1]
    /\ view' = "connecting"
    /\ UNCHANGED <<sock, said, lost, strayed, failures>>

(* startGeneration(), followUp() and the like. *)
Say ==
    /\ conn # None /\ said < MaxSaid
    /\ said' = said + 1
    /\ IF link[conn].isOpen
       THEN /\ sock' = [sock EXCEPT ![link[conn].ws].sent = Append(@, said')]
            /\ UNCHANGED <<link, lost>>
       ELSE /\ link' = [link EXCEPT ![conn] = Queued(@, said')]
            /\ lost' = lost \union Overflown(link[conn])
            /\ UNCHANGED sock
    /\ UNCHANGED <<conn, made, view, strayed, failures>>

(* close(): of the connection, then of the session. *)
Close ==
    /\ conn # None
    /\ link' = [link EXCEPT ![conn] = [@ EXCEPT
                  !.closedByUser = TRUE, !.isOpen = FALSE, !.pending = << >>,
                  !.timers = 0, !.ws = None]]
    /\ sock' = [s \in Sockets |->
                  IF s = link[conn].ws /\ sock[s].pc \in {"connecting", "open"}
                  THEN [sock[s] EXCEPT !.pc = "closing"] ELSE sock[s]]
    /\ lost' = lost \union (ToSet(link[conn].pending) \ {Hello})
    /\ conn' = None
    /\ view' = "disconnected"
    /\ UNCHANGED <<made, said, strayed, failures>>

-----------------------------------------------------------------------------
(* The URL, the socket and the timer.                                      *)

Unused == {s \in Sockets : sock[s].pc = "unused"}

(* getUrl answers.  closedByUser is not looked at again. *)
GotUrl(c) ==
    /\ link[c].getting > 0
    /\ \E s \in Unused :
        /\ \A t \in Unused : s <= t
        /\ sock' = [sock EXCEPT ![s].owner = c, ![s].pc = "connecting"]
        /\ link' = [link EXCEPT ![c].getting = @ - 1, ![c].ws = s]
    /\ UNCHANGED <<conn, made, view, said, lost, strayed, failures>>

(* getUrl fails. *)
Unanswered(l) == Scheduled([l EXCEPT !.getting = @ - 1, !.streak = @ + 1])

UrlFails(c) ==
    /\ link[c].getting > 0
    /\ Fails
    /\ link' = [link EXCEPT ![c] = Unanswered(@)]
    /\ UNCHANGED <<conn, made, sock, view, said, lost, strayed>>

(* connectNow, from the timer. *)
Timer(c) ==
    /\ link[c].timers > 0
    /\ link' = [link EXCEPT ![c].timers = @ - 1, ![c].getting = @ + 1]
    /\ UNCHANGED <<conn, made, sock, view, said, lost, strayed, failures>>

(* The open event of a socket of the session's connection. *)
Opens(s) ==
    LET c == sock[s].owner
    IN  /\ sock[s].pc = "connecting" /\ c = conn
        /\ \E extra \in {<< >>} \union IF Listens /\ said < MaxSaid THEN {<<said + 1>>} ELSE {} :
            /\ said' = said + Len(extra)
            /\ sock' = [sock EXCEPT ![s].pc = "open",
                                    ![s].sent = @ \o Greeting(extra, link[c].pending)]
        /\ link' = [link EXCEPT ![c] = Opened(@)]
        /\ view' = "connected"
        /\ UNCHANGED <<conn, made, lost, strayed, failures>>

(* That of a connection the session has closed while it waited for its     *)
(* URL: its listener sends Hello to the connection the session has now.    *)
OpensLate(s) ==
    LET c == sock[s].owner
        greets == conn # None
    IN  /\ sock[s].pc = "connecting" /\ c # conn
        /\ sock' = [sock EXCEPT ![s].pc = "open",
                      ![IF greets /\ link[conn].isOpen THEN link[conn].ws ELSE s].sent =
                          IF greets /\ link[conn].isOpen THEN Append(@, Hello) ELSE @]
        /\ link' = [d \in Conns |->
                      IF d = c THEN Opened(link[d])
                      ELSE IF greets /\ d = conn /\ ~link[d].isOpen THEN Queued(link[d], Hello)
                      ELSE link[d]]
        /\ lost' = lost \union (IF greets /\ ~link[conn].isOpen THEN Overflown(link[conn]) ELSE {})
        /\ view' = "connected"
        /\ strayed' = TRUE
        /\ UNCHANGED <<conn, made, said, failures>>

(* The close event of a socket; the session listens to all its connections. *)
Ends(s) ==
    /\ link' = [link EXCEPT ![sock[s].owner] = Broken(@)]
    /\ sock' = [sock EXCEPT ![s].pc = "closed"]
    /\ view' = "disconnected"
    /\ strayed' = (strayed \/ sock[s].owner # conn)
    /\ UNCHANGED <<conn, made, said, lost>>

(* The socket cannot connect, or breaks, or is closed by the server. *)
ConnectFails(s) == sock[s].pc = "connecting" /\ Fails /\ Ends(s)
Breaks(s) == sock[s].pc = "open" /\ Fails /\ Ends(s)

(* It has been closed by close(). *)
Closed(s) == sock[s].pc = "closing" /\ Ends(s) /\ UNCHANGED failures

-----------------------------------------------------------------------------
Tries(c) == GotUrl(c) \/ UrlFails(c) \/ Timer(c)
Settles(s) == Opens(s) \/ OpensLate(s) \/ ConnectFails(s) \/ Closed(s)

Next ==
    \/ Connect \/ Say \/ Close
    \/ \E c \in Conns : Tries(c)
    \/ \E s \in Sockets : Settles(s) \/ Breaks(s)

(* Requests are answered, timers fire, sockets open or fail. *)
Fairness ==
    /\ \A c \in Conns : WF_vars(Tries(c))
    /\ \A s \in Sockets : WF_vars(Settles(s))

Spec == Init /\ [][Next]_vars /\ Fairness

-----------------------------------------------------------------------------
(* Properties.                                                             *)

Said == 1 .. said

(* The queue has at most maxPendingSends messages, at most maxRetries      *)
(* attempts are made without a socket that opens, and an open connection   *)
(* has an open socket.                                                     *)
TypeOK ==
    /\ conn \in Conns \union {None} /\ made \in 0 .. MaxConns
    /\ link \in [Conns -> [ws : Sockets \union {None}, isOpen : BOOLEAN, closedByUser : BOOLEAN,
                           attempts : 0 .. MaxRetries, timers : Nat, getting : Nat,
                           pending : Seq(Nat), streak : Nat]]
    /\ \A c \in Conns : /\ Len(link[c].pending) <= MaxPending
                        /\ link[c].isOpen => link[c].ws # None /\ sock[link[c].ws].pc = "open"
    /\ sock \in [Sockets -> [owner : Conns \union {None},
                             pc : {"unused", "connecting", "open", "closing", "closed"},
                             sent : Seq(Nat)]]
    /\ view \in {"disconnected", "connecting", "connected"}
    /\ said \in 0 .. MaxSaid /\ lost \subseteq Said
    /\ strayed \in BOOLEAN /\ failures \in 0 .. MaxFailures

(* A connection has one socket at a time, or is on its way to one: it      *)
(* never waits for two timers, two URLs or two sockets.                    *)
OneSocket ==
    \A c \in Conns :
        link[c].timers + link[c].getting
          + Cardinality({s \in Sockets : sock[s].owner = c /\ sock[s].pc \in {"connecting", "open"}})
        <= 1

(* The server learns the session's credentials before anything else is     *)
(* sent on a socket.                                                       *)
HelloFirst == \A s \in Sockets : sock[s].sent # << >> => Head(sock[s].sent) = Hello

(* What a socket was sent, and what waits, comes in the order in which the *)
(* application said it, over all sockets of all connections.               *)
SentInOrder ==
    \A s, t \in Sockets : \A i \in DOMAIN sock[s].sent, j \in DOMAIN sock[t].sent :
        /\ s < t \/ (s = t /\ i < j)
        /\ sock[s].sent[i] # Hello /\ sock[t].sent[j] # Hello
        => sock[s].sent[i] < sock[t].sent[j]

QueuedInOrder ==
    \A c \in Conns : \A j \in DOMAIN link[c].pending : link[c].pending[j] # Hello =>
        /\ \A i \in 1 .. j - 1 : link[c].pending[i] < link[c].pending[j]
        /\ \A s \in Sockets : \A i \in DOMAIN sock[s].sent :
               sock[s].sent[i] < link[c].pending[j]

Held == (UNION {ToSet(sock[s].sent) : s \in Sockets})
          \union (UNION {ToSet(link[c].pending) : c \in Conns})

(* Over all reconnects messages are sent in the order in which the         *)
(* application sent them, none twice, and none is missing unless the queue *)
(* was full or the session was closed.                                     *)
InOrderOnce ==
    /\ SentInOrder /\ QueuedInOrder
    /\ Said \ lost = Held \ {Hello}

(* The session says connected exactly while its connection is open, unless *)
(* a connection it had left has changed what it says.                      *)
ViewSettled ==
    ~strayed => (view = "connected" <=> conn # None /\ link[conn].isOpen)

(* A connection that was closed, and waits for no URL, never asks for one  *)
(* again and opens no socket.                                              *)
ClosedForGood ==
    [][\A c \in Conns :
        link[c].closedByUser /\ link[c].getting = 0 =>
            link'[c].getting = 0 /\ link'[c].ws = link[c].ws]_vars

Waits(m) == conn # None /\ m \in ToSet(link[conn].pending)

(* A message that waits is sent in the end, or was lost to a full queue or *)
(* to close(), unless more than maxRetries attempts in a row failed.       *)
QueuedSent ==
    \A m \in 1 .. MaxSaid :
        Waits(m) ~> (~Waits(m) \/ (conn # None /\ link[conn].streak > MaxRetries))

-----------------------------------------------------------------------------
(* Not true of the code.                                                   *)

(* "session.close(); // Close the session" (sdk/README.md:159): no socket  *)
(* of a closed connection is opened.                                       *)
ClosedIsClosed ==
    \A s \in Sockets :
        sock[s].pc \in {"connecting", "open"} => ~link[sock[s].owner].closedByUser

(* ConnectionState (sdk/src/state.ts:5): the state is that of the          *)
(* session's connection.                                                   *)
ViewIsConnection == view = "connected" <=> conn # None /\ link[conn].isOpen

=============================================================================
