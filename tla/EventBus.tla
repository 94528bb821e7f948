------------------------------ MODULE EventBus ------------------------------
(***************************************************************************)
(* The e-bus (amgos-protocol/src/ebus): one EventBusServer in Process 1,   *)
(* and the clients that connect to its Unix socket.  Clients send framed   *)
(* requests; the server polls one request per connection at a time,        *)
(* handles it, and publishes the answer to every subscriber.               *)
(*                                                                         *)
(* A stream is a sequence of frames.  A small frame is written, and so     *)
(* read, in one piece; a frame larger than one socket buffer arrives as a  *)
(* head (the 16-byte header and some payload) and the rest, which is a     *)
(* tail, or a scrap if it is shorter than a header.  The subscriber list   *)
(* is locked for the whole of a poll and the whole of a publication, which *)
(* makes each of them one step for the other threads.                      *)
(***************************************************************************)
EXTENDS Naturals, Sequences, SequencesExt, Subsequences

CONSTANTS
  Clients,        \* client connections
  System,         \* stands for Process 1 as the cause of an event
  LargeRequests,  \* clients whose requests may arrive in pieces
  Outcomes,       \* what the handling of a request may come to
  MaxRequests,    \* how many requests each client sends (bound)
  MaxNews,        \* events Process 1 publishes of its own accord (bound)
  BufferFrames    \* frames a client's receive buffer holds

ASSUME BusAssumption ==
  /\ System \notin Clients
  /\ LargeRequests \subseteq Clients /\ Outcomes \subseteq {"answered", "silent", "oversized"}
  /\ MaxRequests \in [Clients -> Nat] /\ MaxNews \in Nat /\ BufferFrames \in Nat \ {0}

VARIABLES
  sock,       \* the listening socket: "unbound", "bound" or "gone"
  conn,       \* each connection: "none", "refused", "backlog", "open", "dropped"
  peer,       \* the client still holds its end of the connection
  writing,    \* the client has written the head of a frame, not the rest
  subs,       \* EventBusServer.subscribers
  up,         \* frames on their way to the server, per client
  down,       \* frames on their way to each client
  pending,    \* requests polled and not yet handled by the main loop
  sent,       \* how each client began its requests, "whole" or "head" (history)
  handled,    \* requests handled, per client (history)
  published,  \* events published (history)
  first,      \* length of published when the client was accepted (history)
  got         \* events each client has read (history)

history == <<sent, handled, published, first, got>>
busVars == <<sock, conn, peer, writing, subs, up, down, pending, history>>

Requests == [from : Clients, n : Nat]
Events == [from : Clients \cup {System}, n : Nat]

-----------------------------------------------------------------------------
(* The server.                                                             *)

\* EventBusServer::bind
bind ==
  /\ sock = "unbound"
  /\ sock' = "bound"
  /\ UNCHANGED <<conn, peer, writing, subs, up, down, pending, history>>

\* Mutant: the main loop and the poller both register the stream.
poll_connections_twice(c) ==
  /\ sock = "bound" /\ conn[c] = "backlog"
  /\ conn' = [conn EXCEPT ![c] = "open"]
  /\ subs' = subs \o <<c, c>>
  /\ first' = [first EXCEPT ![c] = Len(published)]
  /\ UNCHANGED <<sock, peer, writing, up, down, pending, sent, handled, published, got>>

\* poll_connections takes one connection from the backlog.  Both the main
\* loop and the "ebus-poller" thread do this.
poll_connections(c) ==
  /\ sock = "bound" /\ conn[c] = "backlog"
  /\ conn' = [conn EXCEPT ![c] = "open"]
  /\ subs' = Append(subs, c)
  /\ first' = [first EXCEPT ![c] = Len(published)]
  /\ UNCHANGED <<sock, peer, writing, up, down, pending, sent, handled, published, got>>

\* What stands at the front of a client's stream.
AtFront(c) == IF up[c] = <<>> THEN "nothing" ELSE Head(up[c]).part

\* What follows a head is the rest of its own frame, or another frame if the
\* client gave up in the middle.
Completed(c) == up[c][2].n = up[c][1].n

\* A whole frame can be read: in one piece, or its rest is already there.
Readable(c) ==
  \/ AtFront(c) = "whole"
  \/ AtFront(c) = "head" /\ Len(up[c]) > 1 /\ Completed(c)

\* Mutant: a read that merely timed out counts as a broken stream.
RetainedBusy(c) == AtFront(c) \in {"whole", "head"}

\* Which streams poll_requests keeps.  It drops one at end-of-file and one
\* whose next bytes are no header (InvalidMagic), but not one whose header
\* read times out: the bytes that were too few are gone.
Retained(c) ==
  CASE AtFront(c) = "nothing" -> peer[c]
    [] AtFront(c) = "scrap"   -> peer[c] /\ Len(up[c]) = 1
    [] AtFront(c) = "tail"    -> FALSE
    [] OTHER                -> TRUE

From(c, i) == SubSeq(up[c], i, Len(up[c]))

\* The same, the beginning of the first frame taken off.
CutAt(c, i, rest) == <<[up[c][i] EXCEPT !.part = rest]>> \o From(c, i + 1)

\* What may be left when the payload of an unfinished frame is read on into
\* the frames behind it: as many bytes as the header said, or all there are.
\* The sum of such a payload is wrong, and the stream is kept.
Overrun(c) ==
  {From(c, i) : i \in 3 .. Len(up[c]) + 1} \cup
  {CutAt(c, i, rest) : i \in 2 .. Len(up[c]), rest \in {"tail", "scrap"}}

\* Mutant: frames are read through a buffer that is thrown away each time.
RemaindersBuffered(c) == {<<>>}

\* What may be left of the stream after a poll.  A payload that does not come
\* within 10 ms is given up, its header already consumed.
Remainders(c) ==
  CASE AtFront(c) = "whole"              -> {From(c, 2)}
    [] AtFront(c) = "head" /\ Readable(c) -> {From(c, 3)}
    [] AtFront(c) = "head" /\ ~Readable(c) /\ Len(up[c]) > 1 -> Overrun(c)
    [] OTHER                             -> {<<>>}

IsSub(c) == Contains(subs, c)

\* poll_requests: at most one request of every subscriber.
poll_requests ==
  /\ sock = "bound" /\ pending = <<>>
  /\ LET ready == Retain(subs, {c \in Clients : Readable(c)})
     IN  pending' = [i \in DOMAIN ready |-> [from |-> ready[i], n |-> Head(up[ready[i]]).n]]
  /\ \E left \in [Clients -> UNION {Remainders(c) : c \in Clients}] :
       /\ \A c \in Clients : left[c] \in Remainders(c)
       /\ up' = [c \in Clients |-> IF IsSub(c) THEN left[c] ELSE up[c]]
  /\ conn' = [c \in Clients |-> IF IsSub(c) /\ ~Retained(c) THEN "dropped" ELSE conn[c]]
  /\ subs' = Retain(subs, {c \in Clients : Retained(c)})
  /\ UNCHANGED <<sock, peer, writing, down, history>>

\* Writing to a client fails if it hung up, or has not made room in 500 ms.
Unwritable(c) == ~peer[c] \/ Len(down[c]) >= BufferFrames
Writable(c) == ~Unwritable(c)

\* Mutant: a stream is kept after a failed write.
publish_event_keeping(e) ==
  /\ published' = Append(published, e)
  /\ down' = [c \in Clients |->
       IF ~IsSub(c) \/ ~peer[c] THEN down[c]
       ELSE Append(down[c], [e |-> e, part |-> IF Writable(c) THEN "whole" ELSE "head"])]
  /\ UNCHANGED <<conn, subs>>

\* publish_event writes to every subscriber and forgets those it cannot
\* write to.  A timed-out write may have left part of the frame.
publish_event(e) ==
  /\ published' = Append(published, e)
  /\ down' = [c \in Clients |->
       IF ~IsSub(c) \/ ~peer[c] THEN down[c]
       ELSE Append(down[c], [e |-> e, part |-> IF Writable(c) THEN "whole" ELSE "head"])]
  /\ conn' = [c \in Clients |-> IF IsSub(c) /\ Unwritable(c) THEN "dropped" ELSE conn[c]]
  /\ subs' = Retain(subs, {c \in Clients : Writable(c)})

\* An event that encodes to more than MAX_PAYLOAD_SIZE is written to nobody,
\* and every write that failed is taken for a broken stream.
publish_too_large ==
  /\ conn' = [c \in Clients |-> IF IsSub(c) THEN "dropped" ELSE conn[c]]
  /\ subs' = <<>>
  /\ UNCHANGED <<down, published>>

\* What comes of a request: its answer; nothing but a line in the log or an
\* error that is dropped; or an answer that cannot be written.
Answer(r, outcome) ==
  \/ outcome = "answered" /\ publish_event(r)
  \/ outcome = "silent" /\ UNCHANGED <<conn, subs, down, published>>
  \/ outcome = "oversized" /\ publish_too_large

\* Mutant: of the requests polled together only the first is handled.
handle_first(outcome) ==
  /\ sock = "bound" /\ pending # <<>>
  /\ LET r == Head(pending)
     IN  /\ handled' = [handled EXCEPT ![r.from] = Append(@, r.n)]
         /\ Answer(r, outcome)
  /\ pending' = <<>>
  /\ UNCHANGED <<sock, peer, writing, up, sent, first, got>>

\* The main loop handles one request and publishes its answer, if there is
\* one, to all.
handle(outcome) ==
  /\ sock = "bound" /\ pending # <<>>
  /\ LET r == Head(pending)
     IN  /\ handled' = [handled EXCEPT ![r.from] = Append(@, r.n)]
         /\ Answer(r, outcome)
  /\ pending' = Tail(pending)
  /\ UNCHANGED <<sock, peer, writing, up, sent, first, got>>

News == Cardinality({i \in DOMAIN published : published[i].from = System})

\* Any thread of Process 1 publishes something nobody asked for.
announce(n) ==
  /\ sock = "bound" /\ News < MaxNews
  /\ publish_event([from |-> System, n |-> n])
  /\ UNCHANGED <<sock, peer, writing, up, pending, sent, handled, first, got>>

\* The process and its sockets are gone, and what it had polled with them.
Close(s) ==
  /\ sock = "bound"
  /\ sock' = s
  /\ subs' = <<>>
  /\ pending' = <<>>
  /\ conn' = [c \in Clients |->
       CASE conn[c] = "open" -> "dropped" [] conn[c] = "backlog" -> "refused" [] OTHER -> conn[c]]
  /\ UNCHANGED <<peer, writing, up, down, history>>

\* The loop is left, the socket file removed, and the process ends.
shutdown == pending = <<>> /\ Close("gone")

-----------------------------------------------------------------------------
(* The clients.                                                            *)

\* EventBusClient::connect; no client tries again.
connect(c) ==
  /\ conn[c] = "none"
  /\ conn' = [conn EXCEPT ![c] = IF sock = "bound" THEN "backlog" ELSE "refused"]
  /\ peer' = [peer EXCEPT ![c] = sock = "bound"]
  /\ UNCHANGED <<sock, writing, subs, up, down, pending, history>>

\* What a client writes goes nowhere once the server has closed the stream.
Connected(c) == conn[c] \in {"backlog", "open"}

Enqueue(c, n, part) ==
  up' = IF Connected(c) THEN [up EXCEPT ![c] = Append(@, [n |-> n, part |-> part])] ELSE up

\* send_request: write_all of a whole frame, or of as much of it as fits.
\* The stream stays locked until the rest is written.
send_request(c, part) ==
  /\ peer[c] /\ ~writing[c] /\ Connected(c) /\ Len(sent[c]) < MaxRequests[c]
  /\ part \in (IF c \in LargeRequests THEN {"whole", "head"} ELSE {"whole"})
  /\ sent' = [sent EXCEPT ![c] = Append(@, part)]
  /\ writing' = [writing EXCEPT ![c] = part = "head"]
  /\ Enqueue(c, Len(sent[c]) + 1, part)
  /\ UNCHANGED <<sock, conn, peer, subs, down, pending, handled, published, first, got>>

\* The rest of write_all.
send_rest(c, part) ==
  /\ peer[c] /\ writing[c]
  /\ writing' = [writing EXCEPT ![c] = FALSE]
  /\ Enqueue(c, Len(sent[c]), part)
  /\ UNCHANGED <<sock, conn, peer, subs, down, pending, history>>

\* Process 1 made no room for 5 s: send_request returns an error, half a frame
\* is written, and the client may go on with another request.
give_up(c) ==
  /\ peer[c] /\ writing[c]
  /\ writing' = [writing EXCEPT ![c] = FALSE]
  /\ UNCHANGED <<sock, conn, peer, subs, up, down, pending, history>>

\* read_event returns the next whole event.  A frame that was cut off by the
\* server's write timeout is an error, now and on every later call.
read_event(c) ==
  /\ peer[c] /\ ~writing[c] /\ down[c] # <<>> /\ Head(down[c]).part = "whole"
  /\ got' = [got EXCEPT ![c] = Append(@, Head(down[c]).e)]
  /\ down' = [down EXCEPT ![c] = Tail(@)]
  /\ UNCHANGED <<sock, conn, peer, writing, subs, up, pending, sent, handled, published, first>>

\* The client process ends: half a frame may be all that it wrote, and what
\* it has not read is lost.
hang_up(c) ==
  /\ peer[c]
  /\ peer' = [peer EXCEPT ![c] = FALSE]
  /\ writing' = [writing EXCEPT ![c] = FALSE]
  /\ down' = [down EXCEPT ![c] = <<>>]
  /\ UNCHANGED <<sock, conn, subs, up, pending, history>>

-----------------------------------------------------------------------------
BusInit ==
  /\ sock = "unbound"
  /\ conn = [c \in Clients |-> "none"]
  /\ peer = [c \in Clients |-> FALSE]
  /\ writing = [c \in Clients |-> FALSE]
  /\ subs = <<>>
  /\ up = [c \in Clients |-> <<>>]
  /\ down = [c \in Clients |-> <<>>]
  /\ pending = <<>>
  /\ sent = [c \in Clients |-> <<>>]
  /\ handled = [c \in Clients |-> <<>>]
  /\ published = <<>>
  /\ first = [c \in Clients |-> 0]
  /\ got = [c \in Clients |-> <<>>]

Rest(c) == \E part \in {"tail", "scrap"} : send_rest(c, part)

Client(c) ==
  \/ connect(c)
  \/ \E part \in {"whole", "head"} : send_request(c, part)
  \/ Rest(c)
  \/ give_up(c)
  \/ read_event(c)
  \/ hang_up(c)

HandleOne == \E outcome \in Outcomes : handle(outcome)

Server ==
  \/ bind
  \/ \E c \in Clients : poll_connections(c)
  \/ poll_requests
  \/ HandleOne
  \/ announce(News + 1)
  \/ shutdown

Next == Server \/ \E c \in Clients : Client(c)

\* The main loop polls and handles until it is told to stop, a write_all
\* goes on or is given up, and every client that stays reads events in
\* a loop.  Nothing makes a client connect, ask or leave.
Fairness ==
  /\ WF_busVars(poll_requests)
  /\ WF_busVars(HandleOne)
  /\ \A c \in Clients : /\ WF_busVars(poll_connections(c))
                        /\ WF_busVars(Rest(c))
                        /\ WF_busVars(read_event(c))

Spec == BusInit /\ [][Next]_busVars /\ Fairness

-----------------------------------------------------------------------------
(* Properties.                                                             *)

\* The type of every variable; subs holds each open stream exactly once, so
\* that no poll and no publication meets a stream twice or misses one.
TypeOK ==
  /\ sock \in {"unbound", "bound", "gone"}
  /\ conn \in [Clients -> {"none", "refused", "backlog", "open", "dropped"}]
  /\ peer \in [Clients -> BOOLEAN] /\ writing \in [Clients -> BOOLEAN]
  /\ IsInjective(subs) /\ ToSet(subs) = {c \in Clients : conn[c] = "open"}
  /\ up \in [Clients -> Seq([n : Nat, part : {"whole", "head", "tail", "scrap"}])]
  /\ down \in [Clients -> Seq([e : Events, part : {"whole", "head"}])]
  /\ pending \in Seq(Requests) /\ published \in Seq(Events)
  /\ sent \in [Clients -> Seq({"whole", "head"})] /\ handled \in [Clients -> Seq(Nat)]
  /\ first \in [Clients -> Nat] /\ got \in [Clients -> Seq(Events)]

\* The first n requests of a client were written in one piece.
InOnePiece(c, n) == \A m \in 1 .. n : sent[c][m] = "whole"

\* Process 1 handles a client's requests once each, in the order in which the
\* client sent them, and leaves none out as long as those before it were
\* written in one piece.  (One in pieces may be lost, and with it those that
\* share a read with it; the stream is then dropped or in step again, and
\* never gives an old request or one made of two.)
RequestsInOrder ==
  \A c \in Clients : \A i \in DOMAIN handled[c] :
    /\ handled[c][i] \in DOMAIN sent[c]
    /\ i > 1 => handled[c][i - 1] < handled[c][i]
    /\ InOnePiece(c, handled[c][i] - 1) => handled[c][i] = i

\* What a client has read, followed by the frames on their way to it, is an
\* unbroken run of what Process 1 published, starting at its accept.  Only the
\* last of them may have been cut off, and the run reaches the last event as
\* long as the client is subscribed.
EventsContiguous ==
  \A c \in Clients :
    LET all == got[c] \o [i \in DOMAIN down[c] |-> down[c][i].e]
    IN  /\ first[c] + Len(all) <= Len(published)
        /\ all = SubSeq(published, first[c] + 1, first[c] + Len(all))
        /\ \A i \in DOMAIN down[c] : down[c][i].part = "head" => i = Len(down[c]) /\ ~IsSub(c)
        /\ IsSub(c) /\ peer[c] => first[c] + Len(all) = Len(published)

\* A client that keeps its end is dropped only for a full receive buffer, a
\* request of its own written in pieces, an answer that is too large to be
\* written to anybody, or the end of the server: never for being idle, and not
\* because another client is slow, leaves, or writes half a frame.
OthersUnharmed ==
  [][\A c \in Clients :
       (conn[c] = "open" /\ conn'[c] = "dropped" /\ peer[c]) =>
         \/ sock' = "gone"
         \/ Len(down[c]) >= BufferFrames /\ Len(published') > Len(published)
         \/ \E n \in DOMAIN sent[c] : sent[c][n] = "head"
         \/ handled' # handled /\ published' = published /\ subs' = <<>>]_busVars

\* Every request of a client that stays and writes in one piece is handled,
\* and if it was answered the client reads the answer, unless the server drops
\* the client or stops.
RequestsGetThrough ==
  \A c \in Clients : \A n \in 1 .. MaxRequests[c] :
    (Len(sent[c]) >= n /\ InOnePiece(c, n)) ~>
      \/ /\ Contains(handled[c], n)
         /\ LET answer == [from |-> c, n |-> n]
            IN  Contains(published, answer) => Contains(got[c], answer)
      \/ ~peer[c] \/ conn[c] = "dropped" \/ conn[c] = "refused"
=============================================================================
