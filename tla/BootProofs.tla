----------------------------- MODULE BootProofs -----------------------------
(***************************************************************************)
(* Proofs about the e-bus and the boot over it, for any clients, requests, *)
(* buffers and numbers of events.  The boot takes the steps of the bus and *)
(* adds none: what is proved of a step of the bus serves both.             *)
(*                                                                         *)
(* That requests are handled in the order they were sent needs to know     *)
(* what is in the stream meanwhile: frames numbered one after another, the *)
(* first of them the one that is due, up to the first that was written in  *)
(* pieces, and of every client at most one request polled and not handled. *)
(* That a reader sees the events without a gap needs their places: what it *)
(* has read and what is on its way are, place by place, what was published *)
(* since it was accepted, up to the last event while it is there.  That    *)
(* the desktop comes after the chime needs both ends: the trigger is       *)
(* published only once the chime was played or given up, and a desktop     *)
(* that is past loading has read it, or has read the first boot's          *)
(* configuration.  That a ready desktop finds the gate open needs, of that *)
(* configuration, that none is published before the gate opened.           *)
(***************************************************************************)
EXTENDS Boot, SubsequencesProofs, TLAPS

-----------------------------------------------------------------------------
(* Steps of the bus, whoever drives it.                                    *)

Asking(c) == \E part \in {"whole", "head"} : send_request(c, part)

BusStep ==
  \/ bind \/ poll_requests \/ HandleOne
  \/ \E n \in Nat : announce(n)
  \/ \E s \in {"unbound", "gone"} : Close(s)
  \/ \E c \in Clients : \/ poll_connections(c) \/ connect(c) \/ Asking(c)
                        \/ Rest(c) \/ give_up(c) \/ read_event(c) \/ hang_up(c)

-----------------------------------------------------------------------------
(* Types.                                                                  *)

ConnOK ==
  /\ sock \in {"unbound", "bound", "gone"}
  /\ conn \in [Clients -> {"none", "refused", "backlog", "open", "dropped"}]
  /\ peer \in [Clients -> BOOLEAN] /\ writing \in [Clients -> BOOLEAN]

(* Each open stream is in the list of subscribers, once.                   *)
SubsOK ==
  /\ subs \in Seq(Clients)
  /\ \A i, j \in 1 .. Len(subs) : subs[i] = subs[j] => i = j
  /\ \A c \in Clients : IsSub(c) <=> conn[c] = "open"

Parts == {"whole", "head", "tail", "scrap"}
UpFrame == [n : Nat, part : Parts]
DownFrame == [e : Events, part : {"whole", "head"}]

StreamsOK ==
  /\ up \in [Clients -> Seq(UpFrame)] /\ down \in [Clients -> Seq(DownFrame)]
  /\ pending \in Seq(Requests) /\ published \in Seq(Events)

HistoryOK ==
  /\ sent \in [Clients -> Seq({"whole", "head"})] /\ handled \in [Clients -> Seq(Nat)]
  /\ first \in [Clients -> Nat] /\ got \in [Clients -> Seq(Events)]

BusOK == ConnOK /\ SubsOK /\ StreamsOK /\ HistoryOK

(* It says more than TypeOK: subs is a sequence.                           *)
LEMMA BusOKIsTypeOK == BusOK => TypeOK
<1> SUFFICES ASSUME BusOK PROVE TypeOK
  OBVIOUS
<1>1. IsInjective(subs)
  BY DEF BusOK, SubsOK, IsInjective
<1>2. ToSet(subs) = {c \in Clients : conn[c] = "open"}
  BY DEF BusOK, SubsOK, ToSet, IsSub, Contains
<1>3. QED
  BY <1>1, <1>2 DEF BusOK, ConnOK, StreamsOK, HistoryOK, UpFrame, Parts, DownFrame, TypeOK

(* A subscriber list that is filtered holds those kept, once each.         *)
LEMMA Filtered ==
  ASSUME SubsOK, NEW S, subs' = Retain(subs, S)
  PROVE  /\ subs' \in Seq(Clients)
         /\ \A i, j \in 1 .. Len(subs') : subs'[i] = subs'[j] => i = j
         /\ \A c \in Clients : IsSub(c)' <=> IsSub(c) /\ c \in S
<1>1. subs \in Seq(Clients) /\ \A i, j \in 1 .. Len(subs) : subs[i] = subs[j] => i = j
  BY DEF SubsOK
<1>2. \A i, j \in 1 .. Len(Retain(subs, S)) : Retain(subs, S)[i] = Retain(subs, S)[j] => i = j
  BY <1>1, RetainOnce
<1>3. /\ Retain(subs, S) \in Seq(Clients)
      /\ \A k \in 1 .. Len(Retain(subs, S)) : Retain(subs, S)[k] \in S
      /\ \A i \in 1 .. Len(subs) :
           subs[i] \in S => \E k \in 1 .. Len(Retain(subs, S)) : Retain(subs, S)[k] = subs[i]
  BY <1>1, RetainType
<1>4. \A k \in 1 .. Len(Retain(subs, S)) : \E i \in 1 .. Len(subs) : Retain(subs, S)[k] = subs[i]
  <2>1. PICK place \in [1 .. Len(Retain(subs, S)) -> Places(subs, S)] :
          \A k \in 1 .. Len(Retain(subs, S)) : Retain(subs, S)[k] = subs[place[k]]
    BY <1>1, RetainPlaces
  <2>2. Places(subs, S) \subseteq 1 .. Len(subs)
    BY <1>1, PlacesFinite
  <2>3. QED
    BY <2>1, <2>2
<1>5. QED
  BY <1>2, <1>3, <1>4 DEF IsSub, Contains

(* What an event does that is published.                                   *)
LEMMA PublishKeepsTypes ==
  ASSUME BusOK, NEW e \in Events, publish_event(e)
  PROVE  /\ conn' \in [Clients -> {"none", "refused", "backlog", "open", "dropped"}]
         /\ subs' \in Seq(Clients)
         /\ \A i, j \in 1 .. Len(subs') : subs'[i] = subs'[j] => i = j
         /\ \A c \in Clients : IsSub(c)' <=> conn'[c] = "open"
         /\ published' \in Seq(Events)
         /\ down' \in [Clients -> Seq(DownFrame)]
<1> USE DEF BusOK
<1>1. conn' = [c \in Clients |-> IF IsSub(c) /\ Unwritable(c) THEN "dropped" ELSE conn[c]]
  BY DEF publish_event
<1>2. conn' \in [Clients -> {"none", "refused", "backlog", "open", "dropped"}]
  BY <1>1 DEF ConnOK
<1>3. /\ subs' \in Seq(Clients)
      /\ \A i, j \in 1 .. Len(subs') : subs'[i] = subs'[j] => i = j
      /\ \A c \in Clients : IsSub(c)' <=> IsSub(c) /\ Writable(c)
  <2> DEFINE S == {c \in Clients : Writable(c)}
  <2>1. SubsOK /\ subs' = Retain(subs, S)
    BY DEF publish_event
  <2>2. \A c \in Clients : c \in S <=> Writable(c)
    OBVIOUS
  <2> HIDE DEF S
  <2>3. QED
    BY <2>1, <2>2, Filtered
<1>4. \A c \in Clients : IsSub(c)' <=> conn'[c] = "open"
  BY <1>1, <1>3 DEF SubsOK, Writable
<1>5. published' \in Seq(Events)
  BY DEF publish_event, StreamsOK
<1>6. down' \in [Clients -> Seq(DownFrame)]
  <2>1. \A part \in {"whole", "head"} : [e |-> e, part |-> part] \in DownFrame
    BY DEF DownFrame
  <2>2. \A c \in Clients : \A part \in {"whole", "head"} :
          Append(down[c], [e |-> e, part |-> part]) \in Seq(DownFrame)
    BY <2>1 DEF StreamsOK
  <2>3. \A c \in Clients : down[c] \in Seq(DownFrame)
    BY DEF StreamsOK
  <2>4. QED
    BY <2>2, <2>3 DEF publish_event
<1>7. QED
  BY <1>2, <1>3, <1>4, <1>5, <1>6

(* A poll yields a request of each subscriber that has one to read.        *)
LEMMA PolledRequests ==
  ASSUME BusOK, poll_requests
  PROVE  /\ pending' \in Seq(Requests)
         /\ \A i, j \in 1 .. Len(pending') : pending'[i].from = pending'[j].from => i = j
         /\ \A i \in 1 .. Len(pending') :
              LET c == pending'[i].from
              IN  c \in Clients /\ IsSub(c) /\ Readable(c) /\ pending'[i].n = Head(up[c]).n
         /\ \A c \in Clients : IsSub(c) /\ Readable(c) =>
              \E i \in 1 .. Len(pending') : pending'[i].from = c
<1> DEFINE S == {c \in Clients : Readable(c)}
           ready == Retain(subs, S)
<1>1. subs \in Seq(Clients) /\ \A i, j \in 1 .. Len(subs) : subs[i] = subs[j] => i = j
  BY DEF BusOK, SubsOK
<1>2. /\ ready \in Seq(Clients)
      /\ \A i \in 1 .. Len(ready) : ready[i] \in S
      /\ \A i, j \in 1 .. Len(ready) : ready[i] = ready[j] => i = j
  BY <1>1, RetainType, RetainOnce
<1> HIDE DEF S
<1>11. \A i \in 1 .. Len(subs) : subs[i] \in S => \E k \in 1 .. Len(ready) : ready[k] = subs[i]
  BY <1>1, RetainType
<1>12. \A c \in Clients : IsSub(c) /\ Readable(c) => \E k \in 1 .. Len(ready) : ready[k] = c
  BY <1>1, <1>11 DEF IsSub, Contains, S
<1>3. \A k \in 1 .. Len(ready) : IsSub(ready[k])
  <2>1. PICK place \in [1 .. Len(ready) -> Places(subs, S)] :
          \A k \in 1 .. Len(ready) : ready[k] = subs[place[k]]
    BY <1>1, RetainPlaces
  <2>2. Places(subs, S) \subseteq 1 .. Len(subs)
    BY <1>1, PlacesFinite
  <2>3. QED
    BY <2>1, <2>2 DEF IsSub, Contains
<1>4. pending' = [i \in 1 .. Len(ready) |-> [from |-> ready[i], n |-> Head(up[ready[i]]).n]]
  <2>1. DOMAIN ready = 1 .. Len(ready)
    BY <1>2
  <2>2. QED
    BY <2>1 DEF poll_requests, S
<1>5. \A i \in 1 .. Len(ready) : ready[i] \in Clients /\ Readable(ready[i])
  BY <1>2 DEF S
<1>6. \A c \in Clients : Readable(c) => Head(up[c]).n \in Nat
  <2>1. \A c \in Clients : up[c] \in Seq(UpFrame)
    BY DEF BusOK, StreamsOK
  <2>2. \A c \in Clients : Readable(c) => up[c] # <<>>
    BY DEF Readable, AtFront
  <2>3. \A c \in Clients : up[c] # <<>> => Head(up[c]) \in UpFrame
    BY <2>1
  <2>4. QED
    BY <2>2, <2>3 DEF UpFrame
<1> HIDE DEF ready
<1>7. Len(ready) \in Nat
  BY <1>2
<1>8. \A i \in 1 .. Len(ready) : pending'[i] \in Requests
  BY <1>4, <1>5, <1>6 DEF Requests
<1>9. Len(pending') = Len(ready) /\ pending' \in Seq(Requests)
  BY <1>4, <1>7, <1>8
<1>10. QED
  BY <1>2, <1>3, <1>4, <1>5, <1>9, <1>12

(* Frames are left over as frames.                                         *)
LEMMA RemaindersTyped ==
  ASSUME BusOK, NEW c \in Clients, NEW left \in Remainders(c)
  PROVE  left \in Seq(UpFrame)
<1>1. up[c] \in Seq(UpFrame)
  BY DEF BusOK, StreamsOK
<1>2. \A i \in 1 .. Len(up[c]) + 1 : From(c, i) \in Seq(UpFrame)
  BY <1>1 DEF From
<1>3. CASE left \in Overrun(c)
  <2>1. CASE \E i \in 3 .. Len(up[c]) + 1 : left = From(c, i)
    BY <1>1, <1>2, <2>1
  <2>2. CASE \E i \in 2 .. Len(up[c]), rest \in {"tail", "scrap"} :
               left = CutAt(c, i, rest)
    <3>1. PICK i \in 2 .. Len(up[c]), rest \in {"tail", "scrap"} :
            left = CutAt(c, i, rest)
      BY <2>2
    <3>2. up[c][i] \in UpFrame
      BY <1>1, <3>1
    <3>3. [up[c][i] EXCEPT !.part = rest] \in UpFrame
      BY <3>2 DEF UpFrame, Parts
    <3>4. From(c, i + 1) \in Seq(UpFrame)
      BY <1>1, <1>2, <3>1
    <3> HIDE DEF UpFrame
    <3>5. QED
      BY <3>1, <3>3, <3>4 DEF CutAt
  <2>3. QED
    BY <1>3, <2>1, <2>2 DEF Overrun
<1>4. AtFront(c) \in {"whole", "head"} => Len(up[c]) > 0
  BY <1>1 DEF AtFront
<1>5. CASE left \notin Overrun(c)
  <2>1. \/ left = <<>>
        \/ AtFront(c) = "whole" /\ left = From(c, 2)
        \/ AtFront(c) = "head" /\ Readable(c) /\ left = From(c, 3)
    BY <1>5 DEF Remainders
  <2>2. AtFront(c) = "head" /\ Readable(c) => Len(up[c]) > 1
    BY DEF Readable
  <2>3. <<>> \in Seq(UpFrame) /\ Len(up[c]) \in Nat
    BY <1>1
  <2>4. AtFront(c) = "whole" => From(c, 2) \in Seq(UpFrame)
    BY <1>2, <1>4, <2>3
  <2>5. AtFront(c) = "head" /\ Readable(c) => From(c, 3) \in Seq(UpFrame)
    BY <1>2, <2>2, <2>3
  <2>6. QED
    BY <2>1, <2>3, <2>4, <2>5
<1>6. QED
  BY <1>3, <1>5

(* What comes of a request, and of a stream that is closed for it.         *)
LEMMA AnswerKeepsTypes ==
  ASSUME BusOK, NEW r \in Events, NEW outcome, Answer(r, outcome)
  PROVE  /\ conn' \in [Clients -> {"none", "refused", "backlog", "open", "dropped"}]
         /\ subs' \in Seq(Clients)
         /\ \A i, j \in 1 .. Len(subs') : subs'[i] = subs'[j] => i = j
         /\ \A c \in Clients : IsSub(c)' <=> conn'[c] = "open"
         /\ published' \in Seq(Events)
         /\ down' \in [Clients -> Seq(DownFrame)]
<1>1. CASE publish_event(r)
  BY <1>1, PublishKeepsTypes
<1>2. CASE UNCHANGED <<conn, subs, down, published>>
  BY <1>2 DEF BusOK, ConnOK, SubsOK, StreamsOK, IsSub, Contains
<1>3. CASE publish_too_large
  <2>1. conn' = [c \in Clients |-> IF IsSub(c) THEN "dropped" ELSE conn[c]]
    BY <1>3 DEF publish_too_large
  <2>2. conn' \in [Clients -> {"none", "refused", "backlog", "open", "dropped"}]
    BY <2>1 DEF BusOK, ConnOK
  <2>3. subs' = <<>>
    BY <1>3 DEF publish_too_large
  <2>4. \A c \in Clients : ~IsSub(c)' /\ conn'[c] # "open"
    BY <2>1, <2>3 DEF BusOK, SubsOK, IsSub, Contains
  <2>5. subs' \in Seq(Clients) /\ \A i, j \in 1 .. Len(subs') : subs'[i] = subs'[j] => i = j
    BY <2>3
  <2>6. published' \in Seq(Events) /\ down' \in [Clients -> Seq(DownFrame)]
    BY <1>3 DEF publish_too_large, BusOK, StreamsOK
  <2>7. QED
    BY <2>2, <2>4, <2>5, <2>6
<1>4. QED
  BY <1>1, <1>2, <1>3 DEF Answer

(* Every step of the bus keeps the types.                                  *)
LEMMA StepKeepsTypes == BusOK /\ BusStep => BusOK'
<1> SUFFICES ASSUME BusOK, BusStep PROVE BusOK'
  OBVIOUS
<1> USE DEF history
<1>1. CASE bind
  BY <1>1 DEF bind, BusOK, ConnOK, SubsOK, StreamsOK, HistoryOK, IsSub, Contains
<1>2. CASE poll_requests
  <2>1. pending' \in Seq(Requests)
    BY <1>2, PolledRequests
  <2>2. up' \in [Clients -> Seq(UpFrame)]
    <3>1. \A c \in Clients : up[c] \in Seq(UpFrame)
      BY DEF BusOK, StreamsOK
    <3>2. PICK left \in [Clients -> UNION {Remainders(c) : c \in Clients}] :
            /\ \A c \in Clients : left[c] \in Remainders(c)
            /\ up' = [c \in Clients |-> IF IsSub(c) THEN left[c] ELSE up[c]]
      BY <1>2 DEF poll_requests
    <3>3. \A c \in Clients : left[c] \in Seq(UpFrame)
      BY <3>2, RemaindersTyped
    <3>4. QED
      BY <3>1, <3>2, <3>3
  <2>3. conn' = [c \in Clients |-> IF IsSub(c) /\ ~Retained(c) THEN "dropped" ELSE conn[c]]
    BY <1>2 DEF poll_requests
  <2>4. conn' \in [Clients -> {"none", "refused", "backlog", "open", "dropped"}]
    BY <2>3 DEF BusOK, ConnOK
  <2>5. /\ subs' \in Seq(Clients)
        /\ \A i, j \in 1 .. Len(subs') : subs'[i] = subs'[j] => i = j
        /\ \A c \in Clients : IsSub(c)' <=> IsSub(c) /\ Retained(c)
    <3> DEFINE S == {c \in Clients : Retained(c)}
    <3>1. SubsOK /\ subs' = Retain(subs, S)
      BY <1>2 DEF poll_requests, BusOK
    <3>2. \A c \in Clients : c \in S <=> Retained(c)
      OBVIOUS
    <3> HIDE DEF S
    <3>3. QED
      BY <3>1, <3>2, Filtered
  <2>6. \A c \in Clients : IsSub(c)' <=> conn'[c] = "open"
    BY <2>3, <2>5 DEF BusOK, SubsOK
  <2>7. ConnOK' /\ SubsOK'
    BY <1>2, <2>4, <2>5, <2>6 DEF poll_requests, BusOK, ConnOK, SubsOK
  <2>8. StreamsOK' /\ HistoryOK'
    BY <1>2, <2>1, <2>2 DEF poll_requests, BusOK, StreamsOK, HistoryOK
  <2>9. QED
    BY <2>7, <2>8 DEF BusOK
<1>3. CASE HandleOne
  <2>1. PICK outcome \in Outcomes : handle(outcome)
    BY <1>3 DEF HandleOne
  <2> DEFINE r == Head(pending)
  <2>2. r \in Requests /\ Tail(pending) \in Seq(Requests)
    BY <2>1 DEF handle, BusOK, StreamsOK
  <2>3. r \in Events /\ r.from \in Clients /\ r.n \in Nat
    BY <2>2 DEF Requests, Events
  <2>4. Answer(r, outcome) /\ handled' = [handled EXCEPT ![r.from] = Append(@, r.n)]
    BY <2>1 DEF handle
  <2>5. handled' \in [Clients -> Seq(Nat)]
    BY <2>3, <2>4 DEF BusOK, HistoryOK
  <2> HIDE DEF r
  <2>6. ConnOK' /\ SubsOK'
    BY <2>1, <2>3, <2>4, AnswerKeepsTypes DEF handle, BusOK, ConnOK, SubsOK
  <2>7. StreamsOK' /\ HistoryOK'
    BY <2>1, <2>2, <2>3, <2>4, <2>5, AnswerKeepsTypes DEF handle, BusOK, StreamsOK, HistoryOK
  <2>8. QED
    BY <2>6, <2>7 DEF BusOK
<1>4. ASSUME NEW n \in Nat, announce(n) PROVE BusOK'
  <2> DEFINE e == [from |-> System, n |-> n]
  <2>1. e \in Events /\ publish_event(e)
    BY <1>4 DEF announce, Events
  <2> HIDE DEF e
  <2>2. ConnOK' /\ SubsOK'
    BY <1>4, <2>1, PublishKeepsTypes DEF announce, BusOK, ConnOK, SubsOK
  <2>3. StreamsOK' /\ HistoryOK'
    BY <1>4, <2>1, PublishKeepsTypes DEF announce, BusOK, StreamsOK, HistoryOK
  <2>4. QED
    BY <2>2, <2>3 DEF BusOK
<1>5. ASSUME NEW s \in {"unbound", "gone"}, Close(s) PROVE BusOK'
  <2>1. ConnOK'
    BY <1>5 DEF Close, BusOK, ConnOK
  <2>2. \A c \in Clients : conn'[c] # "open"
    BY <1>5 DEF Close, BusOK, ConnOK
  <2>3. SubsOK'
    BY <1>5, <2>2 DEF Close, SubsOK, IsSub, Contains
  <2>4. StreamsOK' /\ HistoryOK'
    BY <1>5 DEF Close, BusOK, StreamsOK, HistoryOK
  <2>5. QED
    BY <2>1, <2>3, <2>4 DEF BusOK
<1>6. ASSUME NEW c \in Clients, poll_connections(c) PROVE BusOK'
  <2>1. conn[c] = "backlog" /\ conn' = [conn EXCEPT ![c] = "open"] /\ subs' = Append(subs, c)
    BY <1>6 DEF poll_connections
  <2>2. ~IsSub(c) /\ subs \in Seq(Clients)
    BY <2>1 DEF BusOK, SubsOK
  <2>3. \A i \in 1 .. Len(subs) : subs[i] # c
    BY <2>2 DEF IsSub, Contains
  <2>4. \A d \in Clients : IsSub(d)' <=> IsSub(d) \/ d = c
    BY <2>1, <2>2 DEF IsSub, Contains
  <2>5. \A i, j \in 1 .. Len(subs') : subs'[i] = subs'[j] => i = j
    BY <2>1, <2>2, <2>3 DEF BusOK, SubsOK
  <2>6. \A d \in Clients : IsSub(d)' <=> conn'[d] = "open"
    BY <2>1, <2>4 DEF BusOK, SubsOK, ConnOK
  <2>7. SubsOK'
    BY <2>1, <2>2, <2>5, <2>6 DEF SubsOK
  <2>8. ConnOK' /\ StreamsOK' /\ HistoryOK'
    BY <1>6 DEF poll_connections, BusOK, ConnOK, StreamsOK, HistoryOK
  <2>9. QED
    BY <2>7, <2>8 DEF BusOK
<1>7. ASSUME NEW c \in Clients, connect(c) PROVE BusOK'
  <2>1. ConnOK'
    BY <1>7 DEF connect, BusOK, ConnOK
  <2>2. SubsOK'
    BY <1>7 DEF connect, BusOK, SubsOK, IsSub, Contains, ConnOK
  <2>3. StreamsOK' /\ HistoryOK'
    BY <1>7 DEF connect, BusOK, StreamsOK, HistoryOK
  <2>4. QED
    BY <2>1, <2>2, <2>3 DEF BusOK
<1>8. ASSUME NEW c \in Clients, NEW n \in Nat, NEW part \in Parts,
             Enqueue(c, n, part)
      PROVE  up' \in [Clients -> Seq(UpFrame)]
  <2>1. [n |-> n, part |-> part] \in UpFrame
    BY DEF UpFrame
  <2>2. up \in [Clients -> Seq(UpFrame)]
    BY DEF BusOK, StreamsOK
  <2>3. Append(up[c], [n |-> n, part |-> part]) \in Seq(UpFrame)
    BY <2>1, <2>2
  <2>4. QED
    BY <1>8, <2>2, <2>3 DEF Enqueue
<1>9. ASSUME NEW c \in Clients, Asking(c) PROVE BusOK'
  <2>1. PICK part \in {"whole", "head"} : send_request(c, part)
    BY <1>9 DEF Asking
  <2>2. sent[c] \in Seq({"whole", "head"}) /\ Len(sent[c]) + 1 \in Nat
    BY DEF BusOK, HistoryOK
  <2>3. up' \in [Clients -> Seq(UpFrame)]
    BY <1>8, <2>1, <2>2 DEF send_request, Parts
  <2>4. sent' \in [Clients -> Seq({"whole", "head"})]
    BY <2>1, <2>2 DEF send_request, BusOK, HistoryOK
  <2>5. ConnOK' /\ SubsOK'
    BY <2>1 DEF send_request, BusOK, ConnOK, SubsOK, IsSub, Contains
  <2>6. StreamsOK' /\ HistoryOK'
    BY <2>1, <2>3, <2>4 DEF send_request, BusOK, StreamsOK, HistoryOK
  <2>7. QED
    BY <2>5, <2>6 DEF BusOK
<1>10. ASSUME NEW c \in Clients, Rest(c) PROVE BusOK'
  <2>1. PICK part \in {"tail", "scrap"} : send_rest(c, part)
    BY <1>10 DEF Rest
  <2>2. part \in Parts /\ Len(sent[c]) \in Nat
    BY DEF BusOK, HistoryOK, Parts
  <2>3. up' \in [Clients -> Seq(UpFrame)]
    BY <1>8, <2>1, <2>2 DEF send_rest
  <2>4. ConnOK' /\ SubsOK'
    BY <2>1 DEF send_rest, BusOK, ConnOK, SubsOK, IsSub, Contains
  <2>5. StreamsOK' /\ HistoryOK'
    BY <2>1, <2>3 DEF send_rest, BusOK, StreamsOK, HistoryOK
  <2>6. QED
    BY <2>4, <2>5 DEF BusOK
<1>11. ASSUME NEW c \in Clients, read_event(c) PROVE BusOK'
  <2>1. down[c] \in Seq(DownFrame) /\ down[c] # <<>>
    BY <1>11 DEF read_event, BusOK, StreamsOK
  <2>2. Head(down[c]).e \in Events /\ Tail(down[c]) \in Seq(DownFrame)
    <3>1. Head(down[c]) \in DownFrame /\ Tail(down[c]) \in Seq(DownFrame)
      BY <2>1
    <3>2. QED
      BY <3>1 DEF DownFrame
  <2>3. down' \in [Clients -> Seq(DownFrame)] /\ got' \in [Clients -> Seq(Events)]
    BY <1>11, <2>2 DEF read_event, BusOK, StreamsOK, HistoryOK
  <2>4. ConnOK' /\ SubsOK'
    BY <1>11 DEF read_event, BusOK, ConnOK, SubsOK, IsSub, Contains
  <2>5. StreamsOK' /\ HistoryOK'
    BY <1>11, <2>3 DEF read_event, BusOK, StreamsOK, HistoryOK
  <2>6. QED
    BY <2>4, <2>5 DEF BusOK
<1>12. ASSUME NEW c \in Clients, hang_up(c) PROVE BusOK'
  <2>1. ConnOK' /\ SubsOK'
    BY <1>12 DEF hang_up, BusOK, ConnOK, SubsOK, IsSub, Contains
  <2>2. <<>> \in Seq(DownFrame)
    OBVIOUS
  <2>3. StreamsOK' /\ HistoryOK'
    BY <1>12, <2>2 DEF hang_up, BusOK, StreamsOK, HistoryOK
  <2>4. QED
    BY <2>1, <2>3 DEF BusOK
<1>13. ASSUME NEW c \in Clients, give_up(c) PROVE BusOK'
  <2>1. ConnOK' /\ SubsOK'
    BY <1>13 DEF give_up, BusOK, ConnOK, SubsOK, IsSub, Contains
  <2>2. StreamsOK' /\ HistoryOK'
    BY <1>13 DEF give_up, BusOK, StreamsOK, HistoryOK
  <2>3. QED
    BY <2>1, <2>2 DEF BusOK
<1>14. QED
  BY <1>1, <1>2, <1>3, <1>4, <1>5, <1>6, <1>7, <1>9, <1>10, <1>11, <1>12, <1>13 DEF BusStep

(* A step that leaves the bus alone leaves its types alone.                *)
LEMMA StillKeepsTypes == BusOK /\ UNCHANGED busVars => BusOK'
  BY DEF busVars, history, BusOK, ConnOK, SubsOK, StreamsOK, HistoryOK, IsSub, Contains

(* A bus that starts has its types,                                        *)
LEMMA BusStartsTyped == BusInit => BusOK
<1> SUFFICES ASSUME BusInit PROVE BusOK
  OBVIOUS
<1>1. ConnOK /\ StreamsOK /\ HistoryOK
  BY DEF BusInit, ConnOK, StreamsOK, HistoryOK
<1>2. SubsOK
  BY DEF BusInit, SubsOK, IsSub, Contains
<1>3. QED
  BY <1>1, <1>2 DEF BusOK

(* Whoever drives the bus takes its steps.                                 *)
LEMMA BusNextSteps == BusOK /\ [Next]_busVars => BusStep \/ UNCHANGED busVars
<1> SUFFICES ASSUME BusOK, Next PROVE BusStep
  OBVIOUS
<1>1. News + 1 \in Nat
  <2>1. Len(published) \in Nat /\ DOMAIN published = 1 .. Len(published)
    BY DEF BusOK, StreamsOK
  <2>2. IsFiniteSet(1 .. Len(published))
    BY <2>1, FS_Interval
  <2>3. IsFiniteSet({i \in DOMAIN published : published[i].from = System})
    BY <2>1, <2>2, FS_Subset
  <2>4. QED
    BY <2>3, FS_CardinalityType DEF News
<1>2. CASE Server
  BY <1>1, <1>2 DEF Server, BusStep, shutdown
<1>3. CASE \E c \in Clients : Client(c)
  BY <1>3 DEF Client, BusStep, Asking
<1>4. QED
  BY <1>2, <1>3 DEF Next

(* The types of the bus, on its own.                                       *)
LEMMA BusTypes == Spec => []BusOK
<1>1. BusOK /\ [Next]_busVars => BusOK'
  BY BusNextSteps, StepKeepsTypes, StillKeepsTypes
<1>2. QED
  BY <1>1, BusStartsTyped, PTL DEF Spec

(* EventBus.TypeOK for any number of clients: the list of subscribers and  *)
(* the state of the connections, changed by six handlers of the server,    *)
(* agree at every moment.                                                  *)
THEOREM BusTypeCorrect == Spec => []TypeOK
  BY BusTypes, BusOKIsTypeOK, PTL

(* The order of the requests.  The frames of a stream are numbered in the  *)
(* order they were written; one that begins a request comes after all that *)
(* were polled or handled, and as long as everything before it was written *)
(* in one piece its place in the stream says which request it is.  What    *)
(* was written in pieces leaves frames behind of which this is not known,  *)
(* and every frame after them has it before it.                            *)

Pends(c, n) == \E i \in 1 .. Len(pending) : pending[i].from = c /\ pending[i].n = n
Waiting(c) == \E n \in Nat : Pends(c, n)

(* How many requests of a client were taken from its stream.               *)
Turn(c) == Len(handled[c]) + (IF Waiting(c) THEN 1 ELSE 0)

OneEach == \A i, j \in 1 .. Len(pending) : pending[i].from = pending[j].from => i = j

(* The number n comes after those handled, and is the next if it can be    *)
(* told.                                                                   *)
Beyond(c, n) == \A i \in 1 .. Len(handled[c]) : handled[c][i] < n
Follows(c, n) ==
  n \in 1 .. Len(sent[c]) /\ Beyond(c, n) /\ (InOnePiece(c, n - 1) => n = Len(handled[c]) + 1)

Past(c) ==
  /\ \A i \in 1 .. Len(handled[c]) :
       handled[c][i] \in 1 .. Len(sent[c]) /\ (InOnePiece(c, handled[c][i] - 1) => handled[c][i] = i)
  /\ \A i, j \in 1 .. Len(handled[c]) : i < j => handled[c][i] < handled[c][j]

Present(c) == \A n \in Nat : Pends(c, n) => Follows(c, n)

Begins(f) == f.part \in {"whole", "head"}

Numbered(c) ==
  /\ \A i \in 1 .. Len(up[c]) : up[c][i].n \in 1 .. Len(sent[c])
  /\ \A i \in 1 .. Len(up[c]) : up[c][i].part # "whole" => ~InOnePiece(c, up[c][i].n)
  /\ \A i, j \in 1 .. Len(up[c]) : i < j =>
       up[c][i].n <= up[c][j].n /\ (Begins(up[c][j]) => up[c][i].n < up[c][j].n)

Fitting(c) ==
  \A i \in 1 .. Len(up[c]) : Begins(up[c][i]) =>
    /\ Beyond(c, up[c][i].n)
    /\ \A n \in Nat : Pends(c, n) => n < up[c][i].n
    /\ InOnePiece(c, up[c][i].n - 1) => up[c][i].n = Turn(c) + i

Complete(c) == InOnePiece(c, Len(sent[c])) => Len(sent[c]) = Turn(c) + Len(up[c])

Coming(c) == Connected(c) => Numbered(c) /\ Fitting(c) /\ Complete(c)

HeadOut(c) == writing[c] => ~InOnePiece(c, Len(sent[c])) /\ Len(sent[c]) > 0

Fresh(c) ==
  conn[c] = "none" => sent[c] = <<>> /\ handled[c] = <<>> /\ up[c] = <<>> /\ ~Waiting(c)

InOrder(c) == Past(c) /\ Present(c) /\ Coming(c) /\ HeadOut(c) /\ Fresh(c)

OrderInv == OneEach /\ \A c \in Clients : InOrder(c)

-----------------------------------------------------------------------------
(* What is known of any client's numbers.                                  *)
LEMMA Numbers ==
  ASSUME BusOK, NEW c \in Clients
  PROVE  /\ up[c] \in Seq(UpFrame) /\ Len(up[c]) \in Nat
         /\ \A i \in 1 .. Len(up[c]) : up[c][i] \in UpFrame /\ up[c][i].n \in Nat /\ up[c][i].part \in Parts
         /\ handled[c] \in Seq(Nat) /\ Len(handled[c]) \in Nat
         /\ \A i \in 1 .. Len(handled[c]) : handled[c][i] \in Nat
         /\ sent[c] \in Seq({"whole", "head"}) /\ Len(sent[c]) \in Nat
         /\ Turn(c) \in Nat
<1>1. /\ up[c] \in Seq(UpFrame) /\ Len(up[c]) \in Nat
      /\ handled[c] \in Seq(Nat) /\ Len(handled[c]) \in Nat
      /\ sent[c] \in Seq({"whole", "head"}) /\ Len(sent[c]) \in Nat
  BY DEF BusOK, StreamsOK, HistoryOK
<1>2. \A i \in 1 .. Len(up[c]) : up[c][i] \in UpFrame
  BY <1>1
<1>3. \A i \in 1 .. Len(up[c]) : up[c][i].n \in Nat /\ up[c][i].part \in Parts
  BY <1>2 DEF UpFrame
<1>4. \A i \in 1 .. Len(handled[c]) : handled[c][i] \in Nat
  BY <1>1
<1>5. Turn(c) \in Nat
  <2>1. CASE Waiting(c)
    BY <1>1, <2>1 DEF Turn
  <2>2. CASE ~Waiting(c)
    BY <1>1, <2>2 DEF Turn
  <2>3. QED
    BY <2>1, <2>2
<1>6. QED
  BY <1>1, <1>2, <1>3, <1>4, <1>5

(* A prefix of what was written in one piece was, too.                     *)
LEMMA PieceShorter ==
  ASSUME NEW c, NEW n \in Nat, NEW m \in Int, m <= n, InOnePiece(c, n)
  PROVE  InOnePiece(c, m)
BY DEF InOnePiece

(* What is polled is a number.                                             *)
LEMMA PendsNumber ==
  ASSUME BusOK, NEW i \in 1 .. Len(pending)
  PROVE  pending[i].n \in Nat /\ pending[i].from \in Clients /\ Waiting(pending[i].from)
<1>1. pending[i] \in Requests
  BY DEF BusOK, StreamsOK
<1>2. pending[i].n \in Nat /\ pending[i].from \in Clients
  BY <1>1 DEF Requests
<1>3. QED
  BY <1>2 DEF Waiting, Pends

(* A client whose requests nobody touches stays in order.                  *)
LEMMA Undisturbed ==
  ASSUME NEW c \in Clients, InOrder(c),
         sent'[c] = sent[c], handled'[c] = handled[c], up'[c] = up[c],
         \A n \in Nat : Pends(c, n)' <=> Pends(c, n),
         writing'[c] => writing[c], Connected(c)' => Connected(c),
         conn'[c] = "none" => conn[c] = "none"
  PROVE  InOrder(c)'
<1>1. (Waiting(c)' <=> Waiting(c)) /\ Turn(c)' = Turn(c)
  BY DEF Waiting, Turn
<1>2. \A n : InOnePiece(c, n)' <=> InOnePiece(c, n)
  BY DEF InOnePiece
<1>3. \A n : Beyond(c, n)' <=> Beyond(c, n)
  BY DEF Beyond
<1>4. Past(c)'
  BY <1>2 DEF InOrder, Past
<1>5. Present(c)'
  BY <1>2, <1>3 DEF InOrder, Present, Follows
<1>6. Coming(c)'
  <2>1. ASSUME Connected(c)' PROVE Numbered(c)' /\ Fitting(c)' /\ Complete(c)'
    <3>1. Numbered(c) /\ Fitting(c) /\ Complete(c)
      BY <2>1 DEF InOrder, Coming
    <3>2. Numbered(c)'
      BY <1>2, <3>1 DEF Numbered
    <3>3. Fitting(c)'
      BY <1>1, <1>2, <1>3, <3>1 DEF Fitting
    <3>4. Complete(c)'
      BY <1>1, <1>2, <3>1 DEF Complete
    <3>5. QED
      BY <3>2, <3>3, <3>4
  <2>2. QED
    BY <2>1 DEF Coming
<1>7. HeadOut(c)'
  BY <1>2 DEF InOrder, HeadOut
<1>8. Fresh(c)'
  BY <1>1 DEF InOrder, Fresh
<1>9. QED
  BY <1>4, <1>5, <1>6, <1>7, <1>8 DEF InOrder

(* What is left of a stream after a poll: all but its first frame, or, if  *)
(* it does not begin with a whole one, frames from behind the first, one   *)
(* of them perhaps cut.                                                    *)
LEMMA LeftOver ==
  ASSUME BusOK, NEW c \in Clients, NEW left \in Remainders(c)
  PROVE  \/ AtFront(c) = "nothing" /\ left = <<>>
         \/ /\ AtFront(c) = "whole" /\ Len(left) = Len(up[c]) - 1
            /\ \A i \in 1 .. Len(left) : left[i] = up[c][i + 1]
         \/ /\ AtFront(c) \in {"head", "tail", "scrap"}
            /\ \E d \in 1 .. Len(up[c]) :
                 /\ Len(left) <= Len(up[c]) - d
                 /\ \A i \in 1 .. Len(left) :
                      /\ left[i].n = up[c][i + d].n
                      /\ left[i].part = up[c][i + d].part \/ left[i].part \in {"tail", "scrap"}
<1>1. /\ up[c] \in Seq(UpFrame) /\ Len(up[c]) \in Nat
      /\ \A i \in 1 .. Len(up[c]) : up[c][i] \in UpFrame /\ up[c][i].part \in Parts
  BY Numbers
<1>2. ASSUME NEW k \in 2 .. Len(up[c]) + 1
      PROVE  /\ Len(From(c, k)) = Len(up[c]) - k + 1
             /\ \A i \in 1 .. Len(From(c, k)) : From(c, k)[i] = up[c][i + (k - 1)]
  BY <1>1 DEF From
<1>3. CASE up[c] = <<>>
  BY <1>3 DEF AtFront, Remainders, Overrun
<1>4. CASE up[c] # <<>>
  <2>1. Len(up[c]) >= 1 /\ AtFront(c) = up[c][1].part /\ AtFront(c) \in Parts
    BY <1>1, <1>4 DEF AtFront
  <2>2. CASE AtFront(c) = "whole"
    <3>1. left = From(c, 2) /\ 2 \in 2 .. Len(up[c]) + 1
      BY <1>1, <2>1, <2>2 DEF Remainders
    <3>2. QED
      BY <1>1, <1>2, <2>2, <3>1
  <2>3. CASE AtFront(c) \in {"tail", "scrap"}
    <3>1. left = <<>>
      BY <2>3 DEF Remainders
    <3>2. QED
      BY <1>1, <2>1, <2>3, <3>1
  <2>4. CASE AtFront(c) = "head"
    <3> SUFFICES \E d \in 1 .. Len(up[c]) :
                   /\ Len(left) <= Len(up[c]) - d
                   /\ \A i \in 1 .. Len(left) :
                        /\ left[i].n = up[c][i + d].n
                        /\ left[i].part = up[c][i + d].part \/ left[i].part \in {"tail", "scrap"}
      BY <2>4
    <3>1. \/ left = <<>>
          \/ Len(up[c]) > 1 /\ left = From(c, 3)
          \/ \E k \in 3 .. Len(up[c]) + 1 : left = From(c, k)
          \/ \E k \in 2 .. Len(up[c]), rest \in {"tail", "scrap"} :
               left = CutAt(c, k, rest)
      <4>1. \/ left = <<>>
            \/ Readable(c) /\ left = From(c, 3)
            \/ left \in Overrun(c)
        BY <2>4 DEF Remainders
      <4>2. Readable(c) => Len(up[c]) > 1
        BY <2>4 DEF Readable
      <4>3. left \in Overrun(c) =>
              \/ \E k \in 3 .. Len(up[c]) + 1 : left = From(c, k)
              \/ \E k \in 2 .. Len(up[c]), rest \in {"tail", "scrap"} :
                   left = CutAt(c, k, rest)
        BY DEF Overrun
      <4>4. QED
        BY <4>1, <4>2, <4>3
    <3>2. CASE left = <<>>
      BY <1>1, <2>1, <3>2
    <3>3. CASE \E k \in 3 .. Len(up[c]) + 1 : left = From(c, k)
      <4>1. PICK k \in 3 .. Len(up[c]) + 1 : left = From(c, k)
        BY <3>3
      <4>2. k \in 2 .. Len(up[c]) + 1
        BY <1>1, <4>1
      <4> DEFINE d == k - 1
      <4>3. /\ d \in 1 .. Len(up[c]) /\ Len(left) = Len(up[c]) - d
            /\ \A i \in 1 .. Len(left) : left[i] = up[c][i + d]
        <5>1. Len(left) = Len(up[c]) - k + 1 /\ \A i \in 1 .. Len(left) : left[i] = up[c][i + (k - 1)]
          BY <1>2, <4>1, <4>2
        <5>2. QED
          BY <1>1, <4>1, <5>1
      <4> HIDE DEF d
      <4>4. Len(left) <= Len(up[c]) - d
        BY <1>1, <4>3
      <4>5. QED
        BY <4>3, <4>4
    <3>4. CASE Len(up[c]) > 1 /\ left = From(c, 3)
      BY <1>1, <3>3, <3>4
    <3>5. CASE \E k \in 2 .. Len(up[c]), rest \in {"tail", "scrap"} :
                 left = CutAt(c, k, rest)
      <4>1. PICK k \in 2 .. Len(up[c]), rest \in {"tail", "scrap"} :
              left = CutAt(c, k, rest)
        BY <3>5
      <4> DEFINE f == [up[c][k] EXCEPT !.part = rest]
                 tail == From(c, k + 1)
      <4>2. up[c][k] \in UpFrame
        BY <1>1, <4>1
      <4>3. f.n = up[c][k].n /\ f.part = rest
        BY <4>2 DEF UpFrame
      <4>4. tail = From(c, k + 1) /\ left = <<f>> \o tail
        BY <4>1 DEF CutAt
      <4> HIDE DEF f, tail
      <4>5. PICK d : d = k - 1
        OBVIOUS
      <4>6. d \in 1 .. Len(up[c]) /\ k = d + 1 /\ k + 1 \in 2 .. Len(up[c]) + 1
        BY <1>1, <4>1, <4>5
      <4>7. Len(tail) = Len(up[c]) - k /\ tail \in Seq(UpFrame)
        <5>1. tail = SubSeq(up[c], k + 1, Len(up[c]))
          BY <4>4 DEF From
        <5>2. QED
          BY <1>1, <4>1, <5>1
      <4>8. \A i \in 1 .. Len(tail) : tail[i] = up[c][i + k]
        BY <1>1, <1>2, <4>1, <4>4, <4>6
      <4>10. Len(left) = Len(tail) + 1 /\ left[1] = f
             /\ \A i \in 2 .. Len(left) : left[i] = tail[i - 1]
        <5>1. <<f>> \in Seq({f} \cup UpFrame) /\ tail \in Seq({f} \cup UpFrame)
          BY <4>7
        <5>2. QED
          BY <4>4, <5>1
      <4>11. Len(left) = Len(up[c]) - d
        BY <1>1, <4>1, <4>6, <4>7, <4>10
      <4>12. ASSUME NEW i \in 1 .. Len(left)
             PROVE  /\ left[i].n = up[c][i + d].n
                    /\ left[i].part = up[c][i + d].part \/ left[i].part \in {"tail", "scrap"}
        <5>1. CASE i = 1
          <6>1. 1 + d = k
            BY <4>6
          <6>2. left[i] = f
            BY <5>1, <4>10
          <6>3. i + d = k
            BY <5>1, <6>1
          <6>4. up[c][i + d] = up[c][k]
            BY <6>3, Zenon
          <6>5. left[i].n = up[c][i + d].n
            BY <6>2, <6>4, <4>3, Zenon
          <6>6. left[i].part \in {"tail", "scrap"}
            BY <6>2, <4>1, <4>3
          <6>7. QED
            BY <6>5, <6>6, Zenon
        <5>2. CASE i # 1
          <6>1. i \in 2 .. Len(left) /\ i - 1 \in 1 .. Len(tail) /\ (i - 1) + k = i + d
            BY <1>1, <4>1, <4>6, <4>7, <4>10, <5>2
          <6>2. left[i] = up[c][(i - 1) + k]
            BY <4>8, <4>10, <6>1
          <6>3. QED
            BY <6>1, <6>2
        <5>3. QED
          BY <5>1, <5>2
      <4>13. Len(left) <= Len(up[c]) - d
        BY <1>1, <4>6, <4>11
      <4>14. QED
        BY <4>6, <4>12, <4>13
    <3>6. QED
      BY <3>1, <3>2, <3>3, <3>4, <3>5
  <2>5. QED
    BY <2>1, <2>2, <2>3, <2>4 DEF Parts
<1>5. QED
  BY <1>3, <1>4

(* The frames a poll leaves are in order when those before were: what is   *)
(* polled is the first of them, and whatever else was taken from the front *)
(* belonged to a request in pieces.                                        *)
LEMMA PollKeepsStream ==
  ASSUME BusOK, BusOK', NEW c \in Clients, Past(c), Numbered(c), Fitting(c), Complete(c),
         ~Waiting(c), up'[c] \in Remainders(c),
         sent'[c] = sent[c], handled'[c] = handled[c],
         \A n \in Nat : Pends(c, n)' <=> Readable(c) /\ n = up[c][1].n
  PROVE  Present(c)' /\ Numbered(c)' /\ Fitting(c)' /\ Complete(c)'
<1>1. /\ Len(up[c]) \in Nat /\ Len(up'[c]) \in Nat /\ Len(sent[c]) \in Nat
      /\ Len(handled[c]) \in Nat /\ Turn(c) = Len(handled[c])
      /\ up[c] \in Seq(UpFrame) /\ up'[c] \in Seq(UpFrame)
      /\ \A i \in 1 .. Len(up[c]) : up[c][i].n \in Nat /\ up[c][i].part \in Parts
  <2>1. up'[c] \in Seq(UpFrame)
    BY DEF BusOK, StreamsOK
  <2>2. Turn(c) = Len(handled[c])
    BY Numbers DEF Turn
  <2>3. Len(up'[c]) \in Nat
    BY <2>1
  <2>4. /\ Len(up[c]) \in Nat /\ Len(sent[c]) \in Nat /\ Len(handled[c]) \in Nat
        /\ up[c] \in Seq(UpFrame)
        /\ \A i \in 1 .. Len(up[c]) : up[c][i].n \in Nat /\ up[c][i].part \in Parts
    BY Numbers
  <2>5. QED
    BY <2>1, <2>2, <2>3, <2>4
<1>2. \A n : (InOnePiece(c, n)' <=> InOnePiece(c, n)) /\ (Beyond(c, n)' <=> Beyond(c, n))
  BY DEF InOnePiece, Beyond
<1>3. AtFront(c) = "nothing" <=> Len(up[c]) = 0
  <2>1. up[c] = <<>> <=> Len(up[c]) = 0
    BY <1>1
  <2>2. up[c] # <<>> => Head(up[c]).part \in Parts
    BY <1>1
  <2>3. QED
    BY <2>1, <2>2 DEF AtFront, Parts
<1>4. Len(up[c]) > 0 => AtFront(c) = up[c][1].part
  BY <1>1 DEF AtFront
<1>5. Readable(c) => Len(up[c]) > 0 /\ Begins(up[c][1]) /\ up[c][1].n \in Nat
  BY <1>1, <1>3, <1>4 DEF Readable, Begins
<1>6. (Waiting(c)' <=> Readable(c)) /\ Turn(c)' = Len(handled[c]) + (IF Readable(c) THEN 1 ELSE 0)
  BY <1>5 DEF Waiting, Turn
<1>7. Present(c)'
  <2>1. ASSUME Readable(c) PROVE Follows(c, up[c][1].n)
    <3>1. up[c][1].n \in 1 .. Len(sent[c])
      BY <1>1, <1>5, <2>1 DEF Numbered
    <3>2. Beyond(c, up[c][1].n) /\ (InOnePiece(c, up[c][1].n - 1) => up[c][1].n = Turn(c) + 1)
      BY <1>1, <1>5, <2>1 DEF Fitting
    <3>3. QED
      BY <1>1, <3>1, <3>2 DEF Follows
  <2>2. \A n : Follows(c, n)' <=> Follows(c, n)
    BY <1>2 DEF Follows
  <2>3. QED
    BY <2>1, <2>2 DEF Present
<1>8. CASE AtFront(c) = "nothing"
  <2>1. Len(up[c]) = 0 /\ Len(up'[c]) = 0 /\ ~Readable(c)
    BY <1>3, <1>5, <1>8, LeftOver
  <2>2. Numbered(c)' /\ Fitting(c)'
    BY <2>1 DEF Numbered, Fitting
  <2>3. Complete(c)'
    BY <1>1, <1>2, <1>6, <2>1 DEF Complete
  <2>4. QED
    BY <1>7, <2>2, <2>3
<1>9. CASE AtFront(c) # "nothing"
  (* Each frame that is left stood behind the first.                       *)
  <2>1. PICK d \in 1 .. Len(up[c]) :
          /\ Len(up'[c]) <= Len(up[c]) - d
          /\ \A i \in 1 .. Len(up'[c]) :
               /\ up'[c][i].n = up[c][i + d].n
               /\ up'[c][i].part = up[c][i + d].part \/ up'[c][i].part \in {"tail", "scrap"}
          /\ AtFront(c) = "whole" => /\ d = 1 /\ Len(up'[c]) = Len(up[c]) - 1
                                     /\ \A i \in 1 .. Len(up'[c]) : up'[c][i] = up[c][i + 1]
    <3>1. CASE AtFront(c) = "whole"
      <4>1. /\ Len(up'[c]) = Len(up[c]) - 1
            /\ \A i \in 1 .. Len(up'[c]) : up'[c][i] = up[c][i + 1]
        BY <3>1, LeftOver
      <4>2. 1 \in 1 .. Len(up[c])
        BY <1>1, <1>3, <1>9
      <4>3. PICK one \in 1 .. Len(up[c]) : one = 1
        BY <4>2
      <4>4. /\ Len(up'[c]) <= Len(up[c]) - one
            /\ \A i \in 1 .. Len(up'[c]) : up'[c][i] = up[c][i + one]
        BY <1>1, <4>1, <4>3
      <4>5. QED
        BY <4>1, <4>3, <4>4
    <3>2. CASE AtFront(c) # "whole"
      BY <1>9, <3>2, LeftOver
    <3>3. QED
      BY <3>1, <3>2
  <2>2. 1 \in 1 .. Len(up[c])
    BY <1>1, <1>3, <1>9
  <2>3. \A i \in 1 .. Len(up'[c]) : i + d \in 2 .. Len(up[c])
    BY <1>1, <2>1
  <2>4. AtFront(c) # "whole" => ~InOnePiece(c, up[c][1].n)
    BY <1>4, <2>2 DEF Numbered
  <2>5. Numbered(c)'
    <3>1. ASSUME NEW i \in 1 .. Len(up'[c])
          PROVE  /\ up'[c][i].n \in 1 .. Len(sent[c])
                 /\ up'[c][i].part # "whole" => ~InOnePiece(c, up'[c][i].n)
      <4>1. PICK k \in 2 .. Len(up[c]) : k = i + d
        BY <2>3
      <4>2. up'[c][i].n = up[c][k].n /\ up[c][k].n \in 1 .. Len(sent[c]) /\ up[c][1].n <= up[c][k].n
        <5>1. k \in 1 .. Len(up[c]) /\ 1 < k
          BY <1>1, <4>1
        <5>2. up'[c][i].n = up[c][k].n
          BY <2>1, <4>1
        <5>3. up[c][k].n \in 1 .. Len(sent[c])
          BY <5>1 DEF Numbered
        <5>4. up[c][1].n <= up[c][k].n
          BY <2>2, <5>1 DEF Numbered
        <5>5. QED
          BY <5>2, <5>3, <5>4
      <4>3. up[c][k].part # "whole" => ~InOnePiece(c, up[c][k].n)
        BY <4>1 DEF Numbered
      <4>4. AtFront(c) # "whole" => ~InOnePiece(c, up[c][k].n)
        <5>1. up[c][1].n \in Nat /\ up[c][k].n \in Nat
          BY <1>1, <2>2, <4>1
        <5>2. QED
          BY <2>4, <4>2, <5>1, PieceShorter
      <4>5. AtFront(c) = "whole" => up'[c][i] = up[c][k]
        BY <2>1, <4>1
      <4>6. QED
        BY <4>2, <4>3, <4>4, <4>5
    <3>2. ASSUME NEW i \in 1 .. Len(up'[c]), NEW j \in 1 .. Len(up'[c]), i < j
          PROVE  /\ up'[c][i].n <= up'[c][j].n
                 /\ Begins(up'[c][j]) => up'[c][i].n < up'[c][j].n
      <4>1. PICK k \in 2 .. Len(up[c]), l \in 2 .. Len(up[c]) : k = i + d /\ l = j + d
        BY <2>3
      <4>2. k < l /\ up'[c][i].n = up[c][k].n /\ up'[c][j].n = up[c][l].n
        BY <2>1, <3>2, <4>1
      <4>3. Begins(up'[c][j]) => Begins(up[c][l])
        BY <2>1, <4>1 DEF Begins
      <4>4. QED
        BY <4>1, <4>2, <4>3 DEF Numbered
    <3>3. QED
      BY <1>2, <3>1, <3>2 DEF Numbered
  <2>6. Fitting(c)'
    <3>1. ASSUME NEW i \in 1 .. Len(up'[c]), Begins(up'[c][i])
          PROVE  /\ Beyond(c, up'[c][i].n)
                 /\ Readable(c) => up[c][1].n < up'[c][i].n
                 /\ InOnePiece(c, up'[c][i].n - 1) => up'[c][i].n = Turn(c)' + i
      <4>1. PICK k \in 2 .. Len(up[c]) : k = i + d
        BY <2>3
      <4>2. up'[c][i].n = up[c][k].n /\ Begins(up[c][k])
        BY <2>1, <3>1, <4>1 DEF Begins
      <4>3. Beyond(c, up[c][k].n) /\ (InOnePiece(c, up[c][k].n - 1) => up[c][k].n = Turn(c) + k)
        BY <4>1, <4>2 DEF Fitting
      <4>4. up[c][1].n < up[c][k].n
        <5>1. k \in 1 .. Len(up[c]) /\ 1 < k
          BY <1>1, <4>1
        <5>2. QED
          BY <2>2, <4>2, <5>1 DEF Numbered
      <4>5. CASE AtFront(c) = "whole"
        <5>1. Readable(c) /\ k = i + 1
          BY <2>1, <4>1, <4>5 DEF Readable
        <5>2. Turn(c)' = Len(handled[c]) + 1 /\ Turn(c) = Len(handled[c])
          BY <1>1, <1>6, <5>1
        <5>3. \A h \in Nat : (h + 1) + i = h + k
          BY <1>1, <4>1, <5>1
        <5>4. Turn(c)' + i = Turn(c) + k
          BY <1>1, <5>2, <5>3
        <5>5. QED
          BY <4>2, <4>3, <4>4, <5>1, <5>4
      <4>6. CASE AtFront(c) # "whole"
        <5>1. up[c][1].n <= up[c][k].n - 1 /\ up[c][k].n - 1 \in Nat
          BY <1>1, <2>2, <4>1, <4>4
        <5>2. ~InOnePiece(c, up[c][k].n - 1)
          BY <1>1, <2>2, <2>4, <4>6, <5>1, PieceShorter
        <5>3. QED
          BY <4>2, <4>3, <4>4, <5>2
      <4>7. QED
        BY <4>5, <4>6
    <3>2. QED
      BY <1>2, <3>1 DEF Fitting
  <2>7. Complete(c)'
    <3>1. CASE AtFront(c) = "whole"
      <4>1. Readable(c) /\ Len(up'[c]) = Len(up[c]) - 1
        BY <2>1, <3>1 DEF Readable
      <4>2. Turn(c)' = Len(handled[c]) + 1 /\ Turn(c) = Len(handled[c])
        BY <1>1, <1>6, <4>1
      <4>3. PICK a \in Nat, b \in Nat, h \in Nat :
              a = Len(up[c]) /\ b = Len(up'[c]) /\ h = Len(handled[c])
        BY <1>1
      <4>4. (h + 1) + b = h + a
        <5>1. Len(up'[c]) = Len(up[c]) - 1
          BY <4>1
        <5>2. b = a - 1
          BY <4>3, <5>1
        <5>3. QED
          BY <5>2
      <4>5. Turn(c)' + Len(up'[c]) = Turn(c) + Len(up[c])
        BY <4>2, <4>3, <4>4
      <4>6. QED
        BY <1>2, <4>5 DEF Complete
    <3>2. CASE AtFront(c) # "whole"
      <4>1. up[c][1].n \in Nat /\ up[c][1].n <= Len(sent[c])
        BY <1>1, <2>2 DEF Numbered
      <4>2. ~InOnePiece(c, Len(sent[c]))
        BY <1>1, <2>4, <3>2, <4>1, PieceShorter
      <4>3. QED
        BY <1>2, <4>2 DEF Complete
    <3>3. QED
      BY <3>1, <3>2
  <2>8. QED
    BY <1>7, <2>5, <2>6, <2>7
<1>10. QED
  BY <1>8, <1>9

(* So a poll keeps the order,                                              *)
LEMMA PollKeepsOrder ==
  ASSUME BusOK, BusOK', OrderInv, poll_requests PROVE OrderInv'
<1>1. /\ pending = <<>> /\ sent' = sent /\ handled' = handled /\ writing' = writing
      /\ conn' = [c \in Clients |-> IF IsSub(c) /\ ~Retained(c) THEN "dropped" ELSE conn[c]]
  BY DEF poll_requests, history
<1>2. \A c \in Clients : IF IsSub(c) THEN up'[c] \in Remainders(c) ELSE up'[c] = up[c]
  <2>1. PICK left \in [Clients -> UNION {Remainders(c) : c \in Clients}] :
          /\ \A c \in Clients : left[c] \in Remainders(c)
          /\ up' = [c \in Clients |-> IF IsSub(c) THEN left[c] ELSE up[c]]
    BY DEF poll_requests
  <2>2. QED
    BY <2>1
<1>3. \A c \in Clients : \A n \in Nat : ~Pends(c, n)
  BY <1>1 DEF Pends
<1>4. \A c \in Clients : IsSub(c) <=> conn[c] = "open"
  BY DEF BusOK, SubsOK
<1>5. \A c \in Clients : \A n \in Nat :
        Pends(c, n)' <=> IsSub(c) /\ Readable(c) /\ n = Head(up[c]).n
  BY PolledRequests DEF Pends
<1>6. OneEach'
  BY PolledRequests DEF OneEach
<1>7. ASSUME NEW c \in Clients, ~IsSub(c) PROVE InOrder(c)'
  <2>1. up'[c] = up[c] /\ conn'[c] = conn[c]
    BY <1>1, <1>2, <1>7
  <2>2. \A n \in Nat : Pends(c, n)' <=> Pends(c, n)
    BY <1>3, <1>5, <1>7
  <2>3. QED
    BY <1>1, <2>1, <2>2, Undisturbed DEF OrderInv, Connected
<1>8. ASSUME NEW c \in Clients, IsSub(c) PROVE InOrder(c)'
  <2>1. Past(c) /\ HeadOut(c) /\ Numbered(c) /\ Fitting(c) /\ Complete(c)
    BY <1>4, <1>8 DEF OrderInv, InOrder, Coming, Connected
  <2>2. Readable(c) => Head(up[c]) = up[c][1]
    <3>1. Readable(c) => up[c] # <<>>
      BY DEF Readable, AtFront
    <3>2. QED
      BY <3>1, Numbers
  <2>3. \A n \in Nat : Pends(c, n)' <=> Readable(c) /\ n = up[c][1].n
    BY <1>5, <1>8, <2>2
  <2>4. ~Waiting(c) /\ sent'[c] = sent[c] /\ handled'[c] = handled[c] /\ up'[c] \in Remainders(c)
    BY <1>1, <1>2, <1>3, <1>8 DEF Waiting
  <2>5. Present(c)' /\ Numbered(c)' /\ Fitting(c)' /\ Complete(c)'
    BY <2>1, <2>3, <2>4, PollKeepsStream
  <2>6. Past(c)' /\ HeadOut(c)'
    BY <1>1, <2>1 DEF Past, HeadOut, InOnePiece
  <2>7. Fresh(c)'
    BY <1>1, <1>4, <1>8 DEF Fresh
  <2>8. QED
    BY <2>5, <2>6, <2>7 DEF InOrder, Coming
<1>9. QED
  BY <1>6, <1>7, <1>8 DEF OrderInv

(* What is handled was the first of those polled, and of its client the    *)
(* only one.                                                               *)
LEMMA HandleKeepsOrder ==
  ASSUME BusOK, BusOK', OrderInv, NEW outcome, handle(outcome) PROVE OrderInv'
<1>0. PICK d \in Clients, m \in Nat : d = Head(pending).from /\ m = Head(pending).n
  <2>1. Head(pending) \in Requests
    BY DEF handle, BusOK, StreamsOK
  <2>2. QED
    BY <2>1 DEF Requests
<1>1. /\ pending \in Seq(Requests) /\ pending # <<>> /\ pending' = Tail(pending)
      /\ handled' = [handled EXCEPT ![d] = Append(@, m)]
      /\ sent' = sent /\ up' = up /\ writing' = writing /\ Answer(Head(pending), outcome)
  BY <1>0 DEF handle, BusOK, StreamsOK
<1>2. Head(pending) = pending[1] /\ pending[1] \in Requests /\ 1 \in 1 .. Len(pending)
  BY <1>1
<1>3. Pends(d, m)
  BY <1>0, <1>2 DEF Pends
<1>4. /\ Len(pending') = Len(pending) - 1
      /\ \A i \in 1 .. Len(pending') : i + 1 \in 1 .. Len(pending) /\ pending'[i] = pending[i + 1]
  BY <1>1
<1>5. \A i, j \in 1 .. Len(pending) : pending[i].from = pending[j].from => i = j
  BY DEF OrderInv, OneEach
<1>6. OneEach'
  <2>1. ASSUME NEW i \in 1 .. Len(pending'), NEW j \in 1 .. Len(pending'),
               pending'[i].from = pending'[j].from
        PROVE  i = j
    <3>1. i + 1 = j + 1
      BY <1>4, <1>5, <2>1
    <3>2. QED
      BY <3>1
  <2>2. QED
    BY <2>1 DEF OneEach
<1>7. \A n \in Nat : ~Pends(d, n)' /\ (Pends(d, n) => n = m)
  <2>1. \A i \in 1 .. Len(pending) : pending[i].from = d => i = 1
    BY <1>0, <1>2, <1>5
  <2>2. \A i \in 1 .. Len(pending') : pending'[i].from # d
    <3>1. ASSUME NEW i \in 1 .. Len(pending'), pending'[i].from = d PROVE FALSE
      <4>1. i + 1 = 1
        BY <1>4, <2>1, <3>1
      <4>2. QED
        BY <4>1
    <3>2. QED
      BY <3>1
  <2>3. QED
    BY <1>0, <1>2, <2>1, <2>2 DEF Pends
<1>8. \A c \in Clients : c # d => \A n \in Nat : Pends(c, n)' <=> Pends(c, n)
  <2>1. ASSUME NEW c \in Clients, c # d, NEW n \in Nat PROVE Pends(c, n)' <=> Pends(c, n)
    <3>1. Pends(c, n)' => Pends(c, n)
      BY <1>4 DEF Pends
    <3>2. ASSUME Pends(c, n) PROVE Pends(c, n)'
      <4>1. PICK i \in 1 .. Len(pending) : pending[i].from = c /\ pending[i].n = n
        BY <3>2 DEF Pends
      <4>2. i # 1
        BY <1>0, <1>2, <2>1, <4>1
      <4>3. PICK k \in 1 .. Len(pending') : k + 1 = i
        <5>1. i - 1 \in 1 .. Len(pending') /\ (i - 1) + 1 = i
          BY <1>1, <1>4, <4>2
        <5>2. QED
          BY <5>1
      <4>4. pending'[k] = pending[i]
        BY <1>4, <4>3
      <4>5. QED
        BY <4>1, <4>4 DEF Pends
    <3>3. QED
      BY <3>1, <3>2
  <2>2. QED
    BY <2>1
<1>9. \A c \in Clients : conn'[c] \in {conn[c], "dropped"}
  BY <1>1 DEF Answer, publish_event, publish_too_large, BusOK, ConnOK
<1>10. \A c \in Clients : Connected(c)' => Connected(c)
  BY <1>9 DEF Connected
<1>11. ASSUME NEW c \in Clients, c # d PROVE InOrder(c)'
  <2>1. handled'[c] = handled[c]
    BY <1>1, <1>11 DEF BusOK, HistoryOK
  <2>2. QED
    BY <1>1, <1>8, <1>9, <1>10, <1>11, <2>1, Undisturbed DEF OrderInv
<1>12. InOrder(d)'
  <2>1. InOrder(d) /\ Follows(d, m)
    BY <1>3 DEF OrderInv, InOrder, Present
  <2>2. /\ Len(handled[d]) \in Nat /\ handled[d] \in Seq(Nat) /\ Len(sent[d]) \in Nat
        /\ \A i \in 1 .. Len(up[d]) : up[d][i].n \in Nat
    BY <1>3, Numbers
  <2>3. handled'[d] = Append(handled[d], m)
    BY <1>1, <1>3 DEF BusOK, HistoryOK
  <2>4. /\ Len(handled'[d]) = Len(handled[d]) + 1 /\ handled'[d][Len(handled[d]) + 1] = m
        /\ \A i \in 1 .. Len(handled[d]) : handled'[d][i] = handled[d][i]
    BY <1>3, <2>2, <2>3
  <2>5. \A n : InOnePiece(d, n)' <=> InOnePiece(d, n)
    BY <1>1 DEF InOnePiece
  <2>6. Waiting(d) /\ ~Waiting(d)'
    BY <1>3, <1>7 DEF Waiting
  <2>7. Turn(d)' = Turn(d)
    BY <2>4, <2>6 DEF Turn
  <2>8. \A n : Beyond(d, n) /\ m < n => Beyond(d, n)'
    <3>1. ASSUME NEW n, Beyond(d, n), m < n, NEW i \in 1 .. Len(handled'[d])
          PROVE  handled'[d][i] < n
      <4>1. i \in 1 .. Len(handled[d]) \/ i = Len(handled[d]) + 1
        BY <2>2, <2>4
      <4>2. QED
        BY <2>4, <3>1, <4>1 DEF Beyond
    <3>2. QED
      BY <3>1 DEF Beyond
  <2>9. Past(d)'
    <3>1. ASSUME NEW i \in 1 .. Len(handled'[d])
          PROVE  /\ handled'[d][i] \in 1 .. Len(sent[d])
                 /\ InOnePiece(d, handled'[d][i] - 1) => handled'[d][i] = i
      <4>1. CASE i \in 1 .. Len(handled[d])
        BY <2>1, <2>4, <4>1 DEF InOrder, Past
      <4>2. CASE i = Len(handled[d]) + 1
        BY <2>1, <2>4, <4>2 DEF Follows
      <4>3. QED
        BY <2>2, <2>4, <4>1, <4>2
    <3>2. ASSUME NEW i \in 1 .. Len(handled'[d]), NEW j \in 1 .. Len(handled'[d]), i < j
          PROVE  handled'[d][i] < handled'[d][j]
      <4>1. i \in 1 .. Len(handled[d])
        BY <2>2, <2>4, <3>2
      <4>2. CASE j \in 1 .. Len(handled[d])
        BY <2>1, <2>4, <3>2, <4>1, <4>2 DEF InOrder, Past
      <4>3. CASE j = Len(handled[d]) + 1
        BY <2>1, <2>4, <4>1, <4>3 DEF Follows, Beyond
      <4>4. QED
        BY <2>2, <2>4, <4>2, <4>3
    <3>3. QED
      BY <1>1, <2>5, <3>1, <3>2 DEF Past
  <2>10. Present(d)'
    BY <1>7 DEF Present
  <2>11. ASSUME Connected(d)' PROVE Numbered(d)' /\ Fitting(d)' /\ Complete(d)'
    <3>1. Numbered(d) /\ Fitting(d) /\ Complete(d)
      BY <1>3, <1>10, <2>1, <2>11 DEF InOrder, Coming
    <3>2. Numbered(d)'
      BY <1>1, <2>5, <3>1 DEF Numbered
    <3>3. Fitting(d)'
      <4>1. ASSUME NEW i \in 1 .. Len(up[d]), Begins(up[d][i])
            PROVE  /\ Beyond(d, up[d][i].n)'
                   /\ InOnePiece(d, up[d][i].n - 1) => up[d][i].n = Turn(d)' + i
        <5>1. Beyond(d, up[d][i].n) /\ m < up[d][i].n
          BY <1>3, <3>1, <4>1 DEF Fitting
        <5>2. up'[d][i].n = up[d][i].n
          BY <1>1
        <5>3. Beyond(d, up[d][i].n)'
          BY <2>8, <5>1, <5>2
        <5>4. QED
          BY <2>7, <3>1, <4>1, <5>3 DEF Fitting
      <4>2. QED
        BY <1>1, <1>7, <2>5, <4>1 DEF Fitting
    <3>4. Complete(d)'
      BY <1>1, <2>5, <2>7, <3>1 DEF Complete
    <3>5. QED
      BY <3>2, <3>3, <3>4
  <2>12. HeadOut(d)'
    BY <1>1, <2>1, <2>5 DEF InOrder, HeadOut
  <2>13. Fresh(d)'
    <3>1. conn'[d] # "none"
      BY <1>3, <1>9, <2>1, <2>6 DEF InOrder, Fresh
    <3>2. QED
      BY <3>1 DEF Fresh
  <2>14. QED
    BY <2>9, <2>10, <2>11, <2>12, <2>13 DEF InOrder, Coming
<1>13. QED
  BY <1>6, <1>11, <1>12 DEF OrderInv

(* The frames of a stream to which one is appended.                        *)
LEMMA OneMore ==
  ASSUME BusOK, NEW c \in Clients, NEW f, up'[c] = Append(up[c], f)
  PROVE  /\ Len(up'[c]) = Len(up[c]) + 1 /\ up'[c][Len(up[c]) + 1] = f
         /\ \A i \in 1 .. Len(up[c]) : up'[c][i] = up[c][i]
<1>1. up[c] \in Seq(UpFrame \cup {f})
  BY DEF BusOK, StreamsOK
<1>2. QED
  BY <1>1

(* A new request has the highest number, and stands last.                  *)
LEMMA SendKeepsOrder ==
  ASSUME BusOK, OrderInv, NEW c \in Clients, Asking(c) PROVE OrderInv'
<1>1. PICK part \in {"whole", "head"} : send_request(c, part)
  BY DEF Asking
<1>2. PICK n \in Nat : n = Len(sent[c]) + 1
  BY Numbers
<1>3. /\ Connected(c) /\ conn' = conn /\ pending' = pending /\ handled' = handled
      /\ sent' = [sent EXCEPT ![c] = Append(@, part)]
      /\ writing' = [writing EXCEPT ![c] = part = "head"]
      /\ up' = [up EXCEPT ![c] = Append(@, [n |-> n, part |-> part])]
  BY <1>1, <1>2 DEF send_request, Enqueue
<1>4. OneEach'
  BY <1>3 DEF OrderInv, OneEach
<1>5. \A d, k : Pends(d, k)' <=> Pends(d, k)
  BY <1>3 DEF Pends
<1>6. ASSUME NEW d \in Clients, d # c PROVE InOrder(d)'
  <2>1. sent'[d] = sent[d] /\ up'[d] = up[d] /\ writing'[d] = writing[d]
    BY <1>3, <1>6 DEF BusOK, ConnOK, StreamsOK, HistoryOK
  <2>2. QED
    BY <1>3, <1>5, <2>1, Undisturbed DEF OrderInv, Connected
<1>7. InOrder(c)'
  <2>1. Past(c) /\ Present(c) /\ Numbered(c) /\ Fitting(c) /\ Complete(c)
    BY <1>3 DEF OrderInv, InOrder, Coming
  <2>2. sent'[c] = Append(sent[c], part) /\ writing'[c] = (part = "head")
    BY <1>3 DEF BusOK, ConnOK, HistoryOK
  <2>3. /\ Len(sent'[c]) = n /\ sent'[c][n] = part /\ n - 1 = Len(sent[c])
        /\ \A i \in 1 .. n - 1 : sent'[c][i] = sent[c][i]
    BY <1>2, <2>2, Numbers
  <2>4. \A k \in Int : k < n => (InOnePiece(c, k)' <=> InOnePiece(c, k))
    BY <2>3 DEF InOnePiece
  <2>5. part = "head" => ~InOnePiece(c, n)'
    <3>1. n \in 1 .. n
      BY <1>2, Numbers
    <3>2. QED
      BY <2>3, <3>1 DEF InOnePiece
  <2>6. /\ Len(up[c]) \in Nat /\ Len(handled[c]) \in Nat /\ Turn(c) \in Nat
        /\ \A i \in 1 .. Len(handled[c]) : handled[c][i] \in Nat
        /\ \A i \in 1 .. Len(up[c]) : up[c][i].n \in Nat
    BY Numbers
  <2>7. Past(c)'
    <3>1. \A i \in 1 .. Len(handled[c]) :
            handled[c][i] \in 1 .. n /\ (InOnePiece(c, handled[c][i] - 1)' => handled[c][i] = i)
      <4>1. ASSUME NEW i \in 1 .. Len(handled[c]), NEW k, k = handled[c][i]
            PROVE  k \in 1 .. n /\ (InOnePiece(c, k - 1)' => k = i)
        <5>1. k \in 1 .. Len(sent[c]) /\ (InOnePiece(c, k - 1) => k = i)
          BY <2>1, <4>1 DEF Past
        <5>2. k - 1 \in Int /\ k - 1 < n /\ k \in 1 .. n
          BY <2>3, <5>1, Numbers
        <5>3. QED
          BY <2>4, <5>1, <5>2
      <4>2. QED
        BY <1>3, <4>1
    <3>2. QED
      BY <1>3, <2>1, <2>3, <3>1 DEF Past
  <2>8. Present(c)'
    <3>1. ASSUME NEW k \in Nat, Follows(c, k) PROVE Follows(c, k)'
      <4>1. k \in 1 .. n /\ Beyond(c, k)' /\ (InOnePiece(c, k - 1)' => k = Len(handled[c]) + 1)
        BY <1>3, <2>3, <2>4, <3>1 DEF Follows, Beyond
      <4>2. QED
        BY <1>3, <2>3, <4>1 DEF Follows
    <3>2. QED
      BY <1>5, <2>1, <3>1 DEF Present
  <2>9. up'[c] = Append(up[c], [n |-> n, part |-> part])
    BY <1>3 DEF BusOK, StreamsOK
  <2>10. /\ Len(up'[c]) = Len(up[c]) + 1
         /\ up'[c][Len(up[c]) + 1].n = n /\ up'[c][Len(up[c]) + 1].part = part
         /\ \A i \in 1 .. Len(up[c]) : up'[c][i] = up[c][i]
    BY <2>9, OneMore
  <2>11. PICK l \in Nat : l = Len(up[c])
    BY <2>6
  <2>12. \A i \in 1 .. Len(up'[c]) : i \in 1 .. l \/ i = l + 1
    BY <2>10, <2>11
  <2>13. Turn(c)' = Turn(c)
    BY <1>3, <1>5 DEF Turn, Waiting
  <2>14. Numbered(c)'
    <3>1. ASSUME NEW i \in 1 .. Len(up'[c])
          PROVE  /\ up'[c][i].n \in 1 .. n
                 /\ up'[c][i].part # "whole" => ~InOnePiece(c, up[c][i].n)'
      <4>1. CASE i \in 1 .. l
        <5>1. PICK k \in Nat : k = up[c][i].n
          BY <2>6, <2>11, <4>1
        <5>2. k \in 1 .. Len(sent[c]) /\ (up[c][i].part # "whole" => ~InOnePiece(c, k))
          BY <2>1, <2>11, <4>1, <5>1 DEF Numbered
        <5>3. up'[c][i] = up[c][i] /\ k \in 1 .. n /\ k < n
          BY <2>3, <2>10, <2>11, <4>1, <5>2, Numbers
        <5>4. QED
          BY <2>4, <5>1, <5>2, <5>3
      <4>2. CASE i = l + 1
        <5>1. up'[c][i].n = n /\ up'[c][i].part = part
          BY <2>10, <2>11, <4>2
        <5>2. n \in 1 .. n
          BY <1>2, Numbers
        <5>3. QED
          BY <2>5, <5>1, <5>2
      <4>3. QED
        BY <2>12, <4>1, <4>2
    <3>2. ASSUME NEW i \in 1 .. Len(up'[c]), NEW j \in 1 .. Len(up'[c]), i < j
          PROVE  /\ up'[c][i].n <= up'[c][j].n
                 /\ Begins(up'[c][j]) => up'[c][i].n < up'[c][j].n
      <4>1. i \in 1 .. l
        BY <2>10, <2>11, <3>2
      <4>2. CASE j \in 1 .. l
        <5>1. up'[c][i] = up[c][i] /\ up'[c][j] = up[c][j]
          BY <2>10, <2>11, <4>1, <4>2
        <5>2. QED
          BY <2>1, <2>11, <3>2, <4>1, <4>2, <5>1 DEF Numbered
      <4>3. CASE j = l + 1
        <5>1. up'[c][i] = up[c][i] /\ up'[c][j].n = n
          BY <2>10, <2>11, <4>1, <4>3
        <5>2. up[c][i].n \in 1 .. Len(sent[c])
          BY <2>1, <2>11, <4>1 DEF Numbered
        <5>3. up[c][i].n < n
          BY <2>3, <5>2, Numbers
        <5>4. QED
          BY <2>6, <2>11, <4>1, <5>1, <5>3
      <4>4. QED
        BY <2>12, <4>2, <4>3
    <3>3. \A i \in 1 .. Len(up'[c]) : up'[c][i].n \in 1 .. Len(sent'[c])
      BY <2>3, <3>1
    <3>4. QED
      BY <3>1, <3>2, <3>3 DEF Numbered
  <2>15. Fitting(c)'
    <3>1. ASSUME NEW i \in 1 .. Len(up'[c]), Begins(up'[c][i])
          PROVE  /\ Beyond(c, up'[c][i].n)
                 /\ \A k \in Nat : Pends(c, k) => k < up'[c][i].n
                 /\ InOnePiece(c, up[c][i].n - 1)' => up'[c][i].n = Turn(c) + i
      <4>1. CASE i \in 1 .. l
        <5>1. PICK k \in Nat : k = up[c][i].n
          BY <2>6, <2>11, <4>1
        <5>2. up'[c][i] = up[c][i] /\ i \in 1 .. Len(up[c]) /\ up'[c][i].n = k
          BY <2>10, <2>11, <4>1, <5>1
        <5>3. /\ Beyond(c, k) /\ \A j \in Nat : Pends(c, j) => j < k
              /\ InOnePiece(c, k - 1) => k = Turn(c) + i
          BY <2>1, <3>1, <5>1, <5>2 DEF Fitting
        <5>4. k \in 1 .. Len(sent[c])
          BY <2>1, <5>1, <5>2 DEF Numbered
        <5>5. k - 1 < n /\ k - 1 \in Int
          BY <2>3, <5>4, Numbers
        <5>6. InOnePiece(c, k - 1)' => InOnePiece(c, k - 1)
          BY <2>4, <5>5
        <5>7. QED
          BY <5>2, <5>3, <5>6
      <4>2. CASE i = l + 1
        <5>1. up'[c][i].n = n
          BY <2>10, <2>11, <4>2
        <5>2. Beyond(c, n)
          BY <2>1, <2>3, <2>6 DEF Past, Beyond
        <5>3. \A k \in Nat : Pends(c, k) => k < n
          BY <2>1, <2>3 DEF Present, Follows
        <5>4. InOnePiece(c, n - 1)' => n - 1 = Turn(c) + l
          BY <2>1, <2>3, <2>4, <2>11 DEF Complete
        <5>5. n - 1 = Turn(c) + l => n = Turn(c) + i
          BY <2>6, <4>2
        <5>6. QED
          BY <5>1, <5>2, <5>3, <5>4, <5>5
      <4>3. QED
        BY <2>12, <4>1, <4>2
    <3>2. \A k : Beyond(c, k)' <=> Beyond(c, k)
      BY <1>3 DEF Beyond
    <3>3. QED
      BY <1>5, <2>13, <3>1, <3>2 DEF Fitting
  <2>16. Complete(c)'
    <3>1. InOnePiece(c, Len(sent[c]))' => InOnePiece(c, n - 1)
      BY <2>3 DEF InOnePiece
    <3>2. InOnePiece(c, n - 1) => n - 1 = Turn(c) + l
      BY <2>1, <2>3, <2>11 DEF Complete
    <3>3. n - 1 = Turn(c) + l => n = Turn(c) + (l + 1)
      BY <2>6
    <3>4. Len(up'[c]) = l + 1
      BY <2>10, <2>11
    <3>5. ASSUME InOnePiece(c, Len(sent[c]))' PROVE Len(sent'[c]) = Turn(c)' + Len(up'[c])
      <4>1. n = Turn(c) + (l + 1)
        BY <3>1, <3>2, <3>3, <3>5
      <4>2. QED
        BY <2>3, <2>13, <3>4, <4>1
    <3>6. QED
      BY <3>5 DEF Complete
  <2>17. HeadOut(c)'
    <3>1. part = "head" => ~InOnePiece(c, Len(sent[c]))'
      <4>1. n \in 1 .. n
        BY <1>2, Numbers
      <4>2. QED
        BY <2>3, <4>1 DEF InOnePiece
    <3>2. Len(sent'[c]) > 0
      BY <1>2, <2>3, Numbers
    <3>3. QED
      BY <2>2, <3>1, <3>2 DEF HeadOut
  <2>18. Fresh(c)'
    BY <1>3 DEF Connected, Fresh
  <2>19. QED
    BY <2>7, <2>8, <2>14, <2>15, <2>16, <2>17, <2>18 DEF InOrder, Coming
<1>8. QED
  BY <1>4, <1>6, <1>7 DEF OrderInv

(* The rest of a request has the number of its head, and begins nothing.   *)
LEMMA RestKeepsOrder ==
  ASSUME BusOK, OrderInv, NEW c \in Clients, Rest(c) PROVE OrderInv'
<1>1. PICK part \in {"tail", "scrap"} : send_rest(c, part)
  BY DEF Rest
<1>2. PICK n \in Nat : n = Len(sent[c])
  BY Numbers
<1>3. /\ writing[c] /\ conn' = conn /\ pending' = pending /\ handled' = handled /\ sent' = sent
      /\ writing' = [writing EXCEPT ![c] = FALSE]
      /\ up' = IF Connected(c) THEN [up EXCEPT ![c] = Append(@, [n |-> n, part |-> part])] ELSE up
  BY <1>1, <1>2 DEF send_rest, Enqueue, history
<1>4. OneEach'
  BY <1>3 DEF OrderInv, OneEach
<1>5. /\ \A d, k : Pends(d, k)' <=> Pends(d, k)
      /\ \A d \in Clients : writing'[d] => writing[d]
  BY <1>3 DEF Pends, BusOK, ConnOK
<1>6. ASSUME NEW d \in Clients, d # c \/ ~Connected(c) PROVE InOrder(d)'
  <2>1. up'[d] = up[d]
    BY <1>3, <1>6 DEF BusOK, StreamsOK
  <2>2. QED
    BY <1>3, <1>5, <2>1, Undisturbed DEF OrderInv, Connected
<1>7. ASSUME Connected(c) PROVE InOrder(c)'
  <2>1. /\ Past(c) /\ Present(c) /\ Numbered(c) /\ Fitting(c) /\ Complete(c)
        /\ ~InOnePiece(c, n) /\ n > 0
    BY <1>2, <1>3, <1>7 DEF OrderInv, InOrder, Coming, HeadOut
  <2>2. \A k : (InOnePiece(c, k)' <=> InOnePiece(c, k)) /\ (Beyond(c, k)' <=> Beyond(c, k))
    BY <1>3 DEF InOnePiece, Beyond
  <2>3. Past(c)' /\ Present(c)'
    BY <1>3, <1>5, <2>1, <2>2 DEF Past, Present, Follows
  <2>4. up'[c] = Append(up[c], [n |-> n, part |-> part])
    BY <1>3, <1>7 DEF BusOK, StreamsOK
  <2>5. /\ Len(up'[c]) = Len(up[c]) + 1
        /\ up'[c][Len(up[c]) + 1].n = n /\ up'[c][Len(up[c]) + 1].part = part
        /\ \A i \in 1 .. Len(up[c]) : up'[c][i] = up[c][i]
    BY <2>4, OneMore
  <2>6. PICK l \in Nat : l = Len(up[c])
    BY Numbers
  <2>7. \A i \in 1 .. Len(up'[c]) : i \in 1 .. l \/ i = l + 1
    BY <2>5, <2>6
  <2>8. Turn(c)' = Turn(c)
    BY <1>3, <1>5 DEF Turn, Waiting
  <2>9. Numbered(c)'
    <3>1. \A i \in 1 .. l : up'[c][i] = up[c][i] /\ up[c][i].n \in 1 .. n
      BY <1>2, <2>1, <2>5, <2>6 DEF Numbered
    <3>2. up'[c][l + 1].n = n /\ up'[c][l + 1].part = part /\ ~Begins(up'[c][l + 1])
      BY <2>5, <2>6 DEF Begins
    <3>3. ASSUME NEW i \in 1 .. Len(up'[c])
          PROVE  /\ up'[c][i].n \in 1 .. Len(sent[c])
                 /\ up'[c][i].part # "whole" => ~InOnePiece(c, up'[c][i].n)
      <4>1. CASE i \in 1 .. l
        BY <2>1, <2>6, <3>1, <4>1 DEF Numbered
      <4>2. CASE i = l + 1
        BY <1>2, <2>1, <3>2, <4>2
      <4>3. QED
        BY <2>7, <4>1, <4>2
    <3>4. ASSUME NEW i \in 1 .. Len(up'[c]), NEW j \in 1 .. Len(up'[c]), i < j
          PROVE  /\ up'[c][i].n <= up'[c][j].n
                 /\ Begins(up'[c][j]) => up'[c][i].n < up'[c][j].n
      <4>1. i \in 1 .. l
        BY <2>5, <2>6, <3>4
      <4>2. CASE j \in 1 .. l
        BY <2>1, <2>6, <3>1, <3>4, <4>1, <4>2 DEF Numbered
      <4>3. CASE j = l + 1
        BY <3>1, <3>2, <4>1, <4>3
      <4>4. QED
        BY <2>7, <4>2, <4>3
    <3>5. QED
      BY <1>3, <2>2, <3>3, <3>4 DEF Numbered
  <2>10. Fitting(c)'
    <3>1. ASSUME NEW i \in 1 .. Len(up'[c]), Begins(up'[c][i])
          PROVE  i \in 1 .. Len(up[c]) /\ up'[c][i] = up[c][i]
      <4>1. i # l + 1
        BY <2>5, <2>6, <3>1 DEF Begins
      <4>2. QED
        BY <2>5, <2>6, <2>7, <4>1
    <3>2. QED
      BY <1>5, <2>1, <2>2, <2>8, <3>1 DEF Fitting
  <2>11. Complete(c)' /\ HeadOut(c)'
    BY <1>2, <1>3, <2>1, <2>2 DEF Complete, HeadOut
  <2>12. Fresh(c)'
    BY <1>3, <1>7 DEF Connected, Fresh
  <2>13. QED
    BY <2>3, <2>9, <2>10, <2>11, <2>12 DEF InOrder, Coming
<1>8. QED
  BY <1>4, <1>6, <1>7 DEF OrderInv

(* The other steps take nothing out of a stream and put nothing into it.   *)
LEMMA OthersKeepOrder ==
  ASSUME BusOK, OrderInv,
         \/ bind
         \/ \E n \in Nat : announce(n)
         \/ \E c \in Clients : \/ poll_connections(c) \/ connect(c) \/ give_up(c)
                               \/ read_event(c) \/ hang_up(c)
         \/ UNCHANGED busVars
  PROVE  OrderInv'
<1> USE DEF history
<1>1. /\ sent' = sent /\ handled' = handled /\ up' = up /\ pending' = pending
      /\ \A c \in Clients : writing'[c] => writing[c]
  BY DEF bind, announce, poll_connections, connect, give_up, read_event, hang_up, busVars,
         BusOK, ConnOK
<1>2. \A c, n : Pends(c, n)' <=> Pends(c, n)
  BY <1>1 DEF Pends
<1>3. ASSUME NEW c \in Clients PROVE InOrder(c)'
  <2>1. CASE (Connected(c)' => Connected(c)) /\ (conn'[c] = "none" => conn[c] = "none")
    BY <1>1, <1>2, <2>1, Undisturbed DEF OrderInv
  <2>2. CASE connect(c)
    <3>1. conn[c] = "none" /\ conn'[c] # "none"
      BY <2>2 DEF connect, BusOK, ConnOK
    <3>2. InOrder(c) /\ sent[c] = <<>> /\ handled[c] = <<>> /\ up[c] = <<>> /\ ~Waiting(c)
      BY <3>1 DEF OrderInv, InOrder, Fresh
    <3>3. \A n : (InOnePiece(c, n)' <=> InOnePiece(c, n)) /\ (Beyond(c, n)' <=> Beyond(c, n))
      BY <1>1 DEF InOnePiece, Beyond
    <3>4. Past(c)' /\ Present(c)' /\ HeadOut(c)' /\ Fresh(c)'
      BY <1>1, <1>2, <3>1, <3>2, <3>3 DEF InOrder, Past, Present, Follows, HeadOut, Fresh
    <3>5. Numbered(c)' /\ Fitting(c)'
      BY <1>1, <3>2 DEF Numbered, Fitting
    <3>6. Complete(c)'
      <4>1. ~Waiting(c)'
        BY <1>2, <3>2 DEF Waiting
      <4>2. Turn(c)' = 0
        BY <1>1, <3>2, <4>1 DEF Turn
      <4>3. QED
        BY <1>1, <3>2, <4>2 DEF Complete
    <3>7. QED
      BY <3>4, <3>5, <3>6 DEF InOrder, Coming
  <2>3. CASE ~connect(c)
    <3>1. /\ Connected(c)' => Connected(c)
          /\ conn'[c] = "none" => conn[c] = "none"
      <4>1. CASE conn'[c] = conn[c]
        BY <4>1 DEF Connected
      <4>2. CASE \E n \in Nat : announce(n)
        BY <4>2 DEF announce, publish_event, Connected, BusOK, ConnOK
      <4>3. CASE \E d \in Clients : poll_connections(d)
        BY <4>3 DEF poll_connections, Connected, BusOK, ConnOK
      <4>4. CASE \E d \in Clients \ {c} : connect(d)
        BY <4>4 DEF connect, Connected, BusOK, ConnOK
      <4>5. CASE UNCHANGED conn
        BY <4>1, <4>5
      <4>6. QED
        BY <2>3, <4>2, <4>3, <4>4, <4>5 DEF bind, give_up, read_event, hang_up, busVars
    <3>2. QED
      BY <2>1, <3>1
  <2>4. QED
    BY <2>2, <2>3
<1>4. OneEach'
  BY <1>1 DEF OrderInv, OneEach
<1>5. QED
  BY <1>3, <1>4 DEF OrderInv

(* A server that closes forgets what it has polled, and keeps no stream.   *)
LEMMA CloseKeepsOrder ==
  ASSUME BusOK, OrderInv, NEW s, Close(s) PROVE OrderInv'
<1>1. /\ sent' = sent /\ handled' = handled /\ up' = up /\ pending' = <<>> /\ writing' = writing
      /\ conn' = [c \in Clients |->
           CASE conn[c] = "open" -> "dropped" [] conn[c] = "backlog" -> "refused" [] OTHER -> conn[c]]
  BY DEF Close, history
<1>2. OneEach' /\ \A c, n : ~Pends(c, n)'
  BY <1>1 DEF OneEach, Pends
<1>3. \A c \in Clients : ~Connected(c)' /\ (conn'[c] = "none" => conn[c] = "none")
  BY <1>1 DEF Connected, BusOK, ConnOK
<1>4. ASSUME NEW c \in Clients PROVE InOrder(c)'
  <2>1. InOrder(c)
    BY DEF OrderInv
  <2>2. \A n : InOnePiece(c, n)' <=> InOnePiece(c, n)
    BY <1>1 DEF InOnePiece
  <2>3. Past(c)' /\ HeadOut(c)'
    BY <1>1, <2>1, <2>2 DEF InOrder, Past, HeadOut
  <2>4. Present(c)' /\ Coming(c)'
    BY <1>2, <1>3 DEF Present, Coming
  <2>5. Fresh(c)'
    BY <1>1, <1>2, <1>3, <2>1 DEF InOrder, Fresh, Waiting
  <2>6. QED
    BY <2>3, <2>4, <2>5 DEF InOrder
<1>5. QED
  BY <1>2, <1>4 DEF OrderInv

(* Every step of the bus keeps the order,                                  *)
LEMMA StepKeepsOrder ==
  ASSUME BusOK, BusOK', OrderInv, BusStep \/ UNCHANGED busVars PROVE OrderInv'
<1>1. CASE poll_requests
  BY <1>1, PollKeepsOrder
<1>2. CASE HandleOne
  BY <1>2, HandleKeepsOrder DEF HandleOne
<1>3. CASE \E s \in {"unbound", "gone"} : Close(s)
  BY <1>3, CloseKeepsOrder
<1>4. CASE \E c \in Clients : Asking(c)
  BY <1>4, SendKeepsOrder
<1>5. CASE \E c \in Clients : Rest(c)
  BY <1>5, RestKeepsOrder
<1>6. QED
  BY <1>1, <1>2, <1>3, <1>4, <1>5, OthersKeepOrder DEF BusStep

(* which holds where there is nothing in any stream,                       *)
LEMMA BusStartsInOrder == BusInit => OrderInv
<1> SUFFICES ASSUME BusInit PROVE OrderInv
  OBVIOUS
<1>1. pending = <<>> /\ \A c, n : ~Pends(c, n)
  BY DEF BusInit, Pends
<1>2. ASSUME NEW c \in Clients PROVE InOrder(c)
  <2>1. /\ conn[c] = "none" /\ ~writing[c]
        /\ sent[c] = <<>> /\ handled[c] = <<>> /\ up[c] = <<>>
    BY DEF BusInit
  <2>2. Past(c) /\ Present(c) /\ HeadOut(c) /\ Fresh(c)
    BY <1>1, <2>1 DEF Past, Present, HeadOut, Fresh, Waiting
  <2>3. Coming(c)
    BY <2>1 DEF Coming, Connected
  <2>4. QED
    BY <2>2, <2>3 DEF InOrder
<1>3. QED
  BY <1>1, <1>2 DEF OrderInv, OneEach

(* and says what is wanted of the requests handled.                        *)
LEMMA OrderInvInOrder == BusOK /\ OrderInv => RequestsInOrder
<1> SUFFICES ASSUME BusOK, OrderInv, NEW c \in Clients, NEW i \in DOMAIN handled[c]
             PROVE  /\ handled[c][i] \in DOMAIN sent[c]
                    /\ i > 1 => handled[c][i - 1] < handled[c][i]
                    /\ InOnePiece(c, handled[c][i] - 1) => handled[c][i] = i
  BY DEF RequestsInOrder
<1>1. /\ Len(handled[c]) \in Nat /\ DOMAIN handled[c] = 1 .. Len(handled[c])
      /\ DOMAIN sent[c] = 1 .. Len(sent[c])
  BY Numbers
<1>2. Past(c)
  BY DEF OrderInv, InOrder
<1>3. i > 1 => i - 1 \in 1 .. Len(handled[c]) /\ i - 1 < i
  BY <1>1
<1>4. QED
  BY <1>1, <1>2, <1>3 DEF Past

(* So the requests are in order in every state of a bus.                   *)
LEMMA BusKeepsOrder == Spec => []OrderInv
<1>1. BusOK /\ BusOK' /\ OrderInv /\ [Next]_busVars => OrderInv'
  BY BusNextSteps, StepKeepsOrder
<1>2. QED
  BY <1>1, BusStartsInOrder, BusTypes, PTL DEF Spec

(* EventBus.RequestsInOrder, whatever the clients write and give up in the *)
(* middle: no request is handled twice, before an earlier one, or made up, *)
(* and none is left out before the first that was written in pieces.       *)
THEOREM RequestsHandledInOrder == Spec => []RequestsInOrder
  BY BusTypes, BusKeepsOrder, OrderInvInOrder, PTL

-----------------------------------------------------------------------------
(* The events.  What a client has read, and then what is on its way, are   *)
(* the events published since its accept, place by place; to the last one, *)
(* as long as it is subscribed and there.                                  *)

Delivered(c) ==
  /\ first[c] + Len(got[c]) + Len(down[c]) <= Len(published)
  /\ \A i \in 1 .. Len(got[c]) : got[c][i] = published[first[c] + i]
  /\ \A i \in 1 .. Len(down[c]) : down[c][i].e = published[first[c] + Len(got[c]) + i]
  /\ \A i \in 1 .. Len(down[c]) : down[c][i].part = "head" => i = Len(down[c]) /\ ~IsSub(c)
  /\ IsSub(c) /\ peer[c] => first[c] + Len(got[c]) + Len(down[c]) = Len(published)
  /\ conn[c] \in {"none", "refused", "backlog"} => got[c] = <<>> /\ down[c] = <<>>

EventInv == \A c \in Clients : Delivered(c)

(* A client of which a step takes no event.                                *)
LEMMA DeliveredKept ==
  ASSUME NEW c \in Clients, Delivered(c),
         published' = published, first'[c] = first[c], got'[c] = got[c], down'[c] = down[c],
         IsSub(c)' => IsSub(c), IsSub(c)' /\ peer'[c] => peer[c],
         conn'[c] \in {"none", "refused", "backlog"} => conn[c] \in {"none", "refused", "backlog"}
  PROVE  Delivered(c)'
  BY DEF Delivered

(* A publication is the next event of every client that is subscribed and  *)
(* there; the one it cannot write whole to is not subscribed any more.     *)
LEMMA PublishDelivers ==
  ASSUME BusOK, BusOK', EventInv, NEW e \in Events, publish_event(e),
         UNCHANGED <<peer, first, got>>
  PROVE  EventInv'
<1> SUFFICES ASSUME NEW c \in Clients PROVE Delivered(c)'
  BY DEF EventInv
<1>1. Delivered(c)
  BY DEF EventInv
<1>2. /\ published \in Seq(Events) /\ Len(published) \in Nat /\ published' = Append(published, e)
      /\ first[c] \in Nat /\ got[c] \in Seq(Events) /\ Len(got[c]) \in Nat
      /\ down[c] \in Seq(DownFrame) /\ Len(down[c]) \in Nat
  BY DEF publish_event, BusOK, StreamsOK, HistoryOK
<1>14. first[c] \in Nat /\ Len(got[c]) \in Nat /\ Len(down[c]) \in Nat /\ Len(published) \in Nat
  BY <1>2
<1>15. first[c] + Len(got[c]) + Len(down[c]) <= Len(published)
  BY <1>1 DEF Delivered
<1>3. /\ Len(published') = Len(published) + 1 /\ published'[Len(published) + 1] = e
      /\ \A i \in 1 .. Len(published) : published'[i] = published[i]
  BY <1>2
<1>4. first'[c] = first[c] /\ got'[c] = got[c] /\ peer'[c] = peer[c]
  OBVIOUS
<1>5. conn'[c] = IF IsSub(c) /\ Unwritable(c) THEN "dropped" ELSE conn[c]
  BY DEF publish_event
<1>6. (IsSub(c) <=> conn[c] = "open") /\ (IsSub(c)' <=> conn'[c] = "open")
  BY DEF BusOK, SubsOK
<1>7. IsSub(c)' <=> IsSub(c) /\ Writable(c)
  BY <1>5, <1>6 DEF Writable
<1>8. conn'[c] \in {"none", "refused", "backlog"} => got[c] = <<>> /\ down[c] = <<>> /\ ~IsSub(c)
  BY <1>1, <1>5, <1>6 DEF Delivered
<1>9. \A i \in 1 .. Len(got[c]) : got'[c][i] = published'[first'[c] + i]
  <2>1. \A i \in 1 .. Len(got[c]) : first[c] + i \in 1 .. Len(published)
    BY <1>14, <1>15
  <2>2. QED
    BY <1>1, <1>3, <1>4, <2>1 DEF Delivered
<1>10. \A i \in 1 .. Len(down[c]) : down[c][i].e = published'[first'[c] + Len(got'[c]) + i]
  <2>1. \A i \in 1 .. Len(down[c]) : first[c] + Len(got[c]) + i \in 1 .. Len(published)
    BY <1>14, <1>15
  <2>2. QED
    BY <1>1, <1>3, <1>4, <2>1 DEF Delivered
<1>11. CASE ~IsSub(c) \/ ~peer[c]
  <2>1. down'[c] = down[c]
    BY <1>11 DEF publish_event
  <2>2. ~(IsSub(c)' /\ peer'[c])
    BY <1>4, <1>7, <1>11
  <2>3. \A i \in 1 .. Len(down'[c]) : down'[c][i].part = "head" => i = Len(down'[c]) /\ ~IsSub(c)'
    BY <1>1, <1>7, <2>1 DEF Delivered
  <2>4. first'[c] + Len(got'[c]) + Len(down'[c]) <= Len(published')
    BY <1>1, <1>2, <1>3, <1>4, <2>1 DEF Delivered
  <2>5. QED
    BY <1>4, <1>8, <1>9, <1>10, <2>1, <2>2, <2>3, <2>4 DEF Delivered
<1>12. CASE IsSub(c) /\ peer[c]
  <2>1. PICK part \in {"whole", "head"} :
          /\ down'[c] = Append(down[c], [e |-> e, part |-> part])
          /\ part = "head" => ~Writable(c)
    BY <1>12 DEF publish_event
  <2>2. /\ Len(down'[c]) = Len(down[c]) + 1
        /\ down'[c][Len(down[c]) + 1] = [e |-> e, part |-> part]
        /\ \A i \in 1 .. Len(down[c]) : down'[c][i] = down[c][i]
    BY <1>2, <2>1
  <2>3. first[c] + Len(got[c]) + Len(down[c]) = Len(published)
    BY <1>1, <1>12 DEF Delivered
  <2>11. first[c] + Len(got[c]) + (Len(down[c]) + 1) = Len(published) + 1
    <3>1. PICK f, g, d, q \in Nat :
            f = first[c] /\ g = Len(got[c]) /\ d = Len(down[c]) /\ q = Len(published)
      BY <1>14
    <3>2. f + g + d = q
      BY <2>3, <3>1, Zenon
    <3>3. f + g + (d + 1) = q + 1
      BY <3>2
    <3>4. QED
      BY <3>1, <3>3, Zenon
  <2>4. first'[c] + Len(got'[c]) + Len(down'[c]) = Len(published')
    <3>1. Len(published') = Len(published) + 1 /\ Len(down'[c]) = Len(down[c]) + 1
      BY <1>3, <2>2
    <3>2. QED
      BY <1>4, <2>11, <3>1, Zenon
  <2>5. down'[c][Len(down[c]) + 1].e = published'[first'[c] + Len(got'[c]) + (Len(down[c]) + 1)]
    <3>1. down'[c][Len(down[c]) + 1].e = e
      BY <2>2
    <3>2. QED
      BY <1>3, <1>4, <2>11, <3>1, Zenon
  <2>6. \A i \in 1 .. Len(down'[c]) : i \in 1 .. Len(down[c]) \/ i = Len(down[c]) + 1
    BY <1>2, <2>2
  <2>7. \A i \in 1 .. Len(down'[c]) : down'[c][i].e = published'[first'[c] + Len(got'[c]) + i]
    BY <1>10, <2>2, <2>5, <2>6
  <2>8. \A i \in 1 .. Len(down'[c]) : down'[c][i].part = "head" => i = Len(down'[c]) /\ ~IsSub(c)'
    <3>1. \A i \in 1 .. Len(down[c]) : down'[c][i].part # "head"
      BY <1>1, <1>12, <2>2 DEF Delivered
    <3>2. down'[c][Len(down[c]) + 1].part = part
      BY <2>2
    <3>3. QED
      BY <1>7, <2>1, <2>2, <2>6, <3>1, <3>2
  <2>9. first'[c] + Len(got'[c]) + Len(down'[c]) <= Len(published')
    BY <1>2, <1>3, <2>4
  <2>10. QED
    BY <1>4, <1>8, <1>9, <1>12, <2>4, <2>7, <2>8, <2>9 DEF Delivered
<1>13. QED
  BY <1>11, <1>12

(* The other steps.                                                        *)
LEMMA StepDelivers == BusOK /\ EventInv /\ BusStep => EventInv'
<1> SUFFICES ASSUME BusOK, EventInv, BusStep PROVE EventInv'
  OBVIOUS
<1> USE DEF history
<1>1. BusOK'
  BY StepKeepsTypes
<1>2. /\ \A c \in Clients : IsSub(c) <=> conn[c] = "open"
      /\ \A c \in Clients : IsSub(c)' <=> conn'[c] = "open"
  BY <1>1 DEF BusOK, SubsOK
<1>3. ASSUME UNCHANGED <<published, first, got, down>>,
             \A c \in Clients : conn'[c] = "open" => conn[c] = "open" /\ peer'[c] = peer[c],
             \A c \in Clients : conn'[c] \in {"none", "refused", "backlog"}
                                  => conn[c] \in {"none", "refused", "backlog"}
      PROVE  EventInv'
  <2>1. ASSUME NEW c \in Clients PROVE Delivered(c)'
    <3>1. Delivered(c) /\ (IsSub(c)' => IsSub(c)) /\ (IsSub(c)' /\ peer'[c] => peer[c])
      BY <1>2, <1>3 DEF EventInv
    <3>2. QED
      BY <1>3, <3>1, DeliveredKept
  <2>2. QED
    BY <2>1 DEF EventInv
<1>4. CASE bind
  BY <1>3, <1>4 DEF bind
<1>5. CASE poll_requests
  <2>1. \A c \in Clients : conn'[c] = conn[c] \/ conn'[c] = "dropped"
    BY <1>5 DEF poll_requests
  <2>2. UNCHANGED <<published, first, got, down, peer>>
    BY <1>5 DEF poll_requests
  <2>3. QED
    BY <1>3, <2>1, <2>2
<1>6. CASE HandleOne
  <2>1. PICK outcome \in Outcomes : handle(outcome)
    BY <1>6 DEF HandleOne
  <2>2. Head(pending) \in Requests
    BY <2>1 DEF handle, BusOK, StreamsOK
  <2>3. Head(pending) \in Events
    BY <2>2 DEF Requests, Events
  <2>4. Answer(Head(pending), outcome) /\ UNCHANGED <<peer, first, got>>
    BY <2>1 DEF handle
  <2>5. CASE publish_event(Head(pending))
    BY <1>1, <2>3, <2>4, <2>5, PublishDelivers
  <2>6. CASE UNCHANGED <<conn, subs, down, published>>
    BY <1>3, <2>4, <2>6
  <2>7. CASE publish_too_large
    <3>1. conn' = [c \in Clients |-> IF IsSub(c) THEN "dropped" ELSE conn[c]]
      BY <2>7 DEF publish_too_large
    <3>2. \A c \in Clients : conn'[c] # "open" /\ (conn'[c] = conn[c] \/ conn'[c] = "dropped")
      BY <1>2, <3>1
    <3>3. QED
      BY <1>3, <2>4, <2>7, <3>2 DEF publish_too_large
  <2>8. QED
    BY <2>4, <2>5, <2>6, <2>7 DEF Answer
<1>7. ASSUME NEW n \in Nat, announce(n) PROVE EventInv'
  <2>1. [from |-> System, n |-> n] \in Events
    BY DEF Events
  <2>2. publish_event([from |-> System, n |-> n]) /\ UNCHANGED <<peer, first, got>>
    BY <1>7 DEF announce
  <2>3. QED
    BY <1>1, <2>1, <2>2, PublishDelivers
<1>8. ASSUME NEW s \in {"unbound", "gone"}, Close(s) PROVE EventInv'
  BY <1>3, <1>8 DEF Close
<1>9. ASSUME NEW c \in Clients, poll_connections(c) PROVE EventInv'
  <2>1. /\ conn[c] = "backlog" /\ conn'[c] = "open" /\ first'[c] = Len(published)
        /\ UNCHANGED <<published, got, down, peer>>
        /\ \A d \in Clients \ {c} : conn'[d] = conn[d] /\ first'[d] = first[d]
    BY <1>9 DEF poll_connections, BusOK, ConnOK, HistoryOK
  <2>2. got[c] = <<>> /\ down[c] = <<>> /\ Len(published) \in Nat
    BY <2>1 DEF EventInv, Delivered, BusOK, StreamsOK
  <2>3. Delivered(c)'
    BY <2>1, <2>2 DEF Delivered
  <2>4. ASSUME NEW d \in Clients \ {c} PROVE Delivered(d)'
    <3>1. Delivered(d) /\ (IsSub(d)' => IsSub(d))
      BY <1>2, <2>1 DEF EventInv
    <3>2. QED
      BY <2>1, <3>1, DeliveredKept
  <2>5. QED
    BY <2>3, <2>4 DEF EventInv
<1>10. ASSUME NEW c \in Clients, connect(c) PROVE EventInv'
  BY <1>3, <1>10 DEF connect, BusOK, ConnOK
<1>11. ASSUME NEW c \in Clients, Asking(c) PROVE EventInv'
  BY <1>3, <1>11 DEF Asking, send_request
<1>12. ASSUME NEW c \in Clients, Rest(c) \/ give_up(c) PROVE EventInv'
  BY <1>3, <1>12 DEF Rest, send_rest, give_up
<1>13. ASSUME NEW c \in Clients, read_event(c) PROVE EventInv'
  <2>1. /\ down[c] # <<>> /\ Head(down[c]).part = "whole" /\ peer[c]
        /\ UNCHANGED <<published, conn, subs, peer, first>>
        /\ got' = [got EXCEPT ![c] = Append(@, Head(down[c]).e)]
        /\ down' = [down EXCEPT ![c] = Tail(@)]
    BY <1>13 DEF read_event
  <2>2. /\ down[c] \in Seq(DownFrame) /\ got[c] \in Seq(Events) /\ first[c] \in Nat
        /\ Len(down[c]) \in Nat /\ Len(got[c]) \in Nat /\ Len(published) \in Nat
        /\ got'[c] = Append(got[c], Head(down[c]).e) /\ down'[c] = Tail(down[c])
        /\ \A d \in Clients \ {c} : got'[d] = got[d] /\ down'[d] = down[d]
    BY <2>1 DEF BusOK, StreamsOK, HistoryOK
  <2>3. /\ Head(down[c]) = down[c][1] /\ 1 \in 1 .. Len(down[c])
        /\ Len(down'[c]) = Len(down[c]) - 1
        /\ \A i \in 1 .. Len(down'[c]) : i + 1 \in 1 .. Len(down[c]) /\ down'[c][i] = down[c][i + 1]
    <3>1. down[c] \in Seq(DownFrame) /\ down[c] # <<>> /\ down'[c] = Tail(down[c])
      BY <2>1, <2>2
    <3>2. QED
      BY <3>1
  <2>14. first[c] \in Nat /\ Len(got[c]) \in Nat /\ Len(down[c]) \in Nat /\ Len(down'[c]) \in Nat
    BY <2>2, <2>3
  <2>4. /\ Len(got'[c]) = Len(got[c]) + 1 /\ got'[c][Len(got[c]) + 1] = down[c][1].e
        /\ \A i \in 1 .. Len(got[c]) : got'[c][i] = got[c][i]
    BY <2>2, <2>3
  <2>5. Delivered(c)
    BY DEF EventInv
  <2>6. \A i \in 1 .. Len(got'[c]) : got'[c][i] = published'[first'[c] + i]
    <3>1. \A i \in 1 .. Len(got'[c]) : i \in 1 .. Len(got[c]) \/ i = Len(got[c]) + 1
      BY <2>2, <2>4
    <3>2. first[c] + Len(got[c]) + 1 = first[c] + (Len(got[c]) + 1)
      BY <2>2
    <3>3. got'[c][Len(got[c]) + 1] = published[first[c] + (Len(got[c]) + 1)]
      BY <2>3, <2>4, <2>5, <3>2 DEF Delivered
    <3>4. QED
      BY <2>1, <2>4, <2>5, <3>1, <3>3 DEF Delivered
  <2>7. \A i \in 1 .. Len(down'[c]) : down'[c][i].e = published'[first'[c] + Len(got'[c]) + i]
    <3>1. \A i \in 1 .. Len(down'[c]) :
            first[c] + Len(got[c]) + (i + 1) = first[c] + (Len(got[c]) + 1) + i
      <4>1. ASSUME NEW i \in 1 .. Len(down'[c])
            PROVE  first[c] + Len(got[c]) + (i + 1) = first[c] + (Len(got[c]) + 1) + i
        <5>1. i \in Nat
          BY <2>14
        <5>2. PICK f, g \in Nat : f = first[c] /\ g = Len(got[c])
          BY <2>14
        <5>3. f + g + (i + 1) = f + (g + 1) + i
          BY <5>1
        <5>4. QED
          BY <5>2, <5>3, Zenon
      <4>2. QED
        BY <4>1
    <3>2. QED
      BY <2>1, <2>3, <2>4, <2>5, <3>1 DEF Delivered
  <2>8. \A i \in 1 .. Len(down'[c]) : down'[c][i].part = "head" => i = Len(down'[c]) /\ ~IsSub(c)'
    <3>1. ASSUME NEW i \in 1 .. Len(down'[c]), down'[c][i].part = "head"
          PROVE  i = Len(down'[c]) /\ ~IsSub(c)'
      <4>1. i + 1 = Len(down[c]) /\ ~IsSub(c)
        BY <2>3, <2>5, <3>1 DEF Delivered
      <4>2. QED
        BY <1>2, <2>1, <2>2, <2>3, <4>1
    <3>2. QED
      BY <3>1
  <2>9. /\ first'[c] + Len(got'[c]) + Len(down'[c]) <= Len(published')
        /\ IsSub(c)' /\ peer'[c] => first'[c] + Len(got'[c]) + Len(down'[c]) = Len(published')
    <3>1. first'[c] + Len(got'[c]) + Len(down'[c]) = first[c] + Len(got[c]) + Len(down[c])
      <4>1. first'[c] = first[c] /\ Len(got'[c]) = Len(got[c]) + 1 /\ Len(down'[c]) = Len(down[c]) - 1
        BY <2>1, <2>3, <2>4
      <4>2. QED
        <5>2. PICK f, g, d \in Nat : f = first[c] /\ g = Len(got[c]) /\ d = Len(down[c])
          BY <2>14
        <5>3. f + (g + 1) + (d - 1) = f + g + d
          OBVIOUS
        <5>4. first[c] + (Len(got[c]) + 1) + (Len(down[c]) - 1) = first[c] + Len(got[c]) + Len(down[c])
          BY <5>2, <5>3, Zenon
        <5>5. QED
          BY <4>1, <5>4, Zenon
    <3>2. QED
      BY <1>2, <2>1, <2>5, <3>1 DEF Delivered
  <2>10. conn'[c] \notin {"none", "refused", "backlog"}
    BY <2>1, <2>5 DEF Delivered
  <2>11. Delivered(c)'
    BY <2>6, <2>7, <2>8, <2>9, <2>10 DEF Delivered
  <2>12. ASSUME NEW d \in Clients \ {c} PROVE Delivered(d)'
    <3>1. Delivered(d) /\ (IsSub(d)' => IsSub(d))
      BY <1>2, <2>1 DEF EventInv
    <3>2. QED
      BY <2>1, <2>2, <3>1, DeliveredKept
  <2>13. QED
    BY <2>11, <2>12 DEF EventInv
<1>14. ASSUME NEW c \in Clients, hang_up(c) PROVE EventInv'
  <2>1. /\ UNCHANGED <<published, conn, first, got>> /\ ~peer'[c] /\ down'[c] = <<>>
        /\ \A d \in Clients \ {c} : down'[d] = down[d] /\ peer'[d] = peer[d]
    BY <1>14 DEF hang_up, BusOK, ConnOK, StreamsOK
  <2>2. Delivered(c) /\ first[c] \in Nat /\ Len(got[c]) \in Nat /\ Len(down[c]) \in Nat
        /\ Len(published) \in Nat
    BY DEF EventInv, BusOK, StreamsOK, HistoryOK
  <2>3. Delivered(c)'
    BY <2>1, <2>2 DEF Delivered
  <2>4. ASSUME NEW d \in Clients \ {c} PROVE Delivered(d)'
    <3>1. Delivered(d) /\ (IsSub(d)' => IsSub(d))
      BY <1>2, <2>1 DEF EventInv
    <3>2. QED
      BY <2>1, <3>1, DeliveredKept
  <2>5. QED
    BY <2>3, <2>4 DEF EventInv
<1>15. QED
  BY <1>4, <1>5, <1>6, <1>7, <1>8, <1>9, <1>10, <1>11, <1>12, <1>13, <1>14 DEF BusStep

(* A bus that starts has delivered nothing.                                *)
LEMMA BusStartsDelivered == BusInit => EventInv
  BY DEF BusInit, EventInv, Delivered, IsSub, Contains

(* Where the bus stands still, events do.                                  *)
LEMMA StillDelivers == EventInv /\ UNCHANGED busVars => EventInv'
  BY DEF busVars, history, EventInv, Delivered, IsSub, Contains

(* Sequences with the same elements are the same.                          *)
LEMMA SameSequence ==
  ASSUME NEW T, NEW s \in Seq(T), NEW t \in Seq(T), Len(s) = Len(t),
         \A i \in 1 .. Len(s) : s[i] = t[i]
  PROVE  s = t
<1>1. DOMAIN s = 1 .. Len(s) /\ DOMAIN t = 1 .. Len(t)
  OBVIOUS
<1>2. s \in [1 .. Len(s) -> T] /\ t \in [1 .. Len(s) -> T]
  OBVIOUS
<1>3. QED
  BY <1>2

(* Place by place is one stretch of what was published.                    *)
LEMMA DeliveredIsContiguous == BusOK /\ EventInv => EventsContiguous
<1> SUFFICES ASSUME BusOK, EventInv, NEW c \in Clients
             PROVE  LET all == got[c] \o [i \in DOMAIN down[c] |-> down[c][i].e]
                    IN  /\ first[c] + Len(all) <= Len(published)
                        /\ all = SubSeq(published, first[c] + 1, first[c] + Len(all))
                        /\ \A i \in DOMAIN down[c] :
                             down[c][i].part = "head" => i = Len(down[c]) /\ ~IsSub(c)
                        /\ IsSub(c) /\ peer[c] => first[c] + Len(all) = Len(published)
  BY DEF EventsContiguous
<1> DEFINE coming == [i \in DOMAIN down[c] |-> down[c][i].e]
           all == got[c] \o coming
           run == SubSeq(published, first[c] + 1, first[c] + Len(all))
<1>1. /\ down[c] \in Seq(DownFrame) /\ got[c] \in Seq(Events) /\ first[c] \in Nat
      /\ Len(down[c]) \in Nat /\ Len(got[c]) \in Nat
      /\ published \in Seq(Events) /\ Len(published) \in Nat
  BY DEF BusOK, StreamsOK, HistoryOK
<1>2. Delivered(c)
  BY DEF EventInv
<1>3. DOMAIN down[c] = 1 .. Len(down[c]) /\ \A i \in 1 .. Len(down[c]) : down[c][i].e \in Events
  <2>1. \A i \in 1 .. Len(down[c]) : down[c][i] \in DownFrame
    BY <1>1
  <2>2. QED
    BY <1>1, <2>1 DEF DownFrame
<1>4. /\ coming \in Seq(Events) /\ Len(coming) = Len(down[c])
      /\ \A i \in 1 .. Len(down[c]) : coming[i] = down[c][i].e
  BY <1>1, <1>3
<1> HIDE DEF coming
<1>13. first[c] \in Nat /\ Len(got[c]) \in Nat /\ Len(down[c]) \in Nat /\ Len(published) \in Nat
  BY <1>1
<1>14. first[c] + Len(got[c]) + Len(down[c]) <= Len(published)
  BY <1>2 DEF Delivered
<1>5. /\ all \in Seq(Events) /\ Len(all) = Len(got[c]) + Len(down[c]) /\ Len(all) \in Nat
      /\ \A i \in 1 .. Len(got[c]) : all[i] = got[c][i]
      /\ \A i \in 1 .. Len(down[c]) : all[Len(got[c]) + i] = coming[i]
  <2>1. got[c] \in Seq(Events) /\ coming \in Seq(Events) /\ Len(coming) = Len(down[c])
    BY <1>1, <1>4
  <2>2. all \in Seq(Events) /\ Len(all) = Len(got[c]) + Len(coming)
    <3>1. got[c] \o coming \in Seq(Events)
      BY <2>1
    <3>2. \A s, t \in Seq(Events) : Len(s \o t) = Len(s) + Len(t)
      OBVIOUS
    <3>3. QED
      BY <2>1, <3>1, <3>2, Zenon
  <2>3. \A i \in 1 .. Len(got[c]) : all[i] = got[c][i]
    BY <2>1
  <2>4. \A i \in 1 .. Len(coming) : all[Len(got[c]) + i] = coming[i]
    BY <2>1
  <2>5. Len(all) \in Nat
    BY <2>2
  <2>6. QED
    BY <2>1, <2>2, <2>3, <2>4, <2>5
<1> HIDE DEF all
<1>15. PICK f, g, d, n, q \in Nat :
         /\ f = first[c] /\ g = Len(got[c]) /\ d = Len(down[c]) /\ n = Len(all) /\ q = Len(published)
         /\ n = g + d /\ f + g + d <= q
  <2>1. PICK f, g, d, n, q \in Nat :
          f = first[c] /\ g = Len(got[c]) /\ d = Len(down[c]) /\ n = Len(all) /\ q = Len(published)
    BY <1>5, <1>13
  <2>2. n = g + d /\ f + g + d <= q
    BY <1>5, <1>14, <2>1, Zenon
  <2>3. QED
    BY <2>1, <2>2, Zenon
<1>17. n = g + d /\ f + g + d <= q
  BY <1>15, Zenon
<1>16. f + n = f + g + d /\ f + n \in Nat /\ f + n <= q
  BY <1>17
<1>6. first[c] + Len(all) <= Len(published) /\ first[c] + Len(all) \in Nat
  BY <1>15, <1>16, Zenon
<1>7. \A i \in 1 .. Len(all) : all[i] = published[first[c] + i]
  <2>1. \A i \in 1 .. Len(got[c]) : all[i] = published[first[c] + i]
    BY <1>2, <1>5 DEF Delivered
  <2>2. \A i \in 1 .. Len(down[c]) : all[Len(got[c]) + i] = published[first[c] + (Len(got[c]) + i)]
    <3>1. \A i \in 1 .. Len(down[c]) : first[c] + Len(got[c]) + i = first[c] + (Len(got[c]) + i)
      BY <1>13
    <3>2. \A i \in 1 .. Len(down[c]) : coming[i] = published[first[c] + Len(got[c]) + i]
      BY <1>2, <1>4 DEF Delivered
    <3>3. QED
      BY <1>5, <3>1, <3>2
  <2>3. ASSUME NEW i \in 1 .. Len(all), i \notin 1 .. Len(got[c]) PROVE all[i] = published[first[c] + i]
    <3>1. i - Len(got[c]) \in 1 .. Len(down[c]) /\ Len(got[c]) + (i - Len(got[c])) = i
      <4>1. i \in 1 .. n /\ i \notin 1 .. g
        BY <1>15, <2>3, Zenon
      <4>2. i - g \in 1 .. d /\ g + (i - g) = i
        BY <1>17, <4>1
      <4>3. QED
        BY <1>15, <4>2, Zenon
    <3>2. QED
      BY <2>2, <3>1
  <2>4. QED
    BY <2>1, <2>3
<1>8. /\ run \in Seq(Events) /\ Len(run) = Len(all)
      /\ \A i \in 1 .. Len(all) : run[i] = published[first[c] + i]
  <2>1. f + n <= Len(published) /\ published \in Seq(Events)
    BY <1>1, <1>15, <1>16
  <2>2. SubSeq(published, f + 1, f + n) \in Seq(Events)
    BY <2>1
  <2>3. Len(SubSeq(published, f + 1, f + n)) = n
    BY <2>1
  <2>4. \A i \in 1 .. n : SubSeq(published, f + 1, f + n)[i] = published[f + i]
    BY <2>1
  <2>5. QED
    BY <1>15, <2>2, <2>3, <2>4, Zenon
<1> HIDE DEF run
<1>9. all = run
  BY <1>5, <1>7, <1>8, SameSequence
<1>10. IsSub(c) /\ peer[c] => first[c] + Len(all) = Len(published)
  <2>1. IsSub(c) /\ peer[c] => first[c] + Len(got[c]) + Len(down[c]) = Len(published)
    BY <1>2 DEF Delivered
  <2>2. first[c] + Len(all) = first[c] + Len(got[c]) + Len(down[c])
    BY <1>15, <1>16, Zenon
  <2>3. QED
    BY <2>1, <2>2
<1>11. \A i \in DOMAIN down[c] : down[c][i].part = "head" => i = Len(down[c]) /\ ~IsSub(c)
  BY <1>2, <1>3 DEF Delivered
<1>12. QED
  BY <1>6, <1>9, <1>10, <1>11 DEF all, run, coming

(* So the events are in order in every state of a bus,                     *)
LEMMA BusDelivers == Spec => []EventInv
<1>1. BusOK /\ EventInv /\ [Next]_busVars => EventInv'
  BY BusNextSteps, StepDelivers, StillDelivers
<1>2. QED
  BY <1>1, BusStartsDelivered, BusTypes, PTL DEF Spec

(* EventBus.EventsContiguous for any buffers and any number of events:     *)
(* each client reads what Process 1 published, from its accept on, without *)
(* a gap, a repetition or a reordering, and a frame that was cut off is    *)
(* the last thing on a stream that is subscribed no more.                  *)
THEOREM EventsReadInOrder == Spec => []EventsContiguous
  BY BusTypes, BusDelivers, DeliveredIsContiguous, PTL

(* What drops a client that keeps its end.                                 *)
LEMMA StepHarmsNoOther ==
  ASSUME BusOK, OrderInv, Next, NEW c \in Clients,
         conn[c] = "open", conn'[c] = "dropped", peer[c]
  PROVE  \/ sock' = "gone"
         \/ Len(down[c]) >= BufferFrames /\ Len(published') > Len(published)
         \/ \E n \in DOMAIN sent[c] : sent[c][n] = "head"
         \/ handled' # handled /\ published' = published /\ subs' = <<>>
<1>1. /\ conn \in [Clients -> {"none", "refused", "backlog", "open", "dropped"}]
      /\ published \in Seq(Events) /\ Len(published) \in Nat
  BY DEF BusOK, ConnOK, StreamsOK
<1>2. conn'[c] # conn[c]
  OBVIOUS
<1>3. ASSUME NEW e, publish_event(e)
      PROVE  Len(down[c]) >= BufferFrames /\ Len(published') > Len(published)
  BY <1>1, <1>2, <1>3 DEF publish_event, Unwritable
<1>4. CASE poll_requests
  <2>1. ~Retained(c)
    BY <1>2, <1>4 DEF poll_requests
  <2>2. AtFront(c) \in {"tail", "scrap"}
    BY <2>1 DEF Retained
  <2>3. up[c] # <<>> /\ up[c][1].part # "whole" /\ 1 \in 1 .. Len(up[c])
    <3>1. up[c] # <<>> /\ Head(up[c]).part # "whole"
      BY <2>2 DEF AtFront
    <3>2. QED
      BY <3>1, Numbers
  <2>4. PICK n \in 1 .. Len(sent[c]) : n = up[c][1].n /\ ~InOnePiece(c, n)
    <3>1. Numbered(c)
      BY DEF OrderInv, InOrder, Coming, Connected
    <3>2. QED
      BY <2>3, <3>1 DEF Numbered
  <2>5. PICK m \in 1 .. n : sent[c][m] # "whole"
    BY <2>4 DEF InOnePiece
  <2>6. sent[c] \in Seq({"whole", "head"})
    BY Numbers
  <2>7. m \in DOMAIN sent[c] /\ sent[c][m] \in {"whole", "head"}
    BY <2>4, <2>5, <2>6
  <2>8. QED
    BY <2>5, <2>7
<1>5. CASE HandleOne
  <2>1. PICK outcome \in Outcomes : handle(outcome)
    BY <1>5 DEF HandleOne
  <2>2. CASE publish_event(Head(pending))
    BY <1>3, <2>2
  <2>3. CASE UNCHANGED <<conn, subs, down, published>>
    BY <1>2, <2>3
  <2>4. CASE publish_too_large
    <3>1. PICK r : r = Head(pending)
      OBVIOUS
    <3>2. r.from \in Clients /\ r.n \in Nat
      <4>1. Head(pending) \in Requests
        BY <2>1 DEF handle, BusOK, StreamsOK
      <4>2. QED
        BY <3>1, <4>1 DEF Requests
    <3>3. handled'[r.from] = Append(handled[r.from], r.n)
      BY <2>1, <3>1, <3>2 DEF handle, BusOK, HistoryOK
    <3>4. handled' # handled
      BY <3>2, <3>3, Numbers
    <3>5. QED
      BY <2>4, <3>4 DEF publish_too_large
  <2>5. QED
    BY <2>1, <2>2, <2>3, <2>4 DEF handle, Answer
<1>6. CASE announce(News + 1)
  BY <1>3, <1>6 DEF announce
<1>7. CASE shutdown
  BY <1>7 DEF shutdown, Close
<1>8. CASE bind
  BY <1>2, <1>8 DEF bind
<1>9. ASSUME NEW d \in Clients, poll_connections(d) PROVE FALSE
  BY <1>1, <1>2, <1>9 DEF poll_connections
<1>10. ASSUME NEW d \in Clients, Client(d) PROVE FALSE
  <2>1. CASE connect(d)
    BY <1>1, <1>2, <2>1 DEF connect
  <2>2. QED
    BY <1>2, <1>10, <2>1 DEF Client, Rest, send_request, send_rest, give_up, read_event, hang_up
<1>11. QED
  BY <1>4, <1>5, <1>6, <1>7, <1>8, <1>9, <1>10 DEF Next, Server

(* EventBus.OthersUnharmed for any clients: a client that keeps its end of *)
(* the connection is dropped for its own full buffer, a request of its own *)
(* in pieces or an answer too large for anybody, or because the server     *)
(* stops; never for what another one does in the middle of a frame, for    *)
(* its slowness or its leaving.                                            *)
THEOREM NoClientHarmsAnother == Spec => OthersUnharmed
<1>1. BusOK /\ OrderInv /\ [Next]_busVars =>
        [\A c \in Clients :
           (conn[c] = "open" /\ conn'[c] = "dropped" /\ peer[c]) =>
             \/ sock' = "gone"
             \/ Len(down[c]) >= BufferFrames /\ Len(published') > Len(published)
             \/ \E n \in DOMAIN sent[c] : sent[c][n] = "head"
             \/ handled' # handled /\ published' = published /\ subs' = <<>>]_busVars
  BY StepHarmsNoOther
<1>2. QED
  BY <1>1, BusTypes, BusKeepsOrder, PTL DEF Spec, OthersUnharmed

-----------------------------------------------------------------------------
(* The boot drives the bus, and nothing else does, so what holds of the    *)
(* bus by its steps alone holds here too.                                  *)

BootTypes ==
  /\ stage \in Stages /\ chimes \in Nat /\ deaths \in 0 .. MaxDeaths
  /\ desktop \in Clients \cup {Nobody}
  /\ heard \in Nat /\ wordmark \in 0 .. FadeFrames
  /\ boot_phase \in BootPhases /\ unlocked \in BOOLEAN

(* Every step of the boot is a step of the bus or leaves it alone.         *)
LEMMA BootNextSteps == BootTypes /\ [BootNext]_vars => BusStep \/ UNCHANGED busVars
<1> SUFFICES ASSUME BootTypes, BootNext PROVE BusStep \/ UNCHANGED busVars
  BY DEF vars
<1>1. CASE Main
  <2>1. ASSUME NEW n \in Nat, NEW f, NEW t, Announcing(f, n, t) PROVE BusStep
    BY <2>1 DEF Announcing, BusStep
  <2>2. ASSUME BootEvents PROVE BusStep \/ UNCHANGED busVars
    <3>1. HardwareReady \in Nat /\ AudioReady \in Nat
          /\ BootChimeTrigger \in Nat /\ PowerProfileChanged \in Nat
      BY DEF HardwareReady, AudioReady, BootChimeTrigger, PowerProfileChanged
    <3>2. QED
      BY <2>1, <2>2, <3>1 DEF BootEvents, PlayChime
  <2>3. QED
    BY <1>1, <2>2 DEF Main, BindBus, register_service, BusStep
<1>2. CASE Dispatch \/ FirstBootWizardComplete \/ Stop \/ Crash
  <2>1. FirstBootConfigApplied \in Nat
    BY DEF FirstBootConfigApplied
  <2>2. QED
    BY <1>2, <2>1 DEF Dispatch, FirstBootWizardComplete, Stop, Crash, shutdown, BusStep
<1>3. ASSUME NEW c \in Clients, Accept(c) \/ StartDesktop(c) PROVE BusStep
  BY <1>3 DEF Accept, StartDesktop, BusStep
<1>4. CASE ScanWifi \/ Reader
  <2>1. desktop \in Clients
    BY <1>4 DEF ScanWifi, Reader, BootTypes
  <2>2. QED
    BY <1>4, <2>1 DEF ScanWifi, Reader, BusStep, Asking
<1>5. CASE Frame
  BY <1>5 DEF Frame
<1>6. CASE DesktopFault
  <2>1. desktop \in Clients
    BY <1>6 DEF DesktopFault, BootTypes
  <2>2. QED
    BY <1>6, <2>1 DEF DesktopFault, BusStep
<1>7. QED
  BY <1>1, <1>2, <1>3, <1>4, <1>5, <1>6 DEF BootNext

(* What the processes do with their own variables.                         *)
LEMMA BootKeepsTypes == BootTypes /\ [BootNext]_vars => BootTypes'
<1> SUFFICES ASSUME BootTypes, [BootNext]_vars PROVE BootTypes'
  OBVIOUS
<1> USE BootAssumption DEF process1, process2
<1>1. CASE Main
  <2>1. UNCHANGED <<deaths, process2>> /\ chimes' \in Nat
    BY <1>1 DEF Main, BindBus, register_service, BootEvents, Announcing, PlayChime, BootTypes
  <2>2. stage' \in Stages
    BY <1>1 DEF Main, BindBus, register_service, BootEvents, Announcing, PlayChime, Goto, Stages
  <2>3. QED
    BY <2>1, <2>2 DEF BootTypes
<1>2. CASE Dispatch \/ FirstBootWizardComplete \/ Stop
  BY <1>2 DEF Dispatch, FirstBootWizardComplete, Stop, BootTypes
<1>3. CASE Crash
  BY <1>3 DEF Crash, BootTypes, Stages
<1>4. ASSUME NEW c \in Clients, Accept(c) PROVE BootTypes'
  BY <1>4 DEF Accept, BootTypes
<1>5. ASSUME NEW c \in Clients, StartDesktop(c) PROVE BootTypes'
  <2>1. /\ desktop' = c /\ heard' = 0 /\ boot_phase' = "Loading" /\ wordmark' = 0
        /\ unlocked' = FALSE /\ UNCHANGED process1
    BY <1>5 DEF StartDesktop, Afresh
  <2>2. 0 \in 0 .. FadeFrames /\ "Loading" \in BootPhases
    BY DEF BootPhases
  <2>3. QED
    BY <2>1, <2>2 DEF BootTypes
<1>6. CASE ScanWifi \/ Reader
  BY <1>6 DEF ScanWifi, Reader, BootTypes
<1>7. CASE Frame
  <2>1. /\ UNCHANGED <<process1, desktop>>
        /\ heard' = Len(got[desktop]) /\ unlocked' = Unlocked
        /\ \E phase \in BootPhases : boot_phase' = Advance(phase) /\ wordmark' = Faded(phase)
    BY <1>7 DEF Frame, PhaseHeard, BootTypes, BootPhases
  <2>2. boot_phase' \in BootPhases
    BY <2>1 DEF Advance, BootPhases
  <2>3. wordmark' \in 0 .. FadeFrames
    BY <2>1 DEF Faded, BootTypes
  <2>4. unlocked' \in BOOLEAN
    BY <2>1 DEF Unlocked, BootTypes
  <2>5. QED
    BY <2>1, <2>2, <2>3, <2>4 DEF BootTypes
<1>8. CASE DesktopFault
  <2>1. /\ desktop' = Nobody /\ heard' = 0 /\ boot_phase' = "Loading" /\ wordmark' = 0
        /\ unlocked' = FALSE /\ UNCHANGED process1
    BY <1>8 DEF DesktopFault, Afresh
  <2>2. 0 \in 0 .. FadeFrames /\ "Loading" \in BootPhases
    BY DEF BootPhases
  <2>3. QED
    BY <2>1, <2>2 DEF BootTypes
<1>9. CASE UNCHANGED vars
  BY <1>9 DEF vars, BootTypes
<1>10. QED
  BY <1>1, <1>2, <1>3, <1>4, <1>5, <1>6, <1>7, <1>8, <1>9 DEF BootNext

(* The types of the bus and of the boot hold together.                     *)
LEMMA BootBusTypes == BootSpec => [](BusOK /\ BootTypes)
<1>1. Init => BusOK /\ BootTypes
  <2>1. Init => BootTypes
    <3>1. 0 \in 0 .. FadeFrames /\ 0 \in 0 .. MaxDeaths
      BY BootAssumption
    <3>2. "start" \in Stages /\ "Loading" \in BootPhases
      BY DEF Stages, BootPhases
    <3>3. ASSUME Init PROVE BootTypes
      <4>1. /\ stage = "start" /\ chimes = 0 /\ deaths = 0 /\ desktop = Nobody
            /\ heard = 0 /\ boot_phase = "Loading" /\ wordmark = 0 /\ unlocked = FALSE
        BY <3>3 DEF Init
      <4>2. QED
        BY <3>1, <3>2, <4>1 DEF BootTypes
    <3>4. QED
      BY <3>3
  <2>2. QED
    BY <2>1, BusStartsTyped DEF Init
<1>2. BusOK /\ BootTypes /\ [BootNext]_vars => (BusOK /\ BootTypes)'
  BY BootNextSteps, BootKeepsTypes, StepKeepsTypes, StillKeepsTypes
<1>3. QED
  BY <1>1, <1>2, PTL DEF BootSpec

(* Boot.BootTypeOK for any number of desktop starts and crashes of         *)
(* Process 1: the variables of both processes, and of the bus between      *)
(* them, keep their types through every crash and restart.                 *)
THEOREM BootTypeCorrect == BootSpec => []BootTypeOK
<1>1. BusOK /\ BootTypes => BootTypeOK
  BY BusOKIsTypeOK DEF BootTypes, BootTypeOK
<1>2. QED
  BY <1>1, BootBusTypes, PTL

-----------------------------------------------------------------------------
(* What the boot publishes, and when.                                      *)

Chimes(s) == \E i \in 1 .. Len(s) : Says(s[i], BootChimeTrigger)
Unlocks(e) == Says(e, AudioReady) \/ Says(e, BootChimeTrigger)

(* What was published last, after one event more.                          *)
LEMMA Appended ==
  ASSUME NEW x, NEW y, BusOK, published' = Append(published, x)
  PROVE  /\ Len(published') = Len(published) + 1
         /\ published' = Append(published, y) => x = y
<1>1. x \in Events \cup {x, y} /\ published \in Seq(Events \cup {x, y}) /\ Len(published) \in Nat
  BY DEF BusOK, StreamsOK
<1>2. Len(published') = Len(published) + 1
  BY <1>1
<1>3. published'[Len(published) + 1] = x
  BY <1>1
<1>4. ASSUME published' = Append(published, y) PROVE published'[Len(published) + 1] = y
  BY <1>1, <1>4
<1>5. QED
  BY <1>2, <1>3, <1>4

(* Whatever is published answers a request or is one of the announcements, *)
(* each of which has its stage.                                            *)
LEMMA BootPublishes ==
  ASSUME BusOK, BootTypes, [BootNext]_vars, NEW e, publish_event(e), published' # published
  PROVE  \/ (\A n : ~Says(e, n)) /\ stage' = stage
         \/ Says(e, HardwareReady) /\ stage = "polling"
         \/ Says(e, PowerProfileChanged) /\ stage = "chimed"
         \/ Says(e, AudioReady) /\ stage = "hardware"
         \/ Says(e, BootChimeTrigger) /\ stage = "chime"
         \/ Says(e, FirstBootConfigApplied) /\ stage = "dispatch" /\ stage' = "dispatch"
<1>1. \A f : publish_event(f) => f = e
  <2>1. ASSUME NEW f, publish_event(f) PROVE f = e
    <3>1. published' = Append(published, e) /\ published' = Append(published, f)
      BY <2>1 DEF publish_event
    <3>2. QED
      BY <3>1, Appended
  <2>2. QED
    BY <2>1
<1>2. \A n : announce(n) => Says(e, n)
  BY <1>1 DEF announce, Says
<1>3. CASE HandleOne /\ UNCHANGED process1
  <2>1. PICK outcome \in Outcomes : handle(outcome)
    BY <1>3 DEF HandleOne
  <2>2. publish_event(Head(pending)) /\ Head(pending) \in Requests
    BY <2>1 DEF handle, Answer, publish_too_large, BusOK, StreamsOK
  <2>3. e.from \in Clients
    BY <1>1, <2>2 DEF Requests
  <2>4. \A n : ~Says(e, n)
    BY <2>3, BusAssumption DEF Says
  <2>5. QED
    BY <1>3, <2>4 DEF process1
<1>4. CASE BootEvents
  BY <1>2, <1>4 DEF BootEvents, Announcing, PlayChime, Goto, busVars, history
<1>5. CASE BindBus \/ register_service
  BY <1>5 DEF BindBus, register_service, bind, busVars, history
<1>6. CASE Dispatch
  BY <1>3, <1>6 DEF Dispatch, poll_requests, history
<1>7. CASE FirstBootWizardComplete
  BY <1>2, <1>7 DEF FirstBootWizardComplete, process1
<1>8. CASE Stop \/ Crash
  BY <1>8 DEF Stop, Crash, shutdown, Close, history
<1>9. ASSUME NEW c \in Clients, Accept(c) \/ StartDesktop(c) PROVE FALSE
  BY <1>9 DEF Accept, StartDesktop, poll_connections, connect, history
<1>10. CASE ScanWifi \/ Reader
  BY <1>10 DEF ScanWifi, Reader, send_request, read_event, history
<1>11. CASE Frame \/ DesktopFault
  BY <1>11 DEF Frame, DesktopFault, hang_up, busVars, history
<1>12. QED
  BY <1>4, <1>5, <1>6, <1>7, <1>8, <1>9, <1>10, <1>11 DEF BootNext, Main, vars, busVars, history

(* A step of the bus publishes one event or none.                          *)
LEMMA OnePublished ==
  ASSUME BusOK, BusStep \/ UNCHANGED busVars
  PROVE  published' = published \/ \E e \in Events : publish_event(e)
<1>1. CASE HandleOne
  <2>1. PICK outcome \in Outcomes : handle(outcome)
    BY <1>1 DEF HandleOne
  <2>2. Head(pending) \in Events
    <3>1. Head(pending) \in Requests
      BY <2>1 DEF handle, BusOK, StreamsOK
    <3>2. QED
      BY <3>1 DEF Requests, Events
  <2>3. QED
    BY <2>1, <2>2 DEF handle, Answer, publish_too_large
<1>2. ASSUME NEW n \in Nat, announce(n) PROVE \E e \in Events : publish_event(e)
  BY <1>2 DEF announce, Events
<1>3. QED
  BY <1>1, <1>2 DEF BusStep, busVars, history, bind, poll_requests, Close, poll_connections,
       connect, Asking, send_request, Rest, send_rest, give_up, read_event, hang_up

(* A client's events only grow in number.                                  *)
LEMMA EventsStay ==
  ASSUME BusOK, BusStep \/ UNCHANGED busVars, NEW c \in Clients
  PROVE  /\ Len(got[c]) <= Len(got'[c])
         /\ \A i \in 1 .. Len(got[c]) : got'[c][i] = got[c][i]
<1>1. got[c] \in Seq(Events) /\ Len(got[c]) \in Nat /\ got \in [Clients -> Seq(Events)]
  BY DEF BusOK, HistoryOK
<1>2. CASE got'[c] = got[c]
  BY <1>1, <1>2
<1>3. ASSUME NEW d \in Clients, read_event(d) PROVE \E e : got'[c] = Append(got[c], e) \/ got'[c] = got[c]
  BY <1>1, <1>3 DEF read_event
<1>4. ASSUME NEW e, got'[c] = Append(got[c], e)
      PROVE  Len(got[c]) <= Len(got'[c]) /\ \A i \in 1 .. Len(got[c]) : got'[c][i] = got[c][i]
  BY <1>1, <1>4
<1>5. (\A d \in Clients : ~read_event(d)) => got'[c] = got[c]
  BY DEF BusStep, busVars, history, bind, poll_requests, HandleOne, handle, announce, Close,
         poll_connections, connect, Asking, send_request, Rest, send_rest, give_up, hang_up
<1>6. QED
  BY <1>2, <1>3, <1>4, <1>5

(* How far the events sent to a client reach into what was published.      *)
Reach(c) == first[c] + Len(got[c]) + Len(down[c])

(* They reach further by a publication to a client that is subscribed, and *)
(* start anew when it is accepted.                                         *)
LEMMA ReachSteps ==
  ASSUME BusOK, BusOK', EventInv, BusStep \/ UNCHANGED busVars, NEW c \in Clients
  PROVE  \/ Reach(c)' = first'[c]
         \/ /\ first'[c] = first[c] /\ Reach(c)' <= Reach(c)
            /\ conn'[c] = "open" => conn[c] = "open"
         \/ /\ first'[c] = first[c] /\ conn[c] = "open" /\ published' # published
            /\ Reach(c)' = Reach(c) + 1 /\ Reach(c) = Len(published)
<1>1. /\ first[c] \in Nat /\ Len(got[c]) \in Nat /\ Len(down[c]) \in Nat /\ Len(published) \in Nat
      /\ first'[c] \in Nat /\ Len(got'[c]) \in Nat /\ Len(down'[c]) \in Nat
      /\ down[c] \in Seq(DownFrame) /\ got[c] \in Seq(Events) /\ published \in Seq(Events)
      /\ IsSub(c) <=> conn[c] = "open"
  BY DEF BusOK, SubsOK, StreamsOK, HistoryOK
<1>2. Delivered(c)
  BY DEF EventInv
<1>3. CASE first'[c] = first[c] /\ got'[c] = got[c] /\ down'[c] = down[c]
            /\ (conn'[c] = "open" => conn[c] = "open")
  BY <1>1, <1>3 DEF Reach
<1>4. CASE \E e \in Events : publish_event(e) /\ UNCHANGED <<first, got>>
  <2>1. PICK e \in Events : publish_event(e)
    BY <1>4
  <2>2. conn'[c] = "open" => conn[c] = "open"
    BY <2>1 DEF publish_event, BusOK, ConnOK
  <2>3. CASE ~IsSub(c) \/ ~peer[c]
    BY <1>3, <1>4, <2>1, <2>2, <2>3 DEF publish_event
  <2>4. CASE IsSub(c) /\ peer[c]
    <3>1. PICK f : down'[c] = Append(down[c], f)
      BY <2>1, <2>4 DEF publish_event
    <3>2. Len(down'[c]) = Len(down[c]) + 1
      BY <1>1, <3>1
    <3>3. published' # published
      <4>1. published' = Append(published, e)
        BY <2>1 DEF publish_event
      <4>2. Len(published') = Len(published) + 1
        BY <1>1, <4>1, Appended
      <4>3. QED
        BY <1>1, <4>2
    <3>4. Reach(c) = Len(published)
      BY <1>2, <2>4 DEF Delivered, Reach
    <3>5. Reach(c)' = Reach(c) + 1
      <4>1. first'[c] = first[c] /\ got'[c] = got[c]
        BY <1>4
      <4>2. PICK k, g, q \in Nat : k = first[c] /\ g = Len(got[c]) /\ q = Len(down[c])
        BY <1>1
      <4>3. k + g + (q + 1) = (k + g + q) + 1
        OBVIOUS
      <4>4. QED
        BY <3>2, <4>1, <4>2, <4>3, Zenon DEF Reach
    <3>6. QED
      BY <1>1, <1>4, <2>4, <3>3, <3>4, <3>5
  <2>5. QED
    BY <2>3, <2>4
<1>5. CASE HandleOne
  <2>1. PICK outcome \in Outcomes : handle(outcome)
    BY <1>5 DEF HandleOne
  <2>2. Head(pending) \in Events
    <3>1. Head(pending) \in Requests
      BY <2>1 DEF handle, BusOK, StreamsOK
    <3>2. QED
      BY <3>1 DEF Requests, Events
  <2>3. Answer(Head(pending), outcome) /\ UNCHANGED <<first, got>>
    BY <2>1 DEF handle
  <2>4. CASE publish_event(Head(pending))
    BY <1>4, <2>2, <2>3, <2>4
  <2>5. CASE UNCHANGED <<conn, subs, down, published>>
    BY <1>3, <2>3, <2>5
  <2>6. CASE publish_too_large
    BY <1>1, <1>3, <2>3, <2>6 DEF publish_too_large
  <2>7. QED
    BY <2>3, <2>4, <2>5, <2>6 DEF Answer
<1>6. ASSUME NEW n \in Nat, announce(n)
      PROVE  \E e \in Events : publish_event(e) /\ UNCHANGED <<first, got>>
  BY <1>6 DEF announce, Events
<1>7. ASSUME NEW d \in Clients, poll_connections(d)
      PROVE  \/ Reach(c)' = first'[c]
             \/ /\ first'[c] = first[c] /\ Reach(c)' <= Reach(c)
                /\ conn'[c] = "open" => conn[c] = "open"
  <2>1. CASE d = c
    <3>1. got'[c] = <<>> /\ down'[c] = <<>>
      BY <1>2, <1>7, <2>1 DEF poll_connections, Delivered
    <3>2. QED
      BY <1>1, <3>1 DEF Reach
  <2>2. CASE d # c
    <3>1. first'[c] = first[c] /\ got'[c] = got[c] /\ down'[c] = down[c] /\ conn'[c] = conn[c]
      BY <1>7, <2>2 DEF poll_connections, BusOK, ConnOK, HistoryOK
    <3>2. QED
      BY <1>1, <3>1 DEF Reach
  <2>3. QED
    BY <2>1, <2>2
<1>8. ASSUME NEW d \in Clients, read_event(d)
      PROVE  /\ first'[c] = first[c] /\ Reach(c)' <= Reach(c)
             /\ conn'[c] = "open" => conn[c] = "open"
  <2>1. first' = first /\ conn' = conn
    BY <1>8 DEF read_event
  <2>2. CASE d = c
    <3>1. PICK e : got'[c] = Append(got[c], e)
      BY <1>8, <2>2 DEF read_event, BusOK, HistoryOK
    <3>2. down'[c] = Tail(down[c]) /\ down[c] # <<>>
      BY <1>8, <2>2 DEF read_event, BusOK, StreamsOK
    <3>3. Len(got'[c]) = Len(got[c]) + 1 /\ Len(down'[c]) = Len(down[c]) - 1
      BY <1>1, <3>1, <3>2
    <3>4. Reach(c)' = Reach(c)
      <4>1. PICK f, g, q \in Nat : f = first[c] /\ g = Len(got[c]) /\ q = Len(down[c])
        BY <1>1
      <4>2. f + (g + 1) + (q - 1) = f + g + q
        OBVIOUS
      <4>3. QED
        BY <2>1, <3>3, <4>1, <4>2, Zenon DEF Reach
    <3>5. QED
      BY <1>1, <2>1, <3>4 DEF Reach
  <2>3. CASE d # c
    <3>1. got'[c] = got[c] /\ down'[c] = down[c]
      BY <1>8, <2>3 DEF read_event, BusOK, StreamsOK, HistoryOK
    <3>2. QED
      BY <1>1, <2>1, <3>1 DEF Reach
  <2>4. QED
    BY <2>2, <2>3
<1>9. ASSUME NEW d \in Clients, hang_up(d)
      PROVE  /\ first'[c] = first[c] /\ Reach(c)' <= Reach(c)
             /\ conn'[c] = "open" => conn[c] = "open"
  <2>1. first' = first /\ conn' = conn /\ got' = got /\ down'[c] \in {down[c], <<>>}
    BY <1>9 DEF hang_up, history, BusOK, StreamsOK
  <2>2. QED
    BY <1>1, <2>1 DEF Reach
<1>10. CASE poll_requests \/ bind \/ UNCHANGED busVars
  BY <1>1, <1>3, <1>10 DEF poll_requests, bind, busVars, history
<1>11. ASSUME NEW s \in {"unbound", "gone"}, Close(s)
       PROVE  first'[c] = first[c] /\ got'[c] = got[c] /\ down'[c] = down[c] /\ conn'[c] # "open"
  BY <1>11 DEF Close, history, BusOK, ConnOK
<1>12. ASSUME NEW d \in Clients, connect(d) \/ Asking(d) \/ Rest(d) \/ give_up(d)
       PROVE  /\ first'[c] = first[c] /\ got'[c] = got[c] /\ down'[c] = down[c]
              /\ conn'[c] = "open" => conn[c] = "open"
  BY <1>12 DEF connect, Asking, send_request, Rest, send_rest, give_up, history, BusOK, ConnOK
<1>13. QED
  BY <1>3, <1>4, <1>5, <1>6, <1>7, <1>8, <1>9, <1>10, <1>11, <1>12 DEF BusStep

-----------------------------------------------------------------------------
(* The chime.  It was tried by the time it is announced, so it was tried   *)
(* wherever its announcement was published; and the phase of a desktop     *)
(* rests on the events it has taken.                                       *)

Took(c, n) == \E i \in 1 .. heard : Says(got[c][i], n)

Knows(c) ==
  /\ heard <= Len(got[c])
  /\ wordmark > 0 \/ boot_phase \in {"ChimeWordmarkSync", "TransitionToDesktop"} =>
       Took(c, BootChimeTrigger)
  /\ boot_phase = "DesktopReady" => Took(c, BootChimeTrigger) \/ Took(c, FirstBootConfigApplied)
  /\ Took(c, AudioReady) \/ Took(c, BootChimeTrigger) => unlocked

ChimeInv ==
  /\ stage \in {"chime", "chimed", "dispatch"} => chimes > 0
  /\ Chimes(published) => chimes > 0
  /\ desktop # Nobody => Knows(desktop)

(* The trigger is published by a main that has tried to play the chime.    *)
LEMMA ChimePublished ==
  ASSUME BusOK, BootTypes, ChimeInv, [BootNext]_vars
  PROVE  Chimes(published') => chimes > 0
<1>1. CASE published' = published
  BY <1>1 DEF ChimeInv
<1>2. ASSUME NEW e \in Events, publish_event(e), published' # published
      PROVE  Chimes(published') => chimes > 0
  <2>1. published \in Seq(Events) /\ Len(published) \in Nat /\ published' = Append(published, e)
    BY <1>2 DEF BusOK, StreamsOK, publish_event
  <2>2. /\ Len(published') = Len(published) + 1 /\ published'[Len(published) + 1] = e
        /\ \A i \in 1 .. Len(published) : published'[i] = published[i]
    BY <2>1
  <2>3. \A i \in 1 .. Len(published') : i \in 1 .. Len(published) \/ i = Len(published) + 1
    BY <2>1, <2>2
  <2>4. Chimes(published') => Chimes(published) \/ Says(e, BootChimeTrigger)
    BY <2>2, <2>3 DEF Chimes
  <2>5. Says(e, BootChimeTrigger) => stage = "chime"
    <3>1. ASSUME Says(e, BootChimeTrigger), NEW n \in {HardwareReady, PowerProfileChanged, AudioReady, FirstBootConfigApplied}
          PROVE  ~Says(e, n)
      <4>1. BootChimeTrigger # n
        BY DEF BootChimeTrigger, HardwareReady, PowerProfileChanged, AudioReady, FirstBootConfigApplied
      <4>2. QED
        BY <3>1, <4>1 DEF Says
    <3>2. QED
      BY <1>2, <3>1, BootPublishes
  <2>6. QED
    BY <2>4, <2>5 DEF ChimeInv
<1>3. QED
  BY <1>1, <1>2, OnePublished, BootNextSteps

(* The events of one frame are those between what was heard and what the   *)
(* reader has read.                                                        *)
LEMMA Hearing ==
  ASSUME BusOK, BootTypes, NEW c \in Clients, desktop = c, heard <= Len(got[c]), NEW n
  PROVE  (\E i \in 1 .. Len(got[c]) : Says(got[c][i], n)) <=> Took(c, n) \/ Heard(n)
<1>1. got[c] \in Seq(Events) /\ heard \in Nat /\ Len(got[c]) \in Nat /\ Queue = SubSeq(got[c], heard + 1, Len(got[c]))
  BY DEF BusOK, HistoryOK, BootTypes, Queue
<1>2. /\ Len(Queue) = Len(got[c]) - heard /\ DOMAIN Queue = 1 .. Len(Queue)
      /\ \A k \in 1 .. Len(Queue) : Queue[k] = got[c][k + heard]
  BY <1>1
<1>3. ASSUME NEW i \in 1 .. Len(got[c]), Says(got[c][i], n), ~(i \in 1 .. heard) PROVE Heard(n)
  <2>1. PICK k \in 1 .. Len(Queue) : k + heard = i
    <3>1. i - heard \in 1 .. Len(Queue) /\ (i - heard) + heard = i
      BY <1>1, <1>2, <1>3
    <3>2. QED
      BY <3>1
  <2>2. QED
    BY <1>2, <1>3, <2>1 DEF Heard
<1>4. ASSUME NEW k \in 1 .. Len(Queue), Says(Queue[k], n)
      PROVE  \E i \in 1 .. Len(got[c]) : Says(got[c][i], n)
  <2>1. k + heard \in 1 .. Len(got[c])
    BY <1>1, <1>2
  <2>2. QED
    BY <1>2, <1>4, <2>1
<1>5. Took(c, n) => \E i \in 1 .. Len(got[c]) : Says(got[c][i], n)
  <2>1. 1 .. heard \subseteq 1 .. Len(got[c])
    BY <1>1
  <2>2. QED
    BY <2>1 DEF Took
<1>6. QED
  BY <1>2, <1>3, <1>4, <1>5 DEF Took, Heard

(* A frame knows what it did, and took one event or more more.             *)
LEMMA FrameKnows ==
  ASSUME BusOK, BootTypes, NEW c \in Clients, desktop = c, Knows(c), Frame
  PROVE  Knows(c)'
<1>1. /\ got' = got /\ heard' = Len(got[c]) /\ unlocked' = Unlocked
      /\ boot_phase' = Advance(PhaseHeard) /\ wordmark' = Faded(PhaseHeard)
  BY DEF Frame, busVars, history
<1>2. heard \in Nat /\ heard <= Len(got[c]) /\ Len(got[c]) \in Nat /\ wordmark \in Nat
  BY DEF BootTypes, Knows, BusOK, HistoryOK
<1>3. \A n : Took(c, n)' <=> Took(c, n) \/ Heard(n)
  <2>1. \A n : Took(c, n)' <=> \E i \in 1 .. Len(got[c]) : Says(got[c][i], n)
    BY <1>1 DEF Took
  <2>2. QED
    BY <1>2, <2>1, Hearing
<1>4. PhaseHeard \in {"ChimeWordmarkSync", "TransitionToDesktop"} => Took(c, BootChimeTrigger)'
  BY <1>3 DEF PhaseHeard, Synced, Knows
<1>5. PhaseHeard = "DesktopReady" => Took(c, BootChimeTrigger)' \/ Took(c, FirstBootConfigApplied)'
  BY <1>3 DEF PhaseHeard, Synced, Knows
<1>6. boot_phase' \in {"ChimeWordmarkSync", "TransitionToDesktop"} => PhaseHeard = "ChimeWordmarkSync"
  BY <1>1 DEF Advance
<1>7. boot_phase' = "DesktopReady" => PhaseHeard \in {"TransitionToDesktop", "DesktopReady"}
  BY <1>1 DEF Advance
<1>8. wordmark' > 0 => wordmark > 0 \/ PhaseHeard = "ChimeWordmarkSync"
  BY <1>1, <1>2 DEF Faded
<1>9. wordmark > 0 => Took(c, BootChimeTrigger)'
  BY <1>3 DEF Knows
<1>10. Took(c, AudioReady)' \/ Took(c, BootChimeTrigger)' => unlocked'
  BY <1>1, <1>3 DEF Knows, Unlocked
<1>11. heard' <= Len(got'[c])
  BY <1>1, <1>2
<1>12. QED
  BY <1>4, <1>5, <1>6, <1>7, <1>8, <1>9, <1>10, <1>11 DEF Knows

(* Every step of the boot keeps what is known of the chime.                *)
LEMMA BootKeepsChime ==
  ASSUME BusOK, BusOK', BootTypes, BootTypes', ChimeInv, [BootNext]_vars PROVE ChimeInv'
<1> USE BootAssumption DEF process1, process2
<1>1. BusStep \/ UNCHANGED busVars
  BY BootNextSteps
<1>2. /\ chimes \in Nat /\ chimes' \in Nat /\ chimes <= chimes'
      /\ stage' \in {"chime", "chimed", "dispatch"} => chimes' > 0
  <2>1. CASE UNCHANGED process1
    BY <2>1 DEF BootTypes, ChimeInv
  <2>2. CASE PlayChime
    BY <2>2 DEF PlayChime, BootTypes
  <2>3. CASE BindBus \/ register_service \/ Crash
    BY <2>3 DEF BindBus, register_service, Crash, Goto, BootTypes
  <2>4. ASSUME NEW f, NEW n, NEW t, Announcing(f, n, t),
               t \in {"chimed", "dispatch"} => f \in {"chime", "chimed"}, t # "chime"
        PROVE  /\ chimes \in Nat /\ chimes' \in Nat /\ chimes <= chimes'
               /\ stage' \in {"chime", "chimed", "dispatch"} => chimes' > 0
    BY <2>4 DEF Announcing, Goto, BootTypes, ChimeInv
  <2>5. CASE BootEvents
    BY <2>2, <2>4, <2>5 DEF BootEvents
  <2>6. CASE Dispatch \/ FirstBootWizardComplete \/ Stop \/ \E c \in Clients : Accept(c) \/ StartDesktop(c)
    BY <2>1, <2>6 DEF Dispatch, FirstBootWizardComplete, Stop, Accept, StartDesktop
  <2>7. CASE ScanWifi \/ Reader \/ Frame \/ DesktopFault \/ UNCHANGED vars
    BY <2>1, <2>7 DEF ScanWifi, Reader, Frame, DesktopFault, vars
  <2>8. QED
    BY <2>3, <2>5, <2>6, <2>7 DEF BootNext, Main
<1>3. Chimes(published') => chimes' > 0
  BY <1>2, ChimePublished
<1>4. ASSUME UNCHANGED process2, NEW c \in Clients, desktop = c PROVE Knows(c)'
  <2>1. Knows(c) /\ heard \in Nat
    BY <1>4 DEF ChimeInv, BootTypes
  <2>2. Len(got[c]) <= Len(got'[c]) /\ \A i \in 1 .. Len(got[c]) : got'[c][i] = got[c][i]
    BY <1>1, EventsStay
  <2>3. Len(got[c]) \in Nat /\ Len(got'[c]) \in Nat
    BY DEF BusOK, HistoryOK
  <2>4. heard <= Len(got'[c]) /\ \A i \in 1 .. heard : got'[c][i] = got[c][i]
    BY <2>1, <2>2, <2>3 DEF Knows
  <2>5. \A n : Took(c, n)' <=> Took(c, n)
    BY <1>4, <2>4 DEF Took
  <2>6. QED
    BY <1>4, <2>1, <2>4, <2>5 DEF Knows
<1>5. CASE Frame
  <2>1. PICK c \in Clients : c = desktop /\ desktop' = c
    BY <1>5 DEF Frame, BootTypes
  <2>2. Knows(c)'
    BY <1>5, <2>1, FrameKnows DEF ChimeInv
  <2>3. QED
    BY <1>2, <1>3, <2>1, <2>2 DEF ChimeInv, Chimes
<1>6. ASSUME NEW c \in Clients, StartDesktop(c) PROVE ChimeInv'
  <2>1. desktop' = c /\ heard' = 0 /\ boot_phase' = "Loading" /\ wordmark' = 0
    BY <1>6 DEF StartDesktop, Afresh
  <2>2. Len(got'[c]) \in Nat /\ \A n : ~Took(c, n)'
    BY <2>1 DEF BusOK, HistoryOK, Took
  <2>3. Knows(c)'
    BY <2>1, <2>2 DEF Knows
  <2>4. QED
    BY <1>2, <1>3, <2>1, <2>3 DEF ChimeInv, Chimes
<1>7. CASE DesktopFault
  BY <1>2, <1>3, <1>7 DEF DesktopFault, ChimeInv, Chimes
<1>8. CASE Main \/ Dispatch \/ FirstBootWizardComplete \/ Stop \/ Crash \/ ScanWifi \/ Reader
           \/ UNCHANGED vars \/ \E c \in Clients : Accept(c)
  <2>1. UNCHANGED process2
    BY <1>8 DEF Main, BindBus, register_service, BootEvents, Announcing, PlayChime,
                Dispatch, FirstBootWizardComplete, Stop, Crash, ScanWifi, Reader, Accept, vars
  <2>2. CASE desktop = Nobody
    BY <1>2, <1>3, <2>1, <2>2 DEF ChimeInv, Chimes
  <2>3. CASE desktop # Nobody
    <3>1. PICK c \in Clients : c = desktop /\ desktop' = c
      BY <2>1, <2>3 DEF BootTypes
    <3>2. Knows(c)'
      BY <1>4, <2>1, <3>1
    <3>3. QED
      BY <1>2, <1>3, <3>1, <3>2 DEF ChimeInv, Chimes
  <2>4. QED
    BY <2>2, <2>3
<1>9. QED
  BY <1>5, <1>6, <1>7, <1>8 DEF BootNext

(* So it is known in every state,                                          *)
LEMMA BootChimes == BootSpec => []ChimeInv
<1>1. Init => ChimeInv
  BY DEF Init, BusInit, ChimeInv, Chimes
<1>2. BusOK /\ BootTypes /\ (BusOK /\ BootTypes)' /\ ChimeInv /\ [BootNext]_vars => ChimeInv'
  BY BootKeepsChime
<1>3. QED
  BY <1>1, <1>2, BootBusTypes, PTL DEF BootSpec

(* and over the boot, too, events are read in order.                       *)
LEMMA BootDelivers == BootSpec => []EventInv
<1>1. Init => EventInv
  BY BusStartsDelivered DEF Init
<1>2. BusOK /\ BootTypes /\ EventInv /\ [BootNext]_vars => EventInv'
  BY BootNextSteps, StepDelivers, StillDelivers
<1>3. QED
  BY <1>1, <1>2, BootBusTypes, PTL DEF BootSpec

(* Boot.WordmarkAfterChime through any crashes and restarts: the wordmark  *)
(* is shown only by a desktop that was told of the chime, and what it was  *)
(* told was published (the invariant of the bus), so the chime was tried.  *)
THEOREM WordmarkFollowsChime == BootSpec => []WordmarkAfterChime
<1>1. BusOK /\ BootTypes /\ ChimeInv /\ EventInv => WordmarkAfterChime
  <2> SUFFICES ASSUME BusOK, BootTypes, ChimeInv, EventInv, desktop # Nobody
               PROVE  LET Told(n) == \E i \in DOMAIN got[desktop] : Says(got[desktop][i], n)
                      IN  /\ wordmark > 0 \/ boot_phase \in {"ChimeWordmarkSync", "TransitionToDesktop"} =>
                               Told(BootChimeTrigger)
                          /\ boot_phase = "DesktopReady" =>
                               Told(BootChimeTrigger) \/ Told(FirstBootConfigApplied)
                          /\ Told(BootChimeTrigger) => chimes > 0
    BY DEF WordmarkAfterChime
  <2> DEFINE Told(n) == \E i \in DOMAIN got[desktop] : Says(got[desktop][i], n)
  <2>1. PICK c \in Clients : c = desktop
    BY DEF BootTypes
  <2>2. DOMAIN got[c] = 1 .. Len(got[c]) /\ Len(got[c]) \in Nat /\ heard \in Nat
    BY DEF BusOK, HistoryOK, BootTypes
  <2>3. Knows(c)
    BY <2>1 DEF ChimeInv
  <2>4. \A n : Took(c, n) => Told(n)
    <3>1. 1 .. heard \subseteq 1 .. Len(got[c])
      BY <2>2, <2>3 DEF Knows
    <3>2. QED
      BY <2>1, <2>2, <3>1 DEF Took
  <2>5. ASSUME Told(BootChimeTrigger) PROVE chimes > 0
    <3>1. PICK i \in 1 .. Len(got[c]) : Says(got[c][i], BootChimeTrigger)
      BY <2>1, <2>2, <2>5
    <3>2. Delivered(c)
      BY DEF EventInv
    <3>3. PICK f, g, d, q \in Nat :
            f = first[c] /\ g = Len(got[c]) /\ d = Len(down[c]) /\ q = Len(published)
      BY DEF BusOK, StreamsOK, HistoryOK
    <3>4. f + g + d <= q /\ i \in 1 .. g
      BY <3>2, <3>3, Zenon DEF Delivered
    <3>5. f + i \in 1 .. q
      BY <3>4
    <3>6. published[f + i] = got[c][i]
      BY <3>2, <3>3, Zenon DEF Delivered
    <3>7. QED
      BY <3>1, <3>3, <3>5, <3>6 DEF ChimeInv, Chimes
  <2> HIDE DEF Told
  <2>6. QED
    <3>1. /\ wordmark > 0 \/ boot_phase \in {"ChimeWordmarkSync", "TransitionToDesktop"} =>
               Told(BootChimeTrigger)
          /\ boot_phase = "DesktopReady" => Told(BootChimeTrigger) \/ Told(FirstBootConfigApplied)
          /\ Told(BootChimeTrigger) => chimes > 0
      BY <2>3, <2>4, <2>5 DEF Knows
    <3>2. QED
      BY <3>1 DEF Told
<1>2. QED
  BY <1>1, BootBusTypes, BootChimes, BootDelivers, PTL

-----------------------------------------------------------------------------
(* The gate.  A first-boot configuration is published only after AudioReady *)
(* and the chime, in the same life of Process 1, and no stream outlives    *)
(* that life; so of what was sent to one client nothing that unlocks the   *)
(* gate stands after a configuration.                                      *)

Configured(e) == Says(e, FirstBootConfigApplied)

NothingLate(c) ==
  \A i \in first[c] + 1 .. Reach(c) : Configured(published[i]) =>
    /\ conn[c] = "open" => stage = "dispatch"
    /\ \A j \in i + 1 .. Reach(c) : ~Unlocks(published[j])

LateInv == \A c \in Clients : NothingLate(c)

(* Main leaves the dispatch loop only by dying, and then every stream is   *)
(* closed.                                                                 *)
LEMMA StageStays ==
  ASSUME BusOK, BootTypes, [BootNext]_vars, NEW c \in Clients, stage = "dispatch",
         conn'[c] = "open"
  PROVE  stage' = "dispatch"
<1> USE DEF process1
<1>1. CASE Main
  BY <1>1 DEF Main, BindBus, register_service, BootEvents, Announcing, PlayChime, Goto
<1>2. CASE Crash
  BY <1>2 DEF Crash, Close, BusOK, ConnOK
<1>3. CASE Dispatch \/ FirstBootWizardComplete \/ Stop \/ \E d \in Clients : Accept(d) \/ StartDesktop(d)
  BY <1>3 DEF Dispatch, FirstBootWizardComplete, Stop, Accept, StartDesktop
<1>4. CASE ScanWifi \/ Reader \/ Frame \/ DesktopFault \/ UNCHANGED vars
  BY <1>4 DEF ScanWifi, Reader, Frame, DesktopFault, vars
<1>5. QED
  BY <1>1, <1>2, <1>3, <1>4 DEF BootNext

(* Every step of the boot keeps it,                                        *)
LEMMA BootKeepsLate ==
  ASSUME BusOK, BusOK', BootTypes, EventInv, EventInv', LateInv, [BootNext]_vars
  PROVE  LateInv'
<1> SUFFICES ASSUME NEW c \in Clients PROVE NothingLate(c)'
  BY DEF LateInv
<1>1. BusStep \/ UNCHANGED busVars
  BY BootNextSteps
<1>2. NothingLate(c) /\ Delivered(c)
  BY DEF LateInv, EventInv
<1>3. PICK f, r, q \in Nat : f = first[c] /\ r = Reach(c) /\ q = Len(published)
  BY DEF BusOK, StreamsOK, HistoryOK, Reach
<1>4. r <= q
  BY <1>2, <1>3 DEF Delivered, Reach
<1>5. PICK s \in Nat : s = Reach(c)'
  BY DEF BusOK, StreamsOK, HistoryOK, Reach
<1>6. \A i \in 1 .. q : published'[i] = published[i]
  <2>1. CASE published' = published
    BY <2>1
  <2>2. ASSUME NEW e \in Events, publish_event(e) PROVE \A i \in 1 .. q : published'[i] = published[i]
    BY <1>3, <2>2 DEF publish_event, BusOK, StreamsOK
  <2>3. QED
    BY <1>1, <2>1, <2>2, OnePublished
<1>7. ASSUME NEW i \in f + 1 .. r, Configured(published[i])
      PROVE  /\ conn[c] = "open" => stage = "dispatch"
             /\ \A j \in i + 1 .. r : ~Unlocks(published[j])
  BY <1>2, <1>3, <1>7 DEF NothingLate
<1>8. CASE Reach(c)' = first'[c]
  BY <1>5, <1>8 DEF NothingLate
<1>9. CASE /\ first'[c] = first[c] /\ Reach(c)' <= Reach(c)
           /\ conn'[c] = "open" => conn[c] = "open"
  <2>1. s <= r
    BY <1>3, <1>5, <1>9
  <2>2. ASSUME NEW i \in f + 1 .. s, Configured(published'[i])
        PROVE  /\ conn'[c] = "open" => stage' = "dispatch"
               /\ \A j \in i + 1 .. s : ~Unlocks(published'[j])
    <3>1. i \in f + 1 .. r /\ i \in 1 .. q /\ Configured(published[i])
      BY <1>4, <1>6, <2>1, <2>2
    <3>2. \A j \in i + 1 .. s : j \in i + 1 .. r /\ j \in 1 .. q
      BY <1>4, <2>1
    <3>3. \A j \in i + 1 .. s : ~Unlocks(published'[j])
      BY <1>6, <1>7, <3>1, <3>2
    <3>4. conn'[c] = "open" => stage' = "dispatch"
      BY <1>7, <1>9, <3>1, StageStays
    <3>5. QED
      BY <3>3, <3>4
  <2>3. QED
    BY <1>3, <1>5, <1>9, <2>2 DEF NothingLate, Configured, Unlocks, Says
<1>10. CASE /\ first'[c] = first[c] /\ conn[c] = "open" /\ published' # published
            /\ Reach(c)' = Reach(c) + 1 /\ Reach(c) = Len(published)
  <2>1. s = r + 1 /\ r = q
    BY <1>3, <1>5, <1>10
  <2>2. PICK e \in Events : publish_event(e)
    BY <1>1, <1>10, OnePublished
  <2>3. published'[s] = e
    BY <1>3, <2>1, <2>2 DEF publish_event, BusOK, StreamsOK
  <2>4. \/ ~Unlocks(e) /\ ~Configured(e) /\ stage' = stage
        \/ stage # "dispatch" /\ ~Configured(e)
        \/ Configured(e) /\ ~Unlocks(e) /\ stage = "dispatch" /\ stage' = "dispatch"
    <3>1. \A m, n : Says(e, m) /\ Says(e, n) => m = n
      BY DEF Says
    <3>2. FirstBootConfigApplied \notin {HardwareReady, AudioReady, BootChimeTrigger, PowerProfileChanged}
      BY DEF FirstBootConfigApplied, HardwareReady, AudioReady, BootChimeTrigger, PowerProfileChanged
    <3> HIDE DEF Says
    <3>3. QED
      BY <1>10, <2>2, <3>1, <3>2, BootPublishes DEF Unlocks, Configured
  <2>5. ASSUME NEW i \in f + 1 .. s, Configured(published'[i])
        PROVE  /\ conn'[c] = "open" => stage' = "dispatch"
               /\ \A j \in i + 1 .. s : ~Unlocks(published'[j])
    <3>1. CASE i = s
      <4>1. stage' = "dispatch"
        BY <2>3, <2>4, <2>5, <3>1
      <4>2. i + 1 .. s = {}
        BY <3>1
      <4>3. QED
        BY <4>1, <4>2
    <3>2. CASE i # s
      <4>1. i \in f + 1 .. r /\ i \in 1 .. q /\ Configured(published[i])
        BY <1>6, <2>1, <2>5, <3>2
      <4>2. stage = "dispatch" /\ \A j \in i + 1 .. r : ~Unlocks(published[j])
        BY <1>7, <1>10, <4>1
      <4>3. ~Unlocks(e) /\ stage' = "dispatch"
        BY <2>4, <4>2
      <4>4. \A j \in i + 1 .. s : j = s \/ (j \in i + 1 .. r /\ j \in 1 .. q)
        BY <2>1
      <4>5. QED
        BY <1>6, <2>3, <4>2, <4>3, <4>4
    <3>3. QED
      BY <3>1, <3>2
  <2>6. QED
    BY <1>3, <1>5, <1>10, <2>5 DEF NothingLate, Configured, Unlocks, Says
<1>11. QED
  BY <1>1, <1>8, <1>9, <1>10, ReachSteps

(* so it always holds.                                                     *)
LEMMA BootNeverLate == BootSpec => []LateInv
<1>1. Init => LateInv
  BY DEF Init, BusInit, LateInv, NothingLate, Reach
<1>2. BusOK /\ BootTypes /\ (BusOK /\ BootTypes)' /\ EventInv /\ EventInv' /\ LateInv
        /\ [BootNext]_vars => LateInv'
  BY BootKeepsLate
<1>3. QED
  BY <1>1, <1>2, BootBusTypes, BootDelivers, PTL DEF BootSpec

(* Boot.ReadyCanPresent: a desktop that is past loading and may not        *)
(* present has been sent nothing that would let it.                        *)
THEOREM ReadyDesktopPresents == BootSpec => []ReadyCanPresent
<1>1. BusOK /\ BootTypes /\ ChimeInv /\ EventInv /\ LateInv => ReadyCanPresent
  <2> SUFFICES ASSUME BusOK, BootTypes, ChimeInv, EventInv, LateInv,
                      desktop # Nobody, boot_phase # "Loading", ~unlocked,
                      NEW e \in SentTo(desktop), Unlocks(e)
               PROVE  FALSE
    BY DEF ReadyCanPresent, Unlocks
  <2>1. PICK c \in Clients : c = desktop
    BY DEF BootTypes
  <2>2. Knows(c) /\ Delivered(c) /\ NothingLate(c)
    BY <2>1 DEF ChimeInv, EventInv, LateInv
  <2>3. PICK f, g, d, h \in Nat :
          f = first[c] /\ g = Len(got[c]) /\ d = Len(down[c]) /\ h = heard
    BY DEF BusOK, StreamsOK, HistoryOK, BootTypes
  <2>4. DOMAIN got[c] = 1 .. g /\ DOMAIN down[c] = 1 .. d /\ h <= g
    BY <2>2, <2>3 DEF BusOK, StreamsOK, HistoryOK, Knows
  <2>5. PICK i \in 1 .. h : Configured(got[c][i])
    <3>1. boot_phase = "DesktopReady" /\ ~Took(c, BootChimeTrigger)
      BY <2>2 DEF Knows, BootTypes, BootPhases
    <3>2. QED
      BY <2>2, <2>3, <3>1 DEF Knows, Took, Configured
  <2>6. /\ \A k \in 1 .. g : got[c][k] = published[f + k]
        /\ \A k \in 1 .. d : down[c][k].e = published[f + g + k]
    BY <2>2, <2>3 DEF Delivered
  <2>7. \A k \in 1 .. h : ~Unlocks(got[c][k])
    BY <2>2, <2>3 DEF Knows, Took, Unlocks
  <2>8. PICK k \in h + 1 .. g + d : Unlocks(published[f + k])
    <3>1. CASE \E k \in 1 .. g : e = got[c][k]
      <4>1. PICK k \in 1 .. g : e = got[c][k]
        BY <3>1
      <4>2. k \in h + 1 .. g + d
        BY <2>7, <4>1
      <4>3. QED
        BY <2>6, <4>1, <4>2
    <3>2. CASE \E k \in 1 .. d : e = down[c][k].e
      <4>1. PICK k \in 1 .. d : e = down[c][k].e
        BY <3>2
      <4>2. PICK p \in h + 1 .. g + d : f + p = f + g + k
        <5>1. g + k \in h + 1 .. g + d /\ f + (g + k) = f + g + k
          BY <2>4, <4>1
        <5>2. QED
          BY <5>1
      <4>3. QED
        BY <2>6, <4>1, <4>2
    <3>3. QED
      BY <2>1, <2>4, <3>1, <3>2 DEF SentTo, ToSet
  <2>9. PICK a, b, r \in Nat : a = f + i /\ b = f + k /\ r = f + g + d
    OBVIOUS
  <2>10. r = Reach(c)
    BY <2>3, <2>9 DEF Reach
  <2>11. a \in f + 1 .. r /\ b \in a + 1 .. r
    BY <2>4, <2>5, <2>8, <2>9
  <2>12. Configured(published[a]) /\ Unlocks(published[b])
    BY <2>4, <2>5, <2>6, <2>8, <2>9
  <2>13. QED
    BY <2>2, <2>3, <2>10, <2>11, <2>12 DEF NothingLate
<1>2. QED
  BY <1>1, BootBusTypes, BootChimes, BootDelivers, BootNeverLate, PTL
=============================================================================
