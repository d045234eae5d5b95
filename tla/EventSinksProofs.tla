-------------------------- MODULE EventSinksProofs --------------------------
(***************************************************************************)
(* The safety properties of the event sinks, proved for any workers, any   *)
(* list of events of a request and any capacities.                         *)
(***************************************************************************)
EXTENDS EventSinks, SequenceTheorems, TLAPS

PubType == [mode : {"dialing", "greeting", "up", "noop"}, queue : Seq(Events),
            closed : BOOLEAN, connected : BOOLEAN, inside : SUBSET Workers,
            accepted : Seq(Events)]
WriterType == [at : {"off", "select", "drain", "done"}, hand : Seq(Events),
               failed : BOOLEAN]
RecType == [ch : Seq(Workers), closed : BOOLEAN, taken : Seq(Workers),
            inOrder : BOOLEAN, failed : BOOLEAN]
SockType == [wire : Seq(Events), greeting : BOOLEAN,
             client : {"none", "open", "closed"}, server : {"none", "open", "closed"}]
SrvType == [verbose : BOOLEAN, listening : BOOLEAN, acceptor : {"accept", "got", "done"},
            serving : {"no", "greet", "read", "ended"},
            closing : {"open", "accepts", "clients", "closed"},
            inOrder : BOOLEAN]

\* A worker inside Publish has an event to publish.
InsidePublishes ==
    \A g \in pub.inside : next[g] \in DOMAIN EventsOf /\ EventsOf[next[g]] # "telemetry"

\* The history of the recorder.
RecorderInv ==
    /\ rec.inOrder /\ (~ rec.failed => rec.ch = rec.taken)
    /\ main \in {"flush", "close", "wait", "exit"} => rec.closed
    /\ rec.closed => main # "connect"
    /\ main \in {"close", "wait", "exit"} => rec.ch = <<>>

\* The stages of the publisher: nobody is inside Publish once it is closed,
\* the writer drains only then, and it ends with nothing left or a failure.
StagesInv ==
    /\ pub.closed => pub.inside = {}
    /\ writer.hand # <<>> => writer.at \in {"select", "drain"}
    /\ writer.failed => writer.at = "done"
    /\ pub.connected => writer.at \in {"select", "drain"}
    /\ writer.at \in {"drain", "done"} => pub.closed \/ writer.failed
    /\ writer.at = "done" /\ ~ writer.failed => pub.queue = <<>>
    /\ pub.mode \in {"dialing", "greeting"} => main = "connect"
    /\ pub.mode # "up" => writer.at = "off"
    /\ main = "exit" /\ pub.mode = "up" => writer.at = "done"

FlowInv ==
    /\ srv.inOrder
    /\ \E rest \in Seq(Events) : pub.accepted = sock.wire \o rest
    /\ ~ writer.failed => sock.wire \o writer.hand \o pub.queue = pub.accepted

\* The stages of the server: a connection is accepted, or reset with the
\* listener, and the accept loop has ended when the clients are closed.
ServerInv ==
    /\ srv.listening <=> srv.closing = "open"
    /\ srv.closing \in {"clients", "closed"} => srv.acceptor = "done"
    /\ srv.acceptor = "got" => srv.serving = "no"
    /\ srv.serving = "ended" => sock.server # "open"
    /\ srv.closing # "open" /\ srv.serving = "no" /\ srv.acceptor # "got" =>
          sock.server # "open"
    /\ srv.closing \in {"clients", "closed"} => sock.server # "open"
    /\ srv.closing = "closed" => srv.serving \in {"no", "ended"}
    /\ srv.acceptor = "done" => srv.closing # "open"
    /\ pub.mode = "dialing" => sock.server = "none"
    /\ srv.serving # "no" \/ srv.acceptor = "got" => sock.server # "none"

-----------------------------------------------------------------------------
(* Sequences. *)

LEMMA HeadTail ==
    ASSUME NEW S, NEW s \in Seq(S), s # <<>>
    PROVE  /\ Head(s) \in S /\ Tail(s) \in Seq(S) /\ <<Head(s)>> \in Seq(S)
           /\ Len(Tail(s)) = Len(s) - 1 /\ <<Head(s)>> \o Tail(s) = s
OBVIOUS

LEMMA Joined ==
    ASSUME NEW S, NEW s \in Seq(S), NEW t \in Seq(S)
    PROVE  /\ s \o t \in Seq(S) /\ Len(s \o t) = Len(s) + Len(t)
           /\ s \o <<>> = s /\ <<>> \o s = s
OBVIOUS

LEMMA Regrouped ==
    ASSUME NEW S, NEW s \in Seq(S), NEW t \in Seq(S), NEW u \in Seq(S)
    PROVE  (s \o t) \o u = s \o (t \o u)
OBVIOUS

LEMMA ShortSeqs ==
    /\ \A S : <<>> \in Seq(S)
    /\ \A S : \A e \in S : <<e>> \in Seq(S)
    /\ Len(<<>>) = 0 /\ \A e : Len(<<e>>) = 1
OBVIOUS

LEMMA HeadOfJoined ==
    ASSUME NEW S, NEW s \in Seq(S), NEW t \in Seq(S), s # <<>>
    PROVE  /\ s \o t # <<>> /\ Head(s \o t) = Head(s)
           /\ Tail(s \o t) = Tail(s) \o t /\ Tail(s \o t) \in Seq(S)
OBVIOUS

LEMMA PrefixOfJoined ==
    ASSUME NEW S, NEW s \in Seq(S), NEW t \in Seq(S)
    PROVE  IsPrefix(s, s \o t)
BY DEF IsPrefix

-----------------------------------------------------------------------------
(* Types. *)

Typed ==
    /\ main \in {"connect", "run", "flush", "close", "wait", "exit", "panic"}
    /\ next \in [Workers -> 1 .. Len(EventsOf) + 1]
    /\ pub \in PubType /\ Len(pub.queue) <= PublisherQueue
    /\ writer \in WriterType /\ Len(writer.hand) <= 1
    /\ rec \in RecType /\ Len(rec.ch) <= RecorderQueue
    /\ sock \in SockType /\ srv \in SrvType

LEMMA TypedIsTypeOK == TypeOK <=> Typed
BY DEF TypeOK, Typed, PubType, WriterType, RecType, SockType, SrvType

LEMMA Constants ==
    /\ PublisherQueue \in Nat \ {0} /\ RecorderQueue \in Nat \ {0}
    /\ Len(EventsOf) \in Nat /\ DOMAIN EventsOf = 1 .. Len(EventsOf)
BY SinksAssumption

LEMMA InitTyped == Init => Typed /\ InsidePublishes
<1> SUFFICES ASSUME Init PROVE Typed /\ InsidePublishes
  OBVIOUS
<1>1. next \in [Workers -> 1 .. Len(EventsOf) + 1]
  BY Constants DEF Init
<1>2. pub \in PubType /\ Len(pub.queue) <= PublisherQueue /\ pub.inside = {}
  BY Constants DEF Init, PubType
<1>3. /\ writer \in WriterType /\ Len(writer.hand) <= 1
      /\ rec \in RecType /\ Len(rec.ch) <= RecorderQueue
  BY Constants DEF Init, WriterType, RecType
<1>4. sock \in SockType /\ srv \in SrvType
  BY DEF Init, SockType, SrvType
<1> QED
  BY <1>1, <1>2, <1>3, <1>4 DEF Typed, InsidePublishes, Init

\* A worker that publishes or records moves on by one.
LEMMA AdvanceTyped ==
    ASSUME Typed, NEW g \in Workers, Advance(g), next[g] \in DOMAIN EventsOf
    PROVE  /\ next' \in [Workers -> 1 .. Len(EventsOf) + 1]
           /\ \A h \in Workers : h # g => next'[h] = next[h]
BY Constants DEF Typed, Advance

LEMMA WorkerStepTyped ==
    ASSUME Typed, InsidePublishes, NEW g \in Workers, WorkerStep(g)
    PROVE  Typed' /\ InsidePublishes'
<1>1. CASE SkipEvent(g)
  <2>1. Advance(g) /\ next[g] \in DOMAIN EventsOf /\ g \notin pub.inside
    BY <1>1, Constants DEF SkipEvent, Publishing, Turn, Ended, Typed
  <2>2. next' \in [Workers -> 1 .. Len(EventsOf) + 1] /\ \A h \in Workers : h # g => next'[h] = next[h]
    BY <2>1, AdvanceTyped
  <2> QED
    BY <1>1, <2>1, <2>2 DEF SkipEvent, Typed, InsidePublishes, PubType
<1>2. CASE BeginPublish(g)
  <2>1. pub' \in PubType /\ pub'.queue = pub.queue /\ pub'.inside = pub.inside \cup {g}
    BY <1>2 DEF BeginPublish, Typed, PubType
  <2>2. next[g] \in DOMAIN EventsOf /\ EventsOf[next[g]] # "telemetry"
    BY <1>2, Constants DEF BeginPublish, Publishing, Turn, Ended, Typed
  <2> QED
    BY <1>2, <2>1, <2>2 DEF BeginPublish, Typed, InsidePublishes
<1>3. CASE EndPublish(g)
  <2> DEFINE event == IF Len(pub.queue) < PublisherQueue THEN <<<<g, next[g]>>>> ELSE <<>>
  <2>1. next[g] \in DOMAIN EventsOf
    BY <1>3 DEF EndPublish, InsidePublishes
  <2>2. <<g, next[g]>> \in Events
    BY <2>1 DEF Events
  <2>3. /\ event \in Seq(Events) /\ Len(event) <= 1
        /\ Len(pub.queue) >= PublisherQueue => Len(event) = 0
    BY <2>2, Constants DEF Typed, PubType
  <2>4. pub' = [pub EXCEPT !.queue = @ \o event, !.accepted = @ \o event, !.inside = @ \ {g}]
    BY <1>3 DEF EndPublish
  <2>5. /\ pub.queue \in Seq(Events) /\ pub.accepted \in Seq(Events)
        /\ Len(pub.queue) \in Nat /\ Len(event) \in Nat
    BY <2>3 DEF Typed, PubType
  <2> HIDE DEF event
  <2>6. /\ pub.queue \o event \in Seq(Events) /\ pub.accepted \o event \in Seq(Events)
        /\ Len(pub.queue \o event) <= PublisherQueue
    BY <2>3, <2>5, Joined, Constants DEF Typed
  <2>7. /\ pub' \in PubType /\ pub'.queue = pub.queue \o event /\ pub'.inside = pub.inside \ {g}
    BY <2>4, <2>6 DEF Typed, PubType
  <2>8. Advance(g) /\ next[g] \in DOMAIN EventsOf
    BY <1>3, <2>1, Constants DEF EndPublish
  <2>9. next' \in [Workers -> 1 .. Len(EventsOf) + 1] /\ \A h \in Workers : h # g => next'[h] = next[h]
    BY <2>8, AdvanceTyped
  <2>10. Typed'
    BY <1>3, <2>6, <2>7, <2>9 DEF EndPublish, Typed
  <2>11. pub.inside \subseteq Workers
    BY DEF Typed, PubType
  <2> QED
    BY <2>7, <2>9, <2>10, <2>11 DEF InsidePublishes
<1>4. CASE Record(g)
  <2> DEFINE event == IF Len(rec.ch) < RecorderQueue THEN <<g>> ELSE <<>>
  <2>1. rec' = [rec EXCEPT !.ch = @ \o event, !.taken = @ \o event]
    BY <1>4 DEF Record
  <2>2. /\ event \in Seq(Workers) /\ Len(event) <= 1 /\ Len(event) \in Nat
        /\ Len(rec.ch) >= RecorderQueue => Len(event) = 0
        /\ rec.ch \in Seq(Workers) /\ rec.taken \in Seq(Workers) /\ Len(rec.ch) \in Nat
    BY Constants DEF Typed, RecType
  <2> HIDE DEF event
  <2>3. /\ rec.ch \o event \in Seq(Workers) /\ rec.taken \o event \in Seq(Workers)
        /\ Len(rec.ch \o event) <= RecorderQueue
    BY <2>2, Joined, Constants DEF Typed
  <2>4. rec' \in RecType /\ rec'.ch = rec.ch \o event
    BY <2>1, <2>3 DEF Typed, RecType
  <2>5. Advance(g) /\ next[g] \in DOMAIN EventsOf /\ EventsOf[next[g]] = "telemetry"
    BY <1>4, Constants DEF Record, Recording, Turn, Ended, Typed
  <2>6. next' \in [Workers -> 1 .. Len(EventsOf) + 1] /\ \A h \in Workers : h # g => next'[h] = next[h]
    BY <2>5, AdvanceTyped
  <2>7. g \notin pub.inside /\ pub.inside \subseteq Workers
    BY <2>5 DEF InsidePublishes, Typed, PubType
  <2>8. UNCHANGED <<main, pub, writer, sock, srv>>
    BY <1>4 DEF Record
  <2> QED
    BY <2>3, <2>4, <2>6, <2>7, <2>8 DEF Typed, InsidePublishes
<1>5. CASE RecordPanics(g)
  <2>1. sock' \in SockType
    BY <1>5 DEF RecordPanics, Typed, SockType
  <2> QED
    BY <1>5, <2>1 DEF RecordPanics, Typed, InsidePublishes
<1> QED
  BY <1>1, <1>2, <1>3, <1>4, <1>5 DEF WorkerStep

LEMMA WriterStepTyped ==
    ASSUME Typed, InsidePublishes, RecorderInv, WriterStep \/ RecorderStep
    PROVE  Typed' /\ InsidePublishes'
<1>1. /\ pub.queue \in Seq(Events) /\ writer.hand \in Seq(Events) /\ sock.wire \in Seq(Events)
      /\ rec.ch \in Seq(Workers) /\ rec.taken \in Seq(Workers)
  BY DEF Typed, PubType, WriterType, SockType, RecType
<1>2. CASE Take
  <2>1. /\ Tail(pub.queue) \in Seq(Events) /\ Len(Tail(pub.queue)) <= PublisherQueue
        /\ <<Head(pub.queue)>> \in Seq(Events)
    BY <1>1, <1>2, HeadTail, Constants DEF Take, Typed
  <2>2. pub' \in PubType /\ pub'.queue = Tail(pub.queue) /\ pub'.inside = pub.inside
    BY <1>2, <2>1 DEF Take, Typed, PubType
  <2> DEFINE hand == <<Head(pub.queue)>>
  <2>3. hand \in Seq(Events) /\ Len(hand) = 1 /\ writer' = [writer EXCEPT !.hand = hand]
    BY <1>2, <2>1, ShortSeqs DEF Take
  <2>4. writer' \in WriterType /\ Len(writer'.hand) <= 1
    <3> HIDE DEF hand
    <3>1. writer \in WriterType
      BY DEF Typed
    <3>2. writer' \in WriterType /\ writer'.hand = hand
      BY <2>3, <3>1 DEF WriterType
    <3>3. Len(writer'.hand) = 1
      BY <2>3, <3>2, Zenon
    <3> QED
      BY <3>2, <3>3
  <2> QED
    BY <1>2, <2>1, <2>2, <2>4 DEF Take, Typed, InsidePublishes
<1>3. CASE Write
  <2>1. sock.wire \o writer.hand \in Seq(Events)
    BY <1>1, Joined
  <2>2. sock' \in SockType
    BY <1>3, <2>1 DEF Write, Typed, SockType
  <2>3. writer' \in WriterType /\ writer'.hand = <<>>
    BY <1>3, ShortSeqs DEF Write, Typed, WriterType
  <2> QED
    BY <1>3, <2>2, <2>3, ShortSeqs DEF Write, Typed, InsidePublishes
<1>4. ASSUME NEW failed \in BOOLEAN, WriterEnds(failed)
      PROVE  Typed' /\ InsidePublishes'
  <2>1. writer' \in WriterType /\ writer'.hand = <<>>
    BY <1>4, ShortSeqs DEF WriterEnds, WriterType
  <2>2. /\ sock' \in SockType
        /\ pub' \in PubType /\ pub'.queue = pub.queue /\ pub'.inside = pub.inside
    BY <1>4 DEF WriterEnds, Typed, SockType, PubType
  <2> QED
    BY <1>4, <2>1, <2>2, ShortSeqs DEF WriterEnds, Typed, InsidePublishes
<1>5. CASE WriteFails
  BY <1>4, <1>5 DEF WriteFails
<1>6. CASE SeeStop
  <2>1. writer' \in WriterType /\ writer'.hand = writer.hand
    BY <1>6 DEF SeeStop, Typed, WriterType
  <2> QED
    BY <1>6, <2>1 DEF SeeStop, Typed, InsidePublishes
<1>7. CASE Drained
  BY <1>4, <1>7 DEF Drained
<1>8. CASE RecorderStep
  <2>1. rec.ch # <<>> /\ UNCHANGED <<main, next, pub, writer, sock, srv>>
    BY <1>8 DEF RecorderStep, WriteTelemetry, EncodeFails
  <2>2. Tail(rec.ch) \in Seq(Workers) /\ Len(Tail(rec.ch)) <= RecorderQueue
    BY <1>1, <2>1, HeadTail, Constants DEF Typed
  <2>3. CASE WriteTelemetry
    <3>1. rec.taken # <<>>
      BY <2>1, <2>3 DEF WriteTelemetry, RecorderInv
    <3>2. Tail(rec.taken) \in Seq(Workers)
      BY <1>1, <3>1, HeadTail
    <3>3. rec' \in RecType /\ rec'.ch = Tail(rec.ch)
      BY <2>2, <2>3, <3>2 DEF WriteTelemetry, Typed, RecType
    <3> QED
      BY <2>1, <2>2, <3>3 DEF Typed, InsidePublishes
  <2>4. CASE EncodeFails
    <3>1. rec' \in RecType /\ rec'.ch = Tail(rec.ch)
      BY <2>2, <2>4 DEF EncodeFails, Typed, RecType
    <3> QED
      BY <2>1, <2>2, <3>1 DEF Typed, InsidePublishes
  <2> QED
    BY <1>8, <2>3, <2>4 DEF RecorderStep
<1> QED
  BY <1>2, <1>3, <1>5, <1>6, <1>7, <1>8 DEF WriterStep

LEMMA MainStepTyped ==
    ASSUME Typed, InsidePublishes, MainStep
    PROVE  Typed' /\ InsidePublishes'
<1>1. CASE Dial
  <2>1. /\ sock' \in SockType
        /\ pub' \in PubType /\ pub'.queue = pub.queue /\ pub'.inside = pub.inside
    BY <1>1 DEF Dial, Typed, SockType, PubType
  <2> QED
    BY <1>1, <2>1 DEF Dial, Typed, InsidePublishes
<1>2. CASE DialFails
  <2>1. pub' \in PubType /\ pub'.queue = pub.queue /\ pub'.inside = pub.inside
    BY <1>2 DEF DialFails, Typed, PubType
  <2> QED
    BY <1>2, <2>1 DEF DialFails, Typed, InsidePublishes
<1>3. CASE Greeted
  <2>1. /\ sock' \in SockType /\ writer' \in WriterType /\ writer'.hand = writer.hand
        /\ pub' \in PubType /\ pub'.queue = pub.queue /\ pub'.inside = pub.inside
    BY <1>3 DEF Greeted, Typed, SockType, PubType, WriterType
  <2> QED
    BY <1>3, <2>1 DEF Greeted, Typed, InsidePublishes
<1>4. CASE NotGreeted
  <2>1. /\ sock' \in SockType
        /\ pub' \in PubType /\ pub'.queue = pub.queue /\ pub'.inside = pub.inside
    BY <1>4 DEF NotGreeted, Typed, SockType, PubType
  <2> QED
    BY <1>4, <2>1 DEF NotGreeted, Typed, InsidePublishes
<1>5. CASE CloseRecorder
  <2>1. rec' \in RecType /\ rec'.ch = rec.ch
    BY <1>5 DEF CloseRecorder, Typed, RecType
  <2> QED
    BY <1>5, <2>1 DEF CloseRecorder, Typed, InsidePublishes
<1>6. CASE RecorderDone
  BY <1>6 DEF RecorderDone, Typed, InsidePublishes
<1>7. CASE ClosePublisher
  <2>1. pub' \in PubType /\ pub'.queue = pub.queue /\ pub'.inside = pub.inside
    BY <1>7 DEF ClosePublisher, Typed, PubType
  <2>2. main' \in {"exit", "wait"}
    BY <1>7 DEF ClosePublisher
  <2> QED
    BY <1>7, <2>1, <2>2 DEF ClosePublisher, Typed, InsidePublishes
<1>8. CASE PublisherDone
  BY <1>8 DEF PublisherDone, Typed, InsidePublishes
<1> QED
  BY <1>1, <1>2, <1>3, <1>4, <1>5, <1>6, <1>7, <1>8 DEF MainStep

ServerStep ==
    Accept \/ AddClient \/ Greet \/ Decode \/ ServeEnds \/ CloseListener \/ CloseStep

LEMMA ServerStepTyped ==
    ASSUME Typed, InsidePublishes, FlowInv, ServerStep
    PROVE  Typed' /\ InsidePublishes'
<1>1. pub.accepted \in Seq(Events) /\ sock.wire \in Seq(Events)
  BY DEF Typed, PubType, SockType
<1>2. ASSUME srv' \in SrvType, sock' \in SockType, UNCHANGED <<main, next, pub, writer, rec>>
      PROVE  Typed' /\ InsidePublishes'
  BY <1>2 DEF Typed, InsidePublishes
<1>3. CASE Decode
  <2>1. sock.wire # <<>> /\ Tail(sock.wire) \in Seq(Events)
    BY <1>1, <1>3, HeadTail DEF Decode
  <2>2. PICK rest \in Seq(Events) : pub.accepted = sock.wire \o rest
    BY DEF FlowInv
  <2>3. Tail(pub.accepted) \in Seq(Events)
    BY <1>1, <2>1, <2>2, HeadOfJoined
  <2>4. sock' \in SockType /\ srv' \in SrvType
    BY <1>3, <2>1 DEF Decode, Typed, SrvType, SockType
  <2>5. pub' \in PubType /\ pub'.queue = pub.queue /\ pub'.inside = pub.inside
    BY <1>3, <2>3 DEF Decode, Typed, PubType
  <2> QED
    BY <1>3, <2>4, <2>5 DEF Decode, Typed, InsidePublishes
<1>4. CASE Accept \/ AddClient \/ AcceptFails \/ ClientsDone
  <2>1. srv' \in SrvType
    BY <1>4 DEF Accept, AddClient, AcceptFails, ClientsDone, Typed, SrvType
  <2>2. sock' = sock /\ UNCHANGED <<main, next, pub, writer, rec>>
    BY <1>4 DEF Accept, AddClient, AcceptFails, ClientsDone
  <2> QED
    BY <1>2, <2>1, <2>2 DEF Typed
<1>5. CASE Greet
  BY <1>2, <1>5 DEF Greet, Typed, SrvType, SockType
<1>6. CASE ServeEnds
  BY <1>2, <1>6 DEF ServeEnds, Typed, SrvType, SockType
<1>7. CASE CloseListener
  BY <1>2, <1>7 DEF CloseListener, Typed, SrvType, SockType
<1>8. CASE CloseClients
  BY <1>2, <1>8 DEF CloseClients, Typed, SrvType, SockType
<1> QED
  BY <1>3, <1>4, <1>5, <1>6, <1>7, <1>8 DEF ServerStep, CloseStep

LEMMA StepTyped ==
    ASSUME Typed, InsidePublishes, RecorderInv, FlowInv, [Next]_vars
    PROVE  Typed' /\ InsidePublishes'
<1>1. CASE UNCHANGED vars
  BY <1>1 DEF vars, Typed, InsidePublishes
<1>2. CASE Next
  BY <1>2, WorkerStepTyped, WriterStepTyped, MainStepTyped, ServerStepTyped
     DEF Next, ServerStep
<1> QED
  BY <1>1, <1>2

-----------------------------------------------------------------------------
(* The recorder. *)

LEMMA StepRecorder ==
    ASSUME Typed, RecorderInv, [Next]_vars
    PROVE  RecorderInv'
<1>1. rec.ch \in Seq(Workers) /\ rec.taken \in Seq(Workers) /\ rec \in RecType
  BY DEF Typed, RecType
<1>2. CASE rec' = rec /\ main' = main
  BY <1>2 DEF RecorderInv
<1>3. ASSUME NEW g \in Workers, Record(g)
      PROVE  RecorderInv'
  <2> DEFINE event == IF Len(rec.ch) < RecorderQueue THEN <<g>> ELSE <<>>
  <2>1. rec' = [rec EXCEPT !.ch = @ \o event, !.taken = @ \o event]
    BY <1>3 DEF Record
  <2> HIDE DEF event
  <2>2. /\ rec'.ch = rec.ch \o event /\ rec'.taken = rec.taken \o event
        /\ rec'.inOrder = rec.inOrder /\ rec'.failed = rec.failed
        /\ rec'.closed = rec.closed /\ main' = main /\ ~ rec.closed
    BY <1>1, <1>3, <2>1 DEF Record, RecType
  <2> QED
    BY <2>2, Zenon DEF RecorderInv
<1>4. CASE RecorderStep
  <2>1. CASE WriteTelemetry
    <3>1. /\ rec'.ch = Tail(rec.ch) /\ rec'.taken = Tail(rec.taken)
          /\ rec'.inOrder = (rec.inOrder /\ Head(rec.ch) = Head(rec.taken))
          /\ rec'.failed = rec.failed /\ rec'.closed = rec.closed /\ main' = main
      BY <1>1, <2>1 DEF WriteTelemetry, RecType
    <3>2. ~ rec.failed /\ rec.ch # <<>>
      BY <2>1 DEF WriteTelemetry
    <3> QED
      BY <3>1, <3>2, Zenon DEF RecorderInv
  <2>2. CASE EncodeFails
    <3>1. /\ rec'.inOrder = rec.inOrder /\ rec'.failed
          /\ rec'.closed = rec.closed /\ main' = main /\ rec.ch # <<>>
      BY <1>1, <2>2 DEF EncodeFails, RecType
    <3> QED
      BY <3>1 DEF RecorderInv
  <2> QED
    BY <1>4, <2>1, <2>2 DEF RecorderStep
<1>5. CASE MainStep
  <2>1. CASE CloseRecorder
    <3>1. /\ rec'.closed /\ rec'.ch = rec.ch /\ rec'.taken = rec.taken
          /\ rec'.inOrder = rec.inOrder /\ rec'.failed = rec.failed
          /\ main' = "flush"
      BY <1>1, <2>1 DEF CloseRecorder, RecType
    <3> QED
      BY <3>1 DEF RecorderInv
  <2>2. CASE RecorderDone
    BY <2>2 DEF RecorderDone, RecorderInv
  <2>3. CASE Dial \/ DialFails \/ Greeted \/ NotGreeted
    <3>1. rec' = rec /\ main' \in {"run", main}
      BY <2>3 DEF Dial, DialFails, Greeted, NotGreeted
    <3> QED
      BY <3>1 DEF RecorderInv
  <2>4. CASE ClosePublisher \/ PublisherDone
    <3>1. rec' = rec /\ main \in {"close", "wait"} /\ main' \in {"wait", "exit"}
      BY <2>4 DEF ClosePublisher, PublisherDone
    <3> QED
      BY <3>1 DEF RecorderInv
  <2> QED
    BY <1>5, <2>1, <2>2, <2>3, <2>4 DEF MainStep
<1>6. ASSUME NEW g \in Workers, RecordPanics(g)
      PROVE  RecorderInv'
  BY <1>6 DEF RecordPanics, RecorderInv
<1>7. ASSUME NEW g \in Workers, SkipEvent(g) \/ BeginPublish(g) \/ EndPublish(g)
      PROVE  rec' = rec /\ main' = main
  BY <1>7 DEF SkipEvent, BeginPublish, EndPublish
<1>8. WriterStep \/ ServerStep => rec' = rec /\ main' = main
  BY DEF WriterStep, Take, Write, WriteFails, WriterEnds, SeeStop, Drained, ServerStep,
         Accept, AddClient, Greet, Decode, ServeEnds, CloseListener, CloseStep, AcceptFails,
         CloseClients, ClientsDone
<1>9. CASE UNCHANGED vars
  BY <1>2, <1>9 DEF vars
<1> QED
  BY <1>2, <1>3, <1>4, <1>5, <1>6, <1>7, <1>8, <1>9 DEF Next, WorkerStep, ServerStep

-----------------------------------------------------------------------------
(* The publisher and its writer. *)

LEMMA StepStages ==
    ASSUME Typed, RecorderInv, StagesInv, [Next]_vars
    PROVE  StagesInv'
<1>1. pub \in PubType /\ writer \in WriterType
  BY DEF Typed
<1>2. CASE pub' = pub /\ writer' = writer /\ main' = main
  BY <1>2 DEF StagesInv
<1>3. ASSUME NEW g \in Workers, SkipEvent(g) \/ Record(g)
      PROVE  pub' = pub /\ writer' = writer /\ main' = main
  BY <1>3 DEF SkipEvent, Record
<1>4. CASE RecorderStep \/ ServerStep
  <2>1. writer' = writer /\ main' = main
    BY <1>4 DEF RecorderStep, WriteTelemetry, EncodeFails, ServerStep, Accept, AddClient, Greet,
       Decode, ServeEnds, CloseListener, CloseStep, AcceptFails, CloseClients, ClientsDone
  <2>2. /\ pub'.mode = pub.mode /\ pub'.closed = pub.closed /\ pub'.inside = pub.inside
        /\ pub'.connected = pub.connected /\ pub'.queue = pub.queue
    BY <1>1, <1>4 DEF RecorderStep, WriteTelemetry, EncodeFails, ServerStep, Accept, AddClient,
       Greet, Decode, ServeEnds, CloseListener, CloseStep, AcceptFails, CloseClients,
       ClientsDone, PubType
  <2> QED
    BY <2>1, <2>2 DEF StagesInv
<1>5. ASSUME NEW g \in Workers, RecordPanics(g)
      PROVE  StagesInv'
  BY <1>5 DEF RecordPanics, StagesInv, RecorderInv
<1>6. ASSUME NEW g \in Workers, BeginPublish(g)
      PROVE  StagesInv'
  <2>1. /\ pub'.inside = pub.inside \cup {g} /\ ~ pub.closed
        /\ pub'.mode = pub.mode /\ pub'.closed = pub.closed /\ pub'.queue = pub.queue
        /\ pub'.connected = pub.connected
    BY <1>1, <1>6 DEF BeginPublish, Publishable, PubType
  <2> QED
    BY <1>6, <2>1 DEF BeginPublish, StagesInv
<1>7. ASSUME NEW g \in Workers, EndPublish(g)
      PROVE  StagesInv'
  <2>1. /\ g \in pub.inside /\ pub'.inside = pub.inside \ {g}
        /\ pub'.mode = pub.mode /\ pub'.closed = pub.closed
        /\ pub'.connected = pub.connected
    BY <1>1, <1>7 DEF EndPublish, PubType
  <2>2. ~ pub.closed /\ writer' = writer /\ main' = main
    BY <1>7, <2>1 DEF EndPublish, StagesInv
  <2> QED
    BY <2>1, <2>2 DEF StagesInv
<1>8. CASE Take
  <2>1. /\ writer'.at = writer.at /\ writer'.failed = writer.failed
        /\ writer.at \in {"select", "drain"}
        /\ pub'.mode = pub.mode /\ pub'.closed = pub.closed /\ pub'.inside = pub.inside
        /\ pub'.connected = pub.connected
    BY <1>1, <1>8 DEF Take, PubType, WriterType
  <2> QED
    BY <1>8, <2>1 DEF Take, StagesInv, Running
<1>9. CASE Write
  <2>1. writer'.at = writer.at /\ writer'.failed = writer.failed /\ writer'.hand = <<>>
    BY <1>1, <1>9 DEF Write, WriterType
  <2> QED
    BY <1>9, <2>1 DEF Write, StagesInv
<1>10. ASSUME NEW failed \in BOOLEAN, WriterEnds(failed), writer.at # "off",
              ~ failed => pub.queue = <<>> /\ writer.at = "drain" /\ ~ writer.failed
       PROVE  StagesInv'
  <2>1. /\ pub'.mode = pub.mode /\ pub'.closed = pub.closed /\ pub'.inside = pub.inside
        /\ pub'.queue = pub.queue /\ ~ pub'.connected /\ main' = main
        /\ writer'.at = "done" /\ writer'.hand = <<>> /\ writer'.failed = failed
    BY <1>1, <1>10 DEF WriterEnds, PubType
  <2> QED
    BY <1>10, <2>1 DEF StagesInv
<1>11. CASE WriteFails
  BY <1>10, <1>11 DEF WriteFails, StagesInv
<1>12. CASE Drained
  BY <1>10, <1>12 DEF Drained, StagesInv
<1>13. CASE SeeStop
  <2>1. /\ writer'.at = "drain" /\ writer'.failed = writer.failed /\ writer'.hand = writer.hand
        /\ writer.at = "select" /\ pub.closed
    BY <1>1, <1>13 DEF SeeStop, WriterType
  <2> QED
    BY <1>13, <2>1 DEF SeeStop, StagesInv, Running
<1>14. CASE MainStep
  <2>1. CASE Dial \/ DialFails \/ NotGreeted
    <3>1. /\ pub'.closed = pub.closed /\ pub'.inside = pub.inside /\ pub'.queue = pub.queue
          /\ writer' = writer /\ pub.mode \in {"dialing", "greeting"}
          /\ pub'.connected = pub.connected
          /\ \/ pub'.mode = "greeting" /\ main' = main
             \/ pub'.mode = "noop" /\ main' = "run"
      BY <1>1, <2>1 DEF Dial, DialFails, NotGreeted, PubType
    <3> QED
      BY <3>1 DEF StagesInv
  <2>2. CASE Greeted
    <3>1. /\ pub'.closed = pub.closed /\ pub'.inside = pub.inside /\ pub'.queue = pub.queue
          /\ pub'.mode = "up" /\ pub.mode = "greeting" /\ main' = "run"
          /\ writer'.at = "select" /\ writer'.hand = writer.hand
          /\ writer'.failed = writer.failed
      BY <1>1, <2>2 DEF Greeted, PubType, WriterType
    <3> QED
      BY <3>1 DEF StagesInv
  <2>3. CASE CloseRecorder \/ RecorderDone
    BY <2>3 DEF CloseRecorder, RecorderDone, StagesInv
  <2>4. CASE ClosePublisher
    <3>1. /\ pub'.closed /\ pub'.inside = {} /\ pub'.queue = pub.queue
          /\ pub'.mode = pub.mode /\ writer' = writer /\ main = "close"
          /\ pub'.connected = pub.connected
          /\ main' = IF pub.mode = "noop" THEN "exit" ELSE "wait"
      BY <1>1, <2>4 DEF ClosePublisher, PubType
    <3> QED
      BY <3>1 DEF StagesInv
  <2>5. CASE PublisherDone
    BY <2>5 DEF PublisherDone, StagesInv
  <2> QED
    BY <1>14, <2>1, <2>2, <2>3, <2>4, <2>5 DEF MainStep
<1>15. CASE UNCHANGED vars
  BY <1>2, <1>15 DEF vars
<1> QED
  BY <1>2, <1>3, <1>4, <1>5, <1>6, <1>7, <1>8, <1>9, <1>11, <1>12, <1>13, <1>14, <1>15
     DEF Next, WorkerStep, WriterStep, ServerStep

-----------------------------------------------------------------------------
(* The events on their way. *)

\* Take moves the head of the queue to the hand.
LEMMA QueueToHand ==
    ASSUME NEW S, NEW s \in Seq(S), NEW q \in Seq(S), q # <<>>
    PROVE  (s \o <<Head(q)>>) \o Tail(q) = (s \o <<>>) \o q
<1> DEFINE head == <<Head(q)>>
           tail == Tail(q)
<1>1. head \in Seq(S) /\ tail \in Seq(S) /\ head \o tail = q
  BY HeadTail
<1> HIDE DEF head
<1> HIDE DEF tail
<1>2. (s \o head) \o tail = s \o (head \o tail)
  <2>1. head \in Seq(S) /\ tail \in Seq(S)
    BY <1>1
  <2> QED
    BY <2>1, Regrouped
<1>3. s \o <<>> = s
  BY Joined
<1> QED
  BY <1>1, <1>2, <1>3, Zenon DEF head, tail

LEMMA EventsRegrouped ==
    \A s, t, u \in Seq(Events) : (s \o t) \o u = s \o (t \o u)
BY Regrouped

LEMMA EventsJoined ==
    \A s, t \in Seq(Events) : s \o t \in Seq(Events) /\ s \o <<>> = s
BY Joined

LEMMA FlowTypes ==
    ASSUME Typed
    PROVE  /\ pub.queue \in Seq(Events) /\ pub.accepted \in Seq(Events)
           /\ writer.hand \in Seq(Events) /\ sock.wire \in Seq(Events)
BY DEF Typed, PubType, WriterType, SockType

LEMMA PublishFlow ==
    ASSUME Typed, InsidePublishes, FlowInv, NEW g \in Workers, EndPublish(g)
    PROVE  FlowInv'
<1> DEFINE event == IF Len(pub.queue) < PublisherQueue THEN <<<<g, next[g]>>>> ELSE <<>>
           hand == writer.hand
           queue == pub.queue
           wire == sock.wire
<1>1. event \in Seq(Events)
  BY DEF EndPublish, InsidePublishes, Events
<1>2. pub' = [pub EXCEPT !.queue = @ \o event, !.accepted = @ \o event, !.inside = @ \ {g}]
  BY DEF EndPublish
<1>3. wire \in Seq(Events) /\ hand \in Seq(Events) /\ queue \in Seq(Events)
  BY FlowTypes
<1> HIDE DEF event
<1>4. /\ pub'.queue = queue \o event /\ pub'.accepted = pub.accepted \o event
      /\ writer' = writer /\ sock'.wire = wire /\ srv' = srv
  BY <1>2 DEF Typed, PubType, EndPublish
<1>5. ~ writer.failed => (wire \o hand) \o queue = pub.accepted
  BY DEF FlowInv
<1>6. PICK rest \in Seq(Events) : pub.accepted = wire \o rest
  BY DEF FlowInv
<1> HIDE DEF hand, queue, wire
<1>7. (wire \o hand) \o (queue \o event) = ((wire \o hand) \o queue) \o event
  <2>1. event \in Seq(Events) /\ wire \in Seq(Events) /\ hand \in Seq(Events) /\ queue \in Seq(Events)
    BY <1>1, <1>3
  <2>2. wire \o hand \in Seq(Events)
    BY <2>1, EventsJoined, Zenon
  <2> QED
    BY <2>1, <2>2, EventsRegrouped, Zenon
<1>8. (wire \o rest) \o event = wire \o (rest \o event) /\ rest \o event \in Seq(Events)
  <2>1. rest \o event \in Seq(Events)
    BY <1>1, EventsJoined, Zenon
  <2>2. wire \in Seq(Events) /\ rest \in Seq(Events) /\ event \in Seq(Events)
    BY <1>1, <1>3
  <2>3. (wire \o rest) \o event = wire \o (rest \o event)
    BY <2>2, EventsRegrouped, Zenon
  <2> QED
    BY <2>1, <2>3
<1>9. \E more \in Seq(Events) : pub'.accepted = sock'.wire \o more
  BY <1>4, <1>6, <1>8, Zenon
<1>10. ~ writer'.failed => (sock'.wire \o writer'.hand) \o pub'.queue = pub'.accepted
  <2>1. ~ writer.failed => (wire \o hand) \o (queue \o event) = pub.accepted \o event
    BY <1>5, <1>7, Zenon
  <2> QED
    BY <1>4, <2>1, Zenon DEF hand
<1>11. srv'.inOrder
  BY <1>4, Zenon DEF FlowInv
<1> QED
  BY <1>9, <1>10, <1>11, Zenon DEF FlowInv

LEMMA WriterFlow ==
    ASSUME Typed, StagesInv, FlowInv, WriterStep
    PROVE  FlowInv'
<1> DEFINE hand == writer.hand
           queue == pub.queue
           wire == sock.wire
<1>1. hand \in Seq(Events) /\ queue \in Seq(Events) /\ wire \in Seq(Events)
  BY FlowTypes
<1>2. srv.inOrder /\ (~ writer.failed => (wire \o hand) \o queue = pub.accepted)
  BY DEF FlowInv
<1>3. PICK rest \in Seq(Events) : pub.accepted = wire \o rest
  BY DEF FlowInv
<1>4. CASE Take
  <2>1. /\ queue # <<>> /\ hand = <<>> /\ pub'.queue = Tail(queue)
        /\ pub'.accepted = pub.accepted /\ sock'.wire = wire /\ srv' = srv
        /\ writer'.hand = <<Head(queue)>> /\ writer'.failed = writer.failed
    BY <1>4 DEF Take, Typed, PubType, WriterType
  <2> HIDE DEF hand, queue, wire
  <2>2. (wire \o <<Head(queue)>>) \o Tail(queue) = (wire \o <<>>) \o queue
    BY <1>1, <2>1, QueueToHand
  <2>3. ~ writer'.failed => (sock'.wire \o writer'.hand) \o pub'.queue = pub'.accepted
    BY <1>2, <2>1, <2>2, Zenon
  <2> QED
    BY <1>2, <1>3, <2>1, <2>3, Zenon DEF FlowInv
<1>5. CASE Write
  <2>1. /\ pub' = pub /\ sock'.wire = wire \o hand /\ srv' = srv
        /\ writer'.hand = <<>> /\ writer'.failed = writer.failed /\ ~ writer.failed
    <3>1. ~ writer.failed
      BY <1>5 DEF Write, StagesInv
    <3> QED
      BY <1>5, <3>1 DEF Write, Typed, SockType, WriterType
  <2> HIDE DEF hand, wire
  <2>2. queue \in Seq(Events)
    BY <1>1
  <2>3. (wire \o hand) \o queue = pub.accepted
    BY <1>2, <2>1
  <2> HIDE DEF queue
  <2>4. wire \o hand \in Seq(Events)
    BY <1>1, EventsJoined, Zenon
  <2>5. (wire \o hand) \o <<>> = wire \o hand
    BY <2>4, EventsJoined, Zenon
  <2>6. (sock'.wire \o <<>>) \o queue = pub.accepted /\ sock'.wire \o queue = pub.accepted
    BY <2>1, <2>3, <2>5, Zenon
  <2> QED
    BY <1>2, <2>1, <2>2, <2>6, Zenon DEF FlowInv, queue
<1>6. ASSUME NEW failed \in BOOLEAN, WriterEnds(failed),
             ~ failed => ~ writer.failed /\ hand = <<>>
      PROVE  FlowInv'
  <2>1. /\ pub'.queue = queue /\ pub'.accepted = pub.accepted /\ srv' = srv
        /\ sock'.wire = wire /\ writer'.hand = <<>> /\ writer'.failed = failed
    BY <1>6 DEF WriterEnds, Typed, PubType, SockType
  <2> HIDE DEF queue, wire
  <2> QED
    BY <1>2, <1>3, <1>6, <2>1, Zenon DEF FlowInv
<1>7. CASE WriteFails
  BY <1>6, <1>7 DEF WriteFails
<1>8. CASE Drained
  BY <1>6, <1>8 DEF Drained, StagesInv
<1>9. CASE SeeStop
  <2>1. /\ pub' = pub /\ sock' = sock /\ srv' = srv
        /\ writer'.hand = writer.hand /\ writer'.failed = writer.failed
    BY <1>9 DEF SeeStop, Typed, WriterType
  <2> QED
    BY <2>1, Zenon DEF FlowInv
<1> QED
  BY <1>4, <1>5, <1>7, <1>8, <1>9 DEF WriterStep

\* What is decoded is the first event on its way, and the rest stays on it.
LEMMA DecodeFlow ==
    ASSUME Typed, FlowInv, Decode
    PROVE  FlowInv'
<1> DEFINE hand == writer.hand
           queue == pub.queue
           wire == sock.wire
           behind == hand \o queue
<1>1. /\ srv'.inOrder = (srv.inOrder /\ Head(wire) = Head(pub.accepted))
      /\ pub'.accepted = Tail(pub.accepted) /\ pub'.queue = queue
      /\ sock'.wire = Tail(wire) /\ writer' = writer /\ wire # <<>>
  BY DEF Decode, Typed, PubType, SockType, SrvType
<1>2. hand \in Seq(Events) /\ queue \in Seq(Events) /\ wire \in Seq(Events)
  BY FlowTypes
<1>3. srv.inOrder /\ (~ writer.failed => (wire \o hand) \o queue = pub.accepted)
  BY DEF FlowInv
<1>4. PICK rest \in Seq(Events) : pub.accepted = wire \o rest
  BY DEF FlowInv
<1>5. ~ writer.failed => (Tail(wire) \o hand) \o queue = Tail(pub.accepted)
  <2> SUFFICES ASSUME ~ writer.failed PROVE (Tail(wire) \o hand) \o queue = Tail(pub.accepted)
    OBVIOUS
  <2>1. behind \in Seq(Events)
    BY <1>2, EventsJoined, Zenon
  <2>2. Tail(wire) \in Seq(Events)
    BY <1>1, <1>2, HeadTail
  <2> DEFINE tail == Tail(wire)
  <2> HIDE DEF hand, queue, wire, tail
  <2>3. (wire \o hand) \o queue = wire \o behind
    BY <1>2, EventsRegrouped, Zenon
  <2>4. (tail \o hand) \o queue = tail \o behind
    BY <1>2, <2>2, EventsRegrouped, Zenon DEF tail
  <2> HIDE DEF behind
  <2>5. Tail(wire \o behind) = Tail(wire) \o behind
    BY <1>1, <1>2, <2>1, HeadOfJoined
  <2> QED
    BY <1>3, <2>3, <2>4, <2>5, Zenon DEF tail
<1> HIDE DEF wire
<1>6. Head(wire \o rest) = Head(wire) /\ Tail(wire \o rest) = Tail(wire) \o rest
  BY <1>1, <1>2, HeadOfJoined
<1>7. srv'.inOrder /\ \E more \in Seq(Events) : pub'.accepted = sock'.wire \o more
  BY <1>1, <1>3, <1>4, <1>6, Zenon
<1>8. ~ writer'.failed => (sock'.wire \o writer'.hand) \o pub'.queue = pub'.accepted
  BY <1>1, <1>5, Zenon
<1> QED
  BY <1>7, <1>8, Zenon DEF FlowInv

LEMMA StepFlow ==
    ASSUME Typed, InsidePublishes, StagesInv, FlowInv, [Next]_vars
    PROVE  FlowInv'
<1>1. ASSUME pub'.queue = pub.queue, pub'.accepted = pub.accepted, sock'.wire = sock.wire,
             writer'.hand = writer.hand, writer'.failed = writer.failed,
             srv'.inOrder = srv.inOrder
      PROVE  FlowInv'
  BY <1>1, Zenon DEF FlowInv
<1>2. CASE MainStep
  <2>1. /\ pub'.queue = pub.queue /\ pub'.accepted = pub.accepted
        /\ srv' = srv /\ sock'.wire = sock.wire
    BY <1>2 DEF MainStep, Dial, DialFails, Greeted, NotGreeted, CloseRecorder, RecorderDone,
       ClosePublisher, PublisherDone, Typed, PubType, SockType
  <2>2. writer'.hand = writer.hand /\ writer'.failed = writer.failed
    BY <1>2 DEF MainStep, Dial, DialFails, Greeted, NotGreeted, CloseRecorder, RecorderDone,
       ClosePublisher, PublisherDone, Typed, WriterType
  <2> QED
    BY <1>1, <2>1, <2>2
<1>3. ASSUME NEW g \in Workers, WorkerStep(g)
      PROVE  FlowInv'
  <2>1. CASE SkipEvent(g) \/ BeginPublish(g) \/ Record(g) \/ RecordPanics(g)
    BY <1>1, <2>1 DEF SkipEvent, BeginPublish, Record, RecordPanics, Typed, PubType, SockType
  <2> QED
    BY <1>3, <2>1, PublishFlow DEF WorkerStep
<1>4. CASE RecorderStep
  BY <1>1, <1>4 DEF RecorderStep, WriteTelemetry, EncodeFails
<1>5. CASE Accept \/ AddClient \/ Greet \/ ServeEnds \/ CloseListener \/ CloseStep
  <2>1. pub' = pub /\ writer' = writer
    BY <1>5 DEF Accept, AddClient, Greet, ServeEnds, CloseListener,
                CloseStep, AcceptFails, CloseClients, ClientsDone
  <2>2. srv'.inOrder = srv.inOrder /\ sock'.wire = sock.wire
    BY <1>5 DEF Accept, AddClient, Greet, ServeEnds, CloseListener, CloseStep, AcceptFails,
                CloseClients, ClientsDone, Typed, SrvType, SockType
  <2> QED
    BY <1>1, <2>1, <2>2
<1>6. CASE UNCHANGED vars
  BY <1>1, <1>6 DEF vars
<1> QED
  BY <1>2, <1>3, <1>4, <1>5, <1>6, WriterFlow, DecodeFlow DEF Next

-----------------------------------------------------------------------------
(* The server. *)

LEMMA StepServer ==
    ASSUME Typed, ServerInv, [Next]_vars
    PROVE  ServerInv'
<1>1. srv \in SrvType /\ sock \in SockType
  BY DEF Typed
<1>2. ASSUME srv' = srv, sock'.server = sock.server, pub'.mode \in {"greeting", "up", "noop"} \cup {pub.mode}
      PROVE  ServerInv'
  BY <1>2 DEF ServerInv
<1>3. CASE Dial
  <2>1. srv' = srv /\ srv.listening /\ sock.server = "none" /\ sock'.server = "open"
    BY <1>1, <1>3 DEF Dial, ServerInv, SockType
  <2>2. pub'.mode # "dialing"
    BY <1>3 DEF Dial, Typed, PubType
  <2> QED
    BY <2>1, <2>2 DEF ServerInv
<1>4. CASE DialFails \/ Greeted \/ NotGreeted \/ CloseRecorder \/ RecorderDone \/ ClosePublisher \/ PublisherDone
  <2>1. srv' = srv /\ sock'.server = sock.server
    BY <1>1, <1>4 DEF DialFails, Greeted, NotGreeted, CloseRecorder, RecorderDone,
                      ClosePublisher, PublisherDone, SockType
  <2>2. pub'.mode \in {"greeting", "up", "noop"} \cup {pub.mode}
    BY <1>4 DEF DialFails, Greeted, NotGreeted, CloseRecorder, RecorderDone,
                ClosePublisher, PublisherDone, Typed, PubType
  <2> QED
    BY <1>2, <2>1, <2>2
<1>5. ASSUME WriterStep \/ RecorderStep \/ \E g \in Workers : WorkerStep(g)
      PROVE  ServerInv'
  <2>1. srv' = srv /\ sock'.server = sock.server
    BY <1>1, <1>5 DEF WriterStep, RecorderStep, WriteTelemetry, EncodeFails, WorkerStep, Take, Write, WriteFails, WriterEnds,
                      SeeStop, Drained, SkipEvent, BeginPublish, EndPublish, Record,
                      RecordPanics, SockType
  <2>2. pub'.mode = pub.mode
    BY <1>5 DEF WriterStep, RecorderStep, WriteTelemetry, EncodeFails, WorkerStep, Take, Write, WriteFails, WriterEnds,
                SeeStop, Drained, SkipEvent, BeginPublish, EndPublish, Record,
                RecordPanics, Typed, PubType
  <2> QED
    BY <1>2, <2>1, <2>2
<1>6. CASE ServerStep
  <2>1. pub'.mode = pub.mode
    BY <1>6 DEF ServerStep, Accept, AddClient, Greet, Decode, ServeEnds, CloseListener,
                CloseStep, AcceptFails, CloseClients, ClientsDone, Typed, PubType
  <2>2. CASE Accept
    BY <1>1, <2>1, <2>2 DEF Accept, ServerInv, SrvType
  <2>3. CASE AddClient
    BY <1>1, <2>1, <2>3 DEF AddClient, ServerInv, SrvType
  <2>4. CASE Greet
    BY <1>1, <2>1, <2>4 DEF Greet, ServerInv, SrvType, SockType
  <2>5. CASE Decode
    <3>1. /\ srv'.closing = srv.closing /\ srv'.serving = srv.serving
          /\ srv'.acceptor = srv.acceptor /\ srv'.listening = srv.listening
          /\ sock'.server = sock.server
      BY <1>1, <2>5 DEF Decode, SrvType, SockType
    <3> QED
      BY <2>1, <3>1 DEF ServerInv
  <2>6. CASE ServeEnds
    BY <1>1, <2>1, <2>6 DEF ServeEnds, ServerInv, SrvType, SockType
  <2>7. CASE CloseListener
    BY <1>1, <2>1, <2>7 DEF CloseListener, ServerInv, SrvType, SockType
  <2>8. CASE AcceptFails
    BY <1>1, <2>1, <2>8 DEF AcceptFails, ServerInv, SrvType
  <2>9. CASE CloseClients
    BY <1>1, <2>1, <2>9 DEF CloseClients, ServerInv, SrvType, SockType
  <2>10. CASE ClientsDone
    BY <1>1, <2>1, <2>10 DEF ClientsDone, ServerInv, SrvType
  <2> QED
    BY <1>6, <2>2, <2>3, <2>4, <2>5, <2>6, <2>7, <2>8, <2>9, <2>10 DEF ServerStep, CloseStep
<1>7. CASE UNCHANGED vars
  BY <1>2, <1>7 DEF vars
<1> QED
  BY <1>3, <1>4, <1>5, <1>6, <1>7 DEF Next, MainStep, ServerStep
-----------------------------------------------------------------------------
(* The theorems. *)

Inv == Typed /\ InsidePublishes /\ RecorderInv /\ StagesInv /\ FlowInv /\ ServerInv

LEMMA InitInv == Init => Inv
<1> SUFFICES ASSUME Init PROVE Inv
  OBVIOUS
<1>1. Typed /\ InsidePublishes
  BY InitTyped
<1>2. /\ rec.inOrder /\ rec.ch = <<>> /\ rec.taken = <<>> /\ ~ rec.closed
      /\ main = "connect"
  BY DEF Init
<1>3. /\ pub.queue = <<>> /\ pub.accepted = <<>> /\ writer.hand = <<>>
      /\ srv.inOrder /\ sock.wire = <<>>
  BY DEF Init
<1>4. <<>> \in Seq(Events) /\ <<>> \o <<>> = <<>>
  BY ShortSeqs, Joined
<1>5. RecorderInv
  BY <1>2, <1>4 DEF RecorderInv
<1>6. StagesInv
  BY DEF Init, StagesInv
<1>7. FlowInv
  BY <1>3, <1>4, Zenon DEF FlowInv
<1>8. ServerInv
  BY DEF Init, ServerInv
<1> QED
  BY <1>1, <1>5, <1>6, <1>7, <1>8 DEF Inv

LEMMA StepInv == Inv /\ [Next]_vars => Inv'
BY StepTyped, StepRecorder, StepStages, StepFlow, StepServer DEF Inv

LEMMA Invariant == Spec => []Inv
BY InitInv, StepInv, PTL DEF Spec

(***************************************************************************)
(* Every variable keeps its type: no channel holds more than its capacity. *)
(***************************************************************************)
THEOREM TypeCorrect == Spec => []TypeOK
<1>1. Inv => TypeOK
  BY TypedIsTypeOK DEF Inv
<1> QED
  BY <1>1, Invariant, PTL

(***************************************************************************)
(* No event that a channel took is lost, doubled or overtaken before it is *)
(* decoded or written to the file, unless a write fails; then what was     *)
(* decoded or written is the beginning of what was taken.                  *)
(***************************************************************************)
THEOREM NoEventIsLost == Spec => []NothingLost
<1>1. Inv => NothingLost
  <2> SUFFICES ASSUME Inv PROVE NothingLost
    OBVIOUS
  <2>1. PICK rest \in Seq(Events) : pub.accepted = sock.wire \o rest
    BY DEF Inv, FlowInv
  <2>2. sock.wire \in Seq(Events)
    BY FlowTypes DEF Inv
  <2>3. IsPrefix(sock.wire, pub.accepted)
    BY <2>1, <2>2, PrefixOfJoined
  <2> QED
    BY <2>3, Zenon DEF Inv, FlowInv, RecorderInv, NothingLost
<1> QED
  BY <1>1, Invariant, PTL

(***************************************************************************)
(* When Close of a sink has returned, its channel is empty, and all that   *)
(* the channel took has been written unless a write failed.                *)
(***************************************************************************)
THEOREM CloseWaitsForTheLast == Spec => []CloseDrains
<1>1. Inv => CloseDrains
  <2> SUFFICES ASSUME Inv PROVE CloseDrains
    OBVIOUS
  <2>1. ASSUME main \in {"close", "wait", "exit"}
        PROVE  rec.ch = <<>> /\ (rec.failed \/ rec.taken = <<>>)
    BY <2>1 DEF Inv, RecorderInv
  <2>2. ASSUME main = "exit", pub.mode = "up", ~ writer.failed
        PROVE  sock.wire = pub.accepted
    <3>1. writer.hand = <<>> /\ pub.queue = <<>>
      BY <2>2 DEF Inv, StagesInv
    <3>2. (sock.wire \o writer.hand) \o pub.queue = pub.accepted
      BY <2>2 DEF Inv, FlowInv
    <3>3. sock.wire \in Seq(Events)
      BY FlowTypes DEF Inv
    <3>4. sock.wire \o <<>> = sock.wire
      BY <3>3, Joined
    <3> QED
      BY <3>1, <3>2, <3>4, Zenon
  <2> QED
    BY <2>1, <2>2 DEF CloseDrains
<1> QED
  BY <1>1, Invariant, PTL

(***************************************************************************)
(* Nothing enters the publisher's queue once Close has marked it closed,   *)
(* and no Publish that sees the writer's end begins.                       *)
(***************************************************************************)
THEOREM PublishingEnds == Spec => PublishEnds
<1> DEFINE A == /\ pub.closed => Len(pub'.queue) <= Len(pub.queue)
                /\ writer.at = "done" => pub'.inside \subseteq pub.inside
<1>1. Inv /\ [Next]_vars => [A]_vars
  <2> SUFFICES ASSUME Inv, [Next]_vars PROVE A
    OBVIOUS
  <2>1. pub \in PubType /\ Len(pub.queue) \in Nat
    BY DEF Inv, Typed, PubType
  <2>2. CASE pub'.queue = pub.queue /\ pub'.inside = pub.inside
    BY <2>1, <2>2
  <2>3. ASSUME NEW g \in Workers, BeginPublish(g)
        PROVE  A
    <3>1. pub'.queue = pub.queue /\ pub.connected
      BY <2>1, <2>3 DEF BeginPublish, Publishable, PubType
    <3>2. writer.at # "done"
      BY <3>1 DEF Inv, StagesInv
    <3> QED
      BY <2>1, <3>1, <3>2
  <2>4. ASSUME NEW g \in Workers, EndPublish(g)
        PROVE  A
    <3>1. pub'.inside = pub.inside \ {g} /\ g \in pub.inside
      BY <2>1, <2>4 DEF EndPublish, PubType
    <3>2. ~ pub.closed
      BY <3>1 DEF Inv, StagesInv
    <3> QED
      BY <3>1, <3>2
  <2>5. CASE Take
    <3>1. /\ pub'.queue = Tail(pub.queue) /\ pub'.inside = pub.inside
          /\ pub.queue \in Seq(Events) /\ pub.queue # <<>>
      BY <2>1, <2>5 DEF Take, PubType
    <3>2. Len(Tail(pub.queue)) = Len(pub.queue) - 1
      BY <3>1, HeadTail
    <3> QED
      BY <2>1, <3>1, <3>2
  <2>6. CASE MainStep
    <3>1. pub'.queue = pub.queue /\ pub'.inside = pub.inside
      BY <2>1, <2>6 DEF MainStep, Dial, DialFails, Greeted, NotGreeted, CloseRecorder,
         RecorderDone, ClosePublisher, PublisherDone, PubType
    <3> QED
      BY <2>2, <3>1
  <2>7. ASSUME NEW g \in Workers, SkipEvent(g) \/ Record(g) \/ RecordPanics(g)
        PROVE  A
    BY <2>2, <2>7 DEF SkipEvent, Record, RecordPanics
  <2>8. CASE Write \/ WriteFails \/ SeeStop \/ Drained \/ RecorderStep
    <3>1. pub'.queue = pub.queue /\ pub'.inside = pub.inside
      BY <2>1, <2>8 DEF Write, WriteFails, WriterEnds, SeeStop, Drained, RecorderStep,
         WriteTelemetry, EncodeFails, PubType
    <3> QED
      BY <2>2, <3>1
  <2>9. CASE ServerStep
    <3>1. pub'.queue = pub.queue /\ pub'.inside = pub.inside
      BY <2>1, <2>9 DEF ServerStep, Accept, AddClient, Greet, Decode, ServeEnds, CloseListener,
         CloseStep, AcceptFails, CloseClients, ClientsDone, PubType
    <3> QED
      BY <2>2, <3>1
  <2>10. CASE UNCHANGED vars
    BY <2>2, <2>10 DEF vars
  <2> QED
    BY <2>3, <2>4, <2>5, <2>6, <2>7, <2>8, <2>9, <2>10
       DEF Next, WorkerStep, WriterStep, ServerStep
<1>2. Spec => [][A]_vars
  BY <1>1, Invariant, PTL DEF Spec
<1> QED
  BY <1>2 DEF PublishEnds

(***************************************************************************)
(* When Close of the server has returned, nobody is served and no          *)
(* connection is open.                                                     *)
(***************************************************************************)
THEOREM ClosedServerServesNobody == Spec => []ClosedServesNobody
<1>1. Inv => ClosedServesNobody
  BY DEF Inv, ServerInv, ClosedServesNobody
<1> QED
  BY <1>1, Invariant, PTL
=============================================================================
