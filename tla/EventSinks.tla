----------------------------- MODULE EventSinks -----------------------------
(***************************************************************************)
(* Where the core's events go.  The session publishes diagnostics to the   *)
(* process `inliner-core debug' over a socket (Connect, socketPublisher,   *)
(* Server), and records telemetry for a file (AsyncRecorder).  Both sinks  *)
(* are a bounded channel with a goroutine behind it: a producer never      *)
(* waits, an event that does not fit is dropped, and closing waits for     *)
(* what was taken in.  The core may end with its workers still running.    *)
(*                                                                         *)
(* The loop publishes that a request started and hands it to a worker,     *)
(* which publishes the prompt and that it awaits the model, records the    *)
(* telemetry and publishes the result.                                     *)
(*                                                                         *)
(* A step is what a goroutine does between two accesses to what others     *)
(* read.  The server's clients share nothing that matters here, so one     *)
(* client stands for each of them.                                         *)
(***************************************************************************)
EXTENDS Naturals, Sequences, SequencesExt

CONSTANTS
    Workers,          \* the goroutines that complete requests, one for each
    EventsOf,         \* the kinds of event of a request, in order
    PublisherQueue,   \* capacity of the publisher's channel
    RecorderQueue,    \* capacity of the recorder's channel
    WireCapacity,     \* events the socket's buffers hold
    MayNotWait        \* whether Run may return without waiting for workers

ASSUME SinksAssumption ==
    /\ PublisherQueue \in Nat \ {0} /\ RecorderQueue \in Nat \ {0}
    /\ WireCapacity \in Nat \ {0}
    /\ EventsOf \in Seq({"request_started", "prompt", "awaiting_model",
                        "telemetry", "result"})
    /\ \A i \in DOMAIN EventsOf : EventsOf[i] = "request_started" <=> i = 1
    /\ MayNotWait \in BOOLEAN

VARIABLES
    main,    \* where app.Run stands
    next,    \* the event of each worker's request that comes next
    pub,     \* socketPublisher: its mode, queue, closed and connected, the
             \* workers inside Publish; accepted is a history, what the queue
             \* took and the server has not decoded
    writer,  \* run: where it stands, the event in its hand; whether a write failed
    rec,     \* AsyncRecorder: channel, closed, whether its encoder has failed;
             \* histories: what it took and the file does not hold, and whether
             \* each event written was the first of these
    sock,    \* the socket: its buffers and whether each side's end is open
    srv      \* Server: --verbose, listener, accept loop, serve, Close; whether
             \* each event decoded was the first that was on its way (a history)

vars == <<main, next, pub, writer, rec, sock, srv>>

Events == Workers \X DOMAIN EventsOf

TypeOK ==
    /\ main \in {"connect", "run", "flush", "close", "wait", "exit", "panic"}
    /\ next \in [Workers -> 1 .. Len(EventsOf) + 1]
    /\ pub \in [mode : {"dialing", "greeting", "up", "noop"}, queue : Seq(Events),
                closed : BOOLEAN, connected : BOOLEAN, inside : SUBSET Workers,
                accepted : Seq(Events)]
    /\ Len(pub.queue) <= PublisherQueue
    /\ writer \in [at : {"off", "select", "drain", "done"}, hand : Seq(Events),
                   failed : BOOLEAN]
    /\ Len(writer.hand) <= 1
    /\ rec \in [ch : Seq(Workers), closed : BOOLEAN, taken : Seq(Workers),
                inOrder : BOOLEAN, failed : BOOLEAN]
    /\ Len(rec.ch) <= RecorderQueue
    /\ sock \in [wire : Seq(Events), greeting : BOOLEAN,
                 client : {"none", "open", "closed"}, server : {"none", "open", "closed"}]
    /\ srv \in [verbose : BOOLEAN, listening : BOOLEAN, acceptor : {"accept", "got", "done"},
                serving : {"no", "greet", "read", "ended"},
                closing : {"open", "accepts", "clients", "closed"},
                inOrder : BOOLEAN]

\* The debug process may be absent.
Init ==
    /\ main = "connect" /\ next = [g \in Workers |-> 1]
    /\ pub = [mode |-> "dialing", queue |-> <<>>, closed |-> FALSE,
              connected |-> FALSE, inside |-> {}, accepted |-> <<>>]
    /\ writer = [at |-> "off", hand |-> <<>>, failed |-> FALSE]
    /\ rec = [ch |-> <<>>, closed |-> FALSE, taken |-> <<>>, inOrder |-> TRUE,
              failed |-> FALSE]
    /\ sock = [wire |-> <<>>, greeting |-> FALSE, client |-> "none", server |-> "none"]
    /\ \E present, verbose \in BOOLEAN :
          srv = [verbose |-> verbose, listening |-> present,
                 acceptor |-> IF present THEN "accept" ELSE "done",
                 serving |-> "no", closing |-> IF present THEN "open" ELSE "closed",
                 inOrder |-> TRUE]

Running == main \notin {"exit", "panic"}

-----------------------------------------------------------------------------
(* Connect: dial, then read the handshake with a deadline. *)

\* The dial succeeds as soon as the kernel queues the connection.
Dial ==
    /\ pub.mode = "dialing" /\ srv.listening
    /\ pub' = [pub EXCEPT !.mode = "greeting"]
    /\ sock' = [sock EXCEPT !.client = "open", !.server = "open"]
    /\ UNCHANGED <<main, next, writer, rec, srv>>

DialFails ==
    /\ pub.mode = "dialing" /\ ~ srv.listening
    /\ pub' = [pub EXCEPT !.mode = "noop"]
    /\ main' = "run"
    /\ UNCHANGED <<next, writer, rec, sock, srv>>

Greeted ==
    /\ pub.mode = "greeting" /\ sock.greeting
    /\ pub' = [pub EXCEPT !.mode = "up", !.connected = TRUE]
    /\ writer' = [writer EXCEPT !.at = "select"]
    /\ sock' = [sock EXCEPT !.greeting = FALSE]
    /\ main' = "run"
    /\ UNCHANGED <<next, rec, srv>>

\* The deadline has passed (the server may just be slow), or its end closed.
NotGreeted ==
    /\ pub.mode = "greeting"
    /\ pub' = [pub EXCEPT !.mode = "noop"]
    /\ sock' = [sock EXCEPT !.client = "closed"]
    /\ main' = "run"
    /\ UNCHANGED <<next, writer, rec, srv>>

-----------------------------------------------------------------------------
(* The events of a request: Publish and Record, neither of which waits. *)

\* The first event of a request is the loop's; the worker starts after it.
ByLoop(g) == next[g] = 1
LoopPublishes == \E g \in pub.inside : ByLoop(g)
Ended(g) == next[g] > Len(EventsOf)

\* The goroutine that is to make the next event of g's request runs.
Turn(g) ==
    /\ main # "connect" /\ Running /\ ~ Ended(g)
    /\ ByLoop(g) => main = "run" /\ ~ LoopPublishes
Publishing(g) == Turn(g) /\ EventsOf[next[g]] # "telemetry" /\ g \notin pub.inside
Advance(g) == next' = [next EXCEPT ![g] = @ + 1]

\* What Publish sees under its read lock; the provider itself skips a prompt
\* when the handshake said that the server is not verbose.
Publishable(g) ==
    /\ pub.mode = "up" /\ ~ pub.closed /\ pub.connected
    /\ EventsOf[next[g]] = "prompt" => srv.verbose

SkipEvent(g) ==
    /\ Publishing(g) /\ ~ Publishable(g)
    /\ Advance(g)
    /\ UNCHANGED <<main, pub, writer, rec, sock, srv>>

BeginPublish(g) ==
    /\ Publishing(g) /\ Publishable(g)
    /\ pub' = [pub EXCEPT !.inside = @ \cup {g}]
    /\ UNCHANGED <<main, next, writer, rec, sock, srv>>

\* The send that never waits, and the unlock.
EndPublish(g) ==
    /\ g \in pub.inside /\ Running
    /\ LET event == IF Len(pub.queue) < PublisherQueue THEN <<<<g, next[g]>>>> ELSE <<>>
       IN  pub' = [pub EXCEPT !.queue = @ \o event, !.accepted = @ \o event,
                              !.inside = @ \ {g}]
    /\ Advance(g)
    /\ UNCHANGED <<main, writer, rec, sock, srv>>

Recording(g) == Turn(g) /\ EventsOf[next[g]] = "telemetry"

\* AsyncRecorder.Record, also a send that never waits.
Record(g) ==
    /\ Recording(g) /\ ~ rec.closed
    /\ LET event == IF Len(rec.ch) < RecorderQueue THEN <<g>> ELSE <<>>
       IN  rec' = [rec EXCEPT !.ch = @ \o event, !.taken = @ \o event]
    /\ Advance(g)
    /\ UNCHANGED <<main, pub, writer, sock, srv>>

\* A send on a closed channel panics, in a select too; the kernel closes the
\* socket of the dead process.
RecordPanics(g) ==
    /\ Recording(g) /\ rec.closed
    /\ main' = "panic"
    /\ sock' = [sock EXCEPT !.client = IF @ = "open" THEN "closed" ELSE @]
    /\ UNCHANGED <<next, pub, writer, rec, srv>>

\* The recorder's goroutine, until the channel is closed and empty.
WriteTelemetry ==
    /\ Running /\ rec.ch # <<>> /\ ~ rec.failed
    /\ rec' = [rec EXCEPT !.ch = Tail(@), !.taken = Tail(@),
                          !.inOrder = @ /\ Head(rec.ch) = Head(rec.taken)]
    /\ UNCHANGED <<main, next, pub, writer, sock, srv>>

\* Encode's error is discarded, and the encoder keeps it: from the first write
\* that fails on, every event is taken from the channel and lost.
EncodeFails ==
    /\ Running /\ rec.ch # <<>>
    /\ rec' = [rec EXCEPT !.ch = Tail(@), !.failed = TRUE]
    /\ UNCHANGED <<main, next, pub, writer, sock, srv>>

-----------------------------------------------------------------------------
(* socketPublisher.run *)

\* From the select, where the stop may be ready too, or draining.
Take ==
    /\ Running /\ writer.at \in {"select", "drain"}
    /\ writer.hand = <<>> /\ pub.queue # <<>>
    /\ writer' = [writer EXCEPT !.hand = <<Head(pub.queue)>>]
    /\ pub' = [pub EXCEPT !.queue = Tail(@)]
    /\ UNCHANGED <<main, next, rec, sock, srv>>

Write ==
    /\ Running /\ writer.hand # <<>>
    /\ sock.server = "open" /\ Len(sock.wire) < WireCapacity
    /\ sock' = [sock EXCEPT !.wire = @ \o writer.hand]
    /\ writer' = [writer EXCEPT !.hand = <<>>]
    /\ UNCHANGED <<main, next, pub, rec, srv>>

\* run ends: connected is cleared, the connection and done are closed.
WriterEnds(failed) ==
    /\ writer' = [at |-> "done", hand |-> <<>>, failed |-> failed]
    /\ pub' = [pub EXCEPT !.connected = FALSE]
    /\ sock' = [sock EXCEPT !.client = "closed"]
    /\ UNCHANGED <<main, next, rec, srv>>

WriteFailsGoesOn ==
    /\ Running /\ writer.hand # <<>>
    /\ sock.server = "closed" \/ Len(sock.wire) = WireCapacity
    /\ writer' = [writer EXCEPT !.hand = <<>>, !.failed = TRUE]
    /\ UNCHANGED <<main, next, pub, rec, sock, srv>>

WriteFailsNoDeadline ==
    /\ Running /\ writer.hand # <<>> /\ sock.server = "closed"
    /\ WriterEnds(TRUE)

\* The server has gone, or its buffers stay full for writeTimeout.
WriteFails ==
    /\ Running /\ writer.hand # <<>>
    /\ sock.server = "closed" \/ Len(sock.wire) = WireCapacity
    /\ WriterEnds(TRUE)

SeeStop ==
    /\ Running /\ writer.at = "select" /\ writer.hand = <<>> /\ pub.closed
    /\ writer' = [writer EXCEPT !.at = "drain"]
    /\ UNCHANGED <<main, next, pub, rec, sock, srv>>

DrainedAtOnce ==
    /\ Running /\ writer.at = "drain" /\ writer.hand = <<>>
    /\ WriterEnds(FALSE)

Drained ==
    /\ Running /\ writer.at = "drain" /\ writer.hand = <<>> /\ pub.queue = <<>>
    /\ WriterEnds(FALSE)

-----------------------------------------------------------------------------
(* The end of app.Run: Close of the recorder, then of the publisher. *)

CloseRecorder ==
    /\ main = "run" /\ ~ LoopPublishes
    /\ MayNotWait \/ \A g \in Workers : ByLoop(g) \/ Ended(g)
    /\ rec' = [rec EXCEPT !.closed = TRUE]
    /\ main' = "flush"
    /\ UNCHANGED <<next, pub, writer, sock, srv>>

RecorderDone ==
    /\ main = "flush" /\ rec.ch = <<>>
    /\ main' = "close"
    /\ UNCHANGED <<next, pub, writer, rec, sock, srv>>

ClosePublisherUnlocked ==
    /\ main = "close"
    /\ pub' = [pub EXCEPT !.closed = TRUE]
    /\ main' = IF pub.mode = "noop" THEN "exit" ELSE "wait"
    /\ UNCHANGED <<next, writer, rec, sock, srv>>

\* The lock waits for the workers inside Publish.
ClosePublisher ==
    /\ main = "close" /\ pub.inside = {}
    /\ pub' = [pub EXCEPT !.closed = TRUE]
    /\ main' = IF pub.mode = "noop" THEN "exit" ELSE "wait"
    /\ UNCHANGED <<next, writer, rec, sock, srv>>

PublisherDone ==
    /\ main = "wait" /\ writer.at = "done"
    /\ main' = "exit"
    /\ UNCHANGED <<next, pub, writer, rec, sock, srv>>

-----------------------------------------------------------------------------
(* The server *)

\* A connection is taken from the listener; it is not in clients yet.
Accept ==
    /\ srv.acceptor = "accept" /\ srv.listening
    /\ sock.server = "open" /\ srv.serving = "no"
    /\ srv' = [srv EXCEPT !.acceptor = "got"]
    /\ UNCHANGED <<main, next, pub, writer, rec, sock>>

AddClient ==
    /\ srv.acceptor = "got"
    /\ srv' = [srv EXCEPT !.acceptor = "accept", !.serving = "greet"]
    /\ UNCHANGED <<main, next, pub, writer, rec, sock>>

AcceptFails ==
    /\ srv.acceptor = "accept" /\ ~ srv.listening
    /\ srv' = [srv EXCEPT !.acceptor = "done"]
    /\ UNCHANGED <<main, next, pub, writer, rec, sock>>

Greet ==
    /\ srv.serving = "greet" /\ sock.server = "open" /\ sock.client = "open"
    /\ sock' = [sock EXCEPT !.greeting = TRUE]
    /\ srv' = [srv EXCEPT !.serving = "read"]
    /\ UNCHANGED <<main, next, pub, writer, rec>>

Decode ==
    /\ srv.serving = "read" /\ sock.server = "open" /\ sock.wire # <<>>
    /\ srv' = [srv EXCEPT !.inOrder = @ /\ Head(sock.wire) = Head(pub.accepted)]
    /\ pub' = [pub EXCEPT !.accepted = Tail(@)]
    /\ sock' = [sock EXCEPT !.wire = Tail(@)]
    /\ UNCHANGED <<main, next, writer, rec>>

\* The handshake fails, or the decoder: the client has gone and all it wrote
\* is read, or Close has closed the connection.
ServeEnds ==
    /\ \/ srv.serving = "greet" /\ sock.client = "closed"
       \/ srv.serving = "read" /\ sock.client = "closed" /\ sock.wire = <<>>
       \/ srv.serving \in {"greet", "read"} /\ sock.server = "closed"
    /\ srv' = [srv EXCEPT !.serving = "ended"]
    /\ sock' = [sock EXCEPT !.server = "closed"]
    /\ UNCHANGED <<main, next, pub, writer, rec>>

\* Server.Close: the listener first; a connection nobody accepted is reset.
CloseListener ==
    /\ srv.closing = "open"
    /\ srv' = [srv EXCEPT !.closing = "accepts", !.listening = FALSE]
    /\ sock' = [sock EXCEPT !.server =
                   IF srv.serving = "no" /\ srv.acceptor = "accept" /\ @ = "open"
                   THEN "closed" ELSE @]
    /\ UNCHANGED <<main, next, pub, writer, rec>>

CloseClientsEarly ==
    /\ srv.closing = "accepts"
    /\ srv' = [srv EXCEPT !.closing = "clients"]
    /\ sock' = [sock EXCEPT !.server =
                   IF srv.serving \in {"greet", "read"} THEN "closed" ELSE @]
    /\ UNCHANGED <<main, next, pub, writer, rec>>

\* Once the accept loop has ended no client can be added.
CloseClients ==
    /\ srv.closing = "accepts" /\ srv.acceptor = "done"
    /\ srv' = [srv EXCEPT !.closing = "clients"]
    /\ sock' = [sock EXCEPT !.server =
                   IF srv.serving \in {"greet", "read"} THEN "closed" ELSE @]
    /\ UNCHANGED <<main, next, pub, writer, rec>>

ClientsDone ==
    /\ srv.closing = "clients" /\ srv.serving \notin {"greet", "read"}
    /\ srv' = [srv EXCEPT !.closing = "closed"]
    /\ UNCHANGED <<main, next, pub, writer, rec, sock>>

-----------------------------------------------------------------------------
WorkerStep(g) ==
    SkipEvent(g) \/ BeginPublish(g) \/ EndPublish(g) \/ Record(g) \/ RecordPanics(g)
RecorderStep == WriteTelemetry \/ EncodeFails
WriterStep == Take \/ Write \/ WriteFails \/ SeeStop \/ Drained
MainStep ==
    \/ Dial \/ DialFails \/ Greeted \/ NotGreeted
    \/ CloseRecorder \/ RecorderDone \/ ClosePublisher \/ PublisherDone
CloseStep == AcceptFails \/ CloseClients \/ ClientsDone

Next ==
    \/ MainStep \/ WriterStep \/ RecorderStep
    \/ \E g \in Workers : WorkerStep(g)
    \/ Accept \/ AddClient \/ Greet \/ Decode \/ ServeEnds
    \/ CloseListener \/ CloseStep

Spec == Init /\ [][Next]_vars

\* Goroutines that can run do, and a deadline passes; that a request comes is
\* not assumed.  Nothing is assumed of the server's reading either (it may be
\* suspended), only that it ends once told to.
FairSpec ==
    /\ Spec
    /\ WF_vars(MainStep) /\ WF_vars(WriterStep) /\ WF_vars(RecorderStep)
    /\ \A g \in Workers : WF_vars((~ ByLoop(g) \/ g \in pub.inside) /\ WorkerStep(g))
    /\ WF_vars(AddClient) /\ WF_vars(ServeEnds) /\ WF_vars(CloseStep)

-----------------------------------------------------------------------------
(***************************************************************************)
(* What a channel took is on its way, in order.  An event of Publish is in *)
(* the socket, the writer's hand or the queue until it is decoded; after a *)
(* write has failed, or the process has died, what is still decoded is the *)
(* beginning of what was taken.  Telemetry is in the channel until it is   *)
(* in the file, unless a write to the file has failed: then the file has   *)
(* the beginning of what was taken.                                        *)
(***************************************************************************)
NothingLost ==
    /\ srv.inOrder /\ IsPrefix(sock.wire, pub.accepted)
    /\ ~ writer.failed => sock.wire \o writer.hand \o pub.queue = pub.accepted
    /\ rec.inOrder /\ (~ rec.failed => rec.ch = rec.taken)

(***************************************************************************)
(* Each Close returns with its channel drained: unless a write failed, all *)
(* that the recorder took is in the file, and all that the publisher took  *)
(* is in the socket, though workers may still call Publish then.           *)
(***************************************************************************)
CloseDrains ==
    /\ main \in {"close", "wait", "exit"} =>
          rec.ch = <<>> /\ (rec.failed \/ rec.taken = <<>>)
    /\ main = "exit" /\ pub.mode = "up" =>
          writer.failed \/ sock.wire = pub.accepted

(***************************************************************************)
(* Publish ends with the publisher: the queue only shrinks once Close      *)
(* has marked it closed, not even from a worker that was inside Publish    *)
(* when Close began; and once the writer has ended, which clears connected *)
(* without the lock, only the workers inside Publish can still fill it.    *)
(***************************************************************************)
PublishEnds ==
    [][/\ pub.closed => Len(pub'.queue) <= Len(pub.queue)
       /\ writer.at = "done" => pub'.inside \subseteq pub.inside]_vars

(***************************************************************************)
(* When Close of the server has returned no client is being served and no  *)
(* connection is left open, also one accepted while it closed.             *)
(***************************************************************************)
ClosedServesNobody ==
    srv.closing = "closed" =>
        srv.serving \in {"no", "ended"} /\ srv.acceptor = "done" /\ sock.server # "open"

(***************************************************************************)
(* Every Close returns: the core ends (or panics) whatever the server      *)
(* does, and a server told to close is closed.                             *)
(***************************************************************************)
ClosesReturn ==
    /\ <>(main \in {"exit", "panic"})
    /\ srv.closing # "open" ~> srv.closing = "closed"
=============================================================================
