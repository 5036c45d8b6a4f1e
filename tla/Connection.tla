----------------------------- MODULE Connection -----------------------------
(***************************************************************************)
(* The connection between one client and the server: the receiver thread   *)
(* of frontend/src/net/NetClient.cpp with its queue, the main thread that  *)
(* polls it, sends, and disconnects when the window is closed (App.cpp),   *)
(* and the thread of backend/server/server.cpp that serves the client.     *)
(*                                                                         *)
(* Each direction is a stream of tokens: a message is a body followed by   *)
(* NL, and recv returns any part of what has arrived.  Messages are        *)
(* numbered in the order they are sent; Junk is the body of an answer that *)
(* parse_event does not know (sign_out_response, save_result_response).    *)
(*                                                                         *)
(* Abstractions.  What messages say and what handlers do with them is the  *)
(* subject of the other modules.  The process at the other end may go at   *)
(* any time, with a suffix of what it has sent; the network itself neither *)
(* loses nor reorders what TCP carries.  Creating a thread does not fail.  *)
(***************************************************************************)
EXTENDS Integers, SequencesExt

CONSTANTS
    NL,        \* the token that ends a message
    Junk,      \* the body of a message the client does not know
    MaxDown,   \* bound: messages of the server
    MaxUp      \* bound: messages of the client

ASSUME ConnectionAssumption ==
    /\ MaxDown \in Nat \ {0}
    /\ MaxUp \in Nat
    /\ {NL, Junk} \cap Nat = {}
    /\ NL # Junk

VARIABLES
    up,           \* sent by the client, not yet received
    down,         \* sent by the server, not yet received
    server,       \* the process and its thread for this client
    recvBuffer,   \* ClientInfo::recv_buffer
    asked,        \* how many messages the client has sent
    told,         \* how many messages the server has sent
    handled,      \* history: what handle_message was called with
    app,          \* where the main thread of the client is
    sock,         \* the client's socket
    connected,    \* NetClient::connected_
    shouldStop,   \* NetClient::should_stop_
    joinable,     \* NetClient::recv_thread_.joinable()
    receiver,     \* where receive_thread is
    recv_buffer,  \* NetClient::recv_buffer_
    queue,        \* NetClient::event_queue_
    polled        \* history: what poll_event returned

serverVars == <<server, recvBuffer, told, handled>>
mainVars == <<app, sock, shouldStop, joinable, asked, polled>>
threadVars == <<receiver, recv_buffer>>
vars == <<up, down, serverVars, mainVars, connected, threadVars, queue>>

\* A process that is gone: "exited" returned from main, "aborted" went by
\* std::terminate, "killed" by SIGPIPE.
Gone == {"exited", "aborted", "killed"}

Init ==
    /\ up = <<>>
    /\ down = <<>>
    /\ server \in {"down", "accept"}
    /\ recvBuffer = <<>>
    /\ asked = 0
    /\ told = 0
    /\ handled = <<>>
    /\ app = "start"
    /\ sock = "none"
    /\ connected = FALSE
    /\ shouldStop = FALSE
    /\ joinable = FALSE
    /\ receiver = "none"
    /\ recv_buffer = <<>>
    /\ queue = <<>>
    /\ polled = <<>>

-----------------------------------------------------------------------------
(* Framing, the same on both sides.                                          *)

Message(body) == <<body, NL>>

HasLine(buffer) == Contains(buffer, NL)
LineEnd(buffer) == SelectInSeq(buffer, LAMBDA t : t = NL)
Line(buffer) == SubSeq(buffer, 1, LineEnd(buffer) - 1)
AfterLine(buffer) == SubSeq(buffer, LineEnd(buffer) + 1, Len(buffer))

\* recv takes a non-empty part of what has arrived.
Chunks(stream) == 1 .. Len(stream)

\* What parsing makes of a line: one message; none of a piece of a message,
\* and none of a body that parse_event does not know.
\* Mutant: parse_event passes on what it does not know.
Parsed_Untyped(line) == IF Len(line) = 1 THEN line ELSE <<>>

\* What parsing makes of a line: one message; none of a piece of a message,
\* and none of a body that parse_event does not know.
Parsed(line) ==
    IF Len(line) = 1 /\ line[1] # Junk THEN line ELSE <<>>

\* What reaches the other end of a stream whose sender's process goes.
Cutoff(stream) == {SubSeq(stream, 1, n) : n \in 0 .. Len(stream)}

-----------------------------------------------------------------------------
(* The main thread of the client.                                            *)

\* App::init connects once; without a server the game runs offline.
Connect ==
    /\ app = "start"
    /\ app' = "running"
    /\ IF server = "down"
       THEN UNCHANGED <<sock, connected, joinable, receiver>>
       ELSE /\ sock' = "open"
            /\ connected' = TRUE
            /\ joinable' = TRUE
            /\ receiver' = "loop"
    /\ UNCHANGED <<up, down, serverVars, shouldStop, asked, polled,
                   recv_buffer, queue>>

\* A send_* call.  Offline nothing is sent; to a server that is gone it may
\* be lost, or end the process: MSG_NOSIGNAL is not given.
Send ==
    /\ app = "running"
    /\ asked < MaxUp
    /\ asked' = asked + 1
    /\ \/ /\ connected
          /\ server # "down"
          /\ up' = up \o Message(asked')
          /\ UNCHANGED app
       \/ /\ ~connected \/ server = "down"
          /\ app' \in {"running"} \cup (IF connected THEN {"killed"} ELSE {})
          /\ UNCHANGED up
    /\ UNCHANGED <<down, serverVars, sock, connected, shouldStop, joinable,
                   polled, threadVars, queue>>

\* App::run: a frame takes an event.
PollEvent ==
    /\ app = "running"
    /\ queue # <<>>
    /\ polled' = Append(polled, Head(queue))
    /\ queue' = Tail(queue)
    /\ UNCHANGED <<up, down, serverVars, app, sock, connected, shouldStop,
                   joinable, asked, threadVars>>

\* The window is closed and App::shutdown calls disconnect.
Quit ==
    /\ app = "running"
    /\ app' = "disconnect"
    /\ UNCHANGED <<up, down, serverVars, sock, connected, shouldStop,
                   joinable, asked, polled, threadVars, queue>>

\* disconnect does nothing when the connection is already marked as lost.
Disconnect ==
    /\ app = "disconnect"
    /\ IF connected
       THEN /\ app' = "shutdown"
            /\ shouldStop' = TRUE
            /\ connected' = FALSE
       ELSE /\ app' = "destroy"
            /\ UNCHANGED <<shouldStop, connected>>
    /\ UNCHANGED <<up, down, serverVars, sock, joinable, asked, polled,
                   threadVars, queue>>

\* Mutant: close alone, which does not wake a thread that is in recv.
Shutdown_CloseOnly ==
    /\ app = "shutdown"
    /\ app' = "join"
    /\ UNCHANGED <<up, down, serverVars, sock, connected, shouldStop, joinable,
                   asked, polled, threadVars, queue>>

\* Mutant: disconnect does not join the receiver.
Shutdown_NotJoined ==
    /\ app = "shutdown"
    /\ app' = "destroy"
    /\ sock' = "shut"
    /\ up' \in Cutoff(up)
    /\ UNCHANGED <<down, serverVars, connected, shouldStop, joinable, asked,
                   polled, threadVars, queue>>

\* Shutting the socket down wakes the receiver; the server sees the end of
\* the stream, or, if something it sent was not read, a reset.
Shutdown ==
    /\ app = "shutdown"
    /\ app' = "join"
    /\ sock' = "shut"
    /\ up' \in Cutoff(up)
    /\ UNCHANGED <<down, serverVars, connected, shouldStop, joinable, asked,
                   polled, threadVars, queue>>

Join ==
    /\ app = "join"
    /\ receiver = "stopped"
    /\ joinable' = FALSE
    /\ app' = "destroy"
    /\ UNCHANGED <<up, down, serverVars, sock, connected, shouldStop, asked,
                   polled, threadVars, queue>>

\* main returns: ~NetClient disconnects again, which does nothing now, and
\* the destructor of a thread object not joined calls std::terminate.
Destroy ==
    /\ app = "destroy"
    /\ app' = IF joinable THEN "aborted" ELSE "exited"
    /\ UNCHANGED <<up, down, serverVars, sock, connected, shouldStop,
                   joinable, asked, polled, threadVars, queue>>

Main == Connect \/ Send \/ PollEvent \/ Quit \/ Disconnect \/ Shutdown \/ Join \/ Destroy

-----------------------------------------------------------------------------
(* The receiver thread of the client.                                        *)

Alive == app \notin Gone

\* while (!should_stop_ && connected_)
CheckLoop ==
    /\ Alive
    /\ receiver = "loop"
    /\ receiver' = IF ~shouldStop /\ connected THEN "recv" ELSE "stopped"
    /\ UNCHANGED <<up, down, serverVars, mainVars, connected, recv_buffer, queue>>

\* Mutant: the buffer holds the last chunk only.
Receive_Overwrites ==
    /\ Alive
    /\ receiver = "recv"
    /\ \E n \in Chunks(down) :
          /\ recv_buffer' = SubSeq(down, 1, n)
          /\ down' = SubSeq(down, n + 1, Len(down))
    /\ receiver' = "lines"
    /\ UNCHANGED <<up, serverVars, mainVars, connected, queue>>

\* recv returns data that has arrived, also after the end of its sender.
Receive ==
    /\ Alive
    /\ receiver = "recv"
    /\ \E n \in Chunks(down) :
          /\ recv_buffer' = recv_buffer \o SubSeq(down, 1, n)
          /\ down' = SubSeq(down, n + 1, Len(down))
    /\ receiver' = "lines"
    /\ UNCHANGED <<up, serverVars, mainVars, connected, queue>>

\* recv returns 0 or fails: the server is gone and what it sent is read, or
\* the main thread has shut the socket down.
ReceiveEnd ==
    /\ Alive
    /\ receiver = "recv"
    /\ sock = "shut" \/ (server = "down" /\ down = <<>>)
    /\ connected' = FALSE
    /\ receiver' = "stopped"
    /\ UNCHANGED <<up, down, serverVars, mainVars, recv_buffer, queue>>

\* Mutant: one line for each recv.
TakeLine_Once ==
    /\ Alive
    /\ receiver = "lines"
    /\ IF HasLine(recv_buffer)
       THEN /\ queue' = queue \o Parsed(Line(recv_buffer))
            /\ recv_buffer' = AfterLine(recv_buffer)
       ELSE UNCHANGED <<queue, recv_buffer>>
    /\ receiver' = "loop"
    /\ UNCHANGED <<up, down, serverVars, mainVars, connected>>

\* The inner loop: every complete line, and no part of one, is parsed.
TakeLine ==
    /\ Alive
    /\ receiver = "lines"
    /\ IF HasLine(recv_buffer)
       THEN /\ queue' = queue \o Parsed(Line(recv_buffer))
            /\ recv_buffer' = AfterLine(recv_buffer)
            /\ UNCHANGED receiver
       ELSE /\ receiver' = "loop"
            /\ UNCHANGED <<queue, recv_buffer>>
    /\ UNCHANGED <<up, down, serverVars, mainVars, connected>>

Receiver == CheckLoop \/ Receive \/ ReceiveEnd \/ TakeLine

-----------------------------------------------------------------------------
(* The server.                                                               *)

\* Its end of the connection is closed on the client's side.
ClientGone == sock = "shut" \/ ~Alive

\* The accept loop sends hello and starts the thread.
Accept ==
    /\ server = "accept"
    /\ sock # "none"
    /\ server' = "recv"
    /\ told' = 1
    /\ down' = IF ClientGone THEN down ELSE down \o Message(1)
    /\ UNCHANGED <<up, recvBuffer, handled, mainVars, connected, threadVars, queue>>

\* An answer of this thread or a broadcast of another one.  To a client that
\* is gone it is lost, or the signal ends the server.
SendJson ==
    /\ server \in {"recv", "lines"}
    /\ told < MaxDown
    /\ told' = told + 1
    /\ \/ /\ ~ClientGone
          /\ \E body \in {told', Junk} : down' = down \o Message(body)
          /\ UNCHANGED <<server, up, recvBuffer>>
       \/ /\ ClientGone
          /\ UNCHANGED <<server, down, up, recvBuffer>>
       \/ /\ ClientGone
          /\ server' = "down"
          /\ up' = <<>>
          /\ recvBuffer' = <<>>
          /\ UNCHANGED down
    /\ UNCHANGED <<handled, mainVars, connected, threadVars, queue>>

HandleClientReceive ==
    /\ server = "recv"
    /\ \E n \in Chunks(up) :
          /\ recvBuffer' = recvBuffer \o SubSeq(up, 1, n)
          /\ up' = SubSeq(up, n + 1, Len(up))
    /\ server' = "lines"
    /\ UNCHANGED <<down, told, handled, mainVars, connected, threadVars, queue>>

HandleClientLine ==
    /\ server = "lines"
    /\ IF HasLine(recvBuffer)
       THEN /\ handled' = handled \o Parsed(Line(recvBuffer))
            /\ recvBuffer' = AfterLine(recvBuffer)
            /\ UNCHANGED server
       ELSE /\ server' = "recv"
            /\ UNCHANGED <<handled, recvBuffer>>
    /\ UNCHANGED <<up, down, told, mainVars, connected, threadVars, queue>>

\* recv returns 0: the seat, the entry of clients_ with its buffer and the
\* descriptor are given up.
HandleClientEnd ==
    /\ server = "recv"
    /\ ClientGone
    /\ up = <<>>
    /\ server' = "closed"
    /\ recvBuffer' = <<>>
    /\ UNCHANGED <<up, down, told, handled, mainVars, connected, threadVars, queue>>

\* The server's process goes, for any reason; what it has sent may be cut.
ServerGoes ==
    /\ server # "down"
    /\ server' = "down"
    /\ up' = <<>>
    /\ recvBuffer' = <<>>
    /\ down' \in Cutoff(down)
    /\ UNCHANGED <<told, handled, mainVars, connected, threadVars, queue>>

Server ==
    Accept \/ SendJson \/ HandleClientReceive \/ HandleClientLine
    \/ HandleClientEnd \/ ServerGoes

Next == Main \/ Receiver \/ Server

\* Both processes are scheduled; nobody has to send, quit or go.
Fairness ==
    /\ WF_vars(Connect \/ Disconnect \/ Shutdown \/ Join \/ Destroy)
    /\ WF_vars(PollEvent)
    /\ WF_vars(Receiver)
    /\ WF_vars(Accept)
    /\ WF_vars(HandleClientReceive \/ HandleClientLine \/ HandleClientEnd)

Spec == Init /\ [][Next]_vars
FairSpec == Spec /\ Fairness

-----------------------------------------------------------------------------
(* Properties.                                                               *)

Token == Nat \cup {NL, Junk}

\* Every variable keeps its type: the threads are at statements they have,
\* and nothing but whole messages is queued or handled.
TypeOK ==
    /\ up \in Seq(Token)
    /\ down \in Seq(Token)
    /\ server \in {"down", "accept", "recv", "lines", "closed"}
    /\ recvBuffer \in Seq(Token)
    /\ asked \in 0 .. MaxUp
    /\ told \in 0 .. MaxDown
    /\ handled \in Seq(Nat)
    /\ app \in {"start", "running", "disconnect", "shutdown", "join", "destroy"} \cup Gone
    /\ sock \in {"none", "open", "shut"}
    /\ connected \in BOOLEAN
    /\ shouldStop \in BOOLEAN
    /\ joinable \in BOOLEAN
    /\ receiver \in {"none", "loop", "recv", "lines", "stopped"}
    /\ recv_buffer \in Seq(Token)
    /\ queue \in Seq(Nat)
    /\ polled \in Seq(Nat)

\* The message that ends with token i of a stream; none if nobody understands it.
Ended(stream, i) ==
    IF i > 1 /\ stream[i] = NL /\ stream[i - 1] \in Nat
    THEN <<stream[i - 1]>> ELSE <<>>

\* The complete messages of a stream: upTo[n] are those in its first n tokens.
Complete(stream) ==
    LET upTo[n \in 0 .. Len(stream)] ==
            IF n = 0 THEN <<>> ELSE upTo[n - 1] \o Ended(stream, n)
    IN  upTo[Len(stream)]

\* The messages to the client: those put in are taken by the main loop, from
\* whatever pieces recv returned, as long as the loop runs.
Down == INSTANCE Channel WITH
    Messages <- 1 .. MaxDown,
    MaxTaken <- MaxDown,
    pending  <- IF app \in {"start", "running"} THEN queue \o Complete(recv_buffer \o down) ELSE <<>>,
    taken    <- polled,
    status   <- IF app \notin {"start", "running"} THEN "cut"
                ELSE IF server = "down" THEN "ended" ELSE "open"

\* The messages to the server: also those sent just before the client went.
Up == INSTANCE Channel WITH
    Messages <- 1 .. MaxUp,
    MaxTaken <- MaxUp,
    pending  <- Complete(recvBuffer \o up),
    taken    <- handled,
    status   <- IF server = "down" THEN "cut" ELSE IF ClientGone THEN "ended" ELSE "open"

\* Each direction hands on what was sent, in order, each once: recv may cut
\* the stream anywhere, and what nobody understands costs only itself.
ImplementsChannels == Down!Spec /\ Up!Spec

\* And it hands on all of it, as long as its receiver is there: no message stays
\* in a buffer or a queue, also when its sender has gone since.
Delivers == Down!Delivers /\ Up!Delivers

\* The client's process ends only because its user closed it, unless the
\* server was gone first: an abort in ~NetClient (NetClient.cpp:74) or a
\* SIGPIPE (NetClient.cpp:387) needs a lost connection.
EndsOnOwnTerms == app \in {"aborted", "killed"} => server = "down"

\* Closing the window ends the process: disconnect wakes the receiver it
\* joins, wherever that thread is (NetClient.cpp:83, :90).
Closes == app = "disconnect" ~> app \in Gone
=============================================================================
