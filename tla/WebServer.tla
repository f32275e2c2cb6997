----------------------------- MODULE WebServer -----------------------------
(***************************************************************************)
(* WebServer (src/src/web/server.h, server.cpp) with the limits, the       *)
(* parsing and the checks of http.h and http.cpp: the thread of run()      *)
(* accepts connections and gives each a detached thread of its own, which  *)
(* reads one request in pieces, answers it, closes and gives its slot      *)
(* back.                                                                   *)
(*                                                                         *)
(* A request is the length of its head (request line, headers and the      *)
(* empty line), of its body, and what the checks tell apart in it; a recv  *)
(* takes any number of the bytes not read yet.  A client may stall at any  *)
(* byte for ever, unless it is Diligent, or close.  What Api::handle does  *)
(* with a request is in WebApi; it never waits (try_lock), so a thread     *)
(* that got this far goes on.                                              *)
(*                                                                         *)
(* The program itself never calls stop(): run() returns to run_web on an   *)
(* error of accept, and the process exits with whatever threads there are. *)
(* Left out: what the client sees when the server closes a socket with     *)
(* unread bytes in it, which may be a reset instead of the answer.         *)
(***************************************************************************)
EXTENDS Integers, FiniteSets

CONSTANTS
  Conn,            \* clients, with one connection at a time each
  Diligent,        \* those that send all of a request and stay
  Requests,        \* what each may send
  MaxConnections,  \* kMaxConnections
  MaxHead,         \* kMaxHeaderBlock
  Slack,           \* the + 4 of read_request_head
  Buf,             \* bytes of one recv
  MaxBody          \* kMaxBody

\* line: what is wrong with the head, if anything; asset: one of the paths of
\* is_static_path; host and token: are these headers right?
Request == [head : Nat \ {0}, body : Nat, line : {"ok", "malformed", "method"},
            asset : BOOLEAN, get : BOOLEAN, host : BOOLEAN, token : BOOLEAN]

ASSUME WebServerAssumption ==
  /\ IsFiniteSet(Conn) /\ Diligent \subseteq Conn
  /\ Requests \in [Conn -> SUBSET Request]
  /\ MaxConnections \in Nat \ {0} /\ MaxHead \in Nat /\ MaxBody \in Nat
  /\ Slack \in Nat /\ Buf \in Nat \ {0}

VARIABLES
  conns,      \* conns_
  listening,  \* listen_fd_ >= 0
  server,     \* where run() is: "accept", "returned", or the process has "exited"
  phase,      \* where each client's connection is
  req,        \* the request on it
  got,        \* bytes of it read
  left,       \* has the client closed it?
  answer      \* what the server answered, or "none"

vars == <<conns, listening, server, phase, req, got, left, answer>>

NoRequest == [head |-> 0]

Threads == {"head", "body", "check", "close", "release"}

Serving == {c \in Conn : phase[c] \in Threads}

Init ==
  /\ conns = 0
  /\ listening = TRUE
  /\ server = "accept"
  /\ phase = [c \in Conn |-> "none"]
  /\ req = [c \in Conn |-> NoRequest]
  /\ got = [c \in Conn |-> 0]
  /\ left = [c \in Conn |-> FALSE]
  /\ answer = [c \in Conn |-> "none"]

\* The connection is over; its client may open another.
Closed(c) ==
  /\ phase' = [phase EXCEPT ![c] = "none"]
  /\ req' = [req EXCEPT ![c] = NoRequest]
  /\ got' = [got EXCEPT ![c] = 0]
  /\ left' = [left EXCEPT ![c] = FALSE]
  /\ answer' = [answer EXCEPT ![c] = "none"]

---------------------------------------------------------------------------
(* Clients *)

Connect(c) ==
  /\ listening /\ server # "exited"
  /\ phase[c] = "none"
  /\ \E r \in Requests[c] : req' = [req EXCEPT ![c] = r]
  /\ phase' = [phase EXCEPT ![c] = "backlog"]
  /\ UNCHANGED <<conns, listening, server, got, left, answer>>

Leave(c) ==
  /\ c \notin Diligent
  /\ phase[c] # "none"
  /\ ~left[c]
  /\ left' = [left EXCEPT ![c] = TRUE]
  /\ UNCHANGED <<conns, listening, server, phase, req, got, answer>>

---------------------------------------------------------------------------
(* run and stop *)

\* Variants: one connection too many; a full server does not accept.
AcceptOneMore(c) ==
  /\ listening /\ server = "accept"
  /\ phase[c] = "backlog"
  /\ conns <= MaxConnections
  /\ conns' = conns + 1
  /\ phase' = [phase EXCEPT ![c] = "head"]
  /\ UNCHANGED <<listening, server, req, got, left, answer>>

\* A connection is accepted and gets a thread.
Accept(c) ==
  /\ listening /\ server = "accept"
  /\ phase[c] = "backlog"
  /\ conns < MaxConnections
  /\ conns' = conns + 1
  /\ phase' = [phase EXCEPT ![c] = "head"]
  /\ UNCHANGED <<listening, server, req, got, left, answer>>

\* Variant: a full server leaves connections waiting for a slot.
RefuseNot(c) == FALSE /\ UNCHANGED vars

\* It is accepted, answered 503 and closed when all slots are in use.
Refuse(c) ==
  /\ listening /\ server = "accept"
  /\ phase[c] = "backlog"
  /\ conns >= MaxConnections
  /\ Closed(c)
  /\ UNCHANGED <<conns, listening, server>>

\* An error of accept that is not EINTR ends the loop.
AcceptFails ==
  /\ listening /\ server = "accept"
  /\ server' = "returned"
  /\ UNCHANGED <<conns, listening, phase, req, got, left, answer>>

\* stop: the kernel resets what was waiting to be accepted.
Stop ==
  /\ listening /\ server # "exited"
  /\ listening' = FALSE
  /\ phase' = [c \in Conn |-> IF phase[c] = "backlog" THEN "none" ELSE phase[c]]
  /\ req' = [c \in Conn |-> IF phase[c] = "backlog" THEN NoRequest ELSE req[c]]
  /\ left' = [c \in Conn |-> phase[c] # "backlog" /\ left[c]]
  /\ UNCHANGED <<conns, server, got, answer>>

\* Variant: run waits for its connections.
StopSeenIdle ==
  /\ ~listening /\ server = "accept"
  /\ conns = 0
  /\ server' = "returned"
  /\ UNCHANGED <<conns, listening, phase, req, got, left, answer>>

\* accept fails on the closed socket.
StopSeen ==
  /\ ~listening /\ server = "accept"
  /\ server' = "returned"
  /\ UNCHANGED <<conns, listening, phase, req, got, left, answer>>

\* run_web returns and the process ends, connections included.
Exit ==
  /\ server = "returned"
  /\ server' = "exited"
  /\ UNCHANGED <<conns, listening, phase, req, got, left, answer>>

---------------------------------------------------------------------------
(* The thread of a connection: handle_connection, then close and conns_--. *)

\* Variant: connection threads stop with run.
AtWhileRunning(c, p) == server = "accept" /\ phase[c] = p

At(c, p) == server # "exited" /\ phase[c] = p

Reply(c, a) ==
  /\ answer' = [answer EXCEPT ![c] = a]
  /\ phase' = [phase EXCEPT ![c] = "close"]
  /\ UNCHANGED <<conns, listening, server, req, got, left>>

Goto(c, p) ==
  /\ phase' = [phase EXCEPT ![c] = p]
  /\ UNCHANGED <<conns, listening, server, req, got, left, answer>>

Length(r) == r.head + r.body

HeadFound(c) == got[c] >= req[c].head
HeadTooLong(c) == got[c] > MaxHead + Slack
BodyRead(c) == got[c] >= Length(req[c])

\* Is the thread in a recv that has something to wait for?
Reading(c) ==
  \/ At(c, "head") /\ ~HeadFound(c) /\ ~HeadTooLong(c)
  \/ At(c, "body") /\ ~BodyRead(c)

Recv(c) ==
  /\ Reading(c)
  /\ \E n \in 1..Buf :
       /\ got[c] + n <= Length(req[c])
       /\ got' = [got EXCEPT ![c] = @ + n]
  /\ UNCHANGED <<conns, listening, server, phase, req, left, answer>>

\* Variant: what came of the body is handled.
EofInBodyIgnored(c) ==
  /\ Reading(c)
  /\ left[c]
  /\ \/ phase[c] = "body" /\ Goto(c, "check")
     \/ phase[c] = "head" /\ Reply(c, "400")

\* Variant: the error path gives the slot back, and so does the end.
EofReleases(c) ==
  /\ Reading(c)
  /\ left[c]
  /\ answer' = [answer EXCEPT ![c] = "400"]
  /\ phase' = [phase EXCEPT ![c] = "close"]
  /\ conns' = conns - 1
  /\ UNCHANGED <<listening, server, req, got, left>>

\* recv returns 0 or an error: "request invalida", "body incompleto".
Eof(c) ==
  /\ Reading(c)
  /\ left[c]
  /\ Reply(c, "400")

\* read_request_head has returned; parse_request_head, in its order.
HeadDone(c) ==
  /\ At(c, "head")
  /\ HeadFound(c) \/ HeadTooLong(c)
  /\ \/ /\ HeadTooLong(c) \/ req[c].head > MaxHead \/ req[c].line = "malformed"
        /\ Reply(c, "400")
     \/ /\ ~HeadTooLong(c) /\ req[c].head <= MaxHead
        /\ \/ req[c].line = "method" /\ Reply(c, "405")
           \/ req[c].line = "ok" /\ req[c].body > MaxBody /\ Reply(c, "413")
           \/ req[c].line = "ok" /\ req[c].body <= MaxBody /\ Goto(c, "body")

BodyDone(c) ==
  /\ At(c, "body")
  /\ BodyRead(c)
  /\ Goto(c, "check")

\* The token, the Host and route; an asset needs neither.
Check(c) ==
  /\ At(c, "check")
  /\ \/ req[c].asset /\ req[c].get /\ Reply(c, "asset")
     \/ req[c].asset /\ ~req[c].get /\ Reply(c, "api")
     \/ ~req[c].asset /\ ~req[c].host /\ Reply(c, "400")
     \/ ~req[c].asset /\ req[c].host /\ ~req[c].token /\ Reply(c, "401")
     \/ ~req[c].asset /\ req[c].host /\ req[c].token /\ Reply(c, "api")

Close(c) == At(c, "close") /\ Goto(c, "release")

\* Variant: a connection whose client has left keeps its slot.
ReleaseLeaks(c) ==
  /\ At(c, "release")
  /\ conns' = IF left[c] THEN conns ELSE conns - 1
  /\ Closed(c)
  /\ UNCHANGED <<listening, server>>

Release(c) ==
  /\ At(c, "release")
  /\ conns' = conns - 1
  /\ Closed(c)
  /\ UNCHANGED <<listening, server>>

---------------------------------------------------------------------------
Client(c) == Connect(c) \/ Leave(c)

\* What the thread of a connection does once a recv is done.
Work(c) ==
  Eof(c) \/ HeadDone(c) \/ BodyDone(c) \/ Check(c) \/ Close(c) \/ Release(c)

Run == (\E c \in Conn : Accept(c) \/ Refuse(c)) \/ StopSeen

Next ==
  \/ \E c \in Conn : Client(c) \/ Recv(c) \/ Work(c)
  \/ Run \/ AcceptFails \/ Stop \/ Exit

Spec == Init /\ [][Next]_vars

\* A send does not wait for a client that reads, and fails to one that left.
Unblocked(c) == c \in Diligent \/ left[c]

\* run and the connection threads go on; a diligent client's bytes arrive;
\* the kernel hands out waiting connections in order, so each gets its turn.
FairSpec ==
  /\ Spec
  /\ WF_vars(StopSeen)
  /\ \A c \in Conn : /\ WF_vars(Accept(c) \/ Refuse(c))
                      /\ WF_vars(Unblocked(c) /\ Work(c))
  /\ \A c \in Diligent : WF_vars(Recv(c))

---------------------------------------------------------------------------
(* Properties *)

TypeOK ==
  /\ conns \in Nat
  /\ listening \in BOOLEAN
  /\ server \in {"accept", "returned", "exited"}
  /\ phase \in [Conn -> Threads \cup {"none", "backlog"}]
  /\ req \in [Conn -> Request \cup {NoRequest}]
  /\ \A c \in Conn : phase[c] # "none" <=> req[c] \in Request
  /\ got \in [Conn -> Nat]
  /\ left \in [Conn -> BOOLEAN]
  /\ answer \in [Conn -> {"none", "400", "401", "405", "413", "api", "asset"}]

\* The slots in use are those of the threads there are: none leaks on any
\* path out of a connection thread, and there are never more threads than
\* kMaxConnections (http.h:31, server.cpp:182-192).
CountsThreads ==
  /\ conns = Cardinality(Serving)
  /\ conns <= MaxConnections

\* What the limits of http.h:10-16 and the checks let through.
Acceptable(r) ==
  /\ r.head <= MaxHead /\ r.body <= MaxBody /\ r.line = "ok"
  /\ r.asset \/ (r.host /\ r.token)

\* read_request_head cannot get more than it allows, whatever the recvs return:
\* the one that completes the head brings too little of the body for that, or
\* the request is no longer.
Comfortable(r) ==
  \/ r.head + Buf <= MaxHead + Slack + 1
  \/ Length(r) <= MaxHead + Slack

Handled(c) == answer[c] \in {"api", "asset"}

\* Only an acceptable request that was there as a whole is handled, and no
\* comfortable one of them is turned down, in however many pieces it came.  An
\* acceptable one that is not comfortable is turned down or not depending on
\* the pieces: read_request_head counts what came of the body with the head
\* (server.cpp:114-119).
AnswerFits ==
  \A c \in Conn :
    /\ Handled(c) => Acceptable(req[c]) /\ BodyRead(c)
    /\ /\ answer[c] # "none" /\ ~left[c]
       /\ Acceptable(req[c]) /\ Comfortable(req[c])
       => Handled(c)

\* What a connection's phase says of the request and of what was read of it.
PhaseFits(c) ==
  /\ phase[c] \in {"none", "backlog", "head", "body", "check"} <=> answer[c] = "none"
  /\ phase[c] # "none" => got[c] <= Length(req[c])
  /\ phase[c] \in {"none", "backlog"} => got[c] = 0
  /\ phase[c] = "head" => got[c] < req[c].head + Buf
  /\ phase[c] \in {"body", "check"} =>
       req[c].head <= MaxHead /\ req[c].body <= MaxBody /\ req[c].line = "ok"
  /\ phase[c] = "check" => BodyRead(c)

IInv == TypeOK /\ CountsThreads /\ AnswerFits /\ \A c \in Conn : PhaseFits(c)

\* A client that sends its request, or leaves, is done with in the end,
\* however many others stall: there is a slot, or a 503 (server.cpp:182).
\* Only the end of the server may come first.
Answered ==
  \A c \in Conn :
    (phase[c] = "backlog" /\ c \in Diligent) \/ (phase[c] \in Threads /\ left[c])
      ~> phase[c] = "none" \/ server # "accept"

\* After stop, run returns whatever the connections do, and the threads that
\* are there still end their request, unless the process is gone
\* (server.h:49-50).
EndsAfterStop ==
  /\ ~listening ~> server # "accept"
  /\ \A c \in Diligent : phase[c] \in Threads ~> phase[c] = "none" \/ server = "exited"
===========================================================================
