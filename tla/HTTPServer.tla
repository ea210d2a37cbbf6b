----------------------------- MODULE HTTPServer -----------------------------
(***************************************************************************)
(* The process around the vote service: main.go with its start and exit    *)
(* code, the waiting for the backends (backend/backend.go), the server     *)
(* with its shutdown (vote/http/http.go) and what a handler makes of the   *)
(* answer of the service (vote/http/error.go).                             *)
(*                                                                         *)
(* A service method is one step here that has its effect or not; the other *)
(* modules say what it does.  net/http, the signal handling and the        *)
(* authentication are external: a server in shutdown closes its listener,  *)
(* waits for the connections that serve a request and closes the others;   *)
(* the context of a request ends with that of the server or when its       *)
(* client goes away.                                                       *)
(***************************************************************************)
EXTENDS Naturals

CONSTANTS
  Conns,          \* the connections of the clients, one request each
  SingleInstance  \* VOTE_SINGLE_INSTANCE: the memory backend need not be waited for

ASSUME SingleInstanceAssumption == SingleInstance \in BOOLEAN

Routes == {"start", "stop", "clear", "clear_all", "live_votes", "vote", "voted", "health"}

VARIABLES
  phase,        \* how far the main goroutine is
  interrupted,  \* the context of main is done
  database,     \* the database that the start now talks to: it is up, down, or it
                \* takes what is sent to it and neither answers nor fails
  shutdown,     \* the goroutine of Run that shuts the server down
  closing,      \* srv.Shutdown has been called: the server takes no connection
  exitCode,
  failed,       \* history: something other than the interrupt went wrong
  conn          \* per connection: its request

process == <<phase, exitCode, failed>>
outside == <<interrupted, database>>
server == <<shutdown, closing>>
vars == <<process, outside, server, conn>>

\* An error has the type it reports, if it reports one, and a status code, if
\* it carries one.
NoError == [type |-> "none", code |-> 0]
Error(type) == [type |-> type, code |-> 0]
Canceled == Error("canceled")
Untyped == Error("untyped")

\* blocked: what the handler waits for without a timeout.
NoRequest == [step |-> "unused", route |-> "none", gone |-> FALSE, blocked |-> "no",
              effect |-> FALSE, err |-> NoError, status |-> 0]

Init ==
  /\ phase = "init"
  /\ interrupted = FALSE
  /\ database \in {"up", "down", "hangs"}
  /\ shutdown = "none" /\ closing = FALSE
  /\ exitCode = 0 /\ failed = FALSE
  /\ conn = [c \in Conns |-> NoRequest]
-----------------------------------------------------------------------------
(***************************************************************************)
(* main, run and the service that initService returns.                     *)
(***************************************************************************)
\* Mutant: an interrupted start is a failure.
contextDoneNever(err) == err

contextDone(err) == IF err = Canceled THEN NoError ELSE err

Exit(err) ==
  /\ phase' = "exited"
  /\ exitCode' = IF contextDone(err) = NoError THEN 0 ELSE 1

Enter(next) == phase' = next /\ UNCHANGED exitCode

\* The call succeeds, or it fails and so does the service.
Try(next) ==
  \/ Enter(next) /\ UNCHANGED failed
  \/ Exit(Untyped) /\ failed' = TRUE

\* The same for a call that is given the context, and can fail before it looks.
TryContext(next) ==
  \/ (IF interrupted THEN Exit(Canceled) ELSE Enter(next)) /\ UNCHANGED failed
  \/ Exit(Untyped) /\ failed' = TRUE

\* The wait for the database of the datastore does not know the context.
Flow ==
  /\ phase = "init"
  /\ \/ database = "up" /\ Enter("services") /\ UNCHANGED failed
     \/ Exit(Untyped) /\ failed' = TRUE
  /\ UNCHANGED <<outside, server, conn>>

\* The authentication and the secrets.
initService ==
  /\ phase = "services"
  /\ Try("fast")
  /\ UNCHANGED <<outside, server, conn>>

\* The loop ends with an answer to PING or with the context, which it looks at
\* before each PING.
redisWait == database = "up" \/ interrupted

\* The memory backend is there at once; after Wait for redis the context is
\* looked at once more.
buildFast ==
  /\ phase = "fast"
  /\ SingleInstance \/ redisWait
  /\ IF SingleInstance \/ ~interrupted THEN Enter("long") ELSE Exit(Canceled)
  /\ UNCHANGED <<failed, outside, server, conn>>

\* postgres.New and Wait, then Migrate.
newLong ==
  /\ phase = "long"
  /\ Try("waitLong")
  /\ UNCHANGED <<outside, server, conn>>

\* Mutant: an answer does not end the loop.
waitLongForever ==
  /\ phase = "waitLong"
  /\ interrupted
  /\ Enter("migrate")
  /\ UNCHANGED <<failed, outside, server, conn>>

waitLong ==
  /\ phase = "waitLong"
  /\ database = "up" \/ interrupted
  /\ Enter("migrate")
  /\ UNCHANGED <<failed, outside, server, conn>>

\* A statement that hangs ends with the context.
migrate ==
  /\ phase = "migrate"
  /\ database # "hangs" \/ interrupted
  /\ TryContext("new")
  /\ UNCHANGED <<outside, server, conn>>

\* vote.New loads liveVotes from both backends.
newService ==
  /\ phase = "new"
  /\ database # "hangs" \/ interrupted
  /\ TryContext("run")
  /\ UNCHANGED <<outside, server, conn>>
-----------------------------------------------------------------------------
(***************************************************************************)
(* Server.Run.                                                             *)
(***************************************************************************)
Run ==
  /\ phase = "run"
  /\ phase' = "listen"
  /\ shutdown' = "waiting"
  /\ UNCHANGED <<exitCode, failed, outside, closing, conn>>

StartListener ==
  /\ phase = "listen"
  /\ Try("accept")
  /\ UNCHANGED <<outside, server, conn>>

\* Mutant: Run returns as soon as Serve does.
ServeOnly ==
  /\ phase = "accept"
  /\ \/ closing /\ Exit(NoError) /\ UNCHANGED failed
     \/ ~closing /\ Exit(Untyped) /\ failed' = TRUE
  /\ UNCHANGED <<outside, server, conn>>

\* Serve accepts connections until the server closes, also when that was before
\* Serve was called, or until the listener fails.
Serve ==
  /\ phase = "accept"
  /\ \/ closing /\ Enter("wait") /\ UNCHANGED failed
     \/ ~closing /\ Exit(Untyped) /\ failed' = TRUE
  /\ UNCHANGED <<outside, server, conn>>

\* return <-wait
Wait ==
  /\ phase = "wait"
  /\ shutdown \in {"done", "failed"}
  /\ Exit(IF shutdown = "done" THEN NoError ELSE Untyped)
  /\ UNCHANGED <<failed, outside, server, conn>>

\* The goroutine: <-ctx.Done(), then srv.Shutdown.
Shutdown ==
  /\ shutdown = "waiting" /\ interrupted /\ phase # "exited"
  /\ shutdown' = "draining"
  /\ closing' = TRUE
  /\ UNCHANGED <<process, outside, conn>>

Drained ==
  /\ shutdown = "draining" /\ phase # "exited"
  /\ \A c \in Conns : conn[c].step \in {"unused", "closed"}
  /\ \/ shutdown' = "done" /\ UNCHANGED failed
     \/ shutdown' = "failed" /\ failed' = TRUE
  /\ UNCHANGED <<phase, exitCode, outside, closing, conn>>
-----------------------------------------------------------------------------
(***************************************************************************)
(* Requests.                                                               *)
(***************************************************************************)
Set(c, r) == conn' = [conn EXCEPT ![c] = r] /\ UNCHANGED <<process, outside, server>>

Alive == phase # "exited"
At(c, step) == Alive /\ conn[c].step = step

\* r.Context() is done.
ContextDone(c) == interrupted \/ conn[c].gone

Accept(c) ==
  /\ phase = "accept" /\ ~closing
  /\ At(c, "unused")
  /\ Set(c, [NoRequest EXCEPT !.step = "accepted"])

\* A request is read, also from a connection that was accepted before the
\* shutdown, and given to the handler of its route.
Receive(c) ==
  /\ At(c, "accepted")
  /\ \E route \in Routes : Set(c, [conn[c] EXCEPT !.step = "handler", !.route = route])

\* A connection that has sent no request is closed by the shutdown.
CloseIdle(c) ==
  /\ At(c, "accepted") /\ closing
  /\ Set(c, [conn[c] EXCEPT !.step = "closed"])

\* Reading from and writing to a client that has gone ends at once.
ClientGone(c) ==
  /\ Alive /\ conn[c].step \notin {"unused", "closed"} /\ ~conn[c].gone
  /\ Set(c, [conn[c] EXCEPT !.gone = TRUE, !.blocked = IF @ = "client" THEN "no" ELSE @])

\* The handler waits for the rest of the body, which Vote reads, or for a client
\* that does not take what is written: the server has no timeouts, and the end
\* of the context does not end a read or a write.
BlockOnClient(c) ==
  /\ (At(c, "call") /\ conn[c].route = "vote") \/ At(c, "encode") \/ At(c, "stream")
  /\ conn[c].blocked = "no" /\ ~conn[c].gone
  /\ Set(c, [conn[c] EXCEPT !.blocked = "client"])

\* The method has sent a command to a redis that hangs: the connections of the
\* pool have no timeouts, and the commands are not given the context.
BlockOnRedis(c) ==
  /\ ~SingleInstance
  /\ At(c, "call") /\ conn[c].route \in {"start", "stop", "clear", "clear_all", "vote"}
  /\ conn[c].blocked = "no"
  /\ Set(c, [conn[c] EXCEPT !.blocked = "redis"])

\* The client or redis goes on.
Unblock(c) ==
  /\ At(c, "call") \/ At(c, "encode") \/ At(c, "stream")
  /\ conn[c].blocked # "no"
  /\ Set(c, [conn[c] EXCEPT !.blocked = "no"])

Fails(c, err) == Set(c, [conn[c] EXCEPT !.step = "resolve", !.err = err])

\* There is no id, or it is not a number; the same for the list of pollsID.
pollID(c) ==
  conn[c].route \in {"start", "stop", "clear", "vote", "voted"} /\ Fails(c, Error("invalid"))

\* What a handler checks before it calls the service: the user, then the id.
checkRequest(c) ==
  /\ At(c, "handler")
  /\ \/ conn[c].route \in {"vote", "voted"}
          /\ Fails(c, [type |-> "not-allowed", code |-> 401])
     \/ conn[c].route \in {"vote", "voted"}
          /\ \E err \in {Untyped, Error("auth")} : Fails(c, err)
     \/ conn[c].route \in {"vote", "voted"} /\ ContextDone(c) /\ Fails(c, Canceled)
     \/ pollID(c)
     \/ Set(c, [conn[c] EXCEPT !.step = IF conn[c].route = "live_votes" THEN "stream" ELSE "call"])

\* The typed errors that the method of the route returns.
TypedErrors(route) ==
  CASE route = "start" -> {"not-exist", "invalid"}
    [] route = "stop"  -> {"not-exist"}
    [] route = "vote"  -> {"not-exist", "invalid", "not-allowed", "double-vote", "stopped"}
    [] OTHER           -> {}

Returns(c, effect, err) ==
  Set(c, [conn[c] EXCEPT
    !.step = IF err = NoError /\ conn[c].route \in {"stop", "voted"} THEN "encode" ELSE "resolve",
    !.effect = effect, !.err = err])

\* The method succeeds; it turns the request down; something else fails, before
\* or after the effect.  When the context is done it may return that, or return
\* at the top of the retry loop of the postgres backend with nothing done.
callService(c) ==
  /\ At(c, "call") /\ conn[c].blocked = "no"
  /\ \/ Returns(c, TRUE, NoError)
     \/ \E t \in TypedErrors(conn[c].route) : Returns(c, FALSE, Error(t))
     \/ conn[c].route # "health" /\ \E effect \in BOOLEAN : Returns(c, effect, Untyped)
     \/ /\ conn[c].route # "health" /\ ContextDone(c)
        /\ \/ \E effect \in BOOLEAN : Returns(c, effect, Canceled)
           \/ conn[c].route \in {"vote", "stop"} /\ Returns(c, FALSE, NoError)

\* Writing to a client that has gone may fail.
encode(c) ==
  /\ At(c, "encode") /\ conn[c].blocked = "no"
  /\ \/ Fails(c, NoError)
     \/ conn[c].gone /\ Fails(c, Untyped)

\* Mutant: the stream only ends when it cannot be written.
streamForever(c) ==
  /\ At(c, "stream") /\ conn[c].blocked = "no"
  /\ conn[c].gone /\ \E err \in {NoError, Untyped} : Fails(c, err)

\* handleAllVotedIDs goes on until its context is done.
stream(c) ==
  /\ At(c, "stream") /\ conn[c].blocked = "no"
  /\ \/ ContextDone(c) /\ Fails(c, NoError)
     \/ conn[c].gone /\ Fails(c, Untyped)

\* Mutant: every error is the client's.
writeStatusCode400(err) == IF err.code # 0 THEN err.code ELSE 400

\* Mutant: no status code to start with.
writeStatusCode0(err) == IF err.type \in {"untyped", "internal"} THEN 500 ELSE err.code

writeStatusCode(err) ==
  IF err.type \in {"untyped", "internal"} THEN 500
  ELSE IF err.code # 0 THEN err.code ELSE 400

\* Without an error, and when the context is done, nothing is written, which
\* the client sees as 200.
resolveError(c) ==
  LET err == conn[c].err IN
  /\ At(c, "resolve")
  /\ Set(c, [conn[c] EXCEPT !.step = "closed",
       !.status = IF err \in {NoError, Canceled} THEN 200 ELSE writeStatusCode(err)])
-----------------------------------------------------------------------------
(***************************************************************************)
(* The world outside: a signal, and backends that come and go.             *)
(***************************************************************************)
Interrupt ==
  /\ Alive /\ ~interrupted
  /\ interrupted' = TRUE
  /\ UNCHANGED <<process, database, server, conn>>

\* Redis, postgres and the database of the datastore may each be up, be down or
\* hang when the start comes to it.  One that goes down after the waits is an
\* error of the call that meets it.
Flap ==
  /\ \/ /\ phase \in {"init", "services", "fast", "long", "waitLong"}
        /\ database' \in {"up", "down", "hangs"} \ {database}
     \/ /\ phase \in {"migrate", "new"}
        /\ database' = IF database = "hangs" THEN "up" ELSE "hangs"
  /\ UNCHANGED <<process, interrupted, server, conn>>

Main ==
  \/ initService \/ buildFast \/ newLong \/ waitLong \/ migrate \/ newService
  \/ Run \/ StartListener \/ Wait

Handler(c) ==
  checkRequest(c) \/ callService(c) \/ encode(c) \/ stream(c) \/ resolveError(c)

Next ==
  \/ Flow \/ Main \/ Serve \/ Shutdown \/ Drained
  \/ \E c \in Conns : Accept(c) \/ Receive(c) \/ CloseIdle(c) \/ Handler(c) \/ ClientGone(c)
                      \/ BlockOnClient(c) \/ BlockOnRedis(c) \/ Unblock(c)
  \/ Interrupt \/ Flap

Spec == Init /\ [][Next]_vars

\* The start has sent PING, or the reads of vote.New, to a redis that hangs.  If
\* it was interrupted before it may still go on, but nothing makes it.
RedisHangs == ~SingleInstance /\ phase \in {"fast", "new"} /\ database = "hangs"

\* Every goroutine that can go on does: main, with Flow once the database answers
\* and Serve once the server closes, the shutdown, and the handlers that are not
\* blocked.  Clients, signals, failures and the databases do as they like.
Fairness ==
  /\ WF_vars(Flow /\ database = "up") /\ WF_vars(Main /\ ~RedisHangs)
  /\ WF_vars(Serve /\ closing) /\ WF_vars(Shutdown) /\ WF_vars(Drained)
  /\ \A c \in Conns : WF_vars(Handler(c)) /\ WF_vars(CloseIdle(c))

FairSpec == Spec /\ Fairness
-----------------------------------------------------------------------------
TypeOK ==
  /\ phase \in {"init", "services", "fast", "long", "waitLong", "migrate", "new", "run",
                "listen", "accept", "wait", "exited"}
  /\ {interrupted, closing, failed} \subseteq BOOLEAN
  /\ database \in {"up", "down", "hangs"}
  /\ shutdown \in {"none", "waiting", "draining", "done", "failed"}
  /\ exitCode \in {0, 1}
  /\ \A c \in Conns :
       /\ conn[c].step \in {"unused", "accepted", "handler", "call", "encode", "stream",
                            "resolve", "closed"}
       /\ conn[c].blocked \in {"no", "client", "redis"}
       /\ conn[c].status \in {0, 200, 400, 401, 500}
       /\ conn[c].status = 0 <=> conn[c].step # "closed" \/ conn[c].route = "none"

\* An interrupt ends the process, whenever it comes: while it waits for a
\* database that is down, before Serve is called, with streams open that the
\* server itself never closes.  The exceptions are the wait in Flow, which only
\* an answer ends, and what neither the context nor a timeout ends: a redis that
\* hangs for good, and a request whose client neither goes on nor away.
InterruptEnds ==
  <>[]~RedisHangs /\ (\A c \in Conns : <>[](conn[c].blocked = "no")) =>
    (interrupted /\ phase # "init" ~> phase = "exited")

\* Once the databases answer for good, the start ends: the service takes
\* requests, or the process is over.
StartEnds == <>[](database = "up") => <>(phase \in {"accept", "exited"})

\* A process that exits with 0 has finished the requests it had taken: Run does
\* not return before Shutdown has.
ExitDrained ==
  phase = "exited" /\ exitCode = 0 =>
    \A c \in Conns : conn[c].step \in {"unused", "closed"}

\* The exit code is 1 if and only if something else than the interrupt went
\* wrong, also when the interrupt makes a call of the start return an error.
ExitCode == phase = "exited" => (exitCode = 1 <=> failed)

\* The status can be relied on: 400 and 401 say that nothing was done, and 200
\* that it was, as long as the client waits for it and the service is not being
\* shut down.
StatusTellsEffect ==
  \A c \in Conns :
    /\ conn[c].status \in {400, 401} => ~conn[c].effect
    /\ conn[c].status = 200 /\ ~ContextDone(c) /\ conn[c].route # "live_votes" => conn[c].effect
=============================================================================
