-------------------------- MODULE HTTPServerProofs --------------------------
(***************************************************************************)
(* What the exit of the process and the status of an answer tell, for any  *)
(* number of connections: ExitDrained, ExitCode and StatusTellsEffect.     *)
(*                                                                         *)
(* The exit code is about the whole run.  Until the process exits, only    *)
(* the shutdown can have failed without ending it, and the channel of Run  *)
(* keeps that until main receives it (FailureKept).  Exit 0 is drained     *)
(* since a server that has shut down takes no connection any more          *)
(* (ShutdownDrained).  The status needs what the error of a request says   *)
(* about its effect at every step of the handler (Consistent).             *)
(***************************************************************************)
EXTENDS HTTPServer, TLAPS

StartPhases == {"init", "services", "fast", "long", "waitLong", "migrate", "new", "run"}
Phases == StartPhases \cup {"listen", "accept", "wait", "exited"}

Errors ==
  {NoError, Canceled, Untyped, [type |-> "not-allowed", code |-> 401]}
    \cup {Error(t) : t \in {"auth", "not-exist", "invalid", "not-allowed", "double-vote", "stopped"}}

Steps == {"unused", "accepted", "handler", "call", "encode", "stream", "resolve", "closed"}
Statuses == {0, 200, 400, 401, 500}

Requests ==
  [step : Steps, route : Routes \cup {"none"}, gone : BOOLEAN,
   blocked : {"no", "client", "redis"}, effect : BOOLEAN, err : Errors, status : Statuses]

Types ==
  /\ phase \in Phases
  /\ interrupted \in BOOLEAN /\ database \in {"up", "down", "hangs"}
  /\ shutdown \in {"none", "waiting", "draining", "done", "failed"}
  /\ closing \in BOOLEAN
  /\ exitCode \in {0, 1} /\ failed \in BOOLEAN
  /\ conn \in [Conns -> Requests]

\* What the error of a request that is being answered tells of its effect; done
\* says that its context has ended.
ErrorTells(r, done) ==
  /\ r.err \notin {NoError, Canceled, Untyped} => ~r.effect
  /\ r.err = NoError /\ r.route # "live_votes" => r.effect \/ done

Consistent(r, done) ==
  /\ r.step \in {"unused", "accepted"} => r.route = "none"
  /\ r.step \in {"handler", "call", "encode", "stream", "resolve"} => r.route \in Routes
  /\ r.step # "closed" => r.status = 0
  /\ r.step \in {"unused", "accepted", "handler", "call", "stream"} => ~r.effect
  /\ r.step = "stream" => r.route = "live_votes"
  /\ r.step = "encode" => r.err = NoError
  /\ r.step \in {"encode", "resolve"} => ErrorTells(r, done)
  /\ r.err = Canceled => done
  /\ r.step = "closed" =>
       /\ r.status = 0 <=> r.route = "none"
       /\ r.status \in {400, 401} => ~r.effect
       /\ r.status = 200 /\ r.route # "live_votes" => r.effect \/ done

Unserved == \A c \in Conns : conn[c].step \in {"unused", "closed"}

\* Before Run.
NotRunning ==
  /\ phase \in StartPhases => shutdown = "none" /\ closing = FALSE
  /\ phase \in StartPhases \cup {"listen"} => Unserved

ShutdownDrained ==
  /\ shutdown \in {"draining", "done", "failed"} => closing
  /\ shutdown \in {"done", "failed"} => Unserved

FailureKept == phase # "exited" => (failed <=> shutdown = "failed")

IInv ==
  /\ Types
  /\ \A c \in Conns : Consistent(conn[c], ContextDone(c))
  /\ NotRunning /\ ShutdownDrained /\ FailureKept
  /\ ExitDrained /\ ExitCode
-----------------------------------------------------------------------------
LEMMA InitIInv == Init => IInv
<1> SUFFICES ASSUME Init PROVE IInv
  OBVIOUS
<1>1. conn \in [Conns -> Requests]
  BY DEF Init, Requests, NoRequest, Errors, Steps, Statuses
<1>2. \A c \in Conns : Consistent(conn[c], ContextDone(c))
  BY DEF Init, NoRequest, Consistent, NoError, Canceled, Error
<1>3. Types
  BY <1>1 DEF Init, Types, Phases, StartPhases
<1>4. NotRunning /\ ShutdownDrained /\ FailureKept /\ ExitDrained /\ ExitCode
  BY DEF Init, NotRunning, ShutdownDrained, FailureKept, ExitDrained, ExitCode, Unserved, NoRequest
<1> QED
  BY <1>2, <1>3, <1>4 DEF IInv

\* What the exit code is.
LEMMA ExitCodes ==
  /\ Exit(NoError) => phase' = "exited" /\ exitCode' = 0
  /\ Exit(Canceled) => phase' = "exited" /\ exitCode' = 0
  /\ Exit(Untyped) => phase' = "exited" /\ exitCode' = 1
BY DEF Exit, contextDone, NoError, Canceled, Untyped, Error
-----------------------------------------------------------------------------
\* A request stays one when a field gets another value.
LEMMA StepUpdate == ASSUME NEW r \in Requests, NEW x \in Steps PROVE [r EXCEPT !.step = x] \in Requests
BY DEF Requests
LEMMA RouteUpdate == ASSUME NEW r \in Requests, NEW x \in Routes PROVE [r EXCEPT !.route = x] \in Requests
BY DEF Requests
LEMMA GoneUpdate == ASSUME NEW r \in Requests, NEW x \in BOOLEAN PROVE [r EXCEPT !.gone = x] \in Requests
BY DEF Requests
LEMMA BlockedUpdate ==
  ASSUME NEW r \in Requests, NEW x \in {"no", "client", "redis"} PROVE [r EXCEPT !.blocked = x] \in Requests
BY DEF Requests
LEMMA EffectUpdate == ASSUME NEW r \in Requests, NEW x \in BOOLEAN PROVE [r EXCEPT !.effect = x] \in Requests
BY DEF Requests
LEMMA ErrUpdate == ASSUME NEW r \in Requests, NEW x \in Errors PROVE [r EXCEPT !.err = x] \in Requests
BY DEF Requests
LEMMA StatusUpdate == ASSUME NEW r \in Requests, NEW x \in Statuses PROVE [r EXCEPT !.status = x] \in Requests
BY DEF Requests
-----------------------------------------------------------------------------
\* A step of a connection gives it a consistent request, and one that is not
\* being served is served only by an open server.
ConnStep(c) ==
  \/ Accept(c) \/ Receive(c) \/ CloseIdle(c) \/ Handler(c) \/ ClientGone(c)
  \/ BlockOnClient(c) \/ BlockOnRedis(c) \/ Unblock(c)

LEMMA ConnSteps ==
  ASSUME IInv, NEW c \in Conns, ConnStep(c)
  PROVE  /\ UNCHANGED <<process, outside, server>> /\ phase # "exited"
         /\ \E r \in Requests :
              /\ conn' = [conn EXCEPT ![c] = r]
              /\ Consistent(r, interrupted \/ r.gone)
         /\ conn[c].step \in {"unused", "closed"} => phase = "accept" /\ ~closing
<1> DEFINE old == conn[c]
           Good(r) == /\ r \in Requests /\ Consistent(r, interrupted \/ r.gone)
<1>t. /\ conn \in [Conns -> Requests] /\ old \in Requests /\ Consistent(old, interrupted \/ old.gone)
      /\ interrupted \in BOOLEAN /\ old.gone \in BOOLEAN /\ old.effect \in BOOLEAN
  BY DEF IInv, Types, ContextDone, Requests
<1>e. /\ NoError \in Errors /\ Canceled \in Errors /\ Untyped \in Errors
      /\ NoError # Canceled /\ NoError # Untyped /\ Canceled # Untyped
  BY DEF Errors, NoError, Canceled, Untyped, Error
<1> SUFFICES \E r : Set(c, r) /\ Good(r)
                    /\ phase # "exited"
                    /\ (old.step \in {"unused", "closed"} => phase = "accept" /\ ~closing)
  BY <1>t DEF Set
<1>1. CASE Accept(c)
  <2> DEFINE r == [NoRequest EXCEPT !.step = "accepted"]
  <2>1. Good(r)
    BY <1>e DEF NoRequest, Requests, Consistent, Steps, Statuses
  <2> QED
    BY <1>1, <2>1 DEF Accept, At, Alive
<1>2. CASE Receive(c)
  <2>1. PICK route \in Routes : Set(c, [conn[c] EXCEPT !.step = "handler", !.route = route])
    BY <1>2 DEF Receive
  <2> DEFINE r == [conn[c] EXCEPT !.step = "handler", !.route = route]
  <2>2. Good(r)
    <3>1. /\ r.step = "handler" /\ r.route = route /\ r.gone = old.gone
          /\ r.effect = old.effect /\ r.err = old.err /\ r.status = old.status
      BY <1>t DEF Requests
    <3>2. r \in Requests
      <4>1. [old EXCEPT !.step = "handler"] \in Requests
        BY <1>t, StepUpdate DEF Steps
      <4> QED
        BY <4>1, RouteUpdate
    <3> HIDE DEF r
    <3>3. Consistent(r, interrupted \/ r.gone)
      BY <1>2, <1>t, <3>1 DEF Consistent, Receive, At
    <3> QED
      BY <3>2, <3>3
  <2> QED
    BY <1>2, <2>1, <2>2 DEF Receive, At, Alive
<1>3. CASE CloseIdle(c)
  <2> DEFINE r == [conn[c] EXCEPT !.step = "closed"]
  <2>2. Good(r)
    BY <1>3, <1>t DEF Requests, Consistent, CloseIdle, At, Steps
  <2> QED
    BY <1>3, <2>2 DEF CloseIdle, At, Alive
<1>4. CASE ClientGone(c)
  <2> DEFINE x == IF conn[c].blocked = "client" THEN "no" ELSE conn[c].blocked
             r == [conn[c] EXCEPT !.gone = TRUE, !.blocked = x]
  <2>1. Set(c, r) /\ x \in {"no", "client", "redis"}
    BY <1>4, <1>t DEF ClientGone, Requests
  <2> HIDE DEF x
  <2>2. Good(r)
    <3>1. /\ r.step = old.step /\ r.route = old.route /\ r.gone = TRUE
          /\ r.effect = old.effect /\ r.err = old.err /\ r.status = old.status
      BY <1>t DEF Requests
    <3>2. r \in Requests
      <4>1. [old EXCEPT !.gone = TRUE] \in Requests
        BY <1>t, GoneUpdate
      <4> QED
        BY <2>1, <4>1, BlockedUpdate
    <3> HIDE DEF r
    <3>3. Consistent(r, interrupted \/ r.gone)
      BY <1>4, <1>t, <3>1 DEF Consistent, ErrorTells, ClientGone
    <3> QED
      BY <3>2, <3>3
  <2> QED
    BY <1>4, <2>1, <2>2 DEF ClientGone, Alive
<1>b. CASE BlockOnClient(c) \/ BlockOnRedis(c) \/ Unblock(c)
  <2>1. PICK x \in {"no", "client", "redis"} : Set(c, [conn[c] EXCEPT !.blocked = x])
    BY <1>b DEF BlockOnClient, BlockOnRedis, Unblock
  <2> DEFINE r == [conn[c] EXCEPT !.blocked = x]
  <2>2. Good(r)
    <3>1. /\ r.step = old.step /\ r.route = old.route /\ r.gone = old.gone
          /\ r.effect = old.effect /\ r.err = old.err /\ r.status = old.status
      BY <1>t DEF Requests
    <3>2. r \in Requests
      BY <1>t, BlockedUpdate
    <3> HIDE DEF r
    <3>3. Consistent(r, interrupted \/ r.gone)
      BY <1>t, <3>1 DEF Consistent, ErrorTells
    <3> QED
      BY <3>2, <3>3
  <2>3. phase # "exited" /\ old.step \notin {"unused", "closed"}
    BY <1>b DEF BlockOnClient, BlockOnRedis, Unblock, At, Alive
  <2> QED
    BY <2>1, <2>2, <2>3
<1>5. ASSUME NEW err \in Errors, Fails(c, err), ~old.effect, old.status = 0, old.route \in Routes, Alive,
             old.step \notin {"unused", "closed"},
             err \in {NoError, Canceled} => interrupted \/ old.gone
      PROVE  \E r : Set(c, r) /\ Good(r) /\ phase # "exited"
                    /\ (old.step \in {"unused", "closed"} => phase = "accept" /\ ~closing)
  <2> DEFINE r == [conn[c] EXCEPT !.step = "resolve", !.err = err]
  <2>1. Good(r)
    <3>1. /\ r.step = "resolve" /\ r.route = old.route /\ r.gone = old.gone
          /\ r.effect = old.effect /\ r.err = err /\ r.status = old.status
      BY <1>t DEF Requests
    <3>2. r \in Requests
      <4>1. [old EXCEPT !.step = "resolve"] \in Requests
        BY <1>t, StepUpdate DEF Steps
      <4> QED
        BY <4>1, <1>5, ErrUpdate
    <3> HIDE DEF r
    <3>3. Consistent(r, interrupted \/ r.gone)
      BY <1>5, <1>t, <1>e, <3>1 DEF Consistent, ErrorTells
    <3> QED
      BY <3>2, <3>3
  <2> QED
    BY <1>5, <2>1 DEF Fails, Alive
<1>6. CASE checkRequest(c)
  <2>1. ~old.effect /\ old.status = 0 /\ old.route \in Routes /\ old.step = "handler" /\ Alive
    BY <1>6, <1>t DEF checkRequest, At, Consistent
  <2>2. CASE Fails(c, [type |-> "not-allowed", code |-> 401])
    BY <1>5, <2>1, <2>2 DEF Errors, NoError, Canceled, Error
  <2>3. CASE \E err \in {Untyped, Error("auth")} : Fails(c, err)
    BY <1>5, <2>1, <2>3 DEF Errors, NoError, Canceled, Error, Untyped
  <2>6. CASE ContextDone(c) /\ Fails(c, Canceled)
    BY <1>5, <1>e, <2>1, <2>6 DEF ContextDone
  <2>4. CASE Fails(c, Error("invalid"))
    BY <1>5, <2>1, <2>4 DEF Errors, NoError, Canceled, Error
  <2>5. CASE Set(c, [conn[c] EXCEPT !.step = IF conn[c].route = "live_votes" THEN "stream" ELSE "call"])
    <3> DEFINE next == IF conn[c].route = "live_votes" THEN "stream" ELSE "call"
               r == [conn[c] EXCEPT !.step = next]
    <3>1. next \in {"stream", "call"} /\ (next = "stream" => old.route = "live_votes") /\ Set(c, r)
      BY <2>5
    <3> HIDE DEF next
    <3>2. r \in Requests
      BY <1>t, <3>1, StepUpdate DEF Steps
    <3>3. Consistent(r, interrupted \/ r.gone)
      BY <1>t, <2>1, <3>1 DEF Requests, Consistent
    <3> QED
      BY <2>1, <3>1, <3>2, <3>3 DEF Alive
  <2> QED
    BY <1>6, <2>2, <2>3, <2>4, <2>5, <2>6 DEF checkRequest, pollID
<1>7. CASE callService(c)
  <2>1. old.status = 0 /\ old.route \in Routes /\ old.step = "call" /\ Alive
    BY <1>7, <1>t DEF callService, At, Consistent
  <2>2. ASSUME NEW effect \in BOOLEAN, NEW err \in Errors, Returns(c, effect, err),
               err \notin {NoError, Canceled, Untyped} => ~effect,
               err = NoError => effect \/ interrupted \/ old.gone,
               err = Canceled => interrupted \/ old.gone
        PROVE  \E r : Set(c, r) /\ Good(r) /\ phase # "exited"
                      /\ (old.step \in {"unused", "closed"} => phase = "accept" /\ ~closing)
    <3> DEFINE next == IF err = NoError /\ conn[c].route \in {"stop", "voted"} THEN "encode" ELSE "resolve"
               r == [conn[c] EXCEPT !.step = next, !.effect = effect, !.err = err]
    <3>1. next \in {"encode", "resolve"} /\ (next = "encode" => err = NoError)
      OBVIOUS
    <3>2. Set(c, r)
      BY <2>2 DEF Returns
    <3> HIDE DEF next
    <3>3. Good(r)
      <4>1. /\ r.step = next /\ r.route = old.route /\ r.gone = old.gone
            /\ r.effect = effect /\ r.err = err /\ r.status = old.status
        BY <1>t DEF Requests
      <4>2. r \in Requests
        <5>1. [old EXCEPT !.step = next] \in Requests
          BY <1>t, <3>1, StepUpdate DEF Steps
        <5>2. [[old EXCEPT !.step = next] EXCEPT !.effect = effect] \in Requests
          BY <5>1, EffectUpdate
        <5> QED
          BY <5>2, ErrUpdate
      <4> HIDE DEF r
      <4>3. Consistent(r, interrupted \/ r.gone)
        BY <1>t, <1>e, <2>1, <2>2, <3>1, <4>1 DEF Consistent, ErrorTells
      <4> QED
        BY <4>2, <4>3
    <3> QED
      BY <2>1, <3>2, <3>3 DEF Alive
  <2>3. CASE Returns(c, TRUE, NoError)
    BY <2>2, <2>3, <1>e
  <2>4. CASE \E t \in TypedErrors(conn[c].route) : Returns(c, FALSE, Error(t))
    <3>1. PICK t \in TypedErrors(conn[c].route) : Returns(c, FALSE, Error(t))
      BY <2>4
    <3>2. t \in {"not-exist", "invalid", "not-allowed", "double-vote", "stopped"}
      BY DEF TypedErrors
    <3>3. Error(t) \in Errors /\ Error(t) \notin {NoError, Canceled, Untyped}
      BY <3>2 DEF Errors, Error, NoError, Canceled, Untyped
    <3> QED
      BY <2>2, <3>1, <3>3
  <2>5. CASE \E effect \in BOOLEAN : Returns(c, effect, Untyped)
    BY <2>2, <2>5, <1>e
  <2>6. CASE ContextDone(c) /\ \E effect \in BOOLEAN : Returns(c, effect, Canceled)
    BY <2>2, <2>6, <1>e DEF ContextDone
  <2>7. CASE ContextDone(c) /\ Returns(c, FALSE, NoError)
    BY <2>2, <2>7, <1>e DEF ContextDone
  <2> QED
    BY <1>7, <2>3, <2>4, <2>5, <2>6, <2>7 DEF callService
<1>8. CASE encode(c)
  <2>1. PICK err \in {NoError, Untyped} : Fails(c, err)
    BY <1>8 DEF encode
  <2> DEFINE r == [conn[c] EXCEPT !.step = "resolve", !.err = err]
  <2>2. old.status = 0 /\ old.route \in Routes /\ old.err = NoError /\ old.step = "encode"
        /\ ErrorTells(old, interrupted \/ old.gone)
    BY <1>8, <1>t DEF encode, At, Consistent
  <2>3. Good(r)
    <3>1. /\ r.step = "resolve" /\ r.route = old.route /\ r.gone = old.gone
          /\ r.effect = old.effect /\ r.err = err /\ r.status = old.status
      BY <1>t DEF Requests
    <3>2. r \in Requests
      <4>1. [old EXCEPT !.step = "resolve"] \in Requests
        BY <1>t, StepUpdate DEF Steps
      <4> QED
        BY <4>1, <1>e, <2>1, ErrUpdate
    <3> HIDE DEF r
    <3>3. Consistent(r, interrupted \/ r.gone)
      BY <1>t, <1>e, <1>8, <2>1, <2>2, <3>1 DEF Consistent, ErrorTells, encode
    <3> QED
      BY <3>2, <3>3
  <2> QED
    BY <1>8, <2>1, <2>2, <2>3 DEF encode, At, Alive, Fails
<1>9. CASE stream(c)
  <2>1. ~old.effect /\ old.status = 0 /\ old.route \in Routes /\ old.step = "stream" /\ Alive
    BY <1>9, <1>t DEF stream, At, Consistent
  <2> QED
    BY <1>5, <1>9, <1>e, <2>1 DEF stream, ContextDone
<1>10. CASE resolveError(c)
  <2> DEFINE status == IF old.err \in {NoError, Canceled} THEN 200 ELSE writeStatusCode(old.err)
             r == [conn[c] EXCEPT !.step = "closed", !.status = status]
  <2>1. /\ old.status = 0 /\ old.route \in Routes /\ old.step = "resolve"
        /\ ErrorTells(old, interrupted \/ old.gone)
        /\ old.err = Canceled => interrupted \/ old.gone
    BY <1>10, <1>t DEF resolveError, At, Consistent
  <2>2. /\ status \in {200, 400, 401, 500}
        /\ status = 200 <=> old.err \in {NoError, Canceled}
        /\ status \in {400, 401} => old.err \notin {NoError, Canceled, Untyped}
    <3>1. old.err \in Errors
      BY <1>t DEF Requests
    <3> QED
      BY <3>1 DEF Errors, writeStatusCode, NoError, Canceled, Untyped, Error
  <2>3. Set(c, r)
    BY <1>10 DEF resolveError
  <2> HIDE DEF status
  <2>4. r \in Requests
    <3>1. status \in Statuses
      BY <2>2 DEF Statuses
    <3>2. [old EXCEPT !.step = "closed"] \in Requests
      BY <1>t, StepUpdate DEF Steps
    <3> QED
      BY <3>1, <3>2, StatusUpdate
  <2>5. "none" \notin Routes
    BY DEF Routes
  <2>6. Consistent(r, interrupted \/ r.gone)
    BY <1>t, <2>1, <2>2, <2>5 DEF Requests, Consistent, ErrorTells
  <2> QED
    BY <1>10, <2>1, <2>3, <2>4, <2>6 DEF resolveError, At, Alive
<1> QED
  BY <1>1, <1>2, <1>3, <1>4, <1>b, <1>6, <1>7, <1>8, <1>9, <1>10 DEF ConnStep, Handler
-----------------------------------------------------------------------------
\* A step of main, of the shutdown or of the world outside.
LEMMA ProcessSteps ==
  ASSUME IInv, UNCHANGED conn,
         Flow \/ Main \/ Serve \/ Shutdown \/ Drained \/ Interrupt \/ Flap
  PROVE  /\ Types' /\ (interrupted => interrupted')
         /\ (NotRunning /\ ShutdownDrained /\ FailureKept /\ ExitDrained /\ ExitCode)'
<1> USE DEF process, outside, server
<1> DEFINE Goal == /\ Types' /\ (interrupted => interrupted')
                   /\ (NotRunning /\ ShutdownDrained /\ FailureKept /\ ExitDrained /\ ExitCode)'
<1>t. Types /\ NotRunning /\ ShutdownDrained /\ FailureKept /\ ExitDrained /\ ExitCode
  BY DEF IInv, Types
<1>u. Unserved' <=> Unserved
  BY DEF Unserved
<1>d. ExitDrained' <=> (phase' = "exited" /\ exitCode' = 0 => Unserved)
  BY <1>u DEF ExitDrained, Unserved
<1> USE DEF Types, NotRunning, ShutdownDrained, FailureKept, ExitCode, Phases, StartPhases
<1>1. CASE Flow \/ initService \/ newLong \/ migrate \/ newService
  <2>1. /\ phase \in StartPhases \ {"run"} /\ UNCHANGED <<outside, server>>
        /\ \/ phase' \in StartPhases /\ UNCHANGED <<exitCode, failed>>
           \/ phase' = "exited" /\ exitCode' = 0 /\ UNCHANGED failed
           \/ phase' = "exited" /\ exitCode' = 1 /\ failed' = TRUE
    BY <1>1, ExitCodes DEF Flow, initService, newLong, migrate, newService, TryContext, Try, Enter
  <2>2. Types' /\ (interrupted => interrupted')
    BY <1>t, <1>u, <1>d, <2>1
  <2>3. NotRunning'
    BY <1>t, <1>u, <1>d, <2>1
  <2>4. ShutdownDrained'
    BY <1>t, <1>u, <1>d, <2>1
  <2>5. FailureKept'
    BY <1>t, <1>u, <1>d, <2>1
  <2>6. ExitDrained'
    BY <1>t, <1>u, <1>d, <2>1
  <2>7. ExitCode'
    BY <1>t, <1>u, <1>d, <2>1
  <2> QED
    BY <2>2, <2>3, <2>4, <2>5, <2>6, <2>7
<1>2. CASE buildFast \/ waitLong
  <2>1. /\ phase \in StartPhases \ {"run"} /\ UNCHANGED <<outside, server, failed>>
        /\ \/ phase' \in StartPhases /\ UNCHANGED exitCode
           \/ phase' = "exited" /\ exitCode' = 0
    BY <1>2, ExitCodes DEF buildFast, waitLong, Enter
  <2>2. Types' /\ (interrupted => interrupted')
    BY <1>t, <1>u, <1>d, <2>1
  <2>3. NotRunning'
    BY <1>t, <1>u, <1>d, <2>1
  <2>4. ShutdownDrained'
    BY <1>t, <1>u, <1>d, <2>1
  <2>5. FailureKept'
    BY <1>t, <1>u, <1>d, <2>1
  <2>6. ExitDrained'
    BY <1>t, <1>u, <1>d, <2>1
  <2>7. ExitCode'
    BY <1>t, <1>u, <1>d, <2>1
  <2> QED
    BY <2>2, <2>3, <2>4, <2>5, <2>6, <2>7
<1>3. CASE Run
  BY <1>3, <1>t, <1>u, <1>d DEF Run
<1>4. CASE StartListener
  <2>1. /\ phase = "listen" /\ UNCHANGED <<outside, server>>
        /\ \/ phase' = "accept" /\ UNCHANGED <<exitCode, failed>>
           \/ phase' = "exited" /\ exitCode' = 1 /\ failed' = TRUE
    BY <1>4, ExitCodes DEF StartListener, Try, Enter
  <2>2. Types' /\ (interrupted => interrupted')
    BY <1>t, <1>u, <1>d, <2>1
  <2>3. NotRunning'
    BY <1>t, <1>u, <1>d, <2>1
  <2>4. ShutdownDrained'
    BY <1>t, <1>u, <1>d, <2>1
  <2>5. FailureKept'
    BY <1>t, <1>u, <1>d, <2>1
  <2>6. ExitDrained'
    BY <1>t, <1>u, <1>d, <2>1
  <2>7. ExitCode'
    BY <1>t, <1>u, <1>d, <2>1
  <2> QED
    BY <2>2, <2>3, <2>4, <2>5, <2>6, <2>7
<1>5. CASE Serve
  <2>1. /\ phase = "accept" /\ UNCHANGED <<outside, server>>
        /\ \/ phase' = "wait" /\ UNCHANGED <<exitCode, failed>>
           \/ phase' = "exited" /\ exitCode' = 1 /\ failed' = TRUE
    BY <1>5, ExitCodes DEF Serve, Enter
  <2>2. Types' /\ (interrupted => interrupted')
    BY <1>t, <1>u, <1>d, <2>1
  <2>3. NotRunning'
    BY <1>t, <1>u, <1>d, <2>1
  <2>4. ShutdownDrained'
    BY <1>t, <1>u, <1>d, <2>1
  <2>5. FailureKept'
    BY <1>t, <1>u, <1>d, <2>1
  <2>6. ExitDrained'
    BY <1>t, <1>u, <1>d, <2>1
  <2>7. ExitCode'
    BY <1>t, <1>u, <1>d, <2>1
  <2> QED
    BY <2>2, <2>3, <2>4, <2>5, <2>6, <2>7
<1>6. CASE Wait
  <2>1. /\ phase = "wait" /\ UNCHANGED <<outside, server, failed>> /\ phase' = "exited"
        /\ \/ shutdown = "done" /\ exitCode' = 0
           \/ shutdown = "failed" /\ exitCode' = 1
    BY <1>6, ExitCodes DEF Wait
  <2>2. Types' /\ (interrupted => interrupted')
    BY <1>t, <1>u, <1>d, <2>1
  <2>3. NotRunning'
    BY <1>t, <1>u, <1>d, <2>1
  <2>4. ShutdownDrained'
    BY <1>t, <1>u, <1>d, <2>1
  <2>5. FailureKept'
    BY <1>t, <1>u, <1>d, <2>1
  <2>6. ExitDrained'
    BY <1>t, <1>u, <1>d, <2>1
  <2>7. ExitCode'
    BY <1>t, <1>u, <1>d, <2>1
  <2> QED
    BY <2>2, <2>3, <2>4, <2>5, <2>6, <2>7
<1>7. CASE Shutdown
  BY <1>7, <1>t, <1>u, <1>d DEF Shutdown
<1>8. CASE Drained
  <2>1. Unserved
    BY <1>8 DEF Drained, Unserved
  <2>2. Types' /\ (interrupted => interrupted')
    BY <1>8, <1>t, <1>u, <1>d, <2>1 DEF Drained
  <2>3. NotRunning'
    BY <1>8, <1>t, <1>u, <1>d, <2>1 DEF Drained
  <2>4. ShutdownDrained'
    BY <1>8, <1>t, <1>u, <1>d, <2>1 DEF Drained
  <2>5. FailureKept'
    BY <1>8, <1>t, <1>u, <1>d, <2>1 DEF Drained
  <2>6. ExitDrained'
    BY <1>8, <1>t, <1>u, <1>d, <2>1 DEF Drained
  <2>7. ExitCode'
    BY <1>8, <1>t, <1>u, <1>d, <2>1 DEF Drained
  <2> QED
    BY <2>2, <2>3, <2>4, <2>5, <2>6, <2>7
<1>9. CASE Interrupt
  <2>1. UNCHANGED <<process, server, database>> /\ interrupted' = TRUE
    BY <1>9 DEF Interrupt
  <2>2. Types' /\ (interrupted => interrupted')
    BY <1>t, <2>1
  <2>3. (NotRunning /\ ShutdownDrained)'
    BY <1>t, <1>u, <2>1
  <2>4. ExitDrained'
    BY <1>t, <1>d, <2>1 DEF ExitDrained, Unserved
  <2>5. (FailureKept /\ ExitCode)'
    BY <1>t, <2>1, Zenon
  <2> QED
    BY <2>2, <2>3, <2>4, <2>5
<1>10. CASE Flap
  BY <1>10, <1>t, <1>u, <1>d DEF Flap
<1> QED
  BY <1>1, <1>2, <1>3, <1>4, <1>5, <1>6, <1>7, <1>8, <1>9, <1>10 DEF Main

LEMMA InvStep == IInv /\ [Next]_vars => IInv'
<1> SUFFICES ASSUME IInv, [Next]_vars PROVE IInv'
  OBVIOUS
<1> USE DEF process, outside, server
<1>t. /\ conn \in [Conns -> Requests] /\ \A c \in Conns : Consistent(conn[c], ContextDone(c))
      /\ Types /\ NotRunning /\ ShutdownDrained /\ FailureKept /\ ExitDrained /\ ExitCode
  BY DEF IInv, Types
<1>1. CASE UNCHANGED vars
  BY <1>1, <1>t DEF vars, IInv, Types, NotRunning, ShutdownDrained, FailureKept, ExitDrained,
     ExitCode, Unserved, ContextDone
<1>2. ASSUME NEW c \in Conns, ConnStep(c) PROVE IInv'
  <2>1. PICK r \in Requests : conn' = [conn EXCEPT ![c] = r] /\ Consistent(r, interrupted \/ r.gone)
    BY <1>2, ConnSteps
  <2>2. /\ UNCHANGED <<process, outside, server>> /\ phase # "exited"
        /\ conn[c].step \in {"unused", "closed"} => phase = "accept" /\ ~closing
    BY <1>2, ConnSteps
  <2>3. Types'
    BY <1>t, <2>1, <2>2 DEF Types
  <2>4. ASSUME NEW d \in Conns PROVE Consistent(conn[d], ContextDone(d))'
    <3>1. CASE d = c
      BY <1>t, <2>1, <2>2, <3>1 DEF ContextDone, Consistent, ErrorTells
    <3>2. CASE d # c
      BY <1>t, <2>1, <2>2, <3>2 DEF ContextDone, Consistent, ErrorTells
    <3> QED
      BY <3>1, <3>2
  <2>5. NotRunning' /\ ShutdownDrained'
    <3>1. Unserved => phase = "accept" /\ ~closing
      BY <2>2 DEF Unserved
    <3> QED
      BY <1>t, <2>2, <3>1 DEF NotRunning, ShutdownDrained, StartPhases
  <2>6. (FailureKept /\ ExitDrained /\ ExitCode)'
    BY <1>t, <2>2 DEF FailureKept, ExitDrained, ExitCode
  <2> QED
    BY <2>3, <2>4, <2>5, <2>6 DEF IInv
<1>3. CASE Flow \/ Main \/ Serve \/ Shutdown \/ Drained \/ Interrupt \/ Flap
  <2>1. UNCHANGED conn
    BY <1>3 DEF Main, Flow, initService, buildFast, newLong, waitLong, migrate, newService, Run,
       StartListener, Wait, Serve, Shutdown, Drained, Interrupt, Flap
  <2>2. /\ Types' /\ (interrupted => interrupted')
        /\ (NotRunning /\ ShutdownDrained /\ FailureKept /\ ExitDrained /\ ExitCode)'
    BY <1>3, <2>1, ProcessSteps
  <2>3. \A c \in Conns : Consistent(conn[c], ContextDone(c))'
    BY <1>t, <2>1, <2>2 DEF ContextDone, Consistent, ErrorTells
  <2> QED
    BY <2>2, <2>3 DEF IInv
<1> QED
  BY <1>1, <1>2, <1>3 DEF Next, ConnStep

LEMMA Invariant == Spec => []IInv
BY InitIInv, InvStep, PTL DEF Spec

\* The types, and no answer without a status.
THEOREM TypeCorrect == Spec => []TypeOK
<1>1. IInv => TypeOK
  <2> SUFFICES ASSUME IInv PROVE TypeOK
    OBVIOUS
  <2>1. ASSUME NEW c \in Conns
        PROVE  /\ conn[c].step \in Steps /\ conn[c].status \in Statuses
               /\ conn[c].blocked \in {"no", "client", "redis"}
               /\ conn[c].status = 0 <=> conn[c].step # "closed" \/ conn[c].route = "none"
    BY <2>1 DEF IInv, Types, Requests, Consistent
  <2> QED
    BY <2>1 DEF IInv, Types, TypeOK, Phases, StartPhases, Steps, Statuses
<1> QED
  BY <1>1, Invariant, PTL

\* Exit code 0 leaves no request behind that the server had taken, whatever
\* the order of the interrupt, Serve and the requests.
THEOREM ExitIsDrained == Spec => []ExitDrained
<1>1. IInv => ExitDrained
  BY DEF IInv
<1> QED
  BY <1>1, Invariant, PTL

\* The exit code is 1 exactly when more than an interrupt ended the process.
THEOREM ExitCodeTells == Spec => []ExitCode
<1>1. IInv => ExitCode
  BY DEF IInv
<1> QED
  BY <1>1, Invariant, PTL

\* A client knows from 400 and 401 that nothing was done, and from 200 that it
\* was if the client has waited and the service was not being shut down.
THEOREM StatusTells == Spec => []StatusTellsEffect
<1>1. IInv => StatusTellsEffect
  <2> SUFFICES ASSUME IInv, NEW c \in Conns
               PROVE  /\ conn[c].status \in {400, 401} => ~conn[c].effect
                      /\ conn[c].status = 200 /\ ~ContextDone(c) /\ conn[c].route # "live_votes"
                           => conn[c].effect
    BY DEF StatusTellsEffect
  <2> QED
    BY DEF IInv, Consistent
<1> QED
  BY <1>1, Invariant, PTL
=============================================================================
