--------------------------- MODULE IperfServiceProofs ---------------------------
(***************************************************************************)
(* Theorem: whatever clients there are and whatever they and the server    *)
(* meet with, the server and its clients implement IperfService.           *)
(***************************************************************************)
EXTENDS IperfTest, TLAPS

(* Message m is on its way to the client on connection n.                   *)
Told(n, m) == \E i \in DOMAIN down[n] : down[n][i] = m

Sockets == Clients \X Nat

(* Where a client that has not ended can be.                                *)
Going == {"start", "cookie", "select", "dial", "results"}

(* The types that the argument uses.                                        *)
ServiceTypes ==
  /\ down \in [Conns -> Seq(Messages)] /\ backlog \in Seq(Sockets)
  /\ cl_pc \in [Clients -> Going \cup {"end"}]
  /\ cl_errno = [c \in Clients |-> cl_errno[c]]
  /\ cl_dialed \in [Clients -> Nat]
  /\ sv_ctrl \in Sockets \cup {NoConn}

(* Who reads DISPLAY_RESULTS or ACCESS_DENIED has been served or refused.   *)
ToldTruly ==
  \A n \in Conns : /\ Told(n, "DISPLAY_RESULTS") => n[1] \in served
                   /\ Told(n, "ACCESS_DENIED") => n[1] \in refused

(* A client has an error code, or OK, only when it has ended.               *)
RunsWithoutErrno == \A c \in Clients : cl_pc[c] # "end" => cl_errno[c] = ""

(* The server creates streams and waits for messages on behalf of somebody. *)
WorksForSomebody ==
  /\ sv_pc \in {"cookie", "params", "stream", "results"} \/ sv_state = "CREATE_STREAMS" =>
       sv_ctrl # NoConn
  /\ sv_pc = "stream" => sv_peer \in Sockets

ServiceInv == ServiceTypes /\ ToldTruly /\ RunsWithoutErrno /\ WorksForSomebody

(* The way a step of client c may look to the service.                      *)
ClientGoesOn(c) ==
  /\ cl_errno' = cl_errno
  /\ \E pc \in Going : cl_pc' = [cl_pc EXCEPT ![c] = pc]

ClientEnds(c) ==
  \E e :
    /\ e # "" /\ cl_errno' = [cl_errno EXCEPT ![c] = e] /\ cl_pc' = [cl_pc EXCEPT ![c] = "end"]
    /\ e = "OK" => c \in served
    /\ e = "IEACCESSDENIED" => c \in refused

(* What a step of client c leaves of the messages for it.                   *)
DownShrinks(c) ==
  \/ down' = down
  \/ down[Ctrl(c)] # <<>> /\ down' = [down EXCEPT ![Ctrl(c)] = Tail(@)]

---------------------------------------------------------------------------------
(* The control connection of a client is one of its connections.            *)
LEMMA CtrlIsConn ==
  ASSUME NEW c \in Clients
  PROVE  Ctrl(c) \in Conns /\ Ctrl(c)[1] = c
BY NetAssumption DEF Ctrl, Conns

(* A client that reads message m from its control connection was told m.    *)
LEMMA HeadIsTold ==
  ASSUME ServiceInv, NEW c \in Clients, down[Ctrl(c)] # <<>>
  PROVE  /\ Head(down[Ctrl(c)]) = "DISPLAY_RESULTS" => c \in served
         /\ Head(down[Ctrl(c)]) = "ACCESS_DENIED" => c \in refused
<1>1. Ctrl(c) \in Conns /\ Ctrl(c)[1] = c
  BY CtrlIsConn
<1>2. down[Ctrl(c)] \in Seq(Messages)
  BY <1>1 DEF ServiceInv, ServiceTypes
<1>3. 1 \in DOMAIN down[Ctrl(c)] /\ Head(down[Ctrl(c)]) = down[Ctrl(c)][1]
  BY <1>2
<1> QED
  BY <1>1, <1>3 DEF ServiceInv, ToldTruly, Told

(* What a step of client c can do to the messages for it, to the queue of   *)
(* connections and to itself.                                               *)
Harmless(c) ==
  /\ DownShrinks(c)
  /\ backlog' = backlog \/ \E n \in Sockets : backlog' = Append(backlog, n)
  /\ cl_dialed' \in [Clients -> Nat]
  /\ cl_pc[c] # "end"
  /\ ClientGoesOn(c) \/ ClientEnds(c)

(* A client may end with any error, if only what it reports is true.        *)
LEMMA FailIsHarmless ==
  ASSUME ServiceInv, NEW c \in Clients, NEW err, ClExit(c, err), DownShrinks(c),
         err # "", err = "OK" => c \in served, err = "IEACCESSDENIED" => c \in refused,
         cl_pc[c] # "end"
  PROVE  Harmless(c)
BY DEF ClExit, Harmless, ClientEnds, ServiceInv, ServiceTypes

(* A client that goes on reports nothing.                                   *)
LEMMA GoingOnIsHarmless ==
  ASSUME ServiceInv, NEW c \in Clients, NEW pc \in Going, ClGoesOn(c, pc), DownShrinks(c),
         cl_pc[c] # "end"
  PROVE  Harmless(c)
BY DEF ClGoesOn, Harmless, ClientGoesOn, ServiceInv, ServiceTypes

(* Every step of a client is one of these two.                              *)
LEMMA ClientIsHarmless ==
  ASSUME ServiceInv, NEW c \in Clients, ClStep(c) \/ ClSignal(c)
  PROVE  Harmless(c)
<1>a. ASSUME UNCHANGED down PROVE DownShrinks(c)
  BY <1>a DEF DownShrinks
<1>b. ASSUME NEW m, ClReads(c, m) PROVE DownShrinks(c) /\ cl_pc[c] # "end"
  BY <1>b DEF ClReads, DownShrinks
<1>c. {"start", "cookie", "select", "dial", "results"} \subseteq Going
  BY DEF Going
<1>1. CASE ClDial(c)
  BY <1>1, CtrlIsConn, NetAssumption
     DEF ClDial, netdial, Harmless, DownShrinks, ClientGoesOn, Going, Conns, Sockets, ServiceInv, ServiceTypes
<1>2. CASE ClDialFails(c)
  BY <1>2, <1>a, FailIsHarmless DEF ClDialFails, ClFail
<1>3. CASE ClCookie(c)
  <2>1. CASE ClGoesOn(c, "select") /\ UNCHANGED down
    BY <1>3, <2>1, <1>a, <1>c, GoingOnIsHarmless DEF ClCookie
  <2>2. CASE ClFail(c, "IESENDCOOKIE")
    BY <1>3, <2>2, <1>a, FailIsHarmless DEF ClCookie, ClFail
  <2> QED
    BY <1>3, <2>1, <2>2 DEF ClCookie
<1>4. CASE ClReadsEnd(c)
  <2>1. PICK err \in {"IECTRLCLOSE", "IERECVMESSAGE"} : ClFail(c, err)
    BY <1>4 DEF ClReadsEnd
  <2> QED
    BY <1>4, <2>1, <1>a, FailIsHarmless DEF ClReadsEnd, ClFail
<1>5. CASE ClSendsParams(c)
  <2>1. ClReads(c, "PARAM_EXCHANGE")
    BY <1>5 DEF ClSendsParams
  <2>2. CASE ClGoesOn(c, "select")
    BY <2>1, <2>2, <1>b, <1>c, GoingOnIsHarmless
  <2>3. CASE ClExit(c, "IESENDPARAMS")
    BY <2>1, <2>3, <1>b, FailIsHarmless
  <2> QED
    BY <1>5, <2>2, <2>3 DEF ClSendsParams
<1>6. CASE ClCreatesStreams(c)
  BY <1>6, <1>b, <1>c, GoingOnIsHarmless DEF ClCreatesStreams
<1>7. CASE ClDialsStream(c)
  <2>1. <<c, cl_dialed[c] + 1>> \in Sockets
    BY DEF Sockets, ServiceInv, ServiceTypes
  <2>2. backlog' = Append(backlog, <<c, cl_dialed[c] + 1>>)
    BY <1>7 DEF ClDialsStream, netdial
  <2>3. cl_dialed' \in [Clients -> Nat]
    BY <1>7 DEF ClDialsStream, ServiceInv, ServiceTypes
  <2>4. ClientGoesOn(c)
    BY <1>7 DEF ClDialsStream, ClientGoesOn, Going
  <2> QED
    BY <1>7, <2>1, <2>2, <2>3, <2>4, <1>a DEF ClDialsStream, Harmless
<1>8. CASE ClDialsStreamFails(c)
  BY <1>8, <1>a, FailIsHarmless DEF ClDialsStreamFails, ClFail
<1>9. CASE ClStarts(c)
  BY <1>9, <1>b, <1>c, GoingOnIsHarmless DEF ClStarts
<1>10. CASE ClRuns(c)
  BY <1>10, <1>b, <1>c, GoingOnIsHarmless DEF ClRuns
<1>11. CASE ClOmitTimer(c)
  BY <1>11 DEF ClOmitTimer, Running, netVars, Harmless, DownShrinks, ClientGoesOn, Going,
               ServiceInv, ServiceTypes
<1>12. CASE ClEnds(c)
  <2>1. CASE ClGoesOn(c, "select") /\ UNCHANGED down
    BY <1>12, <2>1, <1>a, <1>c, GoingOnIsHarmless DEF ClEnds, Running
  <2>2. CASE ClFail(c, "IESENDMESSAGE")
    BY <1>12, <2>2, <1>a, FailIsHarmless DEF ClEnds, Running, ClFail
  <2> QED
    BY <1>12, <2>1, <2>2 DEF ClEnds
<1>13. CASE ClRcvTimeout(c)
  BY <1>13, <1>a, FailIsHarmless DEF ClRcvTimeout, Running, ClFail
<1>14. CASE ClStreamError(c)
  <2>1. PICK err \in {"IESTREAMREAD", "IESTREAMWRITE"} : ClFail(c, err)
    BY <1>14 DEF ClStreamError
  <2> QED
    BY <1>14, <2>1, <1>a, FailIsHarmless DEF ClStreamError, Running, ClFail
<1>15. CASE ClSendsResults(c)
  <2>1. ClReads(c, "EXCHANGE_RESULTS")
    BY <1>15 DEF ClSendsResults
  <2>2. CASE ClGoesOn(c, "results")
    BY <2>1, <2>2, <1>b, <1>c, GoingOnIsHarmless
  <2>3. CASE ClExit(c, "IESENDRESULTS")
    BY <2>1, <2>3, <1>b, FailIsHarmless
  <2> QED
    BY <1>15, <2>2, <2>3 DEF ClSendsResults
<1>16. CASE ClGetsResults(c)
  <2>1. CASE NreadGot(down[Ctrl(c)], "results") /\ ClGoesOn(c, "select")
             /\ down' = [down EXCEPT ![Ctrl(c)] = Tail(@)]
    BY <1>16, <2>1, <1>c, GoingOnIsHarmless DEF ClGetsResults, NreadGot, DownShrinks
  <2>2. CASE ClFail(c, "IERECVRESULTS")
    BY <1>16, <2>2, <1>a, FailIsHarmless DEF ClGetsResults, ClFail
  <2> QED
    BY <1>16, <2>1, <2>2 DEF ClGetsResults
<1>17. CASE ClDisplays(c)
  <2>1. c \in served /\ DownShrinks(c)
    BY <1>17, HeadIsTold DEF ClDisplays, NreadGot, DownShrinks
  <2> QED
    BY <1>17, <2>1, FailIsHarmless DEF ClDisplays
<1>18. CASE ClRefused(c)
  <2> DEFINE m == Head(down[Ctrl(c)])
  <2>1. /\ ClReads(c, m) /\ down[Ctrl(c)] # <<>>
        /\ ClExit(c, ErrnoOf(m))
    BY <1>18 DEF ClRefused
  <2>2. ErrnoOf(m) = "IEACCESSDENIED" => c \in refused
    BY <2>1, HeadIsTold DEF ErrnoOf
  <2>3. ErrnoOf(m) # "" /\ ErrnoOf(m) # "OK"
    BY DEF ErrnoOf
  <2> QED
    BY <2>1, <2>2, <2>3, <1>b, FailIsHarmless
<1>19. CASE ClSignal(c)
  BY <1>19, <1>a, FailIsHarmless DEF ClSignal
<1> QED
  BY <1>1, <1>2, <1>3, <1>4, <1>5, <1>6, <1>7, <1>8, <1>9, <1>10, <1>11, <1>12, <1>13,
     <1>14, <1>15, <1>16, <1>17, <1>18, <1>19 DEF ClStep

---------------------------------------------------------------------------------
(* A step of IperfService, or none.                                         *)
ServiceStep == [Abstract!ServiceNext]_(Abstract!serviceVars)

(* So to the service a client goes on or ends with a true report.           *)
LEMMA ClientKeepsService ==
  ASSUME ServiceInv, NEW c \in Clients, Harmless(c), UNCHANGED svVars
  PROVE  ServiceInv' /\ ServiceStep
<1> USE DEF svVars
<1>1. ServiceTypes'
  <2>1. backlog' \in Seq(Sockets)
    <3>1. backlog \in Seq(Sockets)
      BY DEF ServiceInv, ServiceTypes
    <3>2. backlog' = backlog \/ \E n \in Sockets : backlog' = Append(backlog, n)
      BY DEF Harmless
    <3> QED
      BY <3>1, <3>2
  <2>2. down' \in [Conns -> Seq(Messages)]
    <3>1. down \in [Conns -> Seq(Messages)] /\ DownShrinks(c) /\ Ctrl(c) \in Conns
      BY CtrlIsConn DEF ServiceInv, ServiceTypes, Harmless
    <3>2. down[Ctrl(c)] # <<>> => Tail(down[Ctrl(c)]) \in Seq(Messages)
      BY <3>1
    <3> QED
      BY <3>1, <3>2 DEF DownShrinks
  <2>3. cl_pc' \in [Clients -> Going \cup {"end"}] /\ cl_errno' = [d \in Clients |-> cl_errno'[d]]
    BY DEF Harmless, ClientGoesOn, ClientEnds, ServiceInv, ServiceTypes
  <2> QED
    BY <2>1, <2>2, <2>3 DEF Harmless, ServiceInv, ServiceTypes
<1>2. ToldTruly'
  <2>1. ASSUME NEW n \in Conns, NEW m, Told(n, m)' PROVE Told(n, m)
    <3>1. down[n] \in Seq(Messages)
      BY DEF ServiceInv, ServiceTypes
    <3>2. down'[n] = down[n] \/ (down[n] # <<>> /\ down'[n] = Tail(down[n]))
      BY DEF Harmless, DownShrinks, ServiceInv, ServiceTypes
    <3>3. PICK i \in DOMAIN down'[n] : down'[n][i] = m
      BY <2>1 DEF Told
    <3>4. CASE down[n] # <<>> /\ down'[n] = Tail(down[n])
      <4>1. i + 1 \in DOMAIN down[n] /\ down[n][i + 1] = m
        BY <3>1, <3>3, <3>4
      <4> QED
        BY <4>1 DEF Told
    <3> QED
      BY <3>2, <3>3, <3>4 DEF Told
  <2> QED
    BY <2>1 DEF ToldTruly, ServiceInv
<1>3. RunsWithoutErrno'
  BY DEF Harmless, ClientGoesOn, ClientEnds, RunsWithoutErrno, Going, ServiceInv, ServiceTypes
<1>4. WorksForSomebody'
  BY DEF WorksForSomebody, ServiceInv
<1>5. ServiceStep
  <2>1. CASE ClientGoesOn(c)
    BY <2>1 DEF ServiceStep, ClientGoesOn, Abstract!serviceVars, Outcome, client
  <2>2. CASE ClientEnds(c)
    <3>1. PICK e : /\ e # "" /\ cl_errno' = [cl_errno EXCEPT ![c] = e]
                   /\ e = "OK" => c \in served
                   /\ e = "IEACCESSDENIED" => c \in refused
      BY <2>2 DEF ClientEnds
    <3> DEFINE o == CASE e = "" -> "" [] e = "OK" -> "ok" [] e = "IEACCESSDENIED" -> "denied"
                      [] OTHER -> "failed"
    <3>2. o \in {"ok", "denied", "failed"} /\ (o = "ok" => c \in served)
          /\ (o = "denied" => c \in refused)
      BY <3>1
    <3>3. Outcome(c) = ""
      BY DEF Outcome, Harmless, ServiceInv, RunsWithoutErrno
    <3>4. [d \in Clients |-> Outcome(d)]' = [[d \in Clients |-> Outcome(d)] EXCEPT ![c] = o]
      BY <3>1 DEF Outcome, ServiceInv, ServiceTypes
    <3>5. Abstract!Ends(c, o)
      BY <3>2, <3>3, <3>4 DEF Abstract!Ends, client
    <3> QED
      BY <3>2, <3>5 DEF ServiceStep, Abstract!ServiceNext
  <2> QED
    BY <2>1, <2>2 DEF Harmless
<1> QED
  BY <1>1, <1>2, <1>3, <1>4, <1>5 DEF ServiceInv

---------------------------------------------------------------------------------
(* Messages that the server adds: true ones keep ToldTruly.                 *)
LEMMA TellingTruly ==
  ASSUME ServiceInv, NEW n, NEW ms \in Seq(Messages),
         down' = [down EXCEPT ![n] = @ \o ms],
         served \subseteq served', refused \subseteq refused',
         \A i \in DOMAIN ms : /\ ms[i] = "DISPLAY_RESULTS" => n[1] \in served'
                              /\ ms[i] = "ACCESS_DENIED" => n[1] \in refused'
  PROVE  down' \in [Conns -> Seq(Messages)] /\ ToldTruly'
<1>1. down \in [Conns -> Seq(Messages)]
  BY DEF ServiceInv, ServiceTypes
<1>2. down' \in [Conns -> Seq(Messages)]
  <2>1. n \in Conns => down[n] \o ms \in Seq(Messages)
    BY <1>1
  <2> QED
    BY <1>1, <2>1
<1>3. ASSUME NEW k \in Conns, NEW m, Told(k, m)'
      PROVE  Told(k, m) \/ (k = n /\ \E i \in DOMAIN ms : ms[i] = m)
  <2>1. PICK i \in DOMAIN down'[k] : down'[k][i] = m
    BY <1>3 DEF Told
  <2>2. CASE k # n
    BY <1>1, <2>1, <2>2 DEF Told
  <2>3. CASE k = n
    <3>1. down[k] \in Seq(Messages) /\ down'[k] = down[k] \o ms
      BY <1>1, <2>3
    <3>2. CASE i \in 1 .. Len(down[k])
      BY <2>1, <3>1, <3>2 DEF Told
    <3>3. CASE i \notin 1 .. Len(down[k])
      <4>1. i - Len(down[k]) \in DOMAIN ms /\ ms[i - Len(down[k])] = m
        BY <2>1, <3>1, <3>3
      <4> QED
        BY <4>1, <2>3
    <3> QED
      BY <3>2, <3>3
  <2> QED
    BY <2>2, <2>3
<1>4. ASSUME NEW k \in Conns, Told(k, "DISPLAY_RESULTS")' PROVE k[1] \in served'
  <2>1. Told(k, "DISPLAY_RESULTS") => k[1] \in served
    BY DEF ToldTruly, ServiceInv
  <2>2. Told(k, "DISPLAY_RESULTS") \/ (k = n /\ \E i \in DOMAIN ms : ms[i] = "DISPLAY_RESULTS")
    BY <1>3, <1>4
  <2> QED
    BY <2>1, <2>2
<1>5. ASSUME NEW k \in Conns, Told(k, "ACCESS_DENIED")' PROVE k[1] \in refused'
  <2>1. Told(k, "ACCESS_DENIED") => k[1] \in refused
    BY DEF ToldTruly, ServiceInv
  <2>2. Told(k, "ACCESS_DENIED") \/ (k = n /\ \E i \in DOMAIN ms : ms[i] = "ACCESS_DENIED")
    BY <1>3, <1>5
  <2> QED
    BY <2>1, <2>2
<1> QED
  BY <1>2, <1>4, <1>5 DEF ToldTruly

(* A server that writes nothing tells nothing wrong.                        *)
LEMMA TellingNothing ==
  ASSUME ServiceInv, UNCHANGED down, served \subseteq served', refused \subseteq refused'
  PROVE  down' \in [Conns -> Seq(Messages)] /\ ToldTruly'
BY DEF ServiceInv, ServiceTypes, ToldTruly, Told

(* The end of a test, in whatever way.                                      *)
LEMMA Releasing ==
  ASSUME ServiceInv, SvReset, Cleanup, sv_pc' \in {"down", "exited"},
         UNCHANGED <<refused, served, clVars>>,
         down' \in [Conns -> Seq(Messages)], ToldTruly'
  PROVE  ServiceInv' /\ ServiceStep
<1>1. ServiceTypes'
  BY DEF ServiceInv, ServiceTypes, SvReset, Cleanup, clVars
<1>2. RunsWithoutErrno' /\ WorksForSomebody'
  BY DEF ServiceInv, RunsWithoutErrno, WorksForSomebody, SvReset, clVars
<1>3. Abstract!Release
  BY DEF Abstract!Release, SvReset, clVars, Outcome
<1> QED
  BY <1>1, <1>2, <1>3 DEF ServiceInv, ServiceStep, Abstract!ServiceNext

(* A message of one word is added with Append.                              *)
LEMMA AppendIsConcat ==
  ASSUME ServiceInv, NEW n, NEW m, down' = [down EXCEPT ![n] = Append(@, m)]
  PROVE  down' = [down EXCEPT ![n] = @ \o <<m>>]
<1>1. n \in Conns => Append(down[n], m) = down[n] \o <<m>>
  BY DEF ServiceInv, ServiceTypes
<1> QED
  BY <1>1 DEF ServiceInv, ServiceTypes

(* The same for the words of the server that say nothing of the result.     *)
Plain == Messages \ {"DISPLAY_RESULTS", "ACCESS_DENIED"}

(* Nor does one that writes only such words.                                *)
LEMMA WritingKeeps ==
  ASSUME ServiceInv, NEW ms \in Seq(Plain), SvWrite(ms) \/ UNCHANGED down,
         UNCHANGED <<served, refused>>
  PROVE  down' \in [Conns -> Seq(Messages)] /\ ToldTruly'
<1>1. CASE UNCHANGED down
  BY <1>1, TellingNothing
<1>2. CASE SvWrite(ms)
  <2>1. ms \in Seq(Messages) /\ \A i \in DOMAIN ms : ms[i] \in Plain
    BY DEF Plain
  <2>2. down' = [down EXCEPT ![sv_ctrl] = @ \o ms]
    BY <1>2 DEF SvWrite
  <2> QED
    BY <2>1, <2>2, TellingTruly DEF Plain
<1> QED
  BY <1>1, <1>2

(* A step of the server that keeps its client, as the service sees it.      *)
LEMMA Staying ==
  ASSUME ServiceInv, UNCHANGED <<sv_ctrl, refused, served, clVars>>,
         backlog' \in Seq(Sockets), WorksForSomebody',
         down' \in [Conns -> Seq(Messages)], ToldTruly'
  PROVE  ServiceInv' /\ ServiceStep
<1>1. ServiceTypes' /\ RunsWithoutErrno'
  BY DEF ServiceInv, ServiceTypes, RunsWithoutErrno, clVars
<1>2. UNCHANGED Abstract!serviceVars
  BY DEF Abstract!serviceVars, client, clVars, Outcome
<1> QED
  BY <1>1, <1>2 DEF ServiceInv, ServiceStep

(* The queue of connections may shrink, or be emptied.                      *)
LEMMA QueueTypes ==
  ASSUME ServiceInv
  PROVE  /\ backlog \in Seq(Sockets) /\ <<>> \in Seq(Sockets)
         /\ backlog # <<>> => Head(backlog) \in Sockets /\ Tail(backlog) \in Seq(Sockets)
BY DEF ServiceInv, ServiceTypes

(* Every way of ending a test.                                              *)
LEMMA ReturnKeeps ==
  ASSUME ServiceInv, UNCHANGED clVars, NEW rc, Return(rc) \/ ReturnUnauthorized,
         NEW ms \in Seq(Plain), SvWrite(ms) \/ UNCHANGED down
  PROVE  ServiceInv' /\ ServiceStep
<1>1. /\ Cleanup /\ SvReset /\ sv_pc' \in {"down", "exited"}
      /\ UNCHANGED <<refused, served>>
  BY DEF Return, ReturnUnauthorized
<1>2. down' \in [Conns -> Seq(Messages)] /\ ToldTruly'
  BY <1>1, WritingKeeps
<1> QED
  BY <1>1, <1>2, Releasing

(* A return in a step that writes nothing.                                  *)
LEMMA QuitKeeps ==
  ASSUME ServiceInv, UNCHANGED clVars, NEW rc, Quit(rc)
  PROVE  ServiceInv' /\ ServiceStep
<1>1. <<>> \in Seq(Plain)
  OBVIOUS
<1> QED
  BY <1>1, ReturnKeeps DEF Quit

(* What the server writes when it neither serves nor refuses.               *)
LEMMA PlainMessages ==
  /\ <<>> \in Seq(Plain)
  /\ <<"PARAM_EXCHANGE">> \in Seq(Plain) /\ <<"CREATE_STREAMS">> \in Seq(Plain)
  /\ <<"SERVER_ERROR">> \in Seq(Plain) /\ <<"SERVER_TERMINATE">> \in Seq(Plain)
  /\ <<"TEST_START", "TEST_RUNNING">> \in Seq(Plain)
  /\ <<"EXCHANGE_RESULTS">> \in Seq(Plain)
<1>1. {"PARAM_EXCHANGE", "CREATE_STREAMS", "SERVER_ERROR", "SERVER_TERMINATE", "TEST_START",
       "TEST_RUNNING", "EXCHANGE_RESULTS"} \subseteq Plain
  BY DEF Plain, Messages
<1> QED
  BY <1>1

---------------------------------------------------------------------------------
(* The server's actions, one lemma each for those that the service sees.    *)
LEMMA AcceptKeeps ==
  ASSUME ServiceInv, SvAccept, UNCHANGED clVars
  PROVE  ServiceInv' /\ ServiceStep
<1>1. Head(backlog) \in Sockets /\ Tail(backlog) \in Seq(Sockets)
  BY QueueTypes DEF SvAccept
<1>2. Head(backlog)[1] \in Clients /\ Head(backlog) # NoConn
  BY <1>1, NetAssumption DEF Sockets
<1>3. down' \in [Conns -> Seq(Messages)] /\ ToldTruly'
  BY TellingNothing DEF SvAccept
<1>4. ServiceTypes'
  BY <1>1, <1>3 DEF ServiceInv, ServiceTypes, SvAccept, clVars
<1>5. RunsWithoutErrno' /\ WorksForSomebody'
  BY <1>2 DEF ServiceInv, RunsWithoutErrno, WorksForSomebody, SvAccept, clVars
<1>6. Abstract!Admit(Head(backlog)[1])
  BY <1>2 DEF Abstract!Admit, SvAccept, client, clVars, Outcome
<1> QED
  BY <1>2, <1>3, <1>4, <1>5, <1>6 DEF ServiceInv, ServiceStep, Abstract!ServiceNext

(* Turning away whoever is on socket n.                                     *)
LEMMA TurningAway ==
  ASSUME ServiceInv, NEW n \in Sockets, UNCHANGED clVars, sv_ctrl # NoConn,
         down' = [down EXCEPT ![n] = Append(@, "ACCESS_DENIED")],
         refused' = refused \cup {n[1]}, UNCHANGED <<sv_ctrl, served>>,
         backlog' \in Seq(Sockets), WorksForSomebody'
  PROVE  ServiceInv' /\ ServiceStep
<1>1. n[1] \in Clients
  BY DEF Sockets
<1>2. down' \in [Conns -> Seq(Messages)] /\ ToldTruly'
  <2> DEFINE ms == <<"ACCESS_DENIED">>
  <2>1. ms \in Seq(Messages) /\ \A i \in DOMAIN ms : ms[i] = "ACCESS_DENIED"
    BY DEF Messages
  <2>2. down' = [down EXCEPT ![n] = @ \o ms]
    BY AppendIsConcat
  <2>3. n[1] \in refused' /\ refused \subseteq refused' /\ served \subseteq served'
    OBVIOUS
  <2> HIDE DEF ms
  <2> QED
    BY <2>1, <2>2, <2>3, TellingTruly
<1>3. ServiceTypes' /\ RunsWithoutErrno'
  BY <1>2 DEF ServiceInv, ServiceTypes, RunsWithoutErrno, clVars
<1>4. client # NoConn
  BY NetAssumption DEF ServiceInv, ServiceTypes, Sockets, client
<1>5. Abstract!TurnAway(n[1])
  BY <1>4 DEF Abstract!TurnAway, client, clVars, Outcome
<1> QED
  BY <1>1, <1>2, <1>3, <1>5 DEF ServiceInv, ServiceStep, Abstract!ServiceNext

(* iperf_run_server turns away who comes during a test.                     *)
LEMMA DenyKeeps ==
  ASSUME ServiceInv, SvDeny, UNCHANGED clVars
  PROVE  ServiceInv' /\ ServiceStep
<1>1. Head(backlog) \in Sockets /\ Tail(backlog) \in Seq(Sockets)
  BY QueueTypes DEF SvDeny
<1>2. WorksForSomebody'
  BY DEF SvDeny, ServiceInv, WorksForSomebody
<1> QED
  BY <1>1, <1>2, TurningAway DEF SvDeny

(* iperf_tcp_accept turns away a connection with another cookie.            *)
LEMMA DenyStreamKeeps ==
  ASSUME ServiceInv, SvDenyStream, UNCHANGED clVars
  PROVE  ServiceInv' /\ ServiceStep
<1>1. sv_ctrl # NoConn /\ sv_peer \in Sockets
  BY DEF SvDenyStream, ServiceInv, WorksForSomebody
<1>2. WorksForSomebody'
  BY <1>1 DEF SvDenyStream, ServiceInv, WorksForSomebody
<1>3. backlog' \in Seq(Sockets)
  BY QueueTypes DEF SvDenyStream
<1> QED
  BY <1>1, <1>2, <1>3, TurningAway DEF SvDenyStream

(* Only the exchange of results serves a client, and it is the server's own.*)
LEMMA ResultsKeep ==
  ASSUME ServiceInv, SvResults, UNCHANGED clVars
  PROVE  ServiceInv' /\ ServiceStep
<1>1. CASE \E rc : Return(rc) /\ UNCHANGED down
  BY <1>1, PlainMessages, ReturnKeeps
<1>2. CASE SvWriteFails /\ Return(1)
  BY <1>2, <1>1 DEF SvWriteFails
<1>3. CASE /\ SvWrite(<<"results", "DISPLAY_RESULTS">>)
           /\ served' = served \cup {client}
           /\ sv_state' = "DISPLAY_RESULTS" /\ sv_pc' = "select"
           /\ UNCHANGED <<sv_ctrl, sv_peer, refused, backlog>>
  <2>1. sv_ctrl \in Sockets /\ sv_ctrl # NoConn
    BY DEF SvResults, ServiceInv, ServiceTypes, WorksForSomebody
  <2>2. client \in Clients /\ client = sv_ctrl[1]
    BY <2>1 DEF Sockets, client
  <2>3. down' \in [Conns -> Seq(Messages)] /\ ToldTruly'
    <3> DEFINE ms == <<"results", "DISPLAY_RESULTS">>
    <3>1. ms \in Seq(Messages) /\ \A i \in DOMAIN ms : ms[i] # "ACCESS_DENIED"
      BY DEF Messages
    <3>2. down' = [down EXCEPT ![sv_ctrl] = @ \o ms]
      BY <1>3 DEF SvWrite
    <3>3. sv_ctrl[1] \in served' /\ served \subseteq served' /\ refused \subseteq refused'
      BY <1>3, <2>2
    <3> HIDE DEF ms
    <3> QED
      BY <3>1, <3>2, <3>3, TellingTruly
  <2>4. ServiceTypes' /\ RunsWithoutErrno' /\ WorksForSomebody'
    BY <1>3, <2>1, <2>3 DEF ServiceInv, ServiceTypes, RunsWithoutErrno, WorksForSomebody, clVars
  <2>5. Abstract!Exchange(client)
    BY <1>3, <2>1 DEF Abstract!Exchange, client, clVars, Outcome
  <2> QED
    BY <2>2, <2>3, <2>4, <2>5 DEF ServiceInv, ServiceStep, Abstract!ServiceNext
<1> QED
  BY <1>1, <1>2, <1>3 DEF SvResults

(* The rest of the server's steps: the service sees the end of a test or    *)
(* nothing.                                                                 *)
LEMMA ServerKeepsService ==
  ASSUME ServiceInv, SvStep \/ SvFault, UNCHANGED clVars
  PROVE  ServiceInv' /\ ServiceStep
<1> DEFINE Steady == UNCHANGED <<sv_ctrl, refused, served>>
<1>a. ASSUME NEW ms \in Seq(Plain), SvWrite(ms) \/ UNCHANGED down, Steady,
             backlog' \in Seq(Sockets), WorksForSomebody'
      PROVE  ServiceInv' /\ ServiceStep
  BY <1>a, WritingKeeps, Staying
<1>b. ASSUME UNCHANGED down, Steady, backlog' \in Seq(Sockets), WorksForSomebody'
      PROVE  ServiceInv' /\ ServiceStep
  BY <1>a, <1>b, PlainMessages
<1>c. ASSUME SvWriteFails, Return(1) PROVE ServiceInv' /\ ServiceStep
  BY <1>c, PlainMessages, ReturnKeeps DEF SvWriteFails
<1>d. ASSUME UNCHANGED down, NEW rc, Return(rc) PROVE ServiceInv' /\ ServiceStep
  BY <1>d, PlainMessages, ReturnKeeps
<1>e. ReopenListener => backlog' \in Seq(Sockets)
  BY QueueTypes DEF ReopenListener
<1> HIDE DEF Steady
<1>1. CASE SvListen
  <2>1. Steady /\ UNCHANGED down /\ backlog' \in Seq(Sockets) /\ WorksForSomebody'
    BY <1>1, QueueTypes DEF SvListen, Steady, WorksForSomebody, ServiceInv
  <2> QED
    BY <2>1, <1>b
<1>2. CASE SvAccept
  BY <1>2, AcceptKeeps
<1>3. CASE SvCookie
  <2>1. CASE /\ SvWrite(<<"PARAM_EXCHANGE">>)
             /\ sv_state' = "PARAM_EXCHANGE" /\ sv_pc' = "params"
             /\ UNCHANGED <<sv_ctrl, refused, served, backlog>>
    <3>1. Steady /\ backlog' \in Seq(Sockets) /\ WorksForSomebody'
      BY <1>3, <2>1, QueueTypes DEF SvCookie, Steady, WorksForSomebody, ServiceInv
    <3> QED
      BY <2>1, <3>1, <1>a, PlainMessages
  <2> QED
    BY <1>3, <2>1, <1>c DEF SvCookie
<1>4. CASE SvParams
  <2>1. CASE /\ SvWrite(<<"CREATE_STREAMS">>)
             /\ sv_pc' = "select"
             /\ IF client \in reopen THEN ReopenListener ELSE UNCHANGED <<backlog, sv_end>>
             /\ UNCHANGED <<sv_ctrl, refused, served>>
    <3>1. Steady /\ backlog' \in Seq(Sockets) /\ WorksForSomebody'
      BY <1>4, <2>1, <1>e, QueueTypes DEF SvParams, Steady, WorksForSomebody, ServiceInv
    <3> QED
      BY <2>1, <3>1, <1>a, PlainMessages
  <2>2. CASE SvWrite(<<"SERVER_ERROR">>) /\ ReturnUnauthorized
    BY <2>2, PlainMessages, ReturnKeeps
  <2>3. CASE SvWrite(<<"SERVER_ERROR">>) /\ Return(1)
    BY <2>3, PlainMessages, ReturnKeeps
  <2> QED
    BY <1>4, <2>1, <2>2, <2>3, <1>c, <1>d DEF SvParams
<1>5. CASE SvDeny
  BY <1>5, DenyKeeps
<1>6. CASE SvAcceptStream
  <2>1. Head(backlog) \in Sockets /\ backlog' \in Seq(Sockets)
    BY <1>6, QueueTypes DEF SvAcceptStream
  <2>2. Steady /\ UNCHANGED down /\ WorksForSomebody'
    BY <1>6, <2>1 DEF SvAcceptStream, Steady, WorksForSomebody, ServiceInv
  <2> QED
    BY <2>1, <2>2, <1>b
<1>7. CASE SvDenyStream
  BY <1>7, DenyStreamKeeps
<1>8. CASE SvAddStream
  <2>1. Steady /\ UNCHANGED down /\ backlog' \in Seq(Sockets) /\ WorksForSomebody'
    BY <1>8, QueueTypes DEF SvAddStream, Steady, WorksForSomebody, ServiceInv
  <2> QED
    BY <2>1, <1>b
<1>9. CASE SvStart
  <2>1. CASE /\ SvWrite(<<"TEST_START", "TEST_RUNNING">>)
             /\ sv_state' = "TEST_RUNNING" /\ sv_pc' = "select"
             /\ IF client \in reopen THEN ReopenListener ELSE UNCHANGED <<backlog, sv_end>>
             /\ UNCHANGED <<sv_ctrl, refused, served>>
    <3>1. Steady /\ backlog' \in Seq(Sockets) /\ WorksForSomebody'
      BY <2>1, <1>e, QueueTypes DEF Steady, WorksForSomebody
    <3> QED
      BY <2>1, <3>1, <1>a, PlainMessages
  <2> QED
    BY <1>9, <2>1, <1>c, <1>d DEF SvStart
<1>10. CASE SvTestEnd
  <2>1. CASE /\ SvWrite(<<"EXCHANGE_RESULTS">>)
             /\ sv_state' = "EXCHANGE_RESULTS" /\ sv_pc' = "results"
             /\ UNCHANGED <<sv_ctrl, refused, served, backlog>>
    <3>1. Steady /\ backlog' \in Seq(Sockets) /\ WorksForSomebody'
      BY <1>10, <2>1, QueueTypes DEF SvTestEnd, SvReads, Steady, WorksForSomebody
    <3> QED
      BY <2>1, <3>1, <1>a, PlainMessages
  <2> QED
    BY <1>10, <2>1, <1>c DEF SvTestEnd
<1>11. CASE SvResults
  BY <1>11, ResultsKeep
<1>12. CASE SvDone
  BY <1>12, <1>d DEF SvDone
<1>13. CASE SvCtrlClosed
  BY <1>13, QuitKeeps DEF SvCtrlClosed
<1>14. CASE SvSelectFails \/ SvStreamError \/ SvIdleTimeout \/ SvRcvTimeout \/ SvRateExceeded
  BY <1>14, QuitKeeps
     DEF SvSelectFails, SvStreamError, SvIdleTimeout, SvRcvTimeout, SvRateExceeded
<1>15. CASE SvTimer
  <2>1. Steady /\ UNCHANGED down /\ backlog' \in Seq(Sockets) /\ WorksForSomebody'
    BY <1>15, QueueTypes DEF SvTimer, Steady, WorksForSomebody, ServiceInv
  <2> QED
    BY <2>1, <1>b
<1>16. CASE SvSignal
  <2>1. SvWrite(<<"SERVER_TERMINATE">>) \/ UNCHANGED down
    BY <1>16 DEF SvSignal
  <2>2. Cleanup /\ SvReset /\ sv_pc' = "exited" /\ UNCHANGED <<refused, served>>
    BY <1>16 DEF SvSignal
  <2>3. down' \in [Conns -> Seq(Messages)] /\ ToldTruly'
    BY <2>1, <2>2, PlainMessages, WritingKeeps
  <2> QED
    BY <2>2, <2>3, Releasing
<1> QED
  BY <1>1, <1>2, <1>3, <1>4, <1>5, <1>6, <1>7, <1>8, <1>9, <1>10, <1>11, <1>12, <1>13, <1>14,
     <1>15, <1>16 DEF SvStep, SvFault

---------------------------------------------------------------------------------
(* A step of the system keeps the invariant and is a step of the service    *)
(* or none.                                                                 *)
LEMMA EveryStepServes ==
  ASSUME ServiceInv, [Next]_vars
  PROVE  ServiceInv' /\ ServiceStep
<1>1. CASE UNCHANGED vars
  <2>1. UNCHANGED <<down, backlog, sv_ctrl, refused, served, clVars, sv_pc, sv_state, sv_peer>>
    BY <1>1 DEF vars, netVars, svVars
  <2>2. backlog' \in Seq(Sockets) /\ WorksForSomebody'
    BY <2>1, QueueTypes DEF WorksForSomebody, ServiceInv
  <2> QED
    BY <2>1, <2>2, TellingNothing, Staying
<1>2. ASSUME NEW c \in Clients, ClStep(c) \/ ClSignal(c), UNCHANGED svVars
      PROVE  ServiceInv' /\ ServiceStep
  BY <1>2, ClientIsHarmless, ClientKeepsService
<1>3. CASE (SvStep \/ SvFault) /\ UNCHANGED clVars
  BY <1>3, ServerKeepsService
<1> QED
  BY <1>1, <1>2, <1>3 DEF Next

(* The system begins as the service does.                                   *)
LEMMA InitServes ==
  ASSUME Init
  PROVE  ServiceInv /\ Abstract!ServiceInit
<1>1. ServiceTypes
  <2>1. down = [n \in Conns |-> <<>>] /\ backlog = <<>> /\ sv_ctrl = NoConn
    BY DEF Init, NetInit, SvInit
  <2>2. <<>> \in Seq(Messages) /\ <<>> \in Seq(Sockets)
    OBVIOUS
  <2>3. down \in [Conns -> Seq(Messages)] /\ backlog \in Seq(Sockets)
    BY <2>1, <2>2
  <2>4. /\ cl_pc \in [Clients -> Going \cup {"end"}] /\ cl_dialed \in [Clients -> Nat]
        /\ cl_errno = [c \in Clients |-> cl_errno[c]]
    BY DEF Init, ClInit, Going
  <2> QED
    BY <2>1, <2>3, <2>4 DEF ServiceTypes
<1>2. ToldTruly
  <2>1. ASSUME NEW n \in Conns, NEW m PROVE ~Told(n, m)
    <3>1. down[n] = <<>>
      BY DEF Init, NetInit
    <3>2. DOMAIN <<>> = {}
      OBVIOUS
    <3> QED
      BY <3>1, <3>2 DEF Told
  <2> QED
    BY <2>1 DEF ToldTruly
<1>3. RunsWithoutErrno /\ WorksForSomebody
  BY DEF Init, ClInit, SvInit, RunsWithoutErrno, WorksForSomebody
<1>4. Abstract!ServiceInit
  BY DEF Init, ClInit, SvInit, Abstract!ServiceInit, Outcome
<1> QED
  BY <1>1, <1>2, <1>3, <1>4 DEF ServiceInv

(* Whatever fails when, and however many clients come, iperf_run_server and *)
(* its clients do only what IperfService allows: one test at a time, nobody *)
(* reports success whose results were not exchanged during its own test,    *)
(* and only who was turned away reports that.                               *)
THEOREM ImplementsService == Spec => IsService
<1>1. Init => ServiceInv /\ Abstract!ServiceInit
  BY InitServes
<1>2. ServiceInv /\ [Next]_vars => ServiceInv' /\ [Abstract!ServiceNext]_(Abstract!serviceVars)
  BY EveryStepServes DEF ServiceStep
<1> QED
  BY <1>1, <1>2, PTL DEF Spec, IsService, Abstract!Service
===============================================================================
