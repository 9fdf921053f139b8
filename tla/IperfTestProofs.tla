---------------------------- MODULE IperfTestProofs ----------------------------
(***************************************************************************)
(* Theorems: for any clients, options and faults, the two sides of an      *)
(* iperf3 test stay in step (IperfTypeOK, StreamsAreTheClients, InStep,    *)
(* RunningTogether).                                                       *)
(*                                                                         *)
(* The invariant says, for each step that the server can be at with its    *)
(* client, where the client can be and what is under way between them: the *)
(* control protocol is a strict alternation, and only the last words of a  *)
(* side that ends (CLIENT_TERMINATE, SERVER_TERMINATE, SERVER_ERROR,       *)
(* ACCESS_DENIED) may come out of turn.                                    *)
(***************************************************************************)
EXTENDS IperfTest, SequenceTheorems, TLAPS

Live(c) == cl_pc[c] \notin {"start", "end"}

Waiting == {backlog[i] : i \in DOMAIN backlog}

(* Client c is at pc in state st, d is under way to it and u from it.       *)
At(c, pc, st, d, u) ==
  cl_pc[c] = pc /\ cl_state[c] = st /\ down[Ctrl(c)] = d /\ up[Ctrl(c)] = u

(* Where a live client can be whose control connection the server has not   *)
(* closed, by the step that the server is at with it.                       *)
AtFirst(c) ==
  At(c, "cookie", "0", <<>>, <<>>) \/ At(c, "select", "0", <<>>, <<"cookie">>)

AtParams(c) ==
  \/ At(c, "select", "0", <<"PARAM_EXCHANGE">>, <<>>)
  \/ At(c, "select", "PARAM_EXCHANGE", <<>>, <<"params">>)

AtStreams(c) ==
  \/ At(c, "select", "PARAM_EXCHANGE", <<"CREATE_STREAMS">>, <<>>)
  \/ \E pc \in {"dial", "select"} : At(c, pc, "CREATE_STREAMS", <<>>, <<>>)

AtRunning(c) ==
  \/ \E pc \in {"dial", "select"} :
       At(c, pc, "CREATE_STREAMS", <<"TEST_START", "TEST_RUNNING">>, <<>>)
  \/ At(c, "select", "TEST_START", <<"TEST_RUNNING">>, <<>>)
  \/ At(c, "select", "TEST_RUNNING", <<>>, <<>>)
  \/ At(c, "select", "TEST_END", <<>>, <<"TEST_END">>)

AtResults(c) ==
  \/ At(c, "select", "TEST_END", <<"EXCHANGE_RESULTS">>, <<>>)
  \/ At(c, "results", "EXCHANGE_RESULTS", <<>>, <<"results">>)

AtDisplay(c) ==
  \/ At(c, "results", "EXCHANGE_RESULTS", <<"results", "DISPLAY_RESULTS">>, <<>>)
  \/ At(c, "select", "EXCHANGE_RESULTS", <<"DISPLAY_RESULTS">>, <<>>)

Alternates(c) ==
  \/ (Ctrl(c) # sv_ctrl \/ sv_pc = "cookie") /\ AtFirst(c)
  \/ Ctrl(c) = sv_ctrl /\ sv_pc = "params" /\ AtParams(c)
  \/ Ctrl(c) = sv_ctrl /\ sv_state = "CREATE_STREAMS" /\ AtStreams(c)
  \/ Ctrl(c) = sv_ctrl /\ sv_state = "TEST_RUNNING" /\ AtRunning(c)
  \/ Ctrl(c) = sv_ctrl /\ sv_pc = "results" /\ AtResults(c)
  \/ Ctrl(c) = sv_ctrl /\ sv_state = "DISPLAY_RESULTS" /\ AtDisplay(c)

(* The same once the server has closed the connection: what it had written  *)
(* before, perhaps with a last word.                                        *)
ST == <<"SERVER_TERMINATE">>

Remains(c, d) ==
  \/ /\ cl_pc[c] \in {"cookie", "select"} /\ cl_state[c] = "0"
     /\ d \in {<<>>, <<"PARAM_EXCHANGE">>, <<"ACCESS_DENIED">>, ST,
               <<"PARAM_EXCHANGE", "SERVER_TERMINATE">>}
  \/ /\ cl_pc[c] = "select" /\ cl_state[c] = "PARAM_EXCHANGE"
     /\ d \in {<<>>, <<"CREATE_STREAMS">>, <<"SERVER_ERROR">>, ST,
               <<"CREATE_STREAMS", "SERVER_TERMINATE">>}
  \/ /\ cl_pc[c] \in {"dial", "select"} /\ cl_state[c] = "CREATE_STREAMS"
     /\ d \in {<<>>, ST, <<"TEST_START", "TEST_RUNNING">>,
               <<"TEST_START", "TEST_RUNNING", "SERVER_TERMINATE">>}
  \/ /\ cl_pc[c] = "select" /\ cl_state[c] = "TEST_START"
     /\ d \in {<<"TEST_RUNNING">>, <<"TEST_RUNNING", "SERVER_TERMINATE">>}
  \/ /\ cl_pc[c] = "select" /\ cl_state[c] = "TEST_RUNNING"
     /\ d \in {<<>>, ST}
  \/ /\ cl_pc[c] = "select" /\ cl_state[c] = "TEST_END"
     /\ d \in {<<>>, ST, <<"EXCHANGE_RESULTS">>, <<"EXCHANGE_RESULTS", "SERVER_TERMINATE">>}
  \/ /\ cl_pc[c] = "results" /\ cl_state[c] = "EXCHANGE_RESULTS"
     /\ d \in {<<>>, ST, <<"results", "DISPLAY_RESULTS">>,
               <<"results", "DISPLAY_RESULTS", "SERVER_TERMINATE">>}
  \/ /\ cl_pc[c] = "select" /\ cl_state[c] = "EXCHANGE_RESULTS"
     /\ d \in {<<"DISPLAY_RESULTS">>, <<"DISPLAY_RESULTS", "SERVER_TERMINATE">>}

(* What a client that has ended may have left for the server.               *)
Last(m) == {<<>>, <<m>>, <<"CLIENT_TERMINATE">>, <<m, "CLIENT_TERMINATE">>}

Leaves(c) ==
  \/ (Ctrl(c) # sv_ctrl \/ sv_pc = "cookie") /\ up[Ctrl(c)] \in Last("cookie")
  \/ Ctrl(c) = sv_ctrl /\ sv_pc = "params" /\ up[Ctrl(c)] \in Last("params")
  \/ Ctrl(c) = sv_ctrl /\ sv_state = "CREATE_STREAMS" /\ up[Ctrl(c)] \in {<<>>, <<"CLIENT_TERMINATE">>}
  \/ Ctrl(c) = sv_ctrl /\ sv_state = "TEST_RUNNING" /\ up[Ctrl(c)] \in Last("TEST_END")
  \/ Ctrl(c) = sv_ctrl /\ sv_pc = "results" /\ up[Ctrl(c)] \in Last("results")
  \/ Ctrl(c) = sv_ctrl /\ sv_state = "DISPLAY_RESULTS" /\ up[Ctrl(c)] \in Last("IPERF_DONE")

Talks(c) ==
  /\ Live(c) /\ sv_end[Ctrl(c)] = "open" => Alternates(c)
  /\ Live(c) /\ sv_end[Ctrl(c)] # "open" => Remains(c, down[Ctrl(c)])
  /\ cl_pc[c] = "end" /\ sv_end[Ctrl(c)] = "open" => Leaves(c)

Conversation == \A c \in Clients : Talks(c)

(* The sockets of a client.                                                 *)
Sockets(c) ==
  /\ cl_pc[c] = "start" => cl_state[c] = "0" /\ cl_dialed[c] = 0 /\ cl_end[Ctrl(c)] = "none"
  /\ cl_pc[c] = "dial" => cl_dialed[c] < Wanted(c)
  /\ cl_state[c] \in {"0", "PARAM_EXCHANGE"} => cl_dialed[c] = 0
  /\ Live(c) => cl_end[Ctrl(c)] = "open"
  /\ \A i \in 1 .. MAX_STREAMS : i > cl_dialed[c] => cl_end[<<c, i>>] = "none"
  /\ cl_pc[c] = "end" => \A n \in Own(c) : cl_end[n] # "open"

ClientSockets == \A c \in Clients : Sockets(c)

(* A connection that has not been made is nowhere.                          *)
NotMade ==
  \A n \in Conns : cl_end[n] = "none" =>
    /\ up[n] = <<>> /\ down[n] = <<>> /\ sv_end[n] = "open"
    /\ n \notin Waiting \cup Streams \cup {sv_ctrl, sv_peer}

(* Each one that has been made is in one place at a time, and a client's    *)
(* are queued in the order in which it made them.                           *)
InPlace ==
  /\ \A n \in Waiting : sv_end[n] = "open" /\ n \notin Streams \cup {sv_ctrl, sv_peer}
  /\ \A i, j \in DOMAIN backlog :
       i < j /\ backlog[i][1] = backlog[j][1] => backlog[i][2] < backlog[j][2]
  /\ sv_peer # NoConn => sv_end[sv_peer] = "open" /\ sv_peer \notin Streams \cup {sv_ctrl}
  /\ sv_ctrl # NoConn => sv_ctrl \notin Streams /\ (sv_open <=> sv_end[sv_ctrl] = "open")

(* Where the server can be.                                                 *)
ServerPlace ==
  /\ \/ sv_pc \in {"down", "exited"} /\ sv_state = "0"
     \/ sv_pc \in {"select", "cookie"} /\ sv_state = "IPERF_START"
     \/ sv_pc = "params" /\ sv_state = "PARAM_EXCHANGE"
     \/ sv_pc \in {"select", "stream"} /\ sv_state = "CREATE_STREAMS"
     \/ sv_pc = "select" /\ sv_state \in {"TEST_RUNNING", "DISPLAY_RESULTS"}
     \/ sv_pc = "results" /\ sv_state = "EXCHANGE_RESULTS"
  /\ sv_ctrl = NoConn <=> sv_state = "0" \/ (sv_pc = "select" /\ sv_state = "IPERF_START")
  /\ sv_peer # NoConn <=> sv_pc = "stream"
  /\ sv_streams # <<>> =>
       sv_state \in {"CREATE_STREAMS", "TEST_RUNNING", "EXCHANGE_RESULTS", "DISPLAY_RESULTS"}
  /\ sv_timer => sv_state \in {"TEST_RUNNING", "EXCHANGE_RESULTS", "DISPLAY_RESULTS"}
  /\ ~sv_open => sv_pc = "select" /\ sv_streams = <<>>
                 /\ sv_state \in {"TEST_RUNNING", "DISPLAY_RESULTS"}
  /\ sv_state = "TEST_RUNNING" /\ sv_open => Len(sv_streams) = Wanted(client)

(* Beyond the exchange of parameters the server has its client's cookie,    *)
(* and the client's control connection.                                     *)
Acquainted == sv_ctrl # NoConn /\ sv_pc \notin {"cookie", "params"}

CookieKnown ==
  /\ Acquainted => sv_ctrl = Ctrl(client) /\ sv_cookie = client
  /\ sv_pc = "params" =>
       sv_cookie = client \/ (up[sv_ctrl] = <<>> /\ cl_pc[client] = "end")

(* A data connection carries a cookie, which is read once.                  *)
DataCookie ==
  \A n \in Conns : n[2] # 0 =>
    /\ n \in Waiting \/ n = sv_peer \/ (n = sv_ctrl /\ sv_pc = "cookie") => up[n] = <<"cookie">>
    /\ n = sv_ctrl /\ sv_pc = "params" => up[n] = <<>>

(* No client makes a data connection before it was told to.                 *)
ToldFirst ==
  \A c \in Clients :
    sv_end[Ctrl(c)] = "open" /\ (Ctrl(c) # sv_ctrl \/ sv_pc \in {"cookie", "params"}) =>
      cl_dialed[c] = 0

(* A client whose cookie is on the stack of iperf_tcp_accept has made data  *)
(* connections, or was turned away.                                         *)
Remembered ==
  sv_stack # NoConn /\ sv_end[Ctrl(sv_stack)] = "open" => cl_dialed[sv_stack] > 0

(* While streams are created, those that the client has made are at the     *)
(* server, in their order.                                                  *)
Arriving ==
  sv_state = "CREATE_STREAMS" =>
    /\ \A i \in 1 .. cl_dialed[client] : <<client, i>> \in Streams \cup Waiting \cup {sv_peer}
    /\ \A m \in Streams, n \in Waiting \cup ({sv_peer} \ {NoConn}) :
         m[1] = client /\ n[1] = client => m[2] < n[2]
    /\ \A n \in Waiting :
         sv_peer # NoConn /\ sv_peer[1] = client /\ n[1] = client => sv_peer[2] < n[2]

ProtocolInv ==
  /\ IperfTypeOK /\ ServerPlace /\ ClientSockets /\ NotMade /\ InPlace /\ CookieKnown
  /\ DataCookie /\ ToldFirst /\ Remembered /\ Conversation /\ Arriving /\ StreamsAreTheClients

---------------------------------------------------------------------------------
(* Short sequences.                                                         *)
LEMMA HT1 == \A a : Head(<<a>>) = a /\ Tail(<<a>>) = <<>> /\ <<a>> # <<>>
OBVIOUS

(* Sequences of two elements.                                                *)
LEMMA HT2 == \A a, b : Head(<<a, b>>) = a /\ Tail(<<a, b>>) = <<b>> /\ <<a, b>> # <<>>
OBVIOUS

(* Sequences of three elements.                                              *)
LEMMA HT3 ==
  \A a, b, c : Head(<<a, b, c>>) = a /\ Tail(<<a, b, c>>) = <<b, c>> /\ <<a, b, c>> # <<>>
OBVIOUS

(* Appending one element to a sequence, element by element.                 *)
LEMMA ConcatOne ==
  ASSUME NEW S, NEW s \in Seq(S), NEW b \in S, NEW u \in Seq(S),
         Len(u) = Len(s) + 1, \A i \in 1 .. Len(s) : u[i] = s[i], u[Len(s) + 1] = b
  PROVE  s \o <<b>> = u /\ Append(s, b) = u
<1>1. Append(s, b) \in Seq(S) /\ Len(Append(s, b)) = Len(u)
      /\ \A i \in 1 .. Len(u) : Append(s, b)[i] = u[i]
  BY AppendProperties
<1>2. Append(s, b) = u
  BY <1>1, SeqEqual
<1> QED
  BY <1>2, AppendIsConcat

(* Appending to a sequence of one element.                                  *)
LEMMA Two ==
  ASSUME NEW a, NEW b PROVE <<a>> \o <<b>> = <<a, b>> /\ Append(<<a>>, b) = <<a, b>>
<1> DEFINE s == <<a>> u == <<a, b>>
<1>1. s \in Seq({a, b}) /\ u \in Seq({a, b}) /\ Len(s) = 1 /\ Len(u) = 2 /\ s[1] = a /\ u[1] = a /\ u[2] = b
  OBVIOUS
<1> HIDE DEF s, u
<1>2. Len(u) = Len(s) + 1 /\ (\A i \in 1 .. Len(s) : u[i] = s[i]) /\ u[Len(s) + 1] = b
  BY <1>1
<1>3. b \in {a, b}
  OBVIOUS
<1>4. s \o <<b>> = u /\ Append(s, b) = u
  BY <1>1, <1>2, <1>3, ConcatOne
<1> QED BY <1>4 DEF s, u

(* Appending to a sequence of two elements.                                 *)
LEMMA Three ==
  ASSUME NEW a, NEW b, NEW c PROVE <<a, b>> \o <<c>> = <<a, b, c>>
<1> DEFINE s == <<a, b>> u == <<a, b, c>>
<1>1. s \in Seq({a, b, c}) /\ u \in Seq({a, b, c}) /\ Len(s) = 2 /\ Len(u) = 3 /\ s[1] = a /\ s[2] = b /\ u[1] = a /\ u[2] = b /\ u[3] = c
  OBVIOUS
<1> HIDE DEF s, u
<1>2. Len(u) = Len(s) + 1 /\ (\A i \in 1 .. Len(s) : u[i] = s[i]) /\ u[Len(s) + 1] = c
  BY <1>1
<1>3. c \in {a, b, c}
  OBVIOUS
<1>4. s \o <<c>> = u
  BY <1>1, <1>2, <1>3, ConcatOne
<1> QED BY <1>4 DEF s, u

(* Appending to the empty sequence.                                         *)
LEMMA One ==
  ASSUME NEW a, NEW b
  PROVE <<>> \o <<a>> = <<a>> /\ Append(<<>>, a) = <<a>> /\ <<>> \o <<a, b>> = <<a, b>>
<1>1. <<>> \in Seq({a, b}) /\ <<a>> \in Seq({a, b}) /\ <<a, b>> \in Seq({a, b})
  OBVIOUS
<1>2. Append(<<>>, a) = <<>> \o <<a>>
  BY <1>1, AppendIsConcat
<1> QED BY <1>1, <1>2, ConcatEmptySeq

---------------------------------------------------------------------------------
(* Connections.                                                             *)
LEMMA Connections ==
  /\ \A c \in Clients : Ctrl(c) \in Conns /\ Ctrl(c)[1] = c /\ Ctrl(c)[2] = 0
  /\ \A c, d \in Clients : Ctrl(c) = Ctrl(d) => c = d
  /\ \A c \in Clients : \A i \in 0 .. MAX_STREAMS :
       <<c, i>> \in Conns /\ <<c, i>>[1] = c /\ <<c, i>>[2] = i
  /\ \A n \in Conns : n[1] \in Clients /\ n[2] \in 0 .. MAX_STREAMS /\ n = <<n[1], n[2]>>
  /\ \A n \in Conns : n[2] = 0 => n = Ctrl(n[1])
  /\ NoConn \notin Conns /\ NoConn \notin Clients
BY NetAssumption DEF Ctrl, Conns

(* Nothing new among the streams.                                           *)
LEMMA SameStreams ==
  ASSUME StreamsAreTheClients, sv_streams' = sv_streams, client' = client,
         \A i \in DOMAIN sv_streams :
           cl_end[sv_streams[i]] \in {"fin", "rst"} => cl_end'[sv_streams[i]] \in {"fin", "rst"}
  PROVE  StreamsAreTheClients'
BY DEF StreamsAreTheClients

(* What a step of client c may change if it makes no connection.            *)
Touches(c) ==
  /\ UNCHANGED <<svVars, listening, backlog, sv_end, cl_dialed>>
  /\ \A d \in Clients \ {c} : cl_pc'[d] = cl_pc[d] /\ cl_state'[d] = cl_state[d]
  /\ \A n \in Conns \ {Ctrl(c)} : up'[n] = up[n] /\ down'[n] = down[n]
  /\ \A n \in Conns :
       \/ cl_end'[n] = cl_end[n]
       \/ n \in Own(c) /\ cl_end[n] = "open" /\ cl_end'[n] \in {"fin", "rst"}

(* A step of client c that makes no connection keeps the invariant if it    *)
(* keeps what the invariant says of c.                                      *)
LEMMA ClientStep ==
  ASSUME ProtocolInv, NEW c \in Clients, Touches(c), NetTypeOK', ClTypeOK',
         cl_pc[c] # "end", Live(c) \/ UNCHANGED <<up, down>>,
         Sockets(c)', Talks(c)', cl_pc'[c] # "start"
  PROVE  ProtocolInv'
<1> USE DEF Touches, svVars
<1>1. IperfTypeOK'
  BY DEF ProtocolInv, IperfTypeOK, SvTypeOK
<1>2. ServerPlace'
  BY DEF ProtocolInv, ServerPlace, client
<1>3. ClientSockets'
  <2>1. ASSUME NEW d \in Clients, d # c PROVE Sockets(d)'
    <3>1. Sockets(d) /\ cl_pc'[d] = cl_pc[d] /\ cl_state'[d] = cl_state[d] /\ cl_dialed'[d] = cl_dialed[d]
      BY <2>1 DEF ProtocolInv, ClientSockets
    <3>2. \A n \in Own(d) : cl_end'[n] = cl_end[n]
      BY <2>1 DEF Own, Conns
    <3>3. Ctrl(d) \in Own(d) /\ \A i \in 1 .. MAX_STREAMS : <<d, i>> \in Own(d)
      BY NetAssumption DEF Own, Ctrl
    <3>4. /\ cl_end'[Ctrl(d)] = cl_end[Ctrl(d)]
          /\ \A i \in 1 .. MAX_STREAMS : cl_end'[<<d, i>>] = cl_end[<<d, i>>]
      BY <3>2, <3>3
    <3> QED
      BY <3>1, <3>2, <3>4 DEF Sockets, Live
  <2> QED
    BY <2>1 DEF ClientSockets
<1>4. NotMade'
  <2>1. ASSUME NEW n \in Conns, cl_end'[n] = "none" PROVE cl_end[n] = "none" /\ up'[n] = up[n] /\ down'[n] = down[n]
    BY <2>1, Connections DEF ProtocolInv, ClientSockets, Sockets
  <2> QED
    BY <2>1 DEF ProtocolInv, NotMade, Waiting, Streams
<1>5. InPlace'
  BY DEF ProtocolInv, InPlace, Waiting, Streams
<1>6. CookieKnown'
  <2>1. Acquainted' => sv_ctrl' = Ctrl(client)' /\ sv_cookie' = client'
    BY DEF ProtocolInv, CookieKnown, Acquainted, client, Ctrl
  <2>2. ASSUME sv_pc = "params", sv_cookie # client PROVE up'[sv_ctrl] = <<>> /\ cl_pc'[client] = "end"
    <3>1. up[sv_ctrl] = <<>> /\ cl_pc[client] = "end" /\ sv_ctrl \in Conns
      BY <2>2 DEF ProtocolInv, CookieKnown, ServerPlace, IperfTypeOK, SvTypeOK
    <3>2. client \in Clients /\ client # c /\ sv_ctrl # Ctrl(c)
      BY <3>1, Connections DEF client
    <3> QED
      BY <3>1, <3>2
  <2> QED
    BY <2>1, <2>2 DEF CookieKnown, client
<1>7. DataCookie'
  BY Connections DEF ProtocolInv, DataCookie, Waiting
<1>8. ToldFirst'
  BY DEF ProtocolInv, ToldFirst, Ctrl
<1>9. Conversation'
  <2>1. ASSUME NEW d \in Clients, d # c PROVE Talks(d)'
    <3>1. /\ Talks(d) /\ cl_pc'[d] = cl_pc[d] /\ cl_state'[d] = cl_state[d]
          /\ up'[Ctrl(d)] = up[Ctrl(d)] /\ down'[Ctrl(d)] = down[Ctrl(d)]
      BY <2>1, Connections DEF ProtocolInv, Conversation
    <3> QED
      BY <3>1 DEF Talks, Live, Ctrl, Alternates, AtFirst, AtParams, AtStreams, AtRunning, AtResults,
                  AtDisplay, At, Remains, Leaves
  <2> QED
    BY <2>1 DEF Conversation
<1>10. Arriving'
  BY DEF ProtocolInv, Arriving, Waiting, Streams, client
<1>11. StreamsAreTheClients'
  <2>1. \A i \in DOMAIN sv_streams : sv_streams[i] \in Conns
    BY DEF ProtocolInv, IperfTypeOK, SvTypeOK
  <2>2. \A n \in Conns : cl_end[n] \in {"fin", "rst"} => cl_end'[n] \in {"fin", "rst"}
    OBVIOUS
  <2>3. StreamsAreTheClients /\ sv_streams' = sv_streams /\ client' = client
    BY DEF ProtocolInv, client
  <2> HIDE DEF Touches, svVars
  <2> QED
    BY <2>1, <2>2, <2>3, SameStreams
<1>12. Remembered'
  BY DEF ProtocolInv, Remembered, Ctrl
<1> QED
  BY <1>1, <1>2, <1>3, <1>4, <1>5, <1>6, <1>7, <1>8, <1>9, <1>10, <1>11, <1>12 DEF ProtocolInv

(* A client that writes at most one message, reads at most one, and sets    *)
(* its state.                                                               *)
ReadsAndWrites(c) ==
  /\ up' = up \/ \E m \in Messages : up' = [up EXCEPT ![Ctrl(c)] = Append(@, m)]
  /\ down' = down \/ (down[Ctrl(c)] # <<>> /\ down' = [down EXCEPT ![Ctrl(c)] = Tail(@)])
  /\ cl_state' = cl_state \/ \E st \in States : cl_state' = [cl_state EXCEPT ![c] = st]

(* What such a step leaves in the queues.                                   *)
LEMMA ReadsAndWritesTypes ==
  ASSUME ProtocolInv, NEW c \in Clients, ReadsAndWrites(c)
  PROVE  /\ up' \in [Conns -> Seq(Messages)] /\ down' \in [Conns -> Seq(Messages)]
         /\ cl_state' \in [Clients -> States]
         /\ \A n \in Conns \ {Ctrl(c)} : up'[n] = up[n] /\ down'[n] = down[n]
         /\ \A d \in Clients \ {c} : cl_state'[d] = cl_state[d]
<1>1. /\ up \in [Conns -> Seq(Messages)] /\ down \in [Conns -> Seq(Messages)]
      /\ cl_state \in [Clients -> States] /\ Ctrl(c) \in Conns
  BY Connections DEF ProtocolInv, IperfTypeOK, NetTypeOK, ClTypeOK
<1>2. /\ \A m \in Messages : Append(up[Ctrl(c)], m) \in Seq(Messages)
      /\ down[Ctrl(c)] # <<>> => Tail(down[Ctrl(c)]) \in Seq(Messages)
  BY <1>1
<1>3. up' \in [Conns -> Seq(Messages)] /\ \A n \in Conns \ {Ctrl(c)} : up'[n] = up[n]
  BY <1>1, <1>2 DEF ReadsAndWrites
<1>4. down' \in [Conns -> Seq(Messages)] /\ \A n \in Conns \ {Ctrl(c)} : down'[n] = down[n]
  BY <1>1, <1>2 DEF ReadsAndWrites
<1>5. cl_state' \in [Clients -> States] /\ \A d \in Clients \ {c} : cl_state'[d] = cl_state[d]
  BY <1>1 DEF ReadsAndWrites
<1> QED
  BY <1>3, <1>4, <1>5

(* A client that goes on with the test.                                     *)
LEMMA GoingOn ==
  ASSUME ProtocolInv, NEW c \in Clients, UNCHANGED svVars, Live(c),
         NEW pc \in {"select", "dial", "results"}, ClGoesOn(c, pc), ReadsAndWrites(c),
         cl_omitting' \in [Clients -> BOOLEAN],
         pc = "dial" => cl_dialed[c] < Wanted(c),
         cl_state'[c] \in {"0", "PARAM_EXCHANGE"} => cl_dialed[c] = 0,
         Talks(c)'
  PROVE  ProtocolInv'
<1>1. cl_pc' = [cl_pc EXCEPT ![c] = pc] /\ UNCHANGED <<cl_dialed, listening, backlog, cl_end, sv_end>>
  BY DEF ClGoesOn
<1>2. cl_pc \in [Clients -> {"start", "cookie", "select", "dial", "results", "end"}]
  BY DEF ProtocolInv, IperfTypeOK, ClTypeOK
<1>3. Touches(c)
  BY <1>1, <1>2, ReadsAndWritesTypes DEF Touches
<1>4. NetTypeOK' /\ ClTypeOK'
  BY <1>1, <1>2, ReadsAndWritesTypes DEF ProtocolInv, IperfTypeOK, NetTypeOK, ClTypeOK
<1>5. cl_pc'[c] = pc
  BY <1>1, <1>2
<1>6. Sockets(c)'
  BY <1>1, <1>5 DEF ProtocolInv, ClientSockets, Sockets, Live
<1> QED
  BY <1>3, <1>4, <1>5, <1>6, ClientStep DEF Live

(* A client that ends: it closes its sockets.                               *)
LEMMA Exiting ==
  ASSUME ProtocolInv, NEW c \in Clients, UNCHANGED svVars, cl_pc[c] # "end",
         Live(c) \/ UNCHANGED <<up, down>>,
         NEW err, ClExit(c, err), ReadsAndWrites(c),
         cl_state'[c] \in {"0", "PARAM_EXCHANGE"} => cl_dialed[c] = 0,
         sv_end[Ctrl(c)] = "open" => Leaves(c)'
  PROVE  ProtocolInv'
<1>1. /\ cl_pc' = [cl_pc EXCEPT ![c] = "end"]
      /\ UNCHANGED <<cl_dialed, cl_omitting, listening, backlog, sv_end>>
  BY DEF ClExit
<1>2. /\ cl_pc \in [Clients -> {"start", "cookie", "select", "dial", "results", "end"}]
      /\ cl_end \in [Conns -> {"none", "open", "fin", "rst"}]
  BY DEF ProtocolInv, IperfTypeOK, ClTypeOK, NetTypeOK
<1>3. /\ cl_end' \in [Conns -> {"none", "open", "fin", "rst"}]
      /\ \A n \in Conns \ Own(c) : cl_end'[n] = cl_end[n]
      /\ \A n \in Own(c) :
           IF cl_end[n] = "open" THEN cl_end'[n] \in {"fin", "rst"} ELSE cl_end'[n] = cl_end[n]
  <2>1. cl_end' = [n \in Conns |-> IF n \in Own(c) /\ cl_end[n] = "open"
                                   THEN CloseKind(down'[n]) ELSE cl_end[n]]
    BY DEF ClExit, ClClose
  <2>2. \A n \in Conns : CloseKind(down'[n]) \in {"fin", "rst"}
    BY DEF CloseKind
  <2>3. Own(c) \subseteq Conns
    BY DEF Own, Conns
  <2> QED
    BY <1>2, <2>1, <2>2, <2>3
<1>4. Touches(c)
  BY <1>1, <1>2, <1>3, ReadsAndWritesTypes DEF Touches
<1>5. NetTypeOK' /\ ClTypeOK'
  BY <1>1, <1>2, <1>3, ReadsAndWritesTypes DEF ProtocolInv, IperfTypeOK, NetTypeOK, ClTypeOK
<1>6. cl_pc'[c] = "end"
  BY <1>1, <1>2
<1>7. Sockets(c)'
  <2>1. \A i \in 1 .. MAX_STREAMS : <<c, i>> \in Own(c)
    BY DEF Own
  <2> QED
    BY <1>1, <1>3, <1>6, <2>1 DEF ProtocolInv, ClientSockets, Sockets, Live
<1>8. Talks(c)'
  BY <1>1, <1>6 DEF Talks, Live, Ctrl
<1> QED
  BY <1>4, <1>5, <1>6, <1>7, <1>8, ClientStep

(* What a client leaves that ends without another word, or with its last.   *)
LEMMA Leaving ==
  ASSUME ProtocolInv, NEW c \in Clients, UNCHANGED svVars, cl_pc[c] # "end",
         sv_end[Ctrl(c)] = "open",
         \/ up'[Ctrl(c)] = up[Ctrl(c)]
         \/ Live(c) /\ up'[Ctrl(c)] = Append(up[Ctrl(c)], "CLIENT_TERMINATE")
  PROVE  Leaves(c)'
<1> DEFINE u == up[Ctrl(c)]
<1>1. CASE cl_pc[c] = "start"
  <2>1. u = <<>> /\ Ctrl(c) # sv_ctrl
    BY <1>1, Connections DEF ProtocolInv, ClientSockets, Sockets, NotMade
  <2> QED
    BY <1>1, <2>1 DEF Leaves, Last, Live, svVars, Ctrl
<1>2. CASE Live(c)
  <2>1. Alternates(c)
    BY <1>2 DEF ProtocolInv, Conversation, Talks
  <2>2. \/ (Ctrl(c) # sv_ctrl \/ sv_pc = "cookie") /\ u \in {<<>>, <<"cookie">>}
        \/ Ctrl(c) = sv_ctrl /\ sv_pc = "params" /\ u \in {<<>>, <<"params">>}
        \/ Ctrl(c) = sv_ctrl /\ sv_state = "CREATE_STREAMS" /\ u = <<>>
        \/ Ctrl(c) = sv_ctrl /\ sv_state = "TEST_RUNNING" /\ u \in {<<>>, <<"TEST_END">>}
        \/ Ctrl(c) = sv_ctrl /\ sv_pc = "results" /\ u \in {<<>>, <<"results">>}
        \/ Ctrl(c) = sv_ctrl /\ sv_state = "DISPLAY_RESULTS" /\ u = <<>>
    BY <2>1 DEF Alternates, AtFirst, AtParams, AtStreams, AtRunning, AtResults, AtDisplay, At
  <2>3. \A m : u \in {<<>>, <<m>>} => up'[Ctrl(c)] \in Last(m)
    BY One, Two DEF Last
  <2>4. u = <<>> => up'[Ctrl(c)] \in {<<>>, <<"CLIENT_TERMINATE">>} /\ up'[Ctrl(c)] \in Last("IPERF_DONE")
    BY One DEF Last
  <2> HIDE DEF u
  <2> QED
    BY <2>2, <2>3, <2>4 DEF Leaves, svVars, Ctrl
<1> QED
  BY <1>1, <1>2 DEF Live

(* What a client can read, where it can be then, and what follows.          *)
Follows(c, rest) ==
  /\ sv_end[Ctrl(c)] = "open" => up[Ctrl(c)] = <<>> /\ sv_ctrl = Ctrl(c) /\ down'[Ctrl(c)] = rest
  /\ sv_end[Ctrl(c)] # "open" => down'[Ctrl(c)] \in {rest, rest \o ST}

(* Each message is read in one state only, and nothing but SERVER_TERMINATE *)
(* is behind it, except for TEST_RUNNING behind TEST_START.                 *)
LEMMA Reading ==
  ASSUME ProtocolInv, NEW c \in Clients, NEW m, cl_pc[c] = "select",
         down[Ctrl(c)] # <<>>, Head(down[Ctrl(c)]) = m, down'[Ctrl(c)] = Tail(down[Ctrl(c)])
  PROVE  /\ m = "PARAM_EXCHANGE" =>
              /\ cl_state[c] = "0" /\ Follows(c, <<>>)
              /\ sv_end[Ctrl(c)] = "open" => sv_pc = "params"
         /\ m = "CREATE_STREAMS" =>
              /\ cl_state[c] = "PARAM_EXCHANGE" /\ Follows(c, <<>>)
              /\ sv_end[Ctrl(c)] = "open" => sv_state = "CREATE_STREAMS"
         /\ m = "TEST_START" =>
              /\ cl_state[c] = "CREATE_STREAMS" /\ Follows(c, <<"TEST_RUNNING">>)
              /\ sv_end[Ctrl(c)] = "open" => sv_state = "TEST_RUNNING"
         /\ m = "TEST_RUNNING" =>
              /\ cl_state[c] = "TEST_START" /\ Follows(c, <<>>)
              /\ sv_end[Ctrl(c)] = "open" => sv_state = "TEST_RUNNING"
         /\ m = "EXCHANGE_RESULTS" =>
              /\ cl_state[c] = "TEST_END" /\ Follows(c, <<>>)
              /\ sv_end[Ctrl(c)] = "open" => sv_pc = "results"
         /\ m = "DISPLAY_RESULTS" =>
              /\ cl_state[c] = "EXCHANGE_RESULTS" /\ Follows(c, <<>>)
              /\ sv_end[Ctrl(c)] = "open" => sv_state = "DISPLAY_RESULTS"
         /\ m \in ClExpects(c)
<1> DEFINE d == down[Ctrl(c)]
<1>1. Live(c)
  BY DEF Live
<1>4. /\ \A x : d = <<x>> => m = x /\ down'[Ctrl(c)] = <<>>
      /\ \A x, y : d = <<x, y>> => m = x /\ down'[Ctrl(c)] = <<y>>
      /\ \A x, y, z : d = <<x, y, z>> => m = x /\ down'[Ctrl(c)] = <<y, z>>
  <2>1. Head(d) = m /\ down'[Ctrl(c)] = Tail(d)
    OBVIOUS
  <2> HIDE DEF d
  <2>2. ASSUME NEW x, d = <<x>> PROVE m = x /\ down'[Ctrl(c)] = <<>>
    BY <2>1, <2>2, HT1
  <2>3. ASSUME NEW x, NEW y, d = <<x, y>> PROVE m = x /\ down'[Ctrl(c)] = <<y>>
    BY <2>1, <2>3, HT2
  <2>4. ASSUME NEW x, NEW y, NEW z, d = <<x, y, z>> PROVE m = x /\ down'[Ctrl(c)] = <<y, z>>
    BY <2>1, <2>4, HT3
  <2> QED
    BY <2>2, <2>3, <2>4
<1>5. d # <<>>
  OBVIOUS
<1>2. CASE sv_end[Ctrl(c)] = "open"
  <2>1. Alternates(c)
    BY <1>1, <1>2 DEF ProtocolInv, Conversation, Talks
  <2> USE DEF At
  <2>2. /\ up[Ctrl(c)] = <<>> /\ sv_ctrl = Ctrl(c)
        /\ \/ sv_pc = "params" /\ cl_state[c] = "0" /\ d = <<"PARAM_EXCHANGE">>
           \/ sv_state = "CREATE_STREAMS" /\ cl_state[c] = "PARAM_EXCHANGE" /\ d = <<"CREATE_STREAMS">>
           \/ sv_state = "TEST_RUNNING" /\ cl_state[c] = "CREATE_STREAMS" /\ d = <<"TEST_START", "TEST_RUNNING">>
           \/ sv_state = "TEST_RUNNING" /\ cl_state[c] = "TEST_START" /\ d = <<"TEST_RUNNING">>
           \/ sv_pc = "results" /\ cl_state[c] = "TEST_END" /\ d = <<"EXCHANGE_RESULTS">>
           \/ sv_state = "DISPLAY_RESULTS" /\ cl_state[c] = "EXCHANGE_RESULTS" /\ d = <<"DISPLAY_RESULTS">>
    BY <2>1 DEF Alternates, AtFirst, AtParams, AtStreams, AtRunning, AtResults, AtDisplay
  <2>3. \/ sv_pc = "params" /\ cl_state[c] = "0" /\ m = "PARAM_EXCHANGE" /\ down'[Ctrl(c)] = <<>>
        \/ sv_state = "CREATE_STREAMS" /\ cl_state[c] = "PARAM_EXCHANGE" /\ m = "CREATE_STREAMS" /\ down'[Ctrl(c)] = <<>>
        \/ sv_state = "TEST_RUNNING" /\ cl_state[c] = "CREATE_STREAMS" /\ m = "TEST_START" /\ down'[Ctrl(c)] = <<"TEST_RUNNING">>
        \/ sv_state = "TEST_RUNNING" /\ cl_state[c] = "TEST_START" /\ m = "TEST_RUNNING" /\ down'[Ctrl(c)] = <<>>
        \/ sv_pc = "results" /\ cl_state[c] = "TEST_END" /\ m = "EXCHANGE_RESULTS" /\ down'[Ctrl(c)] = <<>>
        \/ sv_state = "DISPLAY_RESULTS" /\ cl_state[c] = "EXCHANGE_RESULTS" /\ m = "DISPLAY_RESULTS" /\ down'[Ctrl(c)] = <<>>
    BY <2>2, <1>4
  <2>4. m \in ClExpects(c)
    BY <2>3 DEF ClExpects
  <2> QED
    BY <1>2, <2>2, <2>3, <2>4 DEF Follows
<1>3. CASE sv_end[Ctrl(c)] # "open"
  <2>1. Remains(c, d)
    BY <1>1, <1>3 DEF ProtocolInv, Conversation, Talks
  <2>2. <<>> \o ST = ST /\ <<"TEST_RUNNING">> \o ST = <<"TEST_RUNNING", "SERVER_TERMINATE">>
    BY One, Two DEF ST
  <2>3. \/ cl_state[c] = "0" /\ m = "PARAM_EXCHANGE" /\ down'[Ctrl(c)] \in {<<>>, ST}
        \/ cl_state[c] = "PARAM_EXCHANGE" /\ m = "CREATE_STREAMS" /\ down'[Ctrl(c)] \in {<<>>, ST}
        \/ /\ cl_state[c] = "CREATE_STREAMS" /\ m = "TEST_START"
           /\ down'[Ctrl(c)] \in {<<"TEST_RUNNING">>, <<"TEST_RUNNING", "SERVER_TERMINATE">>}
        \/ cl_state[c] = "TEST_START" /\ m = "TEST_RUNNING" /\ down'[Ctrl(c)] \in {<<>>, ST}
        \/ cl_state[c] = "TEST_END" /\ m = "EXCHANGE_RESULTS" /\ down'[Ctrl(c)] \in {<<>>, ST}
        \/ cl_state[c] = "EXCHANGE_RESULTS" /\ m = "DISPLAY_RESULTS" /\ down'[Ctrl(c)] \in {<<>>, ST}
        \/ m = "SERVER_TERMINATE"
        \/ cl_state[c] = "0" /\ m = "ACCESS_DENIED"
        \/ cl_state[c] = "PARAM_EXCHANGE" /\ m = "SERVER_ERROR"
    <3>1. CASE cl_state[c] = "0"
      <4>1. d \in {<<"PARAM_EXCHANGE">>, <<"ACCESS_DENIED">>, <<"SERVER_TERMINATE">>,
                   <<"PARAM_EXCHANGE", "SERVER_TERMINATE">>}
        BY <2>1, <1>5, <3>1 DEF Remains, ST
      <4> HIDE DEF d
      <4> QED
        BY <3>1, <4>1, <1>4 DEF ST
    <3>2. CASE cl_state[c] = "PARAM_EXCHANGE"
      <4>1. d \in {<<"CREATE_STREAMS">>, <<"SERVER_ERROR">>, <<"SERVER_TERMINATE">>,
                   <<"CREATE_STREAMS", "SERVER_TERMINATE">>}
        BY <2>1, <1>5, <3>2 DEF Remains, ST
      <4> HIDE DEF d
      <4> QED
        BY <3>2, <4>1, <1>4 DEF ST
    <3>3. CASE cl_state[c] = "CREATE_STREAMS"
      <4>1. d \in {<<"SERVER_TERMINATE">>, <<"TEST_START", "TEST_RUNNING">>,
                   <<"TEST_START", "TEST_RUNNING", "SERVER_TERMINATE">>}
        BY <2>1, <1>5, <3>3 DEF Remains, ST
      <4> HIDE DEF d
      <4> QED
        BY <3>3, <4>1, <1>4 DEF ST
    <3>4. CASE cl_state[c] = "TEST_START"
      <4>1. d \in {<<"TEST_RUNNING">>, <<"TEST_RUNNING", "SERVER_TERMINATE">>}
        BY <2>1, <1>5, <3>4 DEF Remains, ST
      <4> HIDE DEF d
      <4> QED
        BY <3>4, <4>1, <1>4 DEF ST
    <3>5. CASE cl_state[c] = "TEST_RUNNING"
      <4>1. d = <<"SERVER_TERMINATE">>
        BY <2>1, <1>5, <3>5 DEF Remains, ST
      <4> HIDE DEF d
      <4> QED
        BY <3>5, <4>1, <1>4
    <3>6. CASE cl_state[c] = "TEST_END"
      <4>1. d \in {<<"SERVER_TERMINATE">>, <<"EXCHANGE_RESULTS">>,
                   <<"EXCHANGE_RESULTS", "SERVER_TERMINATE">>}
        BY <2>1, <1>5, <3>6 DEF Remains, ST
      <4> HIDE DEF d
      <4> QED
        BY <3>6, <4>1, <1>4 DEF ST
    <3>7. CASE cl_state[c] = "EXCHANGE_RESULTS"
      <4>1. d \in {<<"DISPLAY_RESULTS">>, <<"DISPLAY_RESULTS", "SERVER_TERMINATE">>}
        BY <2>1, <1>5, <3>7 DEF Remains, ST
      <4> HIDE DEF d
      <4> QED
        BY <3>7, <4>1, <1>4 DEF ST
    <3> QED
      BY <2>1, <3>1, <3>2, <3>3, <3>4, <3>5, <3>6, <3>7 DEF Remains
  <2>4. m \in ClExpects(c)
    BY <2>3 DEF ClExpects
  <2> QED
    BY <1>3, <2>2, <2>3, <2>4 DEF Follows
<1> QED
  BY <1>2, <1>3

---------------------------------------------------------------------------------
(* The steps of a client.                                                   *)
LEMMA Shapes ==
  ASSUME ProtocolInv, NEW c \in Clients
  PROVE  /\ Ctrl(c) \in Conns
         /\ up \in [Conns -> Seq(Messages)] /\ down \in [Conns -> Seq(Messages)]
         /\ cl_end \in [Conns -> {"none", "open", "fin", "rst"}]
         /\ sv_end \in [Conns -> {"open", "fin", "rst"}]
         /\ cl_pc \in [Clients -> {"start", "cookie", "select", "dial", "results", "end"}]
         /\ cl_state \in [Clients -> States]
         /\ cl_dialed \in [Clients -> 0 .. MAX_STREAMS]
         /\ cl_omitting \in [Clients -> BOOLEAN]
         /\ down[Ctrl(c)] # <<>> => Head(down[Ctrl(c)]) \in Messages
<1>1. /\ Ctrl(c) \in Conns
      /\ up \in [Conns -> Seq(Messages)] /\ down \in [Conns -> Seq(Messages)]
      /\ cl_end \in [Conns -> {"none", "open", "fin", "rst"}]
      /\ sv_end \in [Conns -> {"open", "fin", "rst"}]
  BY Connections DEF ProtocolInv, IperfTypeOK, NetTypeOK
<1>2. /\ cl_pc \in [Clients -> {"start", "cookie", "select", "dial", "results", "end"}]
      /\ cl_state \in [Clients -> States]
      /\ cl_dialed \in [Clients -> 0 .. MAX_STREAMS]
      /\ cl_omitting \in [Clients -> BOOLEAN]
  BY DEF ProtocolInv, IperfTypeOK, ClTypeOK
<1>3. down[Ctrl(c)] \in Seq(Messages)
  BY <1>1
<1> QED
  BY <1>1, <1>2, <1>3

(* A client that gives up.                                                  *)
LEMMA Failing ==
  ASSUME ProtocolInv, NEW c \in Clients, UNCHANGED svVars, cl_pc[c] # "end",
         NEW err, ClFail(c, err)
  PROVE  ProtocolInv'
<1>1. UNCHANGED <<up, down, cl_state>> /\ ClExit(c, err)
  BY DEF ClFail
<1>2. ReadsAndWrites(c)
  BY <1>1 DEF ReadsAndWrites
<1>3. cl_state'[c] \in {"0", "PARAM_EXCHANGE"} => cl_dialed[c] = 0
  BY <1>1 DEF ProtocolInv, ClientSockets, Sockets
<1>4. sv_end[Ctrl(c)] = "open" => Leaves(c)'
  BY <1>1, Leaving
<1> QED
  BY <1>1, <1>2, <1>3, <1>4, Exiting

(* What ClReads(c, m) and a write do to the connection of client c.         *)
LEMMA Exchanged ==
  ASSUME ProtocolInv, NEW c \in Clients, NEW m, ClReads(c, m),
         up' = up \/ \E w \in Messages : ClWrite(c, w)
  PROVE  /\ ReadsAndWrites(c) /\ Live(c)
         /\ cl_pc[c] = "select" /\ down[Ctrl(c)] # <<>> /\ Head(down[Ctrl(c)]) = m
         /\ down'[Ctrl(c)] = Tail(down[Ctrl(c)]) /\ cl_state'[c] = m
         /\ \A w : ClWrite(c, w) => up'[Ctrl(c)] = Append(up[Ctrl(c)], w)
<1>1. /\ cl_pc[c] = "select" /\ down[Ctrl(c)] # <<>> /\ Head(down[Ctrl(c)]) = m
      /\ down' = [down EXCEPT ![Ctrl(c)] = Tail(@)] /\ cl_state' = [cl_state EXCEPT ![c] = m]
  BY DEF ClReads
<1>2. m \in States
  BY <1>1, Shapes DEF States
<1>3. ReadsAndWrites(c)
  BY <1>1, <1>2 DEF ReadsAndWrites, ClWrite
<1>4. down'[Ctrl(c)] = Tail(down[Ctrl(c)]) /\ cl_state'[c] = m
  BY <1>1, Shapes
<1>5. \A w : ClWrite(c, w) => up'[Ctrl(c)] = Append(up[Ctrl(c)], w)
  BY Shapes DEF ClWrite
<1> QED
  BY <1>1, <1>3, <1>4, <1>5 DEF Live

(* PARAM_EXCHANGE: the client sends its parameters.                         *)
LEMMA SendsParams ==
  ASSUME ProtocolInv, NEW c \in Clients, UNCHANGED svVars, ClSendsParams(c)
  PROVE  ProtocolInv'
<1>1. ClReads(c, "PARAM_EXCHANGE")
  BY DEF ClSendsParams
<1>2. up' = up \/ \E w \in Messages : ClWrite(c, w)
  BY DEF ClSendsParams, ClWriteFails, Messages
<1>3. /\ ReadsAndWrites(c) /\ Live(c)
      /\ cl_pc[c] = "select" /\ down[Ctrl(c)] # <<>> /\ Head(down[Ctrl(c)]) = "PARAM_EXCHANGE"
      /\ down'[Ctrl(c)] = Tail(down[Ctrl(c)]) /\ cl_state'[c] = "PARAM_EXCHANGE"
      /\ \A w : ClWrite(c, w) => up'[Ctrl(c)] = Append(up[Ctrl(c)], w)
  BY <1>1, <1>2, Exchanged
<1>4. /\ cl_state[c] = "0" /\ Follows(c, <<>>)
      /\ sv_end[Ctrl(c)] = "open" => sv_pc = "params"
  BY <1>3, Reading
<1>5. cl_dialed[c] = 0
  BY <1>4 DEF ProtocolInv, ClientSockets, Sockets
<1>6. CASE ClWrite(c, "params") /\ ClGoesOn(c, "select") /\ UNCHANGED cl_omitting
  <2>1. cl_pc'[c] = "select" /\ sv_end' = sv_end
    BY <1>6, Shapes DEF ClGoesOn
  <2>2. up[Ctrl(c)] = <<>> => up'[Ctrl(c)] = <<"params">>
    BY <1>3, <1>6, One
  <2>3. <<>> \o ST = ST
    BY One DEF ST
  <2>4. Talks(c)'
    BY <1>3, <1>4, <2>1, <2>2, <2>3 DEF Talks, Live, Alternates, AtParams, At, Remains, Follows, svVars, Ctrl
  <2> QED
    BY <1>3, <1>5, <1>6, <2>4, GoingOn, Shapes
<1>7. CASE ClWriteFails(c) /\ ClExit(c, "IESENDPARAMS")
  <2>1. sv_end[Ctrl(c)] # "open"
    BY <1>7 DEF ClWriteFails, NwriteOK
  <2> QED
    BY <1>3, <1>5, <1>7, <2>1, Exiting DEF Live
<1> QED
  BY <1>6, <1>7 DEF ClSendsParams

(* A client that reads a state byte, writes nothing and goes on.            *)
LEMMA ReadsOn ==
  ASSUME ProtocolInv, NEW c \in Clients, UNCHANGED svVars,
         ClCreatesStreams(c) \/ ClStarts(c) \/ ClRuns(c)
  PROVE  ProtocolInv'
<1>1. PICK m \in {"CREATE_STREAMS", "TEST_START", "TEST_RUNNING"}, pc \in {"dial", "select"} :
        /\ ClReads(c, m) /\ ClGoesOn(c, pc) /\ up' = up
        /\ pc = IF m = "CREATE_STREAMS" THEN "dial" ELSE "select"
        /\ cl_omitting' \in [Clients -> BOOLEAN]
  <2>1. \A b \in BOOLEAN : [cl_omitting EXCEPT ![c] = b] \in [Clients -> BOOLEAN]
    BY Shapes
  <2>2. omit[c] \in BOOLEAN
    BY OptionsAssumption
  <2> QED
    BY <2>1, <2>2, Shapes DEF ClCreatesStreams, ClStarts, ClRuns
<1>2. /\ ReadsAndWrites(c) /\ Live(c)
      /\ cl_pc[c] = "select" /\ down[Ctrl(c)] # <<>> /\ Head(down[Ctrl(c)]) = m
      /\ down'[Ctrl(c)] = Tail(down[Ctrl(c)]) /\ cl_state'[c] = m
  BY <1>1, Exchanged
<1>3. cl_pc'[c] = pc /\ sv_end' = sv_end
  BY <1>1, Shapes DEF ClGoesOn
<1>4. <<>> \o ST = ST /\ <<"TEST_RUNNING">> \o ST = <<"TEST_RUNNING", "SERVER_TERMINATE">>
  BY One, Two DEF ST
<1>5. CASE m = "CREATE_STREAMS"
  <2>1. /\ cl_state[c] = "PARAM_EXCHANGE" /\ Follows(c, <<>>)
        /\ sv_end[Ctrl(c)] = "open" => sv_state = "CREATE_STREAMS"
    BY <1>2, <1>5, Reading
  <2>2. cl_dialed[c] < Wanted(c)
    BY <2>1, OptionsAssumption DEF ProtocolInv, ClientSockets, Sockets, Wanted
  <2>3. Talks(c)'
    BY <1>1, <1>2, <1>3, <1>4, <1>5, <2>1 DEF Talks, Live, Alternates, AtStreams, At, Remains, Follows, svVars, Ctrl
  <2> QED
    BY <1>1, <1>2, <1>5, <2>2, <2>3, GoingOn
<1>6. CASE m = "TEST_START"
  <2>1. /\ cl_state[c] = "CREATE_STREAMS" /\ Follows(c, <<"TEST_RUNNING">>)
        /\ sv_end[Ctrl(c)] = "open" => sv_state = "TEST_RUNNING"
    BY <1>2, <1>6, Reading
  <2>3. Talks(c)'
    BY <1>1, <1>2, <1>3, <1>4, <1>6, <2>1 DEF Talks, Live, Alternates, AtRunning, At, Remains, Follows, svVars, Ctrl
  <2> QED
    BY <1>1, <1>2, <1>6, <2>3, GoingOn
<1>7. CASE m = "TEST_RUNNING"
  <2>1. /\ cl_state[c] = "TEST_START" /\ Follows(c, <<>>)
        /\ sv_end[Ctrl(c)] = "open" => sv_state = "TEST_RUNNING"
    BY <1>2, <1>7, Reading
  <2>3. Talks(c)'
    BY <1>1, <1>2, <1>3, <1>4, <1>7, <2>1 DEF Talks, Live, Alternates, AtRunning, At, Remains, Follows, svVars, Ctrl
  <2> QED
    BY <1>1, <1>2, <1>7, <2>3, GoingOn
<1> QED
  BY <1>5, <1>6, <1>7

(* EXCHANGE_RESULTS: the client sends its results.                          *)
LEMMA SendsResults ==
  ASSUME ProtocolInv, NEW c \in Clients, UNCHANGED svVars, ClSendsResults(c)
  PROVE  ProtocolInv'
<1>1. ClReads(c, "EXCHANGE_RESULTS")
  BY DEF ClSendsResults
<1>2. up' = up \/ \E w \in Messages : ClWrite(c, w)
  BY DEF ClSendsResults, ClWriteFails, Messages
<1>3. /\ ReadsAndWrites(c) /\ Live(c)
      /\ cl_pc[c] = "select" /\ down[Ctrl(c)] # <<>> /\ Head(down[Ctrl(c)]) = "EXCHANGE_RESULTS"
      /\ down'[Ctrl(c)] = Tail(down[Ctrl(c)]) /\ cl_state'[c] = "EXCHANGE_RESULTS"
      /\ \A w : ClWrite(c, w) => up'[Ctrl(c)] = Append(up[Ctrl(c)], w)
  BY <1>1, <1>2, Exchanged
<1>4. /\ Follows(c, <<>>)
      /\ sv_end[Ctrl(c)] = "open" => sv_pc = "results"
  BY <1>3, Reading
<1>6. CASE ClWrite(c, "results") /\ ClGoesOn(c, "results") /\ UNCHANGED cl_omitting
  <2>1. cl_pc'[c] = "results" /\ sv_end' = sv_end
    BY <1>6, Shapes DEF ClGoesOn
  <2>2. up[Ctrl(c)] = <<>> => up'[Ctrl(c)] = <<"results">>
    BY <1>3, <1>6, One
  <2>3. <<>> \o ST = ST
    BY One DEF ST
  <2>4. Talks(c)'
    BY <1>3, <1>4, <2>1, <2>2, <2>3 DEF Talks, Live, Alternates, AtResults, At, Remains, Follows, svVars, Ctrl
  <2> QED
    BY <1>3, <1>6, <2>4, GoingOn, Shapes
<1>7. CASE ClWriteFails(c) /\ ClExit(c, "IESENDRESULTS")
  <2>1. sv_end[Ctrl(c)] # "open"
    BY <1>7 DEF ClWriteFails, NwriteOK
  <2> QED
    BY <1>3, <1>7, <2>1, Exiting DEF Live
<1> QED
  BY <1>6, <1>7 DEF ClSendsResults

(* iperf_connect: the client sends its cookie.                              *)
LEMMA SendsCookie ==
  ASSUME ProtocolInv, NEW c \in Clients, UNCHANGED svVars, ClCookie(c)
  PROVE  ProtocolInv'
<1>1. cl_pc[c] = "cookie" /\ Live(c)
  BY DEF ClCookie, Live
<1>2. CASE ClWrite(c, "cookie") /\ ClGoesOn(c, "select") /\ UNCHANGED <<cl_state, cl_omitting, down>>
  <2>1. cl_pc'[c] = "select" /\ sv_end' = sv_end
    BY <1>2, Shapes DEF ClGoesOn
  <2>2. up[Ctrl(c)] = <<>> => up'[Ctrl(c)] = <<"cookie">>
    BY <1>2, One, Shapes DEF ClWrite
  <2>3. Talks(c)'
    BY <1>1, <1>2, <2>1, <2>2
       DEF ProtocolInv, Conversation, Talks, Live, Alternates, AtFirst, AtParams, AtStreams,
           AtRunning, AtResults, AtDisplay, At, Remains, svVars, Ctrl
  <2>4. ReadsAndWrites(c)
    BY <1>2 DEF ReadsAndWrites, ClWrite, Messages
  <2> QED
    BY <1>1, <1>2, <2>3, <2>4, GoingOn, Shapes DEF ProtocolInv, ClientSockets, Sockets
<1>3. CASE ClWriteFails(c) /\ ClFail(c, "IESENDCOOKIE")
  BY <1>1, <1>3, Failing
<1> QED
  BY <1>2, <1>3 DEF ClCookie

(* The client's test is over: it sends TEST_END.                            *)
LEMMA EndsTest ==
  ASSUME ProtocolInv, NEW c \in Clients, UNCHANGED svVars, ClEnds(c)
  PROVE  ProtocolInv'
<1>1. cl_pc[c] = "select" /\ cl_state[c] = "TEST_RUNNING" /\ Live(c)
  BY DEF ClEnds, Running, Live
<1>2. CASE /\ ClWrite(c, "TEST_END") /\ ClGoesOn(c, "select")
           /\ cl_state' = [cl_state EXCEPT ![c] = "TEST_END"]
           /\ UNCHANGED <<cl_omitting, down>>
  <2>1. cl_pc'[c] = "select" /\ sv_end' = sv_end /\ cl_state'[c] = "TEST_END"
    BY <1>2, Shapes DEF ClGoesOn
  <2>2. up[Ctrl(c)] = <<>> => up'[Ctrl(c)] = <<"TEST_END">>
    BY <1>2, One, Shapes DEF ClWrite
  <2>3. Talks(c)'
    BY <1>1, <1>2, <2>1, <2>2
       DEF ProtocolInv, Conversation, Talks, Live, Alternates, AtFirst, AtParams, AtStreams,
           AtRunning, AtResults, AtDisplay, At, Remains, svVars, Ctrl
  <2>4. ReadsAndWrites(c)
    BY <1>2 DEF ReadsAndWrites, ClWrite, Messages, States
  <2> QED
    BY <1>1, <1>2, <2>1, <2>3, <2>4, GoingOn, Shapes
<1>3. CASE ClWriteFails(c) /\ ClFail(c, "IESENDMESSAGE")
  BY <1>1, <1>3, Failing
<1> QED
  BY <1>2, <1>3 DEF ClEnds

(* The client gets the server's results.                                    *)
LEMMA GetsResults ==
  ASSUME ProtocolInv, NEW c \in Clients, UNCHANGED svVars, ClGetsResults(c)
  PROVE  ProtocolInv'
<1> DEFINE d == down[Ctrl(c)]
<1>1. cl_pc[c] = "results" /\ Live(c)
  BY DEF ClGetsResults, Live
<1>2. CASE /\ NreadGot(d, "results")
           /\ down' = [down EXCEPT ![Ctrl(c)] = Tail(@)]
           /\ ClGoesOn(c, "select")
           /\ UNCHANGED <<cl_state, cl_omitting, up>>
  <2>1. cl_pc'[c] = "select" /\ sv_end' = sv_end /\ down'[Ctrl(c)] = Tail(d)
    BY <1>2, Shapes DEF ClGoesOn
  <2>2. d # <<>> /\ Head(d) = "results"
    BY <1>2 DEF NreadGot
  <2>3. /\ Tail(<<"results", "DISPLAY_RESULTS">>) = <<"DISPLAY_RESULTS">>
        /\ Tail(<<"results", "DISPLAY_RESULTS", "SERVER_TERMINATE">>) = <<"DISPLAY_RESULTS", "SERVER_TERMINATE">>
        /\ Head(ST) = "SERVER_TERMINATE"
    BY HT1, HT2, HT3 DEF ST
  <2>4. ASSUME sv_end[Ctrl(c)] = "open"
        PROVE /\ Ctrl(c) = sv_ctrl /\ sv_state = "DISPLAY_RESULTS" /\ cl_state[c] = "EXCHANGE_RESULTS"
              /\ down'[Ctrl(c)] = <<"DISPLAY_RESULTS">> /\ up[Ctrl(c)] = <<>>
    <3>1. Alternates(c)
      BY <1>1, <2>4 DEF ProtocolInv, Conversation, Talks
    <3>2. /\ Ctrl(c) = sv_ctrl /\ sv_state = "DISPLAY_RESULTS" /\ cl_state[c] = "EXCHANGE_RESULTS"
          /\ d = <<"results", "DISPLAY_RESULTS">> /\ up[Ctrl(c)] = <<>>
      BY <1>1, <2>2, <3>1 DEF Alternates, AtFirst, AtParams, AtStreams, AtRunning, AtResults, AtDisplay, At
    <3> QED
      BY <2>1, <2>3, <3>2
  <2>5. ASSUME sv_end[Ctrl(c)] # "open"
        PROVE /\ cl_state[c] = "EXCHANGE_RESULTS"
              /\ down'[Ctrl(c)] \in {<<"DISPLAY_RESULTS">>, <<"DISPLAY_RESULTS", "SERVER_TERMINATE">>}
    <3>1. Remains(c, d)
      BY <1>1, <2>5 DEF ProtocolInv, Conversation, Talks
    <3>2. cl_state[c] = "EXCHANGE_RESULTS"
          /\ d \in {ST, <<"results", "DISPLAY_RESULTS">>,
                    <<"results", "DISPLAY_RESULTS", "SERVER_TERMINATE">>}
      BY <1>1, <2>2, <3>1 DEF Remains
    <3> HIDE DEF d
    <3> QED
      BY <2>1, <2>2, <2>3, <3>2
  <2>6. Talks(c)'
    BY <1>2, <2>1, <2>4, <2>5 DEF Talks, Live, Alternates, AtDisplay, At, Remains, svVars, Ctrl
  <2>7. ReadsAndWrites(c)
    BY <1>2, <2>2 DEF ReadsAndWrites
  <2>8. cl_state'[c] \in {"0", "PARAM_EXCHANGE"} => cl_dialed[c] = 0
    BY <1>2 DEF ProtocolInv, ClientSockets, Sockets
  <2> QED
    BY <1>1, <1>2, <2>6, <2>7, <2>8, GoingOn, Shapes
<1>3. CASE ClFail(c, "IERECVRESULTS")
  BY <1>1, <1>3, Failing
<1> QED
  BY <1>2, <1>3 DEF ClGetsResults

(* DISPLAY_RESULTS: the client reports and sends IPERF_DONE.                *)
LEMMA Displays ==
  ASSUME ProtocolInv, NEW c \in Clients, UNCHANGED svVars, ClDisplays(c)
  PROVE  ProtocolInv'
<1>1. /\ cl_pc[c] = "select" /\ Live(c) /\ down[Ctrl(c)] # <<>>
      /\ Head(down[Ctrl(c)]) = "DISPLAY_RESULTS"
      /\ down' = [down EXCEPT ![Ctrl(c)] = Tail(@)]
      /\ cl_state' = [cl_state EXCEPT ![c] = "IPERF_DONE"]
      /\ ClWrite(c, "IPERF_DONE") \/ ClWriteFails(c)
      /\ ClExit(c, "OK")
  BY DEF ClDisplays, NreadGot, Live
<1>2. ReadsAndWrites(c)
  BY <1>1 DEF ReadsAndWrites, ClWrite, ClWriteFails, Messages, States
<1>3. cl_state'[c] = "IPERF_DONE" /\ down'[Ctrl(c)] = Tail(down[Ctrl(c)])
  BY <1>1, Shapes
<1>4. ASSUME sv_end[Ctrl(c)] = "open" PROVE Leaves(c)'
  <2>1. Follows(c, <<>>) /\ sv_state = "DISPLAY_RESULTS"
    BY <1>1, <1>3, <1>4, Reading
  <2>2. up'[Ctrl(c)] \in {<<>>, <<"IPERF_DONE">>}
    BY <1>1, <1>4, <2>1, One, Shapes DEF ClWrite, ClWriteFails, Follows
  <2> QED
    BY <1>4, <2>1, <2>2 DEF Follows, Leaves, Last, svVars, Ctrl
<1> QED
  BY <1>1, <1>2, <1>3, <1>4, Exiting

(* A message that ends the client.                                          *)
LEMMA Refused ==
  ASSUME ProtocolInv, NEW c \in Clients, UNCHANGED svVars, ClRefused(c)
  PROVE  ProtocolInv'
<1> DEFINE m == Head(down[Ctrl(c)])
<1>1. /\ m \notin {"PARAM_EXCHANGE", "CREATE_STREAMS", "TEST_START", "TEST_RUNNING",
                   "EXCHANGE_RESULTS", "DISPLAY_RESULTS", "IPERF_DONE"}
      /\ ClReads(c, m) /\ up' = up /\ ClExit(c, ErrnoOf(m)) /\ down[Ctrl(c)] # <<>>
  BY DEF ClRefused
<1>2. ReadsAndWrites(c) /\ Live(c) /\ cl_state'[c] = m /\ cl_pc[c] = "select"
  BY <1>1, Exchanged
<1>3. m \in Messages
  BY <1>1, Shapes
<1>4. cl_state'[c] \notin {"0", "PARAM_EXCHANGE"}
  BY <1>1, <1>2, <1>3 DEF Messages
<1>5. sv_end[Ctrl(c)] = "open" => Leaves(c)'
  BY <1>1, <1>2, Leaving
<1> QED
  BY <1>1, <1>2, <1>4, <1>5, Exiting

(* A signal to a client.                                                    *)
LEMMA Signalled ==
  ASSUME ProtocolInv, NEW c \in Clients, UNCHANGED svVars, ClSignal(c)
  PROVE  ProtocolInv'
<1>1. /\ Live(c) /\ cl_pc[c] # "end" /\ down' = down /\ ClExit(c, "IECLIENTTERM")
      /\ \/ /\ ClWrite(c, "CLIENT_TERMINATE")
            /\ cl_state' = [cl_state EXCEPT ![c] = "CLIENT_TERMINATE"]
         \/ UNCHANGED <<up, cl_state>>
  BY DEF ClSignal, Live
<1>2. ReadsAndWrites(c)
  BY <1>1 DEF ReadsAndWrites, ClWrite, Messages, States
<1>3. cl_state'[c] \in {"0", "PARAM_EXCHANGE"} => cl_dialed[c] = 0
  BY <1>1, Shapes DEF ProtocolInv, ClientSockets, Sockets
<1>4. up'[Ctrl(c)] = up[Ctrl(c)] \/ up'[Ctrl(c)] = Append(up[Ctrl(c)], "CLIENT_TERMINATE")
  BY <1>1, Shapes DEF ClWrite
<1>5. sv_end[Ctrl(c)] = "open" => Leaves(c)'
  BY <1>1, <1>4, Leaving
<1> QED
  BY <1>1, <1>2, <1>3, <1>5, Exiting

(* The client's omit period is over.                                        *)
LEMMA OmitTimer ==
  ASSUME ProtocolInv, NEW c \in Clients, UNCHANGED svVars, ClOmitTimer(c)
  PROVE  ProtocolInv'
<1>1. /\ UNCHANGED <<cl_pc, cl_state, cl_dialed, netVars>>
      /\ cl_omitting' = [cl_omitting EXCEPT ![c] = FALSE] /\ cl_pc[c] = "select"
  BY DEF ClOmitTimer, Running
<1>2. Touches(c)
  BY <1>1 DEF Touches, netVars
<1>3. NetTypeOK' /\ ClTypeOK'
  BY <1>1, Shapes DEF ProtocolInv, IperfTypeOK, NetTypeOK, ClTypeOK, netVars
<1>4. Sockets(c)'
  BY <1>1 DEF ProtocolInv, ClientSockets, Sockets, Live, netVars
<1>5. Talks(c)'
  <2>1. Talks(c) /\ UNCHANGED <<cl_pc, cl_state, up, down, sv_end, sv_ctrl, sv_pc, sv_state>>
    BY <1>1 DEF ProtocolInv, Conversation, netVars, svVars
  <2> QED
    BY <2>1 DEF Talks, Live, Ctrl, Alternates, AtFirst, AtParams, AtStreams, AtRunning, AtResults,
                AtDisplay, At, Remains, Leaves
<1> QED
  BY <1>1, <1>2, <1>3, <1>4, <1>5, ClientStep DEF Live

(* A client that makes its k-th connection.                                 *)
LEMMA Dialing ==
  ASSUME ProtocolInv, NEW c \in Clients, UNCHANGED <<svVars, sv_end, down, listening>>,
         NEW k \in 0 .. MAX_STREAMS, netdial(<<c, k>>), cl_pc[c] # "end",
         \A j \in k .. MAX_STREAMS : cl_end[<<c, j>>] = "none",
         up' = IF k = 0 THEN up ELSE [up EXCEPT ![<<c, k>>] = <<"cookie">>],
         NEW pc \in {"cookie", "select", "dial"}, cl_pc' = [cl_pc EXCEPT ![c] = pc],
         cl_state' = cl_state, cl_omitting' = cl_omitting,
         cl_dialed' = [cl_dialed EXCEPT ![c] = k],
         k # 0 => cl_dialed[c] = k - 1, k = 0 => cl_dialed[c] = 0,
         k # 0 /\ sv_end[Ctrl(c)] = "open" => Ctrl(c) = sv_ctrl /\ sv_pc \notin {"cookie", "params"},
         Sockets(c)', Talks(c)'
  PROVE  ProtocolInv'
<1> DEFINE n == <<c, k>>
<1>1. /\ n \in Conns /\ n[1] = c /\ n[2] = k /\ cl_end[n] = "none"
      /\ (k = 0) <=> (n = Ctrl(c))
  BY Connections DEF Ctrl
<1>2. \A m \in Conns : m[1] = c /\ cl_end[m] # "none" => m[2] < k
  <2>1. ASSUME NEW m \in Conns, m[1] = c, ~(m[2] < k) PROVE cl_end[m] = "none"
    <3>1. m = <<c, m[2]>> /\ m[2] \in 0 .. MAX_STREAMS
      BY <2>1, Connections
    <3>2. m[2] \in k .. MAX_STREAMS
      BY <2>1, <3>1, NetAssumption
    <3> QED
      BY <3>1, <3>2
  <2> QED
    BY <2>1
<1>3. /\ backlog \in Seq(Conns) /\ backlog' = Append(backlog, n) /\ listening
      /\ cl_end' = [cl_end EXCEPT ![n] = "open"]
  BY DEF netdial, ProtocolInv, IperfTypeOK, NetTypeOK
<1>4. up[n] = <<>> /\ sv_end[n] = "open" /\ n \notin Waiting \cup Streams \cup {sv_ctrl, sv_peer}
  BY <1>1 DEF ProtocolInv, NotMade
<1>5. /\ cl_end'[n] = "open" /\ cl_end' \in [Conns -> {"none", "open", "fin", "rst"}]
      /\ \A m \in Conns \ {n} : cl_end'[m] = cl_end[m]
  BY <1>1, <1>3, Shapes
<1>6. /\ up' \in [Conns -> Seq(Messages)] /\ up'[n] = IF k = 0 THEN <<>> ELSE <<"cookie">>
      /\ \A m \in Conns \ {n} : up'[m] = up[m]
  <2>1. <<"cookie">> \in Seq(Messages)
    BY DEF Messages
  <2> QED
    BY <1>1, <1>4, <2>1, Shapes
<1>7. /\ Len(backlog') = Len(backlog) + 1 /\ backlog' \in Seq(Conns)
      /\ \A i \in 1 .. Len(backlog) : backlog'[i] = backlog[i]
      /\ backlog'[Len(backlog) + 1] = n
      /\ DOMAIN backlog = 1 .. Len(backlog) /\ DOMAIN backlog' = 1 .. Len(backlog) + 1
      /\ Len(backlog) \in Nat
  BY <1>1, <1>3, AppendProperties, LenProperties
<1>8. Waiting' = Waiting \cup {n}
  <2>1. /\ Waiting = {backlog[i] : i \in 1 .. Len(backlog)}
        /\ Waiting' = {backlog'[i] : i \in 1 .. Len(backlog) + 1}
    BY <1>7 DEF Waiting
  <2> HIDE DEF n
  <2>2. \A i \in 1 .. Len(backlog) : i \in 1 .. Len(backlog) + 1
    BY <1>7
  <2>3. Waiting \cup {n} \subseteq Waiting'
    BY <1>7, <2>1, <2>2
  <2>4. \A i \in 1 .. Len(backlog) + 1 : i \in 1 .. Len(backlog) \/ i = Len(backlog) + 1
    BY <1>7
  <2>5. Waiting' \subseteq Waiting \cup {n}
    BY <1>7, <2>1, <2>4
  <2> QED
    BY <2>3, <2>5
<1>9. /\ cl_pc'[c] = pc /\ cl_dialed'[c] = k /\ cl_dialed' \in [Clients -> 0 .. MAX_STREAMS]
      /\ cl_pc' \in [Clients -> {"start", "cookie", "select", "dial", "results", "end"}]
      /\ \A d \in Clients \ {c} : cl_pc'[d] = cl_pc[d] /\ cl_dialed'[d] = cl_dialed[d]
  BY Shapes
<1>10. Waiting \subseteq Conns /\ Streams \subseteq Conns /\ sv_ctrl \in Conns \cup {NoConn} /\ sv_peer \in Conns \cup {NoConn}
  BY <1>3 DEF Waiting, Streams, ProtocolInv, IperfTypeOK, SvTypeOK
<1>11. UNCHANGED <<sv_pc, sv_state, sv_ctrl, sv_cookie, sv_stack, sv_peer, sv_streams,
                   sv_timer, sv_done, sv_open, refused, served>> /\ UNCHANGED <<Streams, client>>
  BY DEF svVars, Streams, client
<1>12. \A m \in Waiting \cup Streams \cup ({sv_ctrl, sv_peer} \ {NoConn}) :
         m \in Conns /\ m # n /\ cl_end[m] # "none" /\ up'[m] = up[m] /\ (m[1] = c => m[2] < k)
  BY <1>2, <1>4, <1>6, <1>10 DEF ProtocolInv, NotMade
<1> HIDE DEF n
<1>13. IperfTypeOK'
  BY <1>5, <1>6, <1>7, <1>9, <1>11, Shapes DEF ProtocolInv, IperfTypeOK, NetTypeOK, ClTypeOK, SvTypeOK
<1>14. ServerPlace'
  BY <1>11 DEF ProtocolInv, ServerPlace
<1>15. ClientSockets'
  <2>1. ASSUME NEW d \in Clients, d # c PROVE Sockets(d)'
    <3>1. Sockets(d) /\ cl_pc'[d] = cl_pc[d] /\ cl_state'[d] = cl_state[d] /\ cl_dialed'[d] = cl_dialed[d]
      BY <2>1, <1>9 DEF ProtocolInv, ClientSockets
    <3>2. \A m \in Own(d) : cl_end'[m] = cl_end[m]
      BY <2>1, <1>1, <1>5 DEF Own, Conns
    <3>3. Ctrl(d) \in Own(d) /\ \A i \in 1 .. MAX_STREAMS : <<d, i>> \in Own(d)
      BY NetAssumption DEF Own, Ctrl
    <3>4. /\ cl_end'[Ctrl(d)] = cl_end[Ctrl(d)]
          /\ \A i \in 1 .. MAX_STREAMS : cl_end'[<<d, i>>] = cl_end[<<d, i>>]
      BY <3>2, <3>3
    <3> QED
      BY <3>1, <3>2, <3>4 DEF Sockets, Live
  <2> QED
    BY <2>1 DEF ClientSockets
<1>16. NotMade'
  <2>1. ASSUME NEW m \in Conns, cl_end'[m] = "none" PROVE cl_end[m] = "none" /\ up'[m] = up[m] /\ m # n
    BY <2>1, <1>5, <1>6
  <2> QED
    BY <2>1, <1>8, <1>11 DEF ProtocolInv, NotMade
<1>17. InPlace'
  <2>1. \A m \in Waiting' : sv_end[m] = "open" /\ m \notin Streams \cup {sv_ctrl, sv_peer}
    BY <1>4, <1>8 DEF ProtocolInv, InPlace
  <2>2. ASSUME NEW i \in DOMAIN backlog', NEW j \in DOMAIN backlog', i < j, backlog'[i][1] = backlog'[j][1]
        PROVE  backlog'[i][2] < backlog'[j][2]
    <3>1. i \in DOMAIN backlog /\ backlog'[i] = backlog[i] /\ backlog[i] \in Waiting
      BY <2>2, <1>7 DEF Waiting
    <3>2. CASE j = Len(backlog) + 1
      BY <2>2, <3>1, <3>2, <1>1, <1>7, <1>12
    <3>3. CASE j \in DOMAIN backlog
      BY <2>2, <3>1, <3>3, <1>7 DEF ProtocolInv, InPlace
    <3> QED
      BY <3>2, <3>3, <1>7
  <2> QED
    BY <2>1, <2>2, <1>11 DEF ProtocolInv, InPlace
<1>18. CookieKnown'
  <2>1. Acquainted' => sv_ctrl' = Ctrl(client)' /\ sv_cookie' = client'
    BY <1>11 DEF ProtocolInv, CookieKnown, Acquainted, Ctrl
  <2>2. ASSUME sv_pc = "params", sv_cookie # client PROVE up'[sv_ctrl] = <<>> /\ cl_pc'[client] = "end"
    <3>1. up[sv_ctrl] = <<>> /\ cl_pc[client] = "end" /\ sv_ctrl # NoConn
      BY <2>2 DEF ProtocolInv, CookieKnown, ServerPlace
    <3>2. client \in Clients /\ client # c
      BY <3>1, <1>10, Connections DEF client
    <3> QED
      BY <3>1, <3>2, <1>9, <1>12
  <2> QED
    BY <2>1, <2>2, <1>11 DEF CookieKnown
<1>19. DataCookie'
  <2>1. ASSUME NEW m \in Conns, m[2] # 0,
               m \in Waiting' \/ m = sv_peer \/ (m = sv_ctrl /\ sv_pc = "cookie")
        PROVE  up'[m] = <<"cookie">>
    <3>1. CASE m = n
      BY <2>1, <3>1, <1>1, <1>6
    <3>2. CASE m # n
      BY <2>1, <3>2, <1>6, <1>8 DEF ProtocolInv, DataCookie
    <3> QED
      BY <3>1, <3>2
  <2>2. ASSUME NEW m \in Conns, m[2] # 0, m = sv_ctrl, sv_pc = "params" PROVE up'[m] = <<>>
    BY <2>2, <1>4, <1>6 DEF ProtocolInv, DataCookie
  <2> QED
    BY <2>1, <2>2, <1>11 DEF DataCookie
<1>20. ToldFirst'
  <2>1. ASSUME NEW d \in Clients, sv_end[Ctrl(d)] = "open",
               Ctrl(d) # sv_ctrl \/ sv_pc \in {"cookie", "params"}
        PROVE  cl_dialed'[d] = 0
    BY <2>1, <1>9 DEF ProtocolInv, ToldFirst
  <2> QED
    BY <2>1, <1>11 DEF ToldFirst, Ctrl
<1>21. Conversation'
  <2>1. ASSUME NEW d \in Clients, d # c PROVE Talks(d)'
    <3>1. Ctrl(d) \in Conns /\ Ctrl(d) # n
      BY <2>1, <1>1, Connections
    <3>2. /\ Talks(d) /\ cl_pc'[d] = cl_pc[d] /\ cl_state'[d] = cl_state[d]
          /\ up'[Ctrl(d)] = up[Ctrl(d)] /\ down'[Ctrl(d)] = down[Ctrl(d)]
      BY <2>1, <3>1, <1>6, <1>9 DEF ProtocolInv, Conversation
    <3> QED
      BY <3>2, <1>11 DEF Talks, Live, Ctrl, Alternates, AtFirst, AtParams, AtStreams, AtRunning, AtResults,
                  AtDisplay, At, Remains, Leaves
  <2> QED
    BY <2>1 DEF Conversation
<1>22. Arriving'
  <2> SUFFICES ASSUME sv_state = "CREATE_STREAMS" PROVE Arriving'
    BY <1>11 DEF Arriving
  <2>1. client \in Clients
    BY <1>10, Connections DEF ProtocolInv, ServerPlace, client
  <2>2. ASSUME NEW i \in 1 .. cl_dialed'[client] PROVE <<client, i>> \in Streams \cup Waiting' \cup {sv_peer}
    <3>1. CASE client = c /\ i = k
      BY <3>1, <1>8 DEF n
    <3>2. CASE ~(client = c /\ i = k)
      <4>1. i \in 1 .. cl_dialed[client]
        BY <2>1, <2>2, <3>2, <1>9, Shapes
      <4> QED
        BY <4>1, <1>8 DEF ProtocolInv, Arriving
    <3> QED
      BY <3>1, <3>2
  <2>3. ASSUME NEW m \in Streams, NEW w \in Waiting' \cup ({sv_peer} \ {NoConn}),
               m[1] = client, w[1] = client
        PROVE  m[2] < w[2]
    BY <2>3, <1>1, <1>8, <1>12 DEF ProtocolInv, Arriving
  <2>4. ASSUME NEW w \in Waiting', sv_peer # NoConn, sv_peer[1] = client, w[1] = client
        PROVE  sv_peer[2] < w[2]
    BY <2>4, <1>1, <1>8, <1>12 DEF ProtocolInv, Arriving
  <2> QED
    BY <2>2, <2>3, <2>4, <1>11 DEF Arriving
<1>23. StreamsAreTheClients'
  <2>1. \A i \in DOMAIN sv_streams : cl_end'[sv_streams[i]] = cl_end[sv_streams[i]]
    BY <1>5, <1>12 DEF Streams
  <2>2. StreamsAreTheClients /\ sv_streams' = sv_streams /\ client' = client
    BY <1>11 DEF ProtocolInv
  <2> QED
    BY <2>1, <2>2, SameStreams
<1>24. Remembered'
  <2>1. sv_stack \in Clients \cup {NoConn} /\ UNCHANGED sv_stack
    BY <1>11 DEF ProtocolInv, IperfTypeOK, SvTypeOK
  <2>2. k # 0 => k > 0
    OBVIOUS
  <2>3. \A d \in Clients : cl_dialed[d] > 0 => cl_dialed'[d] > 0
    BY <1>9, <2>2, Shapes
  <2> QED
    BY <2>1, <2>3 DEF ProtocolInv, Remembered, Ctrl
<1> QED
  BY <1>13, <1>14, <1>15, <1>16, <1>17, <1>18, <1>19, <1>20, <1>21, <1>22, <1>23, <1>24 DEF ProtocolInv

(* iperf_connect: the control connection is made.                           *)
LEMMA Dials ==
  ASSUME ProtocolInv, NEW c \in Clients, UNCHANGED svVars, ClDial(c)
  PROVE  ProtocolInv'
<1>1. /\ cl_pc[c] = "start" /\ netdial(<<c, 0>>) /\ cl_pc' = [cl_pc EXCEPT ![c] = "cookie"]
      /\ UNCHANGED <<cl_state, cl_dialed, cl_omitting, listening, up, down, sv_end>>
  BY DEF ClDial, Ctrl
<1>2. /\ cl_state[c] = "0" /\ cl_dialed[c] = 0 /\ cl_end[<<c, 0>>] = "none"
      /\ \A i \in 1 .. MAX_STREAMS : cl_end[<<c, i>>] = "none"
  BY <1>1 DEF ProtocolInv, ClientSockets, Sockets, Ctrl
<1>3. /\ up[Ctrl(c)] = <<>> /\ down[Ctrl(c)] = <<>> /\ sv_end[Ctrl(c)] = "open"
      /\ Ctrl(c) # sv_ctrl
  BY <1>2, Connections DEF ProtocolInv, NotMade, Ctrl
<1>4. cl_dialed' = [cl_dialed EXCEPT ![c] = 0]
  BY <1>1, <1>2, Shapes
<1>5. cl_pc'[c] = "cookie"
  BY <1>1, Shapes
<1>6. cl_end' = [cl_end EXCEPT ![Ctrl(c)] = "open"]
  BY <1>1 DEF netdial, Ctrl
<1>7. Sockets(c)'
  <2>1. cl_end'[Ctrl(c)] = "open" /\ \A i \in 1 .. MAX_STREAMS : cl_end'[<<c, i>>] = cl_end[<<c, i>>]
    BY <1>6, Shapes, NetAssumption, Connections DEF Ctrl
  <2> QED
    BY <1>1, <1>2, <1>5, <2>1 DEF Sockets, Live, Ctrl
<1>8. Talks(c)'
  BY <1>1, <1>2, <1>3, <1>5 DEF Talks, Live, Alternates, AtFirst, At, svVars, Ctrl
<1>9. \A j \in 0 .. MAX_STREAMS : cl_end[<<c, j>>] = "none"
  BY <1>2, NetAssumption
<1>10. 0 \in 0 .. MAX_STREAMS
  BY NetAssumption
<1> QED
  BY <1>1, <1>2, <1>4, <1>7, <1>8, <1>9, <1>10, Dialing

(* iperf_create_streams: a data connection is made.                         *)
LEMMA DialsStream ==
  ASSUME ProtocolInv, NEW c \in Clients, UNCHANGED svVars, ClDialsStream(c)
  PROVE  ProtocolInv'
<1> DEFINE k == cl_dialed[c] + 1
           pc == IF cl_dialed'[c] = Wanted(c) THEN "select" ELSE "dial"
<1>1. /\ cl_pc[c] = "dial" /\ netdial(<<c, k>>) /\ cl_pc' = [cl_pc EXCEPT ![c] = pc]
      /\ up' = [up EXCEPT ![<<c, k>>] = <<"cookie">>]
      /\ cl_dialed' = [cl_dialed EXCEPT ![c] = k]
      /\ UNCHANGED <<cl_state, cl_omitting, listening, down, sv_end>>
  BY DEF ClDialsStream
<1>2. /\ cl_dialed[c] \in 0 .. MAX_STREAMS /\ cl_dialed[c] < Wanted(c) /\ Live(c)
      /\ cl_end[Ctrl(c)] = "open"
      /\ \A i \in 1 .. MAX_STREAMS : i > cl_dialed[c] => cl_end[<<c, i>>] = "none"
  BY <1>1, Shapes DEF ProtocolInv, ClientSockets, Sockets, Live
<1>3. Wanted(c) \in 1 .. MAX_STREAMS
  BY OptionsAssumption, NetAssumption DEF Wanted
<1>4. k \in 1 .. MAX_STREAMS /\ k \in 0 .. MAX_STREAMS /\ cl_dialed[c] = k - 1
  BY <1>2, <1>3, NetAssumption
<1>5. cl_dialed'[c] = k /\ cl_pc'[c] = pc
  BY <1>1, Shapes
<1>6. cl_end' = [cl_end EXCEPT ![<<c, k>>] = "open"]
  BY <1>1 DEF netdial
<1>7. <<c, k>> \in Conns /\ <<c, k>> # Ctrl(c)
  BY <1>4, Connections DEF Ctrl
<1>8. cl_end'[Ctrl(c)] = "open" /\ up'[Ctrl(c)] = up[Ctrl(c)]
  BY <1>1, <1>2, <1>6, <1>7, Shapes
<1>9. cl_state[c] = "CREATE_STREAMS"
  BY <1>1, <1>2
     DEF ProtocolInv, Conversation, Talks, Alternates, AtFirst, AtParams, AtStreams,
         AtRunning, AtResults, AtDisplay, At, Remains
<1>10. ASSUME sv_end[Ctrl(c)] = "open"
       PROVE  /\ Ctrl(c) = sv_ctrl
              /\ \/ sv_state = "CREATE_STREAMS" /\ At(c, "dial", "CREATE_STREAMS", <<>>, <<>>)
                 \/ /\ sv_state = "TEST_RUNNING"
                    /\ At(c, "dial", "CREATE_STREAMS", <<"TEST_START", "TEST_RUNNING">>, <<>>)
  <2>1. Alternates(c)
    BY <1>2, <1>10 DEF ProtocolInv, Conversation, Talks
  <2> QED
    BY <1>1, <2>1 DEF Alternates, AtFirst, AtParams, AtStreams, AtRunning, AtResults, AtDisplay, At
<1>11. k # 0 /\ sv_end[Ctrl(c)] = "open" => Ctrl(c) = sv_ctrl /\ sv_pc \notin {"cookie", "params"}
  BY <1>10 DEF ProtocolInv, ServerPlace
<1>12. pc \in {"select", "dial"}
  OBVIOUS
<1>13. Talks(c)'
  <2>1. ASSUME sv_end[Ctrl(c)] = "open" PROVE Alternates(c)'
    BY <1>1, <1>5, <1>8, <1>10, <1>12, <2>1 DEF Alternates, AtStreams, AtRunning, At, svVars, Ctrl
  <2>2. ASSUME sv_end[Ctrl(c)] # "open" PROVE Remains(c, down[Ctrl(c)])'
    <3>1. Remains(c, down[Ctrl(c)])
      BY <1>2, <2>2 DEF ProtocolInv, Conversation, Talks
    <3> HIDE DEF pc
    <3> QED
      BY <1>1, <1>5, <1>9, <1>12, <3>1 DEF Remains, Ctrl
  <2> QED
    BY <1>1, <1>5, <1>12, <2>1, <2>2 DEF Talks, Live, Ctrl
<1>14. Sockets(c)'
  <2>1. \A i \in 1 .. MAX_STREAMS : i > k => cl_end'[<<c, i>>] = "none"
    <3>1. ASSUME NEW i \in 1 .. MAX_STREAMS, i > k PROVE cl_end'[<<c, i>>] = "none"
      <4>1. <<c, i>> \in Conns /\ <<c, i>> # <<c, k>> /\ i > cl_dialed[c]
        BY <3>1, <1>4, <1>2, Connections
      <4> QED
        BY <1>2, <1>6, <4>1, Shapes
    <3> QED
      BY <3>1
  <2>2. cl_pc'[c] = "dial" => cl_dialed'[c] < Wanted(c)
    BY <1>2, <1>3, <1>4, <1>5
  <2> QED
    BY <1>1, <1>5, <1>8, <1>9, <1>12, <2>1, <2>2 DEF Sockets, Live, Ctrl
<1>15. \A j \in k .. MAX_STREAMS : cl_end[<<c, j>>] = "none"
  BY <1>2, <1>4
<1>16. UNCHANGED <<svVars, sv_end, down, listening>> /\ cl_pc[c] # "end"
       /\ up' = IF k = 0 THEN up ELSE [up EXCEPT ![<<c, k>>] = <<"cookie">>]
  BY <1>1, <1>4
<1>17. (k # 0 => cl_dialed[c] = k - 1) /\ (k = 0 => cl_dialed[c] = 0)
  BY <1>4
<1> HIDE DEF k, pc
<1> QED
  BY <1>1, <1>4, <1>11, <1>12, <1>13, <1>14, <1>15, <1>16, <1>17, Dialing

(* Every step of a client keeps the invariant.                              *)
LEMMA ClientKeepsInv ==
  ASSUME ProtocolInv, NEW c \in Clients, ClStep(c) \/ ClSignal(c), UNCHANGED svVars
  PROVE  ProtocolInv'
<1>1. CASE ClDial(c)
  BY <1>1, Dials
<1>2. CASE ClDialFails(c)
  BY <1>2, Failing DEF ClDialFails
<1>3. CASE ClCookie(c)
  BY <1>3, SendsCookie
<1>4. CASE ClReadsEnd(c)
  BY <1>4, Failing DEF ClReadsEnd
<1>5. CASE ClSendsParams(c)
  BY <1>5, SendsParams
<1>6. CASE ClCreatesStreams(c) \/ ClStarts(c) \/ ClRuns(c)
  BY <1>6, ReadsOn
<1>7. CASE ClDialsStream(c)
  BY <1>7, DialsStream
<1>8. CASE ClDialsStreamFails(c)
  BY <1>8, Failing DEF ClDialsStreamFails
<1>9. CASE ClOmitTimer(c)
  BY <1>9, OmitTimer
<1>10. CASE ClEnds(c)
  BY <1>10, EndsTest
<1>11. CASE ClRcvTimeout(c)
  BY <1>11, Failing DEF ClRcvTimeout, Running
<1>12. CASE ClStreamError(c)
  BY <1>12, Failing DEF ClStreamError, Running
<1>13. CASE ClSendsResults(c)
  BY <1>13, SendsResults
<1>14. CASE ClGetsResults(c)
  BY <1>14, GetsResults
<1>15. CASE ClDisplays(c)
  BY <1>15, Displays
<1>16. CASE ClRefused(c)
  BY <1>16, Refused
<1>17. CASE ClSignal(c)
  BY <1>17, Signalled
<1> QED
  BY <1>1, <1>2, <1>3, <1>4, <1>5, <1>6, <1>7, <1>8, <1>9, <1>10, <1>11, <1>12, <1>13, <1>14,
     <1>15, <1>16, <1>17 DEF ClStep

---------------------------------------------------------------------------------
(* The steps of the server. Present are the connections that it has or that *)
(* wait for it; a step looks at no others.                                  *)
Present == Waiting \cup Streams \cup ({sv_ctrl, sv_peer} \ {NoConn})

(* What the types say of the server's connections.                          *)
LEMMA ServerShapes ==
  ASSUME ProtocolInv
  PROVE  /\ listening \in BOOLEAN /\ backlog \in Seq(Conns)
         /\ up \in [Conns -> Seq(Messages)] /\ down \in [Conns -> Seq(Messages)]
         /\ cl_end \in [Conns -> {"none", "open", "fin", "rst"}]
         /\ sv_end \in [Conns -> {"open", "fin", "rst"}]
         /\ Present \subseteq Conns /\ Waiting \subseteq Conns /\ Streams \subseteq Conns
         /\ sv_ctrl # NoConn => sv_ctrl \in Conns /\ client \in Clients
         /\ sv_peer # NoConn => sv_peer \in Conns
         /\ sv_streams \in Seq(Conns)
         /\ \A n \in Present : cl_end[n] # "none"
<1>1. /\ listening \in BOOLEAN /\ backlog \in Seq(Conns)
      /\ up \in [Conns -> Seq(Messages)] /\ down \in [Conns -> Seq(Messages)]
      /\ cl_end \in [Conns -> {"none", "open", "fin", "rst"}]
      /\ sv_end \in [Conns -> {"open", "fin", "rst"}]
  BY DEF ProtocolInv, IperfTypeOK, NetTypeOK
<1>2. sv_streams \in Seq(Conns) /\ sv_ctrl \in Conns \cup {NoConn} /\ sv_peer \in Conns \cup {NoConn}
  BY DEF ProtocolInv, IperfTypeOK, SvTypeOK
<1>3. Waiting \subseteq Conns /\ Streams \subseteq Conns
  BY <1>1, <1>2 DEF Waiting, Streams
<1>4. Present \subseteq Conns
  BY <1>2, <1>3 DEF Present
<1>5. \A n \in Present : cl_end[n] # "none"
  BY <1>4 DEF Present, ProtocolInv, NotMade
<1> QED
  BY <1>1, <1>2, <1>3, <1>4, <1>5, Connections DEF client

(* What SvClose(S) does.                                                    *)
LEMMA Closing ==
  ASSUME ProtocolInv, NEW S, SvClose(S)
  PROVE  /\ sv_end' \in [Conns -> {"open", "fin", "rst"}]
         /\ \A n \in Conns : sv_end'[n] = "open" <=> sv_end[n] = "open" /\ n \notin S
         /\ \A n \in Conns : n \notin S => sv_end'[n] = sv_end[n]
<1>1. sv_end' = [n \in Conns |->
                   IF n \in S /\ sv_end[n] = "open" THEN CloseKind(up'[n]) ELSE sv_end[n]]
  BY DEF SvClose
<1>2. \A n \in Conns : CloseKind(up'[n]) \in {"fin", "rst"}
  BY DEF CloseKind
<1> QED
  BY <1>1, <1>2, ServerShapes

(* A client that the server is not talking to.                              *)
LEMMA Bystander ==
  ASSUME ProtocolInv, NEW c \in Clients, UNCHANGED clVars,
         Ctrl(c) # sv_ctrl, Ctrl(c) # sv_ctrl' \/ sv_pc' = "cookie",
         sv_end'[Ctrl(c)] = "open" =>
           sv_end[Ctrl(c)] = "open" /\ up'[Ctrl(c)] = up[Ctrl(c)] /\ down'[Ctrl(c)] = down[Ctrl(c)],
         sv_end[Ctrl(c)] # "open" => down'[Ctrl(c)] = down[Ctrl(c)],
         down'[Ctrl(c)] \in {down[Ctrl(c)], Append(down[Ctrl(c)], "ACCESS_DENIED")}
  PROVE  Talks(c)'
<1>1. Talks(c) /\ cl_pc' = cl_pc /\ cl_state' = cl_state
  BY DEF ProtocolInv, Conversation, clVars
<1>2. ASSUME Live(c), sv_end'[Ctrl(c)] = "open" PROVE Alternates(c)'
  BY <1>1, <1>2 DEF Talks, Alternates, AtFirst, At, Ctrl
<1>3. ASSUME cl_pc[c] = "end", sv_end'[Ctrl(c)] = "open" PROVE Leaves(c)'
  BY <1>1, <1>3 DEF Talks, Leaves, Ctrl
<1>4. ASSUME Live(c), sv_end'[Ctrl(c)] # "open" PROVE Remains(c, down[Ctrl(c)])'
  <2>1. CASE sv_end[Ctrl(c)] # "open"
    BY <1>1, <1>4, <2>1 DEF Talks, Remains, Ctrl
  <2>2. CASE sv_end[Ctrl(c)] = "open"
    <3>1. AtFirst(c)
      BY <1>1, <1>4, <2>2 DEF Talks, Alternates
    <3>2. down'[Ctrl(c)] \in {<<>>, <<"ACCESS_DENIED">>}
      BY <3>1, One DEF AtFirst, At
    <3> QED
      BY <1>1, <3>1, <3>2 DEF AtFirst, At, Remains, Ctrl
  <2> QED
    BY <2>1, <2>2
<1> QED
  BY <1>1, <1>2, <1>3, <1>4 DEF Talks, Live, Ctrl

(* What a step of the server leaves alone.                                  *)
Handles ==
  /\ UNCHANGED <<clVars, cl_end>>
  /\ NetTypeOK' /\ SvTypeOK'
  /\ Waiting' \cup Streams' \cup ({sv_ctrl', sv_peer'} \ {NoConn}) \subseteq Present
  /\ \A n \in Conns \ Present : up'[n] = up[n] /\ down'[n] = down[n] /\ sv_end'[n] = sv_end[n]

(* A step of the server that takes no new connection leaves alone what the  *)
(* clients own.                                                             *)
LEMMA ServerFrame ==
  ASSUME ProtocolInv, Handles
  PROVE  IperfTypeOK' /\ ClientSockets' /\ NotMade'
<1>1. UNCHANGED <<cl_pc, cl_state, cl_dialed, cl_omitting, cl_errno, cl_end>>
  BY DEF Handles, clVars
<1>2. IperfTypeOK'
  BY <1>1 DEF Handles, IperfTypeOK, ProtocolInv, ClTypeOK
<1>3. ClientSockets'
  BY <1>1 DEF ProtocolInv, ClientSockets, Sockets, Live, Ctrl
<1>4. NotMade'
  <2>1. ASSUME NEW n \in Conns, cl_end'[n] = "none"
        PROVE  /\ up'[n] = <<>> /\ down'[n] = <<>> /\ sv_end'[n] = "open"
               /\ n \notin Waiting' \cup Streams' \cup {sv_ctrl', sv_peer'}
    <3>1. cl_end[n] = "none" /\ n # NoConn
      BY <1>1, <2>1, Connections
    <3>2. n \notin Present
      BY <3>1, ServerShapes
    <3>3. up[n] = <<>> /\ down[n] = <<>> /\ sv_end[n] = "open"
      BY <3>1 DEF ProtocolInv, NotMade
    <3> QED
      BY <3>1, <3>2, <3>3 DEF Handles
  <2> QED
    BY <2>1 DEF NotMade
<1> QED
  BY <1>2, <1>3, <1>4

(* The cookie that iperf_tcp_accept remembers does not change, or only the  *)
(* connections do.                                                          *)
LEMMA StillRemembered ==
  ASSUME ProtocolInv, UNCHANGED clVars, sv_stack' \in {sv_stack, NoConn},
         \A n \in Conns : sv_end'[n] = "open" => sv_end[n] = "open"
  PROVE  Remembered'
<1>1. sv_stack \in Clients \cup {NoConn} /\ cl_dialed' = cl_dialed /\ Remembered
  BY DEF clVars, ProtocolInv, IperfTypeOK, SvTypeOK
<1> QED
  BY <1>1, Connections DEF Remembered, Ctrl

(* The server ends a test: cleanup_server and iperf_reset_test.             *)
LEMMA Ending ==
  ASSUME ProtocolInv, UNCHANGED <<clVars, cl_end, refused, served>>, Cleanup, SvReset,
         sv_pc' \in {"down", "exited"}, sv_stack' \in Clients \cup {NoConn},
         sv_stack' \in {sv_stack, NoConn} \/ (sv_ctrl # NoConn /\ Ctrl(sv_stack') = sv_ctrl),
         up' \in [Conns -> Seq(Messages)], down' \in [Conns -> Seq(Messages)],
         \A n \in Conns \ {sv_ctrl, sv_peer} : up'[n] = up[n],
         \A n \in Conns \ {sv_ctrl} : down'[n] = down[n],
         \A c \in Clients : Live(c) /\ Ctrl(c) = sv_ctrl => Remains(c, down'[Ctrl(c)])
  PROVE  ProtocolInv'
<1>1. SvClose(Present) /\ backlog' = <<>> /\ listening' = FALSE
  <2>1. Present = Streams \cup ({sv_ctrl, sv_peer} \ {NoConn}) \cup {backlog[i] : i \in DOMAIN backlog}
    BY DEF Present, Waiting
  <2> QED
    BY <2>1 DEF Cleanup
<1>2. /\ sv_end' \in [Conns -> {"open", "fin", "rst"}]
      /\ \A n \in Conns : sv_end'[n] = "open" <=> sv_end[n] = "open" /\ n \notin Present
      /\ \A n \in Conns : n \notin Present => sv_end'[n] = sv_end[n]
  BY <1>1, Closing
<1>3. /\ sv_state' = "0" /\ sv_ctrl' = NoConn /\ sv_cookie' = NoConn /\ sv_peer' = NoConn
      /\ sv_streams' = <<>> /\ sv_timer' = FALSE /\ sv_done' = FALSE /\ sv_open' = TRUE
  BY DEF SvReset
<1>4. Waiting' = {} /\ Streams' = {}
  BY <1>1, <1>3 DEF Waiting, Streams
<1>5. \A n \in Conns \ Present : n # sv_ctrl /\ n # sv_peer
  BY Connections DEF Present
<1>6. NetTypeOK'
  <2>1. backlog' \in Seq(Conns)
    BY <1>1
  <2>2. cl_end' \in [Conns -> {"none", "open", "fin", "rst"}]
    BY ServerShapes
  <2> QED
    BY <1>1, <1>2, <2>1, <2>2 DEF NetTypeOK
<1>7. SvTypeOK'
  <2>1. sv_streams' \in Seq(Conns)
    BY <1>3
  <2>2. refused' \subseteq Clients /\ served' \subseteq Clients
    BY DEF ProtocolInv, IperfTypeOK, SvTypeOK
  <2> QED
    BY <1>3, <2>1, <2>2 DEF SvTypeOK, States
<1>8. Handles
  BY <1>2, <1>3, <1>4, <1>5, <1>6, <1>7 DEF Handles
<1>9. IperfTypeOK' /\ ClientSockets' /\ NotMade'
  BY <1>8, ServerFrame
<1>10. ServerPlace'
  BY <1>3 DEF ServerPlace
<1>11. InPlace'
  BY <1>1, <1>3, <1>4 DEF InPlace
<1>12. CookieKnown'
  BY <1>3 DEF CookieKnown, Acquainted
<1>13. DataCookie'
  BY <1>3, <1>4, Connections DEF DataCookie
<1>14. ToldFirst'
  <2>1. ASSUME NEW c \in Clients, sv_end'[Ctrl(c)] = "open" PROVE cl_dialed'[c] = 0
    <3>1. sv_end[Ctrl(c)] = "open" /\ Ctrl(c) # sv_ctrl
      BY <1>2, <1>5, <2>1, Connections
    <3> QED
      BY <3>1 DEF ProtocolInv, ToldFirst, clVars
  <2> QED
    BY <2>1 DEF ToldFirst, Ctrl
<1>15. Remembered'
  <2>1. CASE sv_stack' \in {sv_stack, NoConn}
    BY <1>2, <2>1, StillRemembered
  <2>2. CASE sv_ctrl # NoConn /\ Ctrl(sv_stack') = sv_ctrl
    <3>1. sv_end'[sv_ctrl] # "open"
      BY <1>2, <2>2, ServerShapes DEF Present
    <3> QED
      BY <2>2, <3>1 DEF Remembered, Ctrl
  <2> QED
    BY <2>1, <2>2
<1>16. Conversation'
  <2>1. ASSUME NEW c \in Clients PROVE Talks(c)'
    <3>1. CASE Ctrl(c) # sv_ctrl
      <4>1. Ctrl(c) \in Conns /\ Ctrl(c) # NoConn
        BY Connections
      <4>2. down'[Ctrl(c)] = down[Ctrl(c)]
        BY <3>1, <4>1
      <4>3. sv_end'[Ctrl(c)] = "open" => sv_end[Ctrl(c)] = "open" /\ up'[Ctrl(c)] = up[Ctrl(c)]
        BY <1>2, <1>5, <4>1
      <4> QED
        BY <1>3, <3>1, <4>1, <4>2, <4>3, Bystander
    <3>2. CASE Ctrl(c) = sv_ctrl
      <4>1. sv_end'[Ctrl(c)] # "open"
        BY <1>2, <3>2, Connections DEF Present
      <4>2. Live(c) => Remains(c, down[Ctrl(c)])'
        BY <3>2 DEF Remains, Ctrl, clVars
      <4> QED
        BY <4>1, <4>2 DEF Talks, Live, Ctrl, clVars
    <3> QED
      BY <3>1, <3>2
  <2> QED
    BY <2>1 DEF Conversation
<1>17. Arriving' /\ StreamsAreTheClients'
  BY <1>3 DEF Arriving, StreamsAreTheClients
<1> QED
  BY <1>9, <1>10, <1>11, <1>12, <1>13, <1>14, <1>15, <1>16, <1>17 DEF ProtocolInv

(* What is under way to a client may be the last it gets, with or without   *)
(* SERVER_TERMINATE behind it.                                              *)
LEMMA LastWord ==
  ASSUME ProtocolInv, NEW c \in Clients, Live(c)
  PROVE  /\ Remains(c, down[Ctrl(c)])
         /\ sv_end[Ctrl(c)] = "open" => Remains(c, down[Ctrl(c)] \o ST)
<1> DEFINE d == down[Ctrl(c)]
<1>1. CASE sv_end[Ctrl(c)] # "open"
  BY <1>1 DEF ProtocolInv, Conversation, Talks
<1>2. CASE sv_end[Ctrl(c)] = "open"
  <2>1. Alternates(c)
    BY <1>2 DEF ProtocolInv, Conversation, Talks
  <2>2. \/ cl_pc[c] \in {"cookie", "select"} /\ cl_state[c] = "0" /\ d \in {<<>>, <<"PARAM_EXCHANGE">>}
        \/ cl_pc[c] = "select" /\ cl_state[c] = "PARAM_EXCHANGE" /\ d \in {<<>>, <<"CREATE_STREAMS">>}
        \/ /\ cl_pc[c] \in {"dial", "select"} /\ cl_state[c] = "CREATE_STREAMS"
           /\ d \in {<<>>, <<"TEST_START", "TEST_RUNNING">>}
        \/ cl_pc[c] = "select" /\ cl_state[c] = "TEST_START" /\ d = <<"TEST_RUNNING">>
        \/ cl_pc[c] = "select" /\ cl_state[c] = "TEST_RUNNING" /\ d = <<>>
        \/ cl_pc[c] = "select" /\ cl_state[c] = "TEST_END" /\ d \in {<<>>, <<"EXCHANGE_RESULTS">>}
        \/ cl_pc[c] = "results" /\ cl_state[c] = "EXCHANGE_RESULTS" /\ d \in {<<>>, <<"results", "DISPLAY_RESULTS">>}
        \/ cl_pc[c] = "select" /\ cl_state[c] = "EXCHANGE_RESULTS" /\ d = <<"DISPLAY_RESULTS">>
    BY <2>1 DEF Alternates, AtFirst, AtParams, AtStreams, AtRunning, AtResults, AtDisplay, At
  <2>3. /\ <<>> \o ST = ST
        /\ \A a : <<a>> \o ST = <<a, "SERVER_TERMINATE">>
        /\ \A a, b : <<a, b>> \o ST = <<a, b, "SERVER_TERMINATE">>
    BY One, Two, Three DEF ST
  <2> HIDE DEF d
  <2>4. Remains(c, d)
    BY <2>2 DEF Remains
  <2>5. Remains(c, d \o ST)
    BY <2>2, <2>3 DEF Remains
  <2> QED
    BY <2>4, <2>5 DEF d
<1> QED
  BY <1>1, <1>2

(* The server ends a test after it has read at most one message from the    *)
(* control connection, and written nothing or a last word.                  *)
LEMMA EndsQuietly ==
  ASSUME ProtocolInv, UNCHANGED clVars, down' = down,
         \/ up' = up
         \/ /\ sv_ctrl # NoConn
            /\ up' = [up EXCEPT ![sv_ctrl] = IF @ = <<>> THEN @ ELSE Tail(@)],
         sv_stack' = sv_stack, (\E rc \in 0 .. 2 : Return(rc)) \/ ReturnUnauthorized
  PROVE  ProtocolInv'
<1>1. /\ UNCHANGED <<clVars, cl_end, refused, served>> /\ Cleanup /\ SvReset
      /\ sv_pc' \in {"down", "exited"}
  BY DEF Return, ReturnUnauthorized
<1>2. sv_stack' \in Clients \cup {NoConn}
  BY DEF ProtocolInv, IperfTypeOK, SvTypeOK
<1>3. up' \in [Conns -> Seq(Messages)] /\ \A n \in Conns \ {sv_ctrl, sv_peer} : up'[n] = up[n]
  <2>1. \A s \in Seq(Messages) : (IF s = <<>> THEN s ELSE Tail(s)) \in Seq(Messages)
    OBVIOUS
  <2>2. CASE up' = up
    BY <2>2, ServerShapes
  <2>3. CASE sv_ctrl # NoConn /\ up' = [up EXCEPT ![sv_ctrl] = IF @ = <<>> THEN @ ELSE Tail(@)]
    <3>1. sv_ctrl \in Conns /\ up \in [Conns -> Seq(Messages)]
      BY <2>3, ServerShapes
    <3>2. (IF up[sv_ctrl] = <<>> THEN up[sv_ctrl] ELSE Tail(up[sv_ctrl])) \in Seq(Messages)
      BY <2>1, <3>1
    <3> QED
      BY <2>3, <3>1, <3>2
  <2> QED
    BY <2>2, <2>3
<1>4. down' \in [Conns -> Seq(Messages)]
  BY ServerShapes
<1>5. \A c \in Clients : Live(c) /\ Ctrl(c) = sv_ctrl => Remains(c, down'[Ctrl(c)])
  BY LastWord
<1> QED
  BY <1>1, <1>2, <1>3, <1>4, <1>5, Ending

(* The server gives up a test without a last word.                          *)
LEMMA Quits ==
  ASSUME ProtocolInv, UNCHANGED clVars, NEW rc \in 0 .. 2, Quit(rc)
  PROVE  ProtocolInv'
BY EndsQuietly DEF Quit

(* A signal to the server: its client may be told SERVER_TERMINATE.         *)
LEMMA SignalsServer ==
  ASSUME ProtocolInv, UNCHANGED clVars, SvSignal
  PROVE  ProtocolInv'
<1>1. /\ UNCHANGED <<clVars, cl_end, refused, served>> /\ Cleanup /\ SvReset
      /\ sv_pc' \in {"down", "exited"} /\ up' = up /\ sv_stack' = sv_stack
  BY DEF SvSignal
<1>2. sv_stack' \in Clients \cup {NoConn}
  BY <1>1 DEF ProtocolInv, IperfTypeOK, SvTypeOK
<1>3. up' \in [Conns -> Seq(Messages)]
  BY <1>1, ServerShapes
<1>4. CASE down' = down
  <2>1. \A c \in Clients : Live(c) /\ Ctrl(c) = sv_ctrl => Remains(c, down'[Ctrl(c)])
    BY <1>4, LastWord
  <2>2. down' \in [Conns -> Seq(Messages)]
    BY <1>4, ServerShapes
  <2> QED
    BY <1>1, <1>2, <1>3, <1>4, <2>1, <2>2, Ending
<1>5. CASE sv_ctrl # NoConn /\ sv_open /\ SvWrite(<<"SERVER_TERMINATE">>)
  <2>1. down' = [down EXCEPT ![sv_ctrl] = @ \o ST] /\ sv_ctrl \in Conns
    BY <1>5, ServerShapes DEF SvWrite, ST
  <2>2. ST \in Seq(Messages)
    BY DEF ST, Messages
  <2>3. \A s \in Seq(Messages) : s \o ST \in Seq(Messages)
    BY <2>2
  <2>4. /\ down' \in [Conns -> Seq(Messages)] /\ down'[sv_ctrl] = down[sv_ctrl] \o ST
        /\ \A n \in Conns \ {sv_ctrl} : down'[n] = down[n]
    BY <2>1, <2>3, ServerShapes
  <2>5. sv_end[sv_ctrl] = "open"
    BY <1>5 DEF ProtocolInv, InPlace
  <2>6. \A c \in Clients : Live(c) /\ Ctrl(c) = sv_ctrl => Remains(c, down'[Ctrl(c)])
    BY <2>4, <2>5, LastWord
  <2> QED
    BY <1>1, <1>2, <1>3, <2>4, <2>6, Ending
<1> QED
  BY <1>4, <1>5 DEF SvSignal

(* The server takes the first connection that waits.                        *)
LEMMA TakesFirst ==
  ASSUME ProtocolInv, backlog # <<>>, backlog' = Tail(backlog)
  PROVE  /\ Head(backlog) \in Waiting /\ Head(backlog) \in Conns /\ backlog' \in Seq(Conns)
         /\ Waiting' \subseteq Waiting /\ Waiting \subseteq Waiting' \cup {Head(backlog)}
         /\ Head(backlog) \notin Waiting'
         /\ \A i, j \in DOMAIN backlog' :
              i < j /\ backlog'[i][1] = backlog'[j][1] => backlog'[i][2] < backlog'[j][2]
         /\ \A w \in Waiting' : w[1] = Head(backlog)[1] => Head(backlog)[2] < w[2]
<1> DEFINE n == Head(backlog)
           l == Len(backlog)
<1>1. backlog \in Seq(Conns)
  BY ServerShapes
<1>2. /\ backlog' \in Seq(Conns) /\ l \in Nat \ {0} /\ DOMAIN backlog = 1 .. l
      /\ DOMAIN backlog' = 1 .. l - 1 /\ n = backlog[1]
      /\ \A i \in 1 .. l - 1 : backlog'[i] = backlog[i + 1]
  BY <1>1
<1>3. /\ Waiting = {backlog[i] : i \in 1 .. l}
      /\ Waiting' = {backlog'[i] : i \in 1 .. l - 1}
  BY <1>2 DEF Waiting
<1>4. \A i, j \in 1 .. l : i < j /\ backlog[i][1] = backlog[j][1] => backlog[i][2] < backlog[j][2]
  BY <1>2 DEF ProtocolInv, InPlace
<1>5. \A i \in 1 .. l : backlog[i] \in Conns /\ backlog[i][2] \in Nat
  BY <1>1, <1>2, Connections
<1> HIDE DEF n, l
<1>6. n \in Waiting /\ n \in Conns
  BY <1>2, <1>3, <1>5
<1>7. Waiting' \subseteq Waiting
  <2>1. ASSUME NEW i \in 1 .. l - 1 PROVE i + 1 \in 1 .. l
    BY <1>2
  <2> QED
    BY <1>2, <1>3, <2>1
<1>8. ASSUME NEW w \in Waiting, w # n PROVE w \in Waiting'
  <2>1. PICK i \in 1 .. l : w = backlog[i]
    BY <1>3, <1>8
  <2>2. i - 1 \in 1 .. l - 1 /\ (i - 1) + 1 = i
    BY <1>2, <1>8, <2>1
  <2> QED
    BY <1>2, <1>3, <2>1, <2>2
<1>9. ASSUME NEW i \in 1 .. l - 1, NEW j \in 1 .. l - 1, i < j, backlog'[i][1] = backlog'[j][1]
      PROVE  backlog'[i][2] < backlog'[j][2]
  <2>1. i + 1 \in 1 .. l /\ j + 1 \in 1 .. l /\ i + 1 < j + 1
    BY <1>2, <1>9
  <2> QED
    BY <1>2, <1>4, <1>9, <2>1
<1>10. ASSUME NEW w \in Waiting', w[1] = n[1] PROVE n[2] < w[2]
  <2>1. PICK i \in 1 .. l - 1 : w = backlog'[i]
    BY <1>3, <1>10
  <2>2. i + 1 \in 1 .. l /\ 1 \in 1 .. l /\ 1 < i + 1 /\ w = backlog[i + 1]
    BY <1>2, <2>1
  <2> QED
    BY <1>2, <1>4, <1>10, <2>2
<1>11. n \notin Waiting'
  <2>1. n[2] \in Nat
    BY <1>2, <1>5
  <2> QED
    BY <1>10, <2>1
<1> QED
  BY <1>2, <1>6, <1>7, <1>8, <1>9, <1>10, <1>11 DEF n

(* iperf_server_listen.                                                     *)
LEMMA Listens ==
  ASSUME ProtocolInv, UNCHANGED clVars, SvListen
  PROVE  ProtocolInv'
<1>1. /\ sv_pc = "down" /\ sv_state = "0"
      /\ sv_pc' \in {"select", "exited"} /\ sv_state' = IF sv_pc' = "select" THEN "IPERF_START" ELSE "0"
      /\ listening' \in {TRUE, listening}
      /\ UNCHANGED <<sv_ctrl, sv_cookie, sv_stack, sv_peer, sv_streams, sv_timer, sv_done,
                     sv_open, refused, served, backlog, up, down, cl_end, sv_end>>
  BY DEF SvListen, ProtocolInv, ServerPlace
<1>2. sv_ctrl = NoConn /\ sv_peer = NoConn /\ sv_streams = <<>>
  BY <1>1 DEF ProtocolInv, ServerPlace
<1>3. Waiting' = Waiting /\ Streams' = Streams
  BY <1>1 DEF Waiting, Streams
<1>4. NetTypeOK' /\ SvTypeOK'
  BY <1>1 DEF ProtocolInv, IperfTypeOK, NetTypeOK, SvTypeOK, States
<1>5. IperfTypeOK' /\ ClientSockets' /\ NotMade'
  BY <1>1, <1>3, <1>4, ServerFrame DEF Handles, Present
<1>6. ServerPlace'
  BY <1>1, <1>2 DEF ProtocolInv, ServerPlace
<1>7. InPlace'
  BY <1>1, <1>3 DEF ProtocolInv, InPlace
<1>8. CookieKnown' /\ Arriving'
  BY <1>1, <1>2 DEF CookieKnown, Acquainted, Arriving
<1>9. DataCookie'
  BY <1>1, <1>2, <1>3, Connections DEF ProtocolInv, DataCookie
<1>10. ToldFirst'
  BY <1>1, <1>2, Connections DEF ProtocolInv, ToldFirst, Ctrl, clVars
<1>11. Remembered'
  BY <1>1, StillRemembered
<1>12. Conversation'
  BY <1>1, <1>2, Bystander, Connections DEF Conversation
<1>13. StreamsAreTheClients'
  BY <1>1, <1>2 DEF StreamsAreTheClients
<1> QED
  BY <1>5, <1>6, <1>7, <1>8, <1>9, <1>10, <1>11, <1>12, <1>13 DEF ProtocolInv

(* iperf_accept: a control connection.                                      *)
LEMMA Accepts ==
  ASSUME ProtocolInv, UNCHANGED clVars, SvAccept
  PROVE  ProtocolInv'
<1> DEFINE n == Head(backlog)
<1>1. /\ sv_pc = "select" /\ sv_open /\ backlog # <<>> /\ sv_state # "CREATE_STREAMS" /\ sv_ctrl = NoConn
      /\ sv_ctrl' = n /\ backlog' = Tail(backlog) /\ sv_pc' = "cookie"
      /\ UNCHANGED <<sv_state, sv_cookie, sv_stack, sv_peer, sv_streams, sv_timer, sv_done,
                     sv_open, refused, served, listening, up, down, cl_end, sv_end>>
  BY DEF SvAccept, Selecting
<1>2. /\ sv_state = "IPERF_START" /\ sv_peer = NoConn /\ sv_streams = <<>>
  BY <1>1 DEF ProtocolInv, ServerPlace
<1>3. Streams = {} /\ Streams' = {}
  BY <1>1, <1>2 DEF Streams
<1>4. /\ n \in Waiting /\ n \in Conns /\ backlog' \in Seq(Conns)
      /\ Waiting' \subseteq Waiting /\ n \notin Waiting'
      /\ \A i, j \in DOMAIN backlog' :
           i < j /\ backlog'[i][1] = backlog'[j][1] => backlog'[i][2] < backlog'[j][2]
  BY <1>1, TakesFirst
<1>5. n # NoConn /\ sv_end[n] = "open"
  BY <1>4, Connections DEF ProtocolInv, InPlace
<1> HIDE DEF n
<1>6. NetTypeOK' /\ SvTypeOK'
  BY <1>1, <1>4 DEF ProtocolInv, IperfTypeOK, NetTypeOK, SvTypeOK
<1>7. Handles
  BY <1>1, <1>2, <1>3, <1>4, <1>6 DEF Handles, Present
<1>8. IperfTypeOK' /\ ClientSockets' /\ NotMade'
  BY <1>7, ServerFrame
<1>9. ServerPlace'
  BY <1>1, <1>2, <1>5 DEF ProtocolInv, ServerPlace
<1>10. InPlace'
  BY <1>1, <1>2, <1>3, <1>4, <1>5 DEF ProtocolInv, InPlace
<1>11. CookieKnown' /\ Arriving'
  BY <1>1, <1>2 DEF CookieKnown, Acquainted, Arriving
<1>12. DataCookie'
  BY <1>1, <1>2, <1>4, Connections DEF ProtocolInv, DataCookie
<1>13. ToldFirst'
  BY <1>1, Connections DEF ProtocolInv, ToldFirst, Ctrl, clVars
<1>14. Remembered'
  BY <1>1, StillRemembered
<1>15. Conversation'
  BY <1>1, Bystander, Connections DEF Conversation
<1>16. StreamsAreTheClients'
  BY <1>1, <1>2 DEF StreamsAreTheClients
<1> QED
  BY <1>8, <1>9, <1>10, <1>11, <1>12, <1>13, <1>14, <1>15, <1>16 DEF ProtocolInv

(* Nread of one message from connection n, and a write to it.               *)
LEMMA ReadsOne ==
  ASSUME ProtocolInv, NEW n \in Conns, up' = [up EXCEPT ![n] = IF @ = <<>> THEN @ ELSE Tail(@)]
  PROVE  /\ up' \in [Conns -> Seq(Messages)] /\ \A k \in Conns \ {n} : up'[k] = up[k]
         /\ up[n] = <<>> => up'[n] = <<>>
         /\ \A a : up[n] = <<a>> => up'[n] = <<>>
         /\ \A a, b : up[n] = <<a, b>> => up'[n] = <<b>>
<1>1. up \in [Conns -> Seq(Messages)] /\ up[n] \in Seq(Messages)
  BY ServerShapes
<1>2. (IF up[n] = <<>> THEN up[n] ELSE Tail(up[n])) \in Seq(Messages)
  BY <1>1
<1>3. up'[n] = IF up[n] = <<>> THEN up[n] ELSE Tail(up[n])
  BY <1>1
<1>4. up' \in [Conns -> Seq(Messages)] /\ \A k \in Conns \ {n} : up'[k] = up[k]
  BY <1>1, <1>2
<1>5. ASSUME NEW a, up[n] = <<a>> PROVE up'[n] = <<>>
  BY <1>3, <1>5, HT1
<1>6. ASSUME NEW a, NEW b, up[n] = <<a, b>> PROVE up'[n] = <<b>>
  BY <1>3, <1>6, HT2
<1> QED
  BY <1>3, <1>4, <1>5, <1>6

(* The server writes to a client.                                           *)
LEMMA WritesTo ==
  ASSUME ProtocolInv, NEW n \in Conns, NEW m \in Seq(Messages), down' = [down EXCEPT ![n] = @ \o m]
  PROVE  /\ down' \in [Conns -> Seq(Messages)] /\ \A k \in Conns \ {n} : down'[k] = down[k]
         /\ down[n] = <<>> => down'[n] = m
<1>1. down \in [Conns -> Seq(Messages)] /\ down[n] \in Seq(Messages)
  BY ServerShapes
<1>2. down[n] \o m \in Seq(Messages)
  BY <1>1
<1>3. down' \in [Conns -> Seq(Messages)] /\ down'[n] = down[n] \o m
      /\ \A k \in Conns \ {n} : down'[k] = down[k]
  BY <1>1, <1>2
<1>4. down[n] = <<>> => down'[n] = m
  BY <1>3, ConcatEmptySeq
<1> QED
  BY <1>3, <1>4

(* What has come from the client on the connection of the server.           *)
LEMMA Arrived ==
  ASSUME ProtocolInv, sv_ctrl # NoConn, sv_ctrl = Ctrl(client), sv_open, sv_pc # "select" \/ sv_state # "IPERF_START"
  PROVE  /\ Ctrl(client) \in Conns /\ client \in Clients /\ sv_end[sv_ctrl] = "open"
         /\ \/ Live(client) /\ cl_end[sv_ctrl] = "open" /\ Alternates(client)
            \/ cl_pc[client] = "end" /\ cl_end[sv_ctrl] \in {"fin", "rst"} /\ Leaves(client)
<1>1. client \in Clients /\ Ctrl(client) \in Conns /\ sv_ctrl \in Present
  BY ServerShapes, Connections DEF Present
<1>2. sv_end[sv_ctrl] = "open"
  BY DEF ProtocolInv, InPlace
<1>3. cl_end[sv_ctrl] # "none" /\ cl_end[sv_ctrl] \in {"none", "open", "fin", "rst"}
  BY <1>1, ServerShapes
<1>4. cl_pc[client] # "start"
  BY <1>1, <1>3 DEF ProtocolInv, ClientSockets, Sockets
<1>5. Ctrl(client) \in Own(client)
  BY NetAssumption DEF Own, Ctrl
<1>6. CASE Live(client)
  BY <1>1, <1>2, <1>6 DEF ProtocolInv, ClientSockets, Sockets, Conversation, Talks
<1>7. CASE cl_pc[client] = "end"
  <2>1. cl_end[sv_ctrl] # "open"
    BY <1>1, <1>5, <1>7 DEF ProtocolInv, ClientSockets, Sockets
  <2>2. Leaves(client)
    BY <1>1, <1>2, <1>7 DEF ProtocolInv, Conversation, Talks
  <2> QED
    BY <1>1, <1>2, <1>3, <1>7, <2>1, <2>2
<1> QED
  BY <1>1, <1>2, <1>4, <1>6, <1>7 DEF Live

(* iperf_accept reads the cookie and sends PARAM_EXCHANGE.                  *)
LEMMA GetsCookie ==
  ASSUME ProtocolInv, UNCHANGED clVars, SvCookie
  PROVE  ProtocolInv'
<1>1. /\ sv_pc = "cookie" /\ NreadReturns(up[sv_ctrl], cl_end[sv_ctrl], "cookie")
      /\ up' = [up EXCEPT ![sv_ctrl] = IF @ = <<>> THEN @ ELSE Tail(@)]
      /\ UNCHANGED sv_stack
  BY DEF SvCookie
<1>2. sv_state = "IPERF_START" /\ sv_ctrl # NoConn /\ sv_peer = NoConn /\ sv_streams = <<>> /\ sv_open
      /\ sv_timer = FALSE
  BY <1>1 DEF ProtocolInv, ServerPlace, IperfTypeOK, SvTypeOK
<1>3. CASE SvWriteFails /\ Return(1)
  BY <1>1, <1>2, <1>3, EndsQuietly DEF SvWriteFails
<1>4. CASE /\ SvWrite(<<"PARAM_EXCHANGE">>)
           /\ sv_cookie' = IF NreadGot(up[sv_ctrl], "cookie") THEN client ELSE NoConn
           /\ sv_state' = "PARAM_EXCHANGE" /\ sv_pc' = "params"
           /\ UNCHANGED <<sv_ctrl, sv_peer, sv_streams, sv_timer, sv_done, sv_open,
                          refused, served, listening, backlog, cl_end, sv_end>>
  <2> DEFINE n == sv_ctrl
  <2>1. n \in Conns /\ client \in Clients /\ n[1] = client /\ n \in Present
    BY <1>2, ServerShapes DEF client, Present
  <2>2. <<"PARAM_EXCHANGE">> \in Seq(Messages)
    BY DEF Messages
  <2>3. /\ down' \in [Conns -> Seq(Messages)] /\ \A k \in Conns \ {n} : down'[k] = down[k]
        /\ down[n] = <<>> => down'[n] = <<"PARAM_EXCHANGE">>
    BY <1>4, <2>1, <2>2, WritesTo DEF SvWrite
  <2>4. /\ up' \in [Conns -> Seq(Messages)] /\ \A k \in Conns \ {n} : up'[k] = up[k]
        /\ up[n] = <<>> => up'[n] = <<>>
        /\ \A a : up[n] = <<a>> => up'[n] = <<>>
        /\ \A a, b : up[n] = <<a, b>> => up'[n] = <<b>>
    BY <1>1, <2>1, ReadsOne
  <2>5. Waiting' = Waiting /\ Streams' = Streams /\ client' = client /\ Streams = {}
    BY <1>2, <1>4 DEF Waiting, Streams, client
  <2>6. NetTypeOK' /\ SvTypeOK'
    BY <1>1, <1>4, <2>1, <2>3, <2>4 DEF ProtocolInv, IperfTypeOK, NetTypeOK, SvTypeOK, States, Messages
  <2>7. IperfTypeOK' /\ ClientSockets' /\ NotMade'
    BY <1>4, <2>1, <2>3, <2>4, <2>5, <2>6, ServerFrame DEF Handles, Present
  <2>8. ServerPlace'
    BY <1>2, <1>4 DEF ServerPlace
  <2>9. InPlace'
    BY <1>4, <2>5 DEF ProtocolInv, InPlace
  <2>10. ASSUME n[2] # 0 PROVE up[n] = <<"cookie">> /\ NreadGot(up[n], "cookie")
    BY <1>1, <2>1, <2>10, HT1 DEF ProtocolInv, DataCookie, NreadGot
  <2>11. ASSUME n[2] = 0
         PROVE  \/ /\ At(client, "select", "0", <<>>, <<"cookie">>) /\ Live(client)
                   /\ cl_pc[client] # "end"
                \/ cl_pc[client] = "end" /\ up[n] \in Last("cookie")
    <3>1. n = Ctrl(client)
      BY <2>1, <2>11, Connections
    <3>2. CASE Live(client) /\ cl_end[n] = "open" /\ Alternates(client)
      <4>1. AtFirst(client)
        BY <1>1, <1>2, <3>1, <3>2 DEF Alternates
      <4>2. up[n] # <<>>
        BY <1>1, <3>2 DEF NreadReturns
      <4> QED
        BY <3>1, <3>2, <4>1, <4>2 DEF AtFirst, At, Live
    <3>3. CASE cl_pc[client] = "end" /\ Leaves(client)
      BY <1>1, <1>2, <3>1, <3>3 DEF Leaves
    <3> QED
      BY <1>1, <1>2, <3>1, <3>2, <3>3, Arrived
  <2>12. CookieKnown'
    <3>1. ASSUME ~NreadGot(up[n], "cookie") PROVE up'[n] = <<>> /\ cl_pc[client] = "end"
      <4>1. n[2] = 0
        BY <2>10, <3>1
      <4>2. n = Ctrl(client)
        BY <2>1, <4>1, Connections
      <4>3. cl_pc[client] = "end" /\ up[n] \in Last("cookie")
        BY <2>11, <3>1, <4>1, <4>2, HT1 DEF At, NreadGot
      <4>4. up[n] \in {<<>>, <<"CLIENT_TERMINATE">>}
        BY <3>1, <4>3, HT1, HT2 DEF Last, NreadGot
      <4> QED
        BY <2>4, <4>3, <4>4
    <3> QED
      BY <1>4, <2>5, <3>1 DEF CookieKnown, Acquainted, clVars
  <2>13. DataCookie'
    <3>1. n \notin Waiting
      BY <1>2 DEF ProtocolInv, InPlace
    <3>2. \A k \in Waiting : k \in Conns /\ up'[k] = up[k]
      BY <2>4, <3>1, ServerShapes
    <3>3. n[2] # 0 => up'[n] = <<>>
      BY <2>4, <2>10
    <3> QED
      BY <1>2, <1>4, <2>5, <3>2, <3>3, Connections DEF ProtocolInv, DataCookie
  <2>14. ToldFirst'
    BY <1>1, <1>4 DEF ProtocolInv, ToldFirst, Ctrl, clVars
  <2>15. Remembered'
    BY <1>1, <1>4, StillRemembered
  <2>16. Conversation'
    <3>1. ASSUME NEW c \in Clients, Ctrl(c) # n PROVE Talks(c)'
      BY <1>4, <2>3, <2>4, <3>1, Bystander, Connections
    <3>2. ASSUME NEW c \in Clients, Ctrl(c) = n PROVE Talks(c)'
      <4>1. n[2] = 0 /\ c = client
        BY <2>1, <3>2, Connections
      <4>2. CASE At(c, "select", "0", <<>>, <<"cookie">>)
        <5>1. up'[n] = <<>> /\ down'[n] = <<"PARAM_EXCHANGE">> /\ cl_pc[c] = "select" /\ cl_state[c] = "0"
              /\ sv_end'[n] = "open"
          BY <1>2, <1>4, <2>3, <2>4, <3>2, <4>2 DEF At, ProtocolInv, InPlace
        <5>2. AtParams(c)'
          BY <3>2, <5>1, <1>4 DEF AtParams, At, clVars, Ctrl
        <5>3. Alternates(c)'
          BY <1>4, <3>2, <5>2 DEF Alternates, Ctrl
        <5> QED
          BY <1>4, <3>2, <5>1, <5>3 DEF Talks, Live, Ctrl, clVars
      <4>3. CASE cl_pc[c] = "end" /\ up[n] \in Last("cookie")
        <5>1. up'[n] \in {<<>>, <<"CLIENT_TERMINATE">>}
          BY <2>4, <4>3 DEF Last
        <5>2. Leaves(c)'
          BY <1>4, <3>2, <5>1 DEF Leaves, Last, Ctrl
        <5> QED
          BY <4>3, <5>2 DEF Talks, Live, clVars
      <4> QED
        BY <2>11, <4>1, <4>2, <4>3
    <3> QED
      BY <3>1, <3>2 DEF Conversation
  <2>17. Arriving' /\ StreamsAreTheClients'
    BY <1>2, <1>4 DEF Arriving, StreamsAreTheClients
  <2> QED
    BY <2>7, <2>8, <2>9, <2>12, <2>13, <2>14, <2>15, <2>16, <2>17 DEF ProtocolInv
<1> QED
  BY <1>1, <1>3, <1>4 DEF SvCookie

(* iperf_tcp_listen may open the listener again; who waits is then reset.   *)
LEMMA Reopens ==
  ASSUME ProtocolInv, NEW b \in BOOLEAN,
         IF b THEN ReopenListener ELSE UNCHANGED <<backlog, sv_end>>
  PROVE  /\ backlog' \in Seq(Conns) /\ Waiting' \subseteq Waiting
         /\ sv_end' \in [Conns -> {"open", "fin", "rst"}]
         /\ \A n \in Conns : sv_end'[n] = "open" => sv_end[n] = "open"
         /\ \A n \in Conns \ Waiting : sv_end'[n] = sv_end[n]
         /\ \A n \in Waiting' : sv_end'[n] = "open"
         /\ \A i, j \in DOMAIN backlog' :
              i < j /\ backlog'[i][1] = backlog'[j][1] => backlog'[i][2] < backlog'[j][2]
<1>1. CASE b
  <2>1. backlog' = <<>> /\ SvClose(Waiting)
    BY <1>1 DEF ReopenListener, Waiting
  <2>2. Waiting' = {} /\ backlog' \in Seq(Conns) /\ DOMAIN backlog' = {}
    BY <2>1 DEF Waiting
  <2> QED
    BY <2>1, <2>2, Closing
<1>2. CASE ~b
  <2>1. backlog' = backlog /\ sv_end' = sv_end /\ Waiting' = Waiting
    BY <1>2 DEF Waiting
  <2> QED
    BY <2>1, ServerShapes DEF ProtocolInv, InPlace
<1> QED
  BY <1>1, <1>2

(* Parameters come from the client whose cookie the server has.             *)
LEMMA ParamsCome ==
  ASSUME ProtocolInv, sv_pc = "params", NreadGot(up[sv_ctrl], "params")
  PROVE  /\ sv_ctrl = Ctrl(client) /\ sv_cookie = client /\ client \in Clients /\ sv_ctrl \in Conns
         /\ sv_ctrl \in Present /\ sv_ctrl # NoConn
         /\ sv_end[sv_ctrl] = "open" /\ sv_open /\ sv_peer = NoConn /\ sv_streams = <<>> /\ sv_timer = FALSE
         /\ \/ Live(client) /\ At(client, "select", "PARAM_EXCHANGE", <<>>, <<"params">>)
            \/ /\ cl_pc[client] = "end"
               /\ up[sv_ctrl] \in {<<"params">>, <<"params", "CLIENT_TERMINATE">>}
<1>1. /\ sv_ctrl # NoConn /\ sv_open /\ sv_peer = NoConn /\ sv_streams = <<>>
      /\ sv_state = "PARAM_EXCHANGE" /\ sv_timer = FALSE
  BY DEF ProtocolInv, ServerPlace, IperfTypeOK, SvTypeOK
<1>2. up[sv_ctrl] # <<>> /\ Head(up[sv_ctrl]) = "params"
  BY DEF NreadGot
<1>3. sv_ctrl \in Conns /\ client \in Clients /\ sv_ctrl[1] = client /\ sv_ctrl \in Present
  BY <1>1, ServerShapes DEF client, Present
<1>4. sv_ctrl[2] = 0
  BY <1>2, <1>3 DEF ProtocolInv, DataCookie
<1>5. sv_ctrl = Ctrl(client)
  BY <1>3, <1>4, Connections
<1>6. sv_cookie = client
  BY <1>2 DEF ProtocolInv, CookieKnown
<1>7. /\ sv_end[sv_ctrl] = "open"
      /\ \/ Live(client) /\ Alternates(client)
         \/ cl_pc[client] = "end" /\ Leaves(client)
  BY <1>1, <1>5, Arrived
<1>8. CASE Live(client) /\ Alternates(client)
  <2>1. AtParams(client)
    BY <1>1, <1>5, <1>8 DEF Alternates
  <2>2. At(client, "select", "PARAM_EXCHANGE", <<>>, <<"params">>)
    BY <1>2, <1>5, <2>1 DEF AtParams, At
  <2> QED
    BY <1>1, <1>3, <1>5, <1>6, <1>7, <1>8, <2>2
<1>9. CASE cl_pc[client] = "end" /\ Leaves(client)
  <2>1. up[sv_ctrl] \in Last("params")
    BY <1>1, <1>5, <1>9 DEF Leaves
  <2>2. up[sv_ctrl] \in {<<"params">>, <<"params", "CLIENT_TERMINATE">>}
    BY <1>2, <2>1, HT1 DEF Last
  <2> QED
    BY <1>1, <1>3, <1>5, <1>6, <1>7, <1>9, <2>2
<1> QED
  BY <1>7, <1>8, <1>9

(* iperf_exchange_parameters.                                               *)
LEMMA GetsParams ==
  ASSUME ProtocolInv, UNCHANGED clVars, SvParams
  PROVE  ProtocolInv'
<1>1. /\ sv_pc = "params" /\ UNCHANGED sv_stack
      /\ up' = [up EXCEPT ![sv_ctrl] = IF @ = <<>> THEN @ ELSE Tail(@)]
  BY DEF SvParams
<1>2. sv_ctrl # NoConn /\ sv_ctrl \in Conns /\ sv_ctrl \in Present
  BY <1>1, ServerShapes DEF ProtocolInv, ServerPlace, Present
<1>3. CASE (SvWriteFails \/ UNCHANGED down) /\ Return(1)
  <2>0. down' = down
    BY <1>3 DEF SvWriteFails
  <2>1. Return(1) /\ 1 \in 0 .. 2
    BY <1>3
  <2>2. \E rc \in 0 .. 2 : Return(rc)
    BY <2>1, Zenon
  <2> QED
    BY <1>1, <1>2, <2>0, <2>2, EndsQuietly
<1> DEFINE n == sv_ctrl
<1>4. /\ up' \in [Conns -> Seq(Messages)] /\ \A k \in Conns \ {n} : up'[k] = up[k]
      /\ \A a : up[n] = <<a>> => up'[n] = <<>>
      /\ \A a, b : up[n] = <<a, b>> => up'[n] = <<b>>
  BY <1>1, <1>2, ReadsOne
<1>5. CASE /\ NreadGot(up[sv_ctrl], "params") /\ SvWrite(<<"SERVER_ERROR">>)
           /\ Return(1) \/ ReturnUnauthorized
  <2>1. <<"SERVER_ERROR">> \in Seq(Messages)
    BY DEF Messages
  <2>2. /\ down' \in [Conns -> Seq(Messages)] /\ \A k \in Conns \ {n} : down'[k] = down[k]
        /\ down[n] = <<>> => down'[n] = <<"SERVER_ERROR">>
    BY <1>2, <1>5, <2>1, WritesTo DEF SvWrite
  <2>3. ASSUME NEW c \in Clients, Live(c), Ctrl(c) = n PROVE Remains(c, down'[Ctrl(c)])
    <3>1. c = client /\ cl_pc[c] # "end"
      BY <2>3, <1>1, <1>5, ParamsCome, Connections DEF Live
    <3>2. At(c, "select", "PARAM_EXCHANGE", <<>>, <<"params">>)
      BY <1>1, <1>5, <3>1, ParamsCome
    <3> QED
      BY <2>2, <2>3, <3>2 DEF At, Remains
  <2>4. sv_stack' \in Clients \cup {NoConn}
    BY <1>1 DEF ProtocolInv, IperfTypeOK, SvTypeOK
  <2> QED
    BY <1>1, <1>4, <1>5, <2>2, <2>3, <2>4, Ending DEF Return, ReturnUnauthorized
<1>6. CASE /\ NreadGot(up[sv_ctrl], "params")
           /\ SvWrite(<<"CREATE_STREAMS">>)
           /\ sv_state' = "CREATE_STREAMS" /\ sv_pc' = "select"
           /\ IF client \in reopen THEN ReopenListener ELSE UNCHANGED <<backlog, sv_end>>
           /\ UNCHANGED <<sv_ctrl, sv_cookie, sv_peer, sv_streams, sv_timer, sv_done,
                          sv_open, refused, served, listening, cl_end>>
  <2>1. /\ n = Ctrl(client) /\ sv_cookie = client /\ client \in Clients
        /\ sv_end[n] = "open" /\ sv_open /\ sv_peer = NoConn /\ sv_streams = <<>> /\ sv_timer = FALSE
        /\ \/ Live(client) /\ At(client, "select", "PARAM_EXCHANGE", <<>>, <<"params">>)
           \/ /\ cl_pc[client] = "end"
              /\ up[n] \in {<<"params">>, <<"params", "CLIENT_TERMINATE">>}
    BY <1>1, <1>6, ParamsCome
  <2>2. <<"CREATE_STREAMS">> \in Seq(Messages)
    BY DEF Messages
  <2>3. /\ down' \in [Conns -> Seq(Messages)] /\ \A k \in Conns \ {n} : down'[k] = down[k]
        /\ down[n] = <<>> => down'[n] = <<"CREATE_STREAMS">>
    BY <1>2, <1>6, <2>2, WritesTo DEF SvWrite
  <2>4. /\ backlog' \in Seq(Conns) /\ Waiting' \subseteq Waiting
        /\ sv_end' \in [Conns -> {"open", "fin", "rst"}]
        /\ \A k \in Conns : sv_end'[k] = "open" => sv_end[k] = "open"
        /\ \A k \in Conns \ Waiting : sv_end'[k] = sv_end[k]
        /\ \A k \in Waiting' : sv_end'[k] = "open"
        /\ \A i, j \in DOMAIN backlog' :
             i < j /\ backlog'[i][1] = backlog'[j][1] => backlog'[i][2] < backlog'[j][2]
    BY <1>6, Reopens
  <2>5. Streams' = Streams /\ client' = client /\ Streams = {}
    BY <1>6, <2>1 DEF Streams, client
  <2>6. n \notin Waiting
    BY <1>2 DEF ProtocolInv, InPlace
  <2>7. NetTypeOK' /\ SvTypeOK'
    BY <1>1, <1>4, <1>6, <2>3, <2>4 DEF ProtocolInv, IperfTypeOK, NetTypeOK, SvTypeOK, States, Messages
  <2>8. IperfTypeOK' /\ ClientSockets' /\ NotMade'
    BY <1>2, <1>4, <1>6, <2>3, <2>4, <2>5, <2>7, ServerFrame DEF Handles, Present
  <2>9. ServerPlace'
    BY <1>2, <1>6, <2>1 DEF ServerPlace
  <2>10. InPlace'
    BY <1>2, <1>6, <2>1, <2>4, <2>5, <2>6 DEF ProtocolInv, InPlace
  <2>11. CookieKnown'
    BY <1>6, <2>1, <2>5 DEF CookieKnown, Ctrl
  <2>12. DataCookie'
    <3>1. \A k \in Waiting' : k \in Conns /\ k \in Waiting /\ up'[k] = up[k]
      BY <1>4, <2>4, <2>6, ServerShapes
    <3> QED
      BY <1>6, <2>1, <3>1, Connections DEF ProtocolInv, DataCookie
  <2>13. ToldFirst'
    <3>1. ASSUME NEW c \in Clients, sv_end'[Ctrl(c)] = "open", Ctrl(c) # sv_ctrl PROVE cl_dialed'[c] = 0
      BY <2>4, <3>1, Connections DEF ProtocolInv, ToldFirst, clVars
    <3> QED
      BY <1>6, <3>1 DEF ToldFirst, Ctrl
  <2>14. Remembered'
    BY <1>1, <2>4, StillRemembered
  <2>15. Conversation'
    <3>1. ASSUME NEW c \in Clients, Ctrl(c) # n PROVE Talks(c)'
      <4>1. Ctrl(c) \in Conns
        BY Connections
      <4>2. up'[Ctrl(c)] = up[Ctrl(c)] /\ down'[Ctrl(c)] = down[Ctrl(c)]
        BY <1>4, <2>3, <3>1, <4>1
      <4> QED
        BY <1>6, <2>4, <3>1, <4>1, <4>2, Bystander
    <3>2. ASSUME NEW c \in Clients, Ctrl(c) = n PROVE Talks(c)'
      <4>1. c = client /\ sv_end'[n] = "open"
        BY <1>2, <2>1, <2>4, <2>6, <3>2, Connections
      <4>2. CASE At(c, "select", "PARAM_EXCHANGE", <<>>, <<"params">>)
        <5>1. up'[n] = <<>> /\ down'[n] = <<"CREATE_STREAMS">> /\ cl_pc[c] = "select" /\ cl_state[c] = "PARAM_EXCHANGE"
          BY <1>4, <2>3, <3>2, <4>2 DEF At
        <5>2. AtStreams(c)'
          BY <3>2, <5>1 DEF AtStreams, At, clVars, Ctrl
        <5>3. Alternates(c)'
          BY <1>6, <3>2, <5>2 DEF Alternates, Ctrl
        <5> QED
          BY <3>2, <4>1, <5>1, <5>3 DEF Talks, Live, Ctrl, clVars
      <4>3. CASE cl_pc[c] = "end" /\ up[n] \in {<<"params">>, <<"params", "CLIENT_TERMINATE">>}
        <5>1. up'[n] \in {<<>>, <<"CLIENT_TERMINATE">>}
          BY <1>4, <4>3
        <5>2. Leaves(c)'
          BY <1>6, <3>2, <5>1 DEF Leaves, Ctrl
        <5> QED
          BY <4>3, <5>2 DEF Talks, Live, clVars
      <4> QED
        BY <2>1, <4>1, <4>2, <4>3
    <3> QED
      BY <3>1, <3>2 DEF Conversation
  <2>16. Arriving'
    <3>1. cl_dialed[client] = 0
      BY <1>1, <2>1 DEF ProtocolInv, ToldFirst
    <3> QED
      BY <1>6, <2>1, <2>5, <3>1 DEF Arriving, clVars
  <2>17. StreamsAreTheClients'
    BY <1>6, <2>1 DEF StreamsAreTheClients
  <2> QED
    BY <2>8, <2>9, <2>10, <2>11, <2>12, <2>13, <2>14, <2>15, <2>16, <2>17 DEF ProtocolInv
<1> QED
  BY <1>3, <1>5, <1>6 DEF SvParams

(* iperf_accept: another client is sent ACCESS_DENIED.                      *)
LEMMA Denies ==
  ASSUME ProtocolInv, UNCHANGED clVars, SvDeny
  PROVE  ProtocolInv'
<1> DEFINE n == Head(backlog)
<1>1. /\ sv_pc = "select" /\ sv_open /\ backlog # <<>> /\ sv_state # "CREATE_STREAMS" /\ sv_ctrl # NoConn
      /\ backlog' = Tail(backlog) /\ up' = up
      /\ down' = [down EXCEPT ![n] = Append(@, "ACCESS_DENIED")]
      /\ SvClose({n}) /\ refused' = refused \cup {n[1]}
      /\ UNCHANGED <<sv_pc, sv_state, sv_ctrl, sv_cookie, sv_stack, sv_peer, sv_streams,
                     sv_timer, sv_done, sv_open, served, listening, cl_end>>
  BY DEF SvDeny, Selecting
<1>2. /\ n \in Waiting /\ n \in Conns /\ backlog' \in Seq(Conns)
      /\ Waiting' \subseteq Waiting /\ n \notin Waiting'
      /\ \A i, j \in DOMAIN backlog' :
           i < j /\ backlog'[i][1] = backlog'[j][1] => backlog'[i][2] < backlog'[j][2]
  BY <1>1, TakesFirst
<1> HIDE DEF n
<1>3. n # sv_ctrl /\ n # sv_peer /\ n \notin Streams /\ sv_end[n] = "open" /\ n[1] \in Clients
      /\ n \in Present
  BY <1>2, Connections DEF ProtocolInv, InPlace, Present
<1>4. /\ sv_end' \in [Conns -> {"open", "fin", "rst"}]
      /\ \A k \in Conns : sv_end'[k] = "open" <=> sv_end[k] = "open" /\ k \notin {n}
      /\ \A k \in Conns : k \notin {n} => sv_end'[k] = sv_end[k]
  BY <1>1, Closing
<1>5. /\ down' \in [Conns -> Seq(Messages)] /\ down'[n] = Append(down[n], "ACCESS_DENIED")
      /\ \A k \in Conns \ {n} : down'[k] = down[k]
  <2>1. Append(down[n], "ACCESS_DENIED") \in Seq(Messages)
    BY <1>2, ServerShapes DEF Messages
  <2> QED
    BY <1>1, <1>2, <2>1, ServerShapes
<1>6. Streams' = Streams /\ client' = client /\ Streams \subseteq Conns /\ Waiting \subseteq Conns
  BY <1>1, ServerShapes DEF Streams, client
<1>7. NetTypeOK' /\ SvTypeOK'
  BY <1>1, <1>2, <1>3, <1>4, <1>5 DEF ProtocolInv, IperfTypeOK, NetTypeOK, SvTypeOK
<1>8. IperfTypeOK' /\ ClientSockets' /\ NotMade'
  BY <1>1, <1>2, <1>3, <1>4, <1>5, <1>6, <1>7, ServerFrame DEF Handles, Present
<1>9. ServerPlace'
  BY <1>1, <1>6 DEF ProtocolInv, ServerPlace
<1>10. InPlace'
  <2>1. /\ \A k \in Waiting' : sv_end'[k] = "open" /\ k \notin Streams \cup {sv_ctrl, sv_peer}
        /\ sv_ctrl \in Conns /\ sv_end'[sv_ctrl] = sv_end[sv_ctrl]
        /\ sv_peer = NoConn
    BY <1>1, <1>2, <1>3, <1>4, <1>6, ServerShapes DEF ProtocolInv, InPlace, ServerPlace
  <2> QED
    BY <1>1, <1>2, <1>6, <2>1 DEF ProtocolInv, InPlace
<1>11. CookieKnown'
  BY <1>1, <1>6 DEF ProtocolInv, CookieKnown, Acquainted, Ctrl, clVars
<1>12. DataCookie'
  BY <1>1, <1>2 DEF ProtocolInv, DataCookie
<1>13. ToldFirst'
  BY <1>1, <1>4, Connections DEF ProtocolInv, ToldFirst, Ctrl, clVars
<1>14. Remembered'
  BY <1>1, <1>4, StillRemembered
<1>15. Conversation'
  <2>1. ASSUME NEW c \in Clients, Ctrl(c) # sv_ctrl PROVE Talks(c)'
    <3>1. Ctrl(c) \in Conns
      BY Connections
    <3>2. CASE Ctrl(c) = n
      BY <1>1, <1>3, <1>4, <1>5, <2>1, <3>1, <3>2, Bystander
    <3>3. CASE Ctrl(c) # n
      BY <1>1, <1>4, <1>5, <2>1, <3>1, <3>3, Bystander
    <3> QED
      BY <3>2, <3>3
  <2>2. ASSUME NEW c \in Clients, Ctrl(c) = sv_ctrl PROVE Talks(c)'
    <3>1. Talks(c) /\ down'[Ctrl(c)] = down[Ctrl(c)] /\ sv_end'[Ctrl(c)] = sv_end[Ctrl(c)]
          /\ UNCHANGED <<cl_pc, cl_state, up, sv_ctrl, sv_pc, sv_state>>
      BY <1>1, <1>3, <1>4, <1>5, <2>2, Connections DEF ProtocolInv, Conversation, clVars
    <3> QED
      BY <3>1 DEF Talks, Live, Ctrl, Alternates, AtFirst, AtParams, AtStreams, AtRunning, AtResults,
                  AtDisplay, At, Remains, Leaves
  <2> QED
    BY <2>1, <2>2 DEF Conversation
<1>16. Arriving'
  BY <1>1 DEF Arriving
<1>17. StreamsAreTheClients'
  BY <1>1, <1>6, SameStreams DEF ProtocolInv
<1> QED
  BY <1>8, <1>9, <1>10, <1>11, <1>12, <1>13, <1>14, <1>15, <1>16, <1>17 DEF ProtocolInv

(* iperf_tcp_accept: a connection while streams are created.                *)
LEMMA AcceptsStream ==
  ASSUME ProtocolInv, UNCHANGED clVars, SvAcceptStream
  PROVE  ProtocolInv'
<1> DEFINE n == Head(backlog)
<1>1. /\ sv_pc = "select" /\ sv_open /\ backlog # <<>> /\ sv_state = "CREATE_STREAMS"
      /\ sv_peer' = n /\ backlog' = Tail(backlog) /\ sv_pc' = "stream"
      /\ UNCHANGED <<sv_state, sv_ctrl, sv_cookie, sv_stack, sv_streams, sv_timer, sv_done,
                     sv_open, refused, served, listening, up, down, cl_end, sv_end>>
  BY DEF SvAcceptStream, Selecting
<1>2. /\ n \in Waiting /\ n \in Conns /\ backlog' \in Seq(Conns)
      /\ Waiting' \subseteq Waiting /\ Waiting \subseteq Waiting' \cup {n} /\ n \notin Waiting'
      /\ \A i, j \in DOMAIN backlog' :
           i < j /\ backlog'[i][1] = backlog'[j][1] => backlog'[i][2] < backlog'[j][2]
      /\ \A w \in Waiting' : w[1] = n[1] => n[2] < w[2]
  BY <1>1, TakesFirst
<1> HIDE DEF n
<1>3. n # sv_ctrl /\ n \notin Streams /\ sv_end[n] = "open" /\ n # NoConn
      /\ sv_peer = NoConn /\ sv_ctrl # NoConn
  BY <1>1, <1>2, Connections DEF ProtocolInv, InPlace, ServerPlace
<1>4. Streams' = Streams /\ client' = client
  BY <1>1 DEF Streams, client
<1>5. NetTypeOK' /\ SvTypeOK'
  BY <1>1, <1>2 DEF ProtocolInv, IperfTypeOK, NetTypeOK, SvTypeOK
<1>6. IperfTypeOK' /\ ClientSockets' /\ NotMade'
  BY <1>1, <1>2, <1>4, <1>5, ServerFrame DEF Handles, Present
<1>7. ServerPlace'
  BY <1>1, <1>3, <1>4 DEF ProtocolInv, ServerPlace
<1>8. InPlace'
  BY <1>1, <1>2, <1>3, <1>4 DEF ProtocolInv, InPlace
<1>9. CookieKnown'
  BY <1>1, <1>3, <1>4 DEF ProtocolInv, CookieKnown, Acquainted, Ctrl
<1>10. DataCookie'
  BY <1>1, <1>2 DEF ProtocolInv, DataCookie
<1>11. ToldFirst'
  BY <1>1 DEF ProtocolInv, ToldFirst, Ctrl, clVars
<1>12. Remembered'
  BY <1>1, StillRemembered
<1>13. Conversation'
  <2>1. ASSUME NEW c \in Clients PROVE Talks(c)'
    <3>1. /\ Talks(c) /\ UNCHANGED <<cl_pc, cl_state, up, down, sv_end, sv_ctrl, sv_state>>
          /\ sv_pc = "select" /\ sv_pc' = "stream"
      BY <1>1 DEF ProtocolInv, Conversation, clVars
    <3> QED
      BY <3>1 DEF Talks, Live, Ctrl, Alternates, AtFirst, AtParams, AtStreams, AtRunning, AtResults,
                  AtDisplay, At, Remains, Leaves
  <2> QED
    BY <2>1 DEF Conversation
<1>14. Arriving'
  <2>1. /\ \A i \in 1 .. cl_dialed[client] : <<client, i>> \in Streams \cup Waiting \cup {sv_peer}
        /\ \A m \in Streams, k \in Waiting \cup ({sv_peer} \ {NoConn}) :
             m[1] = client /\ k[1] = client => m[2] < k[2]
        /\ client \in Clients
    BY <1>1, <1>3, ServerShapes DEF ProtocolInv, Arriving
  <2>2. \A i \in 1 .. cl_dialed[client] : <<client, i>> \in Conns
    <3>1. cl_dialed[client] \in 0 .. MAX_STREAMS
      BY <2>1, Shapes
    <3>2. \A i \in 1 .. cl_dialed[client] : i \in 0 .. MAX_STREAMS
      BY <3>1, NetAssumption
    <3> QED
      BY <2>1, <3>2, Connections
  <2>3. \A i \in 1 .. cl_dialed[client] : <<client, i>> \in Streams \cup Waiting' \cup {n}
    BY <1>2, <1>3, <2>1, <2>2, Connections
  <2>4. \A m \in Streams, k \in Waiting' \cup ({n} \ {NoConn}) :
          m[1] = client /\ k[1] = client => m[2] < k[2]
    BY <1>2, <2>1
  <2>5. \A w \in Waiting' : n[1] = client /\ w[1] = client => n[2] < w[2]
    BY <1>2
  <2> QED
    BY <1>1, <1>4, <2>3, <2>4, <2>5 DEF Arriving, clVars
<1>15. StreamsAreTheClients'
  BY <1>1, <1>4, SameStreams DEF ProtocolInv
<1> QED
  BY <1>6, <1>7, <1>8, <1>9, <1>10, <1>11, <1>12, <1>13, <1>14, <1>15 DEF ProtocolInv

(* The connection that iperf_tcp_accept is looking at.                      *)
LEMMA Peer ==
  ASSUME ProtocolInv, sv_pc = "stream"
  PROVE  /\ sv_peer \in Conns /\ sv_peer \in Present /\ sv_end[sv_peer] = "open"
         /\ sv_peer \notin Streams \cup Waiting /\ sv_peer # sv_ctrl /\ sv_peer # NoConn
         /\ sv_ctrl # NoConn /\ sv_ctrl = Ctrl(client) /\ sv_cookie = client /\ client \in Clients
         /\ client # NoConn /\ sv_ctrl \in Conns
         /\ sv_state = "CREATE_STREAMS" /\ sv_open /\ sv_end[sv_ctrl] = "open" /\ sv_timer = FALSE
         /\ sv_peer[1] \in Clients /\ (sv_peer[1] = client => sv_peer[2] # 0)
         /\ sv_peer[2] = 0 => sv_peer = Ctrl(sv_peer[1])
         /\ sv_peer[2] # 0 =>
              /\ NreadGot(up[sv_peer], "cookie") /\ up[sv_peer] = <<"cookie">>
              /\ sv_peer[2] \in 1 .. cl_dialed[sv_peer[1]]
<1>1. /\ sv_state = "CREATE_STREAMS" /\ sv_open /\ sv_peer # NoConn /\ sv_ctrl # NoConn /\ sv_timer = FALSE
  BY DEF ProtocolInv, ServerPlace, IperfTypeOK, SvTypeOK
<1>2. /\ sv_peer \in Conns /\ sv_peer \in Present /\ sv_end[sv_peer] = "open"
      /\ sv_peer \notin Streams \cup Waiting /\ sv_peer # sv_ctrl /\ sv_end[sv_ctrl] = "open"
  BY <1>1, ServerShapes DEF ProtocolInv, InPlace, Present
<1>3. sv_ctrl = Ctrl(client) /\ sv_cookie = client /\ client \in Clients /\ client # NoConn /\ sv_ctrl \in Conns
  BY <1>1, ServerShapes, Connections DEF ProtocolInv, CookieKnown, Acquainted
<1>4. /\ sv_peer[1] \in Clients /\ sv_peer[2] \in 0 .. MAX_STREAMS /\ sv_peer = <<sv_peer[1], sv_peer[2]>>
      /\ sv_peer[2] = 0 => sv_peer = Ctrl(sv_peer[1])
  BY <1>2, Connections
<1>5. sv_peer[1] = client => sv_peer[2] # 0
  BY <1>2, <1>3, <1>4
<1>6. ASSUME sv_peer[2] # 0
      PROVE  /\ NreadGot(up[sv_peer], "cookie") /\ up[sv_peer] = <<"cookie">>
             /\ sv_peer[2] \in 1 .. cl_dialed[sv_peer[1]]
  <2>1. up[sv_peer] = <<"cookie">> /\ cl_end[sv_peer] # "none"
    BY <1>2, <1>6, ServerShapes DEF ProtocolInv, DataCookie
  <2>2. NreadGot(up[sv_peer], "cookie")
    BY <2>1, HT1 DEF NreadGot
  <2>3. sv_peer[2] \in 1 .. MAX_STREAMS /\ cl_dialed[sv_peer[1]] \in 0 .. MAX_STREAMS
    BY <1>4, <1>6, Shapes
  <2>4. ~(sv_peer[2] > cl_dialed[sv_peer[1]])
    BY <1>4, <2>1, <2>3 DEF ProtocolInv, ClientSockets, Sockets
  <2> QED
    BY <2>1, <2>2, <2>3, <2>4
<1> QED
  BY <1>1, <1>2, <1>3, <1>4, <1>5, <1>6

(* iperf_tcp_accept reads a cookie, or is left with an earlier one.         *)
LEMMA TakesCookie ==
  ASSUME ProtocolInv, sv_pc = "stream", NEW k \in CookieRead, SvTake(k),
         NreadReturns(up[sv_peer], cl_end[sv_peer], "cookie")
  PROVE  /\ up' \in [Conns -> Seq(Messages)] /\ \A n \in Conns \ {sv_peer} : up'[n] = up[n]
         /\ up[sv_peer] = <<>> => up'[sv_peer] = <<>>
         /\ \A a : up[sv_peer] = <<a>> => up'[sv_peer] = <<>>
         /\ sv_stack' = k /\ k \in Clients \cup {NoConn}
         /\ NreadGot(up[sv_peer], "cookie") => k = sv_peer[1]
         /\ ~NreadGot(up[sv_peer], "cookie") =>
              /\ k \in {NoConn, sv_stack} /\ cl_end[sv_peer] \in {"fin", "rst"} /\ sv_peer[2] = 0
<1>1. sv_peer \in Conns /\ sv_peer[1] \in Clients /\ (sv_peer[2] # 0 => NreadGot(up[sv_peer], "cookie"))
  BY Peer
<1>2. sv_stack' = k /\ up' = [up EXCEPT ![sv_peer] = IF @ = <<>> THEN @ ELSE Tail(@)]
  BY DEF SvTake
<1>3. /\ up' \in [Conns -> Seq(Messages)] /\ \A n \in Conns \ {sv_peer} : up'[n] = up[n]
      /\ up[sv_peer] = <<>> => up'[sv_peer] = <<>>
      /\ \A a : up[sv_peer] = <<a>> => up'[sv_peer] = <<>>
  BY <1>1, <1>2, ReadsOne
<1>4. sv_stack \in Clients \cup {NoConn}
  BY DEF ProtocolInv, IperfTypeOK, SvTypeOK
<1>5. CASE NreadGot(up[sv_peer], "cookie")
  BY <1>1, <1>2, <1>3, <1>5 DEF CookieRead
<1>6. CASE ~NreadGot(up[sv_peer], "cookie")
  BY <1>1, <1>2, <1>3, <1>4, <1>6 DEF CookieRead, NreadReturns, NreadGot
<1> QED
  BY <1>5, <1>6

(* A connection with another cookie is sent ACCESS_DENIED and closed.       *)
LEMMA DeniesStream ==
  ASSUME ProtocolInv, UNCHANGED clVars, SvDenyStream
  PROVE  ProtocolInv'
<1> DEFINE n == sv_peer
<1>1. /\ sv_pc = "stream" /\ NreadReturns(up[n], cl_end[n], "cookie")
      /\ down' = [down EXCEPT ![n] = Append(@, "ACCESS_DENIED")]
      /\ SvClose({n}) /\ refused' = refused \cup {n[1]}
      /\ sv_peer' = NoConn /\ sv_pc' = "select"
      /\ UNCHANGED <<sv_state, sv_ctrl, sv_cookie, sv_streams, sv_timer, sv_done, sv_open,
                     served, listening, backlog, cl_end>>
  BY DEF SvDenyStream
<1>2. PICK k \in CookieRead : k # sv_cookie /\ SvTake(k)
  BY DEF SvDenyStream
<1>3. /\ up' \in [Conns -> Seq(Messages)] /\ \A m \in Conns \ {n} : up'[m] = up[m]
      /\ sv_stack' = k /\ k \in Clients \cup {NoConn}
      /\ NreadGot(up[n], "cookie") => k = n[1]
      /\ ~NreadGot(up[n], "cookie") => k \in {NoConn, sv_stack} /\ n[2] = 0
  BY <1>1, <1>2, TakesCookie
<1>4. /\ n \in Conns /\ n \in Present /\ sv_end[n] = "open"
      /\ n \notin Streams \cup Waiting /\ n # sv_ctrl /\ n # NoConn
      /\ sv_ctrl # NoConn /\ sv_ctrl = Ctrl(client) /\ sv_cookie = client /\ client \in Clients
      /\ sv_state = "CREATE_STREAMS" /\ sv_ctrl \in Conns
      /\ n[1] \in Clients /\ (n[1] = client => n[2] # 0)
      /\ n[2] = 0 => n = Ctrl(n[1])
      /\ n[2] # 0 => NreadGot(up[n], "cookie") /\ n[2] \in 1 .. cl_dialed[n[1]]
  BY <1>1, Peer
<1>5. n[1] # client
  BY <1>2, <1>3, <1>4
<1> HIDE DEF n
<1>6. /\ sv_end' \in [Conns -> {"open", "fin", "rst"}]
      /\ \A m \in Conns : sv_end'[m] = "open" <=> sv_end[m] = "open" /\ m \notin {n}
      /\ \A m \in Conns : m \notin {n} => sv_end'[m] = sv_end[m]
  BY <1>1, Closing
<1>7. /\ down' \in [Conns -> Seq(Messages)] /\ down'[n] = Append(down[n], "ACCESS_DENIED")
      /\ \A m \in Conns \ {n} : down'[m] = down[m]
  <2>1. Append(down[n], "ACCESS_DENIED") \in Seq(Messages)
    BY <1>4, ServerShapes DEF Messages
  <2> QED
    BY <1>1, <1>4, <2>1, ServerShapes
<1>8. /\ Streams' = Streams /\ Waiting' = Waiting /\ client' = client
      /\ Streams \subseteq Conns /\ Waiting \subseteq Conns
  BY <1>1, ServerShapes DEF Streams, Waiting, client
<1>9. NetTypeOK' /\ SvTypeOK'
  BY <1>1, <1>3, <1>4, <1>6, <1>7 DEF ProtocolInv, IperfTypeOK, NetTypeOK, SvTypeOK
<1>10. IperfTypeOK' /\ ClientSockets' /\ NotMade'
  BY <1>1, <1>3, <1>4, <1>6, <1>7, <1>8, <1>9, ServerFrame DEF Handles, Present
<1>11. ServerPlace'
  BY <1>1, <1>4, <1>8 DEF ProtocolInv, ServerPlace
<1>12. InPlace'
  <2>1. /\ \A m \in Waiting : sv_end'[m] = "open" /\ m \notin Streams \cup {sv_ctrl, NoConn}
        /\ sv_end'[sv_ctrl] = sv_end[sv_ctrl]
    BY <1>4, <1>6, <1>8, Connections DEF ProtocolInv, InPlace
  <2> QED
    BY <1>1, <1>8, <2>1 DEF ProtocolInv, InPlace
<1>13. CookieKnown'
  BY <1>1, <1>4, <1>8 DEF CookieKnown, Acquainted, Ctrl
<1>14. DataCookie'
  <2> SUFFICES ASSUME NEW m \in Conns, m[2] # 0, m \in Waiting'
               PROVE  up'[m] = <<"cookie">>
    <3>1. \A m \in Conns : m # sv_peer' /\ sv_pc' = "select"
      BY <1>1, Connections, Zenon
    <3> QED
      BY <3>1 DEF DataCookie
  <2>1. m \in Waiting /\ m # n
    BY <1>4, <1>8, Zenon
  <2>2. up'[m] = up[m]
    BY <1>3, <2>1, Zenon
  <2>3. up[m] = <<"cookie">>
    BY <2>1, Zenon DEF ProtocolInv, DataCookie
  <2> QED
    BY <2>2, <2>3
<1>15. ToldFirst'
  BY <1>1, <1>6, Connections DEF ProtocolInv, ToldFirst, Ctrl, clVars
<1>16. Remembered'
  <2>1. CASE NreadGot(up[n], "cookie")
    <3>1. sv_stack' = n[1]
      BY <1>3, <2>1
    <3>2. CASE n[2] = 0
      <4>1. n = Ctrl(n[1]) /\ sv_end'[n] # "open"
        BY <1>4, <1>6, <3>2
      <4> QED
        BY <3>1, <4>1 DEF Remembered, Ctrl
    <3>3. CASE n[2] # 0
      <4>1. cl_dialed[n[1]] > 0
        BY <1>4, <3>3, Shapes
      <4> QED
        BY <3>1, <4>1 DEF Remembered, clVars
    <3> QED
      BY <3>2, <3>3
  <2>2. CASE ~NreadGot(up[n], "cookie")
    BY <1>3, <1>6, <2>2, StillRemembered
  <2> QED
    BY <2>1, <2>2
<1>17. Conversation'
  <2>1. ASSUME NEW c \in Clients, Ctrl(c) # sv_ctrl PROVE Talks(c)'
    <3>1. Ctrl(c) \in Conns
      BY Connections
    <3>2. CASE Ctrl(c) = n
      BY <1>1, <1>4, <1>6, <1>7, <2>1, <3>1, <3>2, Bystander
    <3>3. CASE Ctrl(c) # n
      BY <1>1, <1>3, <1>6, <1>7, <2>1, <3>1, <3>3, Bystander
    <3> QED
      BY <3>2, <3>3
  <2>2. ASSUME NEW c \in Clients, Ctrl(c) = sv_ctrl PROVE Talks(c)'
    <3>1. /\ Talks(c) /\ down'[Ctrl(c)] = down[Ctrl(c)] /\ sv_end'[Ctrl(c)] = sv_end[Ctrl(c)]
          /\ up'[Ctrl(c)] = up[Ctrl(c)] /\ UNCHANGED <<cl_pc, cl_state, sv_ctrl, sv_state>>
          /\ sv_pc = "stream" /\ sv_pc' = "select"
      BY <1>1, <1>3, <1>4, <1>6, <1>7, <2>2 DEF ProtocolInv, Conversation, clVars
    <3> QED
      BY <3>1 DEF Talks, Live, Ctrl, Alternates, AtFirst, AtParams, AtStreams, AtRunning, AtResults,
                  AtDisplay, At, Remains, Leaves
  <2> QED
    BY <2>1, <2>2 DEF Conversation
<1>18. Arriving'
  <2>1. /\ \A i \in 1 .. cl_dialed[client] : <<client, i>> \in Streams \cup Waiting \cup {n}
        /\ \A m \in Streams, w \in Waiting : m[1] = client /\ w[1] = client => m[2] < w[2]
    BY <1>4 DEF ProtocolInv, Arriving, n
  <2>2. \A i \in 1 .. cl_dialed[client] : <<client, i>> # n
    BY <1>5
  <2> QED
    BY <1>1, <1>8, <2>1, <2>2 DEF Arriving, clVars
<1>19. StreamsAreTheClients'
  BY <1>1, <1>8, SameStreams DEF ProtocolInv
<1> QED
  BY <1>10, <1>11, <1>12, <1>13, <1>14, <1>15, <1>16, <1>17, <1>18, <1>19 DEF ProtocolInv

(* One more stream.                                                         *)
LEMMA OneMore ==
  ASSUME ProtocolInv, NEW n \in Conns, sv_streams' = Append(sv_streams, n)
  PROVE  /\ sv_streams' \in Seq(Conns) /\ Len(sv_streams') = Len(sv_streams) + 1
         /\ sv_streams' # <<>> /\ Streams' = Streams \cup {n}
         /\ /\ client' = client /\ cl_end' = cl_end
            /\ IF n[1] = client
               THEN /\ n[2] # 0
                    /\ \A q \in 0 .. MAX_STREAMS : <<client, q>> \in Streams <=> q \in 1 .. n[2] - 1
               ELSE cl_end[n] \in {"fin", "rst"}
            => StreamsAreTheClients'
<1> DEFINE l == Len(sv_streams)
<1>1. sv_streams \in Seq(Conns)
  BY ServerShapes
<1>2. /\ l \in Nat /\ DOMAIN sv_streams = 1 .. l /\ DOMAIN sv_streams' = 1 .. l + 1
      /\ \A i \in 1 .. l : sv_streams'[i] = sv_streams[i]
      /\ sv_streams'[l + 1] = n /\ sv_streams' \in Seq(Conns) /\ Len(sv_streams') = l + 1
  BY <1>1
<1>3. Streams = {sv_streams[j] : j \in 1 .. l} /\ Streams' = {sv_streams'[j] : j \in 1 .. l + 1}
  BY <1>2 DEF Streams
<1> HIDE DEF l
<1>4. \A i \in 1 .. l + 1 : i \in 1 .. l \/ i = l + 1
  BY <1>2
<1>5. \A i \in 1 .. l : i \in 1 .. l + 1
  BY <1>2
<1>6. Streams' \subseteq Streams \cup {n} /\ Streams \subseteq Streams'
  BY <1>2, <1>3, <1>4, <1>5
<1>7. n \in Streams' /\ sv_streams' # <<>>
  BY <1>2, <1>3
<1>8. ASSUME client' = client, cl_end' = cl_end,
             IF n[1] = client
             THEN /\ n[2] # 0
                  /\ \A q \in 0 .. MAX_STREAMS : <<client, q>> \in Streams <=> q \in 1 .. n[2] - 1
             ELSE cl_end[n] \in {"fin", "rst"}
      PROVE  StreamsAreTheClients'
  <2>1. ASSUME NEW i \in 1 .. l
        PROVE  IF sv_streams'[i][1] = client'
               THEN /\ sv_streams'[i][2] # 0
                    /\ \A q \in 0 .. MAX_STREAMS :
                         <<client', q>> \in {sv_streams'[j] : j \in 1 .. i - 1} <=> q \in 1 .. sv_streams'[i][2] - 1
               ELSE cl_end'[sv_streams'[i]] \in {"fin", "rst"}
    <3>1. IF sv_streams[i][1] = client
          THEN /\ sv_streams[i][2] # 0
               /\ \A q \in 0 .. MAX_STREAMS :
                    <<client, q>> \in {sv_streams[j] : j \in 1 .. i - 1} <=> q \in 1 .. sv_streams[i][2] - 1
          ELSE cl_end[sv_streams[i]] \in {"fin", "rst"}
      BY <1>2, <2>1 DEF ProtocolInv, StreamsAreTheClients
    <3>2. sv_streams'[i] = sv_streams[i]
          /\ {sv_streams'[j] : j \in 1 .. i - 1} = {sv_streams[j] : j \in 1 .. i - 1}
      BY <1>2, <2>1
    <3> QED
      BY <1>8, <3>1, <3>2
  <2>2. {sv_streams'[j] : j \in 1 .. (l + 1) - 1} = Streams
    BY <1>2, <1>3
  <2>3. IF sv_streams'[l + 1][1] = client'
        THEN /\ sv_streams'[l + 1][2] # 0
             /\ \A q \in 0 .. MAX_STREAMS :
                  <<client', q>> \in {sv_streams'[j] : j \in 1 .. (l + 1) - 1}
                    <=> q \in 1 .. sv_streams'[l + 1][2] - 1
        ELSE cl_end'[sv_streams'[l + 1]] \in {"fin", "rst"}
    BY <1>2, <1>8, <2>2
  <2> QED
    BY <1>2, <1>4, <2>1, <2>3 DEF StreamsAreTheClients
<1> QED
  BY <1>2, <1>6, <1>7, <1>8 DEF l

(* A connection whose cookie is that of the test becomes a stream.          *)
LEMMA Joins ==
  ASSUME ProtocolInv, sv_pc = "stream", \E k \in CookieRead : k = sv_cookie /\ SvTake(k),
         NreadReturns(up[sv_peer], cl_end[sv_peer], "cookie")
  PROVE  /\ up' \in [Conns -> Seq(Messages)] /\ \A n \in Conns \ {sv_peer} : up'[n] = up[n]
         /\ sv_stack' = client /\ cl_dialed[client] > 0
         /\ \A c \in Clients : Ctrl(c) = sv_peer => cl_pc[c] = "end" /\ up'[sv_peer] = <<>>
         /\ IF sv_peer[1] = client
            THEN /\ sv_peer[2] # 0
                 /\ \A q \in 0 .. MAX_STREAMS : <<client, q>> \in Streams <=> q \in 1 .. sv_peer[2] - 1
            ELSE cl_end[sv_peer] \in {"fin", "rst"}
<1> DEFINE n == sv_peer
<1>1. PICK k \in CookieRead : k = sv_cookie /\ SvTake(k)
  OBVIOUS
<1>2. /\ up' \in [Conns -> Seq(Messages)] /\ \A m \in Conns \ {n} : up'[m] = up[m]
      /\ up[n] = <<>> => up'[n] = <<>>
      /\ \A a : up[n] = <<a>> => up'[n] = <<>>
      /\ sv_stack' = k /\ k \in Clients \cup {NoConn}
      /\ NreadGot(up[n], "cookie") => k = n[1]
      /\ ~NreadGot(up[n], "cookie") =>
           k \in {NoConn, sv_stack} /\ cl_end[n] \in {"fin", "rst"} /\ n[2] = 0
  BY <1>1, TakesCookie
<1>3. /\ n \in Conns /\ sv_end[n] = "open" /\ n \notin Streams \cup Waiting /\ n # sv_ctrl /\ n # NoConn
      /\ sv_ctrl # NoConn /\ sv_ctrl = Ctrl(client) /\ sv_cookie = client /\ client \in Clients
      /\ client # NoConn /\ sv_end[sv_ctrl] = "open"
      /\ sv_state = "CREATE_STREAMS"
      /\ n[1] \in Clients /\ (n[1] = client => n[2] # 0)
      /\ n[2] = 0 => n = Ctrl(n[1])
      /\ n[2] # 0 => NreadGot(up[n], "cookie") /\ n[2] \in 1 .. cl_dialed[n[1]]
  BY Peer
<1>4. k = client
  BY <1>1, <1>3
<1>5. cl_dialed[client] \in 0 .. MAX_STREAMS
  BY <1>3, Shapes
<1>6. CASE NreadGot(up[n], "cookie")
  <2>1. n[1] = client /\ n[2] # 0 /\ n[2] \in 1 .. cl_dialed[client]
    BY <1>2, <1>3, <1>4, <1>6
  <2>2. cl_dialed[client] > 0 /\ n[2] \in Nat
    BY <1>5, <2>1
  <2>3. \A c \in Clients : Ctrl(c) # n
    BY <2>1, Connections
  <2>4. /\ \A i \in 1 .. cl_dialed[client] : <<client, i>> \in Streams \cup Waiting \cup {n}
        /\ \A m \in Streams : m[1] = client => m[2] < n[2]
        /\ \A w \in Waiting : w[1] = client => n[2] < w[2]
    BY <1>3, <2>1 DEF ProtocolInv, Arriving
  <2>5. ASSUME NEW m \in Streams, m[1] = client PROVE m[2] # 0
    BY <2>5 DEF ProtocolInv, StreamsAreTheClients, Streams
  <2> HIDE DEF n
  <2>6. ASSUME NEW q \in 0 .. MAX_STREAMS PROVE <<client, q>> \in Streams <=> q \in 1 .. n[2] - 1
    <3>1. <<client, q>>[1] = client /\ <<client, q>>[2] = q
      BY <1>3, <2>6, Connections
    <3>2. <<client, q>> \in Streams => q \in 1 .. n[2] - 1
      BY <2>2, <2>4, <2>5, <2>6, <3>1
    <3>3. ASSUME q \in 1 .. n[2] - 1 PROVE <<client, q>> \in Streams
      <4>1. q \in 1 .. cl_dialed[client] /\ q < n[2] /\ ~(n[2] < q) /\ q # n[2]
        BY <1>5, <2>1, <2>2, <3>3
      <4> QED
        BY <2>4, <3>1, <4>1
    <3> QED
      BY <3>2, <3>3
  <2> QED
    BY <1>2, <1>4, <2>1, <2>2, <2>3, <2>6 DEF n
<1>7. CASE ~NreadGot(up[n], "cookie")
  <2>1. n[2] = 0 /\ n = Ctrl(n[1]) /\ n[1] # client /\ cl_end[n] \in {"fin", "rst"} /\ sv_stack = client
    BY <1>2, <1>3, <1>4, <1>7
  <2>2. cl_dialed[client] > 0
    BY <1>3, <2>1 DEF ProtocolInv, Remembered
  <2>3. ASSUME NEW c \in Clients, Ctrl(c) = n PROVE cl_pc[c] = "end" /\ up'[n] = <<>>
    <3>1. ~Live(c) /\ cl_pc[c] # "start"
      BY <2>1, <2>3 DEF ProtocolInv, ClientSockets, Sockets
    <3>2. cl_pc[c] = "end"
      BY <3>1 DEF Live
    <3>3. Leaves(c) /\ Ctrl(c) # sv_ctrl
      BY <1>3, <2>3, <3>2 DEF ProtocolInv, Conversation, Talks
    <3>4. up[n] \in Last("cookie")
      BY <2>3, <3>3 DEF Leaves
    <3>5. up[n] \in {<<>>, <<"CLIENT_TERMINATE">>}
      BY <1>7, <3>4, HT1, HT2 DEF Last, NreadGot
    <3> QED
      BY <1>2, <3>2, <3>5
  <2> QED
    BY <1>2, <1>4, <2>1, <2>2, <2>3
<1> QED
  BY <1>6, <1>7

(* A connection with the cookie of the test becomes a stream, maybe the     *)
(* last one.                                                                *)
LEMMA AddsStream ==
  ASSUME ProtocolInv, UNCHANGED clVars, SvAddStream
  PROVE  ProtocolInv'
<1> DEFINE n == sv_peer
<1>1. /\ sv_pc = "stream" /\ NreadReturns(up[n], cl_end[n], "cookie")
      /\ \E k \in CookieRead : k = sv_cookie /\ SvTake(k)
      /\ sv_streams' = Append(sv_streams, n)
      /\ sv_peer' = NoConn /\ sv_pc' = "select"
      /\ UNCHANGED <<sv_state, sv_ctrl, sv_cookie, sv_timer, sv_done, sv_open,
                     refused, served, listening, backlog, down, cl_end, sv_end>>
  BY DEF SvAddStream
<1>2. /\ up' \in [Conns -> Seq(Messages)] /\ \A m \in Conns \ {n} : up'[m] = up[m]
      /\ sv_stack' = client /\ cl_dialed[client] > 0
      /\ \A c \in Clients : Ctrl(c) = n => cl_pc[c] = "end" /\ up'[n] = <<>>
      /\ IF n[1] = client
         THEN /\ n[2] # 0
              /\ \A q \in 0 .. MAX_STREAMS : <<client, q>> \in Streams <=> q \in 1 .. n[2] - 1
         ELSE cl_end[n] \in {"fin", "rst"}
  BY <1>1, Joins
<1>3. /\ n \in Conns /\ n \in Present /\ sv_end[n] = "open"
      /\ n \notin Streams \cup Waiting /\ n # sv_ctrl /\ n # NoConn
      /\ sv_ctrl # NoConn /\ sv_ctrl = Ctrl(client) /\ sv_cookie = client /\ client \in Clients
      /\ sv_state = "CREATE_STREAMS" /\ sv_ctrl \in Conns /\ sv_open /\ sv_timer = FALSE
  BY <1>1, Peer
<1>4. Waiting' = Waiting /\ client' = client /\ Waiting \subseteq Conns
  BY <1>1, ServerShapes DEF Waiting, client
<1>5. /\ sv_streams' \in Seq(Conns) /\ sv_streams' # <<>> /\ Streams' = Streams \cup {n}
      /\ StreamsAreTheClients'
  <2>1. client' = client /\ cl_end' = cl_end
    BY <1>1, <1>4
  <2> QED
    BY <1>1, <1>2, <1>3, <2>1, OneMore
<1> HIDE DEF n
<1>6. NetTypeOK' /\ SvTypeOK'
  BY <1>1, <1>2, <1>3, <1>5 DEF ProtocolInv, IperfTypeOK, NetTypeOK, SvTypeOK
<1>7. Handles
  BY <1>1, <1>2, <1>3, <1>4, <1>5, <1>6 DEF Handles, Present
<1>8. IperfTypeOK' /\ ClientSockets' /\ NotMade'
  BY <1>7, ServerFrame
<1>9. ServerPlace'
  BY <1>1, <1>3, <1>5 DEF ServerPlace
<1>10. InPlace'
  BY <1>1, <1>3, <1>4, <1>5, Connections DEF ProtocolInv, InPlace
<1>11. CookieKnown'
  BY <1>1, <1>3, <1>4 DEF CookieKnown, Acquainted, Ctrl
<1>12. DataCookie'
  <2> SUFFICES ASSUME NEW m \in Conns, m[2] # 0, m \in Waiting'
               PROVE  up'[m] = <<"cookie">>
    <3>1. \A m \in Conns : m # sv_peer' /\ sv_pc' = "select"
      BY <1>1, Connections, Zenon
    <3> QED
      BY <3>1 DEF DataCookie
  <2>1. m \in Waiting /\ m # n
    BY <1>3, <1>4, Zenon
  <2>2. up'[m] = up[m]
    BY <1>2, <2>1, Zenon
  <2>3. up[m] = <<"cookie">>
    BY <2>1, Zenon DEF ProtocolInv, DataCookie
  <2> QED
    BY <2>2, <2>3
<1>13. ToldFirst'
  BY <1>1 DEF ProtocolInv, ToldFirst, Ctrl, clVars
<1>14. Remembered'
  BY <1>2 DEF Remembered, clVars
<1>15. Conversation'
  <2>1. ASSUME NEW c \in Clients, Ctrl(c) = n PROVE Talks(c)'
    <3>1. cl_pc[c] = "end" /\ up'[n] = <<>>
      BY <1>2, <2>1
    <3>2. Leaves(c)'
      BY <1>1, <1>3, <2>1, <3>1 DEF Leaves, Last, Ctrl
    <3> QED
      BY <3>1, <3>2 DEF Talks, Live, clVars
  <2>2. ASSUME NEW c \in Clients, Ctrl(c) # n PROVE Talks(c)'
    <3>1. /\ Talks(c) /\ up'[Ctrl(c)] = up[Ctrl(c)]
          /\ UNCHANGED <<cl_pc, cl_state, down, sv_end, sv_ctrl, sv_state>>
          /\ sv_pc = "stream" /\ sv_pc' = "select"
      BY <1>1, <1>2, <2>2, Connections DEF ProtocolInv, Conversation, clVars
    <3> QED
      BY <3>1 DEF Talks, Live, Ctrl, Alternates, AtFirst, AtParams, AtStreams, AtRunning, AtResults,
                  AtDisplay, At, Remains, Leaves
  <2> QED
    BY <2>1, <2>2 DEF Conversation
<1>16. Arriving'
  <2>1. /\ \A i \in 1 .. cl_dialed[client] : <<client, i>> \in Streams \cup Waiting \cup {n}
        /\ \A m \in Streams, w \in Waiting : m[1] = client /\ w[1] = client => m[2] < w[2]
        /\ \A w \in Waiting : n[1] = client /\ w[1] = client => n[2] < w[2]
    BY <1>3 DEF ProtocolInv, Arriving, n
  <2> QED
    BY <1>1, <1>4, <1>5, <2>1 DEF Arriving, clVars
<1> QED
  BY <1>5, <1>8, <1>9, <1>10, <1>11, <1>12, <1>13, <1>14, <1>15, <1>16 DEF ProtocolInv

(* All streams are there: TEST_START and TEST_RUNNING are sent.             *)
LEMMA StartsTest ==
  ASSUME ProtocolInv, UNCHANGED clVars, SvStart
  PROVE  ProtocolInv'
<1> DEFINE n == sv_peer
<1>1. /\ sv_pc = "stream" /\ NreadReturns(up[n], cl_end[n], "cookie")
      /\ \E k \in CookieRead : k = sv_cookie /\ SvTake(k)
      /\ Len(sv_streams) + 1 = Wanted(client)
  BY DEF SvStart
<1>2. /\ up' \in [Conns -> Seq(Messages)] /\ \A m \in Conns \ {n} : up'[m] = up[m]
      /\ sv_stack' = client /\ cl_dialed[client] > 0
      /\ \A c \in Clients : Ctrl(c) = n => cl_pc[c] = "end" /\ up'[n] = <<>>
      /\ IF n[1] = client
         THEN /\ n[2] # 0
              /\ \A q \in 0 .. MAX_STREAMS : <<client, q>> \in Streams <=> q \in 1 .. n[2] - 1
         ELSE cl_end[n] \in {"fin", "rst"}
  BY <1>1, Joins
<1>3. /\ n \in Conns /\ n \in Present /\ sv_end[n] = "open"
      /\ n \notin Streams \cup Waiting /\ n # sv_ctrl /\ n # NoConn
      /\ sv_ctrl # NoConn /\ sv_ctrl = Ctrl(client) /\ sv_cookie = client /\ client \in Clients
      /\ sv_state = "CREATE_STREAMS" /\ sv_ctrl \in Conns /\ sv_open /\ sv_timer = FALSE
      /\ sv_end[sv_ctrl] = "open"
  BY <1>1, Peer
<1>4. CASE (SvWriteFails \/ UNCHANGED down) /\ Return(1)
  <2>1. down' = down
    BY <1>4 DEF SvWriteFails
  <2>2. /\ UNCHANGED <<cl_end, refused, served>> /\ Cleanup /\ SvReset
        /\ sv_pc' \in {"down", "exited"}
    BY <1>4 DEF Return
  <2>3. \A c \in Clients : Live(c) /\ Ctrl(c) = sv_ctrl => Remains(c, down'[Ctrl(c)])
    BY <2>1, LastWord
  <2>4. sv_stack' \in Clients \cup {NoConn} /\ Ctrl(sv_stack') = sv_ctrl
    BY <1>2, <1>3
  <2>5. down' \in [Conns -> Seq(Messages)]
    BY <2>1, ServerShapes
  <2> QED
    BY <1>2, <1>3, <2>1, <2>2, <2>3, <2>4, <2>5, Ending
<1>5. CASE /\ SvWrite(<<"TEST_START", "TEST_RUNNING">>)
           /\ sv_streams' = Append(sv_streams, sv_peer)
           /\ sv_state' = "TEST_RUNNING" /\ sv_timer' = TRUE /\ sv_done' = FALSE
           /\ sv_peer' = NoConn /\ sv_pc' = "select"
           /\ IF client \in reopen THEN ReopenListener ELSE UNCHANGED <<backlog, sv_end>>
           /\ UNCHANGED <<sv_ctrl, sv_cookie, sv_open, refused, served, listening, cl_end>>
  <2>1. <<"TEST_START", "TEST_RUNNING">> \in Seq(Messages)
    BY DEF Messages
  <2>2. /\ down' \in [Conns -> Seq(Messages)] /\ \A m \in Conns \ {sv_ctrl} : down'[m] = down[m]
        /\ down[sv_ctrl] = <<>> => down'[sv_ctrl] = <<"TEST_START", "TEST_RUNNING">>
    BY <1>3, <1>5, <2>1, WritesTo DEF SvWrite
  <2>3. /\ backlog' \in Seq(Conns) /\ Waiting' \subseteq Waiting
        /\ sv_end' \in [Conns -> {"open", "fin", "rst"}]
        /\ \A m \in Conns : sv_end'[m] = "open" => sv_end[m] = "open"
        /\ \A m \in Conns \ Waiting : sv_end'[m] = sv_end[m]
        /\ \A m \in Waiting' : sv_end'[m] = "open"
        /\ \A i, j \in DOMAIN backlog' :
             i < j /\ backlog'[i][1] = backlog'[j][1] => backlog'[i][2] < backlog'[j][2]
    BY <1>5, Reopens
  <2>4. client' = client /\ Waiting \subseteq Conns /\ sv_ctrl \in Present
    BY <1>3, <1>5, ServerShapes DEF client, Present
  <2>5. /\ sv_streams' \in Seq(Conns) /\ sv_streams' # <<>> /\ Streams' = Streams \cup {n}
        /\ Len(sv_streams') = Wanted(client)
        /\ StreamsAreTheClients'
    <3>1. cl_end' = cl_end
      BY <1>5
    <3> QED
      BY <1>1, <1>2, <1>3, <1>5, <2>4, <3>1, OneMore
  <2>6. sv_ctrl \notin Waiting
    BY <1>3 DEF ProtocolInv, InPlace
  <2> HIDE DEF n
  <2>7. NetTypeOK' /\ SvTypeOK'
    BY <1>2, <1>3, <1>5, <2>2, <2>3, <2>5 DEF ProtocolInv, IperfTypeOK, NetTypeOK, SvTypeOK, States, Messages
  <2>8. Handles
    BY <1>2, <1>3, <1>5, <2>2, <2>3, <2>4, <2>5, <2>7 DEF Handles, Present
  <2>9. IperfTypeOK' /\ ClientSockets' /\ NotMade'
    BY <2>8, ServerFrame
  <2>10. ServerPlace'
    BY <1>3, <1>5, <2>4, <2>5 DEF ServerPlace, Wanted
  <2>11. InPlace'
    <3>1. \A m \in Waiting' : m \notin Streams' \cup {sv_ctrl, NoConn}
      BY <1>3, <2>3, <2>4, <2>5, Connections DEF ProtocolInv, InPlace
    <3>2. sv_ctrl \notin Streams' /\ sv_end'[sv_ctrl] = "open"
      BY <1>3, <2>3, <2>5, <2>6 DEF ProtocolInv, InPlace
    <3> QED
      BY <1>3, <1>5, <2>3, <3>1, <3>2 DEF InPlace
  <2>12. CookieKnown'
    BY <1>3, <1>5, <2>4 DEF CookieKnown, Acquainted, Ctrl
  <2>13. DataCookie'
    <3>1. \A m \in Waiting' : m \in Waiting /\ up'[m] = up[m]
      BY <1>2, <1>3, <2>3, <2>4
    <3>2. \A m \in Conns : m[2] # 0 /\ m \in Waiting => up[m] = <<"cookie">>
      BY DEF ProtocolInv, DataCookie
    <3> QED
      BY <1>5, <3>1, <3>2, Connections DEF DataCookie
  <2>14. ToldFirst'
    <3>1. ASSUME NEW c \in Clients, sv_end'[Ctrl(c)] = "open", Ctrl(c) # sv_ctrl PROVE cl_dialed'[c] = 0
      BY <2>3, <3>1, Connections DEF ProtocolInv, ToldFirst, clVars
    <3> QED
      BY <1>5, <3>1 DEF ToldFirst, Ctrl
  <2>15. Remembered'
    BY <1>2 DEF Remembered, clVars
  <2>16. Conversation'
    <3>1. ASSUME NEW c \in Clients, Ctrl(c) = n PROVE Talks(c)'
      <4>1. cl_pc[c] = "end" /\ up'[n] = <<>>
        BY <1>2, <3>1
      <4>2. Leaves(c)'
        BY <1>3, <1>5, <3>1, <4>1 DEF Leaves, Last, Ctrl
      <4> QED
        BY <4>1, <4>2 DEF Talks, Live, clVars
    <3>2. ASSUME NEW c \in Clients, Ctrl(c) # n, Ctrl(c) # sv_ctrl PROVE Talks(c)'
      <4>1. Ctrl(c) \in Conns
        BY Connections
      <4>2. up'[Ctrl(c)] = up[Ctrl(c)] /\ down'[Ctrl(c)] = down[Ctrl(c)]
        BY <1>2, <2>2, <3>2, <4>1
      <4> QED
        BY <1>5, <2>3, <3>2, <4>1, <4>2, Bystander
    <3>3. ASSUME NEW c \in Clients, Ctrl(c) = sv_ctrl PROVE Talks(c)'
      <4>1. c = client /\ sv_end'[Ctrl(c)] = "open" /\ up'[Ctrl(c)] = up[Ctrl(c)]
        BY <1>2, <1>3, <2>3, <2>6, <3>3, Connections
      <4>2. Talks(c) /\ sv_end[Ctrl(c)] = "open"
        BY <1>3, <3>3 DEF ProtocolInv, Conversation
      <4>3. CASE Live(c)
        <5>1. AtStreams(c)
          BY <1>1, <1>3, <3>3, <4>2, <4>3 DEF Talks, Alternates
        <5>2. cl_state[c] # "PARAM_EXCHANGE"
          BY <1>2, <4>1 DEF ProtocolInv, ClientSockets, Sockets
        <5>3. /\ cl_pc[c] \in {"dial", "select"} /\ cl_state[c] = "CREATE_STREAMS"
              /\ down[Ctrl(c)] = <<>> /\ up[Ctrl(c)] = <<>>
          BY <5>1, <5>2 DEF AtStreams, At
        <5>4. down'[Ctrl(c)] = <<"TEST_START", "TEST_RUNNING">>
          BY <2>2, <3>3, <5>3
        <5>5. AtRunning(c)'
          BY <4>1, <5>3, <5>4 DEF AtRunning, At, clVars, Ctrl
        <5>6. Alternates(c)'
          BY <1>5, <3>3, <5>5 DEF Alternates, Ctrl
        <5> QED
          BY <4>1, <4>3, <5>6 DEF Talks, Live, Ctrl, clVars
      <4>4. CASE cl_pc[c] = "end"
        <5>1. up[Ctrl(c)] \in {<<>>, <<"CLIENT_TERMINATE">>}
          BY <1>1, <1>3, <3>3, <4>2, <4>4 DEF Talks, Leaves
        <5>2. Leaves(c)'
          BY <1>5, <3>3, <4>1, <5>1 DEF Leaves, Last, Ctrl
        <5> QED
          BY <4>4, <5>2 DEF Talks, Live, clVars
      <4>5. CASE cl_pc[c] = "start"
        BY <4>5 DEF Talks, Live, clVars
      <4> QED
        BY <4>3, <4>4, <4>5 DEF Live
    <3> QED
      BY <3>1, <3>2, <3>3 DEF Conversation
  <2>17. Arriving'
    BY <1>5 DEF Arriving
  <2> QED
    BY <2>5, <2>9, <2>10, <2>11, <2>12, <2>13, <2>14, <2>15, <2>16, <2>17 DEF ProtocolInv
<1> QED
  BY <1>1, <1>4, <1>5 DEF SvStart

(* The server closes the streams and asks for the results.                  *)
LEMMA EndsStreams ==
  ASSUME ProtocolInv, UNCHANGED clVars, SvTestEnd
  PROVE  ProtocolInv'
<1> DEFINE n == sv_ctrl
<1>1. /\ sv_pc = "select" /\ sv_open /\ n # NoConn /\ NreadGot(up[n], "TEST_END") /\ UNCHANGED sv_stack
      /\ up' = [up EXCEPT ![n] = Tail(@)]
  BY DEF SvTestEnd, SvReads, Selecting
<1>2. n \in Conns /\ n \in Present /\ up \in [Conns -> Seq(Messages)] /\ sv_end[n] = "open"
      /\ up[n] # <<>> /\ Head(up[n]) = "TEST_END"
  BY <1>1, ServerShapes DEF Present, NreadGot, ProtocolInv, InPlace
<1>3. up' = [up EXCEPT ![n] = IF @ = <<>> THEN @ ELSE Tail(@)]
  BY <1>1, <1>2
<1>4. /\ up' \in [Conns -> Seq(Messages)] /\ \A k \in Conns \ {n} : up'[k] = up[k]
      /\ \A a : up[n] = <<a>> => up'[n] = <<>>
      /\ \A a, b : up[n] = <<a, b>> => up'[n] = <<b>>
  BY <1>2, <1>3, ReadsOne
<1>5. /\ n = Ctrl(client) /\ sv_cookie = client /\ client \in Clients
      /\ sv_state \in {"CREATE_STREAMS", "TEST_RUNNING", "DISPLAY_RESULTS"}
  BY <1>1, ServerShapes DEF ProtocolInv, CookieKnown, Acquainted, ServerPlace
<1>6. CASE SvWriteFails /\ Return(1)
  <2>1. down' = down
    BY <1>6 DEF SvWriteFails
  <2>2. Return(1) /\ 1 \in 0 .. 2
    BY <1>6
  <2>3. \E rc \in 0 .. 2 : Return(rc)
    BY <2>2, Zenon
  <2> QED
    BY <1>1, <1>3, <2>1, <2>3, EndsQuietly
<1>7. CASE /\ SvWrite(<<"EXCHANGE_RESULTS">>)
           /\ SvClose(Streams)
           /\ sv_done' = TRUE /\ sv_state' = "EXCHANGE_RESULTS" /\ sv_pc' = "results"
           /\ UNCHANGED <<sv_ctrl, sv_cookie, sv_peer, sv_streams, sv_timer, sv_open,
                          refused, served, listening, backlog, cl_end>>
  <2>1. <<"EXCHANGE_RESULTS">> \in Seq(Messages)
    BY DEF Messages
  <2>2. /\ down' \in [Conns -> Seq(Messages)] /\ \A k \in Conns \ {n} : down'[k] = down[k]
        /\ down[n] = <<>> => down'[n] = <<"EXCHANGE_RESULTS">>
    BY <1>2, <1>7, <2>1, WritesTo DEF SvWrite
  <2>3. /\ sv_end' \in [Conns -> {"open", "fin", "rst"}]
        /\ \A k \in Conns : sv_end'[k] = "open" <=> sv_end[k] = "open" /\ k \notin Streams
        /\ \A k \in Conns : k \notin Streams => sv_end'[k] = sv_end[k]
    BY <1>7, Closing
  <2>4. /\ Streams' = Streams /\ Waiting' = Waiting /\ client' = client /\ sv_peer = NoConn
        /\ n \notin Streams /\ n \notin Waiting /\ Waiting \subseteq Conns
    BY <1>1, <1>7, ServerShapes DEF Streams, Waiting, client, ProtocolInv, InPlace, ServerPlace
  <2>5. NetTypeOK' /\ SvTypeOK'
    BY <1>1, <1>4, <1>7, <2>2, <2>3 DEF ProtocolInv, IperfTypeOK, NetTypeOK, SvTypeOK, States, Messages
  <2>6. Handles
    BY <1>2, <1>4, <1>7, <2>2, <2>3, <2>4, <2>5 DEF Handles, Present
  <2>7. IperfTypeOK' /\ ClientSockets' /\ NotMade'
    BY <2>6, ServerFrame
  <2>8. ServerPlace'
    BY <1>1, <1>7, <2>4 DEF ServerPlace
  <2>9. InPlace'
    <3>1. \A k \in Waiting : sv_end'[k] = "open" /\ k \notin Streams \cup {n, NoConn}
      BY <2>3, <2>4, Connections DEF ProtocolInv, InPlace
    <3> QED
      BY <1>1, <1>2, <1>7, <2>3, <2>4, <3>1 DEF ProtocolInv, InPlace
  <2>10. CookieKnown'
    BY <1>5, <1>7, <2>4 DEF CookieKnown, Acquainted, Ctrl
  <2>11. DataCookie'
    <3>1. \A m \in Waiting : m \in Conns /\ up'[m] = up[m]
      BY <1>4, <2>4
    <3>2. \A m \in Conns : m[2] # 0 /\ m \in Waiting => up[m] = <<"cookie">>
      BY DEF ProtocolInv, DataCookie
    <3> QED
      BY <1>7, <2>4, <3>1, <3>2, Connections DEF DataCookie
  <2>12. ToldFirst'
    <3>1. ASSUME NEW c \in Clients, sv_end'[Ctrl(c)] = "open", Ctrl(c) # sv_ctrl PROVE cl_dialed'[c] = 0
      BY <2>3, <3>1, Connections DEF ProtocolInv, ToldFirst, clVars
    <3> QED
      BY <1>7, <3>1 DEF ToldFirst, Ctrl
  <2>13. Remembered'
    BY <1>1, <2>3, StillRemembered
  <2>14. Conversation'
    <3>1. ASSUME NEW c \in Clients, Ctrl(c) # n PROVE Talks(c)'
      <4>1. Ctrl(c) \in Conns
        BY Connections
      <4>2. up'[Ctrl(c)] = up[Ctrl(c)] /\ down'[Ctrl(c)] = down[Ctrl(c)]
        BY <1>4, <2>2, <3>1, <4>1
      <4> QED
        BY <1>7, <2>3, <3>1, <4>1, <4>2, Bystander
    <3>2. ASSUME NEW c \in Clients, Ctrl(c) = n PROVE Talks(c)'
      <4>1. c = client /\ sv_end'[n] = "open"
        BY <1>2, <1>5, <2>3, <2>4, <3>2, Connections
      <4>2. Talks(c)
        BY DEF ProtocolInv, Conversation
      <4>3. CASE Live(c)
        <5>1. Alternates(c)
          BY <1>2, <3>2, <4>2, <4>3 DEF Talks
        <5>0. AtStreams(c) \/ AtRunning(c) \/ AtDisplay(c)
          BY <1>1, <1>5, <3>2, <5>1 DEF Alternates
        <5>2. up[n] = <<"TEST_END">> /\ cl_pc[c] = "select" /\ cl_state[c] = "TEST_END" /\ down[n] = <<>>
          BY <1>2, <3>2, <5>0 DEF AtStreams, AtRunning, AtDisplay, At
        <5>3. /\ up'[n] = <<>> /\ down'[n] = <<"EXCHANGE_RESULTS">>
              /\ cl_pc[c] = "select" /\ cl_state[c] = "TEST_END"
          BY <1>2, <1>4, <2>2, <5>2
        <5>4. AtResults(c)'
          BY <3>2, <5>3 DEF AtResults, At, clVars, Ctrl
        <5>5. Alternates(c)'
          BY <1>7, <3>2, <5>4 DEF Alternates, Ctrl
        <5> QED
          BY <3>2, <4>1, <4>3, <5>5 DEF Talks, Live, Ctrl, clVars
      <4>4. CASE cl_pc[c] = "end"
        <5>1. Leaves(c)
          BY <1>2, <3>2, <4>2, <4>4 DEF Talks
        <5>2. \E m \in {"TEST_END", "IPERF_DONE"} : up[n] \in Last(m)
          BY <1>1, <1>5, <3>2, <5>1 DEF Leaves, Last
        <5>3. up[n] \in {<<"TEST_END">>, <<"TEST_END", "CLIENT_TERMINATE">>}
          BY <1>2, <5>2, HT1, HT2 DEF Last
        <5>4. up'[n] \in {<<>>, <<"CLIENT_TERMINATE">>}
          BY <1>4, <5>3
        <5>5. Leaves(c)'
          BY <1>7, <3>2, <5>4 DEF Leaves, Last, Ctrl
        <5> QED
          BY <4>4, <5>5 DEF Talks, Live, clVars
      <4>5. CASE cl_pc[c] = "start"
        BY <4>5 DEF Talks, Live, clVars
      <4> QED
        BY <4>3, <4>4, <4>5 DEF Live
    <3> QED
      BY <3>1, <3>2 DEF Conversation
  <2>15. Arriving'
    BY <1>7 DEF Arriving
  <2>16. StreamsAreTheClients'
    BY <1>7, <2>4, SameStreams DEF ProtocolInv
  <2> QED
    BY <2>7, <2>8, <2>9, <2>10, <2>11, <2>12, <2>13, <2>14, <2>15, <2>16 DEF ProtocolInv
<1> QED
  BY <1>6, <1>7 DEF SvTestEnd

(* The server gets the client's results, sends its own and DISPLAY_RESULTS. *)
LEMMA ExchangesResults ==
  ASSUME ProtocolInv, UNCHANGED clVars, SvResults
  PROVE  ProtocolInv'
<1> DEFINE n == sv_ctrl
<1>1. /\ sv_pc = "results" /\ UNCHANGED sv_stack
      /\ up' = [up EXCEPT ![n] = IF @ = <<>> THEN @ ELSE Tail(@)]
  BY DEF SvResults
<1>2. /\ n # NoConn /\ n \in Conns /\ n \in Present /\ sv_open /\ sv_end[n] = "open"
      /\ sv_state = "EXCHANGE_RESULTS"
  BY <1>1, ServerShapes DEF ProtocolInv, ServerPlace, InPlace, Present
<1>3. n = Ctrl(client) /\ sv_cookie = client /\ client \in Clients
  BY <1>1, <1>2, ServerShapes DEF ProtocolInv, CookieKnown, Acquainted
<1>4. /\ up' \in [Conns -> Seq(Messages)] /\ \A k \in Conns \ {n} : up'[k] = up[k]
      /\ \A a : up[n] = <<a>> => up'[n] = <<>>
      /\ \A a, b : up[n] = <<a, b>> => up'[n] = <<b>>
  BY <1>1, <1>2, ReadsOne
<1>5. CASE (SvWriteFails \/ UNCHANGED down) /\ Return(1)
  <2>1. down' = down
    BY <1>5 DEF SvWriteFails
  <2>2. Return(1) /\ 1 \in 0 .. 2
    BY <1>5
  <2>3. \E rc \in 0 .. 2 : Return(rc)
    BY <2>2, Zenon
  <2> QED
    BY <1>1, <1>2, <2>1, <2>3, EndsQuietly
<1>6. CASE /\ NreadGot(up[sv_ctrl], "results")
           /\ SvWrite(<<"results", "DISPLAY_RESULTS">>)
           /\ served' = served \cup {client}
           /\ sv_state' = "DISPLAY_RESULTS" /\ sv_pc' = "select"
           /\ UNCHANGED <<sv_ctrl, sv_cookie, sv_peer, sv_streams, sv_timer, sv_done, sv_open,
                          refused, listening, backlog, cl_end, sv_end>>
  <2>1. <<"results", "DISPLAY_RESULTS">> \in Seq(Messages) /\ up[n] # <<>> /\ Head(up[n]) = "results"
    BY <1>6 DEF Messages, NreadGot
  <2>2. /\ down' \in [Conns -> Seq(Messages)] /\ \A k \in Conns \ {n} : down'[k] = down[k]
        /\ down[n] = <<>> => down'[n] = <<"results", "DISPLAY_RESULTS">>
    BY <1>2, <1>6, <2>1, WritesTo DEF SvWrite
  <2>4. /\ Streams' = Streams /\ Waiting' = Waiting /\ client' = client /\ sv_peer = NoConn
        /\ n \notin Waiting /\ Waiting \subseteq Conns
    BY <1>1, <1>2, <1>6, ServerShapes DEF Streams, Waiting, client, ProtocolInv, InPlace, ServerPlace
  <2>5. NetTypeOK' /\ SvTypeOK'
    BY <1>1, <1>3, <1>4, <1>6, <2>2 DEF ProtocolInv, IperfTypeOK, NetTypeOK, SvTypeOK, States, Messages
  <2>6. Handles
    BY <1>2, <1>4, <1>6, <2>2, <2>4, <2>5 DEF Handles, Present
  <2>7. IperfTypeOK' /\ ClientSockets' /\ NotMade'
    BY <2>6, ServerFrame
  <2>8. ServerPlace'
    BY <1>2, <1>6, <2>4 DEF ServerPlace
  <2>9. InPlace'
    BY <1>6, <2>4 DEF ProtocolInv, InPlace
  <2>10. CookieKnown'
    BY <1>3, <1>6, <2>4 DEF CookieKnown, Acquainted, Ctrl
  <2>11. DataCookie'
    <3>1. \A m \in Waiting : m \in Conns /\ up'[m] = up[m]
      BY <1>4, <2>4
    <3>2. \A m \in Conns : m[2] # 0 /\ m \in Waiting => up[m] = <<"cookie">>
      BY DEF ProtocolInv, DataCookie
    <3> QED
      BY <1>6, <2>4, <3>1, <3>2, Connections DEF DataCookie
  <2>12. ToldFirst'
    BY <1>1, <1>6 DEF ProtocolInv, ToldFirst, Ctrl, clVars
  <2>13. Remembered'
    BY <1>1, <1>6, StillRemembered
  <2>14. Conversation'
    <3>1. ASSUME NEW c \in Clients, Ctrl(c) # n PROVE Talks(c)'
      <4>1. Ctrl(c) \in Conns
        BY Connections
      <4>2. up'[Ctrl(c)] = up[Ctrl(c)] /\ down'[Ctrl(c)] = down[Ctrl(c)]
        BY <1>4, <2>2, <3>1, <4>1
      <4> QED
        BY <1>6, <3>1, <4>1, <4>2, Bystander
    <3>2. ASSUME NEW c \in Clients, Ctrl(c) = n PROVE Talks(c)'
      <4>1. c = client /\ sv_end'[n] = "open"
        BY <1>2, <1>3, <1>6, <3>2, Connections
      <4>2. Talks(c)
        BY DEF ProtocolInv, Conversation
      <4>3. CASE Live(c)
        <5>1. Alternates(c)
          BY <1>2, <3>2, <4>2, <4>3 DEF Talks
        <5>2. AtResults(c)
          BY <1>1, <1>2, <3>2, <5>1 DEF Alternates
        <5>3. up[n] = <<"results">> /\ cl_pc[c] = "results" /\ cl_state[c] = "EXCHANGE_RESULTS" /\ down[n] = <<>>
          BY <2>1, <3>2, <5>2 DEF AtResults, At
        <5>4. up'[n] = <<>> /\ down'[n] = <<"results", "DISPLAY_RESULTS">>
          BY <1>4, <2>2, <5>3
        <5>5. AtDisplay(c)'
          BY <3>2, <5>3, <5>4 DEF AtDisplay, At, clVars, Ctrl
        <5>6. Alternates(c)'
          BY <1>6, <3>2, <5>5 DEF Alternates, Ctrl
        <5> QED
          BY <3>2, <4>1, <4>3, <5>6 DEF Talks, Live, Ctrl, clVars
      <4>4. CASE cl_pc[c] = "end"
        <5>1. Leaves(c)
          BY <1>2, <3>2, <4>2, <4>4 DEF Talks
        <5>2. up[n] \in Last("results")
          BY <1>1, <1>2, <3>2, <5>1 DEF Leaves
        <5>3. up[n] \in {<<"results">>, <<"results", "CLIENT_TERMINATE">>}
          BY <2>1, <5>2, HT1, HT2 DEF Last
        <5>4. up'[n] \in {<<>>, <<"CLIENT_TERMINATE">>}
          BY <1>4, <5>3
        <5>5. Leaves(c)'
          BY <1>6, <3>2, <5>4 DEF Leaves, Last, Ctrl
        <5> QED
          BY <4>4, <5>5 DEF Talks, Live, clVars
      <4>5. CASE cl_pc[c] = "start"
        BY <4>5 DEF Talks, Live, clVars
      <4> QED
        BY <4>3, <4>4, <4>5 DEF Live
    <3> QED
      BY <3>1, <3>2 DEF Conversation
  <2>15. Arriving'
    BY <1>6 DEF Arriving
  <2>16. StreamsAreTheClients'
    BY <1>6, <2>4, SameStreams DEF ProtocolInv
  <2> QED
    BY <2>7, <2>8, <2>9, <2>10, <2>11, <2>12, <2>13, <2>14, <2>15, <2>16 DEF ProtocolInv
<1> QED
  BY <1>5, <1>6 DEF SvResults

(* server_timer_proc.                                                       *)
LEMMA TimerFires ==
  ASSUME ProtocolInv, UNCHANGED clVars, SvTimer
  PROVE  ProtocolInv'
<1> DEFINE n == sv_ctrl
<1>1. /\ sv_pc = "select" /\ sv_open /\ sv_timer
      /\ sv_timer' = FALSE /\ up' = up
      /\ UNCHANGED <<sv_pc, sv_state, sv_ctrl, sv_cookie, sv_stack, sv_peer, refused, served,
                     listening, backlog, down, cl_end>>
  BY DEF SvTimer, Selecting
<1>2. /\ sv_state \in {"TEST_RUNNING", "DISPLAY_RESULTS"} /\ n # NoConn /\ sv_peer = NoConn
  BY <1>1 DEF ProtocolInv, ServerPlace
<1>3. n \in Conns /\ n \in Present /\ sv_end[n] = "open" /\ n \notin Waiting /\ Waiting \subseteq Conns
  BY <1>1, <1>2, ServerShapes DEF Present, ProtocolInv, InPlace
<1>4. n = Ctrl(client) /\ client' = client /\ Waiting' = Waiting
  BY <1>1, <1>2 DEF ProtocolInv, CookieKnown, Acquainted, client, Waiting
<1>5. /\ sv_end' \in [Conns -> {"open", "fin", "rst"}] /\ sv_streams' \in {sv_streams, <<>>}
      /\ \A k \in Conns : sv_end'[k] = "open" => sv_end[k] = "open"
      /\ \A k \in Conns : k \notin Streams \cup {n} => sv_end'[k] = sv_end[k]
      /\ sv_done' \in BOOLEAN
      /\ \/ sv_open' /\ sv_open' = TRUE /\ sv_streams' = sv_streams /\ sv_end' = sv_end
         \/ sv_open' = FALSE /\ sv_streams' = <<>> /\ sv_end'[n] # "open"
  <2>1. CASE sv_done
    BY <1>1, <2>1, ServerShapes DEF SvTimer, ProtocolInv, IperfTypeOK, SvTypeOK
  <2>2. CASE ~sv_done
    <3>1. sv_done' = TRUE /\ sv_streams' = <<>> /\ sv_open' = FALSE /\ SvClose(Streams \cup {n})
      BY <2>2 DEF SvTimer
    <3> QED
      BY <1>3, <3>1, Closing
  <2> QED
    BY <2>1, <2>2
<1>6. Streams' \subseteq Streams /\ sv_streams' \in Seq(Conns) /\ Streams \cap Waiting = {}
  <2>1. sv_streams' \in Seq(Conns)
    <3>1. <<>> \in Seq(Conns)
      OBVIOUS
    <3>2. sv_streams \in Seq(Conns)
      BY ServerShapes
    <3> QED
      BY <1>5, <3>1, <3>2, Zenon
  <2>4. Streams \cap Waiting = {}
    BY DEF ProtocolInv, InPlace
  <2>5. Streams' \subseteq Streams
    <3>1. sv_streams' = sv_streams => Streams' \subseteq Streams
      BY DEF Streams
    <3>2. sv_streams' = <<>> => Streams' \subseteq Streams
      BY DEF Streams
    <3> QED
      BY <1>5, <3>1, <3>2
  <2> QED
    BY <2>1, <2>4, <2>5
<1>7. NetTypeOK' /\ SvTypeOK'
  BY <1>1, <1>5, <1>6 DEF ProtocolInv, IperfTypeOK, NetTypeOK, SvTypeOK
<1>8. Handles
  BY <1>1, <1>3, <1>4, <1>5, <1>6, <1>7 DEF Handles, Present
<1>9. IperfTypeOK' /\ ClientSockets' /\ NotMade'
  BY <1>8, ServerFrame
<1>10. ServerPlace'
  BY <1>1, <1>2, <1>4, <1>5 DEF ProtocolInv, ServerPlace
<1>11. InPlace'
  <2>1. \A k \in Waiting : sv_end'[k] = "open" /\ k \notin Streams' \cup {n, NoConn}
    BY <1>3, <1>5, <1>6, Connections DEF ProtocolInv, InPlace
  <2>2. n \notin Streams' /\ (sv_open' <=> sv_end'[n] = "open")
    BY <1>2, <1>3, <1>5, <1>6 DEF ProtocolInv, InPlace
  <2> QED
    BY <1>1, <1>2, <1>4, <2>1, <2>2 DEF ProtocolInv, InPlace
<1>12. CookieKnown'
  BY <1>1, <1>4 DEF ProtocolInv, CookieKnown, Acquainted, Ctrl
<1>13. DataCookie'
  BY <1>1, <1>4 DEF ProtocolInv, DataCookie
<1>14. ToldFirst'
  BY <1>1, <1>5, Connections DEF ProtocolInv, ToldFirst, Ctrl, clVars
<1>15. Remembered'
  BY <1>1, <1>5, StillRemembered
<1>16. Conversation'
  <2>1. ASSUME NEW c \in Clients, Ctrl(c) # n PROVE Talks(c)'
    BY <1>1, <1>5, <2>1, Bystander, Connections
  <2>2. ASSUME NEW c \in Clients, Ctrl(c) = n PROVE Talks(c)'
    <3>1. Talks(c) /\ UNCHANGED <<cl_pc, cl_state, up, down, sv_ctrl, sv_pc, sv_state>>
      BY <1>1 DEF ProtocolInv, Conversation, clVars
    <3>2. CASE sv_end' = sv_end
      BY <3>1, <3>2 DEF Talks, Live, Ctrl, Alternates, AtFirst, AtParams, AtStreams, AtRunning, AtResults,
                  AtDisplay, At, Remains, Leaves
    <3>3. CASE sv_end'[n] # "open"
      <4>1. Live(c) => Remains(c, down[Ctrl(c)])
        BY LastWord
      <4>2. Live(c) => Remains(c, down[Ctrl(c)])'
        BY <3>1, <4>1 DEF Remains, Ctrl
      <4> QED
        BY <2>2, <3>1, <3>3, <4>2 DEF Talks, Live, Ctrl
    <3> QED
      BY <1>5, <3>2, <3>3
  <2> QED
    BY <2>1, <2>2 DEF Conversation
<1>17. Arriving'
  BY <1>1, <1>2 DEF Arriving
<1>18. StreamsAreTheClients'
  <2>1. CASE sv_streams' = sv_streams
    BY <1>1, <1>4, <2>1, SameStreams DEF ProtocolInv
  <2>2. CASE sv_streams' = <<>>
    BY <2>2 DEF StreamsAreTheClients
  <2> QED
    BY <1>5, <2>1, <2>2
<1> QED
  BY <1>9, <1>10, <1>11, <1>12, <1>13, <1>14, <1>15, <1>16, <1>17, <1>18 DEF ProtocolInv

(* Every step of the server keeps the invariant.                            *)
LEMMA ServerKeepsInv ==
  ASSUME ProtocolInv, SvStep \/ SvFault, UNCHANGED clVars
  PROVE  ProtocolInv'
<1>1. CASE SvListen
  BY <1>1, Listens
<1>2. CASE SvAccept
  BY <1>2, Accepts
<1>3. CASE SvCookie
  BY <1>3, GetsCookie
<1>4. CASE SvParams
  BY <1>4, GetsParams
<1>5. CASE SvDeny
  BY <1>5, Denies
<1>6. CASE SvAcceptStream
  BY <1>6, AcceptsStream
<1>7. CASE SvDenyStream
  BY <1>7, DeniesStream
<1>8. CASE SvAddStream
  BY <1>8, AddsStream
<1>9. CASE SvStart
  BY <1>9, StartsTest
<1>10. CASE SvTestEnd
  BY <1>10, EndsStreams
<1>11. CASE SvResults
  BY <1>11, ExchangesResults
<1>12. CASE SvDone
  <2>1. PICK m \in Messages : SvReads(m) /\ Return(IF m \in {"IPERF_DONE", "CLIENT_TERMINATE"} THEN 0 ELSE 1)
    BY <1>12 DEF SvDone
  <2>2. sv_ctrl # NoConn /\ up[sv_ctrl] # <<>> /\ up' = [up EXCEPT ![sv_ctrl] = Tail(@)]
    BY <2>1 DEF SvReads, NreadGot
  <2>3. up' = [up EXCEPT ![sv_ctrl] = IF @ = <<>> THEN @ ELSE Tail(@)]
    BY <2>2
  <2>4. (IF m \in {"IPERF_DONE", "CLIENT_TERMINATE"} THEN 0 ELSE 1) \in 0 .. 2
    OBVIOUS
  <2>5. \E rc \in 0 .. 2 : Return(rc)
    BY <2>1, <2>4, Zenon
  <2>6. down' = down /\ sv_stack' = sv_stack
    BY <1>12 DEF SvDone
  <2> QED
    BY <2>2, <2>3, <2>5, <2>6, EndsQuietly
<1>13. CASE SvCtrlClosed \/ SvSelectFails \/ SvStreamError \/ SvIdleTimeout \/ SvRcvTimeout \/ SvRateExceeded
  <2>1. Quit(0) \/ Quit(1) \/ Quit(2)
    BY <1>13 DEF SvCtrlClosed, SvSelectFails, SvStreamError, SvIdleTimeout, SvRcvTimeout, SvRateExceeded
  <2>2. 0 \in 0 .. 2 /\ 1 \in 0 .. 2 /\ 2 \in 0 .. 2
    OBVIOUS
  <2> QED
    BY <2>1, <2>2, Quits
<1>14. CASE SvTimer
  BY <1>14, TimerFires
<1>15. CASE SvSignal
  BY <1>15, SignalsServer
<1> QED
  BY <1>1, <1>2, <1>3, <1>4, <1>5, <1>6, <1>7, <1>8, <1>9, <1>10, <1>11, <1>12, <1>13, <1>14,
     <1>15 DEF SvStep, SvFault

---------------------------------------------------------------------------------
(* The invariant holds when nothing has been started.                       *)
LEMMA InitInv == Init => ProtocolInv
<1> SUFFICES ASSUME Init PROVE ProtocolInv
  OBVIOUS
<1>1. /\ listening = FALSE /\ backlog = <<>>
      /\ up = [n \in Conns |-> <<>>] /\ down = [n \in Conns |-> <<>>]
      /\ cl_end = [n \in Conns |-> "none"] /\ sv_end = [n \in Conns |-> "open"]
  BY DEF Init, NetInit
<1>2. /\ cl_pc = [c \in Clients |-> "start"] /\ cl_state = [c \in Clients |-> "0"]
      /\ cl_dialed = [c \in Clients |-> 0] /\ cl_omitting = [c \in Clients |-> FALSE]
  BY DEF Init, ClInit
<1>3. /\ sv_pc = "down" /\ sv_state = "0"
      /\ sv_ctrl = NoConn /\ sv_cookie = NoConn /\ sv_stack = NoConn /\ sv_peer = NoConn
      /\ sv_streams = <<>>
      /\ sv_timer = FALSE /\ sv_done = FALSE /\ sv_open = TRUE
      /\ refused = {} /\ served = {}
  BY DEF Init, SvInit
<1>4. Waiting = {} /\ Streams = {}
  BY <1>1, <1>3 DEF Waiting, Streams
<1>5. IperfTypeOK
  <2>0. <<>> \in Seq(Conns) /\ <<>> \in Seq(Messages)
    OBVIOUS
  <2>1. NetTypeOK
    <3>1. listening \in BOOLEAN /\ backlog \in Seq(Conns)
      BY <1>1, <2>0, Zenon
    <3>2. up \in [Conns -> Seq(Messages)] /\ down \in [Conns -> Seq(Messages)]
      BY <1>1, <2>0, Zenon
    <3>3. cl_end \in [Conns -> {"none", "open", "fin", "rst"}] /\ sv_end \in [Conns -> {"open", "fin", "rst"}]
      BY <1>1
    <3> QED
      BY <3>1, <3>2, <3>3 DEF NetTypeOK
  <2>2. ClTypeOK
    BY <1>2, NetAssumption DEF ClTypeOK, States
  <2>3. SvTypeOK
    <3>1. sv_streams \in Seq(Conns)
      BY <1>3, <2>0, Zenon
    <3> QED
      BY <1>3, <3>1 DEF SvTypeOK, States
  <2> QED
    BY <2>1, <2>2, <2>3 DEF IperfTypeOK
<1>6. ServerPlace /\ CookieKnown /\ Arriving /\ Remembered /\ StreamsAreTheClients
  BY <1>3 DEF ServerPlace, CookieKnown, Acquainted, Arriving, Remembered, StreamsAreTheClients
<1>7. ClientSockets
  <2>1. ASSUME NEW c \in Clients PROVE Sockets(c)
    <3>1. /\ cl_pc[c] = "start" /\ cl_state[c] = "0" /\ cl_dialed[c] = 0 /\ Ctrl(c) \in Conns
          /\ \A i \in 1 .. MAX_STREAMS : <<c, i>> \in Conns
      BY <1>2, Connections
    <3>2. cl_end[Ctrl(c)] = "none" /\ \A i \in 1 .. MAX_STREAMS : cl_end[<<c, i>>] = "none"
      BY <1>1, <3>1
    <3> QED
      BY <3>1, <3>2 DEF Sockets, Live
  <2> QED
    BY <2>1 DEF ClientSockets
<1>8. NotMade /\ DataCookie
  BY <1>1, <1>3, <1>4, Connections DEF NotMade, DataCookie
<1>9. InPlace
  BY <1>1, <1>3, <1>4 DEF InPlace
<1>10. ToldFirst
  BY <1>2 DEF ToldFirst
<1>11. Conversation
  BY <1>2 DEF Conversation, Talks, Live
<1> QED
  BY <1>5, <1>6, <1>7, <1>8, <1>9, <1>10, <1>11 DEF ProtocolInv

(* The invariant holds in every behaviour of iperf3 clients and a server:   *)
(* every handler keeps it, whatever fails when.                             *)
THEOREM Invariance == Spec => []ProtocolInv
<1>1. ProtocolInv /\ [Next]_vars => ProtocolInv'
  <2> SUFFICES ASSUME ProtocolInv, [Next]_vars PROVE ProtocolInv'
    OBVIOUS
  <2>1. ASSUME NEW c \in Clients, ClStep(c) \/ ClSignal(c), UNCHANGED svVars PROVE ProtocolInv'
    BY <2>1, ClientKeepsInv
  <2>2. ASSUME SvStep \/ SvFault, UNCHANGED clVars PROVE ProtocolInv'
    BY <2>2, ServerKeepsInv
  <2>3. CASE UNCHANGED vars
    <3>1. UNCHANGED netVars /\ UNCHANGED clVars /\ UNCHANGED svVars
      BY <2>3 DEF vars
    <3>2. UNCHANGED <<listening, backlog, up, down, cl_end, sv_end>>
      BY <3>1 DEF netVars
    <3>3. UNCHANGED <<cl_pc, cl_state, cl_dialed, cl_omitting, cl_errno>>
      BY <3>1 DEF clVars
    <3>4. UNCHANGED <<sv_pc, sv_state, sv_ctrl, sv_cookie, sv_stack, sv_peer, sv_streams,
                      sv_timer, sv_done, sv_open, refused, served>>
      BY <3>1 DEF svVars
    <3>5. Waiting' = Waiting /\ Streams' = Streams /\ client' = client
      BY <3>2, <3>4 DEF Waiting, Streams, client
    <3>6. IperfTypeOK'
      BY <3>2, <3>3, <3>4 DEF ProtocolInv, IperfTypeOK, NetTypeOK, ClTypeOK, SvTypeOK
    <3>7. ServerPlace'
      BY <3>4, <3>5 DEF ProtocolInv, ServerPlace
    <3>8. ClientSockets'
      BY <3>2, <3>3 DEF ProtocolInv, ClientSockets, Sockets, Live
    <3>9. NotMade' /\ InPlace'
      BY <3>2, <3>4, <3>5 DEF ProtocolInv, NotMade, InPlace
    <3>10. CookieKnown'
      BY <3>2, <3>3, <3>4, <3>5 DEF ProtocolInv, CookieKnown, Acquainted, Ctrl
    <3>11. DataCookie' /\ ToldFirst' /\ Remembered'
      BY <3>2, <3>3, <3>4, <3>5 DEF ProtocolInv, DataCookie, ToldFirst, Remembered, Ctrl
    <3>12. Conversation'
      <4>1. ASSUME NEW c \in Clients PROVE Talks(c)'
        <5>1. Talks(c)
          BY DEF ProtocolInv, Conversation
        <5> QED
          BY <3>2, <3>3, <3>4, <5>1
             DEF Talks, Live, Ctrl, Alternates, AtFirst, AtParams, AtStreams, AtRunning, AtResults,
                 AtDisplay, At, Remains, Leaves
      <4> QED
        BY <4>1 DEF Conversation
    <3>13. Arriving'
      BY <3>3, <3>4, <3>5 DEF ProtocolInv, Arriving
    <3>14. StreamsAreTheClients'
      BY <3>2, <3>4, <3>5, SameStreams DEF ProtocolInv
    <3> QED
      BY <3>6, <3>7, <3>8, <3>9, <3>10, <3>11, <3>12, <3>13, <3>14 DEF ProtocolInv
  <2> QED
    BY <2>1, <2>2, <2>3 DEF Next
<1> QED
  BY <1>1, InitInv, PTL DEF Spec

---------------------------------------------------------------------------------
(* What the invariant says of what a client reads next.                     *)
LEMMA ClientHears ==
  ASSUME ProtocolInv, NEW c \in Clients, cl_pc[c] \in {"select", "results"}, down[Ctrl(c)] # <<>>
  PROVE  Head(down[Ctrl(c)]) \in ClExpects(c)
<1> DEFINE d == down[Ctrl(c)]
           m == Head(d)
<1>1. Live(c) /\ d # <<>>
  BY DEF Live
<1>2. /\ \A x : d = <<x>> => m = x
      /\ \A x, y : d = <<x, y>> => m = x
      /\ \A x, y, z : d = <<x, y, z>> => m = x
  BY HT1, HT2, HT3
<1> HIDE DEF m
<1>3. CASE sv_end[Ctrl(c)] = "open"
  <2>1. Alternates(c)
    BY <1>1, <1>3 DEF ProtocolInv, Conversation, Talks
  <2>2. \/ cl_state[c] = "0" /\ d = <<"PARAM_EXCHANGE">>
        \/ cl_state[c] = "PARAM_EXCHANGE" /\ d = <<"CREATE_STREAMS">>
        \/ cl_state[c] = "CREATE_STREAMS" /\ d = <<"TEST_START", "TEST_RUNNING">>
        \/ cl_state[c] = "TEST_START" /\ d = <<"TEST_RUNNING">>
        \/ cl_state[c] = "TEST_END" /\ d = <<"EXCHANGE_RESULTS">>
        \/ cl_state[c] = "EXCHANGE_RESULTS" /\ d = <<"results", "DISPLAY_RESULTS">>
        \/ cl_state[c] = "EXCHANGE_RESULTS" /\ d = <<"DISPLAY_RESULTS">>
    BY <1>1, <2>1 DEF Alternates, At, AtFirst, AtParams, AtStreams, AtRunning, AtResults, AtDisplay
  <2> HIDE DEF d
  <2>3. \/ cl_state[c] = "0" /\ m = "PARAM_EXCHANGE"
        \/ cl_state[c] = "PARAM_EXCHANGE" /\ m = "CREATE_STREAMS"
        \/ cl_state[c] = "CREATE_STREAMS" /\ m = "TEST_START"
        \/ cl_state[c] = "TEST_START" /\ m = "TEST_RUNNING"
        \/ cl_state[c] = "TEST_END" /\ m = "EXCHANGE_RESULTS"
        \/ cl_state[c] = "EXCHANGE_RESULTS" /\ m \in {"results", "DISPLAY_RESULTS"}
    BY <2>2, <1>2
  <2>4. m \in ClExpects(c)
    BY <2>3 DEF ClExpects
  <2> QED
    BY <2>4 DEF m, d
<1>4. CASE sv_end[Ctrl(c)] # "open"
  <2>1. Remains(c, d)
    BY <1>1, <1>4 DEF ProtocolInv, Conversation, Talks
  <2> HIDE DEF d
  <2>2. ASSUME cl_state[c] = "0" PROVE m \in ClExpects(c)
    <3>1. d \in {<<"PARAM_EXCHANGE">>, <<"ACCESS_DENIED">>, <<"SERVER_TERMINATE">>,
                 <<"PARAM_EXCHANGE", "SERVER_TERMINATE">>}
      BY <1>1, <2>1, <2>2 DEF Remains, ST
    <3>2. m \in {"PARAM_EXCHANGE", "ACCESS_DENIED", "SERVER_TERMINATE"}
      BY <1>2, <3>1
    <3> QED
      BY <2>2, <3>2 DEF ClExpects
  <2>3. ASSUME cl_state[c] = "PARAM_EXCHANGE" PROVE m \in ClExpects(c)
    <3>1. d \in {<<"CREATE_STREAMS">>, <<"SERVER_ERROR">>, <<"SERVER_TERMINATE">>,
                 <<"CREATE_STREAMS", "SERVER_TERMINATE">>}
      BY <1>1, <2>1, <2>3 DEF Remains, ST
    <3>2. m \in {"CREATE_STREAMS", "SERVER_ERROR", "SERVER_TERMINATE"}
      BY <1>2, <3>1
    <3> QED
      BY <2>3, <3>2 DEF ClExpects
  <2>4. ASSUME cl_state[c] = "CREATE_STREAMS" PROVE m \in ClExpects(c)
    <3>1. d \in {<<"SERVER_TERMINATE">>, <<"TEST_START", "TEST_RUNNING">>,
                 <<"TEST_START", "TEST_RUNNING", "SERVER_TERMINATE">>}
      BY <1>1, <2>1, <2>4 DEF Remains, ST
    <3>2. m \in {"TEST_START", "SERVER_TERMINATE"}
      BY <1>2, <3>1
    <3> QED
      BY <2>4, <3>2 DEF ClExpects
  <2>5. ASSUME cl_state[c] = "TEST_START" PROVE m \in ClExpects(c)
    <3>1. d \in {<<"TEST_RUNNING">>, <<"TEST_RUNNING", "SERVER_TERMINATE">>}
      BY <1>1, <2>1, <2>5 DEF Remains, ST
    <3>2. m = "TEST_RUNNING"
      BY <1>2, <3>1
    <3> QED
      BY <2>5, <3>2 DEF ClExpects
  <2>6. ASSUME cl_state[c] = "TEST_RUNNING" PROVE m \in ClExpects(c)
    <3>1. d = <<"SERVER_TERMINATE">>
      BY <1>1, <2>1, <2>6 DEF Remains, ST
    <3>2. m = "SERVER_TERMINATE"
      BY <1>2, <3>1
    <3> QED
      BY <2>6, <3>2 DEF ClExpects
  <2>7. ASSUME cl_state[c] = "TEST_END" PROVE m \in ClExpects(c)
    <3>1. d \in {<<"SERVER_TERMINATE">>, <<"EXCHANGE_RESULTS">>,
                 <<"EXCHANGE_RESULTS", "SERVER_TERMINATE">>}
      BY <1>1, <2>1, <2>7 DEF Remains, ST
    <3>2. m \in {"EXCHANGE_RESULTS", "SERVER_TERMINATE"}
      BY <1>2, <3>1
    <3> QED
      BY <2>7, <3>2 DEF ClExpects
  <2>8. ASSUME cl_state[c] = "EXCHANGE_RESULTS" PROVE m \in ClExpects(c)
    <3>1. d \in {<<"SERVER_TERMINATE">>, <<"results", "DISPLAY_RESULTS">>,
                 <<"results", "DISPLAY_RESULTS", "SERVER_TERMINATE">>,
                 <<"DISPLAY_RESULTS">>, <<"DISPLAY_RESULTS", "SERVER_TERMINATE">>}
      BY <1>1, <2>1, <2>8 DEF Remains, ST
    <3>2. m \in {"results", "DISPLAY_RESULTS", "SERVER_TERMINATE"}
      BY <1>2, <3>1
    <3> QED
      BY <2>8, <3>2 DEF ClExpects
  <2>9. m \in ClExpects(c)
    <3>1. cl_state[c] \in {"0", "PARAM_EXCHANGE", "CREATE_STREAMS", "TEST_START", "TEST_RUNNING",
                           "TEST_END", "EXCHANGE_RESULTS"}
      BY <2>1 DEF Remains
    <3> QED
      BY <2>2, <2>3, <2>4, <2>5, <2>6, <2>7, <2>8, <3>1
  <2> QED
    BY <2>9 DEF m, d
<1> QED
  BY <1>3, <1>4

(* What it says of what the server reads next.                              *)
LEMMA ServerHears ==
  ASSUME ProtocolInv, sv_ctrl # NoConn, sv_open, up[sv_ctrl] # <<>>
  PROVE  Head(up[sv_ctrl]) \in SvExpects
<1> DEFINE u == up[sv_ctrl]
           m == Head(u)
<1>1. u # <<>>
  OBVIOUS
<1>2. (\A x : u = <<x>> => m = x) /\ (\A x, y : u = <<x, y>> => m = x)
  BY HT1, HT2
<1>3. sv_ctrl \in Conns /\ client \in Clients /\ sv_ctrl[1] = client /\ sv_ctrl[2] \in 0 .. MAX_STREAMS
  BY ServerShapes, Connections DEF client
<1>4. \/ sv_pc = "cookie" /\ sv_state = "IPERF_START"
      \/ sv_pc = "params" /\ sv_state = "PARAM_EXCHANGE"
      \/ sv_pc \in {"select", "stream"} /\ sv_state = "CREATE_STREAMS"
      \/ sv_pc = "select" /\ sv_state \in {"TEST_RUNNING", "DISPLAY_RESULTS"}
      \/ sv_pc = "results" /\ sv_state = "EXCHANGE_RESULTS"
  BY DEF ProtocolInv, ServerPlace
<1> HIDE DEF m
<1>5. CASE sv_ctrl[2] # 0
  <2>1. sv_pc \in {"cookie", "params"}
    BY <1>3, <1>5, Connections DEF ProtocolInv, CookieKnown, Acquainted
  <2>2. sv_pc = "cookie" /\ u = <<"cookie">>
    BY <1>1, <1>3, <1>5, <2>1 DEF ProtocolInv, DataCookie
  <2>3. m = "cookie"
    BY <1>2, <2>2
  <2>4. m \in SvExpects
    BY <1>4, <2>2, <2>3 DEF SvExpects
  <2> QED
    BY <2>4 DEF m, u
<1>6. CASE sv_ctrl[2] = 0
  <2>1. sv_ctrl = Ctrl(client)
    BY <1>3, <1>6, Connections
  <2>2. Alternates(client) \/ Leaves(client)
    BY <1>4, <2>1, Arrived
  <2>3. \/ sv_pc = "cookie" /\ u \in Last("cookie")
        \/ sv_pc = "params" /\ u \in Last("params")
        \/ sv_state = "CREATE_STREAMS" /\ u = <<"CLIENT_TERMINATE">>
        \/ sv_state = "TEST_RUNNING" /\ u \in Last("TEST_END")
        \/ sv_pc = "results" /\ u \in Last("results")
        \/ sv_state = "DISPLAY_RESULTS" /\ u \in Last("IPERF_DONE")
    <3>1. CASE Leaves(client)
      BY <1>1, <2>1, <3>1 DEF Leaves
    <3>2. CASE Alternates(client)
      BY <1>1, <2>1, <3>2
         DEF Alternates, At, AtFirst, AtParams, AtStreams, AtRunning, AtResults, AtDisplay, Last
    <3> QED
      BY <2>2, <3>1, <3>2
  <2> HIDE DEF u
  <2>4. ASSUME NEW x, u \in Last(x) PROVE m \in {x, "CLIENT_TERMINATE"}
    BY <1>1, <1>2, <2>4 DEF Last
  <2>5. u = <<"CLIENT_TERMINATE">> => m = "CLIENT_TERMINATE"
    BY <1>2
  <2>6. \/ m = "CLIENT_TERMINATE"
        \/ sv_pc = "cookie" /\ m = "cookie"
        \/ sv_pc = "params" /\ m = "params"
        \/ sv_state = "TEST_RUNNING" /\ m = "TEST_END"
        \/ sv_pc = "results" /\ m = "results"
        \/ sv_state = "DISPLAY_RESULTS" /\ m = "IPERF_DONE"
    BY <2>3, <2>4, <2>5
  <2>7. m \in SvExpects
    BY <1>4, <2>6 DEF SvExpects
  <2> QED
    BY <2>7 DEF m, u
<1> QED
  BY <1>5, <1>6

(* What it says of a client that runs a test.                               *)
LEMMA Together ==
  ASSUME ProtocolInv, NEW c \in Clients, cl_state[c] \in {"TEST_START", "TEST_RUNNING"},
         sv_end[Ctrl(c)] = "open", cl_pc[c] # "end"
  PROVE  sv_ctrl = Ctrl(c) /\ sv_state = "TEST_RUNNING" /\ Len(sv_streams) = Wanted(c)
<1>1. Live(c)
  BY DEF Live, ProtocolInv, ClientSockets, Sockets
<1>2. Alternates(c)
  BY <1>1 DEF ProtocolInv, Conversation, Talks
<1>3. sv_ctrl = Ctrl(c) /\ sv_state = "TEST_RUNNING"
  BY <1>2 DEF Alternates, At, AtFirst, AtParams, AtStreams, AtRunning, AtResults, AtDisplay
<1>4. sv_ctrl # NoConn /\ client = c
  BY <1>3, Connections DEF client
<1>5. sv_open
  BY <1>3, <1>4 DEF ProtocolInv, InPlace
<1> QED
  BY <1>3, <1>4, <1>5 DEF ProtocolInv, ServerPlace

---------------------------------------------------------------------------------
(* The variables of clients, server and connections keep their types: no    *)
(* client makes more connections than its options ask for.                  *)
THEOREM TypeCorrect == Spec => []IperfTypeOK
<1>1. ProtocolInv => IperfTypeOK
  BY DEF ProtocolInv
<1> QED
  BY <1>1, Invariance, PTL

(* The streams that iperf_accept has added are the data connections of the  *)
(* client that is served, in the order in which it made them; a connection  *)
(* of another client gets among them only after that client closed it.      *)
THEOREM StreamsAgree == Spec => []StreamsAreTheClients
<1>1. ProtocolInv => StreamsAreTheClients
  BY DEF ProtocolInv
<1> QED
  BY <1>1, Invariance, PTL

(* iperf_handle_message_client and iperf_handle_message_server never read a *)
(* message that their state does not expect.                                *)
THEOREM AlwaysInStep == Spec => []InStep
<1>1. ProtocolInv => InStep
  BY ClientHears, ServerHears DEF InStep
<1> QED
  BY <1>1, Invariance, PTL

(* A client that runs a test, on a connection that the server has open, is  *)
(* the one that the server runs it with, and all its streams are there.     *)
THEOREM AlwaysTogether == Spec => []RunningTogether
<1>1. ProtocolInv => RunningTogether
  BY Together DEF RunningTogether
<1> QED
  BY <1>1, Invariance, PTL
===============================================================================
