------------------------------ MODULE IperfParams ------------------------------
(***************************************************************************)
(* How a test's parameters come about: the command line of an iperf3       *)
(* client (iperf_parse_arguments), the block size taken from the control   *)
(* connection (iperf_connect), the JSON object that carries the parameters *)
(* to the server (send_parameters, get_parameters), the server's check of  *)
(* the client's credentials, and iperf_reset_test between two clients.     *)
(*                                                                         *)
(* A test (struct iperf_test with its settings) is a record of its role,   *)
(* mode and protocol, sender_has_retransmits, and f, the number in each    *)
(* other field: a flag is 0 or 1, a string or a key is 0 when it is NULL.  *)
(* Intervals are in hundredths of a second.  An option is [opt, arg], arg  *)
(* the numbers in its argument ("5/3" and "5,3" are <<5, 3>>); an option   *)
(* without argument has <<1>>, the value its case stores.  The build is    *)
(* one with SCTP, SSL and every Linux socket option.                       *)
(***************************************************************************)
EXTENDS Integers, Sequences

CONSTANTS
  Options,        \* the options on command lines while there is a server
  ServerOptions,  \* and while there is none
  MSS,            \* what TCP_MAXSEG of a control connection may be (0: no
                  \* use); no TCP has segments smaller than a UDP block may be
  Infinities,     \* what converting infinity to int gives
  MAX_ARGC,       \* bound on the options of one command line
  MAX_OPTIONS     \* bound on the options used while there is a server

VARIABLES
  argv,   \* the options the new process's getopt_long has returned so far
  cl,     \* the new process: its test and the locals of iperf_parse_arguments
  wire,   \* the parameters on the control connection
  sv,     \* the test of the process that serves (role "none": there is none)
  phase,  \* how far the new process has come
  used    \* the options used while there was a server

vars == <<argv, cl, wire, sv, phase, used>>
------------------------------------------------------------------------------
UDP_RATE == 1024 * 1024
MAX_TIME == 86400
MAX_BURST == 1000
MAX_MSS == 9 * 1024
MAX_STREAMS == 128
MAX_TCP_BUFFER == 512 * 1024 * 1024
MAX_BLOCKSIZE == 1024 * 1024
MIN_UDP_BLOCKSIZE == 16
MAX_UDP_BLOCKSIZE == 65507
DEFAULT_UDP_BLKSIZE == 1460
DEFAULT_TCP_BLKSIZE == 128 * 1024
DEFAULT_SCTP_BLKSIZE == 64 * 1024

SENDER == 1
RECEIVER == 0
BIDIRECTIONAL == -1

iperf_defaults == [
  server_port |-> 5201, bind_port |-> 0, stats_interval |-> 100, daemon |-> 0, one_off |-> 0,
  omit |-> 0, duration |-> 10, bytes |-> 0, blocks |-> 0, num_streams |-> 1,
  reverse |-> 0, bidirectional |-> 0, no_delay |-> 0, zerocopy |-> 0, affinity |-> -1,
  server_affinity |-> -1, blksize |-> DEFAULT_TCP_BLKSIZE, rate |-> 0, burst |-> 0,
  fqrate |-> 0, pacing_timer |-> 1000, mss |-> 0, socket_bufsize |-> 0, tos |-> 0,
  flowlabel |-> 0, num_ostreams |-> 0, dont_fragment |-> 0, repeating_payload |-> 0,
  title |-> 0, extra_data |-> 0, congestion |-> 0, get_server_output |-> 0,
  udp_counters_64bit |-> 0, connect_timeout |-> -1, idle_timeout |-> 0,
  rcv_timeout |-> 120000, bitrate_limit |-> 0, bitrate_limit_interval |-> 500,
  bitrate_limit_stats_per_interval |-> 0, client_username |-> 0, authtoken |-> 0,
  server_rsa_private_key |-> 0, server_authorized_users |-> 0, server_skew_threshold |-> 0]

(* Options whose case stores their numbers and sets flags: the fields (or  *)
(* locals of iperf_parse_arguments) they are stored in, the numbers that   *)
(* are not refused, the flags.                                             *)
Case(fields, ok, flags) == [fields |-> fields, ok |-> ok, flags |-> flags]
UpTo(n) == {x \in Int : x <= n}
AtLeast(n) == {x \in Int : x >= n}
Port == 1 .. 65535
Interval == {0} \cup 10 .. 6000
RcvTimeout == 100 .. MAX_TIME * 1000
FlowLabel == 1 .. 1048575

(* The load and the end of a test.                                         *)
LoadCases == [
  port |-> Case(<<"server_port">>, <<Port>>, {}),
  interval |-> Case(<<"stats_interval">>, <<Interval>>, {}),
  daemon |-> Case(<<"daemon">>, <<{1}>>, {"server"}),
  one_off |-> Case(<<"one_off">>, <<{1}>>, {"server"}),
  nstreams |-> Case(<<"num_ostreams">>, <<Int>>, {"client"}),
  bitrate |-> Case(<<"rate", "burst">>, <<Int, 1 .. MAX_BURST>>, {"rate", "client"}),
  server_bitrate_limit |->
    Case(<<"bitrate_limit", "bitrate_limit_interval">>, <<Int, Interval>>, {"server"}),
  time |-> Case(<<"duration">>, <<UpTo(MAX_TIME)>>, {"duration", "client"}),
  num |-> Case(<<"bytes">>, <<Int>>, {"client"}),
  blockcount |-> Case(<<"blocks">>, <<Int>>, {"client"}),
  length |-> Case(<<"len">>, <<Int>>, {"client"}),
  parallel |-> Case(<<"num_streams">>, <<UpTo(MAX_STREAMS)>>, {"client"})]

(* Its sockets and data.                                                   *)
SocketCases == [
  window |-> Case(<<"socket_bufsize">>, <<UpTo(MAX_TCP_BUFFER)>>, {"client"}),
  cport |-> Case(<<"bind_port">>, <<Port>>, {}),
  set_mss |-> Case(<<"mss">>, <<UpTo(MAX_MSS)>>, {"client"}),
  no_delay |-> Case(<<"no_delay">>, <<{1}>>, {"client"}),
  tos |-> Case(<<"tos">>, <<0 .. 255>>, {"client"}),
  dscp |-> Case(<<"tos">>, <<0 .. 255>>, {"client"}),
  extra_data |-> Case(<<"extra_data">>, <<AtLeast(1)>>, {"client"}),
  flowlabel |-> Case(<<"flowlabel">>, <<FlowLabel>>, {"client"}),
  zerocopy |-> Case(<<"zerocopy">>, <<{1}>>, {"client"}),
  repeating_payload |-> Case(<<"repeating_payload">>, <<{1}>>, {"client"}),
  omit |-> Case(<<"omit">>, <<0 .. 60>>, {"client"})]

(* Timeouts, reports, pacing, credentials.                                 *)
OtherCases == [
  idle_timeout |-> Case(<<"idle_timeout">>, <<1 .. MAX_TIME>>, {"server"}),
  rcv_timeout |-> Case(<<"rcv_timeout">>, <<RcvTimeout>>, {"rcv_timeout"}),
  title |-> Case(<<"title">>, <<AtLeast(1)>>, {"client"}),
  congestion |-> Case(<<"congestion">>, <<AtLeast(1)>>, {"client"}),
  get_server_output |-> Case(<<"get_server_output">>, <<{1}>>, {"client"}),
  udp_counters_64bit |-> Case(<<"udp_counters_64bit">>, <<{1}>>, {}),
  fq_rate |-> Case(<<"fqrate">>, <<Int>>, {"client"}),
  dont_fragment |-> Case(<<"dont_fragment">>, <<{1}>>, {"client"}),
  username |-> Case(<<"username">>, <<AtLeast(1)>>, {}),
  rsa_public_key_path |-> Case(<<"public_key">>, <<AtLeast(1)>>, {}),
  rsa_private_key_path |-> Case(<<"private_key">>, <<AtLeast(1)>>, {}),
  authorized_users_path |-> Case(<<"server_authorized_users">>, <<AtLeast(1)>>, {}),
  time_skew_threshold |-> Case(<<"server_skew_threshold">>, <<AtLeast(1)>>, {}),
  pacing_timer |-> Case(<<"pacing_timer">>, <<Int>>, {"client"}),
  connect_timeout |-> Case(<<"connect_timeout">>, <<Int>>, {"client"})]

(* Options that take one number or two; every other takes one.             *)
Pairs == {"bitrate", "server_bitrate_limit", "affinity"}
OptionNames ==
  DOMAIN LoadCases \cup DOMAIN SocketCases \cup DOMAIN OtherCases
  \cup {"server", "client", "udp", "sctp", "reverse", "bidir", "no_fq_socket_pacing", "affinity"}

ASSUME ParamsAssumption ==
  /\ \A o \in Options \cup ServerOptions :
       /\ o.opt \in OptionNames /\ o.arg \in Seq(Int)
       /\ Len(o.arg) \in 1 .. (IF o.opt \in Pairs THEN 2 ELSE 1)
  /\ MSS \subseteq {0} \cup MIN_UDP_BLOCKSIZE .. MAX_UDP_BLOCKSIZE
  /\ Infinities \subseteq Int
  /\ MAX_ARGC \in Nat /\ MAX_OPTIONS \in Nat
------------------------------------------------------------------------------
(* The setters that keep mode and sender_has_retransmits.                  *)
check_sender_has_retransmits(t) ==
  [t EXCEPT !.sender_has_retransmits = t.mode # RECEIVER /\ t.protocol = "tcp"]

Direction(role, reverse, mode) ==
  IF role = "c" THEN (IF reverse = 1 THEN RECEIVER ELSE SENDER)
  ELSE IF role = "s" THEN (IF reverse = 1 THEN SENDER ELSE RECEIVER) ELSE mode

iperf_set_test_role_oneway(t, role) ==
  check_sender_has_retransmits(
    [t EXCEPT !.role = role, !.mode = Direction(role, t.f.reverse, t.mode)])
iperf_set_test_role(t, role) ==
  check_sender_has_retransmits(
    [t EXCEPT !.role = role,
              !.mode = IF t.f.reverse = 0 /\ t.f.bidirectional = 1 THEN BIDIRECTIONAL
                       ELSE Direction(role, t.f.reverse, t.mode)])

iperf_set_test_reverse(t) ==
  check_sender_has_retransmits(
    [t EXCEPT !.f.reverse = 1, !.mode = Direction(t.role, 1, t.mode)])

iperf_set_test_bidirectional(t) == [t EXCEPT !.f.bidirectional = 1, !.mode = BIDIRECTIONAL]

set_protocol(t, id) == check_sender_has_retransmits([t EXCEPT !.protocol = id])

iperf_new_test ==
  set_protocol([role |-> "none", mode |-> RECEIVER, protocol |-> "none",
                sender_has_retransmits |-> FALSE, f |-> iperf_defaults], "tcp")

Start == [test |-> iperf_new_test, flags |-> {}, refused |-> FALSE,
          local |-> [len |-> 0, username |-> 0, public_key |-> 0, private_key |-> 0]]
------------------------------------------------------------------------------
(* One turn of the getopt loop.                                            *)
Stored(g, fields, arg) ==
  [x \in DOMAIN g |-> IF \E i \in DOMAIN arg : fields[i] = x
                      THEN arg[CHOOSE i \in DOMAIN arg : fields[i] = x] ELSE g[x]]

Store(p, row, arg) ==
  IF \E i \in DOMAIN arg : arg[i] \notin row.ok[i] THEN [p EXCEPT !.refused = TRUE]
  ELSE [p EXCEPT !.test.f = Stored(@, row.fields, arg), !.local = Stored(@, row.fields, arg),
                 !.flags = @ \cup row.flags]

(* Without -A's second number no flag is set: only the server's CPU makes  *)
(* it an option for clients.                                               *)
Affinity(arg) == Case(<<"affinity", "server_affinity">>, <<0 .. 1024, 0 .. 1024>>,
                      IF Len(arg) = 2 THEN {"client"} ELSE {})

SetTest(p, t, flags) == [p EXCEPT !.test = t, !.flags = @ \cup flags]
Unless(refused, p, next) == IF refused THEN [p EXCEPT !.refused = TRUE] ELSE next

(* The case of --nstreams has no break: it runs on into the case of -b.    *)
getopt(p, o) ==
  LET t == p.test
  IN CASE o.opt = "server" ->
            Unless(t.role = "c", p, SetTest(p, iperf_set_test_role(t, "s"), {}))
       [] o.opt = "client" ->
            Unless(t.role = "s", p, SetTest(p, iperf_set_test_role(t, "c"), {}))
       [] o.opt = "udp" -> SetTest(p, set_protocol(t, "udp"), {"client"})
       [] o.opt = "sctp" -> SetTest(p, set_protocol(t, "sctp"), {"client"})
       [] o.opt = "reverse" ->
            Unless(t.f.bidirectional = 1, p, SetTest(p, iperf_set_test_reverse(t), {"client"}))
       [] o.opt = "bidir" ->
            Unless(t.f.reverse = 1, p, SetTest(p, iperf_set_test_bidirectional(t), {"client"}))
       [] o.opt = "no_fq_socket_pacing" -> Store(p, OtherCases.fq_rate, <<0>>)
       [] o.opt = "affinity" -> Store(p, Affinity(o.arg), o.arg)
       [] o.opt = "nstreams" ->
            Store(Store(p, LoadCases.nstreams, o.arg), LoadCases.bitrate, o.arg)
       [] o.opt \in DOMAIN SocketCases -> Store(p, SocketCases[o.opt], o.arg)
       [] o.opt \in DOMAIN OtherCases -> Store(p, OtherCases[o.opt], o.arg)
       [] OTHER -> Store(p, LoadCases[o.opt], o.arg)
------------------------------------------------------------------------------
(* After the loop.  Authentication: a client gives a user and a public key *)
(* together, a server a private key and a list of users; loads says        *)
(* whether password and key can be had.                                    *)
RolesRefused(p, loads) ==
  LET t == p.test  l == p.local
      user == l.username # 0  public == l.public_key # 0
      private == l.private_key # 0  users == t.f.server_authorized_users # 0
  IN \/ t.role \notin {"c", "s"}
     \/ t.role = "c" /\ \/ "server" \in p.flags
                        \/ user # public
                        \/ user /\ public /\ ~loads
                        \/ private \/ users \/ t.f.server_skew_threshold # 0
                        \/ "rcv_timeout" \in p.flags /\ t.mode = SENDER
     \/ t.role = "s" /\ \/ "client" \in p.flags
                        \/ user \/ public
                        \/ private # users
                        \/ private /\ ~loads

BlockSize(p) ==
  IF p.local.len # 0 THEN p.local.len
  ELSE CASE p.test.protocol = "udp" -> 0
         [] p.test.protocol = "sctp" -> DEFAULT_SCTP_BLKSIZE
         [] OTHER -> DEFAULT_TCP_BLKSIZE

SizeRefused_tcp(p) == p.test.protocol # "udp" /\ BlockSize(p) \notin 1 .. MAX_BLOCKSIZE
SizeRefused(p) ==
  \/ BlockSize(p) > MAX_BLOCKSIZE
  \/ p.test.protocol # "udp" /\ BlockSize(p) <= 0
  \/ p.test.protocol = "udp" /\ BlockSize(p) > 0
                             /\ BlockSize(p) \notin MIN_UDP_BLOCKSIZE .. MAX_UDP_BLOCKSIZE

EndsRefused(p) ==
  LET f == p.test.f
  IN \/ "duration" \in p.flags /\ (f.bytes # 0 \/ f.blocks # 0)
     \/ f.bytes # 0 /\ f.blocks # 0

(* round(bitrate_limit_interval / stats_interval), a division by zero when *)
(* the interval is 0 (-i 0): infinity is what converting that one gives.   *)
StatsPerInterval(f, infinity) ==
  IF f.bitrate_limit_interval = 0 THEN f.bitrate_limit_stats_per_interval
  ELSE IF f.bitrate_limit_interval <= f.stats_interval THEN 1
  ELSE IF f.stats_interval = 0 THEN infinity
  ELSE (2 * f.bitrate_limit_interval + f.stats_interval) \div (2 * f.stats_interval)

EndsByCount(p) == (p.test.f.bytes # 0 \/ p.test.f.blocks # 0) /\ "duration" \notin p.flags

SettledFields(p, infinity) ==
  [p.test.f EXCEPT
     !.blksize = BlockSize(p),
     !.rate = IF "rate" \in p.flags THEN @
              ELSE IF p.test.protocol = "udp" THEN UDP_RATE ELSE 0,
     !.duration = IF EndsByCount(p) THEN 0 ELSE @,
     !.client_username = p.local.username,
     !.server_rsa_private_key = p.local.private_key,
     !.server_skew_threshold = IF p.local.private_key # 0 /\ @ = 0 THEN 10 ELSE @,
     !.bitrate_limit_stats_per_interval = StatsPerInterval(p.test.f, infinity)]

Settled(p, infinity) == [p.test EXCEPT !.f = SettledFields(p, infinity)]

iperf_parse_arguments(p, loads, infinity) ==
  Unless(RolesRefused(p, loads) \/ SizeRefused(p) \/ EndsRefused(p), p,
         [p EXCEPT !.test = Settled(p, infinity)])
------------------------------------------------------------------------------
(* The JSON object.  congestion_used is still NULL when it is sent.  The   *)
(* token names the user whose password the client gave.                    *)
AlwaysSent == {"omit", "duration", "num_streams"}
SentIfSet == {"bytes", "blocks", "mss", "no_delay", "reverse", "bidirectional",
              "socket_bufsize", "blksize", "rate", "fqrate", "pacing_timer", "burst", "tos",
              "flowlabel", "title", "extra_data", "congestion", "get_server_output",
              "udp_counters_64bit", "repeating_payload", "dont_fragment"}

send_parameters(t) ==
  LET token == IF t.f.client_username # 0 THEN {"authtoken"} ELSE {}
      sent == AlwaysSent \cup {k \in SentIfSet : t.f[k] # 0} \cup token
                \cup {k \in {"server_affinity"} : t.f[k] # -1}
  IN [protocol |-> t.protocol,
      f |-> [k \in sent |-> IF k = "authtoken" THEN t.f.client_username ELSE t.f[k]]]

Received(t, w) ==
  [t EXCEPT !.f = [k \in DOMAIN @ |->
     IF k \in DOMAIN w.f \ {"reverse", "bidirectional"} THEN w.f[k] ELSE @[k]]]
Reversed(t, w) == IF "reverse" \in DOMAIN w.f THEN iperf_set_test_reverse(t) ELSE t
BothWays(t, w) == IF "bidirectional" \in DOMAIN w.f THEN iperf_set_test_bidirectional(t) ELSE t
Retransmits_early(t) == t
Retransmits(t) ==
  IF t.mode # RECEIVER /\ t.protocol = "tcp" THEN [t EXCEPT !.sender_has_retransmits = TRUE] ELSE t

get_parameters(t, w) ==
  Retransmits(BothWays(Reversed(Received(set_protocol(t, w.protocol), w), w), w))

(* User 1 is the one the server's list holds, with the password given.     *)
test_is_authorized(t) ==
  \/ t.f.server_rsa_private_key = 0 \/ t.f.server_authorized_users = 0
  \/ t.f.authtoken = 1

(* What iperf_reset_test puts back; what it leaves stays for the next      *)
(* client's test.                                                          *)
ResetFields == {"omit", "duration", "server_affinity", "reverse", "bidirectional", "no_delay",
                "num_streams", "socket_bufsize", "blksize", "rate", "burst", "mss", "tos",
                "dont_fragment", "authtoken", "client_username", "udp_counters_64bit",
                "title", "extra_data"}
Cleared(f, names) == [k \in DOMAIN f |-> IF k \in names THEN iperf_defaults[k] ELSE f[k]]
Unused(t, f) ==
  set_protocol([t EXCEPT !.role = "s", !.mode = RECEIVER, !.sender_has_retransmits = FALSE,
                         !.f = f], "tcp")
iperf_reset_test_tos(t) == Unused(t, Cleared(t.f, ResetFields \ {"tos"}))
iperf_reset_test_token(t) == Unused(t, Cleared(t.f, ResetFields \ {"authtoken"}))
iperf_reset_test(t) == Unused(t, Cleared(t.f, ResetFields))
------------------------------------------------------------------------------
NoParameters == [protocol |-> "none", f |-> <<>>]

Init ==
  /\ argv = <<>> /\ cl = Start /\ wire = NoParameters /\ sv = iperf_new_test
  /\ phase = "options" /\ used = 0

Serving == sv.role = "s"

(* getopt_long returns the next option of the command line.                *)
GetOpt(o) ==
  /\ phase = "options" /\ Len(argv) < MAX_ARGC /\ used < MAX_OPTIONS
  /\ o \in IF Serving THEN Options ELSE ServerOptions
  /\ \A i \in DOMAIN argv : argv[i].opt # o.opt
  /\ argv' = Append(argv, o) /\ used' = IF Serving THEN used + 1 ELSE used
  /\ cl' = getopt(cl, o)
  /\ phase' = IF cl'.refused THEN "exit" ELSE "options"
  /\ UNCHANGED <<wire, sv>>

(* The command line is at its end.  A process in role s becomes the server *)
(* or finds the address in use and exits.                                  *)
EndOptions(loads, infinity) ==
  /\ phase = "options" /\ argv # <<>>
  /\ cl' = iperf_parse_arguments(cl, loads, infinity)
  /\ phase' = IF ~cl'.refused /\ cl'.test.role = "c" THEN "parsed" ELSE "exit"
  /\ sv' = IF ~cl'.refused /\ cl'.test.role = "s" /\ ~Serving THEN cl'.test ELSE sv
  /\ UNCHANGED <<argv, wire, used>>

(* iperf_connect: UDP's block size may come from the control connection.   *)
Connect(mss) ==
  /\ phase = "parsed" /\ Serving
  /\ cl' = [cl EXCEPT !.test.f.blksize =
              IF cl.test.protocol # "udp" \/ @ # 0 THEN @
              ELSE IF mss # 0 THEN mss ELSE DEFAULT_UDP_BLKSIZE]
  /\ phase' = "connected" /\ UNCHANGED <<argv, wire, sv, used>>

ConnectFails ==
  /\ phase = "parsed"
  /\ phase' = "exit" /\ UNCHANGED <<argv, cl, wire, sv, used>>

SendParameters ==
  /\ phase = "connected"
  /\ wire' = send_parameters(cl.test) /\ phase' = "sent"
  /\ UNCHANGED <<argv, cl, sv, used>>

(* The server's iperf_exchange_parameters; listens: the listener opens.    *)
ExchangeParameters(listens) ==
  /\ phase = "sent"
  /\ sv' = get_parameters(sv, wire)
  /\ phase' = IF ~test_is_authorized(sv') THEN "unauthorized"
              ELSE IF listens THEN "running" ELSE "failed"
  /\ UNCHANGED <<argv, cl, wire, used>>

(* The connection breaks before the whole object is read.                  *)
ParametersLost ==
  /\ phase \in {"connected", "sent"}
  /\ phase' = "failed" /\ UNCHANGED <<argv, cl, wire, sv, used>>

NewProcess == argv' = <<>> /\ cl' = Start /\ wire' = NoParameters /\ phase' = "options"

(* The server's test is over, well or badly, and the next client may come. *)
(* A server started with -1 stops, unless this client was not let in.      *)
TestEnds ==
  /\ phase \in {"running", "failed", "unauthorized"}
  /\ sv' = IF sv.f.one_off = 1 /\ phase # "unauthorized" THEN iperf_new_test
           ELSE iperf_reset_test(sv)
  /\ NewProcess /\ UNCHANGED used

(* A process exits, or stays as the server.                                *)
ParseEnds == phase = "exit" /\ NewProcess /\ UNCHANGED <<sv, used>>

Next ==
  \/ \E o \in Options \cup ServerOptions : GetOpt(o)
  \/ \E loads \in BOOLEAN, infinity \in Infinities : EndOptions(loads, infinity)
  \/ \E mss \in MSS : Connect(mss)
  \/ ConnectFails
  \/ SendParameters
  \/ \E listens \in BOOLEAN : ExchangeParameters(listens)
  \/ ParametersLost
  \/ TestEnds
  \/ ParseEnds

Spec == Init /\ [][Next]_vars
------------------------------------------------------------------------------
(* The client's command line has been accepted.                            *)
Accepted == phase \notin {"options", "exit"}

TestOK(t) ==
  /\ t.role \in {"none", "c", "s"} /\ t.mode \in {SENDER, RECEIVER, BIDIRECTIONAL}
  /\ t.protocol \in {"tcp", "udp", "sctp"} /\ t.sender_has_retransmits \in BOOLEAN
  /\ t.f \in [DOMAIN iperf_defaults -> Int]

InLimits(t) ==
  /\ t.f.duration <= MAX_TIME /\ t.f.num_streams <= MAX_STREAMS /\ t.f.mss <= MAX_MSS
  /\ t.f.omit \in 0 .. 60 /\ t.f.tos \in 0 .. 255 /\ t.f.burst \in 0 .. MAX_BURST
  /\ t.f.socket_bufsize <= MAX_TCP_BUFFER

(* The block size is within the limits of its protocol, or it is negative  *)
(* and for UDP: those sizes the code lets through (iperf_api.c:1553).      *)
SizeInLimits(t) ==
  \/ t.protocol = "udp" /\ t.f.blksize \in MIN_UDP_BLOCKSIZE .. MAX_UDP_BLOCKSIZE
  \/ t.protocol # "udp" /\ t.f.blksize \in 1 .. MAX_BLOCKSIZE
  \/ t.protocol = "udp" /\ t.f.blksize < 0

(* The size will be that of the segments of the control connection.        *)
SizeOpen(t) == t.protocol = "udp" /\ t.f.blksize = 0

(* Every field has its type.  What is accepted, on the client and then on  *)
(* the server, has the duration, streams, MSS, burst and socket buffer     *)
(* within the upper limits of iperf.h, omit and TOS within their ranges    *)
(* (iperf_api.c:1031, 2070), and a block size within both of its limits,   *)
(* from the connection on also when the command line left it open for UDP; *)
(* the exception is a negative size for UDP, which is accepted in spite of *)
(* MIN_UDP_BLOCKSIZE (iperf.h:410, iperf_error.c:167).                     *)
ParamsTypeOK ==
  /\ TestOK(cl.test) /\ TestOK(sv) /\ cl.refused \in BOOLEAN
  /\ phase \in {"options", "exit", "parsed", "connected", "sent", "running", "failed",
                "unauthorized"}
  /\ used \in 0 .. MAX_OPTIONS
  /\ Accepted => InLimits(cl.test)
  /\ phase = "parsed" => SizeInLimits(cl.test) \/ SizeOpen(cl.test)
  /\ Accepted /\ phase # "parsed" => SizeInLimits(cl.test)
  /\ phase = "running" => InLimits(sv) /\ SizeInLimits(sv)

Opposite(mode) ==
  CASE mode = SENDER -> RECEIVER [] mode = RECEIVER -> SENDER [] OTHER -> BIDIRECTIONAL
RetransmitsKnown(t) == t.sender_has_retransmits = (t.mode # RECEIVER /\ t.protocol = "tcp")

(* Whatever options there were and in whatever order, once the parameters  *)
(* are exchanged one side sends what the other receives, and each side     *)
(* knows whether its own sender counts retransmissions, although four      *)
(* setters keep mode and sender_has_retransmits and not every one keeps    *)
(* both (iperf_api.c:560-618, 724, 2153).                                  *)
ModesMatch ==
  phase = "running" =>
    /\ cl.test.role = "c" /\ sv.role = "s" /\ sv.mode = Opposite(cl.test.mode)
    /\ RetransmitsKnown(cl.test) /\ RetransmitsKnown(sv)

(* Fields that iperf_reset_test leaves alone, and the one that a server's  *)
(* own command line can set: --udp-counters-64bit is not refused there,    *)
(* and holds until the first reset (iperf_api.c:1402, 2970).               *)
Sticky == {"bytes", "blocks", "fqrate", "pacing_timer", "flowlabel", "congestion",
           "get_server_output", "repeating_payload", "udp_counters_64bit"}

(* The server runs the test the client asked for: every parameter has the  *)
(* client's value, up to those that are sent only when they are set, where *)
(* one that an earlier client or the server's user has set remains         *)
(* (iperf_api.c:1984, 2070, 2869).                                         *)
SameTest ==
  phase = "running" =>
    /\ sv.protocol = cl.test.protocol
    /\ \A k \in AlwaysSent \cup SentIfSet \cup {"server_affinity"} :
         sv.f[k] = cl.test.f[k] \/ (k \in Sticky /\ cl.test.f[k] = 0)

(* A server that asks for credentials runs tests of clients only whose own *)
(* credentials it has checked, never on an earlier client's                *)
(* (iperf_api.c:1847, 1902, 2950).                                         *)
AdmittedByOwnToken ==
  phase = "running" /\ sv.f.server_rsa_private_key # 0 /\ sv.f.server_authorized_users # 0
    => cl.test.f.client_username = 1
------------------------------------------------------------------------------
(* Options that store to the same field, where the last one counts.        *)
Overlap == {{"udp", "sctp"}, {"tos", "dscp"}, {"bitrate", "nstreams"},
            {"fq_rate", "no_fq_socket_pacing"}}

(* What a whole command line leads to: the loop ends with the first option *)
(* that is refused.                                                        *)
Turn(p, o) == IF p.refused THEN p ELSE getopt(p, o)
Turns(line) ==
  LET q[i \in 0 .. Len(line)] == IF i = 0 THEN Start ELSE Turn(q[i - 1], line[i])
  IN q[Len(line)]
Outcome(line) ==
  LET p == Turns(line) IN IF p.refused THEN p ELSE iperf_parse_arguments(p, TRUE, 0)
SameOutcome(p, q) == p.refused = q.refused /\ (p.refused \/ p.test = q.test)
Swapped(line, i) == [line EXCEPT ![i] = line[i + 1], ![i + 1] = line[i]]

(* It makes no difference in which order the options are given, unless two *)
(* of them set the same thing: neighbours can always be swapped, although  *)
(* the cases read what earlier ones have left (iperf_api.c:1031-1464).     *)
OrderDoesNotMatter ==
  phase \in {"options", "exit"} => \A i \in 1 .. Len(argv) - 1 :
    \/ {argv[i].opt, argv[i + 1].opt} \in Overlap
    \/ SameOutcome(Outcome(argv), Outcome(Swapped(argv, i)))
===============================================================================
