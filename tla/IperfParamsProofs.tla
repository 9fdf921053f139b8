--------------------------- MODULE IperfParamsProofs ---------------------------
(***************************************************************************)
(* Theorems: whatever options there are on the command lines of a server   *)
(* and of its clients, one after the other, client and server agree on the *)
(* test they run (ParamsTypeOK, ModesMatch, SameTest, AdmittedByOwnToken), *)
(* and the order of the options makes no difference (OrderDoesNotMatter).  *)
(***************************************************************************)
EXTENDS IperfParams, WellFoundedInduction, TLAPS

Fields == DOMAIN iperf_defaults
Modes == {SENDER, RECEIVER, BIDIRECTIONAL}
LocalNames == {"len", "username", "public_key", "private_key"}
FlagNames == {"server", "client", "rate", "duration", "rcv_timeout"}

Tests == [role : {"none", "c", "s"}, mode : Modes, protocol : {"tcp", "udp", "sctp"},
          sender_has_retransmits : BOOLEAN, f : [Fields -> Int]]
Processes == [test : Tests, flags : SUBSET FlagNames, refused : BOOLEAN,
              local : [LocalNames -> Int]]

(* The mode that follows from role and direction; sender_has_retransmits is *)
(* right once the role of a client is known.                                *)
ModeKept(t) ==
  /\ t.f["reverse"] \in {0, 1} /\ t.f["bidirectional"] \in {0, 1}
  /\ t.f["bidirectional"] = 1 => t.mode = BIDIRECTIONAL /\ t.f["reverse"] = 0
  /\ t.f["bidirectional"] = 0 => t.mode = Direction(t.role, t.f["reverse"], RECEIVER)
  /\ t.role = "c" => RetransmitsKnown(t)

(* The limits that the cases of the getopt loop enforce.                    *)
Limit(k) ==
  {x \in Int : /\ k = "stats_interval" => x >= 0
               /\ k = "duration" => x <= MAX_TIME
               /\ k = "num_streams" => x <= MAX_STREAMS
               /\ k = "mss" => x <= MAX_MSS
               /\ k = "socket_bufsize" => x <= MAX_TCP_BUFFER
               /\ k = "omit" => x \in 0 .. 60
               /\ k = "tos" => x \in 0 .. 255
               /\ k = "burst" => x \in 0 .. MAX_BURST}
Limited(t) == \A k \in Fields : t.f[k] \in Limit(k)

(* Fields that only an option for clients, or a client's parameters, set.   *)
ClientFields ==
  (SentIfSet \ Sticky) \cup {"reverse", "bidirectional", "server_affinity", "authtoken"}
Untouched(t) == \A k \in ClientFields : t.f[k] = iperf_defaults[k]

(* A process on its way through its command line.                           *)
Parsing(p) ==
  /\ p \in Processes /\ ModeKept(p.test) /\ Limited(p.test)
  /\ p.test.f["authtoken"] = 0
  /\ "client" \notin p.flags =>
       Untouched(p.test) /\ p.test.protocol = "tcp" /\ p.local["len"] = 0
  /\ "rate" \in p.flags => "client" \in p.flags

(* The test of a client whose command line was accepted.                    *)
Asked(t) ==
  /\ t.role = "c" /\ ModeKept(t) /\ InLimits(t)
  /\ SizeInLimits(t) \/ SizeOpen(t)

(* The test of a server that waits for a client.                            *)
Fresh(t) == t.role = "s" /\ t.mode = RECEIVER /\ Untouched(t)

ParamsInv ==
  /\ phase \in {"options", "exit", "parsed", "connected", "sent", "running", "failed",
                "unauthorized"}
  /\ used \in 0 .. MAX_OPTIONS /\ sv \in Tests /\ cl \in Processes
  /\ phase = "options" => Parsing(cl)
  /\ Accepted => Asked(cl.test)
  /\ phase \in {"connected", "sent"} => Serving
  /\ Accepted /\ phase # "parsed" => SizeInLimits(cl.test)
  /\ Serving /\ phase \in {"options", "exit", "parsed", "connected", "sent"} => Fresh(sv)
  /\ phase = "sent" => wire = send_parameters(cl.test)
  /\ phase = "running" => InLimits(sv) /\ SizeInLimits(sv)
  /\ ModesMatch /\ SameTest /\ AdmittedByOwnToken

---------------------------------------------------------------------------------
(* The limits of a block size, in their order.                              *)
LEMMA SizeLimits ==
  /\ MIN_UDP_BLOCKSIZE \in Nat /\ MAX_UDP_BLOCKSIZE \in Nat /\ MAX_BLOCKSIZE \in Nat
  /\ DEFAULT_UDP_BLKSIZE \in Nat /\ 0 < MIN_UDP_BLOCKSIZE
  /\ MIN_UDP_BLOCKSIZE <= DEFAULT_UDP_BLKSIZE /\ DEFAULT_UDP_BLKSIZE <= MAX_UDP_BLOCKSIZE
  BY SMT DEF MIN_UDP_BLOCKSIZE, MAX_UDP_BLOCKSIZE, MAX_BLOCKSIZE, DEFAULT_UDP_BLKSIZE

(* The fields of a test and what iperf_defaults puts there.                 *)
LEMMA Defaults ==
  /\ iperf_defaults \in [Fields -> Int]
  /\ ClientFields \subseteq Fields /\ AlwaysSent \subseteq Fields /\ SentIfSet \subseteq Fields
  /\ {"reverse", "bidirectional", "server_affinity", "authtoken", "blksize", "rate", "duration",
      "num_streams", "mss", "socket_bufsize", "omit", "tos", "burst", "client_username",
      "server_rsa_private_key", "server_authorized_users", "server_skew_threshold", "bytes", "blocks", "one_off",
      "bitrate_limit_stats_per_interval", "bitrate_limit_interval", "stats_interval"} \subseteq Fields
  /\ iperf_defaults["reverse"] = 0 /\ iperf_defaults["bidirectional"] = 0
  /\ iperf_defaults["authtoken"] = 0 /\ iperf_defaults["server_affinity"] = -1
  /\ iperf_defaults["blksize"] = DEFAULT_TCP_BLKSIZE /\ iperf_defaults["rate"] = 0
  /\ \A k \in (SentIfSet \ Sticky) \ {"blksize"} : iperf_defaults[k] = 0
  /\ \A k \in Fields : iperf_defaults[k] \in Limit(k)
<1>1. /\ ClientFields \subseteq Fields /\ AlwaysSent \subseteq Fields /\ SentIfSet \subseteq Fields
  BY DEF ClientFields, AlwaysSent, SentIfSet, Fields, iperf_defaults
<1>2. iperf_defaults \in [Fields -> Int]
  BY DEF Fields, iperf_defaults, DEFAULT_TCP_BLKSIZE
<1>3. {"reverse", "bidirectional", "server_affinity", "authtoken", "blksize", "rate", "duration",
      "num_streams", "mss", "socket_bufsize", "omit", "tos", "burst", "client_username",
      "server_rsa_private_key", "server_authorized_users", "server_skew_threshold", "bytes", "blocks", "one_off",
      "bitrate_limit_stats_per_interval", "bitrate_limit_interval", "stats_interval"} \subseteq Fields
  BY DEF Fields, iperf_defaults
<1>4. /\ iperf_defaults["reverse"] = 0 /\ iperf_defaults["bidirectional"] = 0
      /\ iperf_defaults["authtoken"] = 0 /\ iperf_defaults["server_affinity"] = -1
      /\ iperf_defaults["blksize"] = DEFAULT_TCP_BLKSIZE /\ iperf_defaults["rate"] = 0
  BY DEF iperf_defaults
<1>5. \A k \in (SentIfSet \ Sticky) \ {"blksize"} : iperf_defaults[k] = 0
  BY DEF SentIfSet, Sticky, iperf_defaults
<1>6. /\ iperf_defaults["duration"] = 10 /\ iperf_defaults["num_streams"] = 1
      /\ iperf_defaults["mss"] = 0 /\ iperf_defaults["omit"] = 0 /\ iperf_defaults["tos"] = 0
      /\ iperf_defaults["burst"] = 0 /\ iperf_defaults["stats_interval"] = 100
      /\ iperf_defaults["socket_bufsize"] = 0
  BY DEF iperf_defaults
<1>7. \A k \in Fields : iperf_defaults[k] \in Limit(k)
  BY <1>2, <1>6 DEF Limit, MAX_TIME, MAX_MSS, MAX_STREAMS, MAX_BURST, MAX_TCP_BUFFER
<1> QED
  BY <1>1, <1>2, <1>3, <1>4, <1>5, <1>7

(* The setters, field by field.                                             *)
AnyTests == [role : {"none", "c", "s"}, mode : Modes, protocol : {"none", "tcp", "udp", "sctp"},
             sender_has_retransmits : BOOLEAN, f : [Fields -> Int]]

(* check_sender_has_retransmits changes that field only.                    *)
LEMMA CheckFacts ==
  ASSUME NEW t \in AnyTests, NEW r, r = check_sender_has_retransmits(t)
  PROVE  /\ r \in AnyTests /\ r.role = t.role /\ r.mode = t.mode /\ r.protocol = t.protocol
         /\ r.f = t.f /\ RetransmitsKnown(r)
<1> DEFINE b == t.mode # RECEIVER /\ t.protocol = "tcp"
<1>1. b \in BOOLEAN /\ r = [t EXCEPT !.sender_has_retransmits = b]
  BY DEF check_sender_has_retransmits
<1> HIDE DEF b
<1>2. /\ r \in AnyTests /\ r.role = t.role /\ r.mode = t.mode /\ r.protocol = t.protocol
      /\ r.f = t.f /\ r.sender_has_retransmits = b
  BY <1>1 DEF AnyTests
<1> QED
  BY <1>2 DEF RetransmitsKnown, b

(* set_protocol.                                                            *)
LEMMA ProtocolFacts ==
  ASSUME NEW t \in AnyTests, NEW id \in {"tcp", "udp", "sctp"}, NEW r, r = set_protocol(t, id)
  PROVE  /\ r \in Tests /\ r.role = t.role /\ r.mode = t.mode /\ r.protocol = id
         /\ r.f = t.f /\ RetransmitsKnown(r)
<1> DEFINE u == [t EXCEPT !.protocol = id]
<1>1. u \in AnyTests /\ u.role = t.role /\ u.mode = t.mode /\ u.protocol = id /\ u.f = t.f
  BY DEF AnyTests
<1>2. r = check_sender_has_retransmits(u)
  BY DEF set_protocol
<1> HIDE DEF u
<1>3. /\ r \in AnyTests /\ r.role = t.role /\ r.mode = t.mode /\ r.protocol = id
      /\ r.f = t.f /\ RetransmitsKnown(r)
  BY <1>1, <1>2, CheckFacts
<1> QED
  BY <1>3 DEF AnyTests, Tests

(* A process that starts.                                                   *)
LEMMA StartIsParsing == Parsing(Start) /\ iperf_new_test \in Tests /\ iperf_new_test.role = "none"
<1> DEFINE t == [role |-> "none", mode |-> RECEIVER, protocol |-> "none",
                 sender_has_retransmits |-> FALSE, f |-> iperf_defaults]
<1>0. t \in AnyTests /\ t.role = "none" /\ t.mode = RECEIVER /\ t.f = iperf_defaults
  BY Defaults DEF AnyTests, Modes
<1>1. iperf_new_test = set_protocol(t, "tcp")
  BY Zenon DEF iperf_new_test
<1> HIDE DEF t
<1>2. /\ iperf_new_test \in Tests /\ iperf_new_test.role = "none" /\ iperf_new_test.mode = RECEIVER
      /\ iperf_new_test.f = iperf_defaults /\ iperf_new_test.protocol = "tcp"
  BY <1>0, <1>1, ProtocolFacts
<1>3. /\ Start.test = iperf_new_test /\ Start.flags = {} /\ Start.refused = FALSE
      /\ Start.local = [len |-> 0, username |-> 0, public_key |-> 0, private_key |-> 0]
  BY DEF Start
<1>4. Start.local \in [LocalNames -> Int] /\ Start.local["len"] = 0
  BY <1>3 DEF LocalNames
<1>5. Start \in Processes
  BY <1>2, <1>4 DEF Start, Processes
<1>6. ModeKept(Start.test) /\ Limited(Start.test) /\ Untouched(Start.test)
  BY <1>2, <1>3, Defaults DEF ModeKept, Limited, Untouched, Direction
<1> QED
  BY <1>1, <1>2, <1>3, <1>4, <1>5, <1>6, Defaults DEF Parsing

(* A number is stored in one field.                                         *)
LEMMA OneField ==
  ASSUME NEW g \in [Fields -> Int], NEW x \in Fields, NEW v \in Int
  PROVE  [g EXCEPT ![x] = v] \in [Fields -> Int]
OBVIOUS

(* iperf_set_test_role.                                                     *)
LEMMA RoleFacts ==
  ASSUME NEW t \in Tests, NEW role \in {"c", "s"}, ModeKept(t), NEW r, r = iperf_set_test_role(t, role)
  PROVE  /\ r \in Tests /\ ModeKept(r) /\ r.f = t.f /\ r.role = role /\ r.protocol = t.protocol
         /\ RetransmitsKnown(r)
<1> DEFINE m == IF t.f.reverse = 0 /\ t.f.bidirectional = 1 THEN BIDIRECTIONAL
                ELSE Direction(role, t.f.reverse, t.mode)
           u == [t EXCEPT !.role = role, !.mode = m]
<1>1. t \in AnyTests /\ m \in Modes
  BY DEF Tests, AnyTests, Modes, Direction
<1>2. t.f["reverse"] \in {0, 1} /\ t.f["bidirectional"] \in {0, 1}
      /\ (t.f["bidirectional"] = 1 => m = BIDIRECTIONAL /\ t.f["reverse"] = 0)
      /\ (t.f["bidirectional"] = 0 => m = Direction(role, t.f["reverse"], RECEIVER))
  BY DEF ModeKept, Direction
<1> HIDE DEF m
<1>3. u \in AnyTests /\ u.role = role /\ u.mode = m /\ u.f = t.f /\ u.protocol = t.protocol
  BY <1>1 DEF AnyTests
<1>4. r = check_sender_has_retransmits(u)
  BY DEF iperf_set_test_role, m
<1> HIDE DEF u
<1>5. /\ r \in AnyTests /\ r.role = role /\ r.mode = m /\ r.protocol = t.protocol
      /\ r.f = t.f /\ RetransmitsKnown(r)
  BY <1>3, <1>4, CheckFacts
<1>6. r \in Tests
  BY <1>5 DEF Tests, AnyTests
<1> QED
  BY <1>2, <1>5, <1>6 DEF ModeKept

(* iperf_set_test_reverse.                                                  *)
LEMMA ReverseFacts ==
  ASSUME NEW t \in Tests, NEW r, r = iperf_set_test_reverse(t)
  PROVE  /\ r \in Tests /\ r.f = [t.f EXCEPT !["reverse"] = 1] /\ r.role = t.role
         /\ r.mode = Direction(t.role, 1, t.mode) /\ r.protocol = t.protocol /\ RetransmitsKnown(r)
<1> DEFINE m == Direction(t.role, 1, t.mode)
           u == [t EXCEPT !.f.reverse = 1, !.mode = m]
<1>1. t \in AnyTests /\ m \in Modes
  BY DEF Tests, AnyTests, Modes, Direction
<1> HIDE DEF m
<1>3. /\ u \in AnyTests /\ u.role = t.role /\ u.mode = m /\ u.f = [t.f EXCEPT !["reverse"] = 1]
      /\ u.protocol = t.protocol
  <2> DEFINE g == [t.f EXCEPT !["reverse"] = 1]
  <2>0. t.f \in [Fields -> Int]
    BY DEF Tests
  <2>1. g \in [Fields -> Int]
    BY <2>0, Defaults, OneField
  <2>2. u = [t EXCEPT !.f = g, !.mode = m]
    OBVIOUS
  <2> HIDE DEF g, u
  <2>3. u \in AnyTests /\ u.role = t.role /\ u.mode = m /\ u.f = g /\ u.protocol = t.protocol
    BY <1>1, <2>1, <2>2 DEF AnyTests
  <2> QED
    BY <2>3 DEF g
<1>4. r = check_sender_has_retransmits(u)
  BY DEF iperf_set_test_reverse, m
<1> HIDE DEF u
<1>5. /\ r \in AnyTests /\ r.role = t.role /\ r.mode = m /\ r.protocol = t.protocol
      /\ r.f = [t.f EXCEPT !["reverse"] = 1] /\ RetransmitsKnown(r)
  BY <1>3, <1>4, CheckFacts
<1>6. r \in Tests
  BY <1>5 DEF Tests, AnyTests
<1> QED
  BY <1>5, <1>6 DEF m

(* iperf_set_test_bidirectional, which leaves sender_has_retransmits alone. *)
LEMMA BidirectionalFacts ==
  ASSUME NEW t \in Tests, NEW r, r = iperf_set_test_bidirectional(t)
  PROVE  /\ r \in Tests /\ r.f = [t.f EXCEPT !["bidirectional"] = 1] /\ r.role = t.role
         /\ r.mode = BIDIRECTIONAL /\ r.protocol = t.protocol
         /\ r.sender_has_retransmits = t.sender_has_retransmits
<1> DEFINE g == [t.f EXCEPT !["bidirectional"] = 1]
<1>0. t.f \in [Fields -> Int]
  BY DEF Tests
<1>1. g \in [Fields -> Int]
  BY <1>0, Defaults, OneField
<1>2. r = [t EXCEPT !.f = g, !.mode = BIDIRECTIONAL]
  BY DEF iperf_set_test_bidirectional
<1> HIDE DEF g
<1>3. /\ r \in Tests /\ r.f = g /\ r.role = t.role /\ r.mode = BIDIRECTIONAL
      /\ r.protocol = t.protocol /\ r.sender_has_retransmits = t.sender_has_retransmits
  BY <1>1, <1>2 DEF Tests, Modes
<1> QED
  BY <1>3 DEF g

---------------------------------------------------------------------------------
(* Storing the numbers of an option.                                        *)
LEMMA StoredFacts ==
  ASSUME NEW g, NEW fields, NEW arg, NEW h, h = Stored(g, fields, arg)
  PROVE  /\ DOMAIN h = DOMAIN g
         /\ \A x \in DOMAIN g :
              \/ \E i \in DOMAIN arg : fields[i] = x /\ h[x] = arg[i]
              \/ h[x] = g[x] /\ \A i \in DOMAIN arg : fields[i] # x
         /\ h = [x \in DOMAIN g |-> h[x]]
<1>1. DOMAIN h = DOMAIN g /\ h = [x \in DOMAIN g |-> h[x]]
  BY DEF Stored
<1>2. ASSUME NEW x \in DOMAIN g
      PROVE  \/ \E i \in DOMAIN arg : fields[i] = x /\ h[x] = arg[i]
             \/ h[x] = g[x] /\ \A i \in DOMAIN arg : fields[i] # x
  <2> DEFINE j == CHOOSE i \in DOMAIN arg : fields[i] = x
  <2>1. h[x] = IF \E i \in DOMAIN arg : fields[i] = x THEN arg[j] ELSE g[x]
    BY DEF Stored
  <2>2. (\E i \in DOMAIN arg : fields[i] = x) => j \in DOMAIN arg /\ fields[j] = x
    BY Zenon
  <2> HIDE DEF j
  <2> QED
    BY <2>1, <2>2
<1> QED
  BY <1>1, <1>2

(* What has to be true of a row for an argument: it stores to fields of the *)
(* test or to locals, within the limits, and says so when the option is     *)
(* one for clients.                                                         *)
RowFits(row, arg) ==
  /\ row.flags \subseteq FlagNames /\ ("rate" \in row.flags => "client" \in row.flags)
  /\ \A i \in DOMAIN arg :
       /\ arg[i] \in Int
       /\ row.fields[i] \notin {"reverse", "bidirectional", "authtoken"}
       /\ row.fields[i] \in ClientFields \cup {"len"} => "client" \in row.flags
       /\ row.ok[i] \cap Int \subseteq Limit(row.fields[i])

(* An option that fits its row is stored, or refused.                       *)
LEMMA StoreKeeps ==
  ASSUME NEW p, Parsing(p), NEW row, NEW arg, RowFits(row, arg)
  PROVE  Parsing(Store(p, row, arg))
<1> DEFINE q == Store(p, row, arg)
<1>0. p \in Processes /\ ModeKept(p.test) /\ Limited(p.test) /\ p.test.f["authtoken"] = 0
  BY DEF Parsing
<1>1. CASE \E i \in DOMAIN arg : arg[i] \notin row.ok[i]
  <2>1. q = [p EXCEPT !.refused = TRUE]
    BY <1>1 DEF Store
  <2>2. q \in Processes /\ q.test = p.test /\ q.flags = p.flags /\ q.local = p.local
    BY <1>0, <2>1 DEF Processes
  <2> HIDE DEF q
  <2>3. Parsing(q)
    BY <2>2 DEF Parsing
  <2> QED
    BY <2>3 DEF q
<1>2. CASE ~ \E i \in DOMAIN arg : arg[i] \notin row.ok[i]
  <2> DEFINE g == Stored(p.test.f, row.fields, arg)
             l == Stored(p.local, row.fields, arg)
  <2>1. q = [p EXCEPT !.test.f = g, !.local = l, !.flags = @ \cup row.flags]
    BY <1>2 DEF Store
  <2>2. p.test \in Tests /\ p.test.f \in [Fields -> Int] /\ p.local \in [LocalNames -> Int] /\ p.flags \subseteq FlagNames
    BY <1>0 DEF Processes, Tests
  <2>3. /\ DOMAIN g = Fields /\ g = [x \in Fields |-> g[x]]
        /\ \A x \in Fields : \/ \E i \in DOMAIN arg : row.fields[i] = x /\ g[x] = arg[i]
                             \/ g[x] = p.test.f[x]
    BY <2>2, StoredFacts
  <2>4. /\ DOMAIN l = LocalNames /\ l = [x \in LocalNames |-> l[x]]
        /\ \A x \in LocalNames : \/ \E i \in DOMAIN arg : row.fields[i] = x /\ l[x] = arg[i]
                                 \/ l[x] = p.local[x]
    BY <2>2, StoredFacts
  <2> HIDE DEF g, l
  <2>5. g \in [Fields -> Int]
    <3>1. \A x \in Fields : g[x] \in Int
      BY <2>2, <2>3 DEF RowFits
    <3> QED
      BY <2>3, <3>1
  <2>6. l \in [LocalNames -> Int]
    <3>1. \A x \in LocalNames : l[x] \in Int
      BY <2>2, <2>4 DEF RowFits
    <3> QED
      BY <2>4, <3>1
  <2>7. /\ q \in Processes /\ q.flags = p.flags \cup row.flags /\ q.local = l
        /\ q.test.f = g /\ q.test.role = p.test.role /\ q.test.mode = p.test.mode
        /\ q.test.protocol = p.test.protocol
        /\ q.test.sender_has_retransmits = p.test.sender_has_retransmits
    <3> DEFINE u == [p.test EXCEPT !.f = g]
    <3>1. /\ u \in Tests /\ u.f = g /\ u.role = p.test.role /\ u.mode = p.test.mode
          /\ u.protocol = p.test.protocol
          /\ u.sender_has_retransmits = p.test.sender_has_retransmits
      BY <2>2, <2>5 DEF Tests
    <3>2. q = [p EXCEPT !.test = u, !.local = l, !.flags = p.flags \cup row.flags]
      BY <1>0, <2>1 DEF Processes
    <3> HIDE DEF u, q
    <3>3. q \in Processes /\ q.flags = p.flags \cup row.flags /\ q.local = l /\ q.test = u
      BY <1>0, <2>2, <2>6, <3>1, <3>2 DEF Processes, RowFits
    <3> QED
      BY <3>1, <3>3
  <2> HIDE DEF q
  <2>8. /\ g["reverse"] = p.test.f["reverse"] /\ g["bidirectional"] = p.test.f["bidirectional"]
        /\ g["authtoken"] = p.test.f["authtoken"]
    BY <2>3, Defaults DEF RowFits
  <2>9. ModeKept(q.test)
    BY <1>0, <2>7, <2>8 DEF ModeKept, RetransmitsKnown
  <2>10. Limited(q.test)
    <3>1. ASSUME NEW k \in Fields PROVE g[k] \in Limit(k)
      <4>1. p.test.f[k] \in Limit(k)
        BY <1>0 DEF Limited
      <4>2. CASE \E i \in DOMAIN arg : row.fields[i] = k /\ g[k] = arg[i]
        BY <1>2, <4>2 DEF RowFits
      <4> QED
        BY <2>3, <4>1, <4>2
    <3> QED
      BY <2>7, <3>1 DEF Limited
  <2>11. ASSUME "client" \notin q.flags
         PROVE  Untouched(q.test) /\ q.test.protocol = "tcp" /\ q.local["len"] = 0
    <3>1. "client" \notin p.flags /\ "client" \notin row.flags
      BY <2>7, <2>11
    <3>2. Untouched(p.test) /\ p.test.protocol = "tcp" /\ p.local["len"] = 0
      BY <3>1 DEF Parsing
    <3>3. \A k \in ClientFields : g[k] = p.test.f[k]
      BY <2>3, <3>1, Defaults DEF RowFits
    <3>4. l["len"] = p.local["len"]
      BY <2>4, <3>1 DEF RowFits, LocalNames
    <3> QED
      BY <2>7, <3>2, <3>3, <3>4 DEF Untouched
  <2>12. "rate" \in q.flags => "client" \in q.flags
    BY <2>7 DEF Parsing, RowFits
  <2>13. Parsing(q)
    BY <1>0, <2>7, <2>8, <2>9, <2>10, <2>11, <2>12 DEF Parsing
  <2> QED
    BY <2>13 DEF q
<1> QED
  BY <1>1, <1>2

(* The name, the numbers and the flags of a row with one field.             *)
Fits(name, ok, flags) ==
  /\ flags \subseteq FlagNames /\ ("rate" \in flags => "client" \in flags)
  /\ name \notin {"reverse", "bidirectional", "authtoken"}
  /\ name \in ClientFields \cup {"len"} => "client" \in flags
  /\ ok \cap Int \subseteq Limit(name)

(* The fields that only clients set, by name.                               *)
LEMMA ClientNames ==
  ClientFields = {"mss", "no_delay", "reverse", "bidirectional", "socket_bufsize", "blksize", "rate",
                  "burst", "tos", "title", "extra_data", "dont_fragment", "server_affinity", "authtoken"}
BY DEF ClientFields, SentIfSet, Sticky

(* A row with one field fits an argument with one number.                   *)
LEMMA OneNumber ==
  ASSUME NEW name, NEW ok, NEW flags, Fits(name, ok, flags), NEW arg \in Seq(Int), Len(arg) = 1
  PROVE  RowFits(Case(<<name>>, <<ok>>, flags), arg)
<1> DEFINE row == Case(<<name>>, <<ok>>, flags)
<1>1. row.fields = <<name>> /\ row.ok = <<ok>> /\ row.flags = flags
  BY DEF Case
<1>2. DOMAIN arg = {1} /\ arg[1] \in Int
  OBVIOUS
<1>3. row.fields[1] = name /\ row.ok[1] = ok
  <2>1. \A a : <<a>>[1] = a
    OBVIOUS
  <2> HIDE DEF row
  <2> QED
    BY <1>1, <2>1
<1> HIDE DEF row
<1>4. RowFits(row, arg)
  BY <1>1, <1>2, <1>3 DEF RowFits, Fits
<1> QED
  BY <1>4 DEF row

(* Options that set the same thing are of one group, and every field, local *)
(* and choice is set by the options of one group.                           *)
Group(opt) ==
  IF opt = "client" THEN "server" ELSE IF opt = "sctp" THEN "udp" ELSE IF opt = "dscp" THEN "tos"
  ELSE IF opt = "nstreams" THEN "bitrate" ELSE IF opt = "no_fq_socket_pacing" THEN "fq_rate" ELSE opt

Home == [
  server_port |-> "port", stats_interval |-> "interval", daemon |-> "daemon",
  one_off |-> "one_off", num_ostreams |-> "bitrate", duration |-> "time", bytes |-> "num",
  blocks |-> "blockcount", len |-> "length", num_streams |-> "parallel",
  socket_bufsize |-> "window", bind_port |-> "cport", mss |-> "set_mss",
  no_delay |-> "no_delay", tos |-> "tos", extra_data |-> "extra_data",
  flowlabel |-> "flowlabel", zerocopy |-> "zerocopy",
  repeating_payload |-> "repeating_payload", omit |-> "omit", idle_timeout |-> "idle_timeout",
  rcv_timeout |-> "rcv_timeout", title |-> "title", congestion |-> "congestion",
  get_server_output |-> "get_server_output", udp_counters_64bit |-> "udp_counters_64bit",
  fqrate |-> "fq_rate", dont_fragment |-> "dont_fragment", username |-> "username",
  public_key |-> "rsa_public_key_path", private_key |-> "rsa_private_key_path",
  server_authorized_users |-> "authorized_users_path",
  server_skew_threshold |-> "time_skew_threshold", pacing_timer |-> "pacing_timer",
  connect_timeout |-> "connect_timeout", rate |-> "bitrate", burst |-> "bitrate",
  bitrate_limit |-> "server_bitrate_limit", bitrate_limit_interval |-> "server_bitrate_limit",
  affinity |-> "affinity", server_affinity |-> "affinity", role |-> "server",
  protocol |-> "udp", reverse |-> "reverse", bidirectional |-> "bidir"]

(* A row with one field, and the group of its option.                       *)
OneFieldRow(row, opt) ==
  \E name, ok, flags : /\ row = Case(<<name>>, <<ok>>, flags) /\ Fits(name, ok, flags)
                       /\ Home[name] = Group(opt)

(* The rows of LoadCases that take one number.                              *)
LEMMA LoadRows ==
  \A opt \in DOMAIN LoadCases \ {"bitrate", "server_bitrate_limit"} : OneFieldRow(LoadCases[opt], opt)
<1>1. OneFieldRow(LoadCases["port"], "port")
  <2>1. LoadCases["port"] = Case(<<"server_port">>, <<Port>>, {})
    BY SMT DEF LoadCases
  <2>2. Fits("server_port", Port, {})
    BY ClientNames, SMT DEF Fits, FlagNames, Limit, UpTo
  <2>3. Home["server_port"] = Group("port")
    BY SMT DEF Home, Group
  <2> QED
    BY <2>1, <2>2, <2>3, Zenon DEF OneFieldRow
<1>2. OneFieldRow(LoadCases["interval"], "interval")
  <2>1. LoadCases["interval"] = Case(<<"stats_interval">>, <<Interval>>, {})
    BY SMT DEF LoadCases
  <2>2. Fits("stats_interval", Interval, {})
    <3>1. \A x \in Interval : x \in Int /\ x >= 0
      BY SMT DEF Interval
    <3> QED
      BY <3>1, ClientNames, SMT DEF Fits, FlagNames, Limit
  <2>3. Home["stats_interval"] = Group("interval")
    BY SMT DEF Home, Group
  <2> QED
    BY <2>1, <2>2, <2>3, Zenon DEF OneFieldRow
<1>3. OneFieldRow(LoadCases["daemon"], "daemon")
  <2>1. LoadCases["daemon"] = Case(<<"daemon">>, <<{1}>>, {"server"})
    BY SMT DEF LoadCases
  <2>2. Fits("daemon", {1}, {"server"})
    BY ClientNames, SMT DEF Fits, FlagNames, Limit, UpTo
  <2>3. Home["daemon"] = Group("daemon")
    BY SMT DEF Home, Group
  <2> QED
    BY <2>1, <2>2, <2>3, Zenon DEF OneFieldRow
<1>4. OneFieldRow(LoadCases["one_off"], "one_off")
  <2>1. LoadCases["one_off"] = Case(<<"one_off">>, <<{1}>>, {"server"})
    BY SMT DEF LoadCases
  <2>2. Fits("one_off", {1}, {"server"})
    BY ClientNames, SMT DEF Fits, FlagNames, Limit, UpTo
  <2>3. Home["one_off"] = Group("one_off")
    BY SMT DEF Home, Group
  <2> QED
    BY <2>1, <2>2, <2>3, Zenon DEF OneFieldRow
<1>5. OneFieldRow(LoadCases["nstreams"], "nstreams")
  <2>1. LoadCases["nstreams"] = Case(<<"num_ostreams">>, <<Int>>, {"client"})
    BY SMT DEF LoadCases
  <2>2. Fits("num_ostreams", Int, {"client"})
    BY ClientNames, SMT DEF Fits, FlagNames, Limit, UpTo
  <2>3. Home["num_ostreams"] = Group("nstreams")
    BY SMT DEF Home, Group
  <2> QED
    BY <2>1, <2>2, <2>3, Zenon DEF OneFieldRow
<1>6. OneFieldRow(LoadCases["time"], "time")
  <2>1. LoadCases["time"] = Case(<<"duration">>, <<UpTo(MAX_TIME)>>, {"duration", "client"})
    BY SMT DEF LoadCases
  <2>2. Fits("duration", UpTo(MAX_TIME), {"duration", "client"})
    BY ClientNames, SMT DEF Fits, FlagNames, Limit, UpTo
  <2>3. Home["duration"] = Group("time")
    BY SMT DEF Home, Group
  <2> QED
    BY <2>1, <2>2, <2>3, Zenon DEF OneFieldRow
<1>7. OneFieldRow(LoadCases["num"], "num")
  <2>1. LoadCases["num"] = Case(<<"bytes">>, <<Int>>, {"client"})
    BY SMT DEF LoadCases
  <2>2. Fits("bytes", Int, {"client"})
    BY ClientNames, SMT DEF Fits, FlagNames, Limit, UpTo
  <2>3. Home["bytes"] = Group("num")
    BY SMT DEF Home, Group
  <2> QED
    BY <2>1, <2>2, <2>3, Zenon DEF OneFieldRow
<1>8. OneFieldRow(LoadCases["blockcount"], "blockcount")
  <2>1. LoadCases["blockcount"] = Case(<<"blocks">>, <<Int>>, {"client"})
    BY SMT DEF LoadCases
  <2>2. Fits("blocks", Int, {"client"})
    BY ClientNames, SMT DEF Fits, FlagNames, Limit, UpTo
  <2>3. Home["blocks"] = Group("blockcount")
    BY SMT DEF Home, Group
  <2> QED
    BY <2>1, <2>2, <2>3, Zenon DEF OneFieldRow
<1>9. OneFieldRow(LoadCases["length"], "length")
  <2>1. LoadCases["length"] = Case(<<"len">>, <<Int>>, {"client"})
    BY SMT DEF LoadCases
  <2>2. Fits("len", Int, {"client"})
    BY ClientNames, SMT DEF Fits, FlagNames, Limit, UpTo
  <2>3. Home["len"] = Group("length")
    BY SMT DEF Home, Group
  <2> QED
    BY <2>1, <2>2, <2>3, Zenon DEF OneFieldRow
<1>10. OneFieldRow(LoadCases["parallel"], "parallel")
  <2>1. LoadCases["parallel"] = Case(<<"num_streams">>, <<UpTo(MAX_STREAMS)>>, {"client"})
    BY SMT DEF LoadCases
  <2>2. Fits("num_streams", UpTo(MAX_STREAMS), {"client"})
    BY ClientNames, SMT DEF Fits, FlagNames, Limit, UpTo
  <2>3. Home["num_streams"] = Group("parallel")
    BY SMT DEF Home, Group
  <2> QED
    BY <2>1, <2>2, <2>3, Zenon DEF OneFieldRow
<1>11. DOMAIN LoadCases \ {"bitrate", "server_bitrate_limit"} \subseteq {"port", "interval", "daemon", "one_off", "nstreams", "time",
         "num", "blockcount", "length", "parallel"}
  BY SMT DEF LoadCases
<1> QED
  BY <1>1, <1>2, <1>3, <1>4, <1>5, <1>6, <1>7, <1>8, <1>9, <1>10, <1>11

(* The rows of SocketCases.                                                 *)
LEMMA SocketRows ==
  \A opt \in DOMAIN SocketCases : OneFieldRow(SocketCases[opt], opt)
<1>1. OneFieldRow(SocketCases["window"], "window")
  <2>1. SocketCases["window"] = Case(<<"socket_bufsize">>, <<UpTo(MAX_TCP_BUFFER)>>, {"client"})
    BY SMT DEF SocketCases
  <2>2. Fits("socket_bufsize", UpTo(MAX_TCP_BUFFER), {"client"})
    BY ClientNames, SMT DEF Fits, FlagNames, Limit, UpTo
  <2>3. Home["socket_bufsize"] = Group("window")
    BY SMT DEF Home, Group
  <2> QED
    BY <2>1, <2>2, <2>3, Zenon DEF OneFieldRow
<1>2. OneFieldRow(SocketCases["cport"], "cport")
  <2>1. SocketCases["cport"] = Case(<<"bind_port">>, <<Port>>, {})
    BY SMT DEF SocketCases
  <2>2. Fits("bind_port", Port, {})
    BY ClientNames, SMT DEF Fits, FlagNames, Limit, UpTo
  <2>3. Home["bind_port"] = Group("cport")
    BY SMT DEF Home, Group
  <2> QED
    BY <2>1, <2>2, <2>3, Zenon DEF OneFieldRow
<1>3. OneFieldRow(SocketCases["set_mss"], "set_mss")
  <2>1. SocketCases["set_mss"] = Case(<<"mss">>, <<UpTo(MAX_MSS)>>, {"client"})
    BY SMT DEF SocketCases
  <2>2. Fits("mss", UpTo(MAX_MSS), {"client"})
    BY ClientNames, SMT DEF Fits, FlagNames, Limit, UpTo
  <2>3. Home["mss"] = Group("set_mss")
    BY SMT DEF Home, Group
  <2> QED
    BY <2>1, <2>2, <2>3, Zenon DEF OneFieldRow
<1>4. OneFieldRow(SocketCases["no_delay"], "no_delay")
  <2>1. SocketCases["no_delay"] = Case(<<"no_delay">>, <<{1}>>, {"client"})
    BY SMT DEF SocketCases
  <2>2. Fits("no_delay", {1}, {"client"})
    BY ClientNames, SMT DEF Fits, FlagNames, Limit, UpTo
  <2>3. Home["no_delay"] = Group("no_delay")
    BY SMT DEF Home, Group
  <2> QED
    BY <2>1, <2>2, <2>3, Zenon DEF OneFieldRow
<1>5. OneFieldRow(SocketCases["tos"], "tos")
  <2>1. SocketCases["tos"] = Case(<<"tos">>, <<0 .. 255>>, {"client"})
    BY SMT DEF SocketCases
  <2>2. Fits("tos", 0 .. 255, {"client"})
    BY ClientNames, SMT DEF Fits, FlagNames, Limit, UpTo
  <2>3. Home["tos"] = Group("tos")
    BY SMT DEF Home, Group
  <2> QED
    BY <2>1, <2>2, <2>3, Zenon DEF OneFieldRow
<1>6. OneFieldRow(SocketCases["dscp"], "dscp")
  <2>1. SocketCases["dscp"] = Case(<<"tos">>, <<0 .. 255>>, {"client"})
    BY SMT DEF SocketCases
  <2>2. Fits("tos", 0 .. 255, {"client"})
    BY ClientNames, SMT DEF Fits, FlagNames, Limit, UpTo
  <2>3. Home["tos"] = Group("dscp")
    BY SMT DEF Home, Group
  <2> QED
    BY <2>1, <2>2, <2>3, Zenon DEF OneFieldRow
<1>7. OneFieldRow(SocketCases["extra_data"], "extra_data")
  <2>1. SocketCases["extra_data"] = Case(<<"extra_data">>, <<AtLeast(1)>>, {"client"})
    BY SMT DEF SocketCases
  <2>2. Fits("extra_data", AtLeast(1), {"client"})
    BY ClientNames, SMT DEF Fits, FlagNames, Limit, UpTo
  <2>3. Home["extra_data"] = Group("extra_data")
    BY SMT DEF Home, Group
  <2> QED
    BY <2>1, <2>2, <2>3, Zenon DEF OneFieldRow
<1>8. OneFieldRow(SocketCases["flowlabel"], "flowlabel")
  <2>1. SocketCases["flowlabel"] = Case(<<"flowlabel">>, <<FlowLabel>>, {"client"})
    BY SMT DEF SocketCases
  <2>2. Fits("flowlabel", FlowLabel, {"client"})
    BY ClientNames, SMT DEF Fits, FlagNames, Limit, UpTo
  <2>3. Home["flowlabel"] = Group("flowlabel")
    BY SMT DEF Home, Group
  <2> QED
    BY <2>1, <2>2, <2>3, Zenon DEF OneFieldRow
<1>9. OneFieldRow(SocketCases["zerocopy"], "zerocopy")
  <2>1. SocketCases["zerocopy"] = Case(<<"zerocopy">>, <<{1}>>, {"client"})
    BY SMT DEF SocketCases
  <2>2. Fits("zerocopy", {1}, {"client"})
    BY ClientNames, SMT DEF Fits, FlagNames, Limit, UpTo
  <2>3. Home["zerocopy"] = Group("zerocopy")
    BY SMT DEF Home, Group
  <2> QED
    BY <2>1, <2>2, <2>3, Zenon DEF OneFieldRow
<1>10. OneFieldRow(SocketCases["repeating_payload"], "repeating_payload")
  <2>1. SocketCases["repeating_payload"] = Case(<<"repeating_payload">>, <<{1}>>, {"client"})
    BY SMT DEF SocketCases
  <2>2. Fits("repeating_payload", {1}, {"client"})
    BY ClientNames, SMT DEF Fits, FlagNames, Limit, UpTo
  <2>3. Home["repeating_payload"] = Group("repeating_payload")
    BY SMT DEF Home, Group
  <2> QED
    BY <2>1, <2>2, <2>3, Zenon DEF OneFieldRow
<1>11. OneFieldRow(SocketCases["omit"], "omit")
  <2>1. SocketCases["omit"] = Case(<<"omit">>, <<0 .. 60>>, {"client"})
    BY SMT DEF SocketCases
  <2>2. Fits("omit", 0 .. 60, {"client"})
    BY ClientNames, SMT DEF Fits, FlagNames, Limit, UpTo
  <2>3. Home["omit"] = Group("omit")
    BY SMT DEF Home, Group
  <2> QED
    BY <2>1, <2>2, <2>3, Zenon DEF OneFieldRow
<1>12. DOMAIN SocketCases \subseteq {"window", "cport", "set_mss", "no_delay", "tos", "dscp",
         "extra_data", "flowlabel", "zerocopy", "repeating_payload", "omit"}
  BY SMT DEF SocketCases
<1> QED
  BY <1>1, <1>2, <1>3, <1>4, <1>5, <1>6, <1>7, <1>8, <1>9, <1>10, <1>11, <1>12

(* The rows of OtherCases.                                                  *)
LEMMA OtherRows ==
  \A opt \in DOMAIN OtherCases : OneFieldRow(OtherCases[opt], opt)
<1>1. OneFieldRow(OtherCases["idle_timeout"], "idle_timeout")
  <2>1. OtherCases["idle_timeout"] = Case(<<"idle_timeout">>, <<1 .. MAX_TIME>>, {"server"})
    BY SMT DEF OtherCases
  <2>2. Fits("idle_timeout", 1 .. MAX_TIME, {"server"})
    BY ClientNames, SMT DEF Fits, FlagNames, Limit, UpTo
  <2>3. Home["idle_timeout"] = Group("idle_timeout")
    BY SMT DEF Home, Group
  <2> QED
    BY <2>1, <2>2, <2>3, Zenon DEF OneFieldRow
<1>2. OneFieldRow(OtherCases["rcv_timeout"], "rcv_timeout")
  <2>1. OtherCases["rcv_timeout"] = Case(<<"rcv_timeout">>, <<RcvTimeout>>, {"rcv_timeout"})
    BY SMT DEF OtherCases
  <2>2. Fits("rcv_timeout", RcvTimeout, {"rcv_timeout"})
    BY ClientNames, SMT DEF Fits, FlagNames, Limit, UpTo
  <2>3. Home["rcv_timeout"] = Group("rcv_timeout")
    BY SMT DEF Home, Group
  <2> QED
    BY <2>1, <2>2, <2>3, Zenon DEF OneFieldRow
<1>3. OneFieldRow(OtherCases["title"], "title")
  <2>1. OtherCases["title"] = Case(<<"title">>, <<AtLeast(1)>>, {"client"})
    BY SMT DEF OtherCases
  <2>2. Fits("title", AtLeast(1), {"client"})
    BY ClientNames, SMT DEF Fits, FlagNames, Limit, UpTo
  <2>3. Home["title"] = Group("title")
    BY SMT DEF Home, Group
  <2> QED
    BY <2>1, <2>2, <2>3, Zenon DEF OneFieldRow
<1>4. OneFieldRow(OtherCases["congestion"], "congestion")
  <2>1. OtherCases["congestion"] = Case(<<"congestion">>, <<AtLeast(1)>>, {"client"})
    BY SMT DEF OtherCases
  <2>2. Fits("congestion", AtLeast(1), {"client"})
    BY ClientNames, SMT DEF Fits, FlagNames, Limit, UpTo
  <2>3. Home["congestion"] = Group("congestion")
    BY SMT DEF Home, Group
  <2> QED
    BY <2>1, <2>2, <2>3, Zenon DEF OneFieldRow
<1>5. OneFieldRow(OtherCases["get_server_output"], "get_server_output")
  <2>1. OtherCases["get_server_output"] = Case(<<"get_server_output">>, <<{1}>>, {"client"})
    BY SMT DEF OtherCases
  <2>2. Fits("get_server_output", {1}, {"client"})
    BY ClientNames, SMT DEF Fits, FlagNames, Limit, UpTo
  <2>3. Home["get_server_output"] = Group("get_server_output")
    BY SMT DEF Home, Group
  <2> QED
    BY <2>1, <2>2, <2>3, Zenon DEF OneFieldRow
<1>6. OneFieldRow(OtherCases["udp_counters_64bit"], "udp_counters_64bit")
  <2>1. OtherCases["udp_counters_64bit"] = Case(<<"udp_counters_64bit">>, <<{1}>>, {})
    BY SMT DEF OtherCases
  <2>2. Fits("udp_counters_64bit", {1}, {})
    BY ClientNames, SMT DEF Fits, FlagNames, Limit, UpTo
  <2>3. Home["udp_counters_64bit"] = Group("udp_counters_64bit")
    BY SMT DEF Home, Group
  <2> QED
    BY <2>1, <2>2, <2>3, Zenon DEF OneFieldRow
<1>7. OneFieldRow(OtherCases["fq_rate"], "fq_rate")
  <2>1. OtherCases["fq_rate"] = Case(<<"fqrate">>, <<Int>>, {"client"})
    BY SMT DEF OtherCases
  <2>2. Fits("fqrate", Int, {"client"})
    BY ClientNames, SMT DEF Fits, FlagNames, Limit, UpTo
  <2>3. Home["fqrate"] = Group("fq_rate")
    BY SMT DEF Home, Group
  <2> QED
    BY <2>1, <2>2, <2>3, Zenon DEF OneFieldRow
<1>8. OneFieldRow(OtherCases["dont_fragment"], "dont_fragment")
  <2>1. OtherCases["dont_fragment"] = Case(<<"dont_fragment">>, <<{1}>>, {"client"})
    BY SMT DEF OtherCases
  <2>2. Fits("dont_fragment", {1}, {"client"})
    BY ClientNames, SMT DEF Fits, FlagNames, Limit, UpTo
  <2>3. Home["dont_fragment"] = Group("dont_fragment")
    BY SMT DEF Home, Group
  <2> QED
    BY <2>1, <2>2, <2>3, Zenon DEF OneFieldRow
<1>9. OneFieldRow(OtherCases["username"], "username")
  <2>1. OtherCases["username"] = Case(<<"username">>, <<AtLeast(1)>>, {})
    BY SMT DEF OtherCases
  <2>2. Fits("username", AtLeast(1), {})
    BY ClientNames, SMT DEF Fits, FlagNames, Limit, UpTo
  <2>3. Home["username"] = Group("username")
    BY SMT DEF Home, Group
  <2> QED
    BY <2>1, <2>2, <2>3, Zenon DEF OneFieldRow
<1>10. OneFieldRow(OtherCases["rsa_public_key_path"], "rsa_public_key_path")
  <2>1. OtherCases["rsa_public_key_path"] = Case(<<"public_key">>, <<AtLeast(1)>>, {})
    BY SMT DEF OtherCases
  <2>2. Fits("public_key", AtLeast(1), {})
    BY ClientNames, SMT DEF Fits, FlagNames, Limit, UpTo
  <2>3. Home["public_key"] = Group("rsa_public_key_path")
    BY SMT DEF Home, Group
  <2> QED
    BY <2>1, <2>2, <2>3, Zenon DEF OneFieldRow
<1>11. OneFieldRow(OtherCases["rsa_private_key_path"], "rsa_private_key_path")
  <2>1. OtherCases["rsa_private_key_path"] = Case(<<"private_key">>, <<AtLeast(1)>>, {})
    BY SMT DEF OtherCases
  <2>2. Fits("private_key", AtLeast(1), {})
    BY ClientNames, SMT DEF Fits, FlagNames, Limit, UpTo
  <2>3. Home["private_key"] = Group("rsa_private_key_path")
    BY SMT DEF Home, Group
  <2> QED
    BY <2>1, <2>2, <2>3, Zenon DEF OneFieldRow
<1>12. OneFieldRow(OtherCases["authorized_users_path"], "authorized_users_path")
  <2>1. OtherCases["authorized_users_path"] = Case(<<"server_authorized_users">>, <<AtLeast(1)>>, {})
    BY SMT DEF OtherCases
  <2>2. Fits("server_authorized_users", AtLeast(1), {})
    BY ClientNames, SMT DEF Fits, FlagNames, Limit, UpTo
  <2>3. Home["server_authorized_users"] = Group("authorized_users_path")
    BY SMT DEF Home, Group
  <2> QED
    BY <2>1, <2>2, <2>3, Zenon DEF OneFieldRow
<1>13. OneFieldRow(OtherCases["time_skew_threshold"], "time_skew_threshold")
  <2>1. OtherCases["time_skew_threshold"] = Case(<<"server_skew_threshold">>, <<AtLeast(1)>>, {})
    BY SMT DEF OtherCases
  <2>2. Fits("server_skew_threshold", AtLeast(1), {})
    BY ClientNames, SMT DEF Fits, FlagNames, Limit, UpTo
  <2>3. Home["server_skew_threshold"] = Group("time_skew_threshold")
    BY SMT DEF Home, Group
  <2> QED
    BY <2>1, <2>2, <2>3, Zenon DEF OneFieldRow
<1>14. OneFieldRow(OtherCases["pacing_timer"], "pacing_timer")
  <2>1. OtherCases["pacing_timer"] = Case(<<"pacing_timer">>, <<Int>>, {"client"})
    BY SMT DEF OtherCases
  <2>2. Fits("pacing_timer", Int, {"client"})
    BY ClientNames, SMT DEF Fits, FlagNames, Limit, UpTo
  <2>3. Home["pacing_timer"] = Group("pacing_timer")
    BY SMT DEF Home, Group
  <2> QED
    BY <2>1, <2>2, <2>3, Zenon DEF OneFieldRow
<1>15. OneFieldRow(OtherCases["connect_timeout"], "connect_timeout")
  <2>1. OtherCases["connect_timeout"] = Case(<<"connect_timeout">>, <<Int>>, {"client"})
    BY SMT DEF OtherCases
  <2>2. Fits("connect_timeout", Int, {"client"})
    BY ClientNames, SMT DEF Fits, FlagNames, Limit, UpTo
  <2>3. Home["connect_timeout"] = Group("connect_timeout")
    BY SMT DEF Home, Group
  <2> QED
    BY <2>1, <2>2, <2>3, Zenon DEF OneFieldRow
<1>16. DOMAIN OtherCases \subseteq {"idle_timeout", "rcv_timeout", "title", "congestion", "get_server_output", "udp_counters_64bit",
         "fq_rate", "dont_fragment", "username", "rsa_public_key_path", "rsa_private_key_path", "authorized_users_path",
         "time_skew_threshold", "pacing_timer", "connect_timeout"}
  BY SMT DEF OtherCases
<1> QED
  BY <1>1, <1>2, <1>3, <1>4, <1>5, <1>6, <1>7, <1>8, <1>9, <1>10, <1>11, <1>12,
     <1>13, <1>14, <1>15, <1>16

(* A row with two fields fits an argument with one number or two.           *)
LEMMA TwoNumbers ==
  ASSUME NEW a, NEW A, NEW b, NEW B, NEW flags, Fits(a, A, flags), Fits(b, B, flags),
         NEW arg \in Seq(Int), Len(arg) \in 1 .. 2
  PROVE  RowFits(Case(<<a, b>>, <<A, B>>, flags), arg)
<1> DEFINE row == Case(<<a, b>>, <<A, B>>, flags)
<1>1. row.fields = <<a, b>> /\ row.ok = <<A, B>> /\ row.flags = flags
  BY DEF Case
<1>2. DOMAIN arg \subseteq {1, 2} /\ \A i \in DOMAIN arg : arg[i] \in Int
  OBVIOUS
<1>3. row.fields[1] = a /\ row.ok[1] = A /\ row.fields[2] = b /\ row.ok[2] = B
  <2>1. \A x, y : <<x, y>>[1] = x /\ <<x, y>>[2] = y
    OBVIOUS
  <2> HIDE DEF row
  <2> QED
    BY <1>1, <2>1
<1> HIDE DEF row
<1>4. RowFits(row, arg)
  BY <1>1, <1>2, <1>3 DEF RowFits, Fits
<1> QED
  BY <1>4 DEF row

(* The rows that take two numbers.                                          *)
LEMMA PairRows ==
  ASSUME NEW arg \in Seq(Int), Len(arg) \in 1 .. 2
  PROVE  /\ RowFits(LoadCases["bitrate"], arg)
         /\ RowFits(LoadCases["server_bitrate_limit"], arg)
         /\ RowFits(Affinity(arg), arg)
<1>1. RowFits(LoadCases["bitrate"], arg)
  <2>1. LoadCases["bitrate"] = Case(<<"rate", "burst">>, <<Int, 1 .. MAX_BURST>>, {"rate", "client"})
    BY SMT DEF LoadCases
  <2>2. Fits("rate", Int, {"rate", "client"}) /\ Fits("burst", 1 .. MAX_BURST, {"rate", "client"})
    BY ClientNames, SMT DEF Fits, FlagNames, Limit
  <2> QED
    BY <2>1, <2>2, TwoNumbers
<1>2. RowFits(LoadCases["server_bitrate_limit"], arg)
  <2>1. LoadCases["server_bitrate_limit"] =
          Case(<<"bitrate_limit", "bitrate_limit_interval">>, <<Int, Interval>>, {"server"})
    BY SMT DEF LoadCases
  <2>2. Fits("bitrate_limit", Int, {"server"}) /\ Fits("bitrate_limit_interval", Interval, {"server"})
    BY ClientNames, SMT DEF Fits, FlagNames, Limit
  <2> QED
    BY <2>1, <2>2, TwoNumbers
<1>3. RowFits(Affinity(arg), arg)
  <2>1. CASE Len(arg) = 2
    <3> DEFINE S == 0 .. 1024
    <3>1. Affinity(arg) = Case(<<"affinity", "server_affinity">>, <<S, S>>, {"client"})
      BY <2>1, SMT DEF Affinity
    <3>2. Fits("affinity", S, {"client"}) /\ Fits("server_affinity", S, {"client"})
      BY ClientNames, SMT DEF Fits, FlagNames, Limit
    <3> HIDE DEF S
    <3> QED
      BY <3>1, <3>2, TwoNumbers
  <2>2. CASE Len(arg) = 1
    <3> DEFINE row == Affinity(arg)
    <3>1. /\ row.fields = <<"affinity", "server_affinity">> /\ row.flags = {}
          /\ row.ok = <<0 .. 1024, 0 .. 1024>>
      BY <2>2, SMT DEF Affinity, Case
    <3>2. DOMAIN arg = {1} /\ arg[1] \in Int
      BY <2>2
    <3>3. row.fields[1] = "affinity" /\ row.ok[1] = 0 .. 1024
      <4>1. \A x, y : <<x, y>>[1] = x
        OBVIOUS
      <4> HIDE DEF row
      <4> QED
        BY <3>1, <4>1, SMT
    <3> HIDE DEF row
    <3>4. RowFits(row, arg)
      BY <3>1, <3>2, <3>3, ClientNames, SMT DEF RowFits, Limit
    <3> QED
      BY <3>4 DEF row
  <2> QED
    BY <2>1, <2>2
<1> QED
  BY <1>1, <1>2, <1>3

(* The names that are in no table, or in one only.                          *)
LEMMA TableNames ==
  /\ DOMAIN SocketCases \cap DOMAIN OtherCases = {}
  /\ DOMAIN LoadCases \cap (DOMAIN SocketCases \cup DOMAIN OtherCases) = {}
  /\ {"server", "client", "udp", "sctp", "reverse", "bidir", "no_fq_socket_pacing", "affinity"}
       \cap (DOMAIN LoadCases \cup DOMAIN SocketCases \cup DOMAIN OtherCases) = {}
  /\ {"bitrate", "server_bitrate_limit", "nstreams"} \subseteq DOMAIN LoadCases
  /\ "fq_rate" \in DOMAIN OtherCases
BY SMT DEF LoadCases, SocketCases, OtherCases

(* The cases of the getopt loop.                                            *)
LEMMA GetoptCases ==
  ASSUME NEW p, NEW o, o.opt \in OptionNames
  PROVE  /\ o.opt = "server" =>
              getopt(p, o) = Unless(p.test.role = "c", p, SetTest(p, iperf_set_test_role(p.test, "s"), {}))
         /\ o.opt = "client" =>
              getopt(p, o) = Unless(p.test.role = "s", p, SetTest(p, iperf_set_test_role(p.test, "c"), {}))
         /\ o.opt = "udp" => getopt(p, o) = SetTest(p, set_protocol(p.test, "udp"), {"client"})
         /\ o.opt = "sctp" => getopt(p, o) = SetTest(p, set_protocol(p.test, "sctp"), {"client"})
         /\ o.opt = "reverse" =>
              getopt(p, o) = Unless(p.test.f.bidirectional = 1, p,
                                    SetTest(p, iperf_set_test_reverse(p.test), {"client"}))
         /\ o.opt = "bidir" =>
              getopt(p, o) = Unless(p.test.f.reverse = 1, p,
                                    SetTest(p, iperf_set_test_bidirectional(p.test), {"client"}))
         /\ o.opt = "no_fq_socket_pacing" => getopt(p, o) = Store(p, OtherCases.fq_rate, <<0>>)
         /\ o.opt = "affinity" => getopt(p, o) = Store(p, Affinity(o.arg), o.arg)
         /\ o.opt = "nstreams" =>
              getopt(p, o) = Store(Store(p, LoadCases.nstreams, o.arg), LoadCases.bitrate, o.arg)
         /\ o.opt \in DOMAIN SocketCases => getopt(p, o) = Store(p, SocketCases[o.opt], o.arg)
         /\ o.opt \in DOMAIN OtherCases => getopt(p, o) = Store(p, OtherCases[o.opt], o.arg)
         /\ o.opt \in DOMAIN LoadCases /\ o.opt # "nstreams" =>
              getopt(p, o) = Store(p, LoadCases[o.opt], o.arg)
BY TableNames DEF getopt

(* A process that sets its test and flags.                                  *)
LEMMA SetTestFacts ==
  ASSUME NEW p \in Processes, NEW t \in Tests, NEW flags \in SUBSET FlagNames,
         NEW q, q = SetTest(p, t, flags)
  PROVE  /\ q \in Processes /\ q.test = t /\ q.flags = p.flags \cup flags /\ q.local = p.local
         /\ q.refused = p.refused
BY DEF SetTest, Processes

(* A process that refuses an option.                                        *)
LEMMA RefusedFacts ==
  ASSUME NEW p, Parsing(p), NEW q, q = [p EXCEPT !.refused = TRUE]
  PROVE  Parsing(q)
<1>1. p \in Processes
  BY DEF Parsing
<1>2. q \in Processes /\ q.test = p.test /\ q.flags = p.flags /\ q.local = p.local
  BY <1>1 DEF Processes
<1> QED
  BY <1>2 DEF Parsing

(* Every case of the getopt loop keeps what is known of a process.          *)
LEMMA GetoptKeeps ==
  ASSUME NEW p, Parsing(p), NEW o \in Options \cup ServerOptions
  PROVE  Parsing(getopt(p, o))
<1> DEFINE t == p.test
           q == getopt(p, o)
<1>1. /\ o.opt \in OptionNames /\ o.arg \in Seq(Int)
      /\ Len(o.arg) \in 1 .. (IF o.opt \in Pairs THEN 2 ELSE 1)
  BY ParamsAssumption
<1>2. /\ p \in Processes /\ t \in Tests /\ t \in AnyTests /\ ModeKept(t) /\ Limited(t)
      /\ t.f["authtoken"] = 0 /\ t.f \in [Fields -> Int]
      /\ "rate" \in p.flags => "client" \in p.flags
      /\ "client" \notin p.flags => Untouched(t) /\ t.protocol = "tcp" /\ p.local["len"] = 0
  BY DEF Parsing, Processes, Tests, AnyTests
<1>3. CASE o.opt \in {"server", "client"}
  <2> DEFINE role == IF o.opt = "server" THEN "s" ELSE "c"
             r == iperf_set_test_role(t, role)
  <2>1. q = [p EXCEPT !.refused = TRUE] \/ q = SetTest(p, r, {})
    BY <1>1, <1>3, GetoptCases DEF Unless
  <2>2. r \in Tests /\ ModeKept(r) /\ r.f = t.f /\ r.protocol = t.protocol
    BY <1>2, <1>3, RoleFacts
  <2>3. CASE q = SetTest(p, r, {})
    <3> DEFINE none == {}
    <3>0. none \in SUBSET FlagNames /\ p.flags \cup none = p.flags
      OBVIOUS
    <3> HIDE DEF q, r, none
    <3>1. q \in Processes /\ q.test = r /\ q.flags = p.flags \cup none /\ q.local = p.local
      <4>1. q = SetTest(p, r, none)
        BY <2>3 DEF none
      <4> QED
        BY <1>2, <2>2, <3>0, <4>1, SetTestFacts
    <3>2. q.flags = p.flags
      BY <3>0, <3>1
    <3>3. Parsing(q)
      BY <1>2, <2>2, <3>1, <3>2 DEF Parsing, Limited, Untouched
    <3> QED
      BY <3>3 DEF q
  <2> QED
    BY <2>1, <2>3, RefusedFacts
<1>4. CASE o.opt \in {"udp", "sctp"}
  <2> DEFINE r == set_protocol(t, o.opt)
  <2>1. q = SetTest(p, r, {"client"})
    BY <1>1, <1>4, GetoptCases
  <2>2. /\ r \in Tests /\ r.role = t.role /\ r.mode = t.mode /\ r.f = t.f /\ RetransmitsKnown(r)
    BY <1>2, <1>4, ProtocolFacts
  <2> HIDE DEF q, r
  <2>3. q \in Processes /\ q.test = r /\ q.flags = p.flags \cup {"client"}
    BY <1>2, <2>1, <2>2, SetTestFacts DEF FlagNames
  <2>4. ModeKept(r) /\ Limited(r)
    BY <1>2, <2>2 DEF ModeKept, Limited
  <2>5. Parsing(q)
    BY <1>2, <2>2, <2>3, <2>4 DEF Parsing
  <2> QED
    BY <2>5 DEF q
<1>5. CASE o.opt = "reverse"
  <2> DEFINE r == iperf_set_test_reverse(t)
  <2>1. \/ q = [p EXCEPT !.refused = TRUE]
        \/ t.f["bidirectional"] # 1 /\ q = SetTest(p, r, {"client"})
    BY <1>1, <1>5, GetoptCases DEF Unless
  <2>2. /\ r \in Tests /\ r.f = [t.f EXCEPT !["reverse"] = 1] /\ r.role = t.role
        /\ r.mode = Direction(t.role, 1, t.mode) /\ r.protocol = t.protocol /\ RetransmitsKnown(r)
    BY <1>2, ReverseFacts
  <2>3. r.f["reverse"] = 1 /\ \A k \in Fields \ {"reverse"} : r.f[k] = t.f[k]
    BY <1>2, <2>2, Defaults
  <2>4. CASE t.f["bidirectional"] # 1 /\ q = SetTest(p, r, {"client"})
    <3> HIDE DEF q, r
    <3>1. q \in Processes /\ q.test = r /\ q.flags = p.flags \cup {"client"}
      BY <1>2, <2>2, <2>4, SetTestFacts DEF FlagNames
    <3>2. ModeKept(r)
      <4>1. r.f["bidirectional"] = 0 /\ t.f["bidirectional"] = 0
        BY <1>2, <2>3, <2>4, Defaults DEF ModeKept
      <4>2. r.mode = Direction(r.role, 1, RECEIVER)
        BY <1>2, <2>2, <4>1 DEF ModeKept, Direction
      <4> QED
        BY <2>2, <2>3, <4>1, <4>2 DEF ModeKept
    <3>3. Limited(r)
      BY <1>2, <2>3 DEF Limited, Limit
    <3>4. r.f["authtoken"] = 0
      BY <1>2, <2>3, Defaults
    <3>5. Parsing(q)
      BY <3>1, <3>2, <3>3, <3>4 DEF Parsing
    <3> QED
      BY <3>5 DEF q
  <2> QED
    BY <2>1, <2>4, RefusedFacts
<1>6. CASE o.opt = "bidir"
  <2> DEFINE r == iperf_set_test_bidirectional(t)
  <2>1. \/ q = [p EXCEPT !.refused = TRUE]
        \/ t.f["reverse"] # 1 /\ q = SetTest(p, r, {"client"})
    BY <1>1, <1>6, GetoptCases DEF Unless
  <2>2. /\ r \in Tests /\ r.f = [t.f EXCEPT !["bidirectional"] = 1] /\ r.role = t.role
        /\ r.mode = BIDIRECTIONAL /\ r.protocol = t.protocol
        /\ r.sender_has_retransmits = t.sender_has_retransmits
    BY <1>2, BidirectionalFacts
  <2>3. r.f["bidirectional"] = 1 /\ \A k \in Fields \ {"bidirectional"} : r.f[k] = t.f[k]
    BY <1>2, <2>2, Defaults
  <2>4. CASE t.f["reverse"] # 1 /\ q = SetTest(p, r, {"client"})
    <3> HIDE DEF q, r
    <3>1. q \in Processes /\ q.test = r /\ q.flags = p.flags \cup {"client"}
      BY <1>2, <2>2, <2>4, SetTestFacts DEF FlagNames
    <3>2. ModeKept(r)
      <4>1. r.f["reverse"] = 0 /\ t.f["reverse"] = 0
        BY <1>2, <2>3, <2>4, Defaults DEF ModeKept
      <4>2. ASSUME t.role = "c" PROVE t.mode # RECEIVER
        BY <1>2, <4>1, <4>2 DEF ModeKept, Direction, SENDER, RECEIVER, BIDIRECTIONAL
      <4>3. r.role = "c" => RetransmitsKnown(r)
        BY <1>2, <2>2, <4>2 DEF ModeKept, RetransmitsKnown, RECEIVER, BIDIRECTIONAL
      <4> QED
        BY <2>2, <2>3, <4>1, <4>3 DEF ModeKept
    <3>3. Limited(r)
      BY <1>2, <2>3 DEF Limited, Limit
    <3>4. r.f["authtoken"] = 0
      BY <1>2, <2>3, Defaults
    <3>5. Parsing(q)
      BY <3>1, <3>2, <3>3, <3>4 DEF Parsing
    <3> QED
      BY <3>5 DEF q
  <2> QED
    BY <2>1, <2>4, RefusedFacts
<1>7. CASE o.opt = "no_fq_socket_pacing"
  <2>1. q = Store(p, OtherCases["fq_rate"], <<0>>)
    BY <1>1, <1>7, GetoptCases
  <2>2. <<0>> \in Seq(Int) /\ Len(<<0>>) = 1
    OBVIOUS
  <2>3. RowFits(OtherCases["fq_rate"], <<0>>)
    BY <2>2, OtherRows, TableNames, OneNumber DEF OneFieldRow
  <2> QED
    BY <2>1, <2>3, StoreKeeps
<1>8. CASE o.opt = "affinity"
  <2>1. q = Store(p, Affinity(o.arg), o.arg) /\ Len(o.arg) \in 1 .. 2
    BY <1>1, <1>8, GetoptCases DEF Pairs
  <2> QED
    BY <1>1, <2>1, PairRows, StoreKeeps
<1>9. CASE o.opt = "nstreams"
  <2> DEFINE s == Store(p, LoadCases["nstreams"], o.arg)
  <2>1. q = Store(s, LoadCases["bitrate"], o.arg) /\ Len(o.arg) = 1
    BY <1>1, <1>9, GetoptCases DEF Pairs
  <2>2. RowFits(LoadCases["nstreams"], o.arg)
    <3>1. PICK name, ok, flags : LoadCases["nstreams"] = Case(<<name>>, <<ok>>, flags) /\ Fits(name, ok, flags)
      BY LoadRows, TableNames DEF OneFieldRow
    <3>2. RowFits(Case(<<name>>, <<ok>>, flags), o.arg)
      BY <1>1, <2>1, <3>1, OneNumber
    <3> QED
      BY <3>1, <3>2
  <2>3. Parsing(s)
    BY <2>2, StoreKeeps
  <2>4. RowFits(LoadCases["bitrate"], o.arg)
    BY <1>1, <2>1, PairRows
  <2> HIDE DEF s
  <2> QED
    BY <2>1, <2>3, <2>4, StoreKeeps
<1>10. CASE o.opt \in DOMAIN SocketCases
  <2>1. q = Store(p, SocketCases[o.opt], o.arg) /\ Len(o.arg) = 1
    BY <1>1, <1>10, GetoptCases, TableNames DEF Pairs
  <2>2. RowFits(SocketCases[o.opt], o.arg)
    <3>1. PICK name, ok, flags : SocketCases[o.opt] = Case(<<name>>, <<ok>>, flags) /\ Fits(name, ok, flags)
      BY <1>10, SocketRows DEF OneFieldRow
    <3>2. RowFits(Case(<<name>>, <<ok>>, flags), o.arg)
      BY <1>1, <2>1, <3>1, OneNumber
    <3> QED
      BY <3>1, <3>2
  <2> QED
    BY <2>1, <2>2, StoreKeeps
<1>11. CASE o.opt \in DOMAIN OtherCases
  <2>1. q = Store(p, OtherCases[o.opt], o.arg) /\ Len(o.arg) = 1
    BY <1>1, <1>11, GetoptCases, TableNames DEF Pairs
  <2>2. RowFits(OtherCases[o.opt], o.arg)
    <3>1. PICK name, ok, flags : OtherCases[o.opt] = Case(<<name>>, <<ok>>, flags) /\ Fits(name, ok, flags)
      BY <1>11, OtherRows DEF OneFieldRow
    <3>2. RowFits(Case(<<name>>, <<ok>>, flags), o.arg)
      BY <1>1, <2>1, <3>1, OneNumber
    <3> QED
      BY <3>1, <3>2
  <2> QED
    BY <2>1, <2>2, StoreKeeps
<1>12. CASE o.opt \in DOMAIN LoadCases \ {"nstreams"}
  <2>1. q = Store(p, LoadCases[o.opt], o.arg)
    BY <1>1, <1>12, GetoptCases
  <2>2. RowFits(LoadCases[o.opt], o.arg)
    <3>1. CASE o.opt \in {"bitrate", "server_bitrate_limit"}
      BY <1>1, <3>1, PairRows DEF Pairs
    <3>2. CASE o.opt \notin {"bitrate", "server_bitrate_limit"}
      <4>1. o.opt # "affinity"
        BY <1>12, TableNames
      <4>2. Len(o.arg) = 1
        <5>1. o.opt \notin Pairs
          BY <3>2, <4>1 DEF Pairs
        <5>2. Len(o.arg) \in 1 .. 1
          BY <1>1, <5>1, Zenon
        <5> QED
          BY <5>2
      <4>3. PICK name, ok, flags :
              LoadCases[o.opt] = Case(<<name>>, <<ok>>, flags) /\ Fits(name, ok, flags)
        BY <1>12, <3>2, LoadRows DEF OneFieldRow
      <4>4. RowFits(Case(<<name>>, <<ok>>, flags), o.arg)
        BY <1>1, <4>2, <4>3, OneNumber
      <4> QED
        BY <4>3, <4>4
    <3> QED
      BY <3>1, <3>2
  <2> QED
    BY <2>1, <2>2, StoreKeeps
<1> QED
  BY <1>1, <1>3, <1>4, <1>5, <1>6, <1>7, <1>8, <1>9, <1>10, <1>11, <1>12 DEF OptionNames

---------------------------------------------------------------------------------
(* What is done with an accepted command line, field by field.              *)
LEMMA SettledFacts ==
  ASSUME NEW p, Parsing(p), NEW infinity \in Int, NEW u, u = Settled(p, infinity), BlockSize(p) \in Int
  PROVE  /\ u \in Tests /\ u.role = p.test.role /\ u.mode = p.test.mode
         /\ u.protocol = p.test.protocol
         /\ u.sender_has_retransmits = p.test.sender_has_retransmits
         /\ u.f["blksize"] = BlockSize(p)
         /\ u.f["duration"] \in {0, p.test.f["duration"]}
         /\ "rate" \notin p.flags /\ p.test.protocol = "tcp" => u.f["rate"] = 0
         /\ \A k \in Fields \ {"blksize", "rate", "duration", "client_username",
                               "server_rsa_private_key", "server_skew_threshold",
                               "bitrate_limit_stats_per_interval"} : u.f[k] = p.test.f[k]
<1> DEFINE t == p.test
           rate == IF "rate" \in p.flags THEN t.f["rate"] ELSE IF t.protocol = "udp" THEN UDP_RATE ELSE 0
           duration == IF EndsByCount(p) THEN 0 ELSE t.f["duration"]
           skew == IF p.local["private_key"] # 0 /\ t.f["server_skew_threshold"] = 0 THEN 10
                   ELSE t.f["server_skew_threshold"]
           stats == StatsPerInterval(t.f, infinity)
           g1 == [t.f EXCEPT !["blksize"] = BlockSize(p)]
           g2 == [g1 EXCEPT !["rate"] = rate]
           g3 == [g2 EXCEPT !["duration"] = duration]
           g4 == [g3 EXCEPT !["client_username"] = p.local["username"]]
           g5 == [g4 EXCEPT !["server_rsa_private_key"] = p.local["private_key"]]
           g6 == [g5 EXCEPT !["server_skew_threshold"] = skew]
           g == [g6 EXCEPT !["bitrate_limit_stats_per_interval"] = stats]
<1>1. /\ t \in Tests /\ t.f \in [Fields -> Int] /\ p.local \in [LocalNames -> Int]
      /\ t.f["stats_interval"] >= 0
  BY Defaults DEF Parsing, Processes, Tests, Limited, Limit
<1>2. p.local["username"] \in Int /\ p.local["private_key"] \in Int
  BY <1>1 DEF LocalNames
<1>3. rate \in Int /\ duration \in Int /\ skew \in Int
  BY <1>1, Defaults DEF UDP_RATE
<1>4. stats \in Int
  <2>1. /\ t.f["bitrate_limit_interval"] \in Int /\ t.f["stats_interval"] \in Int
        /\ t.f["bitrate_limit_stats_per_interval"] \in Int
    BY <1>1, Defaults
  <2>2. \A a, b \in Int : b > 0 => (2 * a + b) \div (2 * b) \in Int
    OBVIOUS
  <2> QED
    BY <1>1, <2>1, <2>2 DEF StatsPerInterval
<1>5. u = [t EXCEPT !.f = g]
  <2>1. u = [t EXCEPT !.f = SettledFields(p, infinity)]
    BY DEF Settled
  <2>2. SettledFields(p, infinity) = g
    BY <1>1, Defaults DEF SettledFields
  <2> QED
    BY <2>1, <2>2, Zenon
<1> HIDE DEF rate, duration, skew, stats
<1>6. g1 \in [Fields -> Int] /\ g2 \in [Fields -> Int] /\ g3 \in [Fields -> Int]
  <2>1. g1 \in [Fields -> Int]
    BY <1>1, OneField, Defaults
  <2>2. g2 \in [Fields -> Int]
    BY <1>3, <2>1, OneField, Defaults
  <2> QED
    BY <1>3, <2>1, <2>2, OneField, Defaults
<1>7. g4 \in [Fields -> Int] /\ g5 \in [Fields -> Int] /\ g6 \in [Fields -> Int] /\ g \in [Fields -> Int]
  <2>1. g4 \in [Fields -> Int]
    BY <1>2, <1>6, OneField, Defaults
  <2>2. g5 \in [Fields -> Int]
    BY <1>2, <2>1, OneField, Defaults
  <2>3. g6 \in [Fields -> Int]
    BY <1>3, <2>2, OneField, Defaults
  <2> QED
    BY <1>4, <2>1, <2>2, <2>3, OneField, Defaults
<1>8. /\ g["blksize"] = BlockSize(p) /\ g["rate"] = rate /\ g["duration"] = duration
      /\ \A k \in Fields \ {"blksize", "rate", "duration", "client_username",
                            "server_rsa_private_key", "server_skew_threshold",
                            "bitrate_limit_stats_per_interval"} : g[k] = t.f[k]
  BY <1>1, <1>6, <1>7, Defaults
<1> HIDE DEF g
<1>9. /\ u \in Tests /\ u.role = t.role /\ u.mode = t.mode /\ u.protocol = t.protocol
      /\ u.sender_has_retransmits = t.sender_has_retransmits /\ u.f = g
  BY <1>1, <1>5, <1>7 DEF Tests
<1> QED
  BY <1>8, <1>9 DEF rate, duration

(* The end of the command line: a client's test is within the limits, a     *)
(* server's is as good as new.                                              *)
LEMMA ParseKeeps ==
  ASSUME NEW p, Parsing(p), NEW loads \in BOOLEAN, NEW infinity \in Int,
         NEW q, q = iperf_parse_arguments(p, loads, infinity)
  PROVE  /\ q \in Processes
         /\ ~q.refused => /\ q.test.role = "c" => Asked(q.test)
                          /\ q.test.role = "s" => Fresh(q.test)
<1> DEFINE t == p.test
           u == Settled(p, infinity)
<1>1. p \in Processes /\ t \in Tests /\ p.local \in [LocalNames -> Int]
  BY DEF Parsing, Processes
<1>2. CASE RolesRefused(p, loads) \/ SizeRefused(p) \/ EndsRefused(p)
  <2>1. q = [p EXCEPT !.refused = TRUE]
    BY <1>2 DEF iperf_parse_arguments, Unless
  <2>2. q \in Processes /\ q.refused
    BY <1>1, <2>1 DEF Processes
  <2> QED
    BY <2>2
<1>3. CASE ~(RolesRefused(p, loads) \/ SizeRefused(p) \/ EndsRefused(p))
  <2>1. q = [p EXCEPT !.test = u]
    BY <1>3 DEF iperf_parse_arguments, Unless
  <2>2. BlockSize(p) \in Int
    BY <1>1 DEF BlockSize, LocalNames, DEFAULT_SCTP_BLKSIZE, DEFAULT_TCP_BLKSIZE
  <2>3. /\ u \in Tests /\ u.role = t.role /\ u.mode = t.mode /\ u.protocol = t.protocol
        /\ u.sender_has_retransmits = t.sender_has_retransmits
        /\ u.f["blksize"] = BlockSize(p)
        /\ u.f["duration"] \in {0, t.f["duration"]}
        /\ "rate" \notin p.flags /\ t.protocol = "tcp" => u.f["rate"] = 0
        /\ \A k \in Fields \ {"blksize", "rate", "duration", "client_username",
                              "server_rsa_private_key", "server_skew_threshold",
                              "bitrate_limit_stats_per_interval"} : u.f[k] = t.f[k]
    BY <2>2, SettledFacts
  <2> HIDE DEF u
  <2>4. q \in Processes /\ q.test = u
    BY <1>1, <2>1, <2>3 DEF Processes
  <2>5. ModeKept(u)
    BY <2>3, Defaults DEF Parsing, ModeKept, RetransmitsKnown
  <2>6. ASSUME t.role = "c" PROVE Asked(u)
    <3>1. /\ t.protocol # "udp" => BlockSize(p) \in 1 .. MAX_BLOCKSIZE
          /\ t.protocol = "udp" => \/ BlockSize(p) \in MIN_UDP_BLOCKSIZE .. MAX_UDP_BLOCKSIZE
                                  \/ BlockSize(p) < 0 \/ BlockSize(p) = 0
      <4> DEFINE b == BlockSize(p)
      <4>1. /\ b \in Int /\ ~(b > MAX_BLOCKSIZE) /\ ~(t.protocol # "udp" /\ b <= 0)
            /\ ~(t.protocol = "udp" /\ b > 0 /\ b \notin MIN_UDP_BLOCKSIZE .. MAX_UDP_BLOCKSIZE)
        BY <1>3, <2>2, Zenon DEF SizeRefused
      <4> HIDE DEF b, t
      <4>2. /\ t.protocol # "udp" => b \in 1 .. MAX_BLOCKSIZE
            /\ t.protocol = "udp" => \/ b \in MIN_UDP_BLOCKSIZE .. MAX_UDP_BLOCKSIZE
                                    \/ b < 0 \/ b = 0
        BY <4>1, SizeLimits, SMT
      <4> QED
        BY <4>2 DEF b, t
    <3>2. /\ u.f["num_streams"] <= MAX_STREAMS /\ u.f["mss"] <= MAX_MSS
          /\ u.f["omit"] \in 0 .. 60 /\ u.f["tos"] \in 0 .. 255 /\ u.f["burst"] \in 0 .. MAX_BURST
      BY <2>3, Defaults, SMT DEF Parsing, Limited, Limit
    <3>3. u.f["socket_bufsize"] <= MAX_TCP_BUFFER
      BY <2>3, Defaults, SMT DEF Parsing, Limited, Limit
    <3>4. u.f["duration"] <= MAX_TIME
      BY <2>3, Defaults, SMT DEF Parsing, Limited, Limit, MAX_TIME
    <3> QED
      BY <2>3, <2>5, <2>6, <3>1, <3>2, <3>3, <3>4 DEF Asked, InLimits, SizeInLimits, SizeOpen
  <2>7. ASSUME t.role = "s" PROVE Fresh(u)
    <3>1. "client" \notin p.flags
      BY <1>3, <2>7 DEF RolesRefused
    <3>2. Untouched(t) /\ t.protocol = "tcp" /\ p.local["len"] = 0 /\ "rate" \notin p.flags
      BY <3>1 DEF Parsing
    <3>3. BlockSize(p) = iperf_defaults["blksize"]
      BY <3>2, Defaults DEF BlockSize
    <3>4. u.mode = RECEIVER
      BY <2>3, <2>7, <3>2, Defaults DEF Untouched, ClientFields, Parsing, ModeKept, Direction
    <3>5. Untouched(u)
      BY <2>3, <3>2, <3>3, ClientNames, Defaults DEF Untouched
    <3> QED
      BY <2>3, <2>7, <3>4, <3>5 DEF Fresh
  <2> QED
    BY <2>3, <2>4, <2>6, <2>7
<1> QED
  BY <1>2, <1>3

---------------------------------------------------------------------------------
(* The parameters that a client sends.                                      *)
SentBy(t) ==
  AlwaysSent \cup {k \in SentIfSet : t.f[k] # 0}
    \cup (IF t.f["client_username"] # 0 THEN {"authtoken"} ELSE {})
    \cup {k \in {"server_affinity"} : t.f[k] # -1}

(* What send_parameters puts into the object.                               *)
LEMMA SendFacts ==
  ASSUME NEW t \in Tests, NEW w, w = send_parameters(t)
  PROVE  /\ w.protocol = t.protocol /\ DOMAIN w.f = SentBy(t) /\ SentBy(t) \subseteq Fields
         /\ \A k \in SentBy(t) : w.f[k] = IF k = "authtoken" THEN t.f["client_username"] ELSE t.f[k]
<1>1. SentBy(t) \subseteq Fields
  BY Defaults DEF SentBy
<1>2. w = [protocol |-> t.protocol,
           f |-> [k \in SentBy(t) |-> IF k = "authtoken" THEN t.f["client_username"] ELSE t.f[k]]]
  BY DEF send_parameters, SentBy
<1>3. /\ w.protocol = t.protocol
      /\ w.f = [k \in SentBy(t) |-> IF k = "authtoken" THEN t.f["client_username"] ELSE t.f[k]]
  BY <1>2
<1> QED
  BY <1>1, <1>3

(* What a server that waits for a client makes of them.                     *)
LEMMA ExchangeFacts ==
  ASSUME NEW s \in Tests, Fresh(s), NEW c \in Tests, Asked(c), c.f["blksize"] # 0,
         NEW w, w = send_parameters(c), NEW r, r = get_parameters(s, w)
  PROVE  /\ r \in Tests /\ r.role = "s" /\ r.protocol = c.protocol
         /\ r.mode = Opposite(c.mode) /\ RetransmitsKnown(r)
         /\ \A k \in AlwaysSent \cup SentIfSet \cup {"server_affinity"} :
              r.f[k] = c.f[k] \/ (k \in Sticky /\ c.f[k] = 0)
         /\ r.f["authtoken"] = 1 => c.f["client_username"] = 1
<1> DEFINE S == SentBy(c)
           a == set_protocol(s, w.protocol)
           b == Received(a, w)
           d == Reversed(b, w)
           e == BothWays(d, w)
<1>1. /\ w.protocol = c.protocol /\ DOMAIN w.f = S /\ S \subseteq Fields
      /\ \A k \in S : w.f[k] = IF k = "authtoken" THEN c.f["client_username"] ELSE c.f[k]
  BY SendFacts
<1>2. /\ c.f \in [Fields -> Int] /\ s.f \in [Fields -> Int] /\ s \in AnyTests
      /\ c.protocol \in {"tcp", "udp", "sctp"} /\ s.role = "s" /\ s.mode = RECEIVER
  BY DEF Tests, AnyTests, Fresh
<1>3. /\ a \in Tests /\ a.role = "s" /\ a.mode = RECEIVER /\ a.protocol = c.protocol
      /\ a.f = s.f /\ RetransmitsKnown(a)
  BY <1>1, <1>2, ProtocolFacts
<1>4. r = Retransmits(e)
  BY DEF get_parameters
<1> HIDE DEF a, S
<1> DEFINE g == [k \in Fields |-> IF k \in S \ {"reverse", "bidirectional"} THEN w.f[k] ELSE s.f[k]]
<1>5. g \in [Fields -> Int]
  BY <1>1, <1>2, Defaults
<1>6. /\ b \in Tests /\ b.role = "s" /\ b.mode = RECEIVER /\ b.protocol = c.protocol
      /\ b.f = g /\ RetransmitsKnown(b)
  <2>1. DOMAIN a.f = Fields
    BY <1>2, <1>3
  <2>2. b = [a EXCEPT !.f = g]
    BY <1>1, <1>3, <2>1 DEF Received
  <2> HIDE DEF g, b
  <2>3. /\ b \in Tests /\ b.role = a.role /\ b.mode = a.mode /\ b.protocol = a.protocol
        /\ b.f = g /\ b.sender_has_retransmits = a.sender_has_retransmits
    BY <1>3, <1>5, <2>2 DEF Tests
  <2> QED
    BY <1>3, <2>3 DEF RetransmitsKnown
<1>7. \A k \in Fields : g[k] = IF k \in S \ {"reverse", "bidirectional"} THEN w.f[k] ELSE s.f[k]
  OBVIOUS
<1> HIDE DEF g, b
<1>8. /\ "reverse" \in S <=> c.f["reverse"] # 0
      /\ "bidirectional" \in S <=> c.f["bidirectional"] # 0
  BY DEF S, SentBy, AlwaysSent, SentIfSet
<1>9. /\ c.f["reverse"] \in {0, 1} /\ c.f["bidirectional"] \in {0, 1}
      /\ c.f["bidirectional"] = 1 => c.f["reverse"] = 0 /\ c.mode = BIDIRECTIONAL
      /\ c.f["bidirectional"] = 0 /\ c.f["reverse"] = 1 => c.mode = RECEIVER
      /\ c.f["bidirectional"] = 0 /\ c.f["reverse"] = 0 => c.mode = SENDER
  BY DEF Asked, ModeKept, Direction
<1>10. g["reverse"] = 0 /\ g["bidirectional"] = 0
  BY <1>7, Defaults DEF Fresh, Untouched, ClientFields
<1>11. /\ d \in Tests /\ d.role = "s" /\ d.protocol = c.protocol /\ RetransmitsKnown(d)
       /\ d.mode = (IF c.f["reverse"] = 1 THEN SENDER ELSE RECEIVER)
       /\ d.f["reverse"] = c.f["reverse"] /\ d.f["bidirectional"] = 0
       /\ \A k \in Fields \ {"reverse"} : d.f[k] = g[k]
  <2>1. CASE c.f["reverse"] = 0
    BY <1>1, <1>6, <1>8, <1>10, <2>1 DEF Reversed
  <2>2. CASE c.f["reverse"] = 1
    <3>1. d = iperf_set_test_reverse(b)
      BY <1>1, <1>8, <2>2 DEF Reversed
    <3> HIDE DEF d
    <3>2. /\ d \in Tests /\ d.f = [b.f EXCEPT !["reverse"] = 1] /\ d.role = b.role
          /\ d.mode = Direction(b.role, 1, b.mode) /\ d.protocol = b.protocol /\ RetransmitsKnown(d)
      BY <1>6, <3>1, ReverseFacts
    <3>3. d.f["reverse"] = 1 /\ \A k \in Fields \ {"reverse"} : d.f[k] = g[k]
      BY <1>5, <1>6, <3>2, Defaults
    <3>4. d.mode = SENDER
      BY <1>6, <3>2 DEF Direction
    <3> QED
      BY <1>6, <1>10, <2>2, <3>2, <3>3, <3>4, Defaults
  <2> QED
    BY <1>9, <2>1, <2>2
<1> HIDE DEF d
<1>12. /\ e \in Tests /\ e.role = "s" /\ e.protocol = c.protocol
       /\ e.sender_has_retransmits = d.sender_has_retransmits
       /\ e.mode = Opposite(c.mode)
       /\ e.mode = d.mode \/ (d.mode = RECEIVER /\ e.mode = BIDIRECTIONAL)
       /\ e.f["reverse"] = c.f["reverse"] /\ e.f["bidirectional"] = c.f["bidirectional"]
       /\ \A k \in Fields \ {"reverse", "bidirectional"} : e.f[k] = g[k]
  <2>0. Opposite(BIDIRECTIONAL) = BIDIRECTIONAL /\ Opposite(SENDER) = RECEIVER /\ Opposite(RECEIVER) = SENDER
    BY DEF Opposite, BIDIRECTIONAL, SENDER, RECEIVER
  <2>1. CASE c.f["bidirectional"] = 0
    <3>1. e = d
      BY <1>1, <1>8, <2>1 DEF BothWays
    <3> HIDE DEF e
    <3>2. d.mode = Opposite(c.mode)
      BY <1>9, <1>11, <2>0, <2>1
    <3> QED
      BY <1>11, <2>1, <3>1, <3>2
  <2>2. CASE c.f["bidirectional"] = 1
    <3>1. e = iperf_set_test_bidirectional(d)
      BY <1>1, <1>8, <2>2 DEF BothWays
    <3> HIDE DEF e
    <3>2. /\ e \in Tests /\ e.f = [d.f EXCEPT !["bidirectional"] = 1] /\ e.role = d.role
          /\ e.mode = BIDIRECTIONAL /\ e.protocol = d.protocol
          /\ e.sender_has_retransmits = d.sender_has_retransmits
      BY <1>11, <3>1, BidirectionalFacts
    <3>3. d.f \in [Fields -> Int]
      BY <1>11 DEF Tests
    <3>4. e.f["bidirectional"] = 1 /\ \A k \in Fields \ {"bidirectional"} : e.f[k] = d.f[k]
      BY <3>2, <3>3, Defaults
    <3> QED
      BY <1>9, <1>11, <2>0, <2>2, <3>2, <3>4, Defaults
  <2> QED
    BY <1>9, <2>1, <2>2
<1> HIDE DEF e
<1>13. /\ r \in Tests /\ r.role = "s" /\ r.protocol = c.protocol /\ r.mode = e.mode /\ r.f = e.f
       /\ RetransmitsKnown(r)
  <2>1. CASE e.mode # RECEIVER /\ e.protocol = "tcp"
    <3>1. r = [e EXCEPT !.sender_has_retransmits = TRUE]
      BY <1>4, <2>1 DEF Retransmits
    <3>2. /\ r \in Tests /\ r.role = e.role /\ r.protocol = e.protocol /\ r.mode = e.mode /\ r.f = e.f
          /\ r.sender_has_retransmits = TRUE
      BY <1>12, <3>1 DEF Tests
    <3> QED
      BY <1>12, <2>1, <3>2 DEF RetransmitsKnown
  <2>2. CASE ~(e.mode # RECEIVER /\ e.protocol = "tcp")
    <3>1. r = e
      BY <1>4, <2>2 DEF Retransmits
    <3>2. e.sender_has_retransmits = FALSE
      BY <1>11, <1>12, <2>2 DEF RetransmitsKnown
    <3> QED
      BY <1>12, <2>2, <3>1, <3>2 DEF RetransmitsKnown
  <2> QED
    BY <2>1, <2>2
<1>14. ASSUME NEW k \in AlwaysSent \cup SentIfSet \cup {"server_affinity"}
       PROVE  r.f[k] = c.f[k] \/ (k \in Sticky /\ c.f[k] = 0)
  <2>1. k \in Fields /\ k # "authtoken"
    BY Defaults DEF AlwaysSent, SentIfSet
  <2>2. CASE k \in {"reverse", "bidirectional"}
    BY <1>12, <1>13, <2>2
  <2>3. CASE k \notin {"reverse", "bidirectional"} /\ k \in S
    BY <1>1, <1>7, <1>12, <1>13, <2>1, <2>3
  <2>4. CASE k \notin {"reverse", "bidirectional"} /\ k \notin S
    <3>1. r.f[k] = s.f[k]
      BY <1>7, <1>12, <1>13, <2>1, <2>4
    <3>2. k \notin AlwaysSent
      BY <2>4 DEF S, SentBy
    <3>3. CASE k = "server_affinity"
      <4>1. c.f[k] = -1
        BY <2>4, <3>3 DEF S, SentBy
      <4>2. s.f[k] = -1
        BY <3>3, Defaults DEF Fresh, Untouched, ClientFields
      <4> QED
        BY <3>1, <4>1, <4>2
    <3>4. CASE k \in SentIfSet
      <4>1. c.f[k] = 0 /\ k # "blksize"
        BY <2>4, <3>4 DEF S, SentBy
      <4>2. k \notin Sticky => s.f[k] = 0
        BY <3>4, <4>1, Defaults DEF Fresh, Untouched, ClientFields
      <4> QED
        BY <3>1, <4>1, <4>2
    <3> QED
      BY <3>2, <3>3, <3>4
  <2> QED
    BY <2>2, <2>3, <2>4
<1>15. r.f["authtoken"] = 1 => c.f["client_username"] = 1
  <2>1. r.f["authtoken"] = g["authtoken"]
    BY <1>12, <1>13, Defaults
  <2>2. s.f["authtoken"] = 0
    BY Defaults DEF Fresh, Untouched, ClientFields
  <2>3. g["authtoken"] = IF "authtoken" \in S THEN w.f["authtoken"] ELSE s.f["authtoken"]
    BY <1>7, Defaults
  <2>4. "authtoken" \in S => w.f["authtoken"] = c.f["client_username"]
    BY <1>1
  <2> QED
    BY <2>1, <2>2, <2>3, <2>4
<1> QED
  BY <1>12, <1>13, <1>14, <1>15

---------------------------------------------------------------------------------
(* A server's test is as good as new after iperf_reset_test.                *)
LEMMA ResetFacts ==
  ASSUME NEW t \in Tests, NEW r, r = iperf_reset_test(t)
  PROVE  r \in Tests /\ Fresh(r)
<1> DEFINE g == Cleared(t.f, ResetFields)
           u == [t EXCEPT !.role = "s", !.mode = RECEIVER, !.sender_has_retransmits = FALSE, !.f = g]
<1>1. t.f \in [Fields -> Int] /\ DOMAIN t.f = Fields
  BY DEF Tests
<1>2. g = [k \in Fields |-> IF k \in ResetFields THEN iperf_defaults[k] ELSE t.f[k]]
  BY <1>1 DEF Cleared
<1>3. g \in [Fields -> Int]
  BY <1>1, <1>2, Defaults
<1>4. \A k \in ClientFields : g[k] = iperf_defaults[k]
  BY <1>2, ClientNames, Defaults DEF ResetFields
<1>5. r = set_protocol(u, "tcp")
  BY DEF iperf_reset_test, Unused
<1> HIDE DEF g
<1>6. u \in AnyTests /\ u.role = "s" /\ u.mode = RECEIVER /\ u.f = g
  BY <1>3 DEF Tests, AnyTests, Modes
<1> HIDE DEF u
<1>7. r \in Tests /\ r.role = "s" /\ r.mode = RECEIVER /\ r.f = g
  BY <1>5, <1>6, ProtocolFacts
<1> QED
  BY <1>4, <1>7 DEF Fresh, Untouched

(* The invariant holds when nothing has been started.                       *)
LEMMA ParamsInit == Init => ParamsInv
<1> SUFFICES ASSUME Init PROVE ParamsInv
  OBVIOUS
<1>1. cl = Start /\ sv = iperf_new_test /\ phase = "options" /\ used = 0
  BY DEF Init
<1>2. Parsing(cl) /\ cl \in Processes /\ sv \in Tests /\ ~Serving
  BY <1>1, StartIsParsing DEF Parsing, Serving
<1> QED
  BY <1>1, <1>2, ParamsAssumption DEF ParamsInv, Accepted, ModesMatch, SameTest, AdmittedByOwnToken

(* A new process: nothing is known of the one before.                       *)
LEMMA NewProcessKeeps ==
  ASSUME ParamsInv, NewProcess, UNCHANGED used, sv' \in Tests, sv'.role = "s" => Fresh(sv')
  PROVE  ParamsInv'
<1>1. cl' = Start /\ phase' = "options" /\ used' = used
  BY DEF NewProcess
<1>2. Parsing(cl)' /\ cl' \in Processes
  BY <1>1, StartIsParsing DEF Parsing
<1>3. Serving' => Fresh(sv)'
  BY DEF Serving
<1> QED
  BY <1>1, <1>2, <1>3 DEF ParamsInv, Accepted, ModesMatch, SameTest, AdmittedByOwnToken

(* Every step keeps the invariant.                                          *)
LEMMA ParamsStep ==
  ASSUME ParamsInv, [Next]_vars
  PROVE  ParamsInv'
<1> USE DEF Accepted
<1>1. ASSUME NEW o \in Options \cup ServerOptions, GetOpt(o) PROVE ParamsInv'
  <2>1. /\ phase = "options" /\ used < MAX_OPTIONS /\ cl' = getopt(cl, o)
        /\ phase' \in {"exit", "options"} /\ wire' = wire /\ sv' = sv /\ used' \in {used, used + 1}
    BY <1>1 DEF GetOpt
  <2>2. Parsing(cl)'
    BY <2>1, GetoptKeeps DEF ParamsInv
  <2>3. cl' \in Processes /\ used' \in 0 .. MAX_OPTIONS
    BY <2>1, <2>2, ParamsAssumption DEF Parsing, ParamsInv
  <2>4. Serving' => Fresh(sv)'
    BY <2>1 DEF ParamsInv, Serving
  <2> QED
    BY <2>1, <2>2, <2>3, <2>4 DEF ParamsInv, ModesMatch, SameTest, AdmittedByOwnToken
<1>2. ASSUME NEW loads \in BOOLEAN, NEW infinity \in Infinities, EndOptions(loads, infinity) PROVE ParamsInv'
  <2>1. /\ phase = "options" /\ cl' = iperf_parse_arguments(cl, loads, infinity)
        /\ phase' = IF ~cl'.refused /\ cl'.test.role = "c" THEN "parsed" ELSE "exit"
        /\ sv' = IF ~cl'.refused /\ cl'.test.role = "s" /\ ~Serving THEN cl'.test ELSE sv
        /\ used' = used
    BY <1>2 DEF EndOptions
  <2>2. /\ cl' \in Processes
        /\ ~cl'.refused => /\ cl'.test.role = "c" => Asked(cl'.test)
                           /\ cl'.test.role = "s" => Fresh(cl'.test)
    BY <2>1, ParseKeeps, ParamsAssumption DEF ParamsInv
  <2>3. phase' = "parsed" => Asked(cl.test)'
    BY <2>1, <2>2
  <2>4. sv' \in Tests /\ (Serving' => Fresh(sv)')
    BY <2>1, <2>2 DEF ParamsInv, Serving, Processes
  <2>5. phase' \in {"parsed", "exit"}
    BY <2>1
  <2> QED
    BY <2>1, <2>2, <2>3, <2>4, <2>5 DEF ParamsInv, ModesMatch, SameTest, AdmittedByOwnToken
<1>3. ASSUME NEW mss \in MSS, Connect(mss) PROVE ParamsInv'
  <2> DEFINE t == cl.test
             b == IF t.protocol # "udp" \/ t.f["blksize"] # 0 THEN t.f["blksize"]
                  ELSE IF mss # 0 THEN mss ELSE DEFAULT_UDP_BLKSIZE
             g == [t.f EXCEPT !["blksize"] = b]
             u == [t EXCEPT !.f = g]
  <2>1. /\ phase = "parsed" /\ Serving /\ phase' = "connected" /\ sv' = sv /\ used' = used
        /\ cl' = [cl EXCEPT !.test.f.blksize =
                    IF cl.test.protocol # "udp" \/ @ # 0 THEN @
                    ELSE IF mss # 0 THEN mss ELSE DEFAULT_UDP_BLKSIZE]
    BY <1>3 DEF Connect
  <2>2. /\ cl \in Processes /\ t \in Tests /\ t.f \in [Fields -> Int] /\ Asked(t)
    BY <2>1 DEF ParamsInv, Processes, Tests
  <2>3. mss \in Int /\ (mss # 0 => mss \in MIN_UDP_BLOCKSIZE .. MAX_UDP_BLOCKSIZE)
    <3>1. mss \in {0} \cup MIN_UDP_BLOCKSIZE .. MAX_UDP_BLOCKSIZE
      BY ParamsAssumption, Zenon
    <3> QED
      BY <3>1, SizeLimits, SMT
  <2>4. b \in Int
    BY <2>2, <2>3, Defaults, SizeLimits, SMT
  <2>5. /\ t.protocol = "udp" => b \in MIN_UDP_BLOCKSIZE .. MAX_UDP_BLOCKSIZE \/ b < 0
        /\ t.protocol # "udp" => b \in 1 .. MAX_BLOCKSIZE
    <3>1. SizeInLimits(t) \/ SizeOpen(t)
      BY <2>2 DEF Asked
    <3>2. DEFAULT_UDP_BLKSIZE \in MIN_UDP_BLOCKSIZE .. MAX_UDP_BLOCKSIZE
      BY SizeLimits, SMT
    <3> QED
      BY <2>3, <3>1, <3>2 DEF SizeInLimits, SizeOpen
  <2>6. cl' = [cl EXCEPT !.test = u]
    BY <2>1, <2>2 DEF Processes, Tests
  <2> HIDE DEF b
  <2>7. g \in [Fields -> Int] /\ g["blksize"] = b /\ \A k \in Fields \ {"blksize"} : g[k] = t.f[k]
    BY <2>2, <2>4, OneField, Defaults
  <2> HIDE DEF g
  <2>8. /\ u \in Tests /\ u.role = t.role /\ u.mode = t.mode /\ u.protocol = t.protocol
        /\ u.sender_has_retransmits = t.sender_has_retransmits /\ u.f = g
    BY <2>2, <2>7 DEF Tests
  <2> HIDE DEF u
  <2>9. cl' \in Processes /\ cl'.test = u
    BY <2>2, <2>6, <2>8 DEF Processes
  <2>10. ModeKept(u)
    BY <2>2, <2>7, <2>8, Defaults DEF Asked, ModeKept, RetransmitsKnown
  <2>11. InLimits(u) /\ SizeInLimits(u)
    <3>1. \A k \in {"duration", "num_streams", "mss", "omit", "tos", "burst", "socket_bufsize"} :
            u.f[k] = t.f[k]
      BY <2>7, <2>8, Defaults
    <3>2. InLimits(u)
      BY <2>2, <3>1 DEF Asked, InLimits
    <3>3. SizeInLimits(u)
      BY <2>5, <2>7, <2>8 DEF SizeInLimits
    <3> QED
      BY <3>2, <3>3
  <2>12. Asked(cl.test)' /\ SizeInLimits(cl.test)'
    BY <2>2, <2>7, <2>8, <2>9, <2>10, <2>11 DEF Asked
  <2>13. Serving' /\ Fresh(sv)'
    BY <2>1 DEF ParamsInv, Serving
  <2> QED
    BY <2>1, <2>9, <2>12, <2>13 DEF ParamsInv, ModesMatch, SameTest, AdmittedByOwnToken
<1>4. CASE ConnectFails \/ ParametersLost
  <2>1. /\ phase' \in {"exit", "failed"} /\ UNCHANGED <<cl, sv, used>>
        /\ phase' = "exit" => phase = "parsed"
        /\ phase' = "failed" => phase \in {"connected", "sent"}
    BY <1>4 DEF ConnectFails, ParametersLost
  <2>2. phase' = "failed" => Asked(cl.test)' /\ SizeInLimits(cl.test)'
    BY <2>1 DEF ParamsInv, Accepted
  <2>3. Serving' /\ phase' = "exit" => Fresh(sv)'
    BY <2>1 DEF ParamsInv, Serving
  <2>4. sv' \in Tests /\ cl' \in Processes /\ used' \in 0 .. MAX_OPTIONS
    BY <2>1 DEF ParamsInv
  <2> QED
    BY <2>1, <2>2, <2>3, <2>4 DEF ParamsInv, ModesMatch, SameTest, AdmittedByOwnToken
<1>5. CASE SendParameters
  <2>1. phase = "connected" /\ phase' = "sent" /\ wire' = send_parameters(cl.test) /\ UNCHANGED <<cl, sv, used>>
    BY <1>5 DEF SendParameters
  <2>2. wire' = send_parameters(cl'.test)
    BY <2>1
  <2>3. Asked(cl.test)' /\ Serving' /\ Fresh(sv)' /\ SizeInLimits(cl.test)'
    BY <2>1 DEF ParamsInv, Serving, Accepted
  <2>4. sv' \in Tests /\ cl' \in Processes /\ used' \in 0 .. MAX_OPTIONS
    BY <2>1 DEF ParamsInv
  <2> QED
    BY <2>1, <2>2, <2>3, <2>4 DEF ParamsInv, ModesMatch, SameTest, AdmittedByOwnToken
<1>6. ASSUME NEW listens \in BOOLEAN, ExchangeParameters(listens) PROVE ParamsInv'
  <2> DEFINE c == cl.test
  <2>1. /\ phase = "sent" /\ sv' = get_parameters(sv, wire) /\ cl' = cl /\ used' = used
        /\ phase' \in {"unauthorized", "running", "failed"}
        /\ phase' = "running" => test_is_authorized(sv')
    BY <1>6 DEF ExchangeParameters
  <2>2. /\ sv \in Tests /\ Fresh(sv) /\ c \in Tests /\ Asked(c) /\ SizeInLimits(c)
        /\ wire = send_parameters(c)
    BY <2>1 DEF ParamsInv, Processes, Accepted
  <2>3. /\ sv' \in Tests /\ sv'.role = "s" /\ sv'.protocol = c.protocol
        /\ sv'.mode = Opposite(c.mode) /\ RetransmitsKnown(sv')
        /\ \A k \in AlwaysSent \cup SentIfSet \cup {"server_affinity"} :
             sv'.f[k] = c.f[k] \/ (k \in Sticky /\ c.f[k] = 0)
        /\ sv'.f["authtoken"] = 1 => c.f["client_username"] = 1
    <3>1. c.f["blksize"] # 0
      BY <2>2, SizeLimits, SMT DEF SizeInLimits
    <3> QED
      BY <2>1, <2>2, <3>1, ExchangeFacts
  <2> HIDE DEF c
  <2>4. cl'.test = c
    BY <2>1 DEF c
  <2>5. ModesMatch'
    BY <2>2, <2>3, <2>4 DEF ModesMatch, Asked, ModeKept
  <2>6. SameTest'
    BY <2>3, <2>4 DEF SameTest
  <2>7. AdmittedByOwnToken'
    BY <2>1, <2>3, <2>4 DEF AdmittedByOwnToken, test_is_authorized
  <2>8. InLimits(sv)' /\ SizeInLimits(sv)'
    <3>1. \A k \in {"duration", "num_streams", "mss", "omit", "tos", "burst", "socket_bufsize",
                    "blksize"} : sv'.f[k] = c.f[k]
      BY <2>3 DEF AlwaysSent, SentIfSet, Sticky
    <3>2. InLimits(c)
      BY <2>2 DEF Asked
    <3> QED
      BY <2>2, <2>3, <3>1, <3>2 DEF InLimits, SizeInLimits
  <2>9. cl' \in Processes /\ used' \in 0 .. MAX_OPTIONS /\ Asked(cl.test)' /\ SizeInLimits(cl.test)'
    BY <2>1, <2>2, <2>4 DEF ParamsInv
  <2> QED
    BY <2>1, <2>3, <2>5, <2>6, <2>7, <2>8, <2>9 DEF ParamsInv
<1>7. CASE TestEnds
  <2>1. /\ NewProcess /\ UNCHANGED used
        /\ sv' = IF sv.f.one_off = 1 /\ phase # "unauthorized" THEN iperf_new_test
                 ELSE iperf_reset_test(sv)
    BY <1>7 DEF TestEnds
  <2>2. sv' \in Tests /\ (sv'.role = "s" => Fresh(sv'))
    BY <2>1, ResetFacts, StartIsParsing DEF ParamsInv
  <2> QED
    BY <2>1, <2>2, NewProcessKeeps
<1>8. CASE ParseEnds
  <2>1. phase = "exit" /\ NewProcess /\ UNCHANGED used /\ sv' = sv
    BY <1>8 DEF ParseEnds
  <2>2. sv' \in Tests /\ (sv'.role = "s" => Fresh(sv'))
    BY <2>1 DEF ParamsInv, Serving
  <2> QED
    BY <2>1, <2>2, NewProcessKeeps
<1>9. CASE UNCHANGED vars
  <2>1. UNCHANGED <<argv, cl, wire, sv, phase, used>>
    BY <1>9 DEF vars
  <2> QED
    BY <2>1 DEF ParamsInv, Serving, ModesMatch, SameTest, AdmittedByOwnToken
<1> QED
  BY <1>1, <1>2, <1>3, <1>4, <1>5, <1>6, <1>7, <1>8, <1>9 DEF Next

(* Every run keeps the invariant.                                           *)
THEOREM ParamsInvariance == Spec => []ParamsInv
  BY ParamsInit, ParamsStep, PTL DEF Spec

(* Every field of the tests of client and server has its type, and what     *)
(* iperf_parse_arguments accepts, and then get_parameters stores, is within *)
(* the limits ParamsTypeOK names (iperf_api.c:1031, 2070): the block size   *)
(* is neither too large nor too small for its protocol, except that a       *)
(* negative one for UDP is accepted (iperf_api.c:1553, iperf.h:410).        *)
THEOREM ParamsTyped == Spec => []ParamsTypeOK
<1>1. ParamsInv => ParamsTypeOK
  <2> SUFFICES ASSUME ParamsInv PROVE ParamsTypeOK
    OBVIOUS
  <2>1. TestOK(cl.test) /\ TestOK(sv) /\ cl.refused \in BOOLEAN
    BY DEF ParamsInv, Processes, Tests, TestOK, Modes, Fields
  <2>2. Accepted => InLimits(cl.test)
    BY DEF ParamsInv, Asked
  <2>3. phase = "parsed" => SizeInLimits(cl.test) \/ SizeOpen(cl.test)
    BY DEF ParamsInv, Asked, Accepted
  <2> QED
    BY <2>1, <2>2, <2>3 DEF ParamsInv, ParamsTypeOK
<1> QED
  BY <1>1, ParamsInvariance, PTL

(* Whatever the command lines and the order of their options: when a test   *)
(* runs, one side sends what the other receives and both know whose sender  *)
(* counts retransmissions (iperf_api.c:560-618, 724, 2153).                 *)
THEOREM AlwaysModesMatch == Spec => []ModesMatch
<1>1. ParamsInv => ModesMatch
  BY DEF ParamsInv
<1> QED
  BY <1>1, ParamsInvariance, PTL

(* The server runs the test that its present client asked for, but for the  *)
(* parameters that no reset puts back (iperf_api.c:1984, 2070, 2869).       *)
THEOREM AlwaysSameTest == Spec => []SameTest
<1>1. ParamsInv => SameTest
  BY DEF ParamsInv
<1> QED
  BY <1>1, ParamsInvariance, PTL

(* A server with a private key and a list of users runs the tests of        *)
(* clients whose own token it has checked (iperf_api.c:1847, 1902, 2950).   *)
THEOREM AlwaysOwnToken == Spec => []AdmittedByOwnToken
<1>1. ParamsInv => AdmittedByOwnToken
  BY DEF ParamsInv
<1> QED
  BY <1>1, ParamsInvariance, PTL

---------------------------------------------------------------------------------
(* The order of the options.  View is what the options of a command line    *)
(* set; the mode and sender_has_retransmits of a test follow from it when   *)
(* the command line is accepted.                                            *)
Names == Fields \cup LocalNames \cup {"role", "protocol"}
View(p) ==
  [x \in Names |-> IF x \in Fields THEN p.test.f[x] ELSE IF x \in LocalNames THEN p.local[x]
                   ELSE IF x = "role" THEN p.test.role ELSE p.test.protocol]

(* What an option stores, put over what was there.                          *)
Over(w, v) == [x \in DOMAIN w |-> IF x \in DOMAIN v THEN v[x] ELSE w[x]]
Writes(fields, arg) ==
  [x \in {fields[i] : i \in DOMAIN arg} |-> arg[CHOOSE i \in DOMAIN arg : fields[i] = x]]
Bad(row, arg) == \E i \in DOMAIN arg : arg[i] \notin row.ok[i]

(* A server without an option for clients knows about retransmissions too.  *)
ServerKnows(p) ==
  p.test.role = "s" /\ "client" \notin p.flags => RetransmitsKnown(p.test)
Known(p) == Parsing(p) /\ ServerKnows(p)

(* p becomes q: refused, or with v stored and the flags F set.              *)
Makes(p, q, bad, v, F) ==
  /\ q.refused <=> bad
  /\ ~bad => View(q) = Over(View(p), v) /\ q.flags = p.flags \cup F
  /\ ServerKnows(q)

LEMMA Apart ==
  /\ Fields \cap LocalNames = {} /\ "role" \notin Fields \cup LocalNames
  /\ "protocol" \notin Fields \cup LocalNames
  /\ "reverse" \in Fields /\ "bidirectional" \in Fields
BY SMT DEF Fields, LocalNames, iperf_defaults

LEMMA ViewNames ==
  ASSUME NEW p
  PROVE  /\ DOMAIN View(p) = Names
         /\ \A x \in Fields : x \in Names /\ View(p)[x] = p.test.f[x]
         /\ \A x \in LocalNames : x \in Names /\ View(p)[x] = p.local[x]
         /\ "role" \in Names /\ View(p)["role"] = p.test.role
         /\ "protocol" \in Names /\ View(p)["protocol"] = p.test.protocol
<1>1. DOMAIN View(p) = Names /\ \A x \in Names :
        View(p)[x] = IF x \in Fields THEN p.test.f[x] ELSE IF x \in LocalNames THEN p.local[x]
                     ELSE IF x = "role" THEN p.test.role ELSE p.test.protocol
  BY DEF View
<1>2. \A x : x \in Names <=> x \in Fields \/ x \in LocalNames \/ x = "role" \/ x = "protocol"
  BY DEF Names
<1> QED
  BY <1>1, <1>2, Apart

(* A view is known by its parts.                                            *)
LEMMA ViewIs ==
  ASSUME NEW p, NEW w, w = [x \in Names |-> w[x]],
         \A x \in Fields : w[x] = p.test.f[x], \A x \in LocalNames : w[x] = p.local[x],
         w["role"] = p.test.role, w["protocol"] = p.test.protocol
  PROVE  View(p) = w
<1>1. ASSUME NEW x \in Names PROVE View(p)[x] = w[x]
  BY ViewNames DEF Names
<1>2. View(p) = [x \in Names |-> View(p)[x]]
  BY DEF View
<1> QED
  BY <1>1, <1>2

LEMMA StoredIsOver ==
  ASSUME NEW g, NEW fields, NEW arg
  PROVE  Stored(g, fields, arg) = Over(g, Writes(fields, arg))
<1> DEFINE v == Writes(fields, arg)
           h == Stored(g, fields, arg)
<1>1. DOMAIN v = {fields[i] : i \in DOMAIN arg}
      /\ \A x \in DOMAIN v : v[x] = arg[CHOOSE i \in DOMAIN arg : fields[i] = x]
  BY DEF Writes
<1>2. \A x : x \in DOMAIN v <=> \E i \in DOMAIN arg : fields[i] = x
  BY <1>1
<1>3. h = [x \in DOMAIN g |-> IF \E i \in DOMAIN arg : fields[i] = x
                              THEN arg[CHOOSE i \in DOMAIN arg : fields[i] = x] ELSE g[x]]
  BY Zenon DEF Stored
<1> HIDE DEF v, h
<1>4. \A x \in DOMAIN g : h[x] = IF x \in DOMAIN v THEN v[x] ELSE g[x]
  BY <1>1, <1>2, <1>3, Zenon
<1>5. h = [x \in DOMAIN g |-> IF x \in DOMAIN v THEN v[x] ELSE g[x]]
  BY <1>3, <1>4, Zenon
<1> QED
  BY <1>5, Zenon DEF Over, v, h

(* An option whose case is a row of a table.                                *)
LEMMA StoreMakes ==
  ASSUME NEW p, Known(p), NEW row, NEW arg, RowFits(row, arg),
         NEW g, g \notin {"server", "udp"}, \A i \in DOMAIN arg : Home[row.fields[i]] = g
  PROVE  LET q == Store(p, row, arg)
             v == Writes(row.fields, arg)
         IN /\ Known(q) /\ (q.refused <=> p.refused \/ Bad(row, arg))
            /\ ~Bad(row, arg) => View(q) = Over(View(p), v) /\ q.flags = p.flags \cup row.flags
            /\ \A x \in DOMAIN v : Home[x] = g
<1> DEFINE q == Store(p, row, arg)
           v == Writes(row.fields, arg)
<1>1. \A x \in DOMAIN v : Home[x] = g
  BY DEF Writes
<1>2. Home["role"] = "server" /\ Home["protocol"] = "udp"
  BY SMT DEF Home
<1>3. "role" \notin DOMAIN v /\ "protocol" \notin DOMAIN v
  BY <1>1, <1>2
<1>4. Parsing(q)
  BY StoreKeeps DEF Known
<1>5. p \in Processes /\ p.test \in Tests /\ p.test.f \in [Fields -> Int] /\ p.local \in [LocalNames -> Int]
      /\ p.refused \in BOOLEAN
  BY DEF Known, Parsing, Processes, Tests
<1>6. CASE Bad(row, arg)
  <2>1. q = [p EXCEPT !.refused = TRUE]
    BY <1>6 DEF Store, Bad
  <2>2. q.test = p.test /\ q.flags = p.flags /\ q.refused = TRUE
    BY <1>5, <2>1 DEF Processes
  <2> HIDE DEF q, v
  <2>3. ServerKnows(q)
    BY <2>2 DEF Known, ServerKnows
  <2>4. Known(q) /\ (q.refused <=> p.refused \/ Bad(row, arg))
    BY <1>4, <1>6, <2>2, <2>3 DEF Known
  <2> QED
    BY <1>1, <1>6, <2>4 DEF q, v
<1>7. CASE ~Bad(row, arg)
  <2> DEFINE f == Stored(p.test.f, row.fields, arg)
             l == Stored(p.local, row.fields, arg)
  <2>0. f = Over(p.test.f, v) /\ l = Over(p.local, v)
    BY StoredIsOver, Zenon
  <2>1. q = [p EXCEPT !.test.f = f, !.local = l, !.flags = @ \cup row.flags]
    BY <1>7 DEF Store, Bad
  <2> HIDE DEF q, v, f, l
  <2>2. /\ q.flags = p.flags \cup row.flags /\ q.local = l /\ q.refused = p.refused
        /\ q.test.f = f /\ q.test.role = p.test.role /\ q.test.mode = p.test.mode
        /\ q.test.protocol = p.test.protocol
        /\ q.test.sender_has_retransmits = p.test.sender_has_retransmits
    <3> DEFINE u == [p.test EXCEPT !.f = f]
    <3>1. /\ u.f = f /\ u.role = p.test.role /\ u.mode = p.test.mode
          /\ u.protocol = p.test.protocol
          /\ u.sender_has_retransmits = p.test.sender_has_retransmits
      BY <1>5 DEF Tests
    <3>2. q = [p EXCEPT !.test = u, !.local = l, !.flags = p.flags \cup row.flags]
      BY <1>5, <2>1 DEF Processes
    <3> HIDE DEF u
    <3>3. q.flags = p.flags \cup row.flags /\ q.local = l /\ q.test = u /\ q.refused = p.refused
      BY <1>5, <3>2 DEF Processes
    <3> QED
      BY <3>1, <3>3
  <2>3. ServerKnows(q)
    BY <2>2 DEF Known, ServerKnows, RetransmitsKnown
  <2>4. View(q) = Over(View(p), v)
    <3> DEFINE w == Over(View(p), v)
    <3>1. w = [x \in Names |-> w[x]]
          /\ \A x \in Names : w[x] = IF x \in DOMAIN v THEN v[x] ELSE View(p)[x]
      BY ViewNames DEF Over
    <3>2. /\ \A x \in Fields : f[x] = IF x \in DOMAIN v THEN v[x] ELSE p.test.f[x]
          /\ \A x \in LocalNames : l[x] = IF x \in DOMAIN v THEN v[x] ELSE p.local[x]
      BY <1>5, <2>0 DEF Over
    <3> HIDE DEF w
    <3>3. ASSUME NEW x \in Fields PROVE w[x] = q.test.f[x]
      <4>1. x \in Names /\ View(p)[x] = p.test.f[x]
        BY ViewNames, Zenon
      <4>2. w[x] = IF x \in DOMAIN v THEN v[x] ELSE p.test.f[x]
        BY <3>1, <4>1, Zenon
      <4> QED
        BY <2>2, <3>2, <4>2, Zenon
    <3>4. ASSUME NEW x \in LocalNames PROVE w[x] = q.local[x]
      <4>1. x \in Names /\ View(p)[x] = p.local[x]
        BY ViewNames, Zenon
      <4>2. w[x] = IF x \in DOMAIN v THEN v[x] ELSE p.local[x]
        BY <3>1, <4>1, Zenon
      <4> QED
        BY <2>2, <3>2, <4>2, Zenon
    <3>5. w["role"] = q.test.role /\ w["protocol"] = q.test.protocol
      BY <1>3, <2>2, <3>1, ViewNames
    <3>6. View(q) = w
      BY <3>1, <3>3, <3>4, <3>5, ViewIs
    <3> QED
      BY <3>6 DEF w
  <2>5. Known(q) /\ (q.refused <=> p.refused \/ Bad(row, arg))
    BY <1>4, <1>7, <2>2, <2>3 DEF Known
  <2> QED
    BY <1>1, <2>2, <2>4, <2>5 DEF q, v
<1> QED
  BY <1>6, <1>7

(* The options that are refused because of an earlier one.                  *)
Clash(w, opt) ==
  \/ opt = "server" /\ w["role"] = "c"
  \/ opt = "client" /\ w["role"] = "s"
  \/ opt = "reverse" /\ w["bidirectional"] = 1
  \/ opt = "bidir" /\ w["reverse"] = 1

(* What option o does to every process that has refused none: it is bad in  *)
(* itself, or clashes with an earlier one, or v is stored and F set.        *)
Effect(o, bad, v, F) ==
  /\ \A x \in DOMAIN v : Home[x] = Group(o.opt)
  /\ o.opt = "server" => "role" \in DOMAIN v /\ v["role"] = "s"
  /\ o.opt = "client" => "role" \in DOMAIN v /\ v["role"] = "c"
  /\ o.opt = "reverse" => "reverse" \in DOMAIN v /\ v["reverse"] = 1
  /\ o.opt = "bidir" => "bidirectional" \in DOMAIN v /\ v["bidirectional"] = 1
  /\ \A p : Known(p) /\ ~p.refused =>
       Makes(p, getopt(p, o), bad \/ Clash(View(p), o.opt), v, F)

HasEffect(o) == \E bad \in BOOLEAN : \E v, F : Effect(o, bad, v, F)

(* An option of the tables.                                                 *)
LEMMA RowEffect ==
  ASSUME NEW o, NEW row, NEW arg, RowFits(row, arg),
         \A i \in DOMAIN arg : Home[row.fields[i]] = Group(o.opt),
         o.opt \notin {"server", "client", "udp", "sctp", "reverse", "bidir"},
         \A p : getopt(p, o) = Store(p, row, arg)
  PROVE  Effect(o, Bad(row, arg), Writes(row.fields, arg), row.flags)
<1> DEFINE v == Writes(row.fields, arg)
           bad == Bad(row, arg)
           g == Group(o.opt)
<1>1. g \notin {"server", "udp"}
  BY DEF Group
<1>2. \A w : ~Clash(w, o.opt)
  BY DEF Clash
<1>3. \A x \in DOMAIN v : Home[x] = g
  BY DEF Writes
<1>4. ASSUME NEW p, Known(p), ~p.refused
      PROVE  Makes(p, getopt(p, o), bad \/ Clash(View(p), o.opt), v, row.flags)
  <2> DEFINE q == Store(p, row, arg)
  <2>0. \A i \in DOMAIN arg : Home[row.fields[i]] = g
    OBVIOUS
  <2> HIDE DEF g
  <2>1. /\ Known(q) /\ (q.refused <=> p.refused \/ bad)
        /\ ~bad => View(q) = Over(View(p), v) /\ q.flags = p.flags \cup row.flags
    BY <1>1, <1>4, <2>0, StoreMakes, Zenon
  <2>2. q = getopt(p, o)
    OBVIOUS
  <2> HIDE DEF q, v, bad
  <2>3. Makes(p, q, bad \/ Clash(View(p), o.opt), v, row.flags)
    BY <1>2, <1>4, <2>1 DEF Makes, Known
  <2> QED
    BY <2>2, <2>3
<1> HIDE DEF v, bad
<1>5. Effect(o, bad, v, row.flags)
  BY <1>3, <1>4 DEF Effect, g
<1> QED
  BY <1>5 DEF v, bad

(* A case that calls a setter, which makes r of the test of p.              *)
Sets(p, r, v) ==
  /\ \A x \in Fields : r.f[x] = IF x \in DOMAIN v THEN v[x] ELSE p.test.f[x]
  /\ r.role = IF "role" \in DOMAIN v THEN v["role"] ELSE p.test.role
  /\ r.protocol = IF "protocol" \in DOMAIN v THEN v["protocol"] ELSE p.test.protocol
  /\ \A x \in LocalNames : x \notin DOMAIN v

LEMMA SetMakes ==
  ASSUME NEW p, p \in Processes, NEW r \in Tests, NEW F \in SUBSET FlagNames, NEW v,
         Sets(p, r, v),
         r.role = "s" /\ "client" \notin F => RetransmitsKnown(r),
         NEW q, q = SetTest(p, r, F)
  PROVE  /\ View(q) = Over(View(p), v) /\ q.flags = p.flags \cup F
         /\ ServerKnows(q) /\ q.refused = p.refused
<1> DEFINE w == Over(View(p), v)
<1>1. /\ q.test = r /\ q.flags = p.flags \cup F /\ q.local = p.local /\ q.refused = p.refused
  BY SetTestFacts
<1>2. ServerKnows(q)
  BY <1>1 DEF ServerKnows
<1>3. w = [x \in Names |-> w[x]]
      /\ \A x \in Names : w[x] = IF x \in DOMAIN v THEN v[x] ELSE View(p)[x]
  BY ViewNames DEF Over
<1> HIDE DEF w
<1>4. ASSUME NEW x \in Fields PROVE w[x] = q.test.f[x]
  <2>1. x \in Names /\ View(p)[x] = p.test.f[x]
    BY ViewNames, Zenon
  <2> QED
    BY <1>1, <1>3, <2>1, Zenon DEF Sets
<1>5. ASSUME NEW x \in LocalNames PROVE w[x] = q.local[x]
  <2>1. x \in Names /\ View(p)[x] = p.local[x]
    BY ViewNames, Zenon
  <2> QED
    BY <1>1, <1>3, <2>1, Zenon DEF Sets
<1>6. w["role"] = q.test.role /\ w["protocol"] = q.test.protocol
  <2>1. /\ "role" \in Names /\ View(p)["role"] = p.test.role
        /\ "protocol" \in Names /\ View(p)["protocol"] = p.test.protocol
    BY ViewNames, Zenon
  <2> QED
    BY <1>1, <1>3, <2>1, Zenon DEF Sets
<1>7. View(q) = w
  BY <1>3, <1>4, <1>5, <1>6, ViewIs
<1> QED
  BY <1>1, <1>2, <1>7 DEF w

(* A case that refuses.                                                     *)
LEMMA RefuseMakes ==
  ASSUME NEW p, Known(p), NEW q, q = [p EXCEPT !.refused = TRUE], NEW bad, bad = TRUE, NEW v, NEW F
  PROVE  Makes(p, q, bad, v, F)
<1>1. p \in Processes
  BY DEF Known, Parsing
<1>2. q.test = p.test /\ q.flags = p.flags /\ q.refused = TRUE
  BY <1>1 DEF Processes
<1> QED
  BY <1>2 DEF Makes, Known, ServerKnows

(* Homes of the fields that have no row with one field.                     *)
LEMMA Homes ==
  /\ Home["role"] = "server" /\ Home["protocol"] = "udp"
  /\ Home["reverse"] = "reverse" /\ Home["bidirectional"] = "bidir"
  /\ Home["rate"] = "bitrate" /\ Home["burst"] = "bitrate" /\ Home["num_ostreams"] = "bitrate"
  /\ Home["bitrate_limit"] = "server_bitrate_limit"
  /\ Home["bitrate_limit_interval"] = "server_bitrate_limit"
  /\ Home["affinity"] = "affinity" /\ Home["server_affinity"] = "affinity"
  /\ Home["fqrate"] = "fq_rate"
BY SMT DEF Home

(* -s and -c.                                                               *)
LEMMA RoleEffect ==
  ASSUME NEW o \in Options \cup ServerOptions, o.opt \in {"server", "client"}
  PROVE  HasEffect(o)
<1> DEFINE role == IF o.opt = "server" THEN "s" ELSE "c"
           v == [x \in {"role"} |-> role]
           none == {}
<1>1. o.opt \in OptionNames
  BY ParamsAssumption
<1>2. DOMAIN v = {"role"} /\ v["role"] = role /\ role \in {"c", "s"}
  OBVIOUS
<1>3. none \in SUBSET FlagNames
  OBVIOUS
<1> HIDE DEF v, none
<1>4. \A x \in DOMAIN v : Home[x] = Group(o.opt)
  BY <1>2, Homes DEF Group
<1>5. ASSUME NEW p, Known(p), ~p.refused
      PROVE  Makes(p, getopt(p, o), FALSE \/ Clash(View(p), o.opt), v, none)
  <2> DEFINE t == p.test
             r == iperf_set_test_role(t, role)
             q == getopt(p, o)
             clash == t.role = IF o.opt = "server" THEN "c" ELSE "s"
  <2>1. q = IF clash THEN [p EXCEPT !.refused = TRUE] ELSE SetTest(p, r, none)
    BY <1>1, GetoptCases DEF Unless, none
  <2>2. p \in Processes /\ t \in Tests /\ ModeKept(t) /\ p.refused \in BOOLEAN
    BY <1>5 DEF Known, Parsing, Processes
  <2>3. r \in Tests /\ r.f = t.f /\ r.role = role /\ r.protocol = t.protocol /\ RetransmitsKnown(r)
    BY <1>2, <2>2, RoleFacts
  <2>4. Clash(View(p), o.opt) <=> clash
    <3>1. View(p)["role"] = t.role
      BY ViewNames
    <3> QED
      BY <3>1 DEF Clash
  <2> HIDE DEF q, r, clash, role
  <2>5. CASE clash
    <3>1. Makes(p, q, clash, v, none)
      BY <1>5, <2>1, <2>5, RefuseMakes
    <3>2. (FALSE \/ Clash(View(p), o.opt)) = clash
      BY <2>4, <2>5
    <3> QED
      BY <2>4, <2>5, <3>1 DEF q, Makes
  <2>6. CASE ~clash
    <3>1. Sets(p, r, v)
      BY <1>2, <2>3, Apart DEF Sets
    <3>2. q = SetTest(p, r, none)
      BY <2>1, <2>6
    <3>c. r.role = "s" /\ "client" \notin none => RetransmitsKnown(r)
      BY <2>3
    <3>3. /\ View(q) = Over(View(p), v) /\ q.flags = p.flags \cup none
          /\ ServerKnows(q) /\ q.refused = p.refused
      BY <1>3, <2>2, <2>3, <3>1, <3>2, <3>c, SetMakes
    <3> QED
      BY <1>5, <2>4, <2>6, <3>3 DEF Makes, q
  <2> QED
    BY <2>5, <2>6
<1>6. Effect(o, FALSE, v, none)
  <2>1. (o.opt = "server" => v["role"] = "s") /\ (o.opt = "client" => v["role"] = "c")
    BY <1>2
  <2> HIDE DEF role
  <2> QED
    BY <1>2, <1>4, <1>5, <2>1 DEF Effect
<1> QED
  BY <1>6 DEF HasEffect

(* -u and --sctp.                                                           *)
LEMMA ProtocolEffect ==
  ASSUME NEW o \in Options \cup ServerOptions, o.opt \in {"udp", "sctp"}
  PROVE  HasEffect(o)
<1> DEFINE v == [x \in {"protocol"} |-> o.opt]
           F == {"client"}
<1>1. o.opt \in OptionNames
  BY ParamsAssumption
<1>2. DOMAIN v = {"protocol"} /\ v["protocol"] = o.opt
  OBVIOUS
<1>3. F \in SUBSET FlagNames /\ "client" \in F
  BY DEF FlagNames
<1> HIDE DEF v
<1>4. \A x \in DOMAIN v : Home[x] = Group(o.opt)
  BY <1>2, Homes DEF Group
<1>5. ASSUME NEW p, Known(p), ~p.refused
      PROVE  Makes(p, getopt(p, o), FALSE \/ Clash(View(p), o.opt), v, F)
  <2> DEFINE t == p.test
             r == set_protocol(t, o.opt)
             q == getopt(p, o)
  <2>1. q = SetTest(p, r, F)
    BY <1>1, GetoptCases
  <2>2. p \in Processes /\ t \in Tests /\ t \in AnyTests /\ p.refused \in BOOLEAN
    BY <1>5 DEF Known, Parsing, Processes, Tests, AnyTests
  <2>3. r \in Tests /\ r.f = t.f /\ r.role = t.role /\ r.protocol = o.opt
    BY <2>2, ProtocolFacts
  <2>4. ~Clash(View(p), o.opt)
    BY DEF Clash
  <2> HIDE DEF q, r, F
  <2>5. Sets(p, r, v)
    BY <1>2, <2>3, Apart DEF Sets
  <2>c. r.role = "s" /\ "client" \notin F => RetransmitsKnown(r)
    BY <1>3
  <2>6. /\ View(q) = Over(View(p), v) /\ q.flags = p.flags \cup F
        /\ ServerKnows(q) /\ q.refused = p.refused
    BY <1>3, <2>1, <2>2, <2>3, <2>5, <2>c, SetMakes
  <2> QED
    BY <1>5, <2>4, <2>6 DEF Makes, q
<1> HIDE DEF F
<1>6. Effect(o, FALSE, v, F)
  BY <1>4, <1>5 DEF Effect
<1> QED
  BY <1>6 DEF HasEffect

(* -R and --bidir.                                                          *)
LEMMA DirectionEffect ==
  ASSUME NEW o \in Options \cup ServerOptions, o.opt \in {"reverse", "bidir"}
  PROVE  HasEffect(o)
<1> DEFINE name == IF o.opt = "reverse" THEN "reverse" ELSE "bidirectional"
           other == IF o.opt = "reverse" THEN "bidirectional" ELSE "reverse"
           v == [x \in {name} |-> 1]
           F == {"client"}
<1>1. o.opt \in OptionNames
  BY ParamsAssumption
<1>2. DOMAIN v = {name} /\ v[name] = 1
  OBVIOUS
<1>3. F \in SUBSET FlagNames /\ "client" \in F
  BY DEF FlagNames
<1> HIDE DEF v
<1>4. \A x \in DOMAIN v : Home[x] = Group(o.opt)
  BY <1>2, Homes DEF Group
<1>5. ASSUME NEW p, Known(p), ~p.refused
      PROVE  Makes(p, getopt(p, o), FALSE \/ Clash(View(p), o.opt), v, F)
  <2> DEFINE t == p.test
             r == IF o.opt = "reverse" THEN iperf_set_test_reverse(t) ELSE iperf_set_test_bidirectional(t)
             q == getopt(p, o)
             clash == t.f[other] = 1
  <2>1. q = IF clash THEN [p EXCEPT !.refused = TRUE] ELSE SetTest(p, r, F)
    BY <1>1, GetoptCases DEF Unless
  <2>2. p \in Processes /\ t \in Tests /\ t.f \in [Fields -> Int] /\ p.refused \in BOOLEAN
    BY <1>5 DEF Known, Parsing, Processes, Tests
  <2>3. r \in Tests /\ r.f = [t.f EXCEPT ![name] = 1] /\ r.role = t.role /\ r.protocol = t.protocol
    BY <2>2, ReverseFacts, BidirectionalFacts
  <2>4. Clash(View(p), o.opt) <=> clash
    <3>1. View(p)["reverse"] = t.f["reverse"] /\ View(p)["bidirectional"] = t.f["bidirectional"]
      BY ViewNames, Apart
    <3> QED
      BY <3>1 DEF Clash
  <2>n. name \in Fields
    BY Apart
  <2> HIDE DEF q, r, clash, name, F
  <2>5. CASE clash
    <3>1. Makes(p, q, clash, v, F)
      BY <1>5, <2>1, <2>5, RefuseMakes
    <3> QED
      BY <2>4, <2>5, <3>1 DEF q, Makes
  <2>6. CASE ~clash
    <3>1. Sets(p, r, v)
      BY <1>2, <2>2, <2>3, <2>n, Apart DEF Sets
    <3>2. q = SetTest(p, r, F)
      BY <2>1, <2>6
    <3>c. r.role = "s" /\ "client" \notin F => RetransmitsKnown(r)
      BY <1>3
    <3>3. /\ View(q) = Over(View(p), v) /\ q.flags = p.flags \cup F
          /\ ServerKnows(q) /\ q.refused = p.refused
      BY <1>3, <2>2, <2>3, <3>1, <3>2, <3>c, SetMakes
    <3> QED
      BY <1>5, <2>4, <2>6, <3>3 DEF Makes, q
  <2> QED
    BY <2>5, <2>6
<1>6. /\ o.opt = "reverse" => "reverse" \in DOMAIN v /\ v["reverse"] = 1
      /\ o.opt = "bidir" => "bidirectional" \in DOMAIN v /\ v["bidirectional"] = 1
  BY <1>2
<1> HIDE DEF F, name
<1>7. Effect(o, FALSE, v, F)
  BY <1>4, <1>5, <1>6 DEF Effect
<1> QED
  BY <1>7 DEF HasEffect

(* An option whose row has one field, with one number.                      *)
LEMMA OneEffect ==
  ASSUME NEW o, NEW row, NEW arg \in Seq(Int), Len(arg) = 1, OneFieldRow(row, o.opt),
         o.opt \notin {"server", "client", "udp", "sctp", "reverse", "bidir"},
         \A p : getopt(p, o) = Store(p, row, arg)
  PROVE  HasEffect(o)
<1>1. PICK name, ok, flags : /\ row = Case(<<name>>, <<ok>>, flags) /\ Fits(name, ok, flags)
                             /\ Home[name] = Group(o.opt)
  BY DEF OneFieldRow
<1>2. RowFits(row, arg)
  BY <1>1, OneNumber
<1>3. \A i \in DOMAIN arg : Home[row.fields[i]] = Group(o.opt)
  <2>1. DOMAIN arg = {1}
    OBVIOUS
  <2>2. row.fields = <<name>>
    BY <1>1 DEF Case
  <2>3. row.fields[1] = name
    BY <2>2
  <2> QED
    BY <1>1, <2>1, <2>3
<1>4. Effect(o, Bad(row, arg), Writes(row.fields, arg), row.flags)
  BY <1>2, <1>3, RowEffect
<1>5. Bad(row, arg) \in BOOLEAN
  BY DEF Bad
<1> QED
  BY <1>4, <1>5 DEF HasEffect

(* An option whose row has two fields, with one number or two.              *)
LEMMA TwoEffect ==
  ASSUME NEW o, NEW row, NEW arg \in Seq(Int), Len(arg) \in 1 .. 2, RowFits(row, arg),
         NEW a, NEW b, row.fields = <<a, b>>, Home[a] = Group(o.opt), Home[b] = Group(o.opt),
         o.opt \notin {"server", "client", "udp", "sctp", "reverse", "bidir"},
         \A p : getopt(p, o) = Store(p, row, arg)
  PROVE  HasEffect(o)
<1>1. \A i \in DOMAIN arg : Home[row.fields[i]] = Group(o.opt)
  <2>1. DOMAIN arg \subseteq {1, 2}
    OBVIOUS
  <2>2. row.fields[1] = a /\ row.fields[2] = b
    OBVIOUS
  <2> QED
    BY <2>1, <2>2
<1>2. Effect(o, Bad(row, arg), Writes(row.fields, arg), row.flags)
  BY <1>1, RowEffect
<1>3. Bad(row, arg) \in BOOLEAN
  BY DEF Bad
<1> QED
  BY <1>2, <1>3 DEF HasEffect

(* --nstreams, whose case runs on into the one of -b.                       *)
LEMMA StreamsEffect ==
  ASSUME NEW o \in Options \cup ServerOptions, o.opt = "nstreams"
  PROVE  HasEffect(o)
<1> DEFINE R == LoadCases["nstreams"]
           S == LoadCases["bitrate"]
           arg == o.arg
           v == Writes(R.fields, arg)
           w == Writes(S.fields, arg)
           both == [x \in DOMAIN v \cup DOMAIN w |-> IF x \in DOMAIN w THEN w[x] ELSE v[x]]
           F == R.flags \cup S.flags
           bad == Bad(R, arg) \/ Bad(S, arg)
           g == "bitrate"
<1>1. /\ o.opt \in OptionNames /\ arg \in Seq(Int) /\ Len(arg) = 1 /\ DOMAIN arg = {1}
  <2>1. o.opt \in OptionNames /\ arg \in Seq(Int) /\ Len(arg) \in 1 .. 1
    <3>1. o.opt \notin Pairs
      BY DEF Pairs
    <3> QED
      BY <3>1, ParamsAssumption, Zenon
  <2> HIDE DEF arg
  <2> QED
    BY <2>1
<1>2. OneFieldRow(R, "nstreams")
  BY LoadRows, TableNames
<1>3. RowFits(R, arg) /\ RowFits(S, arg)
  <2>1. RowFits(S, arg)
    BY <1>1, PairRows
  <2>2. PICK name, ok, flags : R = Case(<<name>>, <<ok>>, flags) /\ Fits(name, ok, flags)
    BY <1>2 DEF OneFieldRow
  <2>3. RowFits(Case(<<name>>, <<ok>>, flags), arg)
    BY <1>1, <2>2, OneNumber
  <2> QED
    BY <2>1, <2>2, <2>3
<1>4. R.fields[1] = "num_ostreams" /\ S.fields[1] = "rate"
  <2>1. /\ R = Case(<<"num_ostreams">>, <<Int>>, {"client"})
        /\ S = Case(<<"rate", "burst">>, <<Int, 1 .. MAX_BURST>>, {"rate", "client"})
    BY SMT DEF LoadCases
  <2>2. R.fields = <<"num_ostreams">> /\ S.fields = <<"rate", "burst">>
    BY <2>1 DEF Case
  <2> HIDE DEF R, S
  <2> QED
    BY <2>2
<1>5. /\ \A i \in DOMAIN arg : Home[R.fields[i]] = g
      /\ \A i \in DOMAIN arg : Home[S.fields[i]] = g
      /\ g \notin {"server", "udp"} /\ Group(o.opt) = g
  BY <1>1, <1>4, Homes DEF Group
<1>6. \A x : ~Clash(x, o.opt)
  BY DEF Clash
<1>7. \A p : getopt(p, o) = Store(Store(p, R, arg), S, arg)
  BY <1>1, GetoptCases
<1> HIDE DEF R, S, g, arg
<1>8. ASSUME NEW p, Known(p), ~p.refused
      PROVE  /\ Makes(p, getopt(p, o), bad \/ Clash(View(p), o.opt), both, F)
             /\ \A x \in DOMAIN v \cup DOMAIN w : Home[x] = g
  <2> DEFINE s == Store(p, R, arg)
             q == Store(s, S, arg)
  <2>1. /\ Known(s) /\ (s.refused <=> p.refused \/ Bad(R, arg))
        /\ ~Bad(R, arg) => View(s) = Over(View(p), v) /\ s.flags = p.flags \cup R.flags
        /\ \A x \in DOMAIN v : Home[x] = g
    BY <1>3, <1>5, <1>8, StoreMakes
  <2> HIDE DEF s
  <2>2. /\ Known(q) /\ (q.refused <=> s.refused \/ Bad(S, arg))
        /\ ~Bad(S, arg) => View(q) = Over(View(s), w) /\ q.flags = s.flags \cup S.flags
        /\ \A x \in DOMAIN w : Home[x] = g
    BY <1>3, <1>5, <2>1, StoreMakes
  <2>3. q = getopt(p, o)
    BY <1>7 DEF s
  <2> HIDE DEF q, v, w
  <2>4. Over(Over(View(p), v), w) = Over(View(p), both)
    BY DEF Over
  <2> HIDE DEF both
  <2>5. Makes(p, q, bad \/ Clash(View(p), o.opt), both, F)
    <3>1. q.refused <=> bad \/ Clash(View(p), o.opt)
      BY <1>6, <1>8, <2>1, <2>2
    <3>2. ASSUME ~(bad \/ Clash(View(p), o.opt))
          PROVE  View(q) = Over(View(p), both) /\ q.flags = p.flags \cup F
      <4>1. ~Bad(R, arg) /\ ~Bad(S, arg)
        BY <3>2
      <4>2. q.flags = (p.flags \cup R.flags) \cup S.flags
        BY <2>1, <2>2, <4>1
      <4>3. View(q) = Over(View(p), both)
        BY <2>1, <2>2, <2>4, <4>1
      <4> QED
        BY <4>2, <4>3
    <3> HIDE DEF bad, F
    <3> QED
      BY <2>2, <3>1, <3>2 DEF Makes, Known
  <2> QED
    BY <2>1, <2>2, <2>3, <2>5
<1>9. DOMAIN v = {"num_ostreams"} /\ DOMAIN w = {"rate"}
  BY <1>1, <1>4 DEF Writes, arg
<1>10. \A x \in DOMAIN both : Home[x] = Group(o.opt)
  <2>1. DOMAIN both = {"num_ostreams", "rate"}
    BY <1>9
  <2> HIDE DEF both
  <2> QED
    BY <2>1, <1>5, Homes DEF g
<1>11. bad \in BOOLEAN
  BY DEF Bad
<1> HIDE DEF both, F, bad
<1>12. Effect(o, bad, both, F)
  BY <1>8, <1>10 DEF Effect
<1> QED
  BY <1>11, <1>12 DEF HasEffect

(* Every option has one effect, whatever was before it.                     *)
LEMMA OptionEffect ==
  ASSUME NEW o \in Options \cup ServerOptions
  PROVE  HasEffect(o)
<1> DEFINE Setters == {"server", "client", "udp", "sctp", "reverse", "bidir"}
<1>1. /\ o.opt \in OptionNames /\ o.arg \in Seq(Int)
      /\ Len(o.arg) \in 1 .. (IF o.opt \in Pairs THEN 2 ELSE 1)
  BY ParamsAssumption
<1>2. o.opt \in Setters \cup {"nstreams"} => HasEffect(o)
  BY RoleEffect, ProtocolEffect, DirectionEffect, StreamsEffect
<1>3. ASSUME o.opt \notin Pairs PROVE Len(o.arg) = 1
  <2>1. Len(o.arg) \in 1 .. 1
    BY <1>1, <1>3, Zenon
  <2> QED
    BY <2>1
<1>4. o.opt \in Pairs => Len(o.arg) \in 1 .. 2
  BY <1>1
<1>5. CASE o.opt = "no_fq_socket_pacing"
  <2> DEFINE row == OtherCases["fq_rate"]
             zero == <<0>>
  <2>1. \A p : getopt(p, o) = Store(p, row, zero)
    BY <1>1, <1>5, GetoptCases
  <2>2. zero \in Seq(Int) /\ Len(zero) = 1
    OBVIOUS
  <2>3. OneFieldRow(row, o.opt)
    <3>1. OneFieldRow(row, "fq_rate")
      BY OtherRows, TableNames
    <3>2. Group(o.opt) = Group("fq_rate")
      BY <1>5 DEF Group
    <3> HIDE DEF row
    <3> QED
      BY <3>1, <3>2 DEF OneFieldRow
  <2> HIDE DEF row, zero
  <2> QED
    BY <1>5, <2>1, <2>2, <2>3, OneEffect
<1>6. CASE o.opt = "affinity"
  <2> DEFINE row == Affinity(o.arg)
  <2>1. Len(o.arg) \in 1 .. 2
    BY <1>4, <1>6 DEF Pairs
  <2>2. RowFits(row, o.arg)
    BY <1>1, <2>1, PairRows
  <2>3. row.fields = <<"affinity", "server_affinity">>
    BY DEF Affinity, Case
  <2>4. Home["affinity"] = Group(o.opt) /\ Home["server_affinity"] = Group(o.opt)
    BY <1>6, Homes DEF Group
  <2>5. \A p : getopt(p, o) = Store(p, row, o.arg)
    BY <1>1, <1>6, GetoptCases
  <2> HIDE DEF row
  <2> QED
    BY <1>1, <1>6, <2>1, <2>2, <2>3, <2>4, <2>5, TwoEffect
<1>7. CASE o.opt \in {"bitrate", "server_bitrate_limit"}
  <2> DEFINE row == LoadCases[o.opt]
             a == IF o.opt = "bitrate" THEN "rate" ELSE "bitrate_limit"
             b == IF o.opt = "bitrate" THEN "burst" ELSE "bitrate_limit_interval"
  <2>1. Len(o.arg) \in 1 .. 2
    BY <1>4, <1>7 DEF Pairs
  <2>2. RowFits(row, o.arg)
    BY <1>1, <1>7, <2>1, PairRows
  <2>3. row.fields = <<a, b>>
    <3>1. /\ LoadCases["bitrate"] = Case(<<"rate", "burst">>, <<Int, 1 .. MAX_BURST>>, {"rate", "client"})
          /\ LoadCases["server_bitrate_limit"] =
               Case(<<"bitrate_limit", "bitrate_limit_interval">>, <<Int, Interval>>, {"server"})
      BY SMT DEF LoadCases
    <3>2. /\ LoadCases["bitrate"].fields = <<"rate", "burst">>
          /\ LoadCases["server_bitrate_limit"].fields = <<"bitrate_limit", "bitrate_limit_interval">>
      BY <3>1 DEF Case
    <3> QED
      BY <1>7, <3>2
  <2>4. Home[a] = Group(o.opt) /\ Home[b] = Group(o.opt)
    BY <1>7, Homes DEF Group
  <2>5. \A p : getopt(p, o) = Store(p, row, o.arg)
    BY <1>1, <1>7, GetoptCases, TableNames
  <2> HIDE DEF row, a, b
  <2> QED
    BY <1>1, <1>7, <2>1, <2>2, <2>3, <2>4, <2>5, TwoEffect
<1>8. CASE o.opt \in DOMAIN SocketCases
  <2> DEFINE row == SocketCases[o.opt]
  <2>1. \A p : getopt(p, o) = Store(p, row, o.arg)
    BY <1>1, <1>8, GetoptCases
  <2>2. o.opt \notin Setters /\ Len(o.arg) = 1 /\ OneFieldRow(row, o.opt)
    BY <1>3, <1>8, TableNames, SocketRows DEF Pairs
  <2> HIDE DEF row
  <2> QED
    BY <1>1, <2>1, <2>2, OneEffect
<1>9. CASE o.opt \in DOMAIN OtherCases
  <2> DEFINE row == OtherCases[o.opt]
  <2>1. \A p : getopt(p, o) = Store(p, row, o.arg)
    BY <1>1, <1>9, GetoptCases
  <2>2. o.opt \notin Setters /\ Len(o.arg) = 1 /\ OneFieldRow(row, o.opt)
    BY <1>3, <1>9, TableNames, OtherRows DEF Pairs
  <2> HIDE DEF row
  <2> QED
    BY <1>1, <2>1, <2>2, OneEffect
<1>10. CASE o.opt \in DOMAIN LoadCases \ {"nstreams", "bitrate", "server_bitrate_limit"}
  <2> DEFINE row == LoadCases[o.opt]
  <2>1. \A p : getopt(p, o) = Store(p, row, o.arg)
    BY <1>1, <1>10, GetoptCases
  <2>2. o.opt \notin Setters /\ Len(o.arg) = 1 /\ OneFieldRow(row, o.opt)
    BY <1>3, <1>10, TableNames, LoadRows DEF Pairs
  <2> HIDE DEF row
  <2> QED
    BY <1>1, <2>1, <2>2, OneEffect
<1> QED
  BY <1>1, <1>2, <1>5, <1>6, <1>7, <1>8, <1>9, <1>10 DEF OptionNames

(* Two processes between which no later option, and no check after the      *)
(* loop, can tell.                                                          *)
Alike(p, q) ==
  /\ p.refused <=> q.refused
  /\ p.refused \/ (View(p) = View(q) /\ p.flags = q.flags)

(* A turn of the loop keeps what is known of a process.                     *)
LEMMA TurnKeeps ==
  ASSUME NEW p, Known(p), NEW o \in Options \cup ServerOptions
  PROVE  Known(Turn(p, o))
<1>1. CASE p.refused
  BY <1>1 DEF Turn
<1>2. CASE ~p.refused
  <2>1. PICK bad \in BOOLEAN : \E v, F : Effect(o, bad, v, F)
    BY OptionEffect DEF HasEffect
  <2>0. PICK v, F : Effect(o, bad, v, F)
    BY <2>1
  <2>2. ServerKnows(getopt(p, o))
    BY <1>2, <2>0 DEF Effect, Makes
  <2>3. Parsing(getopt(p, o))
    BY GetoptKeeps DEF Known
  <2> QED
    BY <1>2, <2>2, <2>3 DEF Turn, Known
<1> QED
  BY <1>1, <1>2

(* A turn of the loop does not tell processes apart.                        *)
LEMMA TurnAlike ==
  ASSUME NEW p, Known(p), NEW q, Known(q), Alike(p, q), NEW o \in Options \cup ServerOptions
  PROVE  Alike(Turn(p, o), Turn(q, o))
<1>1. CASE p.refused
  BY <1>1 DEF Turn, Alike
<1>2. CASE ~p.refused
  <2>1. PICK bad \in BOOLEAN : \E v, F : Effect(o, bad, v, F)
    BY OptionEffect DEF HasEffect
  <2>0. PICK v, F : Effect(o, bad, v, F)
    BY <2>1
  <2>2. ~q.refused /\ View(p) = View(q) /\ p.flags = q.flags
    BY <1>2 DEF Alike
  <2>3. /\ Makes(p, getopt(p, o), bad \/ Clash(View(p), o.opt), v, F)
        /\ Makes(q, getopt(q, o), bad \/ Clash(View(q), o.opt), v, F)
    BY <1>2, <2>0, <2>2 DEF Effect
  <2>4. Turn(p, o) = getopt(p, o) /\ Turn(q, o) = getopt(q, o)
    BY <1>2, <2>2 DEF Turn
  <2> QED
    BY <2>2, <2>3, <2>4 DEF Makes, Alike
<1> QED
  BY <1>1, <1>2

(* The pairs of options of which the second is refused, in either order.    *)
Rivals(a, b) == {a, b} = {"server", "client"} \/ {a, b} = {"reverse", "bidir"}

LEMMA RivalCases ==
  ASSUME NEW a, NEW b
  PROVE  Rivals(a, b) <=> \/ a = "server" /\ b = "client"
                          \/ a = "client" /\ b = "server"
                          \/ a = "reverse" /\ b = "bidir"
                          \/ a = "bidir" /\ b = "reverse"
<1>1. \A x, y : {a, b} = {x, y} <=> (a = x /\ b = y) \/ (a = y /\ b = x)
  OBVIOUS
<1> QED
  BY <1>1 DEF Rivals

LEMMA GroupsApart ==
  ASSUME NEW a, NEW b, a # b, {a, b} \notin Overlap, ~Rivals(a, b)
  PROVE  Group(a) # Group(b)
<1>1. /\ ~(a = "server" /\ b = "client") /\ ~(a = "client" /\ b = "server")
  BY RivalCases
<1>2. \A x, y : a = x /\ b = y => {a, b} = {x, y} /\ {a, b} = {y, x}
  OBVIOUS
<1>3. /\ ~(a = "udp" /\ b = "sctp") /\ ~(a = "sctp" /\ b = "udp")
      /\ ~(a = "tos" /\ b = "dscp") /\ ~(a = "dscp" /\ b = "tos")
      /\ ~(a = "bitrate" /\ b = "nstreams") /\ ~(a = "nstreams" /\ b = "bitrate")
      /\ ~(a = "fq_rate" /\ b = "no_fq_socket_pacing")
      /\ ~(a = "no_fq_socket_pacing" /\ b = "fq_rate")
  BY <1>2 DEF Overlap
<1> QED
  BY <1>1, <1>3 DEF Group

(* What an option stores makes its rival clash, and no other.               *)
LEMMA ClashMade ==
  ASSUME NEW w, DOMAIN w = Names, NEW a, NEW bad, NEW v, NEW F, Effect(a, bad, v, F), NEW b, Rivals(a.opt, b)
  PROVE  Clash(Over(w, v), b)
<1>1. /\ "role" \in Names /\ "reverse" \in Names /\ "bidirectional" \in Names
  BY Apart DEF Names
<1>2. \A x \in Names : x \in DOMAIN v => Over(w, v)[x] = v[x]
  BY DEF Over
<1> QED
  BY <1>1, <1>2, RivalCases DEF Effect, Clash

LEMMA ClashKept ==
  ASSUME NEW w, DOMAIN w = Names, NEW a, NEW v, \A x \in DOMAIN v : Home[x] = Group(a),
         NEW b, a # b, ~Rivals(a, b)
  PROVE  Clash(Over(w, v), b) <=> Clash(w, b)
<1>1. /\ "role" \in Names /\ "reverse" \in Names /\ "bidirectional" \in Names
  BY Apart DEF Names
<1>2. \A x \in Names : x \notin DOMAIN v => Over(w, v)[x] = w[x]
  BY DEF Over
<1>3. b \in {"server", "client"} => "role" \notin DOMAIN v
  BY Homes, RivalCases DEF Group
<1>4. b = "reverse" => "bidirectional" \notin DOMAIN v
  BY Homes, RivalCases DEF Group
<1>5. b = "bidir" => "reverse" \notin DOMAIN v
  BY Homes, RivalCases DEF Group
<1> QED
  BY <1>1, <1>2, <1>3, <1>4, <1>5 DEF Clash

(* One turn, and then another.                                              *)
LEMMA TwoTurns ==
  ASSUME NEW p, Known(p), ~p.refused, NEW a \in Options \cup ServerOptions, NEW b \in Options \cup ServerOptions,
         NEW bad, NEW v, NEW F, Effect(a, bad, v, F),
         NEW worse, NEW w, NEW G, Effect(b, worse, w, G), NEW q, q = Turn(Turn(p, a), b)
  PROVE  /\ q.refused <=> \/ bad \/ Clash(View(p), a.opt)
                          \/ worse \/ Clash(Over(View(p), v), b.opt)
         /\ ~q.refused => /\ View(q) = Over(Over(View(p), v), w)
                          /\ q.flags = (p.flags \cup F) \cup G
<1> DEFINE r == Turn(p, a)
<1>1. r = getopt(p, a)
  BY DEF Turn
<1>2. Known(r)
  BY TurnKeeps
<1>3. Makes(p, r, bad \/ Clash(View(p), a.opt), v, F)
  BY <1>1 DEF Effect
<1> HIDE DEF r
<1>4. CASE r.refused
  <2>1. q = r
    BY <1>4 DEF Turn, r
  <2> QED
    BY <1>3, <1>4, <2>1 DEF Makes
<1>5. CASE ~r.refused
  <2>1. q = getopt(r, b)
    BY <1>5 DEF Turn, r
  <2>2. Makes(r, q, worse \/ Clash(View(r), b.opt), w, G)
    BY <1>2, <1>5, <2>1 DEF Effect
  <2>3. ~(bad \/ Clash(View(p), a.opt)) /\ View(r) = Over(View(p), v) /\ r.flags = p.flags \cup F
    BY <1>3, <1>5 DEF Makes
  <2> QED
    BY <2>2, <2>3 DEF Makes
<1> QED
  BY <1>4, <1>5

(* Two options that set different things, in either order.                  *)
LEMMA TurnsCommute ==
  ASSUME NEW p, Known(p), NEW a \in Options \cup ServerOptions, NEW b \in Options \cup ServerOptions,
         a.opt # b.opt, {a.opt, b.opt} \notin Overlap
  PROVE  Alike(Turn(Turn(p, a), b), Turn(Turn(p, b), a))
<1>1. CASE p.refused
  BY <1>1 DEF Turn, Alike
<1>2. CASE ~p.refused
  <2> DEFINE q == Turn(Turn(p, a), b)
             r == Turn(Turn(p, b), a)
             x == View(p)
  <2>1. PICK bad \in BOOLEAN : \E v, F : Effect(a, bad, v, F)
    BY OptionEffect DEF HasEffect
  <2>2. PICK v, F : Effect(a, bad, v, F)
    BY <2>1
  <2>3. PICK worse \in BOOLEAN : \E w, G : Effect(b, worse, w, G)
    BY OptionEffect DEF HasEffect
  <2>4. PICK w, G : Effect(b, worse, w, G)
    BY <2>3
  <2>5. /\ q.refused <=> bad \/ Clash(x, a.opt) \/ worse \/ Clash(Over(x, v), b.opt)
        /\ ~q.refused => View(q) = Over(Over(x, v), w) /\ q.flags = (p.flags \cup F) \cup G
    BY <1>2, <2>2, <2>4, TwoTurns
  <2>6. /\ r.refused <=> worse \/ Clash(x, b.opt) \/ bad \/ Clash(Over(x, w), a.opt)
        /\ ~r.refused => View(r) = Over(Over(x, w), v) /\ r.flags = (p.flags \cup G) \cup F
    BY <1>2, <2>2, <2>4, TwoTurns
  <2>7. DOMAIN x = Names
    BY ViewNames
  <2> HIDE DEF q, r, x
  <2>8. CASE Rivals(a.opt, b.opt)
    <3>1. Rivals(b.opt, a.opt)
      BY <2>8, RivalCases
    <3>2. Clash(Over(x, v), b.opt) /\ Clash(Over(x, w), a.opt)
      BY <2>2, <2>4, <2>7, <2>8, <3>1, ClashMade
    <3> QED
      BY <2>5, <2>6, <3>2 DEF Alike, q, r
  <2>9. CASE ~Rivals(a.opt, b.opt)
    <3>1. ~Rivals(b.opt, a.opt)
      BY <2>9, RivalCases
    <3>2. /\ \A y \in DOMAIN v : Home[y] = Group(a.opt)
          /\ \A y \in DOMAIN w : Home[y] = Group(b.opt)
      BY <2>2, <2>4 DEF Effect
    <3>3. /\ Clash(Over(x, v), b.opt) <=> Clash(x, b.opt)
          /\ Clash(Over(x, w), a.opt) <=> Clash(x, a.opt)
      BY <2>7, <2>9, <3>1, <3>2, ClashKept
    <3>4. Group(a.opt) # Group(b.opt)
      BY <2>9, GroupsApart
    <3>5. \A y : ~(y \in DOMAIN v /\ y \in DOMAIN w)
      BY <3>2, <3>4
    <3>6. Over(Over(x, v), w) = Over(Over(x, w), v)
      BY <3>5 DEF Over
    <3>7. (p.flags \cup F) \cup G = (p.flags \cup G) \cup F
      OBVIOUS
    <3>8. Alike(q, r)
      BY <2>5, <2>6, <3>3, <3>6, <3>7 DEF Alike
    <3> QED
      BY <3>8 DEF q, r
  <2> QED
    BY <2>8, <2>9
<1> QED
  BY <1>1, <1>2

(* What the checks after the loop make of two processes that are alike.     *)
LEMMA AlikeOutcome ==
  ASSUME NEW p, Known(p), NEW q, Known(q), Alike(p, q)
  PROVE  SameOutcome(IF p.refused THEN p ELSE iperf_parse_arguments(p, TRUE, 0),
                     IF q.refused THEN q ELSE iperf_parse_arguments(q, TRUE, 0))
<1> DEFINE t == p.test
           u == q.test
<1>1. /\ p \in Processes /\ q \in Processes /\ t \in Tests /\ u \in Tests
      /\ ModeKept(t) /\ ModeKept(u)
      /\ p.refused \in BOOLEAN /\ q.refused \in BOOLEAN
  BY DEF Known, Parsing, Processes
<1>2. CASE p.refused
  BY <1>1, <1>2 DEF Alike, SameOutcome
<1>3. CASE ~p.refused
  <2>1. ~q.refused /\ View(p) = View(q) /\ p.flags = q.flags
    BY <1>3 DEF Alike
  <2>2. t.role = u.role /\ t.protocol = u.protocol
    BY <2>1, ViewNames
  <2>3. t.f = u.f
    <3>1. \A x \in Fields : t.f[x] = u.f[x]
      BY <2>1, ViewNames
    <3>2. t.f \in [Fields -> Int] /\ u.f \in [Fields -> Int]
      BY <1>1 DEF Tests
    <3> QED
      BY <3>1, <3>2
  <2>4. p.local = q.local
    <3>1. \A x \in LocalNames : p.local[x] = q.local[x]
      BY <2>1, ViewNames
    <3>2. p.local \in [LocalNames -> Int] /\ q.local \in [LocalNames -> Int]
      BY <1>1 DEF Processes
    <3> QED
      BY <3>1, <3>2
  <2>5. CASE t.role = "none" \/ (t.role = "s" /\ "client" \in p.flags)
    <3>1. RolesRefused(p, TRUE) /\ RolesRefused(q, TRUE)
      BY <2>1, <2>2, <2>5 DEF RolesRefused
    <3>2. /\ iperf_parse_arguments(p, TRUE, 0) = [p EXCEPT !.refused = TRUE]
          /\ iperf_parse_arguments(q, TRUE, 0) = [q EXCEPT !.refused = TRUE]
      BY <3>1 DEF iperf_parse_arguments, Unless
    <3>3. [p EXCEPT !.refused = TRUE].refused = TRUE /\ [q EXCEPT !.refused = TRUE].refused = TRUE
      BY <1>1 DEF Processes
    <3> QED
      BY <1>3, <2>1, <3>2, <3>3 DEF SameOutcome
  <2>6. CASE t.role = "c" \/ (t.role = "s" /\ "client" \notin p.flags)
    <3>1. t.mode = u.mode
      BY <1>1, <2>2, <2>3 DEF ModeKept
    <3>2. RetransmitsKnown(t) /\ RetransmitsKnown(u)
      BY <1>1, <2>1, <2>2, <2>6 DEF ModeKept, Known, ServerKnows
    <3>3. t.sender_has_retransmits = u.sender_has_retransmits
      BY <2>2, <3>1, <3>2 DEF RetransmitsKnown
    <3>4. t = u
      <4>1. \A x, y \in Tests : x.role = y.role /\ x.mode = y.mode /\ x.protocol = y.protocol
              /\ x.sender_has_retransmits = y.sender_has_retransmits /\ x.f = y.f => x = y
        BY DEF Tests
      <4> QED
        BY <1>1, <2>2, <2>3, <3>1, <3>3, <4>1
    <3>5. p = q
      <4>1. \A x, y \in Processes : x.test = y.test /\ x.flags = y.flags /\ x.refused = y.refused
              /\ x.local = y.local => x = y
        BY DEF Processes
      <4>2. p.refused = q.refused
        BY <1>1, <1>3, <2>1
      <4> QED
        BY <1>1, <2>1, <2>4, <3>4, <4>1, <4>2
    <3> QED
      BY <3>5 DEF SameOutcome
  <2>7. t.role \in {"none", "c", "s"}
    BY <1>1 DEF Tests
  <2> QED
    BY <2>5, <2>6, <2>7
<1> QED
  BY <1>2, <1>3

(* The loop, a recursive function of the number of options read.            *)
Loops(f, n, line) == f = [k \in 0 .. n |-> IF k = 0 THEN Start ELSE Turn(f[k - 1], line[k])]

LEMMA LessIs ==
  \A x, y \in Nat : <<x, y>> \in OpToRel(<, Nat) <=> x < y
BY DEF OpToRel

LEMMA Counting ==
  ASSUME NEW n \in Nat, NEW T, 0 \in T, \A k \in 0 .. n - 1 : k \in T => k + 1 \in T
  PROVE  0 .. n \subseteq T
<1> DEFINE R == OpToRel(<, Nat)
           W == {k \in 0 .. n : k \notin T}
<1>0. IsWellFoundedOn(R, Nat)
  BY NatLessThanWellFounded, Zenon
<1>1. \A x, y \in Nat : <<x, y>> \in R <=> x < y
  BY LessIs, Zenon
<1>2. ASSUME W # {} PROVE FALSE
  <2>1. W \subseteq Nat
    OBVIOUS
  <2> HIDE DEF R
  <2>2. PICK k \in W : \A y \in W : ~(<<y, k>> \in R)
    BY <1>0, <1>2, <2>1, WFMin
  <2>3. k \in Nat /\ k # 0 /\ k <= n /\ k \notin T
    OBVIOUS
  <2>4. k - 1 \in 0 .. n - 1 /\ k - 1 \in 0 .. n /\ (k - 1) + 1 = k /\ k - 1 \in Nat /\ k - 1 < k
    BY <2>3
  <2>5. k - 1 \in W
    BY <2>3, <2>4
  <2> QED
    BY <1>1, <2>2, <2>3, <2>4, <2>5
<1> QED
  BY <1>2

LEMMA LoopExists ==
  ASSUME NEW n \in Nat, NEW line
  PROVE  \E f : Loops(f, n, line)
<1> DEFINE Upto(m) == \E f : Loops(f, m, line)
           T == {m \in 0 .. n : Upto(m)}
<1>0. \A m \in 0 .. n : m \in T <=> Upto(m)
  OBVIOUS
<1>1. 0 \in T
  <2> DEFINE f == [k \in 0 .. 0 |-> Start]
  <2>1. f = [k \in 0 .. 0 |-> IF k = 0 THEN Start ELSE Turn(f[k - 1], line[k])]
    OBVIOUS
  <2>2. Upto(0)
    BY <2>1 DEF Loops
  <2> HIDE DEF Upto, T
  <2> QED
    BY <1>0, <2>2
<1>2. ASSUME NEW m \in 0 .. n - 1, m \in T
      PROVE  m + 1 \in T
  <2>0. m \in Nat /\ m \in 0 .. n /\ m + 1 \in 0 .. n
    OBVIOUS
  <2>1. PICK f : f = [k \in 0 .. m |-> IF k = 0 THEN Start ELSE Turn(f[k - 1], line[k])]
    BY <1>0, <1>2, <2>0 DEF Loops
  <2> DEFINE v == Turn(f[m], line[m + 1])
             g == [k \in 0 .. m + 1 |-> IF k = m + 1 THEN v ELSE f[k]]
  <2> HIDE DEF v
  <2>2. ASSUME NEW k \in 0 .. m + 1
        PROVE  g[k] = IF k = 0 THEN Start ELSE Turn(g[k - 1], line[k])
    <3>1. CASE k = m + 1
      <4>1. g[k] = v /\ k # 0 /\ k - 1 = m /\ g[k - 1] = f[m]
        BY <2>0, <3>1
      <4> HIDE DEF g
      <4>2. Turn(g[k - 1], line[k]) = v
        BY <3>1, <4>1 DEF v
      <4> QED
        BY <4>1, <4>2
    <3>2. CASE k # m + 1
      <4>1. k \in 0 .. m /\ g[k] = f[k] /\ (k # 0 => g[k - 1] = f[k - 1])
        BY <2>0, <3>2
      <4>2. f[k] = IF k = 0 THEN Start ELSE Turn(f[k - 1], line[k])
        BY <2>1, <4>1
      <4> HIDE DEF g
      <4> QED
        BY <4>1, <4>2
    <3> QED
      BY <3>1, <3>2
  <2>3. g = [k \in 0 .. m + 1 |-> IF k = 0 THEN Start ELSE Turn(g[k - 1], line[k])]
    BY <2>2
  <2>4. Upto(m + 1)
    BY <2>3 DEF Loops
  <2> HIDE DEF Upto, T
  <2> QED
    BY <1>0, <2>0, <2>4
<1> HIDE DEF T
<1>3. 0 .. n \subseteq T
  BY <1>1, <1>2, Counting
<1> QED
  BY <1>0, <1>3

(* The processes on the way through a command line.                         *)
Path(f, line) == f[0] = Start /\ \A k \in 1 .. Len(line) : f[k] = Turn(f[k - 1], line[k])

LEMMA LoopSteps ==
  ASSUME NEW line, Len(line) \in Nat
  PROVE  \E f : Path(f, line) /\ f[Len(line)] = Turns(line)
<1> DEFINE n == Len(line)
           f == CHOOSE f : Loops(f, n, line)
<1>1. Loops(f, n, line)
  BY LoopExists, Zenon
<1>2. Turns(line) = f[n]
  BY Zenon DEF Turns, Loops
<1> HIDE DEF f
<1>3. f = [k \in 0 .. n |-> IF k = 0 THEN Start ELSE Turn(f[k - 1], line[k])]
  BY <1>1 DEF Loops
<1>4. Path(f, line)
  BY <1>3 DEF Path
<1> QED
  BY <1>2, <1>4

(* Two neighbours on a command line, exchanged.                             *)
Exchanged(line, other, i) ==
  /\ Len(other) = Len(line) /\ other[i] = line[i + 1] /\ other[i + 1] = line[i]
  /\ \A k \in 1 .. Len(line) : k # i /\ k # i + 1 => other[k] = line[k]

LEMMA SwapFacts ==
  ASSUME NEW S, NEW line \in Seq(S), NEW i \in 1 .. Len(line) - 1, NEW other, other = Swapped(line, i)
  PROVE  other \in Seq(S) /\ Exchanged(line, other, i)
<1>1. i \in 1 .. Len(line) /\ i + 1 \in 1 .. Len(line) /\ i # i + 1 /\ DOMAIN line = 1 .. Len(line)
  OBVIOUS
<1>2. line[i] \in S /\ line[i + 1] \in S
  BY <1>1
<1> QED
  BY <1>1, <1>2 DEF Swapped, Exchanged

(* All processes on the way through a command line are known.               *)
LEMMA KnownAlong ==
  ASSUME NEW line \in Seq(Options \cup ServerOptions), NEW f, Path(f, line)
  PROVE  \A k \in 0 .. Len(line) : Known(f[k])
<1> DEFINE T == {k \in 0 .. Len(line) : Known(f[k])}
<1>0. Len(line) \in Nat /\ 0 \in 0 .. Len(line)
  OBVIOUS
<1>1. 0 \in T
  <2>1. Start.test = iperf_new_test
    BY DEF Start
  <2>2. ServerKnows(Start)
    BY <2>1, StartIsParsing DEF ServerKnows
  <2>3. Known(f[0])
    BY <2>2, StartIsParsing DEF Known, Path
  <2> QED
    BY <1>0, <2>3
<1>2. ASSUME NEW k \in 0 .. Len(line) - 1, k \in T
      PROVE  k + 1 \in T
  <2>1. k + 1 \in 1 .. Len(line) /\ (k + 1) - 1 = k /\ k + 1 \in 0 .. Len(line)
    BY <1>0
  <2>2. Known(f[k]) /\ line[k + 1] \in Options \cup ServerOptions
    BY <1>2, <2>1
  <2>3. f[k + 1] = Turn(f[k], line[k + 1])
    BY <2>1 DEF Path
  <2>4. Known(f[k + 1])
    BY <2>2, <2>3, TurnKeeps
  <2> QED
    BY <2>1, <2>4
<1>3. \A k \in 0 .. Len(line) : k \in T => Known(f[k])
  OBVIOUS
<1> HIDE DEF T
<1>4. 0 .. Len(line) \subseteq T
  BY <1>0, <1>1, <1>2, Counting
<1> QED
  BY <1>3, <1>4

(* Up to the swapped options both loops are the same, after them alike.     *)
LEMMA LineAlike ==
  ASSUME NEW line \in Seq(Options \cup ServerOptions), NEW i \in 1 .. Len(line) - 1,
         line[i].opt # line[i + 1].opt, {line[i].opt, line[i + 1].opt} \notin Overlap,
         NEW other, other = Swapped(line, i),
         NEW f, Path(f, line), NEW g, Path(g, other)
  PROVE  Alike(f[Len(line)], g[Len(line)])
<1> DEFINE n == Len(line)
           Same(k) == /\ k < i => f[k] = g[k]
                      /\ k = i => f[i - 1] = g[i - 1]
                      /\ k > i => Alike(f[k], g[k])
           T == {k \in 0 .. n : Same(k)}
<1>0. n \in Nat /\ i \in Nat /\ i >= 1 /\ i + 1 <= n /\ i \in 1 .. n /\ i + 1 \in 1 .. n
  OBVIOUS
<1>1. /\ other \in Seq(Options \cup ServerOptions) /\ Len(other) = n
      /\ other[i] = line[i + 1] /\ other[i + 1] = line[i]
      /\ \A k \in 1 .. n : k # i /\ k # i + 1 => other[k] = line[k]
  <2>1. other \in Seq(Options \cup ServerOptions) /\ Exchanged(line, other, i)
    BY SwapFacts
  <2> QED
    BY <2>1 DEF Exchanged
<1>2. \A k \in 0 .. n : Known(f[k])
  BY KnownAlong
<1>3. \A k \in 0 .. n : Known(g[k])
  BY <1>1, KnownAlong
<1>4. \A k \in 1 .. n : line[k] \in Options \cup ServerOptions
  OBVIOUS
<1>5. 0 \in 0 .. n /\ Same(0)
  BY <1>0, <1>1 DEF Path
<1>6. ASSUME NEW k \in 0 .. n - 1, Same(k)
      PROVE  Same(k + 1)
  <2>a. k \in Nat /\ k + 1 \in 1 .. n /\ (k + 1) - 1 = k /\ k \in 0 .. n
    BY <1>0
  <2>b. f[k + 1] = Turn(f[k], line[k + 1]) /\ g[k + 1] = Turn(g[k], other[k + 1])
    BY <1>1, <2>a DEF Path
  <2>0. /\ k \in Nat /\ k + 1 \in 1 .. n /\ (k + 1) - 1 = k /\ k \in 0 .. n
        /\ f[k + 1] = Turn(f[k], line[k + 1]) /\ g[k + 1] = Turn(g[k], other[k + 1])
    BY <2>a, <2>b
  <2>1. CASE k + 1 < i
    <3>1. k < i /\ k + 1 # i /\ k + 1 # i + 1
      BY <1>0, <2>0, <2>1
    <3>2. f[k] = g[k] /\ other[k + 1] = line[k + 1]
      BY <1>1, <1>6, <2>0, <3>1
    <3> QED
      BY <1>0, <2>0, <2>1, <3>2
  <2>2. CASE k + 1 = i
    <3>1. k < i /\ i - 1 = k
      BY <1>0, <2>0, <2>2
    <3> QED
      BY <1>0, <1>6, <2>2, <3>1
  <2>3. CASE k = i
    <3>1. /\ f[i - 1] = g[i - 1] /\ i - 1 \in 0 .. n
          /\ f[i] = Turn(f[i - 1], line[i]) /\ g[i] = Turn(g[i - 1], line[i + 1])
      BY <1>0, <1>1, <1>6, <2>3 DEF Path
    <3>2. /\ f[i + 1] = Turn(Turn(f[i - 1], line[i]), line[i + 1])
          /\ g[i + 1] = Turn(Turn(f[i - 1], line[i + 1]), line[i])
      BY <1>1, <2>0, <2>3, <3>1
    <3>3. Known(f[i - 1]) /\ line[i] \in Options \cup ServerOptions
                          /\ line[i + 1] \in Options \cup ServerOptions
      BY <1>0, <1>2, <1>4, <3>1
    <3>4. Alike(f[i + 1], g[i + 1])
      BY <3>2, <3>3, TurnsCommute
    <3> QED
      BY <1>0, <2>3, <3>4
  <2>4. CASE k > i
    <3>1. k + 1 # i /\ k + 1 # i + 1 /\ k + 1 > i
      BY <1>0, <2>a, <2>4
    <3>2. Alike(f[k], g[k]) /\ other[k + 1] = line[k + 1]
      BY <1>1, <1>6, <2>0, <2>4, <3>1
    <3>3. Known(f[k]) /\ Known(g[k]) /\ line[k + 1] \in Options \cup ServerOptions
      BY <1>2, <1>3, <1>4, <2>0
    <3>4. Alike(f[k + 1], g[k + 1])
      BY <2>0, <3>2, <3>3, TurnAlike
    <3> QED
      BY <1>0, <2>0, <3>1, <3>4
  <2> QED
    BY <1>0, <2>0, <2>1, <2>2, <2>3, <2>4
<1>7. Same(n) => Alike(f[n], g[n])
  BY <1>0
<1> HIDE DEF Same
<1>8. /\ 0 \in T /\ \A k \in 0 .. n : k \in T <=> Same(k)
      /\ \A k \in 0 .. n - 1 : k \in 0 .. n /\ k + 1 \in 0 .. n
  BY <1>0, <1>5
<1> HIDE DEF T
<1>9. \A k \in 0 .. n - 1 : k \in T => k + 1 \in T
  BY <1>6, <1>8
<1>10. 0 .. n \subseteq T
  BY <1>0, <1>8, <1>9, Counting
<1>11. n \in 0 .. n
  BY <1>0
<1> QED
  BY <1>7, <1>8, <1>10, <1>11

(* The outcomes of both command lines.                                      *)
LEMMA SwapsSafely ==
  ASSUME NEW line \in Seq(Options \cup ServerOptions), NEW i \in 1 .. Len(line) - 1,
         line[i].opt # line[i + 1].opt, {line[i].opt, line[i + 1].opt} \notin Overlap
  PROVE  SameOutcome(Outcome(line), Outcome(Swapped(line, i)))
<1> DEFINE other == Swapped(line, i)
<1>1. other \in Seq(Options \cup ServerOptions) /\ Len(other) = Len(line) /\ Len(line) \in Nat
  BY SwapFacts DEF Exchanged
<1>2. PICK f : Path(f, line) /\ f[Len(line)] = Turns(line)
  BY <1>1, LoopSteps
<1>3. PICK g : Path(g, other) /\ g[Len(other)] = Turns(other)
  BY <1>1, LoopSteps
<1>4. Alike(f[Len(line)], g[Len(line)])
  BY <1>1, <1>2, <1>3, LineAlike
<1>5. Len(line) \in 0 .. Len(line)
  BY <1>1
<1>6. Known(f[Len(line)])
  BY <1>2, <1>5, KnownAlong
<1>7. Known(g[Len(line)])
  BY <1>1, <1>3, <1>5, KnownAlong
<1>8. Known(Turns(line)) /\ Known(Turns(other)) /\ Alike(Turns(line), Turns(other))
  BY <1>1, <1>2, <1>3, <1>4, <1>6, <1>7
<1> QED
  BY <1>8, AlikeOutcome DEF Outcome

(* The options on the command line so far: no two are the same.             *)
ArgvInv ==
  /\ argv \in Seq(Options \cup ServerOptions)
  /\ \A i, j \in 1 .. Len(argv) : i # j => argv[i].opt # argv[j].opt

LEMMA ArgvStep ==
  ASSUME ArgvInv, [Next]_vars
  PROVE  ArgvInv'
<1>1. ASSUME NEW o \in Options \cup ServerOptions, GetOpt(o)
      PROVE  ArgvInv'
  <2>1. argv' = Append(argv, o) /\ \A i \in 1 .. Len(argv) : argv[i].opt # o.opt
    BY <1>1 DEF GetOpt, ArgvInv
  <2>2. /\ argv' \in Seq(Options \cup ServerOptions) /\ Len(argv') = Len(argv) + 1
        /\ argv'[Len(argv) + 1] = o /\ \A i \in 1 .. Len(argv) : argv'[i] = argv[i]
    BY <2>1 DEF ArgvInv
  <2>3. ASSUME NEW i \in 1 .. Len(argv'), NEW j \in 1 .. Len(argv'), i # j
        PROVE  argv'[i].opt # argv'[j].opt
    <3>1. /\ i \in 1 .. Len(argv) \/ i = Len(argv) + 1
          /\ j \in 1 .. Len(argv) \/ j = Len(argv) + 1
      BY <2>2 DEF ArgvInv
    <3> QED
      BY <2>1, <2>2, <2>3, <3>1 DEF ArgvInv
  <2> QED
    BY <2>2, <2>3 DEF ArgvInv
<1>2. ASSUME argv' = argv
      PROVE  ArgvInv'
  BY <1>2 DEF ArgvInv
<1>3. ASSUME NewProcess
      PROVE  ArgvInv'
  <2>1. argv' = <<>>
    BY <1>3 DEF NewProcess
  <2> QED
    BY <2>1 DEF ArgvInv
<1> QED
  BY <1>1, <1>2, <1>3 DEF Next, vars, EndOptions, Connect, ConnectFails, SendParameters,
    ExchangeParameters, ParametersLost, TestEnds, ParseEnds

(* It makes no difference in which order the options are given: two         *)
(* neighbours that do not store to the same field can always be swapped,    *)
(* whatever is before and after them, although the cases of the getopt loop *)
(* read what earlier ones have left (iperf_api.c:1031-1464).                *)
THEOREM AlwaysOrderFree == Spec => []OrderDoesNotMatter
<1>1. Init => ArgvInv
  BY DEF Init, ArgvInv
<1>2. ArgvInv /\ [Next]_vars => ArgvInv'
  BY ArgvStep
<1>3. ArgvInv => OrderDoesNotMatter
  <2> SUFFICES ASSUME ArgvInv, NEW i \in 1 .. Len(argv) - 1,
                      {argv[i].opt, argv[i + 1].opt} \notin Overlap
               PROVE  SameOutcome(Outcome(argv), Outcome(Swapped(argv, i)))
    BY DEF OrderDoesNotMatter
  <2>1. argv \in Seq(Options \cup ServerOptions) /\ argv[i].opt # argv[i + 1].opt
    BY DEF ArgvInv
  <2> QED
    BY <2>1, SwapsSafely
<1> QED
  BY <1>1, <1>2, <1>3, PTL DEF Spec
===============================================================================
