----------------------------- MODULE MCIperfParams -----------------------------
(***************************************************************************)
(* Instances of the parameters for TLC.                                    *)
(***************************************************************************)
EXTENDS IperfParams

Opt(name, args) == {[opt |-> name, arg |-> a] : a \in args}
Flag(name) == Opt(name, {<<1>>})

(* Values on both sides of the limits, zeros, and the ones that meet.      *)
MCOptions ==
  UNION {Flag("client"), Flag("server"), Flag("udp"), Flag("sctp"), Flag("reverse"), Flag("bidir"),
         Flag("one_off"), Flag("get_server_output"), Flag("udp_counters_64bit"),
         Flag("repeating_payload"), Flag("dont_fragment"),
         Flag("no_fq_socket_pacing"),
         Opt("bitrate", {<<7, 3>>, <<0>>, <<7, 1001>>}), Opt("nstreams", {<<2>>}),
         Opt("time", {<<0>>, <<MAX_TIME>>, <<MAX_TIME + 1>>}), Opt("num", {<<5>>}),
         Opt("blockcount", {<<6>>}), Opt("length", {<<15>>, <<16>>, <<MAX_BLOCKSIZE>>, <<-4>>}),
         Opt("parallel", {<<128>>, <<129>>}), Opt("tos", {<<255>>}), Opt("dscp", {<<40>>}),
         Opt("omit", {<<60>>}), Opt("interval", {<<0>>}), Opt("affinity", {<<3>>, <<3, 0>>}),
         Opt("rcv_timeout", {<<100>>}), Opt("fq_rate", {<<9>>}), Opt("pacing_timer", {<<0>>}),
         Opt("congestion", {<<1>>}),
         Opt("username", {<<1>>, <<2>>}), Opt("rsa_public_key_path", {<<1>>})}

(* For a plain server, one for a single test, one that asks for            *)
(* credentials, and lines that start none.                                 *)
MCServerOptions ==
  UNION {Flag("server"), Flag("client"), Flag("one_off"), Flag("bidir"), Flag("udp_counters_64bit"),
         Opt("rsa_private_key_path", {<<1>>}), Opt("authorized_users_path", {<<1>>})}
MCInfinities == {-2147483647}
===============================================================================
