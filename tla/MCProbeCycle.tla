---------------------------- MODULE MCProbeCycle ----------------------------
(* Start-up finds connection probes of a TLS peer that may keep silent,    *)
(* with a handshake capture; or name probes and the kernel clock; or two   *)
(* pings of each of two targets; or one target with no number of pings,    *)
(* which means four. Reconfigure, before or after it, asks for one HTTP    *)
(* probe instead.                                                          *)
EXTENDS ProbeCycle

AllCallers == Worker \cup {Loop}
AllKeys == Target \X LookupStage
Plain == [DefaultConfig EXCEPT !.ntp = FALSE, !.retransmit = FALSE, !.cert = FALSE,
                               !.handshake = FALSE]
Connect == [Plain EXCEPT !.tcp = <<"x">>, !.tls = <<"x">>, !.handshake = TRUE]
Names == [Plain EXCEPT !.dns = <<"x">>, !.ntp = TRUE]
Pings == [Plain EXCEPT !.pings = <<"x", "y">>, !.count = 2]
ManyPings == [Plain EXCEPT !.pings = <<"x">>, !.count = 0]
Request == [Plain EXCEPT !.http = <<"y">>]
AnyFile == {Connect, Names, Pings, ManyPings}
JustHttp == {Request}
=============================================================================
