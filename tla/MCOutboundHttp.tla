--------------------------- MODULE MCOutboundHttp ----------------------------
(* Instance of OutboundHttp for TLC. *)
EXTENDS OutboundHttp

Name(n) == [name |-> n, case |-> "lower"]
Shout(n) == [name |-> n, case |-> "upper"]
Host(n) == [name |-> n, case |-> "upper", form |-> "host"]
Token(n) == [name |-> n, case |-> "upper", token |-> TRUE]

Grant(host, methods, limits, private) ==
    AllowPrivateNetwork(
        WithBodyLimits(WithMethods(NewGrant(Shout("http"), Host(host)), methods),
                       limits[1], limits[2]),
        private)

Get == Token("get")
Post == Token("post")

Config(grants) ==
    [max_in_flight |-> 1, max_instance_reuse_count |-> 1,
     max_instance_concurrent_reuse_count |-> 1, idle_worker_ttl |-> 1,
     request_timeout |-> 1, outbound_grants |-> grants]

(* Two grants for one origin with opposed limits, a grant for a private     *)
(* service, one that no service starts with, and no grant at all.           *)
MCConfigurations ==
    {Config(<<Grant("a", {Get, Post}, <<1, 3>>, FALSE),
              Grant("a", {Post}, <<3, 1>>, FALSE)>>),
     Config(<<Grant("b", {Get}, <<2, 2>>, TRUE), Grant("a", {Get}, <<2, 1>>, FALSE)>>),
     Config(<<Grant("b", {Post}, <<0, 2>>, TRUE)>>),
     Config(<<>>)}

MCRequests ==
    {[absolute |-> abs, scheme |-> Name("http"), authority |-> Name(h),
      method |-> m, length |-> l] :
        abs \in BOOLEAN, h \in {"a", "b"}, m \in {Get, Post}, l \in {Garbled, Absent, 0, 2}}

V4(a, b, c) == [version |-> 4, parts |-> <<a, b, c>>]
V6(s, t) == [version |-> 6, parts |-> <<s, t>>]

(* Both sides of the edges of every block. *)
MCAddresses ==
    {V4(0, 0, 0), V4(1, 0, 0), V4(9, 255, 255), V4(10, 0, 0), V4(11, 0, 0),
     V4(100, 63, 255), V4(100, 64, 0), V4(100, 127, 255), V4(100, 128, 0),
     V4(126, 255, 255), V4(127, 0, 0), V4(128, 0, 0), V4(169, 253, 255),
     V4(169, 254, 0), V4(169, 255, 0), V4(172, 15, 255), V4(172, 16, 0),
     V4(172, 31, 255), V4(172, 32, 0), V4(192, 0, 0), V4(192, 0, 1), V4(192, 0, 2),
     V4(192, 0, 3), V4(192, 88, 98), V4(192, 88, 99), V4(192, 88, 100),
     V4(192, 167, 255), V4(192, 168, 255), V4(192, 169, 0), V4(198, 17, 255),
     V4(198, 18, 0), V4(198, 19, 255), V4(198, 20, 0), V4(198, 51, 99),
     V4(198, 51, 100), V4(198, 51, 101), V4(203, 0, 112), V4(203, 0, 113),
     V4(203, 0, 114), V4(223, 255, 255), V4(224, 0, 0), V4(240, 0, 0), V4(255, 255, 255),
     V6(0, 0), V6(8191, 0), V6(8192, 0), V6(8193, 3511), V6(8193, 3512),
     V6(8193, 3513), V6(16383, 0), V6(16384, 0), V6(65152, 0)}

MCLengths == {Garbled, Absent, 0, 1, 3}
=============================================================================
