----------------------------- MODULE OutboundHttp -----------------------------
(***************************************************************************)
(* One outbound HTTP exchange of a guest: the grant that admits it, the    *)
(* check of its destination, and the bodies that the grant's limits cut    *)
(* off, while the client library polls the request's body and the guest    *)
(* polls the response's.  Both host interfaces, "p2" and "p3", do the same *)
(* steps; only p3 also reports how the transmission of the request ended.  *)
(* A name is a record [name, case]; an IPv4 address keeps the three octets *)
(* and an IPv6 address the two segments that the code looks at.            *)
(***************************************************************************)
EXTENDS Integers, Sequences

CONSTANTS
    Configurations, \* configurations a service may be asked to start with
    max_timeout,    \* the runtime's limit on request_timeout
    GuestRequests,  \* requests a guest may make
    Addresses,      \* addresses a name may resolve to
    Lengths,        \* Content-Length values of a response
    MaxFrameBytes,  \* bytes of the largest data frame
    MaxFrames       \* frames of a body

VARIABLES
    config,    \* HttpServiceConfig of the running service
    interface, \* "p2" or "p3"
    outgoing,  \* the guest's request
    reached,   \* how far send_request has come
    grant,     \* the grant it goes on with
    resolved,  \* the addresses lookup_host returned
    up,        \* LimitBody around the request's body
    framed,    \* body length in the request's head, Absent if left open
    down,      \* LimitBody around the response's body
    sent,      \* p3: result of the request's own future
    answer     \* what send_request, and then the transmission, returned

outbound_vars ==
    <<config, interface, outgoing, reached, grant, resolved, up, framed, down, sent, answer>>

-----------------------------------------------------------------------------
(* Grants and configuration.                                               *)

\* A Content-Length header that is not there, and one that is no number.
Absent == -1
Garbled == -2

BodyLimits(c) ==
    \A i \in DOMAIN c.outbound_grants :
        /\ i \in Nat \ {0}
        /\ c.outbound_grants[i].max_request_bytes \in Nat
        /\ c.outbound_grants[i].max_response_bytes \in Nat
LengthHeaders == Nat \cup {Absent, Garbled}
Parts(a) ==
    /\ a.version = 4 =>
           a.parts[1] \in 0 .. 255 /\ a.parts[2] \in 0 .. 255 /\ a.parts[3] \in 0 .. 255
    /\ a.version # 4 => a.parts[1] \in Nat /\ a.parts[2] \in Nat

ASSUME GrantLimits == \A c \in Configurations : BodyLimits(c)
ASSUME BodyLengths ==
    /\ \A r \in GuestRequests : r.length \in LengthHeaders
    /\ Lengths \subseteq LengthHeaders
    /\ MaxFrameBytes \in Nat
ASSUME AddressParts == \A a \in Addresses : Parts(a)

eq_ignore_ascii_case(x, y) == x.name = y.name
to_ascii_lowercase(x) == [x EXCEPT !.case = "lower"]

NewGrant(scheme, authority) ==
    [scheme |-> to_ascii_lowercase(scheme),
     authority |-> to_ascii_lowercase(authority),
     methods |-> {},
     max_request_bytes |-> 1048576,
     max_response_bytes |-> 4194304,
     allow_private_network |-> FALSE]

WithMethods(g, methods) == [g EXCEPT !.methods = methods]

WithBodyLimits(g, max_request, max_response) ==
    [g EXCEPT !.max_request_bytes = max_request, !.max_response_bytes = max_response]

AllowPrivateNetwork(g, allow) == [g EXCEPT !.allow_private_network = allow]

\* The authority is not empty, holds no '@' and builds a URI: form "host".
ValidGrant(g) ==
    /\ g.scheme.name \in {"http", "https"}
    /\ g.authority.form = "host"
    /\ g.methods # {} /\ \A m \in g.methods : m.token
    /\ g.max_request_bytes # 0 /\ g.max_response_bytes # 0

validate_config(c) ==
    /\ c.max_in_flight # 0
    /\ c.max_instance_reuse_count # 0
    /\ c.max_instance_concurrent_reuse_count # 0
    /\ c.idle_worker_ttl # 0
    /\ c.request_timeout # 0
    /\ c.request_timeout <= max_timeout
    /\ \A i \in DOMAIN c.outbound_grants : ValidGrant(c.outbound_grants[i])

\* A header that is absent counts as zero, one that is no number fails.
content_length_at_most(length, limit) ==
    \/ length = Absent
    \/ length >= 0 /\ length <= limit

Matches(g, r) ==
    /\ eq_ignore_ascii_case(g.scheme, r.scheme)
    /\ eq_ignore_ascii_case(g.authority, r.authority)
    /\ \E m \in g.methods : eq_ignore_ascii_case(m, r.method)
    /\ content_length_at_most(r.length, g.max_request_bytes)

\* Position of the first grant for the request, 0 for none.
grant_for(r) ==
    LET grants == config.outbound_grants
        fits == {i \in DOMAIN grants : r.absolute /\ Matches(grants[i], r)}
    IN  IF fits = {} THEN 0 ELSE CHOOSE i \in fits : \A j \in fits : i <= j

-----------------------------------------------------------------------------
(* Destinations.  The predicates of std::net::Ipv4Addr are external.        *)

is_private(o) ==
    \/ o[1] = 10
    \/ o[1] = 172 /\ o[2] \in 16 .. 31
    \/ o[1] = 192 /\ o[2] = 168

is_documentation(o) ==
    \/ o[1] = 192 /\ o[2] = 0 /\ o[3] = 2
    \/ o[1] = 198 /\ o[2] = 51 /\ o[3] = 100
    \/ o[1] = 203 /\ o[2] = 0 /\ o[3] = 113

PublicV4(o) ==
    ~ (\/ o[1] = 0
       \/ is_private(o)
       \/ o[1] = 127                                    \* is_loopback
       \/ o[1] = 169 /\ o[2] = 254                      \* is_link_local
       \/ is_documentation(o)
       \/ o[1] \in 224 .. 239                           \* is_multicast
       \/ o[1] = 100 /\ o[2] \in 64 .. 127
       \/ o[1] = 192 /\ o[2] = 0 /\ o[3] = 0
       \/ o[1] = 192 /\ o[2] = 88 /\ o[3] = 99
       \/ o[1] = 198 /\ o[2] \in {18, 19}
       \/ o[1] >= 240)

\* (segments[0] & 0xe000) == 0x2000, and not 2001:0db8.
PublicV6(s) == 8192 <= s[1] /\ s[1] < 16384 /\ ~(s[1] = 8193 /\ s[2] = 3512)

is_public_ip(a) == IF a.version = 4 THEN PublicV4(a.parts) ELSE PublicV6(a.parts)

Destination(addresses) == addresses # {} /\ \A a \in addresses : is_public_ip(a)

-----------------------------------------------------------------------------
(* LimitBody.  "lower" is the lower bound of the wrapped body's size hint; *)
(* with "exact" it is also its upper bound.  The other fields are history: *)
(* bytes the wrapped body produced, bytes passed on, whether the poller    *)
(* was given an error, and bytes passed on after it.                       *)

LimitBody(limit, length) ==
    [remaining |-> limit,
     lower |-> IF length >= 0 THEN length ELSE 0,
     exact |-> length >= 0,
     frames |-> 0, over |-> FALSE,
     produced |-> 0, passed |-> 0, failed |-> FALSE, late |-> 0]

NoBody == LimitBody(0, Absent)

\* A frame of n bytes of the wrapped body; trailers have none.
Produce(b, n) ==
    [b EXCEPT !.lower = IF b.exact THEN @ - n ELSE @,
              !.frames = @ + 1,
              !.produced = @ + n]

Pass(b, n) ==
    [b EXCEPT !.remaining = @ - n,
              !.passed = @ + n,
              !.late = IF b.failed THEN @ + n ELSE @]

\* Fault: what is left is kept for a later frame.
PollFrameKeeps(b, n) ==
    IF n > b.remaining THEN [b EXCEPT !.failed = TRUE] ELSE Pass(b, n)

PollFrame(b, n) ==
    IF n > b.remaining
    THEN [b EXCEPT !.remaining = 0, !.failed = TRUE]
    ELSE Pass(b, n)

\* The frames a wrapped body can produce: no more than it has declared.
CanProduce(b, n) == ~b.over /\ b.frames < MaxFrames /\ (b.exact => n <= b.lower)

\* poll_frame passes the end, and an error of the wrapped body, on.
CanEnd(b) == ~b.over /\ (b.exact => b.lower = 0)
PollFrameEnd(b) == [b EXCEPT !.over = TRUE]
PollFrameError(b) == [b EXCEPT !.over = TRUE, !.failed = TRUE]

\* set_upper(remaining) unless the wrapped body promises less.
Upper(b) == IF ~b.exact \/ b.lower > b.remaining THEN b.remaining ELSE b.lower
size_hint(b) == <<b.lower, Upper(b)>>

-----------------------------------------------------------------------------
OutboundInit ==
    /\ config \in {c \in Configurations : validate_config(c)}
    /\ interface \in {"p2", "p3"}
    /\ outgoing \in GuestRequests
    /\ reached = "new"
    /\ grant = 0
    /\ resolved = {}
    /\ up = NoBody /\ down = NoBody
    /\ framed = Absent
    /\ sent = "none"
    /\ answer = "none"

Granted == config.outbound_grants[grant]

\* send_request up to its first await: without a grant it ends here.
SendRequest ==
    /\ reached = "new"
    /\ LET found == grant_for(outgoing) IN
       /\ grant' = found
       /\ IF found = 0
          THEN reached' = "over" /\ answer' = "HttpRequestDenied"
          ELSE /\ reached' = IF config.outbound_grants[found].allow_private_network
                           THEN "cleared" ELSE "lookup"
               /\ UNCHANGED answer
    /\ UNCHANGED <<config, interface, outgoing, resolved, up, framed, down, sent>>

\* lookup_host fails, or returns addresses.
ValidateNetworkDestination(addresses) ==
    /\ reached = "lookup"
    /\ IF Destination(addresses)
       THEN reached' = "cleared" /\ resolved' = addresses /\ UNCHANGED answer
       ELSE reached' = "over" /\ answer' = "DestinationIpProhibited" /\ UNCHANGED resolved
    /\ UNCHANGED <<config, interface, outgoing, grant, up, framed, down, sent>>

\* The request's body as the host interface gives it: only p3 turns a
\* declared length into an exact hint.
RequestLength == IF interface = "p3" THEN outgoing.length ELSE Absent

\* The client library frames the head by the size hint of the limited body:
\* an exact hint becomes the length.
DefaultSendRequest ==
    /\ reached = "cleared"
    /\ LET body == LimitBody(Granted.max_request_bytes, RequestLength)
           hint == size_hint(body)
       IN  /\ up' = body
           /\ framed' = IF hint[1] = hint[2] THEN hint[1] ELSE Absent
    /\ reached' = "sending"
    /\ resolved' = {}
    /\ UNCHANGED <<config, interface, outgoing, grant, down, sent, answer>>

\* The library polls the request's body, also while the response arrives,
\* until its connection is done.
PollRequest ==
    /\ reached \in {"sending", "response"}
    /\ answer \in {"none", "Response"}
    /\ \/ \E n \in 0 .. MaxFrameBytes :
              CanProduce(up, n) /\ up' = PollFrame(Produce(up, n), n)
       \/ CanEnd(up) /\ up' = PollFrameEnd(up)
       \/ ~up.over /\ up' = PollFrameError(up)
    /\ UNCHANGED <<config, interface, outgoing, reached, grant, resolved, framed, down,
                   sent, answer>>

\* The connection fails or times out before the response's head.
SendFails ==
    /\ reached = "sending"
    /\ reached' = "over"
    /\ answer' = "Transport"
    /\ UNCHANGED <<config, interface, outgoing, grant, resolved, up, framed, down, sent>>

\* Fault: the length the server declares is not looked at.
ResponseHeadUnchecked(length) ==
    /\ reached = "sending"
    /\ reached' = "response"
    /\ answer' = "Response"
    /\ down' = LimitBody(Granted.max_response_bytes, length)
    /\ UNCHANGED <<config, interface, outgoing, grant, resolved, up, framed, sent>>

\* Fault: the response is held to the limit of the request.
ResponseHeadSwapped(length) ==
    /\ reached = "sending"
    /\ reached' = "response"
    /\ answer' = "Response"
    /\ down' = LimitBody(Granted.max_request_bytes, Absent)
    /\ UNCHANGED <<config, interface, outgoing, grant, resolved, up, framed, sent>>

\* The response's head arrives: too long a body is turned away at once.
ResponseHead(length) ==
    /\ reached = "sending"
    /\ IF content_length_at_most(length, Granted.max_response_bytes)
       THEN /\ reached' = "response"
            /\ answer' = "Response"
            /\ down' = LimitBody(Granted.max_response_bytes, length)
       ELSE /\ reached' = "over"
            /\ answer' = "HttpResponseBodySize"
            /\ UNCHANGED down
    /\ UNCHANGED <<config, interface, outgoing, grant, resolved, up, framed, sent>>

\* The guest polls the response's body, possibly again after an error.
PollResponse ==
    /\ reached = "response"
    /\ \/ \E n \in 0 .. MaxFrameBytes :
              CanProduce(down, n) /\ down' = PollFrame(Produce(down, n), n)
       \/ CanEnd(down) /\ down' = PollFrameEnd(down)
       \/ ~down.over /\ down' = PollFrameError(down)
    /\ UNCHANGED <<config, interface, outgoing, reached, grant, resolved, up, framed,
                   sent, answer>>

\* p3: the request's own future is awaited first.
RequestResult(r) ==
    /\ interface = "p3" /\ reached = "response"
    /\ sent = "none"
    /\ sent' = r
    /\ UNCHANGED <<config, interface, outgoing, reached, grant, resolved, up, framed,
                   down, answer>>

\* The library's own result: an error once the request's body has failed.
IoResult == IF up.failed THEN {"err"} ELSE {"ok", "err"}

\* p3: then the library's, and the two are combined.
Transmission(io) ==
    /\ interface = "p3" /\ reached = "response"
    /\ sent # "none" /\ answer = "Response"
    /\ answer' = IF sent = "ok" /\ io = "ok" THEN "Transmitted" ELSE "NotTransmitted"
    /\ UNCHANGED <<config, interface, outgoing, reached, grant, resolved, up, framed,
                   down, sent>>

OutboundNext ==
    \/ SendRequest
    \/ ValidateNetworkDestination({})
    \/ \E a, b \in Addresses : ValidateNetworkDestination({a, b})
    \/ DefaultSendRequest
    \/ PollRequest
    \/ SendFails
    \/ \E length \in Lengths : ResponseHead(length)
    \/ PollResponse
    \/ \E r \in {"ok", "err"} : RequestResult(r)
    \/ \E io \in IoResult : Transmission(io)

OutboundSpec == OutboundInit /\ [][OutboundNext]_outbound_vars

-----------------------------------------------------------------------------
(* The address blocks that are not public, in units of /24: the first three *)
(* octets of the network, and how many units it has.                       *)
SpecialBlocks ==
    {<<0, 0, 0, 65536>>, <<10, 0, 0, 65536>>, <<100, 64, 0, 16384>>,
     <<127, 0, 0, 65536>>, <<169, 254, 0, 256>>, <<172, 16, 0, 4096>>,
     <<192, 0, 0, 1>>, <<192, 0, 2, 1>>, <<192, 88, 99, 1>>, <<192, 168, 0, 256>>,
     <<198, 18, 0, 512>>, <<198, 51, 100, 1>>, <<203, 0, 113, 1>>,
     <<224, 0, 0, 1048576>>, <<240, 0, 0, 1048576>>}

Number(o) == o[1] * 65536 + o[2] * 256 + o[3]

Special(a) ==
    IF a.version = 4
    THEN \E block \in SpecialBlocks :
             Number(a.parts) \in Number(block) .. Number(block) + block[4] - 1
    ELSE \/ a.parts[1] < 8192 \/ a.parts[1] >= 16384
         \/ a.parts[1] = 8193 /\ a.parts[2] = 3512

(* Whatever an exchange does, one and the same grant of the configuration   *)
(* allows all of it: it names the origin and the method, the bytes that     *)
(* leave and the bytes that come back each stay within its own limit,       *)
(* however the bodies are cut into frames and the two are polled, and it    *)
(* opens private addresses or every address the name has is public.  A      *)
(* request that fits no single grant is not put together from two.          *)
WithinOneGrant ==
    reached \in {"cleared", "sending", "response"} =>
        \E i \in DOMAIN config.outbound_grants :
            LET g == config.outbound_grants[i] IN
            /\ g.scheme.name = outgoing.scheme.name
            /\ g.authority.name = outgoing.authority.name
            /\ outgoing.method.name \in {m.name : m \in g.methods}
            /\ outgoing.length # Garbled /\ outgoing.length <= g.max_request_bytes
            /\ up.passed <= g.max_request_bytes
            /\ down.passed <= g.max_response_bytes
            /\ reached = "cleared" =>
                   \/ g.allow_private_network
                   \/ resolved # {} /\ \A a \in resolved : ~Special(a)

(* A poller that was given no error has been given the whole body, and one  *)
(* that polls on after an error is given no later part of it: what passes a *)
(* limit is a prefix of the body, and a prefix that ends without an error   *)
(* is the body.  The transmission of a request is reported to the guest as  *)
(* done only if its body passed whole, also when it was turned away after   *)
(* the response had arrived.                                                *)
PassesAPrefix ==
    /\ \A b \in {up, down} :
           /\ b.failed \/ b.passed = b.produced
           /\ b.late = 0
    /\ answer = "Transmitted" => ~up.failed

(* The size hint of a limited body tells the truth.  Its lower bound is     *)
(* within what the limit has left, so that set_upper, which panics below    *)
(* the lower bound, may be called: the check of Content-Length before the   *)
(* body is wrapped, and counting in step afterwards, keep it so.  And the   *)
(* bound a limit adds to an open body is never taken for its exact size:    *)
(* the library writes a length into the head only if the guest declared it. *)
TrueHints ==
    /\ \A b \in {up, down} : b.lower <= b.remaining
    /\ framed # Absent => framed = outgoing.length
=============================================================================
