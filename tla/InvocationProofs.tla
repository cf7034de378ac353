--------------------------- MODULE InvocationProofs ---------------------------
(***************************************************************************)
(* Proofs about one invocation and about the outbound exchanges a guest    *)
(* makes, two specifications that share no variable.                       *)
(*                                                                         *)
(* An exchange, for all configurations, requests, addresses and frame      *)
(* sizes.  The invariant keeps, for each limited body, that what has       *)
(* passed and what remains stay together within the limit, that the        *)
(* declared rest fits what remains, and that after an error nothing        *)
(* remains or the body is over; and for the exchange that the grant found  *)
(* first is still the one that admits it.                                  *)
(*                                                                         *)
(* An invocation, for any number of threads that share its handle and for  *)
(* every timeout, resident TTL and horizon: no wake-up is lost, the guest  *)
(* is charged exactly its time outside pauses, and the error reported      *)
(* names the cause.                                                        *)
(***************************************************************************)
EXTENDS Invocation, OutboundHttp, WellFoundedInduction, TLAPS

-----------------------------------------------------------------------------
(* Outbound exchanges.                                                     *)

Bodies ==
    [remaining : Nat, lower : Nat, exact : BOOLEAN, frames : Nat, over : BOOLEAN,
     produced : Nat, passed : Nat, failed : BOOLEAN, late : Nat]

Body(b) ==
    /\ b \in Bodies
    /\ b.lower <= b.remaining
    /\ ~b.exact => b.lower = 0
    /\ ~b.failed => b.passed = b.produced
    /\ b.failed => b.over \/ b.remaining = 0
    /\ b.late = 0

BodyWithin(b, limit) == b.passed + b.remaining <= limit

Admitted == reached \in {"lookup", "cleared", "sending", "response"}

OutboundInv ==
    /\ config \in Configurations /\ validate_config(config)
    /\ outgoing \in GuestRequests
    /\ Admitted => grant \in DOMAIN config.outbound_grants /\ Matches(Granted, outgoing)
    /\ reached = "cleared" =>
           Granted.allow_private_network \/ (resolved \subseteq Addresses /\ Destination(resolved))
    /\ Body(up) /\ Body(down)
    /\ reached \in {"new", "lookup", "cleared"} => up = NoBody
    /\ reached \in {"new", "lookup", "cleared", "sending"} => down = NoBody
    /\ Admitted => /\ BodyWithin(up, Granted.max_request_bytes)
                   /\ BodyWithin(down, Granted.max_response_bytes)
    /\ answer = "Transmitted" => ~up.failed
    /\ framed # Absent => framed = outgoing.length

(* A nonempty set of naturals has a least element. *)
LEMMA Least ==
  ASSUME NEW S \in SUBSET Nat, S # {}
  PROVE  \E m \in S : \A k \in S : m <= k
<1> DEFINE R == OpToRel(<, Nat)
<1>1. IsWellFoundedOn(R, Nat)
  BY NatLessThanWellFounded, Zenon
<1>2. PICK m \in S : \A k \in S : ~(<<k, m>> \in R)
  <2> HIDE DEF R
  <2> QED BY <1>1, WFMin, Zenon
<1>3. \A k \in S : ~(k < m)
  BY <1>2, Zenon DEF OpToRel
<1> HIDE DEF R
<1> QED
  BY <1>2, <1>3

(* No IPv4 address that PublicV4 lets through lies in a special block. *)
LEMMA PublicV4IsNotSpecial ==
  ASSUME NEW o, NEW p \in 0 .. 255, NEW q \in 0 .. 255, NEW r \in 0 .. 255,
         o[1] = p, o[2] = q, o[3] = r, PublicV4(o), NEW block \in SpecialBlocks
  PROVE  Number(o) \notin Number(block) .. Number(block) + block[4] - 1
<1>1. Number(o) = p * 65536 + q * 256 + r
  BY DEF Number
<1>2. /\ p # 0 /\ p # 10 /\ p # 127 /\ p < 224
      /\ ~(p = 172 /\ q \in 16 .. 31) /\ ~(p = 192 /\ q = 168)
      /\ ~(p = 169 /\ q = 254) /\ ~(p = 100 /\ q \in 64 .. 127)
      /\ ~(p = 198 /\ q \in {18, 19})
      /\ ~(p = 192 /\ q = 0 /\ r \in {0, 2}) /\ ~(p = 192 /\ q = 88 /\ r = 99)
      /\ ~(p = 198 /\ q = 51 /\ r = 100) /\ ~(p = 203 /\ q = 0 /\ r = 113)
  BY DEF PublicV4, is_private, is_documentation
<1> QED
  BY <1>1, <1>2 DEF Number, SpecialBlocks

LEMMA PublicV6IsNotSpecial ==
  ASSUME NEW s, NEW p \in Nat, s[1] = p, PublicV6(s)
  PROVE  ~(p < 8192) /\ ~(p >= 16384) /\ ~(p = 8193 /\ s[2] = 3512)
  BY DEF PublicV6

(* No address that is_public_ip lets through lies in a special block. *)
LEMMA PublicIsNotSpecial ==
  ASSUME NEW a \in Addresses, is_public_ip(a)
  PROVE  ~Special(a)
<1>1. CASE a.version = 4
  <2>1. a.parts[1] \in 0 .. 255 /\ a.parts[2] \in 0 .. 255 /\ a.parts[3] \in 0 .. 255
    BY <1>1, AddressParts, Zenon DEF Parts
  <2>2. PublicV4(a.parts)
    BY <1>1, ZenonT(20) DEF is_public_ip
  <2>3. \A block \in SpecialBlocks :
            Number(a.parts) \notin Number(block) .. Number(block) + block[4] - 1
    BY <2>1, <2>2, PublicV4IsNotSpecial, Zenon
  <2> QED
    BY <1>1, <2>3 DEF Special
<1>2. CASE a.version # 4
  <2>1. a.parts[1] \in Nat
    BY <1>2, AddressParts DEF Parts
  <2>2. PublicV6(a.parts)
    BY <1>2 DEF is_public_ip
  <2>3. /\ ~(a.parts[1] < 8192) /\ ~(a.parts[1] >= 16384)
        /\ ~(a.parts[1] = 8193 /\ a.parts[2] = 3512)
    BY <2>1, <2>2, PublicV6IsNotSpecial
  <2> QED
    BY <1>2, <2>3 DEF Special
<1> QED
  BY <1>1, <1>2

(* A body that is wrapped with a declared length within its limit is sound. *)
LEMMA LimitBodyFacts ==
  ASSUME NEW limit \in Nat, NEW length \in Nat \cup {Absent, Garbled},
         length >= 0 => length <= limit
  PROVE  /\ Body(LimitBody(limit, length))
         /\ BodyWithin(LimitBody(limit, length), limit)
         /\ ~LimitBody(limit, length).failed
<1> DEFINE b == LimitBody(limit, length)
<1>1. PICK lower \in Nat : lower = (IF length >= 0 THEN length ELSE 0) /\ lower <= limit
  BY DEF Absent, Garbled
<1>2. /\ b \in Bodies
      /\ b.remaining = limit /\ b.lower = lower /\ b.passed = 0
      /\ b.produced = 0 /\ b.failed = FALSE /\ b.late = 0
  BY <1>1 DEF LimitBody, Bodies
<1>3. ~b.exact => b.lower = 0
  BY <1>1, <1>2, Zenon DEF LimitBody
<1>4. Body(b)
  BY <1>1, <1>2, <1>3 DEF Body
<1> QED
  BY <1>2, <1>4 DEF BodyWithin

(* A frame, the end and an error of the wrapped body keep a body sound and *)
(* within its limit.                                                       *)
LEMMA PollFrameFacts ==
  ASSUME NEW b, Body(b), NEW n \in Nat, CanProduce(b, n)
  PROVE  /\ Body(PollFrame(Produce(b, n), n))
         /\ \A limit \in Nat : BodyWithin(b, limit) => BodyWithin(PollFrame(Produce(b, n), n), limit)
<1> DEFINE c == Produce(b, n)
           d == PollFrame(c, n)
<1>1. b \in Bodies
  BY DEF Body
<1>2. /\ b.remaining \in Nat /\ b.lower \in Nat /\ b.produced \in Nat /\ b.passed \in Nat
      /\ b.late \in Nat /\ b.frames \in Nat
      /\ b.exact \in BOOLEAN /\ b.over \in BOOLEAN /\ b.failed \in BOOLEAN
  BY <1>1 DEF Bodies
<1>3. /\ b.lower <= b.remaining /\ (~b.exact => b.lower = 0)
      /\ (~b.failed => b.passed = b.produced) /\ b.late = 0
      /\ (b.exact => n <= b.lower) /\ (b.failed => b.remaining = 0)
  BY DEF Body, CanProduce
<1>4. PICK lower \in Nat : lower = IF b.exact THEN b.lower - n ELSE b.lower
  BY <1>2, <1>3
<1>5. /\ c \in Bodies
      /\ c.remaining = b.remaining /\ c.lower = lower /\ c.exact = b.exact /\ c.over = b.over
      /\ c.produced = b.produced + n /\ c.passed = b.passed /\ c.failed = b.failed
      /\ c.late = b.late
  <2>1. PICK frames \in Nat, produced \in Nat : frames = b.frames + 1 /\ produced = b.produced + n
    BY <1>2
  <2>2. c = [b EXCEPT !.lower = lower, !.frames = frames, !.produced = produced]
    BY <1>1, <1>4, <2>1 DEF Produce, Bodies
  <2>3. c \in Bodies
    BY <1>1, <2>2, Zenon DEF Bodies
  <2> QED
    BY <1>1, <2>1, <2>2, <2>3 DEF Bodies
<1>6. CASE n > b.remaining
  <2>1. d = [c EXCEPT !.remaining = 0, !.failed = TRUE]
    BY <1>5, <1>6 DEF PollFrame
  <2>2. d \in Bodies
    <3>1. c \in Bodies /\ 0 \in Nat /\ TRUE \in BOOLEAN
      BY <1>5
    <3> HIDE DEF c, d
    <3> QED
      BY <2>1, <3>1, Zenon DEF Bodies
  <2>3. /\ d \in Bodies
        /\ d.remaining = 0 /\ d.lower = lower /\ d.exact = b.exact /\ d.failed = TRUE
        /\ d.passed = b.passed /\ d.late = b.late
    BY <1>5, <2>1, <2>2 DEF Bodies
  <2>4. ~b.exact /\ lower = 0
    BY <1>2, <1>3, <1>4, <1>6
  <2>5. Body(d)
    <3>1. /\ d.lower <= d.remaining /\ d.lower = 0 /\ d.late = 0
          /\ d.failed = TRUE /\ d.remaining = 0
      BY <1>3, <2>3, <2>4
    <3> HIDE DEF c, d
    <3> QED
      BY <2>2, <3>1 DEF Body
  <2>6. \A limit \in Nat : BodyWithin(b, limit) => BodyWithin(d, limit)
    BY <1>2, <2>3 DEF BodyWithin
  <2> QED
    BY <2>5, <2>6
<1>7. CASE ~(n > b.remaining)
  <2>1. d = Pass(c, n)
    BY <1>5, <1>7 DEF PollFrame
  <2>2. PICK remaining \in Nat : remaining = b.remaining - n
    BY <1>2, <1>7
  <2>3. b.failed => n = 0
    BY <1>2, <1>3, <1>7
  <2>4. /\ d \in Bodies
        /\ d.remaining = remaining /\ d.lower = lower /\ d.exact = b.exact /\ d.over = b.over
        /\ d.produced = b.produced + n /\ d.passed = b.passed + n /\ d.failed = b.failed
        /\ d.late = 0
    <3>1. PICK passed \in Nat, late \in Nat :
             passed = b.passed + n /\ late = 0 /\ late = IF b.failed THEN b.late + n ELSE b.late
      BY <1>2, <1>3, <2>3
    <3>2. d = [c EXCEPT !.remaining = remaining, !.passed = passed, !.late = late]
      BY <1>5, <2>1, <2>2, <3>1, Zenon DEF Pass, Bodies
    <3>3. d \in Bodies
      BY <1>5, <3>2, Zenon DEF Bodies
    <3> QED
      BY <1>5, <3>1, <3>2, <3>3 DEF Bodies
  <2>5. lower <= remaining /\ (~b.exact => lower = 0)
    BY <1>2, <1>3, <1>4, <1>7, <2>2
  <2>6. Body(d)
    BY <1>2, <1>3, <2>2, <2>3, <2>4, <2>5 DEF Body
  <2>7. \A limit \in Nat : BodyWithin(b, limit) => BodyWithin(d, limit)
    BY <1>2, <2>2, <2>4 DEF BodyWithin
  <2> QED
    BY <2>6, <2>7
<1> QED
  BY <1>6, <1>7

LEMMA PollEndFacts ==
  ASSUME NEW b, Body(b)
  PROVE  /\ Body(PollFrameEnd(b)) /\ Body(PollFrameError(b))
         /\ \A limit \in Nat : BodyWithin(b, limit) =>
                BodyWithin(PollFrameEnd(b), limit) /\ BodyWithin(PollFrameError(b), limit)
  BY Zenon DEF PollFrameEnd, PollFrameError, Body, Bodies, BodyWithin

(* grant_for finds a grant that matches, or 0. *)
LEMMA GrantForFacts ==
  ASSUME config \in Configurations, NEW r
  PROVE  grant_for(r) # 0 => /\ grant_for(r) \in DOMAIN config.outbound_grants
                             /\ Matches(config.outbound_grants[grant_for(r)], r)
<1> DEFINE fits == {i \in DOMAIN config.outbound_grants :
                        r.absolute /\ Matches(config.outbound_grants[i], r)}
<1>1. CASE fits = {}
  BY <1>1 DEF grant_for
<1>2. CASE fits # {}
  <2>1. fits \in SUBSET Nat
    BY GrantLimits DEF BodyLimits
  <2>2. \E i \in fits : \A j \in fits : i <= j
    <3> HIDE DEF fits
    <3> QED
      BY <1>2, <2>1, Least
  <2>3. grant_for(r) = CHOOSE i \in fits : \A j \in fits : i <= j
    BY <1>2 DEF grant_for
  <2>4. grant_for(r) \in fits
    <3> HIDE DEF fits
    <3> QED
      BY <2>2, <2>3
  <2> QED
    BY <2>4
<1> QED
  BY <1>1, <1>2

(* The limits of the grant in use are naturals, and not zero. *)
LEMMA GrantedFacts ==
  ASSUME config \in Configurations, validate_config(config),
         grant \in DOMAIN config.outbound_grants
  PROVE  /\ Granted.max_request_bytes \in Nat \ {0}
         /\ Granted.max_response_bytes \in Nat \ {0}
  BY GrantLimits DEF BodyLimits, Granted, validate_config, ValidGrant

LEMMA NoBodyFacts ==
  Body(NoBody) /\ ~NoBody.failed /\ \A limit \in Nat : BodyWithin(NoBody, limit)
<1>1. Body(NoBody) /\ ~NoBody.failed
  BY LimitBodyFacts DEF NoBody, Absent
<1>2. NoBody.passed = 0 /\ NoBody.remaining = 0
  BY DEF NoBody, LimitBody
<1> QED
  BY <1>1, <1>2 DEF BodyWithin

LEMMA OutboundInitially == OutboundInit => OutboundInv
  BY NoBodyFacts DEF OutboundInit, OutboundInv, Admitted

LEMMA SendRequestKeeps == OutboundInv /\ SendRequest => OutboundInv'
<1> SUFFICES ASSUME OutboundInv, SendRequest PROVE OutboundInv'
  OBVIOUS
<1> USE DEF SendRequest
<1>1. UNCHANGED <<config, interface, outgoing, resolved, up, framed, down, sent>>
      /\ grant' = grant_for(outgoing) /\ up = NoBody /\ down = NoBody
  BY DEF OutboundInv
<1>2. CASE grant' = 0
  <2>1. reached' = "over" /\ answer' = "HttpRequestDenied"
    BY <1>1, <1>2, Zenon
  <2> QED
    BY <1>1, <2>1 DEF OutboundInv, Admitted, validate_config
<1>3. CASE grant' # 0
  <2>1. grant' \in DOMAIN config'.outbound_grants /\ Matches(Granted', outgoing')
    BY <1>1, <1>3, GrantForFacts DEF OutboundInv, Granted
  <2>2. /\ reached' = "lookup" \/ (reached' = "cleared" /\ Granted'.allow_private_network)
        /\ answer' = answer
    BY <1>1, <1>3, Zenon DEF Granted
  <2>3. /\ config' \in Configurations /\ validate_config(config)'
        /\ Granted'.max_request_bytes \in Nat /\ Granted'.max_response_bytes \in Nat
    BY <1>1, <2>1, GrantLimits, Zenon DEF BodyLimits, OutboundInv, Granted, validate_config
  <2>4. BodyWithin(up, Granted.max_request_bytes)' /\ BodyWithin(down, Granted.max_response_bytes)'
    BY <1>1, <2>3, NoBodyFacts, Zenon DEF BodyWithin
  <2> QED
    BY <1>1, <2>1, <2>2, <2>3, <2>4, Zenon DEF OutboundInv, Admitted
<1> QED
  BY <1>2, <1>3

(* While the service, the request and the grant stay, what they satisfy     *)
(* stays; an action then has to show the rest.                              *)
LEMMA SettledKeeps ==
  ASSUME OutboundInv, UNCHANGED <<config, outgoing, grant>>, Admitted' => Admitted
  PROVE  /\ (config \in Configurations /\ validate_config(config))'
         /\ (outgoing \in GuestRequests)'
         /\ (Admitted => grant \in DOMAIN config.outbound_grants /\ Matches(Granted, outgoing))'
         /\ Granted' = Granted
  BY DEF OutboundInv, Granted, validate_config, Matches

LEMMA ValidateKeeps ==
  ASSUME OutboundInv, NEW addresses \in SUBSET Addresses, ValidateNetworkDestination(addresses)
  PROVE  OutboundInv'
<1> USE DEF ValidateNetworkDestination
<1>1. /\ UNCHANGED <<config, interface, outgoing, grant, up, framed, down, sent>>
      /\ reached = "lookup" /\ reached' \in {"cleared", "over"}
      /\ answer' = answer \/ answer' = "DestinationIpProhibited"
      /\ reached' = "cleared" => resolved' = addresses /\ Destination(addresses)
  OBVIOUS
<1>2. Admitted' => Admitted
  BY <1>1 DEF Admitted
<1>3. Destination(resolved)' = Destination(resolved')
  BY DEF Destination
<1>4. (reached = "cleared" =>
         Granted.allow_private_network \/ (resolved \subseteq Addresses /\ Destination(resolved)))'
  BY <1>1, <1>3, Zenon
<1> HIDE DEF ValidateNetworkDestination
<1> QED
  BY <1>1, <1>2, <1>4, SettledKeeps DEF OutboundInv, BodyWithin

LEMMA DefaultSendRequestKeeps == OutboundInv /\ DefaultSendRequest => OutboundInv'
<1> SUFFICES ASSUME OutboundInv, DefaultSendRequest PROVE OutboundInv'
  OBVIOUS
<1> DEFINE limit == Granted.max_request_bytes
<1>1. /\ UNCHANGED <<config, interface, outgoing, grant, down, sent, answer>>
      /\ reached = "cleared" /\ reached' = "sending" /\ Admitted /\ Admitted'
      /\ up' = LimitBody(limit, RequestLength)
      /\ framed' = IF size_hint(up')[1] = size_hint(up')[2] THEN size_hint(up')[1] ELSE Absent
  BY DEF DefaultSendRequest, Admitted
<1>2. /\ limit \in Nat \ {0} /\ outgoing.length \in Nat \cup {Absent, Garbled}
      /\ Matches(Granted, outgoing)
  BY <1>1, GrantedFacts, BodyLengths DEF LengthHeaders, OutboundInv
<1>3. /\ RequestLength \in Nat \cup {Absent, Garbled}
      /\ RequestLength >= 0 => RequestLength <= limit /\ RequestLength = outgoing.length
  BY <1>2 DEF RequestLength, Matches, content_length_at_most, Absent, Garbled
<1>4. Body(up') /\ BodyWithin(up', limit) /\ ~up'.failed
  BY <1>1, <1>2, <1>3, LimitBodyFacts
<1>5. framed' # Absent => framed' = outgoing.length
  <2>1. /\ up'.remaining = limit
        /\ up'.lower = IF RequestLength >= 0 THEN RequestLength ELSE 0
        /\ up'.exact <=> RequestLength >= 0
    BY <1>1, Zenon DEF LimitBody
  <2>2. size_hint(up')[1] = up'.lower /\ size_hint(up')[2] = Upper(up')
    BY DEF size_hint
  <2>3. CASE RequestLength >= 0
    BY <1>1, <1>3, <2>1, <2>2, <2>3, Zenon
  <2>4. CASE ~(RequestLength >= 0)
    <3>1. up'.lower = 0 /\ Upper(up') = limit
      BY <2>1, <2>4, Zenon DEF Upper
    <3> QED
      BY <1>1, <1>2, <2>2, <3>1
  <2> QED
    BY <2>3, <2>4
<1>6. Body(up)' /\ BodyWithin(up, Granted.max_request_bytes)'
  BY <1>1, <1>4, SettledKeeps DEF Body, BodyWithin
<1> QED
  BY <1>1, <1>4, <1>5, <1>6, SettledKeeps, Zenon DEF OutboundInv, Body, BodyWithin

(* However a body is polled, it stays sound and within its limit. *)
LEMMA PollingFacts ==
  ASSUME NEW b, NEW c, Body(b),
         \/ \E n \in 0 .. MaxFrameBytes : CanProduce(b, n) /\ c = PollFrame(Produce(b, n), n)
         \/ c = PollFrameEnd(b)
         \/ c = PollFrameError(b)
  PROVE  Body(c) /\ \A limit \in Nat : BodyWithin(b, limit) => BodyWithin(c, limit)
<1>1. CASE \E n \in 0 .. MaxFrameBytes : CanProduce(b, n) /\ c = PollFrame(Produce(b, n), n)
  <2>1. PICK n \in 0 .. MaxFrameBytes : CanProduce(b, n) /\ c = PollFrame(Produce(b, n), n)
    BY <1>1
  <2>2. n \in Nat
    BY BodyLengths DEF LengthHeaders
  <2> QED
    BY <2>1, <2>2, PollFrameFacts
<1> QED
  BY <1>1, PollEndFacts

LEMMA PollRequestKeeps == OutboundInv /\ PollRequest => OutboundInv'
<1> SUFFICES ASSUME OutboundInv, PollRequest PROVE OutboundInv'
  OBVIOUS
<1>1. /\ UNCHANGED <<config, interface, outgoing, reached, grant, resolved, framed, down,
                     sent, answer>>
      /\ reached \in {"sending", "response"} /\ answer # "Transmitted"
      /\ Admitted /\ Admitted'
  BY DEF PollRequest, Admitted
<1>2. Granted.max_request_bytes \in Nat /\ BodyWithin(up, Granted.max_request_bytes)
  BY <1>1, GrantedFacts DEF OutboundInv
<1>3. Body(up') /\ BodyWithin(up', Granted.max_request_bytes)
  <2>1. Body(up)
    BY DEF OutboundInv
  <2> QED
    BY <1>2, <2>1, PollingFacts DEF PollRequest
<1>4. Body(up)' /\ BodyWithin(up, Granted.max_request_bytes)'
  BY <1>1, <1>3, SettledKeeps, Zenon DEF Body, BodyWithin
<1> QED
  BY <1>1, <1>4, SettledKeeps DEF OutboundInv, Body, BodyWithin

LEMMA PollResponseKeeps == OutboundInv /\ PollResponse => OutboundInv'
<1> SUFFICES ASSUME OutboundInv, PollResponse PROVE OutboundInv'
  OBVIOUS
<1>1. /\ UNCHANGED <<config, interface, outgoing, reached, grant, resolved, up, framed, sent,
                     answer>>
      /\ reached = "response" /\ Admitted /\ Admitted'
  BY DEF PollResponse, Admitted
<1>2. Granted.max_response_bytes \in Nat /\ BodyWithin(down, Granted.max_response_bytes)
  BY <1>1, GrantedFacts DEF OutboundInv
<1>3. Body(down') /\ BodyWithin(down', Granted.max_response_bytes)
  <2>1. Body(down)
    BY DEF OutboundInv
  <2> QED
    BY <1>2, <2>1, PollingFacts, Zenon DEF PollResponse
<1>4. Body(down)' /\ BodyWithin(down, Granted.max_response_bytes)'
  BY <1>1, <1>3, SettledKeeps DEF Body, BodyWithin
<1> QED
  BY <1>1, <1>4, SettledKeeps DEF OutboundInv, Body, BodyWithin

LEMMA ResponseHeadKeeps ==
  ASSUME OutboundInv, NEW length \in Lengths, ResponseHead(length)
  PROVE  OutboundInv'
<1> DEFINE limit == Granted.max_response_bytes
<1>1. /\ UNCHANGED <<config, interface, outgoing, grant, resolved, up, framed, sent>>
      /\ reached = "sending" /\ reached' \in {"response", "over"} /\ Admitted
      /\ answer' # "Transmitted"
  BY DEF ResponseHead, Admitted
<1>2. limit \in Nat /\ length \in Nat \cup {Absent, Garbled}
  BY <1>1, GrantedFacts, BodyLengths, Zenon DEF LengthHeaders, OutboundInv
<1>3. CASE content_length_at_most(length, limit)
  <2>1. reached' = "response" /\ Admitted' /\ down' = LimitBody(limit, length)
    BY <1>3 DEF ResponseHead, Admitted
  <2>2. Body(down') /\ BodyWithin(down', limit)
    BY <1>2, <1>3, <2>1, LimitBodyFacts DEF content_length_at_most, Absent
  <2>3. Body(down)' /\ BodyWithin(down, Granted.max_response_bytes)'
    BY <1>1, <2>1, <2>2, SettledKeeps, Zenon DEF Body, BodyWithin
  <2> QED
    BY <1>1, <2>1, <2>3, SettledKeeps DEF OutboundInv, Body, BodyWithin
<1>4. CASE ~content_length_at_most(length, limit)
  <2>1. reached' = "over" /\ ~Admitted' /\ down' = down
    BY <1>4 DEF ResponseHead, Admitted
  <2> QED
    BY <1>1, <2>1, SettledKeeps, Zenon DEF OutboundInv, Body
<1> QED
  BY <1>3, <1>4

(* The other steps leave the bodies alone. *)
LEMMA OthersKeep ==
  ASSUME OutboundInv,
         \/ SendFails
         \/ \E r \in {"ok", "err"} : RequestResult(r)
         \/ \E io \in IoResult : Transmission(io)
         \/ UNCHANGED outbound_vars
  PROVE  OutboundInv'
<1>1. /\ UNCHANGED <<config, interface, outgoing, grant, resolved, up, framed, down>>
      /\ reached' = reached \/ reached' = "over"
      /\ answer' = "Transmitted" => answer = "Transmitted" \/ ~up.failed
  BY DEF SendFails, RequestResult, Transmission, IoResult, outbound_vars
<1>2. Admitted' => Admitted /\ reached' = reached
  BY <1>1, Zenon DEF Admitted
<1>3. (reached = "cleared" =>
         Granted.allow_private_network \/ (resolved \subseteq Addresses /\ Destination(resolved)))'
  BY <1>1, SettledKeeps, <1>2 DEF OutboundInv, Destination
<1>4. BodyWithin(up, Granted.max_request_bytes)' /\ BodyWithin(down, Granted.max_response_bytes)'
      <=> BodyWithin(up, Granted.max_request_bytes) /\ BodyWithin(down, Granted.max_response_bytes)
  BY <1>1 DEF BodyWithin, Granted
<1>5. Body(up)' /\ Body(down)'
  <2>1. Body(up) /\ Body(down)
    BY Zenon DEF OutboundInv
  <2> QED
    BY <1>1, <2>1, Zenon DEF Body, Bodies
<1>6. (config \in Configurations /\ validate_config(config) /\ outgoing \in GuestRequests)'
      /\ (Admitted => grant \in DOMAIN config.outbound_grants /\ Matches(Granted, outgoing))'
  BY <1>1, <1>2, SettledKeeps DEF OutboundInv
<1>7. (Admitted => /\ BodyWithin(up, Granted.max_request_bytes)
                   /\ BodyWithin(down, Granted.max_response_bytes))'
  BY <1>2, <1>4, Zenon DEF OutboundInv
<1>8. /\ (reached \in {"new", "lookup", "cleared"} => up = NoBody)'
      /\ (reached \in {"new", "lookup", "cleared", "sending"} => down = NoBody)'
      /\ (answer = "Transmitted" => ~up.failed)'
      /\ (framed # Absent => framed = outgoing.length)'
  BY <1>1 DEF OutboundInv, NoBody, Absent
<1> QED
  BY <1>3, <1>5, <1>6, <1>7, <1>8, Zenon DEF OutboundInv

LEMMA OutboundInductive == OutboundInv /\ [OutboundNext]_outbound_vars => OutboundInv'
<1> SUFFICES ASSUME OutboundInv, [OutboundNext]_outbound_vars PROVE OutboundInv'
  OBVIOUS
<1>1. CASE SendRequest
  BY <1>1, SendRequestKeeps
<1>2. CASE ValidateNetworkDestination({})
  <2>1. {} \in SUBSET Addresses
    OBVIOUS
  <2> QED
    BY <1>2, <2>1, ValidateKeeps
<1>3. CASE \E a, b \in Addresses : ValidateNetworkDestination({a, b})
  <2>1. PICK a \in Addresses, b \in Addresses : ValidateNetworkDestination({a, b})
    BY <1>3, Zenon
  <2>2. {a, b} \in SUBSET Addresses
    OBVIOUS
  <2> QED
    BY <2>1, <2>2, ValidateKeeps
<1>4. CASE DefaultSendRequest
  BY <1>4, DefaultSendRequestKeeps
<1>5. CASE PollRequest
  BY <1>5, PollRequestKeeps
<1>6. CASE \E length \in Lengths : ResponseHead(length)
  BY <1>6, ResponseHeadKeeps
<1>7. CASE PollResponse
  BY <1>7, PollResponseKeeps
<1>8. CASE \/ SendFails
           \/ \E r \in {"ok", "err"} : RequestResult(r)
           \/ \E io \in IoResult : Transmission(io)
           \/ UNCHANGED outbound_vars
  BY <1>8, OthersKeep
<1> QED
  BY <1>1, <1>2, <1>3, <1>4, <1>5, <1>6, <1>7, <1>8, Zenon DEF OutboundNext

LEMMA OutboundInvariance == OutboundSpec => []OutboundInv
  BY OutboundInitially, OutboundInductive, PTL DEF OutboundSpec

(* Whatever the configuration, the request, the addresses and the frames,   *)
(* one grant allows all that an exchange of the service does: its origin    *)
(* and method, the bytes both ways and the destination.                     *)
THEOREM OneGrantAllows == OutboundSpec => []WithinOneGrant
<1>1. OutboundInv => WithinOneGrant
  <2> SUFFICES ASSUME OutboundInv, reached \in {"cleared", "sending", "response"}
               PROVE  WithinOneGrant
    BY Zenon DEF WithinOneGrant
  <2>1. /\ grant \in DOMAIN config.outbound_grants /\ Matches(Granted, outgoing)
        /\ BodyWithin(up, Granted.max_request_bytes) /\ BodyWithin(down, Granted.max_response_bytes)
    BY Zenon DEF OutboundInv, Admitted
  <2>2. /\ Granted.max_request_bytes \in Nat /\ Granted.max_response_bytes \in Nat
        /\ up \in Bodies /\ down \in Bodies
    BY <2>1, GrantedFacts DEF OutboundInv, Body
  <2>3. up.passed <= Granted.max_request_bytes /\ down.passed <= Granted.max_response_bytes
    BY <2>1, <2>2 DEF BodyWithin, Bodies
  <2>4. /\ Granted.scheme.name = outgoing.scheme.name
        /\ Granted.authority.name = outgoing.authority.name
        /\ outgoing.method.name \in {m.name : m \in Granted.methods}
    BY <2>1 DEF Matches, eq_ignore_ascii_case
  <2>5. outgoing.length # Garbled /\ outgoing.length <= Granted.max_request_bytes
    <3>1. outgoing.length \in Nat \cup {Absent, Garbled}
      BY BodyLengths, Zenon DEF LengthHeaders, OutboundInv
    <3>2. outgoing.length = Absent \/ (outgoing.length >= 0 /\ outgoing.length <= Granted.max_request_bytes)
      BY <2>1, Zenon DEF Matches, content_length_at_most
    <3> QED
      BY <2>2, <3>1, <3>2 DEF Absent, Garbled
  <2>6. reached = "cleared" =>
            Granted.allow_private_network \/ (resolved # {} /\ \A a \in resolved : ~Special(a))
    BY PublicIsNotSpecial, Zenon DEF OutboundInv, Destination
  <2> QED
    BY <2>1, <2>3, <2>4, <2>5, <2>6, Zenon DEF WithinOneGrant, Granted
<1> QED
  BY <1>1, OutboundInvariance, PTL

(* What passes a limit is a prefix of the body, ended by an error unless it *)
(* is the whole, for every limit and every division into frames.            *)
THEOREM PrefixPasses == OutboundSpec => []PassesAPrefix
<1>1. OutboundInv => PassesAPrefix
  BY Zenon DEF OutboundInv, Body, PassesAPrefix
<1> QED
  BY <1>1, OutboundInvariance, PTL

(* The size hint of a limited body is consistent and its bound is never     *)
(* framed as the length of an open body, for every limit and length.        *)
THEOREM HintsAreTrue == OutboundSpec => []TrueHints
<1>1. OutboundInv => TrueHints
  BY DEF OutboundInv, Body, TrueHints
<1> QED
  BY <1>1, OutboundInvariance, PTL

-----------------------------------------------------------------------------
(* An invocation.                                                          *)

Labels == {"idle", "pause", "pause_store", "resume", "resume_swap", "resume_store"}

Flags ==
  [paused : BOOLEAN, resident : BOOLEAN, evicted : BOOLEAN, cancelled : BOOLEAN]
Watches ==
  [started : Nat, baseline : Nat, suspended : Nat, due : BOOLEAN, timed_out : BOOLEAN]
Spendings == [active : Nat, start_gap : Nat, callback_gap : Nat]

Types ==
  /\ now \in Nat /\ spent \in Spendings
  /\ token \in Flags
  /\ timing \in [completed : Nat, paused_at : Nat \cup {None}]
  /\ holder \in Controllers \cup {None}
  /\ wake \in [notified : BOOLEAN, deadline : Nat]
  /\ watch \in Watches
  /\ pc \in [Controllers -> Labels]

\* The holder of the mutex is in pause or resume, between the flag and paused_at.
Mutex ==
  /\ \A c \in Controllers : pc[c] \in {"pause_store", "resume_store"} => holder = c
  /\ holder = None => (token.paused <=> timing.paused_at # None)
  /\ holder # None =>
       \/ pc[holder] = "pause_store" /\ token.paused /\ timing.paused_at = None
       \/ pc[holder] = "resume_store" /\ ~token.paused /\ timing.paused_at # None

\* A task that saw the pause after it registered is still paused, is notified,
\* or is about to be.
Wakeup ==
  at \in {"wait_remaining", "select"} /\ ~wake.notified =>
    token.paused \/ Doing({"resume_store"})

\* Since invocation_started every tick went to the guest or to a pause; of the
\* pauses, the callback knows neither what fell between the start and the
\* baseline nor what has fallen since it read total_paused.
Clock ==
  /\ timing.paused_at # None => timing.paused_at <= now
  /\ phase \in {"start", "prepare"} => spent.active = 0 /\ spent.start_gap = 0
  /\ Running => watch.started <= now
  /\ at = "baseline" => watch.started + spent.active + spent.start_gap = now
  /\ Running /\ at # "baseline" =>
       /\ watch.baseline <= TotalPaused
       /\ watch.started + spent.active + spent.start_gap + TotalPaused = now + watch.baseline
  /\ at = "callback_clock" => watch.started + Owed + watch.suspended = now

\* An eviction cancels the token too, but is told apart by its own flag, which
\* it sets first.
Cause ==
  /\ at # "guest" => Running
  /\ token.evicted => phase \notin {"start", "prepare"}
  /\ at \in {"evict_resident", "evict_cancel"} => token.evicted
  /\ token.cancelled /\ ~token.evicted => asked
  /\ watch.due => at = "callback_flags" \/ phase = "finished"
  /\ watch.timed_out => at = "trap" \/ phase = "finished"
  /\ outcome = "Timeout" => phase = "finished"
  /\ watch.due \/ watch.timed_out \/ outcome = "Timeout" => Owed >= timeout
  /\ outcome = "Cancelled" => asked

Inv == Types /\ Mutex /\ Wakeup /\ Clock /\ Cause

-----------------------------------------------------------------------------
LEMMA Initially == Init => Inv
<1> SUFFICES ASSUME Init PROVE Inv
    BY Zenon
<1>1. Types
    BY Zenon DEF Init, Types, Flags, Watches, Spendings, Labels
<1>2. Mutex
    BY Zenon DEF Init, Mutex
<1>3. Wakeup
    BY DEF Init, Wakeup
<1>4. Clock
    BY DEF Init, Clock, Running
<1>5. Cause
    BY NoneAssumption DEF Init, Cause
<1> QED
    BY <1>1, <1>2, <1>3, <1>4, <1>5 DEF Inv

\* What the callback computes is what the guest owes.
LEMMA ActiveIsOwed == Inv /\ at = "callback_clock" => Active = Owed
<1> SUFFICES ASSUME Inv, at = "callback_clock" PROVE Active = Owed
    OBVIOUS
<1>1. Owed \in Nat /\ watch.started \in Nat /\ watch.suspended \in Nat
    BY DEF Inv, Types, Watches, Spendings, Owed
<1>2. watch.started + Owed + watch.suspended = now
    BY DEF Inv, Clock
<1> QED
    BY <1>1, <1>2 DEF Active, Monus

-----------------------------------------------------------------------------
(* The task.                                                               *)

\* The task moves and changes nothing else.
LEMMA GotoKeeps ==
  ASSUME NEW label, Inv, Goto(label),
         at \notin {"baseline", "callback_clock", "callback_flags", "trap"},
         label # "guest" => Running,
         label \notin {"baseline", "callback_clock"},
         label \notin {"select", "evict_resident", "evict_cancel"},
         label = "wait_remaining" => token.paused
  PROVE  Inv'
<1>1. Types'
    BY Zenon DEF Inv, Types, Goto, control
<1>2. Mutex'
    BY DEF Inv, Mutex, Goto, control
<1>3. Wakeup'
    BY DEF Inv, Goto, Wakeup
<1>4. Clock'
    BY Zenon DEF Inv, Clock, Goto, Running, TotalPaused
<1>5. Cause'
    BY DEF Inv, Cause, Goto, Running, Owed, control
<1> QED
    BY <1>1, <1>2, <1>3, <1>4, <1>5 DEF Inv

\* The task returns.
LEMMA FinishKeeps ==
  ASSUME NEW error, Inv, Finish(error),
         error = "Timeout" => Owed >= timeout,
         error = "Cancelled" => asked
  PROVE  Inv'
<1>1. Types'
    BY Zenon DEF Inv, Types, Finish, control
<1>2. Mutex'
    BY DEF Inv, Mutex, Finish, control
<1>3. Wakeup'
    BY DEF Finish, Wakeup
<1>4. Clock'
    BY DEF Inv, Clock, Finish, Running
<1>5. Cause'
    BY DEF Inv, Cause, Finish, Owed, control
<1> QED
    BY <1>1, <1>2, <1>3, <1>4, <1>5 DEF Inv

\* map_execution_error names the cause.
LEMMA TrapKeeps ==
  ASSUME Inv, Trap
  PROVE  Inv'
<1> DEFINE error == IF phase = "instantiate" THEN "Execution" ELSE MappedError
<1>1. error = "Timeout" => Owed >= timeout
    BY DEF MappedError, Inv, Cause
<1>2. error = "Cancelled" => asked
    BY DEF MappedError, Inv, Cause
<1>3. Finish(error)
    BY DEF Trap
<1> QED
    BY <1>1, <1>2, <1>3, FinishKeeps

\* A later phase begins: the clock of the invocation starts.
LEMMA PhasesKeep ==
  ASSUME Inv, Start \/ PrepareFails \/ Prepared \/ GuestReturns
  PROVE  Inv'
<1>1. CASE Start /\ token.cancelled
  <2>1. Finish("Cancelled") /\ asked
    BY <1>1 DEF Start, Inv, Cause
  <2> QED
    BY <2>1, FinishKeeps
<1>2. CASE PrepareFails
    BY <1>2, FinishKeeps DEF PrepareFails
<1>3. CASE GuestReturns /\ phase = "execute"
  <2>1. Finish("Output")
    BY <1>3, Zenon DEF GuestReturns
  <2> QED
    BY <2>1, FinishKeeps
<1>4. CASE Start /\ ~token.cancelled
  <2>1. /\ phase = "start" /\ phase' = "prepare"
        /\ UNCHANGED <<now, token, timing, holder, pc, asked, spent, at, wake, watch, outcome>>
    BY <1>4 DEF Start, control
  <2>2. Types'
    BY <2>1, Zenon DEF Inv, Types
  <2>3. Mutex' /\ Wakeup'
    BY <2>1, Zenon DEF Inv, Mutex, Wakeup, Doing
  <2>4. Clock'
    BY <2>1 DEF Inv, Clock, Cause, Running
  <2>5. Cause'
    BY <2>1 DEF Inv, Cause, Running, Owed
  <2> QED
    BY <2>2, <2>3, <2>4, <2>5 DEF Inv
<1>5. CASE Prepared
  <2>1. /\ watch' \in Watches
        /\ watch'.started = now
        /\ watch'.due = watch.due /\ watch'.timed_out = watch.timed_out
        /\ phase' = "instantiate" /\ phase = "prepare" /\ at' = "baseline"
        /\ UNCHANGED <<now, token, timing, holder, pc, asked, spent, wake, outcome>>
    BY <1>5, Zenon DEF Prepared, Inv, Types, Watches, control
  <2>2. Types'
    BY <2>1, Zenon DEF Inv, Types
  <2>3. Mutex' /\ Wakeup'
    BY <2>1, Zenon DEF Inv, Mutex, Wakeup
  <2>4. Clock'
    BY <2>1 DEF Inv, Types, Clock
  <2>5. Cause'
    BY <2>1 DEF Inv, Cause, Running
  <2> QED
    BY <2>2, <2>3, <2>4, <2>5 DEF Inv
<1>6. CASE GuestReturns /\ phase # "execute"
  <2>1. /\ Running /\ Running' /\ at = "guest" /\ phase' = "execute"
        /\ UNCHANGED <<now, token, timing, holder, pc, asked, spent, at, wake, watch, outcome>>
    BY <1>6 DEF GuestReturns, Guest, Running, control
  <2>2. Types'
    BY <2>1, Zenon DEF Inv, Types
  <2>3. Mutex' /\ Wakeup'
    BY <2>1, Zenon DEF Inv, Mutex, Wakeup
  <2>4. Clock'
    BY <2>1 DEF Inv, Clock, TotalPaused
  <2>5. Cause'
    BY <2>1 DEF Inv, Cause, Running, Owed
  <2> QED
    BY <2>2, <2>3, <2>4, <2>5 DEF Inv
<1> QED
    BY <1>1, <1>2, <1>3, <1>4, <1>5, <1>6

\* total_paused is read, under the mutex, after the clock by invoke ...
LEMMA BaselineKeeps ==
  ASSUME Inv, Baseline
  PROVE  Inv'
<1>1. PICK paused \in Nat : paused = TotalPaused
    BY DEF Inv, Types, Clock, TotalPaused
<1>2. /\ watch' = [watch EXCEPT !.baseline = paused]
      /\ at = "baseline" /\ at' = "guest"
      /\ UNCHANGED <<now, token, timing, holder, pc, asked, spent, phase, wake, outcome>>
    BY <1>1 DEF Baseline, control
<1>3. /\ watch' \in Watches
      /\ watch'.started = watch.started /\ watch'.baseline = paused
      /\ watch'.due = watch.due /\ watch'.timed_out = watch.timed_out
    BY <1>2, Zenon DEF Inv, Types, Watches
<1>4. Types'
    BY <1>2, <1>3, Zenon DEF Inv, Types
<1>5. Mutex' /\ Wakeup'
    BY <1>2 DEF Inv, Mutex, Wakeup
<1>6. Clock'
  <2>1. TotalPaused' = paused
    BY <1>1, <1>2 DEF TotalPaused
  <2> QED
    BY <1>2, <1>3, <2>1 DEF Inv, Types, Watches, Spendings, Clock, Running
<1>7. Cause'
    BY <1>2, <1>3 DEF Inv, Cause, Running
<1> QED
    BY <1>4, <1>5, <1>6, <1>7 DEF Inv

\* ... and before the clock by the callback: a guest that is due owes it.
LEMMA CallbacksKeep ==
  ASSUME Inv, Callback \/ CallbackClock \/ CallbackFlags
  PROVE  Inv'
<1>1. CASE Callback
  <2>1. PICK paused \in Nat : paused = TotalPaused
    BY DEF Inv, Types, Clock, TotalPaused
  <2>2. Running /\ at = "callback"
    BY <1>1 DEF Callback, Inv, Cause
  <2>3. PICK suspended \in Nat : suspended + watch.baseline = paused
                               /\ suspended = Monus(paused, watch.baseline)
    BY <2>1, <2>2 DEF Inv, Types, Watches, Clock, Monus
  <2>4. /\ watch' = [watch EXCEPT !.suspended = suspended]
        /\ spent' = [spent EXCEPT !.callback_gap = 0]
        /\ at' = "callback_clock"
        /\ UNCHANGED <<now, token, timing, holder, pc, asked, phase, wake, outcome>>
    BY <1>1, <2>1, <2>3 DEF Callback, control
  <2>5. /\ watch' \in Watches /\ watch'.suspended = suspended
        /\ watch'.started = watch.started /\ watch'.baseline = watch.baseline
        /\ watch'.due = watch.due /\ watch'.timed_out = watch.timed_out
    BY <2>4, Zenon DEF Inv, Types, Watches
  <2>6. /\ spent' \in Spendings /\ spent'.callback_gap = 0
        /\ spent'.active = spent.active /\ spent'.start_gap = spent.start_gap
    BY <2>4 DEF Inv, Types, Spendings
  <2>7. Types'
    BY <2>4, <2>5, <2>6, Zenon DEF Inv, Types
  <2>8. Mutex' /\ Wakeup'
    BY <2>4 DEF Inv, Mutex, Wakeup
  <2>9. Clock'
    <3>1. TotalPaused' = paused
      BY <2>1, <2>4 DEF TotalPaused
    <3>2. /\ watch.started + spent.active + spent.start_gap + paused = now + watch.baseline
          /\ watch.started <= now
      BY <2>1, <2>2 DEF Inv, Clock
    <3>3. watch'.started + Owed' + watch'.suspended = now
      BY <2>3, <2>5, <2>6, <3>2 DEF Inv, Types, Watches, Spendings, Owed
    <3>4. watch'.baseline <= TotalPaused'
      BY <2>1, <2>2, <2>5, <3>1 DEF Inv, Clock
    <3> QED
      BY <2>1, <2>2, <2>4, <2>5, <2>6, <3>1, <3>2, <3>3, <3>4 DEF Inv, Clock, Running
  <2>10. Cause'
    BY <2>2, <2>4, <2>5 DEF Inv, Cause, Running
  <2> QED
    BY <2>7, <2>8, <2>9, <2>10 DEF Inv
<1>2. CASE CallbackClock
  <2> DEFINE due == Active >= timeout
  <2>1. Running /\ at = "callback_clock" /\ (due => Owed >= timeout)
    BY <1>2, ActiveIsOwed DEF CallbackClock, Inv, Cause
  <2>2. due \in BOOLEAN
    OBVIOUS
  <2>3. /\ watch' = [watch EXCEPT !.suspended = 0, !.due = due]
        /\ at' = "callback_flags"
        /\ UNCHANGED <<now, token, timing, holder, pc, asked, spent, phase, wake, outcome>>
    BY <1>2 DEF CallbackClock, control
  <2> HIDE DEF due
  <2>4. /\ watch' \in Watches
        /\ watch'.started = watch.started /\ watch'.baseline = watch.baseline
        /\ watch'.due = due /\ watch'.timed_out = watch.timed_out
    BY <2>2, <2>3, Zenon DEF Inv, Types, Watches
  <2>5. Types'
    BY <2>3, <2>4, Zenon DEF Inv, Types
  <2>6. Mutex' /\ Wakeup'
    BY <2>3 DEF Inv, Mutex, Wakeup
  <2>7. Clock'
    BY <2>1, <2>3, <2>4 DEF Inv, Clock, Running, TotalPaused
  <2>8. Cause'
    <3>1. Owed' = Owed
      BY <2>3 DEF Owed
    <3> QED
      BY <2>1, <2>3, <2>4, <3>1 DEF Inv, Cause, Running
  <2> QED
    BY <2>5, <2>6, <2>7, <2>8 DEF Inv
<1>3. CASE CallbackFlags
  <2>1. Running /\ ~watch.timed_out /\ at = "callback_flags" /\ phase # "finished"
    BY <1>3 DEF CallbackFlags, Inv, Cause, Running
  <2> PICK timed_out \in BOOLEAN :
           timed_out = (~(token.evicted \/ token.cancelled) /\ watch.due)
    BY Zenon
  <2>2. /\ watch' = [watch EXCEPT !.due = FALSE, !.timed_out = timed_out]
        /\ at' \in {"trap", "mark", "guest"}
        /\ timed_out => at' = "trap"
        /\ UNCHANGED <<now, token, timing, holder, pc, asked, spent, phase, wake, outcome>>
    BY <1>3, <2>1, Zenon DEF CallbackFlags, Inv, Types, Flags, Watches, control
  <2>3. /\ watch' \in Watches
        /\ watch'.started = watch.started /\ watch'.baseline = watch.baseline
        /\ ~watch'.due /\ watch'.timed_out = timed_out
    BY <2>2, Zenon DEF Inv, Types, Watches
  <2>4. timed_out => Owed >= timeout
    BY Zenon DEF Inv, Cause
  <2>5. Types'
    BY <2>2, <2>3, Zenon DEF Inv, Types
  <2>6. Mutex' /\ Wakeup'
    BY <2>2 DEF Inv, Mutex, Wakeup
  <2>7. Clock'
    BY <2>1, <2>2, <2>3 DEF Inv, Clock, Running, TotalPaused
  <2>8. Cause'
    <3>1. Owed' = Owed
      BY <2>2 DEF Owed
    <3> QED
      BY <2>1, <2>2, <2>3, <2>4, <3>1 DEF Inv, Cause, Running
  <2> QED
    BY <2>5, <2>6, <2>7, <2>8 DEF Inv
<1> QED
    BY <1>1, <1>2, <1>3

\* The steps of the cooperative pause that only move the task.
LEMMA MovesKeep ==
  ASSUME Inv,
         \/ HostCall \/ HostAnswers \/ Epoch \/ MarkTest
         \/ WaitTest \/ Select \/ Expired
  PROVE  Inv'
<1>1. CASE HostCall \/ Epoch
    BY <1>1, GotoKeeps, Zenon DEF HostCall, Epoch, Guest
<1>2. CASE HostAnswers \/ Select
    BY <1>2, GotoKeeps, Zenon DEF HostAnswers, Select, Inv, Cause
<1>3. CASE MarkTest \/ WaitTest \/ Expired
    BY <1>3, GotoKeeps DEF MarkTest, WaitTest, Expired, Inv, Cause
<1> QED
    BY <1>1, <1>2, <1>3

\* The wait registers before it looks, and sleeps only if it saw the pause.
LEMMA WaitsKeep ==
  ASSUME Inv, WaitRegister \/ WaitRemaining
  PROVE  Inv'
<1>1. CASE WaitRegister
  <2>1. wake' \in [notified : BOOLEAN, deadline : Nat]
    BY <1>1, Zenon DEF WaitRegister, Inv, Types
  <2>2. /\ at = "wait" /\ at' = "wait_test"
        /\ UNCHANGED <<now, token, timing, holder, control, spent, phase, watch, outcome>>
    BY <1>1 DEF WaitRegister
  <2> QED
    BY <2>1, <2>2
       DEF Inv, Types, Mutex, Wakeup, Clock, Cause, Running, TotalPaused, Owed, Doing, control
<1>2. CASE WaitRemaining /\ Remaining = 0
    BY <1>2, GotoKeeps, Zenon DEF WaitRemaining, Inv, Cause
<1>3. CASE WaitRemaining /\ Remaining # 0
  <2>1. PICK deadline \in Nat : deadline = now + Remaining
    BY TimeAssumption DEF Inv, Types, Clock, Remaining, Monus
  <2>2. wake' = [wake EXCEPT !.deadline = deadline]
    BY <1>3, <2>1 DEF WaitRemaining
  <2>3. wake' \in [notified : BOOLEAN, deadline : Nat] /\ wake'.notified = wake.notified
    BY <2>2 DEF Inv, Types
  <2>4. /\ at = "wait_remaining" /\ at' = "select"
        /\ UNCHANGED <<now, token, timing, holder, control, spent, phase, watch, outcome>>
    BY <1>3, Zenon DEF WaitRemaining
  <2> QED
    BY <2>3, <2>4
       DEF Inv, Types, Mutex, Wakeup, Clock, Cause, Running, TotalPaused, Owed, Doing, control
<1> QED
    BY <1>1, <1>2, <1>3, Zenon

\* A store of the task to the token: the resident flag, or an eviction.
LEMMA SetsKeep ==
  ASSUME Inv, MarkStore \/ Evict \/ EvictResident \/ EvictCancel
  PROVE  Inv'
<1>1. /\ UNCHANGED <<now, timing, holder, control, spent, phase, wake, watch, outcome>>
      /\ Running /\ Running'
      /\ at \in {"mark_store", "evict", "evict_resident", "evict_cancel"}
    BY DEF MarkStore, Evict, EvictResident, EvictCancel, Set, Inv, Cause, Running
<1>2. /\ token' \in Flags
      /\ token'.paused = token.paused
      /\ token.evicted => token'.evicted
      /\ token'.cancelled /\ ~token'.evicted => token.cancelled /\ ~token.evicted
      /\ at' \in {"evict_resident", "evict_cancel"} => token'.evicted
      /\ at' \in {"wait", "guest", "evict_resident", "evict_cancel"}
    BY Zenon DEF MarkStore, Evict, EvictResident, EvictCancel, Set, Inv, Types, Flags, Cause
<1>3. Types'
    BY <1>1, <1>2, Zenon DEF Inv, Types, control
<1>4. Mutex'
    BY <1>1, <1>2, Zenon DEF Inv, Mutex, control
<1>5. Wakeup'
    BY <1>2, Zenon DEF Wakeup
<1>6. Clock'
    BY <1>1, <1>2 DEF Inv, Clock, Running, TotalPaused
<1>7. Cause'
    BY <1>1, <1>2 DEF Inv, Cause, Running, Owed, control
<1> QED
    BY <1>3, <1>4, <1>5, <1>6, <1>7, Zenon DEF Inv

LEMMA TaskKeeps ==
  ASSUME Inv, TaskStep \/ HostAnswers
  PROVE  Inv'
<1>1. CASE GuestTraps \/ Interrupted
    BY <1>1, TrapKeeps DEF GuestTraps, Interrupted
<1> QED
    BY <1>1, PhasesKeep, BaselineKeeps, CallbacksKeep, MovesKeep, WaitsKeep, SetsKeep DEF TaskStep

-----------------------------------------------------------------------------
(* The clock and the controllers.                                          *)

\* A tick is charged to the guest or to the pause under way.
LEMMA TickKeeps ==
  ASSUME Inv, Tick
  PROVE  Inv'
<1>1. /\ now' = now + 1
      /\ UNCHANGED <<token, timing, holder, pc, asked, at, phase, wake, watch, outcome>>
    BY DEF Tick, task, control
<1>2. /\ spent' \in Spendings
      /\ ~Running => spent' = spent
      /\ Running /\ timing.paused_at = None =>
           /\ spent'.active = spent.active + 1
           /\ spent'.start_gap = spent.start_gap /\ spent'.callback_gap = spent.callback_gap
      /\ Running /\ timing.paused_at # None =>
           /\ spent'.active = spent.active
           /\ spent'.start_gap =
                IF at = "baseline" THEN spent.start_gap + 1 ELSE spent.start_gap
           /\ spent'.callback_gap =
                IF at = "callback_clock" THEN spent.callback_gap + 1 ELSE spent.callback_gap
    BY DEF Tick, Inv, Types, Spendings
<1>3. Types'
    BY <1>1, <1>2 DEF Inv, Types
<1>4. Clock'
  <2>1. CASE ~Running
    <3>1. at = "guest" /\ ~Running'
      BY <1>1, <2>1 DEF Inv, Cause, Running
    <3> QED
      BY <1>1, <1>2, <2>1, <3>1 DEF Inv, Types, Clock
  <2>2. CASE Running /\ timing.paused_at = None
    <3>1. TotalPaused' = TotalPaused /\ TotalPaused \in Nat
      BY <1>1, <2>2 DEF Inv, Types, TotalPaused
    <3>2. at = "baseline" =>
            watch'.started + spent'.active + spent'.start_gap = now'
      BY <1>1, <1>2, <2>2 DEF Inv, Types, Watches, Spendings, Clock
    <3>3. at # "baseline" =>
            /\ watch'.baseline <= TotalPaused'
            /\ watch'.started + spent'.active + spent'.start_gap + TotalPaused' =
                 now' + watch'.baseline
      BY <1>1, <1>2, <2>2, <3>1 DEF Inv, Types, Watches, Spendings, Clock
    <3>4. at = "callback_clock" => watch'.started + Owed' + watch'.suspended = now'
      BY <1>1, <1>2, <2>2 DEF Inv, Types, Watches, Spendings, Clock, Owed
    <3> QED
      BY <1>1, <2>2, <3>2, <3>3, <3>4 DEF Inv, Types, Watches, Clock, Running
  <2>3. CASE Running /\ timing.paused_at # None
    <3>1. TotalPaused' = TotalPaused + 1 /\ TotalPaused \in Nat
      BY <1>1, <2>3 DEF Inv, Types, Clock, TotalPaused
    <3>2. at = "baseline" =>
            watch'.started + spent'.active + spent'.start_gap = now'
      BY <1>1, <1>2, <2>3 DEF Inv, Types, Watches, Spendings, Clock
    <3>3. at # "baseline" =>
            /\ watch'.baseline <= TotalPaused'
            /\ watch'.started + spent'.active + spent'.start_gap + TotalPaused' =
                 now' + watch'.baseline
      BY <1>1, <1>2, <2>3, <3>1 DEF Inv, Types, Watches, Spendings, Clock
    <3>4. at = "callback_clock" => watch'.started + Owed' + watch'.suspended = now'
      BY <1>1, <1>2, <2>3 DEF Inv, Types, Watches, Spendings, Clock, Owed
    <3> QED
      BY <1>1, <2>3, <3>2, <3>3, <3>4 DEF Inv, Types, Watches, Clock, Running
  <2> QED
    BY <2>1, <2>2, <2>3
<1>5. Mutex' /\ Wakeup'
    BY <1>1 DEF Inv, Mutex, Wakeup, Doing
<1>6. Owed \in Nat /\ Owed' \in Nat /\ Owed' >= Owed
    BY <1>2 DEF Inv, Types, Spendings, Owed
<1>7. Cause'
    BY <1>1, <1>6, TimeAssumption DEF Inv, Cause, Running
<1> QED
    BY <1>3, <1>4, <1>5, <1>7 DEF Inv

\* A call begins, or finds nothing to do, without the mutex.
Idles(c) ==
  /\ pc[c] \notin {"pause_store", "resume_store"}
  /\ \E label \in Labels \ {"pause_store", "resume_store"} : Move(c, label)
  /\ UNCHANGED <<now, token, timing, holder, task, spent>>
  /\ asked => asked'

LEMMA IdlesKeep ==
  ASSUME Inv, NEW c \in Controllers, Idles(c)
  PROVE  Inv'
<1>1. PICK label \in Labels \ {"pause_store", "resume_store"} : Move(c, label)
    BY DEF Idles
<1>2. /\ pc' = [pc EXCEPT ![c] = label]
      /\ pc[c] \notin {"pause_store", "resume_store"}
      /\ UNCHANGED <<now, token, timing, holder, at, phase, wake, watch, outcome, spent>>
      /\ asked => asked'
    BY <1>1, Zenon DEF Idles, Move, task
<1>3. Types'
    BY <1>2, Zenon DEF Inv, Types
<1>4. Mutex'
    BY <1>2, NoneAssumption, Zenon DEF Inv, Types, Mutex
<1>5. Wakeup'
    BY <1>2, Zenon DEF Inv, Types, Wakeup, Doing
<1>6. Clock' /\ Cause'
    BY <1>2 DEF Inv, Clock, Cause, Running, TotalPaused, Owed
<1> QED
    BY <1>3, <1>4, <1>5, <1>6 DEF Inv

\* The swap of the flag under the mutex.
LEMMA SwapKeeps ==
  ASSUME Inv, NEW c \in Controllers, NEW label \in {"pause_store", "resume_store"},
         holder = None, holder' = c, Move(c, label),
         token.paused <=> label = "resume_store",
         token' = [token EXCEPT !.paused = (label = "pause_store")],
         UNCHANGED <<now, timing, task, asked, spent>>
  PROVE  Inv'
<1>1. /\ token' \in Flags
      /\ token'.paused <=> label = "pause_store"
      /\ token'.evicted = token.evicted /\ token'.cancelled = token.cancelled
    BY Zenon DEF Inv, Types, Flags
<1>2. /\ pc' = [pc EXCEPT ![c] = label]
      /\ UNCHANGED <<now, timing, at, phase, wake, watch, outcome, asked, spent>>
    BY DEF Move, task
<1>3. Types'
    BY <1>1, <1>2 DEF Inv, Types, Labels
<1>4. Mutex'
    BY <1>1, <1>2, NoneAssumption DEF Inv, Types, Mutex
<1>5. Wakeup'
    BY <1>1, <1>2, Zenon DEF Inv, Types, Wakeup, Doing
<1>6. Clock' /\ Cause'
    BY <1>1, <1>2 DEF Inv, Clock, Cause, Running, TotalPaused, Owed
<1> QED
    BY <1>3, <1>4, <1>5, <1>6 DEF Inv

\* The stores that follow it: total_paused does not jump.
LEMMA PauseStoreKeeps ==
  ASSUME Inv, NEW c \in Controllers, PauseStore(c)
  PROVE  Inv'
<1>1. /\ token' \in Flags
      /\ token'.paused = token.paused
      /\ token'.evicted = token.evicted /\ token'.cancelled = token.cancelled
    BY Zenon DEF PauseStore, Inv, Types, Flags
<1>2. /\ pc[c] = "pause_store" /\ holder = c /\ holder' = None
      /\ token.paused /\ timing.paused_at = None
      /\ pc' = [pc EXCEPT ![c] = "idle"]
      /\ UNCHANGED <<now, at, phase, wake, watch, outcome, asked, spent>>
    BY NoneAssumption DEF PauseStore, Move, task, Inv, Mutex
<1>3. /\ timing' \in [completed : Nat, paused_at : Nat \cup {None}]
      /\ timing'.completed = timing.completed /\ timing'.paused_at = now
    BY Zenon DEF PauseStore, Inv, Types
<1>4. TotalPaused' = TotalPaused /\ TotalPaused \in Nat
    BY <1>2, <1>3, NoneAssumption DEF Inv, Types, TotalPaused
<1>5. Types'
    BY <1>1, <1>2, <1>3, Zenon DEF Inv, Types, Labels
<1>6. Mutex'
    BY <1>1, <1>2, <1>3, NoneAssumption, Zenon DEF Inv, Types, Mutex
<1>7. Wakeup'
    BY <1>1, <1>2, Zenon DEF Wakeup
<1>8. Clock'
    BY <1>2, <1>3, <1>4 DEF Inv, Types, Clock, Running, Owed
<1>9. Cause'
    BY <1>1, <1>2 DEF Inv, Cause, Running, Owed
<1> QED
    BY <1>5, <1>6, <1>7, <1>8, <1>9 DEF Inv

LEMMA ResumeStoreKeeps ==
  ASSUME Inv, NEW c \in Controllers, ResumeStore(c)
  PROVE  Inv'
<1>1. /\ token' \in Flags
      /\ token'.paused = token.paused
      /\ token'.evicted = token.evicted /\ token'.cancelled = token.cancelled
    BY Zenon DEF ResumeStore, Inv, Types, Flags
<1>2. /\ pc[c] = "resume_store" /\ holder = c /\ holder' = None
      /\ ~token.paused /\ timing.paused_at # None
      /\ pc' = [pc EXCEPT ![c] = "idle"]
      /\ UNCHANGED <<now, at, phase, watch, outcome, asked, spent>>
    BY NoneAssumption DEF ResumeStore, Move, Inv, Mutex
<1>3. wake' \in [notified : BOOLEAN, deadline : Nat] /\ wake'.notified
    BY Zenon DEF ResumeStore, Inv, Types, Flags
<1>4. PICK paused \in Nat : paused = TotalPaused
    BY DEF Inv, Types, Clock, TotalPaused
<1>5. timing' = [completed |-> paused, paused_at |-> None]
    BY <1>4 DEF ResumeStore
<1>6. TotalPaused' = paused
    BY <1>5 DEF TotalPaused
<1>7. Types'
    BY <1>1, <1>2, <1>3, <1>5, Zenon DEF Inv, Types, Labels
<1>8. Mutex'
    BY <1>1, <1>2, <1>5, NoneAssumption DEF Inv, Types, Mutex
<1>9. Wakeup'
    BY <1>3 DEF Wakeup
<1>10. Clock'
    BY <1>2, <1>4, <1>5, <1>6 DEF Inv, Types, Clock, Running, Owed
<1>11. Cause'
    BY <1>1, <1>2, Zenon DEF Inv, Cause, Running, Owed
<1> QED
    BY <1>7, <1>8, <1>9, <1>10, <1>11 DEF Inv

\* Somebody asks for the end.
LEMMA CancelKeeps ==
  ASSUME Inv, token' = [token EXCEPT !.cancelled = TRUE], asked',
         UNCHANGED <<now, timing, holder, task, pc, spent>>
  PROVE  Inv'
<1>1. /\ token' \in Flags
      /\ token'.paused = token.paused /\ token'.evicted = token.evicted
    BY Zenon DEF Inv, Types, Flags
<1> QED
    BY <1>1 DEF task,
       Inv, Types, Mutex, Wakeup, Clock, Cause, Running, TotalPaused, Owed, Doing

LEMMA DropHandleKeeps ==
  ASSUME Inv, NEW c \in Controllers, DropHandle(c)
  PROVE  Inv'
<1>1. /\ token' \in Flags
      /\ token'.paused = token.paused /\ token'.evicted = token.evicted
    BY Zenon DEF DropHandle, Inv, Types, Flags
<1>2. /\ pc[c] = "idle" /\ pc' = [pc EXCEPT ![c] = "resume"] /\ asked'
      /\ UNCHANGED <<now, timing, holder, at, phase, wake, watch, outcome, spent>>
    BY DEF DropHandle, Unshared, Move, task
<1>3. Types'
    BY <1>1, <1>2, Zenon DEF Inv, Types, Labels
<1>4. Mutex'
    BY <1>1, <1>2, NoneAssumption DEF Inv, Types, Mutex
<1>5. Wakeup'
    BY <1>1, <1>2, Zenon DEF Inv, Types, Wakeup, Doing
<1>6. Clock' /\ Cause'
    BY <1>1, <1>2, Zenon DEF Inv, Clock, Cause, Running, TotalPaused, Owed
<1> QED
    BY <1>3, <1>4, <1>5, <1>6 DEF Inv

LEMMA ControllersKeep ==
  ASSUME Inv, NEW c \in Controllers, Pause(c) \/ Resume(c) \/ DropHandle(c) \/ ControlStep(c)
  PROVE  Inv'
<1>1. CASE Pause(c) \/ Resume(c)
  <2>1. Idles(c)
    BY <1>1 DEF Pause, Resume, Ready, Idles, Labels
  <2> QED
    BY <2>1, IdlesKeep, Zenon
<1>2. CASE ResumeTest(c)
  <2>1. Idles(c)
    BY <1>2 DEF ResumeTest, Idles, Labels
  <2> QED
    BY <2>1, IdlesKeep
<1>3. CASE PauseSwap(c)
  <2>1. CASE token.paused
    <3>1. Idles(c)
      BY <1>3, <2>1 DEF PauseSwap, Idles, Labels
    <3> QED
      BY <3>1, IdlesKeep
  <2>2. CASE ~token.paused
    BY <1>3, <2>2, SwapKeeps, Zenon DEF PauseSwap
  <2> QED
    BY <2>1, <2>2
<1>4. CASE ResumeSwap(c)
  <2>1. CASE ~token.paused
    <3>1. Idles(c)
      BY <1>4, <2>1 DEF ResumeSwap, Idles, Labels
    <3> QED
      BY <3>1, IdlesKeep
  <2>2. CASE token.paused
    BY <1>4, <2>2, SwapKeeps, Zenon DEF ResumeSwap
  <2> QED
    BY <2>1, <2>2
<1> QED
    BY <1>1, <1>2, <1>3, <1>4, PauseStoreKeeps, ResumeStoreKeeps, DropHandleKeeps
    DEF ControlStep

-----------------------------------------------------------------------------
LEMMA Inductive == Inv /\ [Next]_vars => Inv'
<1> SUFFICES ASSUME Inv, [Next]_vars PROVE Inv'
    OBVIOUS
<1>1. CASE TaskStep \/ HostAnswers
    BY <1>1, TaskKeeps
<1>2. CASE Tick
    BY <1>2, TickKeeps
<1>3. CASE Cancel
    BY <1>3, CancelKeeps, Zenon DEF Cancel
<1>4. CASE Wait \/ UNCHANGED vars
  <2>1. UNCHANGED <<now, spent, token, timing, holder, at, phase, wake, watch, outcome, pc, asked>>
    BY <1>4, Zenon DEF Wait, vars, task, control
  <2>2. Types'
    BY <2>1, Zenon DEF Inv, Types
  <2>3. Mutex' /\ Wakeup'
    BY <2>1, Zenon DEF Inv, Mutex, Wakeup, Doing
  <2>4. Clock' /\ Cause'
    BY <2>1, Zenon DEF Inv, Clock, Cause, Running, TotalPaused, Owed
  <2> QED
    BY <2>2, <2>3, <2>4, Zenon DEF Inv
<1>5. ASSUME NEW c \in Controllers,
             Pause(c) \/ Resume(c) \/ DropHandle(c) \/ ControlStep(c)
      PROVE  Inv'
    BY <1>5, ControllersKeep, Zenon
<1> QED
    BY <1>1, <1>2, <1>3, <1>4, <1>5, Zenon DEF Next

\* The invariant holds throughout, whatever the fairness.
THEOREM Invariance == Spec => []Inv
BY Initially, Inductive, PTL DEF Spec

(* A task asleep in PauseToken::wait is paused, notified or about to be,     *)
(* however many threads pause and resume it: wait registers before it looks  *)
(* at the flag, and resume clears the flag before it notifies.               *)
THEOREM NoWakeupIsLost == Spec => []NoLostWakeup
<1>1. Inv => NoLostWakeup
    BY DEF Inv, Wakeup, NoLostWakeup
<1> QED
    BY <1>1, Invariance, PTL

(* The pause flag and paused_at agree whenever the mutex is free, and the    *)
(* epoch callback charges the guest its time outside pauses and the pause    *)
(* time between the two reads of either pair, no less and no more            *)
(* (PauseToken::total_paused and its baseline).                              *)
THEOREM ChargesActiveTime == Spec => []PauseClock
<1>1. Inv => PauseClock
    BY ActiveIsOwed DEF Inv, Mutex, PauseClock
<1> QED
    BY <1>1, Invariance, PTL

(* Timeout is reported only for a guest that has used up its time, counting  *)
(* the pause time between the reads, and Cancelled only if somebody asked    *)
(* (map_execution_error).                                                    *)
THEOREM CauseIsTrue == Spec => []ReportsTheCause
<1>1. Inv => ReportsTheCause
    BY DEF Inv, Cause, ReportsTheCause
<1> QED
    BY <1>1, Invariance, PTL
=============================================================================
