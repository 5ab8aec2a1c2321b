--------------------------- MODULE OutboundRequest ---------------------------
(***************************************************************************)
(* The HTTP call of one delivery: what runDeliveryCycle does between the   *)
(* claim and completeDelivery (node/src/worker/delivery.ts), with          *)
(* resolveAndPin and sendOutboundRequest (node/src/worker/httpClient.ts),  *)
(* the address checks they share with registration                         *)
(* (node/src/validation/url.ts) and the secrets the call is signed with    *)
(* (POST /endpoints/:id/secret/rotate, node/src/lib/signing.ts).           *)
(* DeliveryWorker has all of it as its one action Send.                    *)
(*                                                                         *)
(* The promise of sendOutboundRequest is settled by whichever of six       *)
(* events comes first: either timer, an error of the request, the body     *)
(* growing past its limit, the end of the body, an error of the response.  *)
(* Each is an action; time is a clock of ticks that a due timer holds up,  *)
(* since the event loop runs it before it waits again.                     *)
(*                                                                         *)
(* An IPv4 address is its first two octets, an IPv6 one its first group    *)
(* and whether the rest is ...:1, which is all the checks look at; an      *)
(* answer of the resolver is a sequence of them, <<>> when it fails.       *)
(***************************************************************************)
EXTENDS Naturals, Sequences, SequencesExt

CONSTANTS
    Urls,           \* [scheme, host] of the URLs tenants register; host is
                    \*   Name or an IPv4 literal
    Name,           \* a host that has to be looked up
    Answers,        \* what looking it up may yield, a different one each time
    MaxLookup,      \* ticks a lookup takes at most
    ConnectTimeout, TotalTimeout, LeaseFloor,   \* config.ts, in ticks
    MaxBody,        \* maxResponseBodyBytes
    Chunks,         \* sizes of the chunks a body arrives in
    MaxRotations,   \* bound: secret rotations
    MaxClock,       \* bound: ticks of one cycle
    None            \* NULL, an unset local, a cleared timer

(* As much of an address as the checks look at.                             *)
Octet == 0 .. 255
Group == 0 .. 65535

Address ==
    [family : {"v4", "mapped"}, a : Octet, b : Octet]
    \cup [family : {"v6"}, group : Group, rest : {"one", "other"}]

ASSUME TimesAssumption ==
    /\ {MaxLookup, ConnectTimeout, TotalTimeout, LeaseFloor} \subseteq Nat
    /\ {MaxBody, MaxRotations, MaxClock} \subseteq Nat
    /\ Chunks \subseteq Nat \ {0}

ASSUME AddressAssumption ==
    /\ \A answer \in Answers : answer \in Seq(Address)
    /\ \A u \in Urls : u.host = Name \/ u.host \in Address

ASSUME NoneAssumption ==
    None \notin Nat /\ None \notin Urls /\ None \notin Address /\ None # "connect_timeout"

VARIABLES
    url,        \* endpoints.url, None before it is registered
    secret,     \* generation of endpoints.signing_secret; the secondary one
                \*   is the generation before it
    overlap,    \* secondary_secret_expires_at: "none", "open" or "over"
    receiver,   \* the generation the receiver verifies with
    phase,      \* where runDeliveryCycle is
    clock,      \* ticks since the claim
    signers,    \* signingSecret and secondarySecret as the claim read them
    pinned,     \* pin.ip
    dialed,     \* the address the socket connects to
    socket,     \* how far the connection got
    connectAt, totalAt,     \* when the timers fire
    response,   \* res.statusCode
    received,   \* received.length
    result      \* what the promise resolved to

secretVars  == <<url, secret, overlap, receiver>>
timers      == <<connectAt, totalAt>>
bodyVars    == <<response, received>>
vars == <<secretVars, phase, clock, signers, pinned, dialed, socket, timers,
          bodyVars, result>>

-----------------------------------------------------------------------------
(* validation/url.ts.                                                      *)

checkIpv4_Exclusive(a, b) ==                \* slip: b < 31 for b <= 31
    ~ \/ a \in {127, 10, 0}
      \/ a = 172 /\ b >= 16 /\ b < 31
      \/ <<a, b>> \in {<<192, 168>>, <<169, 254>>}
      \/ a = 100 /\ b >= 64 /\ b <= 127

checkIpv4(a, b) ==
    ~ \/ a \in {127, 10, 0}
      \/ a = 172 /\ b >= 16 /\ b <= 31
      \/ <<a, b>> \in {<<192, 168>>, <<169, 254>>}
      \/ a = 100 /\ b >= 64 /\ b <= 127

(* The first group as it is printed: hexadecimal without leading zeros.     *)
Hex(n) ==
    LET digits == <<n \div 4096, (n \div 256) % 16, (n \div 16) % 16, n % 16>>
        lead   == CHOOSE i \in 1 .. 4 :
                     /\ i = 4 \/ digits[i] # 0
                     /\ \A j \in 1 .. i - 1 : digits[j] = 0
    IN SubSeq(digits, lead, 4)

checkIpv6(top, rest) ==
    ~ \/ top = 0 /\ rest = "one"
      \/ \E d \in 8 .. 11 : IsPrefix(<<15, 14, d>>, Hex(top))
      \/ \E d \in {12, 13} : IsPrefix(<<15, d>>, Hex(top))

checkAddress(ip) ==
    CASE ip.family = "v4" -> checkIpv4(ip.a, ip.b)
      [] ip.family = "v6" -> checkIpv6(ip.group, ip.rest)
      [] ip.family = "mapped" -> checkIpv4(ip.a, ip.b)      \* ::ffff:a.b.c.d

AllAllowed(answer) == \A i \in DOMAIN answer : checkAddress(answer[i])

validateEndpointUrl(u, answer) ==
    /\ u.scheme \in {"http", "https"}
    /\ IF u.host = Name THEN answer # <<>> /\ AllAllowed(answer) ELSE checkAddress(u.host)

-----------------------------------------------------------------------------
Init ==
    /\ url = None /\ secret = 1 /\ overlap = "none" /\ receiver = 1
    /\ phase = "idle" /\ clock = 0 /\ signers = {}
    /\ pinned = None /\ dialed = None /\ socket = "none"
    /\ connectAt = None /\ totalAt = None
    /\ response = None /\ received = 0
    /\ result = None

(* POST /endpoints, when the URL passes.                                    *)
Register(u) ==
    /\ url = None
    /\ \E answer \in Answers : validateEndpointUrl(u, answer)
    /\ url' = u
    /\ UNCHANGED <<secret, overlap, receiver, phase, clock, signers, pinned, dialed,
                   socket, timers, bodyVars, result>>

(* POST /endpoints/:id/secret/rotate, also while an earlier overlap is open: *)
(* the secondary it had is overwritten.                                     *)
Rotate ==
    /\ url # None
    /\ secret <= MaxRotations
    /\ secret' = secret + 1
    /\ overlap' = "open"
    /\ UNCHANGED <<url, receiver, phase, clock, signers, pinned, dialed, socket,
                   timers, bodyVars, result>>

(* The receiver's operator installs the secret the rotation returned ...    *)
ReceiverUpdates ==
    /\ receiver # secret
    /\ receiver' = secret
    /\ UNCHANGED <<url, secret, overlap, phase, clock, signers, pinned, dialed, socket,
                   timers, bodyVars, result>>

(* ... in time or not: secondary_secret_expires_at is reached.              *)
OverlapEnds ==
    /\ overlap = "open"
    /\ overlap' = "over"
    /\ UNCHANGED <<url, secret, receiver, phase, clock, signers, pinned, dialed, socket,
                   timers, bodyVars, result>>

-----------------------------------------------------------------------------
(* The claim reads the endpoint's secrets: hasActiveSecondary.              *)
activeSecrets_Current == {secret}           \* slip: the current secret only

activeSecrets == {secret} \cup (IF overlap = "open" THEN {secret - 1} ELSE {})

Claim ==
    /\ phase = "idle" /\ url # None
    /\ phase' = "resolve"
    /\ clock' = 0
    /\ signers' = activeSecrets
    /\ UNCHANGED <<secretVars, pinned, dialed, socket, timers, bodyVars, result>>

Outcome(status, body, error) == [status |-> status, body |-> body, error |-> error]

(* finish: the first caller settles the promise and clears both timers.     *)
finish(outcome) ==
    /\ result' = outcome
    /\ phase' = "settled"
    /\ connectAt' = None /\ totalAt' = None
    /\ UNCHANGED <<secretVars, clock, signers, pinned, dialed, socket>>

(* resolveAndPin: one lookup, every address of the answer checked, the      *)
(* first one kept; a literal is checked without a lookup.                   *)
ResolveAndPin ==
    /\ phase = "resolve"
    /\ \E answer \in IF url.host = Name THEN Answers ELSE {<<url.host>>} :
          /\ answer # <<>> /\ AllAllowed(answer)
          /\ pinned' = answer[1]
    /\ phase' = "send"
    /\ UNCHANGED <<secretVars, clock, signers, dialed, socket, timers, bodyVars, result>>

(* url_not_allowed: no request is made.                                     *)
RejectAddress ==
    /\ phase = "resolve"
    /\ \E answer \in IF url.host = Name THEN Answers ELSE {<<url.host>>} :
          answer = <<>> \/ ~AllAllowed(answer)
    /\ finish(Outcome(None, 0, "url_not_allowed"))
    /\ UNCHANGED bodyVars

(* The address net.connect gets from the lookup option.                     *)
pinnedLookup_Resolves(ip) ==                \* slip: the host is looked up again
    IF url.host = Name THEN {answer[1] : answer \in Answers \ {<<>>}} ELSE {ip}

pinnedLookup(ip) == {ip}

(* webhook-signature: one HMAC for each secret the claim read.              *)
signPayload(secrets) == {[hmac |-> s] : s \in secrets}

(* transport.request and both setTimeouts.                                  *)
SendOutboundRequest ==
    /\ phase = "send"
    /\ phase' = "wait"
    /\ dialed' \in pinnedLookup(pinned)
    /\ socket' = "dialing"
    /\ connectAt' = clock + ConnectTimeout
    /\ totalAt' = clock + TotalTimeout
    /\ UNCHANGED <<secretVars, clock, signers, pinned, bodyVars, result>>

(* "connect", or for https "secureConnect" once the handshake is over.      *)
Connected_ClearsTotal ==                    \* slip: the wrong timer is cleared
    /\ connectAt' = None /\ totalAt' = None

Connected_KeepsTimer ==                     \* slip: no handler for the event
    UNCHANGED timers

Connected ==
    /\ connectAt' = None
    /\ UNCHANGED totalAt

Connect ==
    /\ phase = "wait" /\ socket = "dialing"
    /\ IF url.scheme = "https"
       THEN socket' = "handshake" /\ UNCHANGED timers
       ELSE socket' = "connected" /\ Connected
    /\ UNCHANGED <<secretVars, phase, clock, signers, pinned, dialed, bodyVars, result>>

SecureConnect ==
    /\ phase = "wait" /\ socket = "handshake"
    /\ socket' = "connected" /\ Connected
    /\ UNCHANGED <<secretVars, phase, clock, signers, pinned, dialed, bodyVars, result>>

ConnectTimer ==
    /\ phase = "wait" /\ connectAt # None /\ clock >= connectAt
    /\ finish(Outcome(None, 0, "connect_timeout"))
    /\ UNCHANGED bodyVars

TotalTimer ==
    /\ phase = "wait" /\ totalAt # None /\ clock >= totalAt
    /\ finish(Outcome(None, 0, "total_timeout"))
    /\ UNCHANGED bodyVars

(* What the socket may fail with; ENOTFOUND cannot come from the pinned     *)
(* lookup.                                                                  *)
SocketErrors ==
    IF socket = "dialing" THEN {"ECONNREFUSED", "ETIMEDOUT"} ELSE {"ECONNRESET", "EPROTO"}

classifyError(code) ==
    CASE code = "ECONNREFUSED" -> "connection_refused"
      [] code = "ENOTFOUND" -> "dns_error"
      [] code = "ECONNRESET" -> "connection_reset"
      [] OTHER -> "connection_error"

(* "error" of the request; a reset socket reports it there even when a      *)
(* response has begun.                                                      *)
RequestError ==
    /\ phase = "wait"
    /\ \E code \in SocketErrors : finish(Outcome(None, 0, classifyError(code)))
    /\ UNCHANGED bodyVars

(* "response": any status is final, redirects are not followed.             *)
Response ==
    /\ phase = "wait" /\ socket = "connected" /\ response = None
    /\ response' \in {"2xx", "3xx", "5xx"}
    /\ UNCHANGED <<secretVars, phase, clock, signers, pinned, dialed, socket, timers,
                   received, result>>

(* "data" within the limit ...                                              *)
Data(n) ==
    /\ phase = "wait" /\ response # None
    /\ received + n <= MaxBody
    /\ received' = received + n
    /\ UNCHANGED <<secretVars, phase, clock, signers, pinned, dialed, socket, timers,
                   response, result>>

(* ... and past it: cut off, the response destroyed, settled.               *)
DataOverflow(n) ==
    /\ phase = "wait" /\ response # None
    /\ received + n > MaxBody
    /\ received' = MaxBody
    /\ finish(Outcome(response, MaxBody, None))
    /\ UNCHANGED response

(* finishWithReceivedBody: "end" of the response, or its "error" when the   *)
(* connection goes away in the middle of the body.                          *)
ResponseEnds ==
    /\ phase = "wait" /\ response # None
    /\ finish(Outcome(response, received, None))
    /\ UNCHANGED bodyVars

(* completeDelivery takes the outcome over; the locals are gone.            *)
CompleteDelivery ==
    /\ phase = "settled"
    /\ phase' = "idle" /\ clock' = 0 /\ signers' = {}
    /\ pinned' = None /\ dialed' = None /\ socket' = "none"
    /\ response' = None /\ received' = 0
    /\ result' = None
    /\ UNCHANGED <<secretVars, timers>>

(* Time passes while the lookup is out, and while nothing is due.           *)
Due(at) == at # None /\ clock >= at

Tick ==
    /\ clock < MaxClock
    /\ \/ phase = "resolve" /\ clock < MaxLookup
       \/ phase = "wait" /\ ~Due(connectAt) /\ ~Due(totalAt)
    /\ clock' = clock + 1
    /\ UNCHANGED <<secretVars, phase, signers, pinned, dialed, socket, timers,
                   bodyVars, result>>

-----------------------------------------------------------------------------
(* What the code does by itself, and what it waits for.                     *)
Cycle ==
    \/ Claim \/ ResolveAndPin \/ RejectAddress \/ SendOutboundRequest
    \/ ConnectTimer \/ TotalTimer \/ CompleteDelivery

Network ==
    \/ Connect \/ SecureConnect \/ RequestError \/ Response \/ ResponseEnds
    \/ \E n \in Chunks : Data(n) \/ DataOverflow(n)

Operators ==
    \/ \E u \in Urls : Register(u)
    \/ Rotate \/ ReceiverUpdates \/ OverlapEnds

Next == Cycle \/ Network \/ Operators \/ Tick

Spec == Init /\ [][Next]_vars

(* The event loop runs what is due and time passes.  Nothing is assumed of  *)
(* the network: the receiver may never answer.                              *)
FairSpec == Spec /\ WF_vars(Cycle) /\ WF_vars(Tick)

-----------------------------------------------------------------------------
(* Properties.                                                             *)

(* The ranges R-2 and the reasons in url.ts name, as CIDR blocks.           *)
InBlock(n, base, bits) == n \div 2^(16 - bits) = base \div 2^(16 - bits)

ReservedV4 ==
    { <<127 * 256, 8>>, <<10 * 256, 8>>, <<172 * 256 + 16, 12>>, <<192 * 256 + 168, 16>>,
      <<169 * 256 + 254, 16>>, <<0, 8>>, <<100 * 256 + 64, 10>> }

ReservedV6 == { <<65152, 10>>, <<64512, 7>> }       \* fe80::/10, fc00::/7

Reserved(ip) ==
    IF ip.family = "v6"
    THEN (ip.group = 0 /\ ip.rest = "one") \/ \E r \in ReservedV6 : InBlock(ip.group, r[1], r[2])
    ELSE \E r \in ReservedV4 : InBlock(ip.a * 256 + ip.b, r[1], r[2])

(* ADR-0006: whatever the resolver answers, at registration, at send time   *)
(* and in between, no connection is opened to an address in a reserved      *)
(* block: the address dialed is the one that was checked, and the octet and *)
(* prefix tests of url.ts cover the blocks to their last address.           *)
DialedIsPublic == dialed # None => ~Reserved(dialed)

(* connect_timeout is recorded only for a connection that was never         *)
(* established, TLS included: a slow answer is not mistaken for it.         *)
ConnectTimeoutIsConnect ==
    phase = "settled" /\ result.error = "connect_timeout" => socket # "connected"

(* config.ts: timeout + max(timeout, floor).                                *)
leaseDuration == TotalTimeout + IF TotalTimeout >= LeaseFloor THEN TotalTimeout ELSE LeaseFloor

(* ADR-003, the lease is derived from the outbound timeout: a call is over  *)
(* before the lease lapses whatever the receiver does, as long as the       *)
(* lookup, which has no timeout of its own, fits in the lease's slack.      *)
WithinLease == clock <= leaseDuration

(* R-3, ADR-0003: a receiver on either secret verifies every call during    *)
(* the overlap, except one claimed before the secret it has installed       *)
(* existed.  A receiver may be behind in two ways only: by more than one    *)
(* rotation, or past the overlap.                                           *)
HolderVerifies ==
    phase \in {"send", "wait"} =>
        \/ [hmac |-> receiver] \in signPayload(signers)
        \/ \A s \in signers : s < receiver
        \/ receiver < secret - 1
        \/ receiver < secret /\ overlap # "open"

(* Every call is settled, also when the receiver accepts the connection and *)
(* never sends a byte, or never stops sending: the worker's only loop waits *)
(* for it.                                                                  *)
Settles == (phase = "wait") ~> (phase = "settled")

-----------------------------------------------------------------------------
(* The locals have their types, a cycle has a URL and its connection an     *)
(* address, and no body outgrows maxResponseBodyBytes.                      *)
OutboundTypeOK ==
    /\ url \in Urls \cup {None}
    /\ secret \in Nat \ {0} /\ receiver \in Nat
    /\ overlap \in {"none", "open", "over"}
    /\ phase \in {"idle", "resolve", "send", "wait", "settled"}
    /\ phase # "idle" => url # None
    /\ clock \in Nat
    /\ signers \subseteq Nat
    /\ {pinned, dialed} \subseteq Address \cup {None}
    /\ phase = "send" => pinned # None
    /\ socket \in {"none", "dialing", "handshake", "connected"}
    /\ {connectAt, totalAt} \subseteq Nat \cup {None}
    /\ response \in {None, "2xx", "3xx", "5xx"}
    /\ received \in 0 .. MaxBody

=============================================================================
