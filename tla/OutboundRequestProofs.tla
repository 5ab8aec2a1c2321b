------------------------- MODULE OutboundRequestProofs -------------------------
(***************************************************************************)
(* Proofs about OutboundRequest: the address checks of url.ts cover the    *)
(* reserved blocks, for every address, and one HTTP call keeps its         *)
(* promises for any timeouts, URLs, resolver answers and rotations.        *)
(***************************************************************************)
EXTENDS OutboundRequest, TLAPS

USE DEF secretVars, timers, bodyVars

(* The inductive invariant, whose parts OutboundInvariant puts together.    *)

(* Every address pinned, and so every one dialed, has passed the checks.    *)
PinnedIsChecked ==
    /\ pinned # None => checkAddress(pinned)
    /\ dialed # None => checkAddress(dialed)

(* An open connection has no connect timer any more.                        *)
TimerIsCleared ==
    phase = "wait" /\ socket = "connected" => connectAt = None

(* A lookup ends in time, and the total timer bounds what comes after it.   *)
WithinTimers ==
    /\ phase \in {"idle", "resolve", "send"} => clock <= MaxLookup
    /\ phase = "wait" => /\ totalAt # None
                         /\ clock <= totalAt /\ totalAt <= MaxLookup + TotalTimeout
    /\ clock <= MaxLookup + TotalTimeout

(* The secrets of a claim, against the one the receiver has installed.      *)
SignersCurrent ==
    /\ receiver <= secret
    /\ \A s \in signers : s <= secret
    /\ phase \in {"resolve", "send", "wait"} =>
          \/ receiver \in signers
          \/ \A s \in signers : s < receiver
          \/ receiver < secret - 1
          \/ receiver < secret /\ overlap # "open"

(* The whole of it.                                                         *)
OutboundInvariant ==
    /\ OutboundTypeOK
    /\ PinnedIsChecked
    /\ TimerIsCleared
    /\ WithinTimers
    /\ SignersCurrent
    /\ ConnectTimeoutIsConnect

-----------------------------------------------------------------------------

-----------------------------------------------------------------------------
(* The address checks.                                                     *)

(* The octet tests of checkIpv4 and the seven IPv4 blocks are the same.     *)
LEMMA CheckIpv4Exact ==
    ASSUME NEW a \in Octet, NEW b \in Octet
    PROVE  checkIpv4(a, b) <=> ~\E r \in ReservedV4 : InBlock(a * 256 + b, r[1], r[2])
<1> DEFINE n == a * 256 + b
<1>1. InBlock(n, 127 * 256, 8) <=> a = 127
  BY DEF InBlock, Octet
<1>2. InBlock(n, 10 * 256, 8) <=> a = 10
  BY DEF InBlock, Octet
<1>3. InBlock(n, 172 * 256 + 16, 12) <=> a = 172 /\ b >= 16 /\ b <= 31
  BY DEF InBlock, Octet
<1>4. InBlock(n, 192 * 256 + 168, 16) <=> a = 192 /\ b = 168
  BY DEF InBlock, Octet
<1>5. InBlock(n, 169 * 256 + 254, 16) <=> a = 169 /\ b = 254
  BY DEF InBlock, Octet
<1>6. InBlock(n, 0, 8) <=> a = 0
  BY DEF InBlock, Octet
<1>7. InBlock(n, 100 * 256 + 64, 10) <=> a = 100 /\ b >= 64 /\ b <= 127
  BY DEF InBlock, Octet
<1> HIDE DEF n
<1> QED
  BY <1>1, <1>2, <1>3, <1>4, <1>5, <1>6, <1>7 DEF checkIpv4, ReservedV4, n

(* A group with four hexadecimal digits is printed with all of them.        *)
LEMMA HexFull ==
    ASSUME NEW n \in Nat,
           NEW d1 \in Int, NEW d2 \in Int, NEW d3 \in Int, NEW d4 \in Int,
           d1 = n \div 4096, d2 = (n \div 256) % 16, d3 = (n \div 16) % 16, d4 = n % 16,
           d1 # 0
    PROVE  Hex(n) = <<d1, d2, d3, d4>>
<1> DEFINE digits == <<d1, d2, d3, d4>>
           Leads(i) == /\ i = 4 \/ digits[i] # 0
                       /\ \A j \in 1 .. i - 1 : digits[j] = 0
           lead == CHOOSE i \in 1 .. 4 : Leads(i)
<1>1. digits[1] # 0 /\ Len(digits) = 4 /\ digits \in Seq(Int)
  OBVIOUS
<1> HIDE DEF digits
<1>2. Leads(1)
  BY <1>1
<1>3. ASSUME NEW i \in 1 .. 4, Leads(i) PROVE i = 1
  <2>1. ASSUME i # 1 PROVE FALSE
    <3>1. 1 \in 1 .. i - 1
      BY <2>1
    <3>2. digits[1] = 0
      BY <1>3, <3>1
    <3> QED
      BY <1>1, <3>2
  <2> QED
    BY <2>1
<1>4. lead \in 1 .. 4 /\ Leads(lead)
  <2>1. \E i \in 1 .. 4 : Leads(i)
    BY <1>2
  <2> HIDE DEF Leads
  <2> QED
    BY <2>1
<1>5. Hex(n) = SubSeq(digits, lead, 4)
  BY DEF Hex, digits
<1> HIDE DEF Leads, lead
<1>6. lead = 1
  BY <1>3, <1>4
<1>7. SubSeq(digits, 1, 4) = digits
  BY <1>1
<1> QED
  <2>1. Hex(n) = digits
    BY <1>5, <1>6, <1>7
  <2> QED
    BY <2>1 DEF digits

(* The prefixes checkIpv6 looks for are those of every address of fe80::/10 *)
(* and fc00::/7.                                                            *)
LEMMA CheckIpv6Covers ==
    ASSUME NEW top \in Group, NEW rest, checkIpv6(top, rest)
    PROVE  ~(top = 0 /\ rest = "one") /\ \A r \in ReservedV6 : ~InBlock(top, r[1], r[2])
<1> DEFINE second == (top \div 256) % 16
           third  == (top \div 16) % 16
           fourth == top % 16
<1>0. top \in Nat /\ second \in Int /\ third \in Int /\ fourth \in Int
  BY DEF Group
<1>1. ASSUME top \div 4096 = 15 PROVE Hex(top) = <<15, second, third, fourth>>
  <2>1. top \in Nat /\ 15 \in Int /\ 15 # 0
    BY DEF Group
  <2>2. /\ second = (top \div 256) % 16
        /\ third = (top \div 16) % 16
        /\ fourth = top % 16
    OBVIOUS
  <2> HIDE DEF second, third, fourth
  <2> QED
    BY <1>0, <1>1, <2>1, <2>2, HexFull
<1>2. ASSUME InBlock(top, 65152, 10) PROVE FALSE
  <2>1. top >= 65152 /\ top < 65216
    BY <1>2 DEF InBlock, Group
  <2>2. top \div 4096 = 15
    BY <1>0, <2>1
  <2>3. second = 14
    BY <1>0, <2>1
  <2>4. third \in 8 .. 11
    BY <1>0, <2>1
  <2> HIDE DEF second, third, fourth
  <2>5. IsPrefix(<<15, 14, third>>, <<15, second, third, fourth>>)
    BY <1>0, <2>3 DEF IsPrefix
  <2>6. \E d \in 8 .. 11 : IsPrefix(<<15, 14, d>>, Hex(top))
    BY <1>1, <2>2, <2>4, <2>5
  <2> QED
    BY <2>6 DEF checkIpv6
<1>3. ASSUME InBlock(top, 64512, 7) PROVE FALSE
  <2>1. top >= 64512 /\ top < 65024
    BY <1>3 DEF InBlock, Group
  <2>2. top \div 4096 = 15
    BY <1>0, <2>1
  <2>3. second \in {12, 13}
    BY <1>0, <2>1
  <2> HIDE DEF second, third, fourth
  <2>4. IsPrefix(<<15, second>>, <<15, second, third, fourth>>)
    BY <1>0 DEF IsPrefix
  <2>5. IsPrefix(<<15, second>>, Hex(top))
    BY <1>1, <2>2, <2>4
  <2>6. ~IsPrefix(<<15, 12>>, Hex(top))
    BY DEF checkIpv6
  <2>7. ~IsPrefix(<<15, 13>>, Hex(top))
    BY DEF checkIpv6
  <2> QED
    BY <2>3, <2>5, <2>6, <2>7
<1>4. ~(top = 0 /\ rest = "one")
  BY DEF checkIpv6
<1>5. \A r \in ReservedV6 : ~InBlock(top, r[1], r[2])
  BY <1>2, <1>3 DEF ReservedV6
<1> QED
  BY <1>4, <1>5

(* An address that passes is in no reserved block, mapped ones included.    *)
LEMMA CheckedIsPublic ==
    ASSUME NEW ip \in Address, checkAddress(ip) PROVE ~Reserved(ip)
<1>1. CASE ip \in [family : {"v4", "mapped"}, a : Octet, b : Octet]
  <2>1. /\ ip.family \in {"v4", "mapped"} /\ ip.a \in Octet /\ ip.b \in Octet
    BY <1>1
  <2>2. checkIpv4(ip.a, ip.b)
    BY <2>1 DEF checkAddress
  <2>3. ~\E r \in ReservedV4 : InBlock(ip.a * 256 + ip.b, r[1], r[2])
    BY <2>1, <2>2, CheckIpv4Exact
  <2> QED
    BY <2>1, <2>3 DEF Reserved
<1>2. CASE ip \in [family : {"v6"}, group : Group, rest : {"one", "other"}]
  <2>1. ip.family = "v6"
    BY <1>2
  <2>2. ip.group \in Group
    BY <1>2
  <2>3. checkIpv6(ip.group, ip.rest)
    BY <2>1 DEF checkAddress
  <2>4. ~(ip.group = 0 /\ ip.rest = "one") /\ \A r \in ReservedV6 : ~InBlock(ip.group, r[1], r[2])
    BY <2>2, <2>3, CheckIpv6Covers
  <2> QED
    BY <2>1, <2>4 DEF Reserved
<1>3. ip \in [family : {"v4", "mapped"}, a : Octet, b : Octet]
      \/ ip \in [family : {"v6"}, group : Group, rest : {"one", "other"}]
  BY DEF Address
<1> QED
  BY <1>1, <1>2, <1>3

-----------------------------------------------------------------------------
(* The parts of the invariant, one by one.                                 *)

(* resolveAndPin keeps an address that has passed the checks, whether the   *)
(* resolver answered with it or the URL names it.                           *)
LEMMA PinsChecked ==
    ASSUME OutboundTypeOK, ResolveAndPin
    PROVE  pinned' \in Address /\ checkAddress(pinned')
<1>1. url \in Urls
  BY DEF OutboundTypeOK, ResolveAndPin
<1>2. PICK answer \in IF url.host = Name THEN Answers ELSE {<<url.host>>} :
         answer # <<>> /\ AllAllowed(answer) /\ pinned' = answer[1]
  BY DEF ResolveAndPin
<1>3. answer \in Seq(Address)
  <2>1. CASE url.host = Name
    BY <1>2, <2>1, AddressAssumption
  <2>2. CASE url.host # Name
    <3>1. answer = <<url.host>> /\ url.host \in Address
      BY <1>1, <1>2, <2>2, AddressAssumption
    <3> QED
      BY <3>1
  <2> QED
    BY <2>1, <2>2
<1>4. 1 \in DOMAIN answer /\ answer[1] \in Address
  BY <1>2, <1>3
<1> QED
  BY <1>2, <1>4 DEF AllAllowed

(* Every step keeps the types.                                              *)
LEMMA OutboundTypeNext ==
    ASSUME OutboundTypeOK, [Next]_vars PROVE OutboundTypeOK'
<1> USE TimesAssumption, NoneAssumption
<1>1. ASSUME NEW u \in Urls, Register(u) PROVE OutboundTypeOK'
  BY <1>1 DEF OutboundTypeOK, Register
<1>2. ASSUME Rotate \/ ReceiverUpdates \/ OverlapEnds PROVE OutboundTypeOK'
  <2>1. CASE Rotate
    BY <2>1 DEF OutboundTypeOK, Rotate
  <2>2. CASE ReceiverUpdates
    BY <2>2 DEF OutboundTypeOK, ReceiverUpdates
  <2>3. CASE OverlapEnds
    BY <2>3 DEF OutboundTypeOK, OverlapEnds
  <2> QED
    BY <1>2, <2>1, <2>2, <2>3
<1>3. ASSUME Claim PROVE OutboundTypeOK'
  <2>1. signers' \subseteq Nat
    <3>1. secret \in Nat /\ secret - 1 \in Nat
      BY DEF OutboundTypeOK
    <3> QED
      BY <1>3, <3>1 DEF OutboundTypeOK, Claim, activeSecrets
  <2> QED
    BY <1>3, <2>1 DEF OutboundTypeOK, Claim
<1>4. ASSUME ResolveAndPin PROVE OutboundTypeOK'
  BY <1>4, PinsChecked DEF OutboundTypeOK, ResolveAndPin
<1>5. ASSUME RejectAddress PROVE OutboundTypeOK'
  BY <1>5 DEF OutboundTypeOK, RejectAddress, finish
<1>6. ASSUME SendOutboundRequest PROVE OutboundTypeOK'
  BY <1>6 DEF OutboundTypeOK, SendOutboundRequest, pinnedLookup
<1>7. ASSUME Connect \/ SecureConnect PROVE OutboundTypeOK'
  BY <1>7 DEF OutboundTypeOK, Connect, SecureConnect, Connected
<1>8. ASSUME ConnectTimer \/ TotalTimer \/ RequestError PROVE OutboundTypeOK'
  BY <1>8 DEF OutboundTypeOK, ConnectTimer, TotalTimer, RequestError, finish
<1>9. ASSUME Response \/ ResponseEnds PROVE OutboundTypeOK'
  BY <1>9 DEF OutboundTypeOK, Response, ResponseEnds, finish
<1>10. ASSUME NEW n \in Chunks, Data(n) \/ DataOverflow(n) PROVE OutboundTypeOK'
  <2>1. n \in Nat /\ received \in Nat /\ MaxBody \in Nat
    BY DEF OutboundTypeOK
  <2>2. CASE Data(n)
    BY <2>1, <2>2 DEF OutboundTypeOK, Data
  <2>3. CASE DataOverflow(n)
    BY <2>1, <2>3 DEF OutboundTypeOK, DataOverflow, finish
  <2> QED
    BY <1>10, <2>2, <2>3
<1>11. ASSUME CompleteDelivery PROVE OutboundTypeOK'
  BY <1>11 DEF OutboundTypeOK, CompleteDelivery
<1>12. ASSUME Tick PROVE OutboundTypeOK'
  BY <1>12 DEF OutboundTypeOK, Tick
<1>13. CASE UNCHANGED vars
  BY <1>13 DEF OutboundTypeOK, vars
<1> QED
  BY <1>1, <1>2, <1>3, <1>4, <1>5, <1>6, <1>7, <1>8, <1>9, <1>10, <1>11, <1>12, <1>13
  DEF Next, Cycle, Network, Operators

(* Only resolveAndPin picks an address, and the socket is given that one.   *)
LEMMA PinnedNext ==
    ASSUME OutboundInvariant, [Next]_vars PROVE PinnedIsChecked'
<1>0. OutboundTypeOK /\ PinnedIsChecked
  BY DEF OutboundInvariant
<1>1. CASE UNCHANGED <<pinned, dialed>>
  BY <1>0, <1>1 DEF PinnedIsChecked
<1>2. ASSUME ResolveAndPin PROVE PinnedIsChecked'
  <2>1. checkAddress(pinned') /\ dialed' = dialed
    BY <1>0, <1>2, PinsChecked DEF ResolveAndPin
  <2> QED
    BY <1>0, <2>1 DEF PinnedIsChecked
<1>3. ASSUME SendOutboundRequest PROVE PinnedIsChecked'
  <2>1. pinned # None /\ dialed' = pinned /\ pinned' = pinned
    BY <1>0, <1>3 DEF SendOutboundRequest, pinnedLookup, OutboundTypeOK
  <2> QED
    BY <1>0, <2>1 DEF PinnedIsChecked
<1>4. ASSUME CompleteDelivery PROVE PinnedIsChecked'
  BY <1>4 DEF CompleteDelivery, PinnedIsChecked
<1>5. ASSUME Operators \/ Claim \/ Tick PROVE UNCHANGED <<pinned, dialed>>
  BY <1>5 DEF Operators, Register, Rotate, ReceiverUpdates, OverlapEnds, Claim, Tick
<1>6. ASSUME RejectAddress \/ ConnectTimer \/ TotalTimer PROVE UNCHANGED <<pinned, dialed>>
  BY <1>6 DEF RejectAddress, ConnectTimer, TotalTimer, finish
<1>7. ASSUME Network PROVE UNCHANGED <<pinned, dialed>>
  BY <1>7 DEF Network, Connect, SecureConnect, RequestError, Response, ResponseEnds, Data,
              DataOverflow, finish
<1> QED
  BY <1>1, <1>2, <1>3, <1>4, <1>5, <1>6, <1>7 DEF Next, Cycle, vars

(* "connect" clears the connect timer, for https only after the handshake.  *)
LEMMA TimerNext ==
    ASSUME OutboundInvariant, [Next]_vars PROVE TimerIsCleared'
<1>0. TimerIsCleared
  BY DEF OutboundInvariant
<1>1. CASE UNCHANGED <<phase, socket, connectAt>>
  BY <1>0, <1>1 DEF TimerIsCleared
<1>2. ASSUME Claim \/ ResolveAndPin \/ CompleteDelivery PROVE phase' # "wait"
  BY <1>2 DEF Claim, ResolveAndPin, CompleteDelivery
<1>3. ASSUME NEW outcome, finish(outcome) PROVE phase' # "wait"
  BY <1>3 DEF finish
<1>4. ASSUME RejectAddress \/ ConnectTimer \/ TotalTimer \/ RequestError \/ ResponseEnds
      PROVE  phase' # "wait"
  BY <1>3, <1>4 DEF RejectAddress, ConnectTimer, TotalTimer, RequestError, ResponseEnds
<1>5. ASSUME NEW n \in Chunks, Data(n) \/ DataOverflow(n) PROVE TimerIsCleared'
  BY <1>1, <1>3, <1>5 DEF Data, DataOverflow, TimerIsCleared
<1>6. ASSUME SendOutboundRequest PROVE TimerIsCleared'
  BY <1>6 DEF SendOutboundRequest, TimerIsCleared
<1>7. ASSUME Connect \/ SecureConnect PROVE TimerIsCleared'
  BY <1>7 DEF Connect, SecureConnect, Connected, TimerIsCleared
<1>8. ASSUME Operators \/ Response \/ Tick PROVE UNCHANGED <<phase, socket, connectAt>>
  BY <1>8 DEF Operators, Register, Rotate, ReceiverUpdates, OverlapEnds, Response, Tick
<1>9. phase' # "wait" => TimerIsCleared'
  BY DEF TimerIsCleared
<1> QED
  BY <1>1, <1>2, <1>4, <1>5, <1>6, <1>7, <1>8, <1>9 DEF Next, Cycle, Network, vars

(* connect_timeout comes from the connect timer and from nothing else.      *)
LEMMA ConnectNext ==
    ASSUME OutboundInvariant, [Next]_vars PROVE ConnectTimeoutIsConnect'
<1>0. TimerIsCleared /\ ConnectTimeoutIsConnect
  BY DEF OutboundInvariant
<1>1. CASE UNCHANGED <<phase, result, socket>>
  BY <1>0, <1>1 DEF ConnectTimeoutIsConnect
<1>2. ASSUME NEW status, NEW body, NEW error, finish(Outcome(status, body, error)),
             error = "connect_timeout" => socket # "connected"
      PROVE  ConnectTimeoutIsConnect'
  BY <1>2 DEF finish, Outcome, ConnectTimeoutIsConnect
<1>3. ASSUME ConnectTimer PROVE ConnectTimeoutIsConnect'
  BY <1>0, <1>2, <1>3 DEF ConnectTimer, TimerIsCleared
<1>4. ASSUME TotalTimer \/ RejectAddress PROVE ConnectTimeoutIsConnect'
  BY <1>2, <1>4 DEF TotalTimer, RejectAddress
<1>5. ASSUME RequestError PROVE ConnectTimeoutIsConnect'
  <2>1. PICK code \in SocketErrors : finish(Outcome(None, 0, classifyError(code)))
    BY <1>5 DEF RequestError
  <2>2. classifyError(code) # "connect_timeout"
    BY DEF classifyError
  <2> QED
    BY <1>2, <2>1, <2>2
<1>6. ASSUME ResponseEnds PROVE ConnectTimeoutIsConnect'
  BY <1>2, <1>6, NoneAssumption DEF ResponseEnds
<1>7. ASSUME NEW n \in Chunks, Data(n) \/ DataOverflow(n) PROVE ConnectTimeoutIsConnect'
  BY <1>1, <1>2, <1>7, NoneAssumption DEF Data, DataOverflow
<1>8. ASSUME \/ Claim \/ ResolveAndPin \/ SendOutboundRequest \/ CompleteDelivery \/ Tick
             \/ Connect \/ SecureConnect \/ Response
      PROVE  phase' # "settled" \/ UNCHANGED <<phase, result, socket>>
  BY <1>8 DEF Claim, ResolveAndPin, SendOutboundRequest, CompleteDelivery, Tick, Connect,
              SecureConnect, Response
<1>9. ASSUME Operators PROVE UNCHANGED <<phase, result, socket>>
  BY <1>9 DEF Operators, Register, Rotate, ReceiverUpdates, OverlapEnds
<1>10. phase' # "settled" => ConnectTimeoutIsConnect'
  BY DEF ConnectTimeoutIsConnect
<1> QED
  BY <1>1, <1>3, <1>4, <1>5, <1>6, <1>7, <1>8, <1>9, <1>10 DEF Next, Cycle, Network, vars

(* No tick passes a timer that is due.                                      *)
LEMMA WithinNext ==
    ASSUME OutboundInvariant, [Next]_vars PROVE WithinTimers'
<1>0. OutboundTypeOK /\ WithinTimers
  BY DEF OutboundInvariant
<1>1. MaxLookup \in Nat /\ TotalTimeout \in Nat /\ clock \in Nat
  BY <1>0, TimesAssumption DEF OutboundTypeOK
<1>2. CASE UNCHANGED <<phase, clock, totalAt>>
  BY <1>0, <1>2 DEF WithinTimers
<1>3. ASSUME Operators \/ Response \/ Connect \/ SecureConnect
      PROVE  UNCHANGED <<phase, clock, totalAt>>
  BY <1>3 DEF Operators, Register, Rotate, ReceiverUpdates, OverlapEnds, Response, Connect,
              SecureConnect, Connected
<1>4. ASSUME phase' = "settled", clock' = clock PROVE WithinTimers'
  BY <1>0, <1>4 DEF WithinTimers
<1>5. ASSUME \/ RejectAddress \/ ConnectTimer \/ TotalTimer \/ RequestError \/ ResponseEnds
      PROVE  WithinTimers'
  BY <1>4, <1>5 DEF RejectAddress, ConnectTimer, TotalTimer, RequestError, ResponseEnds, finish
<1>6. ASSUME NEW n \in Chunks, Data(n) \/ DataOverflow(n) PROVE WithinTimers'
  BY <1>2, <1>4, <1>6 DEF Data, DataOverflow, finish
<1>7. ASSUME Claim \/ CompleteDelivery PROVE WithinTimers'
  BY <1>1, <1>7 DEF Claim, CompleteDelivery, WithinTimers
<1>8. ASSUME ResolveAndPin PROVE WithinTimers'
  BY <1>0, <1>8 DEF ResolveAndPin, WithinTimers
<1>9. ASSUME SendOutboundRequest PROVE WithinTimers'
  <2>1. /\ clock <= MaxLookup /\ clock' = clock /\ phase' = "wait"
        /\ totalAt' = clock + TotalTimeout
    BY <1>0, <1>9 DEF SendOutboundRequest, WithinTimers
  <2> QED
    BY <1>1, <2>1, NoneAssumption DEF WithinTimers
<1>10. ASSUME Tick PROVE WithinTimers'
  <2>1. CASE phase = "resolve" /\ clock < MaxLookup
    BY <1>1, <1>10, <2>1 DEF Tick, WithinTimers
  <2>2. CASE phase = "wait" /\ ~Due(totalAt)
    <3>1. totalAt \in Nat /\ clock < totalAt /\ totalAt <= MaxLookup + TotalTimeout
      BY <1>0, <1>1, <2>2 DEF Due, OutboundTypeOK, WithinTimers
    <3>2. clock' = clock + 1 /\ UNCHANGED <<phase, totalAt>> /\ totalAt # None
      BY <1>0, <1>10, <2>2 DEF Tick, WithinTimers
    <3> QED
      BY <1>1, <2>2, <3>1, <3>2 DEF WithinTimers
  <2> QED
    BY <1>10, <2>1, <2>2 DEF Tick
<1> QED
  BY <1>2, <1>3, <1>5, <1>6, <1>7, <1>8, <1>9, <1>10 DEF Next, Cycle, Network, vars

(* A receiver is left behind only by a second rotation or a closed overlap. *)
LEMMA SignersNext ==
    ASSUME OutboundInvariant, [Next]_vars PROVE SignersCurrent'
<1>0. OutboundTypeOK /\ SignersCurrent
  BY DEF OutboundInvariant
<1>1. secret \in Nat \ {0} /\ receiver \in Nat /\ signers \subseteq Nat
  BY <1>0 DEF OutboundTypeOK
<1>2. ASSUME UNCHANGED <<secret, receiver, overlap, signers>>,
             phase' \in {"resolve", "send", "wait"} => phase \in {"resolve", "send", "wait"}
      PROVE  SignersCurrent'
  BY <1>0, <1>2 DEF SignersCurrent
<1>3. ASSUME NEW u \in Urls, Register(u) PROVE SignersCurrent'
  BY <1>2, <1>3 DEF Register
<1>4. ASSUME Rotate PROVE SignersCurrent'
  <2>1. secret' = secret + 1 /\ overlap' = "open" /\ UNCHANGED <<receiver, signers, phase>>
    BY <1>4 DEF Rotate
  <2>2. receiver < secret => receiver < secret' - 1
    BY <1>1, <2>1
  <2>3. receiver <= secret' /\ \A s \in signers : s <= secret'
    BY <1>0, <1>1, <2>1 DEF SignersCurrent
  <2>4. receiver < secret - 1 => receiver < secret
    BY <1>1
  <2> QED
    BY <1>0, <2>1, <2>2, <2>3, <2>4 DEF SignersCurrent
<1>5. ASSUME ReceiverUpdates PROVE SignersCurrent'
  <2>1. receiver' = secret /\ UNCHANGED <<secret, overlap, signers, phase>>
    BY <1>5 DEF ReceiverUpdates
  <2>2. secret \notin signers => \A s \in signers : s < secret
    BY <1>0, <1>1 DEF SignersCurrent
  <2>3. secret <= secret /\ \A s \in signers : s <= secret
    BY <1>0, <1>1 DEF SignersCurrent
  <2> QED
    BY <2>1, <2>2, <2>3 DEF SignersCurrent
<1>6. ASSUME OverlapEnds PROVE SignersCurrent'
  BY <1>0, <1>6 DEF OverlapEnds, SignersCurrent
<1>7. ASSUME Claim PROVE SignersCurrent'
  <2>1. signers' = activeSecrets /\ UNCHANGED <<secret, receiver, overlap>>
    BY <1>7 DEF Claim
  <2>2. receiver = secret \/ receiver = secret - 1 \/ receiver < secret - 1
    BY <1>0, <1>1 DEF SignersCurrent
  <2>3. \A s \in activeSecrets : s <= secret
    BY <1>1 DEF activeSecrets
  <2>4. secret \in activeSecrets /\ (overlap = "open" => secret - 1 \in activeSecrets)
    BY DEF activeSecrets
  <2>5. receiver = secret - 1 => receiver < secret
    BY <1>1
  <2>6. receiver <= secret
    BY <1>0 DEF SignersCurrent
  <2> QED
    BY <2>1, <2>2, <2>3, <2>4, <2>5, <2>6 DEF SignersCurrent
<1>8. ASSUME ResolveAndPin \/ SendOutboundRequest \/ Tick PROVE SignersCurrent'
  BY <1>2, <1>8 DEF ResolveAndPin, SendOutboundRequest, Tick
<1>9. ASSUME CompleteDelivery PROVE SignersCurrent'
  BY <1>0, <1>9 DEF CompleteDelivery, SignersCurrent
<1>10. ASSUME RejectAddress \/ ConnectTimer \/ TotalTimer PROVE SignersCurrent'
  BY <1>2, <1>10 DEF RejectAddress, ConnectTimer, TotalTimer, finish
<1>11. ASSUME Connect \/ SecureConnect \/ RequestError \/ Response \/ ResponseEnds
       PROVE  SignersCurrent'
  BY <1>2, <1>11 DEF Connect, SecureConnect, RequestError, Response, ResponseEnds, finish
<1>12. ASSUME NEW n \in Chunks, Data(n) \/ DataOverflow(n) PROVE SignersCurrent'
  BY <1>2, <1>12 DEF Data, DataOverflow, finish
<1>13. CASE UNCHANGED vars
  BY <1>2, <1>13 DEF vars
<1> QED
  BY <1>3, <1>4, <1>5, <1>6, <1>7, <1>8, <1>9, <1>10, <1>11, <1>12, <1>13
  DEF Next, Cycle, Network, Operators

-----------------------------------------------------------------------------
(* Before the first cycle nothing is pinned, dialed or signed.              *)
LEMMA OutboundInit == Init => OutboundInvariant
<1> SUFFICES ASSUME Init PROVE OutboundInvariant
  OBVIOUS
<1>1. OutboundTypeOK
  BY TimesAssumption DEF Init, OutboundTypeOK
<1>2. PinnedIsChecked /\ TimerIsCleared /\ ConnectTimeoutIsConnect
  BY DEF Init, PinnedIsChecked, TimerIsCleared, ConnectTimeoutIsConnect
<1>3. WithinTimers
  BY TimesAssumption DEF Init, WithinTimers
<1>4. SignersCurrent
  BY DEF Init, SignersCurrent
<1> QED
  BY <1>1, <1>2, <1>3, <1>4 DEF OutboundInvariant

(* Every step of the cycle, the network and the operators keeps all of it.  *)
LEMMA OutboundNext == OutboundInvariant /\ [Next]_vars => OutboundInvariant'
  BY OutboundTypeNext, PinnedNext, TimerNext, ConnectNext, WithinNext, SignersNext
  DEF OutboundInvariant

-----------------------------------------------------------------------------
(* The inductive invariant: what the pin, the timers, the clock and the     *)
(* claim's secrets have to do with one another.                             *)
THEOREM OutboundCorrect == Spec => []OutboundInvariant
<1> QED
  BY OutboundInit, OutboundNext, PTL DEF Spec

(* resolveAndPin and pinnedLookup: for every URL and every answer of the    *)
(* resolver, no socket is connected to an address of a reserved block.      *)
THEOREM DialedIsPublicCorrect == Spec => []DialedIsPublic
<1>1. OutboundInvariant => DialedIsPublic
  <2> SUFFICES ASSUME OutboundInvariant, dialed # None PROVE ~Reserved(dialed)
    BY DEF DialedIsPublic
  <2>1. dialed \in Address /\ checkAddress(dialed)
    BY DEF OutboundInvariant, OutboundTypeOK, PinnedIsChecked
  <2> QED
    BY <2>1, CheckedIsPublic
<1> QED
  BY <1>1, OutboundCorrect, PTL

(* sendOutboundRequest: connect_timeout is never reported of a connection   *)
(* that was established, for any timeouts and any order of its events.      *)
THEOREM ConnectTimeoutIsConnectCorrect == Spec => []ConnectTimeoutIsConnect
<1>1. OutboundInvariant => ConnectTimeoutIsConnect
  BY DEF OutboundInvariant
<1> QED
  BY <1>1, OutboundCorrect, PTL

(* config.ts's lease outlasts every call, for any timeouts, if a lookup     *)
(* takes no longer than the slack max(timeout, floor) it leaves.            *)
THEOREM WithinLeaseCorrect ==
    ASSUME MaxLookup <= TotalTimeout \/ MaxLookup <= LeaseFloor
    PROVE  Spec => []WithinLease
<1>1. OutboundInvariant => WithinLease
  <2> SUFFICES ASSUME OutboundInvariant PROVE WithinLease
    OBVIOUS
  <2>1. clock \in Nat /\ clock <= MaxLookup + TotalTimeout
    BY DEF OutboundInvariant, OutboundTypeOK, WithinTimers
  <2>2. {MaxLookup, TotalTimeout, LeaseFloor} \subseteq Nat
    BY TimesAssumption
  <2>3. leaseDuration \in Nat /\ MaxLookup + TotalTimeout <= leaseDuration
    BY <2>2 DEF leaseDuration
  <2> QED
    BY <2>1, <2>2, <2>3 DEF WithinLease
<1> QED
  BY <1>1, OutboundCorrect, PTL

(* signPayload: during an overlap a receiver on either secret verifies the  *)
(* call, however the rotations, its updates and the calls interleave.       *)
THEOREM HolderVerifiesCorrect == Spec => []HolderVerifies
<1>1. OutboundInvariant => HolderVerifies
  <2>1. receiver \in signers => [hmac |-> receiver] \in signPayload(signers)
    BY DEF signPayload
  <2> QED
    BY <2>1 DEF OutboundInvariant, SignersCurrent, HolderVerifies
<1> QED
  BY <1>1, OutboundCorrect, PTL

=============================================================================
