-------------------------------- MODULE Proxy --------------------------------
(***************************************************************************)
(* The outbound proxy (server/src/proxy_routes.rs): one POST /api/proxy    *)
(* from its checks through the redirect loop to the end of the streamed    *)
(* body.  Handlers of different requests share nothing but the             *)
(* configuration, so one request is the whole system.  The name server and *)
(* the upstream servers are the environment: a lookup of the same host may *)
(* give other addresses every time, a response may be anything, and both   *)
(* may fail.                                                               *)
(*                                                                         *)
(* A URL is its origin (scheme and host): paths make no difference.  An    *)
(* address has AddrBits bits where the code has 32 or 128.                 *)
(***************************************************************************)
EXTENDS Base64

CONSTANTS
  Hosts,          \* host names
  AddrBits,       \* width of an address
  PrivateBlocks,  \* the blocks of addresses is_private_ip names
  Envs,           \* environments the server is started with
  Requests,       \* bodies of POST /api/proxy
  Locations,      \* URLs that upstream servers redirect to
  Lookups,        \* sets of addresses the name server answers with
  Bytes,
  Chunks,         \* pieces in which an upstream body can arrive
  MaxRedirects,   \* MAX_REDIRECTS
  MaxResponse,    \* MAX_RESPONSE_BYTES
  Malformed,      \* a url that does not parse
  None            \* no value

(* Powers of two up to the width of an address.                            *)
Pow2[n \in 0..AddrBits] == IF n = 0 THEN 1 ELSE 2 * Pow2[n - 1]

(* "mapped" is an IPv4 address inside an IPv6 one.                         *)
Numbers == 0 .. Pow2[AddrBits] - 1
Addresses == [family : {"v4", "v6", "mapped"}, bits : Numbers]
Blocks == [family : {"v4", "v6"}, base : Numbers, prefix : 0..AddrBits]

Web == {"http", "https"}
Urls == [scheme : Web \cup {"ftp"}, host : Hosts]
Methods == {"GET", "HEAD", "POST"}
Credentials == {"authorization", "cookie"}
HeaderNames == Credentials \cup {"accept", "host", "content-length"}
Redirections == {301, 302, 303, 307}  \* 307 stands for every other 3xx
Codes == Redirections \cup {200}

(* PROXY_MODE, PROXY_ALLOWLIST and the entries of PROXY_ALLOW_PRIVATE_HOSTS *)
EnvType ==
  [mode : {"disabled", "allowlist", "unset"}, hosts : SUBSET Hosts, exact : SUBSET Addresses,
   cidrs : SUBSET [base : Numbers, prefix : Nat]]
RequestType ==
  [url : Urls \cup {None, Malformed}, method : Methods \cup {None},
   headers : SUBSET HeaderNames, body : {"none", "text", "base64", "broken"}]
Answers ==
  [status : {"200", "400", "403", "502"}, upstream : Codes \cup {None}, body : Seq(Seq(Bytes))]

ASSUME BoundsAssumption == {AddrBits, MaxRedirects, MaxResponse} \subseteq Nat
ASSUME InputsAssumption ==
  /\ PrivateBlocks \subseteq Blocks /\ Lookups \subseteq SUBSET Addresses
  /\ Envs \subseteq EnvType /\ Requests \subseteq RequestType
  /\ Locations \subseteq Urls /\ Chunks \subseteq Seq(Bytes)
ASSUME NoneAssumption ==
  /\ None \notin Urls \cup Methods \cup {Malformed, "400", "403"}
  /\ None \notin [url : Urls, addrs : Lookups] /\ None \notin Answers
  /\ Malformed \notin Urls

VARIABLES
  env,       \* what the server was started with
  cfg,       \* ProxyConfig
  request,   \* the request, None until it has arrived
  pc,        \* next step of the handler
  current,   \* URL of the next upstream request
  method,    \* method, headers and redirects followed so far
  headers,
  hops,
  vetted,    \* the check before the next send: of which URL, what it resolved to
  reply,     \* status and location of the response that is streamed
  total,     \* bytes of the body counted so far
  carry,     \* bytes read and not encoded yet
  b64,       \* the body encoded so far
  answer,    \* what the caller gets, None until then
  sends,     \* history: upstream requests made
  visited,   \* history: origins they went to
  received   \* history: bytes of the body accepted

hopVars == <<current, method, headers, hops>>
bodyVars == <<total, carry, b64, received>>
historyVars == <<sends, visited>>
vars == <<env, cfg, request, pc, hopVars, vetted, reply, bodyVars, answer, historyVars>>

-----------------------------------------------------------------------------
(* ProxyConfig.                                                            *)

(* Mutant: the shift by the whole width that p == 0 is there to avoid; in  *)
(* a release build it shifts by nothing.                                   *)
MaskShifted(p) == ((Pow2[AddrBits] - 1) * Pow2[(AddrBits - p) % AddrBits]) % Pow2[AddrBits]

Mask(p) ==
  IF p = 0 THEN 0 ELSE ((Pow2[AddrBits] - 1) * Pow2[AddrBits - p]) % Pow2[AddrBits]

(* v & mask, for a mask of leading ones.                                   *)
And(v, mask) == v - (v % (Pow2[AddrBits] - mask))

FromEnv(e) ==
  [mode  |-> IF e.mode = "unset" THEN "any" ELSE e.mode,
   hosts |-> e.hosts,
   exact |-> e.exact,
   cidrs |-> {[network |-> And(c.base, Mask(c.prefix)), mask |-> Mask(c.prefix)] :
                c \in {c \in e.cidrs : c.prefix <= AddrBits}}]

AllowlistedAddr(c, ip) ==
  \/ ip \in c.exact
  \/ ip.family = "v4" /\ \E b \in c.cidrs : And(ip.bits, b.mask) = b.network

IsPrivateIp(ip) ==
  \E b \in PrivateBlocks :
    /\ b.family = IF ip.family = "v6" THEN "v6" ELSE "v4"
    /\ And(ip.bits, Mask(b.prefix)) = And(b.base, Mask(b.prefix))

AddrAllowed(c, ip) == ~IsPrivateIp(ip) \/ AllowlistedAddr(c, ip)

-----------------------------------------------------------------------------
Error(status) == [status |-> status, upstream |-> None, body |-> <<>>]
Success(code, body) == [status |-> "200", upstream |-> code, body |-> body]

Respond(a) == pc' = "done" /\ answer' = a
Goto(step) == pc' = step /\ UNCHANGED answer

Init ==
  /\ env \in Envs /\ cfg = FromEnv(env)
  /\ request = None /\ pc = "idle" /\ answer = None
  /\ current = None /\ method = "GET" /\ headers = {} /\ hops = 0
  /\ vetted = None /\ reply = None
  /\ total = 0 /\ carry = <<>> /\ b64 = <<>>
  /\ sends = 0 /\ visited = {} /\ received = <<>>

(* proxy_handler's checks, in their order: the status of the first that    *)
(* fails, or None.  The allow list looks at the host of the request only.  *)
Rejection(r) ==
  IF cfg.mode = "disabled" THEN "403"
  ELSE IF r.url \in {None, Malformed} THEN "400"
  ELSE IF r.url.scheme \notin Web THEN "400"
  ELSE IF cfg.mode = "allowlist" /\ r.url.host \notin cfg.hosts THEN "403"
  ELSE IF r.body = "broken" THEN "400"
  ELSE None

(* Mutant: host and content-length are passed on.                          *)
ForwardedAll(names) == names

(* The caller's headers but for the two the client sets itself.            *)
Forwarded(names) == names \ {"host", "content-length"}

(* Building the client may fail.                                           *)
Accept(r) ==
  /\ pc = "idle"
  /\ request' = r
  /\ \/ /\ Rejection(r) # None
        /\ Respond(Error(Rejection(r)))
        /\ UNCHANGED hopVars
     \/ /\ Rejection(r) = None
        /\ current' = r.url
        /\ method' = IF r.method = None THEN "GET" ELSE r.method
        /\ headers' = Forwarded(r.headers)
        /\ hops' = 0
        /\ Goto("resolve") \/ Respond(Error("502"))
  /\ UNCHANGED <<env, cfg, vetted, reply, bodyVars, historyVars>>

(* addr_ok: every address the host resolves to now must be allowed.        *)
Resolve(addrs) ==
  /\ pc = "resolve"
  /\ vetted' = [url |-> current, addrs |-> addrs]
  /\ \/ (\E ip \in addrs : ~AddrAllowed(cfg, ip)) /\ Respond(Error("403"))
     \/ addrs = {} /\ Respond(Error("502"))
     \/ addrs # {} /\ (\A ip \in addrs : AddrAllowed(cfg, ip)) /\ Goto("send")
  /\ UNCHANGED <<env, cfg, request, hopVars, reply, bodyVars, historyVars>>

LookupFails ==
  /\ pc = "resolve"
  /\ Respond(Error("502"))
  /\ UNCHANGED <<env, cfg, request, hopVars, vetted, reply, bodyVars, historyVars>>

(* Mutant: the last hop is not used.                                       *)
FollowedOneLess(code, location) ==
  /\ code \in Redirections
  /\ hops + 1 < MaxRedirects
  /\ location # None
  /\ location.scheme \in Web

(* A redirect is followed if it names a URL (location None: no header, or  *)
(* one that does not parse) and hops are left; otherwise it is the answer. *)
Followed(code, location) ==
  /\ code \in Redirections
  /\ hops < MaxRedirects
  /\ location # None
  /\ location.scheme \in Web

(* Mutant: only the first redirect is looked at.                           *)
RedirectStripsAtFirst(code, next) ==
  /\ headers' = IF next # request.url /\ hops = 0 THEN headers \ Credentials ELSE headers
  /\ method' = IF code = 303 \/ (code \in {301, 302} /\ method # "HEAD") THEN "GET" ELSE method
  /\ current' = next
  /\ hops' = hops + 1
  /\ Goto("resolve")

(* Mutant: the target of a redirect is not checked again.                  *)
RedirectUnchecked(code, next) ==
  /\ headers' = IF next # request.url THEN headers \ Credentials ELSE headers
  /\ method' = IF code = 303 \/ (code \in {301, 302} /\ method # "HEAD") THEN "GET" ELSE method
  /\ current' = next
  /\ hops' = hops + 1
  /\ Goto("send")

Redirect(code, next) ==
  /\ headers' = IF next # request.url THEN headers \ Credentials ELSE headers
  /\ method' = IF code = 303 \/ (code \in {301, 302} /\ method # "HEAD") THEN "GET" ELSE method
  /\ current' = next
  /\ hops' = hops + 1
  /\ Goto("resolve")

Contact == sends' = sends + 1 /\ visited' = visited \cup {current} /\ vetted' = None

Send(code, location) ==
  /\ pc = "send"
  /\ Contact
  /\ IF Followed(code, location)
     THEN Redirect(code, location) /\ UNCHANGED reply
     ELSE /\ reply' = [code |-> code, location |-> location]
          /\ Goto("stream") /\ UNCHANGED hopVars
  /\ UNCHANGED <<env, cfg, request, bodyVars>>

SendFails ==
  /\ pc = "send"
  /\ Contact
  /\ Respond(Error("502"))
  /\ UNCHANGED <<env, cfg, request, hopVars, reply, bodyVars>>

(* Mutant: what does not fill a group is encoded at once.                  *)
KeepNothing(held) == b64' = b64 \o Encode(held) /\ carry' = <<>>

(* The whole groups of the bytes held are encoded, at most two are kept.   *)
EncodeWhole(held) ==
  /\ b64' = b64 \o Encode(SubSeq(held, 1, Whole(held)))
  /\ carry' = SubSeq(held, Whole(held) + 1, Len(held))

(* One item of the body stream: a chunk, or an error.                      *)
Chunk(c) ==
  /\ pc = "stream"
  /\ total' = total + Len(c)
  /\ \/ /\ total' > MaxResponse
        /\ Respond(Error("502"))
        /\ UNCHANGED <<carry, b64, received>>
     \/ /\ total' <= MaxResponse
        /\ EncodeWhole(carry \o c)
        /\ received' = received \o c
        /\ UNCHANGED <<pc, answer>>
  /\ UNCHANGED <<env, cfg, request, hopVars, vetted, reply, historyVars>>

BodyFails ==
  /\ pc = "stream"
  /\ Respond(Error("502"))
  /\ UNCHANGED <<env, cfg, request, hopVars, vetted, reply, bodyVars, historyVars>>

(* Mutant: the last bytes are forgotten.                                   *)
EndWithoutCarry ==
  /\ pc = "stream"
  /\ Respond(Success(reply.code, b64))
  /\ UNCHANGED <<env, cfg, request, hopVars, vetted, reply, bodyVars, historyVars>>

End ==
  /\ pc = "stream"
  /\ Respond(Success(reply.code, IF carry # <<>> THEN b64 \o Encode(carry) ELSE b64))
  /\ UNCHANGED <<env, cfg, request, hopVars, vetted, reply, bodyVars, historyVars>>

Next ==
  \/ \E r \in Requests : Accept(r)
  \/ \E addrs \in Lookups : Resolve(addrs)
  \/ LookupFails
  \/ \E code \in Codes, location \in Locations \cup {None} : Send(code, location)
  \/ SendFails
  \/ \E c \in Chunks : Chunk(c)
  \/ BodyFails
  \/ End

Spec == Init /\ [][Next]_vars

-----------------------------------------------------------------------------
TypeOK ==
  /\ env \in Envs /\ cfg = FromEnv(env)
  /\ request \in Requests \cup {None}
  /\ pc \in {"idle", "resolve", "send", "stream", "done"}
  /\ current \in Urls \cup {None}
  /\ method \in Methods
  /\ headers \subseteq Credentials \cup {"accept"}
  /\ hops \in 0..MaxRedirects
  /\ vetted \in [url : Urls, addrs : Lookups] \cup {None}
  /\ reply \in [code : Codes, location : Urls \cup {None}] \cup {None}
  /\ total \in Nat
  /\ carry \in Seq(Bytes) /\ received \in Seq(Bytes)
  /\ b64 \in Seq(Seq(Bytes))
  /\ answer \in Answers \cup {None}
  /\ sends \in Nat
  /\ visited \subseteq Urls

(* "Authorization/Cookie stripped on cross-origin redirect": credentials   *)
(* that are still to be sent have only ever been sent to the origin the    *)
(* caller named, and go nowhere else, however the redirects wander and     *)
(* also when they come back.                                               *)
CredentialsStayHome ==
  headers \cap Credentials # {} => visited \cup {current} \subseteq {request.url}

(* What the operator's list means: a public address, one of the listed     *)
(* ones, or an IPv4 address whose leading bits are those of an entry.      *)
LeadingBits(v, p) == v \div Pow2[AddrBits - p]
SameBlock(v, base, p) == LeadingBits(v, p) = LeadingBits(base, p)
Permitted(ip) ==
  \/ \A b \in PrivateBlocks : b.family = (IF ip.family = "v6" THEN "v6" ELSE "v4")
                                => ~SameBlock(ip.bits, b.base, b.prefix)
  \/ ip \in env.exact
  \/ ip.family = "v4"
     /\ \E e \in env.cidrs : e.prefix <= AddrBits /\ SameBlock(ip.bits, e.base, e.prefix)

(* "re-check at every redirect hop": an upstream request is made to the    *)
(* URL that was checked for this very hop, and all the addresses that the  *)
(* check was given are ones the operator permits; it is refused for its    *)
(* addresses only if one is not.  The model ends at the check: the client  *)
(* resolves the name once more when it connects, and what it is told then  *)
(* is not part of it.                                                      *)
AddressesAreVetted ==
  LET ok == \A ip \in vetted.addrs : Permitted(ip) IN
  /\ pc = "send" => vetted # None /\ vetted.url = current /\ ok
  /\ (vetted # None /\ answer = Error("403")) => ~ok

(* MAX_REDIRECTS: at most one upstream request more than redirects, one    *)
(* per hop; a redirect that could be followed reaches the caller only when *)
(* the hops are used up.                                                   *)
RedirectsAreBounded ==
  /\ pc \in {"resolve", "send"} => sends = hops
  /\ sends <= MaxRedirects + 1
  /\ (pc = "stream" /\ reply.code \in Redirections /\ reply.location # None
        /\ reply.location.scheme \in Web) => sends = MaxRedirects + 1

(* "never hold the full raw body — only a 0-2 byte carry + the growing     *)
(* base64": what is encoded and what is carried is the encoding of what    *)
(* was received, wherever the chunks were cut, and the cap holds.          *)
EncodedSoFar ==
  /\ Len(carry) <= 2
  /\ b64 \o Encode(carry) = Encode(received)
  /\ Len(received) <= MaxResponse

Service == INSTANCE ProxyService WITH
  MaxExchanges <- MaxRedirects + 1, exchanges <- sends, relayed <- received

(* The handler keeps the promise of ProxyService.                          *)
ImplementsService == Service!Spec

=============================================================================
