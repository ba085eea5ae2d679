------------------------------- MODULE MCProxy -------------------------------
(* Two hosts, addresses of two bits and bodies of up to seven bytes.       *)
EXTENDS Proxy

MCAddress(f, n) == [family |-> f, bits |-> n]
(* The lower half of IPv4 and one IPv6 address are private.                *)
MCPrivateBlocks ==
  {[family |-> "v4", base |-> 0, prefix |-> 1], [family |-> "v6", base |-> 3, prefix |-> 2]}
MCEnv(mode, exact, cidrs) == [mode |-> mode, hosts |-> {"h1"}, exact |-> exact, cidrs |-> cidrs]
MCCidr(n, p) == [base |-> n, prefix |-> p]
MCEnvs ==
  {MCEnv("disabled", {}, {}), MCEnv("allowlist", {}, {}), MCEnv("unset", {MCAddress("v4", 0)}, {}),
   MCEnv("unset", {}, {MCCidr(1, 2), MCCidr(2, 3)}), MCEnv("unset", {}, {MCCidr(3, 0)})}
MCUrl(s, h) == [scheme |-> s, host |-> h]
MCRequests ==
  {r \in RequestType :
     /\ r.url \in {None, Malformed, MCUrl("http", "h1"), MCUrl("https", "h2"), MCUrl("ftp", "h1")}
     /\ r.headers \in {{"accept", "host"}, {"authorization", "accept", "content-length"}}
     /\ r.body \in {"none", "broken"}
     /\ r.method \in {None, "HEAD", "POST"}}
MCLocations == {MCUrl("http", "h1"), MCUrl("https", "h2"), MCUrl("ftp", "h1")}
MCLookups ==
  {{}, {MCAddress("v4", 3)}, {MCAddress("v4", 3), MCAddress("v4", 0)}, {MCAddress("v4", 1)},
   {MCAddress("mapped", 1)}, {MCAddress("v6", 3)}}
MCChunks == {<<>>, <<1>>, <<1, 2, 3, 4>>}

=============================================================================
