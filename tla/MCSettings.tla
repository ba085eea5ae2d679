----------------------------- MODULE MCSettings -----------------------------
(* A few bodies and environments for TLC.                                  *)
EXTENDS Settings, TLC

MCCandidates ==
  [proxyMode        |-> {"disabled", "bogus"},
   writeCoalesceMs  |-> {7, -1},
   maxBodyBytes     |-> {0, MAX_BODY_BACKSTOP, MAX_BODY_BACKSTOP + 1},
   directFetchHosts |-> {<<"host", "padded">>, <<"host", "blank">>},
   wsOrigins        |-> {<<"x">>}]

(* Bodies with at most two keys.                                           *)
MCBodies ==
  UNION {{(k :> v) @@ (l :> w) : v \in MCCandidates[k], w \in MCCandidates[l]} :
           k \in Keys, l \in Keys}
MCEnvironments ==
  {[writeCoalesceMs |-> c, wsOrigins |-> o] : c \in {None, 3}, o \in {<<>>, <<"o">>}}
MCSymmetry == Permutations(Requests)

=============================================================================
