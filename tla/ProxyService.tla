---------------------------- MODULE ProxyService ----------------------------
(***************************************************************************)
(* What POST /api/proxy promises its caller: one answer, which is an error *)
(* or the encoding of everything the upstream sent, after a bounded number *)
(* of upstream requests and within the cap on the size of a response.      *)
(***************************************************************************)
EXTENDS Base64

CONSTANTS
  Chunks,        \* pieces in which a body can arrive
  Codes,         \* status codes of upstream responses
  None,          \* no answer yet, no upstream status
  MaxExchanges,  \* upstream requests for one request
  MaxResponse    \* MAX_RESPONSE_BYTES

VARIABLES
  exchanges,  \* upstream requests made so far
  relayed,    \* bytes of the body accepted so far
  answer      \* the answer, None until it is given

vars == <<exchanges, relayed, answer>>

Error(status) == [status |-> status, upstream |-> None, body |-> <<>>]
Errors == {Error(status) : status \in {"400", "403", "502"}}
Success(code, body) == [status |-> "200", upstream |-> code, body |-> body]

Init == exchanges = 0 /\ relayed = <<>> /\ answer = None

(* An upstream request, which may fail.                                    *)
Exchange ==
  /\ answer = None
  /\ relayed = <<>>
  /\ exchanges < MaxExchanges
  /\ exchanges' = exchanges + 1
  /\ answer' \in Errors \cup {None}
  /\ UNCHANGED relayed

Relay(c) ==
  /\ answer = None
  /\ exchanges > 0
  /\ Len(relayed) + Len(c) <= MaxResponse
  /\ relayed' = relayed \o c
  /\ UNCHANGED <<exchanges, answer>>

Complete ==
  /\ answer = None
  /\ exchanges > 0
  /\ \E code \in Codes : answer' = Success(code, Encode(relayed))
  /\ UNCHANGED <<exchanges, relayed>>

Refuse ==
  /\ answer = None
  /\ answer' \in Errors
  /\ UNCHANGED <<exchanges, relayed>>

Next == Exchange \/ (\E c \in Chunks : Relay(c)) \/ Complete \/ Refuse

Spec == Init /\ [][Next]_vars

=============================================================================
