--------------------------- MODULE MCClientConfig ---------------------------
(***************************************************************************)
(* ClientConfig for TLC: two current tokens, one with a TLS name of its    *)
(* own, a legacy token, and one that is not a token.                       *)
(***************************************************************************)
EXTENDS ClientConfig, TLC

CONSTANTS p1, p2, p3, relay, tlsname, domain, spaced

Plain   == [addr |-> relay, port |-> 7000, domain |-> domain, tls |-> Empty]
WithTLS == [Plain EXCEPT !.tls = tlsname]

\* What the relay issues, if it agrees to.
Issued == {NewToken(i) : i \in {j \in {Plain, WithTLS, [Plain EXCEPT !.addr = spaced]} : Issuable(j)}}

SomeTokens == Issued \cup
  {[version |-> "kt1", server |-> Plain, secret |-> TRUE],
   [version |-> "kt2", server |-> Plain, secret |-> TRUE]}

Ports == {0, 7000, 65536}

Slots == Permutations(Process)
=============================================================================
