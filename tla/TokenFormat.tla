----------------------------- MODULE TokenFormat -----------------------------
(***************************************************************************)
(* The personal token: what NewToken puts into it and what ParseToken      *)
(* takes out (internal/store/token.go).  A token is its version, its       *)
(* server part and whether 32 bytes of secret decode from the rest; names  *)
(* are values of which it matters whether they are empty, free of          *)
(* separators and white space, or TLS names.                               *)
(***************************************************************************)
EXTENDS Naturals

CONSTANTS
  Name,      \* addresses, domains and TLS names, as typed
  Empty,     \* the empty name
  Clean,     \* the names without separators and white space
  TLSName,   \* the names validTLSName accepts
  Port       \* port numbers, as typed

ASSUME NameAssumption ==
  /\ Empty \in Clean
  /\ Clean \subseteq Name
  /\ TLSName \subseteq Clean \ {Empty}
  /\ Port \subseteq Nat

\* ServerInfo; version is empty until a token says which.
Server == [addr : Name, port : Port, domain : Name, tls : Name]

\* What is between the dots, and what the parsers find there.
Token == [version : {"kt1", "kt2", "other"}, server : Server, secret : BOOLEAN]

-----------------------------------------------------------------------------
validateServerInfo(i) ==
  /\ i.addr \in Clean \ {Empty}
  /\ i.domain \in Clean \ {Empty}
  /\ i.port >= 1 /\ i.port <= 65535
  /\ i.tls \in TLSName \cup {Empty}

\* encodeV2: the address is the TLS name unless another one is given.
Defaulted(i) == IF i.tls = Empty THEN [i EXCEPT !.tls = i.addr] ELSE i

\* NewToken refuses what encodeV2 refuses.
Issuable(i) == validateServerInfo(Defaulted(i))

NewToken(i) == [version |-> "kt2", server |-> Defaulted(i), secret |-> TRUE]

\* A slip of ParseToken: no TLS name is as good as one.
ParsesWithoutName(t) ==
  /\ t.secret
  /\ t.version \in {"kt1", "kt2"}
  /\ validateServerInfo(t.server)

\* parseV2Server insists on a TLS name; parseV1Server knows none.
Parses(t) ==
  /\ t.secret
  /\ \/ t.version = "kt2" /\ t.server.tls # Empty
     \/ t.version = "kt1" /\ t.server.tls = Empty
  /\ validateServerInfo(t.server)
=============================================================================
