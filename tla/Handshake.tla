------------------------------ MODULE Handshake ------------------------------
(***************************************************************************)
(* What a client and the server say before the command loop: the startup   *)
(* packet, and the exchange of the authentication plugin.  Every message   *)
(* is read in two steps, its header with the length the peer claims, and   *)
(* then the payload that the length makes the server wait for.             *)
(*                                                                         *)
(* Hashes are symbolic: a response is the password and what it was mixed   *)
(* with, the salt of the exchange and, in SCRAM, the client's first        *)
(* message.  Salts are numbered; those of earlier exchanges are 0.         *)
(***************************************************************************)
EXTENDS Integers

CONSTANTS
  Passwords,          \* passwords, one of them Empty
  Empty,
  NoPassword,         \* get_password() returned None
  Plugins,            \* a subset of {"trust", "cleartext", "md5", "scram"}
  MaxStartup,         \* MAX_STARTUP_PACKET_LENGTH
  MaxMessage,         \* PgServer.max_message_size
  Lengths,            \* the values of length fields that occur
  Garbled,            \* a payload whose bytes are no text, or that ends too soon
  Malformed,          \* a text that no SCRAM message looks like
  NoFrame

VARIABLES
  plugin, expected,   \* what the server is configured with, for this user
  password,           \* what the client knows
  at,                 \* the read the server is at, or how the handshake ended
  frame,              \* the message whose payload is awaited, or that led to this read
  awaited,            \* bytes of payload the server waits for
  bare,               \* client-first-bare, as the SCRAM server will verify it
  honest              \* history: the client did what its library would do

config == << plugin, expected, password >>
exchange == << config, at, frame, awaited, bare, honest >>

Reads == {"first_packet", "second_packet"}
AuthReads == {"password", "sasl_first", "sasl_final"}

HandshakeInit ==
  /\ plugin \in Plugins /\ expected \in Passwords \cup {NoPassword} /\ password \in Passwords
  /\ at = "first_packet" /\ frame = NoFrame /\ awaited = 0
  /\ bare = NoFrame /\ honest = TRUE
-----------------------------------------------------------------------------
\* The salt of this exchange: os.urandom().
Salt == 1

\* Messages of the client.
Packets == [tag : {"ssl", "gss", "cancel", "3.0", "3.2", "2.0"}, length : Lengths, body : {"params", Garbled}]
Response(p, s, first) == [password |-> p, salt |-> s, over |-> first]
First(name) == [name |-> name]

\* Bytes that are no text, and text that no message looks like, are no message.
ASSUME HandshakeAssumption ==
  /\ Plugins \subseteq {"trust", "cleartext", "md5", "scram"}
  /\ Empty \in Passwords /\ NoPassword \notin Passwords
  /\ MaxStartup \in Nat /\ MaxMessage \in Nat /\ Lengths \subseteq Int
  /\ Malformed \notin {First(""), First("user")}
  /\ \A p \in Passwords, first \in {NoFrame, First(""), First("user")} :
       Response(p, Salt, first) \notin {Garbled, Malformed}

Proofs(first) == {Response(p, s, first) : p \in {password, expected, Empty} \ {NoPassword}, s \in {0, Salt}}
Bodies ==
  CASE at = "password" -> Proofs(NoFrame)
    [] at = "sasl_first" -> {First(""), First("user")}
    [] at = "sasl_final" -> Proofs(frame.body) \cup {Response(password, Salt, First("other"))}
    [] OTHER -> {}
Messages == IF at \in Reads THEN Packets
            ELSE [tag : {"p", "other"}, length : Lengths, body : Bodies \cup {Malformed, Garbled}]

\* What the client's own library sends next, if it can be read in full.  A client
\* that does not know the password can still try the empty one, and repeat what
\* it saw of an exchange with an older salt; a password sent in the clear it
\* cannot have seen.
Honest(f) ==
  /\ honest
  /\ at \in Reads => f.tag \in {"ssl", "gss", "3.0", "3.2"} /\ (at = "second_packet" => f.tag \in {"3.0", "3.2"})
  /\ at \in AuthReads => f.tag = "p" /\ f.length > 4
  /\ at = "password" => f.body = Response(password, Salt, NoFrame)
  /\ at = "sasl_first" => f.body \in {First(""), First("user")}
  /\ at = "sasl_final" => f.body = Response(password, Salt, frame.body)
CanSend(f) ==
  at \in {"password", "sasl_final"} /\ f.body \notin {Garbled, Malformed} =>
    f.body.password \in {password, Empty} \/ (plugin # "cleartext" /\ f.body.salt = 0)
-----------------------------------------------------------------------------
\* PgStream._check_length
\* Mutant: the lower bound is not checked.
CheckLengthMaximum(length, minimum, maximum) == length <= maximum
CheckLength(length, minimum, maximum) == minimum <= length /\ length <= maximum

HeaderSize == IF at \in Reads THEN 8 ELSE 4
Limit == IF at \in Reads /\ MaxStartup < MaxMessage THEN MaxStartup ELSE MaxMessage

\* The handshake is over, or goes on with the next read.
Ends(how) == at' = how /\ UNCHANGED bare

\* _negotiate_startup, with a whole packet.  An encryption request is declined
\* once; a cancel request may be too short to hold a key; an older major version,
\* and a second encryption request, are FATAL.  A newer minor version is told
\* what it gets, and served.
Negotiate(f, empty) ==
  \/ at = "first_packet" /\ f.tag \in {"ssl", "gss"} /\ Ends("second_packet")
  \/ f.tag = "cancel" /\ Ends(IF f.length < 16 THEN "crashed" ELSE "cancel_request")
  \/ /\ f.tag = "2.0" \/ (at = "second_packet" /\ f.tag \in {"ssl", "gss"})
     /\ Ends("fatal")
  \/ /\ f.tag \in {"3.0", "3.2"}
     /\ Ends(IF ~empty /\ f.body = Garbled THEN "crashed" ELSE "negotiated")

\* The password to check: a user without one may be anybody, but in SCRAM is
\* taken for one whose password is empty.  The comment there says that such a
\* user is to "fail closed": UnknownUsersFailClosed, below, is that sentence.
Unchecked == expected = NoPassword
ScramExpected == IF expected = NoPassword THEN Empty ELSE expected

\* ScramServer of scramp: a first message must have a user name, and what the
\* client signs must be what was received.
ScramAccepts(first) == first = First("user")
Verifies(final) == final = Response(ScramExpected, Salt, bare)

\* _set_client_first: a placeholder gets libpq's empty name past the parser, and
\* the bare message that both sides sign is restored.
\* Mutant: the patched message is the one both sides sign.
SetClientFirstPatched(first) ==
  LET patched == IF first = First("") THEN First("user") ELSE first
  IN IF ScramAccepts(patched) THEN patched ELSE Malformed
SetClientFirst(first) ==
  LET patched == IF first = First("") THEN First("user") ELSE first
  IN IF ScramAccepts(patched) THEN first ELSE Malformed

\* A PgError raised by a plugin, and a payload that cannot be decoded, are nobody's
\* to report: the connection is just dropped.
Unusable(f, empty) == f.tag # "p" \/ (~empty /\ f.body = Garbled)

\* ClearTextPasswordAuthPlugin and Md5PasswordAuthPlugin: an empty payload is the
\* empty password, and no MD5 response; nor is another text either.
PasswordResponse(f, empty) ==
  LET response == IF empty THEN Response(Empty, 0, NoFrame) ELSE f.body
      right == \/ Unchecked
               \/ plugin = "cleartext" /\ response # Malformed /\ response.password = expected
               \/ plugin = "md5" /\ response = Response(expected, Salt, NoFrame)
  IN Ends(IF Unusable(f, empty) THEN "crashed" ELSE IF right THEN "admitted" ELSE "refused")

\* ScramSha256AuthPlugin, first and second message.
SaslInitialResponse(f, empty) ==
  IF empty \/ Unusable(f, empty) THEN Ends("crashed")
  ELSE LET first == SetClientFirst(f.body)
       IN IF first = Malformed THEN Ends("refused") ELSE at' = "sasl_final" /\ bare' = first
SaslResponse(f, empty) ==
  Ends(IF Unusable(f, empty) THEN "crashed"
       ELSE IF ~empty /\ Verifies(f.body) THEN "admitted" ELSE "refused")

Handles(f, empty) ==
  \/ at \in Reads /\ Negotiate(f, empty)
  \/ at = "password" /\ PasswordResponse(f, empty)
  \/ at = "sasl_first" /\ SaslInitialResponse(f, empty)
  \/ at = "sasl_final" /\ SaslResponse(f, empty)
-----------------------------------------------------------------------------
Kept(f) == IF at' \in Reads \cup AuthReads THEN f ELSE NoFrame

\* read_startup_packet and read_message, up to the length: a bad one ends the
\* connection, one that says there is no payload is a whole message.
ReadHeader(f) ==
  /\ awaited = 0 /\ at \in Reads \cup AuthReads
  /\ CanSend(f)
  /\ honest' = Honest(f)
  /\ IF ~CheckLength(f.length, HeaderSize, Limit)
     THEN frame' = NoFrame /\ awaited' = 0 /\ Ends("fatal")
     ELSE IF f.length > HeaderSize
     THEN frame' = f /\ awaited' = f.length - HeaderSize /\ UNCHANGED << at, bare >>
     ELSE Handles(f, TRUE) /\ frame' = Kept(f) /\ awaited' = 0
  /\ UNCHANGED config

\* The payload is there.
ReadPayload ==
  /\ awaited > 0
  /\ awaited' = 0
  /\ Handles(frame, FALSE) /\ frame' = Kept(frame)
  /\ UNCHANGED << config, honest >>

\* _authenticate: the plugin's challenge, or none.
BeginAuthentication ==
  /\ at = "negotiated"
  /\ at' = CASE plugin = "trust" -> "trust" [] plugin = "scram" -> "sasl_first" [] OTHER -> "password"
  /\ UNCHANGED << config, frame, awaited, bare, honest >>

\* TrustAuthPlugin
Trust ==
  /\ at = "trust"
  /\ at' = "admitted"
  /\ UNCHANGED << config, frame, awaited, bare, honest >>
-----------------------------------------------------------------------------
\* Whoever is let in as a user who has a password showed that password, unless
\* the plugin asks for none; everybody can show the empty one.  And a client that
\* does what its library does, whether it sends a user name again or leaves it
\* empty, is not turned away when it knows the password.  (auth.py: the plugins;
\* a response to an earlier challenge proves nothing.)
AdmitsWhoProves ==
  /\ at = "admitted" /\ expected # NoPassword => plugin = "trust" \/ expected \in {password, Empty}
  /\ at = "refused" /\ honest => password # expected

\* "unknown user: proceed through the exchange, then fail closed" (auth.py, the
\* SCRAM plugin): whatever is sent, SCRAM admits nobody as a user without a
\* password.  It does not hold: the exchange is verified against the empty one.
UnknownUsersFailClosed ==
  plugin = "scram" /\ expected = NoPassword => at # "admitted"

\* The server never waits for more than its limit allows, and never acts on a
\* message whose length contradicts the header it has read (_check_length).
LengthsAreHonest ==
  /\ frame # NoFrame => LET packet == frame.tag \notin {"p", "other"}
                            least == IF packet THEN 8 ELSE 4
                            most == IF packet THEN MaxStartup ELSE MaxMessage
                        IN least <= frame.length /\ frame.length <= most /\ frame.length <= MaxMessage
  /\ awaited \in 0..MaxMessage
=============================================================================
