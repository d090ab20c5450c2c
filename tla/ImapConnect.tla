---------------------------- MODULE ImapConnect ----------------------------
(***************************************************************************)
(* How a mail client comes to be: create_client_from_config of config.py,  *)
(* with the constructor and starttls() of IMAPClient, the TLS layer        *)
(* (tls.py, backports/ssl/core.py) and the cache of OAuth2 tokens.         *)
(*                                                                         *)
(* A configuration is a record of the options that matter here.  External: *)
(* the network, the certificate of the server, the greeting and the        *)
(* answers to STARTTLS and LOGIN, the token service, imaplib.              *)
(***************************************************************************)
EXTENDS Naturals, Sequences, FiniteSets

CONSTANTS
  Configs,     \* the configurations
  Certs,       \* the certificates a server may show
  MaxClients,  \* bound: clients made, one after the other
  NoToken      \* no access token

ASSUME CertsAssumption ==
  Certs \subseteq [trusted : BOOLEAN, name : {"same", "other", "wildcard"}]

VARIABLES
  conf,     \* the configuration of the client
  at,       \* where create_client_from_config is
  sock,     \* the connection: "none", "open", "closed", or "broken" when it
            \* failed and closing it failed too
  channel,  \* how it is protected: [tls, trusted, host]
  cert,     \* the certificate of the server
  made,     \* whether the IMAPClient object exists
  started,  \* _starttls_done
  state,    \* imaplib's state: "NONAUTH" or "AUTH"
  connCaps, \* the capabilities imaplib got at connection time
  cached,   \* _cached_capabilities
  offered,  \* CAPABILITY in imaplib's untagged_responses
  early,    \* the one of them that came before the login
  tokens,   \* _oauth2_cache: [key -> token]
  secret,   \* what was sent to authenticate, and over which channel
  clients   \* number of clients made

connVars == <<conf, at, sock, channel, cert, made, started, state, connCaps,
              cached, offered, early, tokens, secret, clients>>

Plain == [tls |-> FALSE, trusted |-> FALSE, host |-> FALSE]

NoCaps == <<>>
NoSecret == [what |-> NoToken, over |-> Plain]

\* What a server offers depends on the channel and on the login.
CapsOf(c, s) == <<c.tls, s>>

Where == {"none", "connect", "wrap", "greeting", "starttls", "upgrade",
          "auth", "token", "ready", "failed"}

-----------------------------------------------------------------------------
\* create_default_context: the server must prove its name to a trusted
\* authority.
DefaultContext == [verify |-> TRUE, checkHost |-> TRUE]

\* The context create_client_from_config makes for an ssl connection.
ConfContext == [verify |-> conf.verify, checkHost |-> conf.checkHost]

\* _dnsname_match and match_hostname: the name of a certificate is the one
\* of the server, another one, or a pattern with a wildcard.  The module does
\* not import re, so that a pattern ends in a NameError.
HostMatch(c) == CASE c.name = "same"     -> "ok"
                  [] c.name = "other"    -> "CertificateError"
                  [] c.name = "wildcard" -> "NameError"

\* Mutant: the name of the server is never compared.
HandshakeNoHost(ctx, c) == IF ctx.verify /\ ~c.trusted THEN "SSLError" ELSE "ok"

\* SSLSocket.do_handshake on a connection that does not fail.
Handshake(ctx, c) ==
  IF ctx.verify /\ ~c.trusted THEN "SSLError"
  ELSE IF ctx.checkHost THEN HostMatch(c)
  ELSE "ok"

\* _safe_ssl_call: no answer in time, a clean end, a system error (whose
\* handler names a class that does not exist, a NameError again).
Trouble == {"timeout", "SSLError", "NameError"}

Outcomes(ctx) == {Handshake(ctx, cert)} \cup Trouble

Protected == [tls |-> TRUE, trusted |-> cert.trusted,
              host |-> cert.name = "same"]

\* tls.wrap_socket: two of the exceptions close the connection first, unless
\* it is broken (killsock).
Killed(outcome) == outcome \in {"CertificateError", "SSLError"}

-----------------------------------------------------------------------------
\* The caller asks for a client.
Create ==
  /\ at \in {"none", "failed", "ready"} /\ clients < MaxClients
  /\ \E c \in Configs : conf' = c
  /\ cert' \in Certs
  /\ at' = "connect" /\ clients' = clients + 1
  /\ sock' = "none" /\ channel' = Plain /\ made' = FALSE /\ started' = FALSE
  /\ state' = "NONAUTH" /\ connCaps' = NoCaps /\ cached' = NoCaps
  /\ offered' = NoCaps /\ early' = NoCaps /\ secret' = NoSecret
  /\ UNCHANGED tokens

\* IMAPClient.__init__: options that exclude each other, the connection.
Connect ==
  /\ at = "connect"
  /\ \/ at' = "failed" /\ UNCHANGED sock
     \/ /\ ~(conf.stream /\ conf.ssl)
        /\ sock' = "open"
        /\ at' = IF conf.ssl THEN "wrap" ELSE "greeting"
  /\ UNCHANGED <<conf, channel, cert, made, started, state, connCaps, cached,
                 offered, early, tokens, secret, clients>>

\* IMAP4_TLS.open.  There is no client yet that could be shut down.
Wrap ==
  /\ at = "wrap"
  /\ \E o \in Outcomes(ConfContext) :
       IF o = "ok"
       THEN /\ channel' = Protected
            /\ at' = "greeting"
            /\ UNCHANGED sock
       ELSE /\ \/ Killed(o) /\ sock' \in {"closed", "broken"}
               \/ ~Killed(o) /\ UNCHANGED sock
            /\ at' = "failed"
            /\ UNCHANGED channel
  /\ UNCHANGED <<conf, cert, made, started, state, connCaps, cached, offered,
                 early, tokens, secret, clients>>

\* imaplib's constructor: the greeting and the first CAPABILITY command.  A
\* command that is run as a connection may be logged in already.  Whether a
\* constructor that fails closes its connection is imaplib's affair.
Greeting ==
  /\ at = "greeting"
  /\ \/ /\ state' \in (IF conf.stream THEN {"AUTH", "NONAUTH"} ELSE {"NONAUTH"})
        /\ connCaps' = CapsOf(channel, state' = "AUTH")
        /\ made' = TRUE
        /\ at' = IF conf.starttls THEN "starttls" ELSE "auth"
        /\ UNCHANGED sock
     \/ /\ at' = "failed" /\ sock' \in {"open", "closed"}
        /\ UNCHANGED <<state, connCaps, made>>
  /\ UNCHANGED <<conf, channel, cert, started, cached, offered, early, tokens,
                 secret, clients>>

\* Mutant: nobody closes the connection of a client that is not returned.
ShutdownNever == /\ at' = "failed" /\ UNCHANGED sock

\* shutdown(): imaplib closes the socket whatever the shutdown of the
\* connection comes to.  IMAP4_TLS.shutdown closes it last: on a broken
\* connection sock._conn.shutdown() raises and the socket stays.
CloseSock == sock' \in IF conf.ssl THEN {"closed", "broken"} ELSE {"closed"}

\* create_client_from_config: except: client.shutdown(), raise.
Shutdown == at' = "failed" /\ CloseSock

\* starttls: refused before or by the server, or agreed upon.  A CAPABILITY
\* the server sends with its answer, still in plain text, stays in
\* untagged_responses: only what the client remembered itself is cleared.
Starttls ==
  /\ at = "starttls"
  /\ \/ /\ Shutdown
        /\ UNCHANGED <<started, cached, offered, early>>
     \/ /\ ~conf.ssl /\ ~started
        /\ started' = TRUE
        /\ cached' = NoCaps
        /\ \/ UNCHANGED <<offered, early>>
           \/ /\ early' = CapsOf(channel, state = "AUTH")
              /\ offered' = early'
        /\ at' = "upgrade"
        /\ UNCHANGED sock
  /\ UNCHANGED <<conf, channel, cert, made, state, connCaps, tokens, secret,
                 clients>>

\* starttls: the context is always the default one.
Upgrade ==
  /\ at = "upgrade"
  /\ \E o \in Outcomes(DefaultContext) :
       IF o = "ok" THEN /\ channel' = Protected
                        /\ at' = "auth"
                        /\ UNCHANGED sock
       ELSE Shutdown /\ UNCHANGED channel
  /\ UNCHANGED <<conf, cert, made, started, state, connCaps, cached, offered,
                 early, tokens, secret, clients>>

-----------------------------------------------------------------------------
\* Mutant: the key leaves out the refresh token.
TokenKeyShort(c) == <<c.host, c.clientId>>

\* get_oauth2_token: the key of the cache.
TokenKey(c) == <<c.host, c.clientId, c.account>>

\* The token service answers with a token of the account.
Token(c) == IF TokenKey(c) \in DOMAIN tokens THEN tokens[TokenKey(c)]
            ELSE c.account

\* get_oauth2_token, refresh_oauth2_token: a token of the cache is taken
\* without a question.
GetToken ==
  /\ at = "auth" /\ conf.auth = "oauth2"
  /\ \/ /\ TokenKey(conf) \notin DOMAIN tokens  \* the service fails
        /\ Shutdown
        /\ UNCHANGED tokens
     \/ /\ tokens' = [k \in DOMAIN tokens \cup {TokenKey(conf)} |->
                        IF k \in DOMAIN tokens THEN tokens[k] ELSE conf.account]
        /\ at' = "token"
        /\ UNCHANGED sock
  /\ UNCHANGED <<conf, channel, cert, made, started, state, connCaps, cached,
                 offered, early, secret, clients>>

\* The answer to LOGIN or AUTHENTICATE; the server may send its capabilities
\* with it.  imaplib puts them after the ones it has, and capabilities() takes
\* the first.
Answer ==
  \/ /\ Shutdown
     /\ UNCHANGED <<state, offered>>
  \/ /\ at' = "ready"
     /\ state' = "AUTH"
     /\ \/ UNCHANGED offered
        \/ offered = NoCaps /\ offered' = CapsOf(channel, TRUE)
     /\ UNCHANGED sock

SendSecret(what) == secret' = [what |-> what, over |-> channel]

\* oauth2_login, login.  A stream configuration without OAuth logs nobody in.
Login ==
  /\ \/ at = "token" /\ SendSecret(Token(conf)) /\ Answer
     \/ /\ at = "auth" /\ conf.auth = "password" /\ ~conf.stream
        /\ SendSecret(conf.account) /\ Answer
     \/ /\ at = "auth" /\ conf.auth = "password" /\ conf.stream
        /\ at' = "ready" /\ UNCHANGED <<sock, state, offered, secret>>
  /\ UNCHANGED <<conf, channel, cert, made, started, connCaps, cached, early,
                 tokens, clients>>

ConnInit ==
  /\ conf \in Configs /\ cert \in Certs
  /\ at = "none" /\ sock = "none" /\ channel = Plain
  /\ made = FALSE /\ started = FALSE /\ state = "NONAUTH"
  /\ connCaps = NoCaps /\ cached = NoCaps /\ offered = NoCaps
  /\ early = NoCaps /\ tokens = <<>> /\ secret = NoSecret /\ clients = 0

Connecting ==
  \/ Connect \/ Wrap \/ Greeting \/ Starttls \/ Upgrade \/ GetToken \/ Login

-----------------------------------------------------------------------------
\* Secrets are sent over no weaker channel than the configuration asks for:
\* with ssl as strict as it says, with starttls always after the server
\* proved its name; and a token is the one of the account of the client, also
\* when it comes out of the cache.
SecretsProtected ==
  secret # NoSecret =>
    /\ conf.ssl => /\ secret.over.tls
                   /\ conf.verify => secret.over.trusted
                   /\ conf.checkHost => secret.over.host
    /\ conf.starttls =>
         secret.over.tls /\ secret.over.trusted /\ secret.over.host
    /\ secret.what = conf.account

\* A client that is not handed out has no connection left that works, once the
\* object exists (create_client_from_config shuts it down whatever was raised);
\* a socket is left only of an ssl connection that broke before its shutdown
\* (IMAP4_TLS.shutdown).  A client that is handed out has an open connection,
\* and TLS if starttls() was called.
NoStrayConnection ==
  /\ at = "failed" /\ made => \/ sock = "closed"
                              \/ sock = "broken" /\ conf.ssl
  /\ at = "ready" => sock = "open" /\ (started => channel.tls)
=============================================================================
