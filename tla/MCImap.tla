------------------------------ MODULE MCImap ------------------------------
(* A session with password logins, and clients of every kind that only      *)
(* connect.                                                                 *)
EXTENDS ImapSession

CONSTANTS a1, a2

Conf(ssl, tls, verify, host, auth, account) ==
  [ssl |-> ssl, starttls |-> tls, verify |-> verify, checkHost |-> host,
   stream |-> FALSE, auth |-> auth, host |-> "h", clientId |-> "c",
   account |-> account]

Talker == Conf(FALSE, TRUE, TRUE, TRUE, "password", a1)

MCConfigs ==
  {Talker,
   Conf(TRUE, FALSE, TRUE, TRUE, "oauth2", a1),
   Conf(TRUE, FALSE, FALSE, FALSE, "oauth2", a2),
   Conf(TRUE, TRUE, TRUE, FALSE, "password", a1),
   [Conf(FALSE, FALSE, TRUE, TRUE, "password", a1) EXCEPT !.stream = TRUE]}

MCChatty == {Talker}

MCCerts ==
  {[trusted |-> TRUE, name |-> "same"], [trusted |-> TRUE, name |-> "other"],
   [trusted |-> FALSE, name |-> "same"], [trusted |-> TRUE, name |-> "wildcard"]}
=============================================================================
