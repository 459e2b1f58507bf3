---------------------------- MODULE MCCredentials ----------------------------
(***************************************************************************)
(* A small instance of Credentials: two secrets, each of one of the ways   *)
(* in which a secret can be right, refused, contradictory or unexpected.   *)
(***************************************************************************)
EXTENDS Credentials

Entry(url, key, username, password) ==
  [repository |-> url, sshPrivateKey |-> key, username |-> username, password |-> password]

\* In order: right for ssh, unreadable, right for http, a wrong password, no
\* password, no user name, key and user name, nothing; of another repository.
MCSecrets ==
  { Entry("here", "key", "", ""), Entry("here", "garbled", "", ""),
    Entry("here", "", "user", "word"), Entry("here", "", "user", "old"),
    Entry("here", "", "user", ""), Entry("here", "", "", "word"),
    Entry("here", "key", "user", ""), Entry("here", "", "", ""),
    Entry("there", "key", "", "") }

MCLogins == { [sshPrivateKey |-> "key", username |-> "", password |-> ""],
              [sshPrivateKey |-> "", username |-> "user", password |-> "word"] }
=============================================================================
