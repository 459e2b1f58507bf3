----------------------------- MODULE Credentials -----------------------------
(***************************************************************************)
(* The credentials a Repo presents to its git server: GetSecretData        *)
(* (pkg/repo/config.go) and getAuth (pkg/repo/repo.go), called again for   *)
(* each clone, fetch and pull of worker(), while an administrator edits    *)
(* the secrets.  A secret that getAuth does not expect leaves auth a nil   *)
(* interface, auth.Name() panics in the goroutine of the Repo and ends the *)
(* process; the next one starts without ./repos.                           *)
(*                                                                         *)
(* Locking, commits and Destroy are those of Repo.tla and left out.        *)
(***************************************************************************)
EXTENDS Naturals, SequencesExt

CONSTANTS
  Urls,       \* addresses of repositories
  Url,        \* that of this Repo
  Keys,       \* private keys, "" for none
  Usernames,  \* user names, "" for none
  Passwords,  \* passwords, "" for none
  Garbled,    \* keys that cannot be parsed
  Secrets,    \* what a secret may hold in this instance
  NoSecret,   \* there is no secret of that name
  Slots,      \* secrets with the label crossform.io/secret-type = repository
  Logins,     \* credentials the server knows
  MaxEdits,   \* bound on the edits of secrets
  MaxFaults   \* bound on the failing calls of the API server and the network

SecretTypes == [repository : Urls, sshPrivateKey : Keys,
                username : Usernames, password : Passwords]
AuthData == [sshPrivateKey : Keys, username : Usernames, password : Passwords]

ASSUME CredentialsAssumption ==
  /\ Url \in Urls
  /\ "" \in Keys /\ "" \in Usernames /\ "" \in Passwords /\ Garbled \subseteq Keys \ {""}
  /\ Secrets \subseteq SecretTypes /\ NoSecret \notin Secrets
  /\ Logins \subseteq AuthData
  /\ Slots \in Nat /\ MaxEdits \in Nat /\ MaxFaults \in Nat

VARIABLES
  scheme,       \* scheme of the url
  private,      \* the server refuses anonymous access
  kind,         \* kind of revision
  secrets,      \* the labelled secrets, in the order the API server lists them
  worker,       \* program counter of worker(), "crashed" when the process has ended
  auth,         \* the credentials of the git call under way
  initialized,  \* Status.IsInitialized
  edits, faults

server == <<scheme, private, kind>>
vars == <<server, secrets, worker, auth, initialized, edits, faults>>

-----------------------------------------------------------------------------
(***************************************************************************)
(* GetSecretData()                                                         *)
(***************************************************************************)
Anonymous == [sshPrivateKey |-> "", username |-> "", password |-> ""]

Matches(s) == s # NoSecret /\ s.repository = Url
Found == \E i \in 1..Slots : Matches(secrets[i])

\* Faulty variant: the loop does not end at the first match.
LastMatch == SelectLastInSeq(secrets, Matches)

\* The first secret whose repository is the url.
FirstMatch == SelectInSeq(secrets, Matches)
Secret == secrets[FirstMatch]

\* Faulty variant: || for && in the second condition.
IncorrectEither(s) ==
  \/ s.sshPrivateKey # "" /\ (s.username # "" \/ s.password # "")
  \/ s.sshPrivateKey = "" \/ s.username = ""

\* A key with a user name or a password; neither a key nor a user name.  The
\* condition of the message "password is empty" is that of "username is empty"
\* once more (config.go:83), so that an empty password is accepted.
Incorrect(s) ==
  \/ s.sshPrivateKey # "" /\ (s.username # "" \/ s.password # "")
  \/ s.sshPrivateKey = "" /\ s.username = ""

-----------------------------------------------------------------------------
(***************************************************************************)
(* getAuth()                                                               *)
(***************************************************************************)
Http == {"http", "https"}
Schemes == Http \cup {"ssh", "other"}

\* getAuth returns an error.
AuthError ==
  \/ Found /\ Incorrect(Secret)
  \/ scheme = "ssh" /\ ~Found
  \/ scheme = "ssh" /\ Found /\ Secret.sshPrivateKey \in Garbled

\* auth is nil in line 135: the secret is of the other kind than the scheme
\* asks for, or the scheme is none of the three, with or without a secret.
NilAuth ==
  /\ ~AuthError
  /\ \/ scheme = "other"
     \/ scheme = "ssh" /\ Secret.sshPrivateKey = ""
     \/ scheme \in Http /\ Found /\ Secret.username = ""

\* Faulty variant: what is found is passed on as it is.
AuthWhole == IF Found THEN Secret ELSE Anonymous

\* The method that is presented: the key, or user name and password.
Auth == IF Found THEN [sshPrivateKey |-> Secret.sshPrivateKey,
                       username |-> Secret.username, password |-> Secret.password]
                 ELSE Anonymous

\* Faulty variant: an error of getAuth is treated as "no credentials".
GetAuthLenient(from, to) ==
  /\ worker = from /\ worker' = to
  /\ auth' = IF AuthError \/ NilAuth THEN Anonymous ELSE Auth
  /\ UNCHANGED <<server, secrets, initialized, edits, faults>>

GetAuth(from, to) ==
  /\ worker = from /\ ~AuthError /\ ~NilAuth
  /\ worker' = to /\ auth' = Auth
  /\ UNCHANGED <<server, secrets, initialized, edits, faults>>

Purposes == {<<"init", "clone">>, <<"check", "fetch">>, <<"update", "pull">>}

\* The pass ends with the error in Status.Message, or, for a check, without a
\* trace.  The list of secrets may fail as well.
GetAuthFails ==
  /\ worker \in {p[1] : p \in Purposes}
  /\ \/ AuthError /\ UNCHANGED faults
     \/ faults < MaxFaults /\ faults' = faults + 1
  /\ worker' = "sleep"
  /\ UNCHANGED <<server, secrets, auth, initialized, edits>>

GetAuthPanics ==
  /\ worker \in {p[1] : p \in Purposes} /\ NilAuth
  /\ worker' = "crashed"
  /\ UNCHANGED <<server, secrets, auth, initialized, edits, faults>>

-----------------------------------------------------------------------------
(***************************************************************************)
(* The calls of git (external) and the passes of worker()                  *)
(***************************************************************************)
GitCalls == {"clone", "fetch", "list", "pull"}

\* Anonymous access to a private repository is refused, and so is a wrong login.
Accepts(a) == a \in Logins \/ (a = Anonymous /\ ~private)

\* The first pass clones; later ones check a branch with credentials, a tag
\* without any, whatever secrets there are, a commit not at all.
StartPass ==
  /\ worker = "sleep"
  /\ worker' = IF ~initialized THEN "init"
               ELSE CASE kind = "Branch" -> "check"
                      [] kind = "Tag" -> "fetch"
                      [] kind = "Commit" -> "sleep"
  /\ auth' = Anonymous
  /\ UNCHANGED <<server, secrets, initialized, edits, faults>>

Clone ==
  /\ worker = "clone" /\ Accepts(auth)
  /\ worker' = "sleep" /\ initialized' = TRUE
  /\ UNCHANGED <<server, secrets, auth, edits, faults>>

\* A branch that has moved is pulled, with credentials that are read again; tags
\* are listed, and the tag is checked out from what has been fetched.
Fetch ==
  /\ worker = "fetch" /\ Accepts(auth)
  /\ \/ kind = "Branch" /\ worker' \in {"sleep", "update"}
     \/ kind = "Tag" /\ worker' = "list"
  /\ UNCHANGED <<server, secrets, auth, initialized, edits, faults>>

List ==
  /\ worker = "list" /\ Accepts(auth)
  /\ worker' = "sleep"
  /\ UNCHANGED <<server, secrets, auth, initialized, edits, faults>>

Pull ==
  /\ worker = "pull" /\ Accepts(auth)
  /\ worker' = "sleep"
  /\ UNCHANGED <<server, secrets, auth, initialized, edits, faults>>

GitFails ==
  /\ worker \in GitCalls
  /\ \/ ~Accepts(auth) /\ UNCHANGED faults
     \/ faults < MaxFaults /\ faults' = faults + 1
  /\ worker' = "sleep"
  /\ UNCHANGED <<server, secrets, auth, initialized, edits>>

\* The container starts again: ./repos is removed, the Repo is made anew.
Restart ==
  /\ worker = "crashed" /\ worker' = "sleep"
  /\ initialized' = FALSE /\ auth' = Anonymous
  /\ UNCHANGED <<server, secrets, edits, faults>>

\* The administrator writes, replaces or removes a secret.
Edit ==
  /\ edits < MaxEdits /\ edits' = edits + 1
  /\ \E i \in 1..Slots, s \in Secrets \cup {NoSecret} : secrets' = [secrets EXCEPT ![i] = s]
  /\ UNCHANGED <<server, worker, auth, initialized, faults>>

-----------------------------------------------------------------------------
Init ==
  /\ scheme \in Schemes /\ private \in BOOLEAN
  /\ kind \in {"Commit", "Branch", "Tag"}
  /\ secrets \in [1..Slots -> Secrets \cup {NoSecret}]
  /\ worker = "sleep" /\ auth = Anonymous /\ initialized = FALSE
  /\ edits = 0 /\ faults = 0

Worker == \/ StartPass
          \/ \E p \in Purposes : GetAuth(p[1], p[2])
          \/ GetAuthFails \/ GetAuthPanics
          \/ Clone \/ Fetch \/ List \/ Pull \/ GitFails

Next == Worker \/ Restart \/ Edit

Spec == Init /\ [][Next]_vars

\* Passes go on for ever, and the kubelet restarts a container that has ended.
Fairness == WF_vars(Worker) /\ WF_vars(Restart)

FairSpec == Spec /\ Fairness

-----------------------------------------------------------------------------
\* Every variable has its type.
TypeOK ==
  /\ scheme \in Schemes /\ private \in BOOLEAN /\ kind \in {"Commit", "Branch", "Tag"}
  /\ secrets \in [1..Slots -> Secrets \cup {NoSecret}]
  /\ worker \in {"sleep", "crashed", "init", "check", "update"} \cup GitCalls
  /\ auth \in AuthData /\ initialized \in BOOLEAN
  /\ edits \in 0..MaxEdits /\ faults \in 0..MaxFaults

-----------------------------------------------------------------------------
(***************************************************************************)
(* Properties                                                              *)
(***************************************************************************)
Presents == worker' # worker /\ worker' \in GitCalls
ForTag == kind = "Tag" /\ worker' \in {"fetch", "list"}

\* What a git call presents is never pieced together from two secrets nor kept
\* from an earlier call or pass, a key never goes to an http server nor a password
\* to an ssh one.  A clone, a pull and the fetch of a branch are anonymous only if
\* no secret names the repository; the fetch and the list of a tag always are,
\* although the clone of the same repository needed a secret.
PresentsOneSecret ==
  [][Presents =>
       /\ auth' = Anonymous =>
            ForTag \/ (scheme \in Http /\ \A i \in 1..Slots : ~Matches(secrets[i]))
       /\ auth' # Anonymous =>
            /\ ~ForTag
            /\ \E i \in 1..Slots :
                 /\ Matches(secrets[i]) /\ \A j \in 1..(i - 1) : ~Matches(secrets[j])
                 /\ \A f \in DOMAIN auth' : auth'[f] = secrets[i][f]
                 /\ IF scheme = "ssh"
                      THEN auth'.sshPrivateKey # "" /\ auth'.username = "" /\ auth'.password = ""
                      ELSE auth'.sshPrivateKey = "" /\ auth'.username # ""]_vars

\* What an administrator would call right: the first secret of the repository is
\* a login of the server, of the kind its scheme asks for; a public repository
\* behind http needs none.
IsRight(s) ==
  /\ [f \in DOMAIN Anonymous |-> s[f]] \in Logins
  /\ \/ scheme = "ssh" /\ s.sshPrivateKey \notin Garbled \cup {""}
     \/ scheme \in Http /\ s.sshPrivateKey = ""

Usable ==
  \/ scheme \in Http /\ ~private /\ \A i \in 1..Slots : ~Matches(secrets[i])
  \/ \E i \in 1..Slots : /\ Matches(secrets[i]) /\ IsRight(secrets[i])
                        /\ \A j \in 1..(i - 1) : ~Matches(secrets[j])

\* Whatever the secrets were before, refused, contradictory or fatal to the
\* process: if they are right from some time on, the Repo is initialised in the
\* end and never again ends the process, and a branch presents what is right.
Recovers ==
  <>[]Usable => <>[](/\ initialized /\ worker # "crashed"
                     /\ kind = "Branch" /\ worker \in {"fetch", "pull"} => Accepts(auth))

\* A secret of the wrong kind, or a scheme that getAuth does not know, ends the
\* process again and again as long as it is there, unless the Repo was
\* initialised before and follows no branch: then it waits for the next restart.
CrashesAgain ==
  <>[]NilAuth => []<>(worker = "crashed") \/ <>[](initialized /\ kind # "Branch")
=============================================================================
