-------------------------- MODULE CredentialsProofs --------------------------
(***************************************************************************)
(* What getAuth presents, for any secrets, any number of them and of their *)
(* edits, and any scheme: GetSecretData finds the first secret of the url, *)
(* and the checks of getAuth leave of it either a key for ssh or a user    *)
(* for http.                                                               *)
(***************************************************************************)
EXTENDS Credentials, WellFoundedInduction, TLAPS

USE DEF server, vars

-----------------------------------------------------------------------------
(***************************************************************************)
(* The first match                                                         *)
(***************************************************************************)
\* A set of numbers that is not empty has a smallest one.
LEMMA SmallestNumber ==
  ASSUME NEW T, T \subseteq Nat, T # {}
  PROVE  \E x \in T : \A y \in T : x <= y
<1> DEFINE R == OpToRel(<, Nat)
<1>1. IsWellFoundedOn(R, Nat)
  BY NatLessThanWellFounded
<1>2. \A x, y \in Nat : y < x => <<y, x>> \in R
  BY DEF OpToRel
<1> HIDE DEF R
<1>3. PICK x \in T : \A y \in T : <<y, x>> \notin R
  BY <1>1, WFMin
<1>4. \A y \in T : ~(y < x)
  BY <1>2, <1>3
<1> QED
  BY <1>4

\* GetSecretData returns the first secret of the url, if there is one.
LEMMA FirstMatchIsFirst ==
  ASSUME Slots \in Nat, secrets \in [1..Slots -> Secrets \cup {NoSecret}], Found
  PROVE  /\ FirstMatch \in 1..Slots /\ Matches(secrets[FirstMatch])
         /\ \A j \in 1..(FirstMatch - 1) : ~Matches(secrets[j])
<1> DEFINE I == {i \in 1..Slots : Matches(secrets[i])}
<1>1. Len(secrets) = Slots
  BY SMT
<1>2. FirstMatch = IF I # {} THEN Min(I) ELSE 0
  BY <1>1 DEF FirstMatch, SelectInSeq
<1>3. I # {} /\ I \subseteq Nat
  BY DEF Found
<1>4. PICK x \in I : \A y \in I : x <= y
  BY <1>3, SmallestNumber
<1>5. Min(I) \in I /\ \A y \in I : Min(I) <= y
  BY <1>4 DEF Min
<1>6. FirstMatch \in I /\ \A y \in I : FirstMatch <= y
  BY <1>2, <1>3, <1>5
<1> HIDE DEF Matches
<1> QED
  BY <1>6

-----------------------------------------------------------------------------
(***************************************************************************)
(* Types                                                                   *)
(***************************************************************************)
\* The secret that is found is one of the instance.
LEMMA FoundSecret ==
  ASSUME TypeOK, Found
  PROVE  Secret \in SecretTypes
<1>1. /\ Slots \in Nat /\ Secrets \subseteq SecretTypes
      /\ secrets \in [1..Slots -> Secrets \cup {NoSecret}]
  BY CredentialsAssumption DEF TypeOK
<1>2. FirstMatch \in 1..Slots /\ Matches(secrets[FirstMatch])
  BY <1>1, FirstMatchIsFirst
<1> QED
  BY <1>1, <1>2 DEF Secret, Matches

\* What is presented are the fields of the secret that a login has.
LEMMA AuthFields ==
  ASSUME TypeOK
  PROVE  /\ Auth \in AuthData
         /\ ~Found => Auth = Anonymous
         /\ Found => /\ Auth.sshPrivateKey = Secret.sshPrivateKey
                     /\ Auth.username = Secret.username
                     /\ Auth.password = Secret.password
<1>1. Anonymous \in AuthData
  BY CredentialsAssumption DEF Anonymous, AuthData
<1>2. CASE Found
  <2>1. Secret \in SecretTypes
    BY <1>2, FoundSecret
  <2> QED
    BY <1>2, <2>1 DEF Auth, AuthData, SecretTypes
<1>3. CASE ~Found
  BY <1>1, <1>3 DEF Auth
<1> QED
  BY <1>2, <1>3

\* Every step keeps every variable in its type.
LEMMA TypeStep == TypeOK /\ [Next]_vars => TypeOK'
<1> SUFFICES ASSUME TypeOK, [Next]_vars PROVE TypeOK'
  OBVIOUS
<1>0. Anonymous \in AuthData /\ MaxEdits \in Nat /\ MaxFaults \in Nat
  BY CredentialsAssumption DEF Anonymous, AuthData
<1>1. CASE StartPass
  BY <1>0, <1>1 DEF StartPass, TypeOK, GitCalls
<1>2. ASSUME NEW p \in Purposes, GetAuth(p[1], p[2]) PROVE TypeOK'
  <2>1. p[2] \in {"clone", "fetch", "pull"}
    BY DEF Purposes
  <2>2. Auth \in AuthData
    BY AuthFields
  <2> QED
    BY <1>2, <2>1, <2>2 DEF GetAuth, TypeOK, GitCalls
<1>3. CASE GetAuthFails
  BY <1>0, <1>3 DEF GetAuthFails, TypeOK
<1>4. CASE GetAuthPanics
  BY <1>4 DEF GetAuthPanics, TypeOK
<1>5. CASE Clone \/ Fetch \/ List \/ Pull
  BY <1>5 DEF Clone, Fetch, List, Pull, TypeOK, GitCalls
<1>6. CASE GitFails
  BY <1>0, <1>6 DEF GitFails, TypeOK
<1>7. CASE Restart
  BY <1>0, <1>7 DEF Restart, TypeOK
<1>8. CASE Edit
  BY <1>0, <1>8 DEF Edit, TypeOK
<1>9. CASE UNCHANGED vars
  BY <1>9 DEF TypeOK
<1> QED
  BY <1>1, <1>2, <1>3, <1>4, <1>5, <1>6, <1>7, <1>8, <1>9 DEF Next, Worker

\* Every variable has its type, whatever the secrets hold and the server refuses.
THEOREM TypeCorrect == Spec => []TypeOK
<1>1. Init => TypeOK
  <2>1. Anonymous \in AuthData
    BY CredentialsAssumption DEF Anonymous, AuthData
  <2>2. MaxEdits \in Nat /\ MaxFaults \in Nat
    BY CredentialsAssumption
  <2>3. Init => edits \in 0..MaxEdits /\ faults \in 0..MaxFaults
    BY <2>2 DEF Init
  <2> QED
    BY <2>1, <2>3 DEF Init, TypeOK
<1> QED
  BY <1>1, TypeStep, PTL DEF Spec

-----------------------------------------------------------------------------
(***************************************************************************)
(* What is presented                                                       *)
(***************************************************************************)
\* Only a branch is checked and pulled with credentials, and a call for a tag is
\* under way without any.
TagInv ==
  /\ worker \in {"check", "update"} => kind = "Branch"
  /\ kind = "Tag" /\ worker \in {"fetch", "list"} => auth = Anonymous

LEMMA TagInvariant == Spec => []TagInv
<1>1. Init => TagInv
  BY DEF Init, TagInv
<1>2. ASSUME TypeOK, TagInv, [Next]_vars PROVE TagInv'
  <2>1. CASE StartPass
    BY <1>2, <2>1 DEF StartPass, TypeOK, TagInv
  <2>2. ASSUME NEW p \in Purposes, GetAuth(p[1], p[2]) PROVE TagInv'
    BY <1>2, <2>2 DEF GetAuth, Purposes, TagInv
  <2>3. CASE GetAuthFails \/ GetAuthPanics \/ GitFails \/ Restart
    BY <2>3 DEF GetAuthFails, GetAuthPanics, GitFails, Restart, TagInv
  <2>4. CASE Clone \/ Fetch \/ List \/ Pull
    BY <1>2, <2>4 DEF Clone, Fetch, List, Pull, TagInv
  <2>5. CASE Edit \/ UNCHANGED vars
    BY <1>2, <2>5 DEF Edit, TagInv
  <2> QED
    BY <1>2, <2>1, <2>2, <2>3, <2>4, <2>5 DEF Next, Worker
<1> QED
  BY <1>1, <1>2, TypeCorrect, PTL DEF Spec

\* A call of git follows on getAuth, or is one for a tag and anonymous.
LEMMA WhoPresents ==
  ASSUME TypeOK, TagInv, [Next]_vars, Presents
  PROVE  \/ ForTag /\ auth' = Anonymous
         \/ ~ForTag /\ auth' = Auth /\ ~AuthError /\ ~NilAuth
<1>1. worker' \in {"clone", "fetch", "list", "pull"} /\ worker' # worker
  BY DEF Presents, GitCalls
<1>2. \/ StartPass \/ Fetch
      \/ \E p \in Purposes : GetAuth(p[1], p[2])
  BY <1>1 DEF Next, Worker, GetAuthFails, GetAuthPanics, Clone, List, Pull,
              GitFails, Restart, Edit
<1>3. CASE StartPass \/ Fetch
  BY <1>1, <1>3 DEF StartPass, Fetch, ForTag, TypeOK, TagInv
<1>4. ASSUME NEW p \in Purposes, GetAuth(p[1], p[2])
      PROVE  ~ForTag /\ auth' = Auth /\ ~AuthError /\ ~NilAuth
  BY <1>4 DEF GetAuth, Purposes, ForTag, TagInv
<1> QED
  BY <1>2, <1>3, <1>4

\* Without a secret there is a scheme that does without.
LEMMA AnonymousIsHttp ==
  ASSUME TypeOK, ~AuthError, ~NilAuth, ~Found
  PROVE  scheme \in Http /\ \A i \in 1..Slots : ~Matches(secrets[i])
BY DEF TypeOK, AuthError, NilAuth, Found, Schemes, Http

\* A secret that passes is of the kind its scheme asks for.
LEMMA SecretFitsScheme ==
  ASSUME TypeOK, ~AuthError, ~NilAuth, Found
  PROVE  IF scheme = "ssh"
           THEN Secret.sshPrivateKey # "" /\ Secret.username = "" /\ Secret.password = ""
           ELSE Secret.sshPrivateKey = "" /\ Secret.username # ""
BY DEF TypeOK, AuthError, NilAuth, Incorrect, Schemes, Http

\* Whatever the order of secrets, edits and passes, what a call of git presents is
\* one secret, the first of the url, and of the kind the scheme asks for
\* (config.go:59-87, repo.go:85-140); a url with a secret is tried without it for
\* the fetch and the list of a tag, and only there (repo.go:279, 289).
THEOREM OneSecretIsPresented == Spec => PresentsOneSecret
<1> DEFINE Fits == IF scheme = "ssh"
                     THEN auth'.sshPrivateKey # "" /\ auth'.username = "" /\ auth'.password = ""
                     ELSE auth'.sshPrivateKey = "" /\ auth'.username # ""
    P == /\ auth' = Anonymous =>
              ForTag \/ (scheme \in Http /\ \A i \in 1..Slots : ~Matches(secrets[i]))
         /\ auth' # Anonymous =>
              /\ ~ForTag
              /\ \E i \in 1..Slots :
                   /\ Matches(secrets[i]) /\ \A j \in 1..(i - 1) : ~Matches(secrets[j])
                   /\ \A f \in DOMAIN auth' : auth'[f] = secrets[i][f]
                   /\ Fits
<1>1. ASSUME TypeOK, TagInv, [Next]_vars, Presents PROVE P
  <2> SUFFICES ASSUME ~ForTag, auth' = Auth, ~AuthError, ~NilAuth PROVE P
    BY <1>1, WhoPresents
  <2>2. CASE ~Found
    BY <1>1, <2>2, AnonymousIsHttp, AuthFields
  <2>3. CASE Found
    <3>1. Fits
      BY <1>1, <2>3, SecretFitsScheme, AuthFields
    <3>2. auth' # Anonymous
      <4>1. Anonymous.sshPrivateKey = "" /\ Anonymous.username = ""
        BY DEF Anonymous
      <4> QED
        BY <3>1, <4>1
    <3>3. FirstMatch \in 1..Slots /\ Matches(secrets[FirstMatch])
          /\ \A j \in 1..(FirstMatch - 1) : ~Matches(secrets[j])
      BY <1>1, <2>3, FirstMatchIsFirst, CredentialsAssumption DEF TypeOK
    <3>4. \A f \in DOMAIN auth' : auth'[f] = secrets[FirstMatch][f]
      <4>1. Secret = secrets[FirstMatch] /\ Auth \in AuthData
        BY <1>1, AuthFields DEF Secret
      <4>2. DOMAIN auth' = {"sshPrivateKey", "username", "password"}
        BY <4>1 DEF AuthData
      <4> QED
        BY <1>1, <2>3, <4>1, <4>2, AuthFields
    <3> QED
      BY <3>1, <3>2, <3>3, <3>4
  <2> QED
    BY <2>2, <2>3
<1>2. TypeOK /\ TagInv /\ [Next]_vars => [Presents => P]_vars
  BY <1>1
<1> QED
  BY <1>2, TypeCorrect, TagInvariant, PTL DEF Spec, PresentsOneSecret
=============================================================================
