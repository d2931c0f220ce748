------------------------------ MODULE Identity ------------------------------
(***************************************************************************)
(* In whose name the API calls the ledger.  A login (POST auth/login)      *)
(* looks the username up, registers and enrols it with the certificate     *)
(* authority when it is not found, or else compares the operator in its    *)
(* certificate, and answers with a token.  The process has one Fabric      *)
(* client with one user context: each of these steps sets it, and every    *)
(* call is created and signed by the identity it holds at that moment,     *)
(* whoever the token of the request names.                                 *)
(*                                                                         *)
(* A username found in the context or in the wallet (a folder of the       *)
(* container) is known to the process.  The certificate authority keeps    *)
(* its own registrations, across the process's restarts, and registers a   *)
(* username only once.                                                     *)
(***************************************************************************)
CONSTANTS
    User,        \* usernames of the operators' end users
    Admin,       \* the enrolment identity of the process itself
    Asked,       \* usernames logins ask for; any string passes the route's schema
    Operator,    \* carpool operators
    NoOperator,  \* what the certificate of Admin says of its operator
    Login,       \* slots for logins in progress
    Call,        \* slots for ledger calls in progress
    Idle         \* an empty slot

ASSUME NameAssumption == Admin \notin User /\ Asked \subseteq User \cup {Admin}

ASSUME OperatorAssumption == NoOperator \notin Operator

VARIABLES
    ca,      \* operator each username registered at the certificate authority has
    wallet,  \* operator in the certificate of each username stored by the process
    context, \* the identity the Fabric client signs with
    login,   \* logins in progress, each at the await it is suspended at
    call,    \* ledger calls in progress
    tokens   \* tokens issued so far; the process does not keep them

vars == <<ca, wallet, context, login, call, tokens>>

-----------------------------------------------------------------------------
Name == User \cup {Admin}

\* A certificate: who it names, and its operator attribute.
Certificate == [name : Name, operator : Operator \cup {NoOperator}]

AdminCertificate == [name |-> Admin, operator |-> NoOperator]

\* What a token says, and req.user of the requests that carry it.
Token == [user : Name, operator : Operator]

LoginState ==
    [user : Name, operator : Operator,
     at : {"register", "enroll", "save", "check", "refuse"}]

CallState ==
    [token : Token, creator : Certificate, at : {"proposed", "ordered"}]

TypeOK ==
    /\ DOMAIN ca \subseteq User /\ ca \in [DOMAIN ca -> Operator]
    /\ DOMAIN wallet \subseteq Name /\ Admin \in DOMAIN wallet
    /\ wallet \in [DOMAIN wallet -> Operator \cup {NoOperator}]
    /\ context \in Certificate
    /\ login \in [Login -> LoginState \cup {Idle}]
    /\ call \in [Call -> CallState \cup {Idle}]
    /\ tokens \subseteq Token

AdminWallet == [n \in {Admin} |-> NoOperator]

Init ==
    /\ ca = [n \in {} |-> NoOperator]
    /\ wallet = AdminWallet
    /\ context = AdminCertificate
    /\ login = [l \in Login |-> Idle]
    /\ call = [c \in Call |-> Idle]
    /\ tokens = {}

-----------------------------------------------------------------------------
(* The Fabric client's user context.                                       *)

\* getUserContext(n, true) finds n: it is the context, or in the wallet.
Known(n) == context.name = n \/ n \in DOMAIN wallet

\* The certificate it finds.
Found(n) ==
    IF context.name = n THEN context ELSE [name |-> n, operator |-> wallet[n]]

\* Faulty variant of LookUp: looking up an unknown name clears the context.
LookUpOrClear(n) == context' = IF Known(n) THEN Found(n) ELSE Idle

\* It becomes the context; looking up an unknown name leaves the context.
LookUp(n) == context' = IF Known(n) THEN Found(n) ELSE context

-----------------------------------------------------------------------------
(* POST auth/login.                                                        *)

At(l, point) == login[l] # Idle /\ login[l].at = point

Goes(l, point) == login' = [login EXCEPT ![l].at = point]

Ends(l) == login' = [login EXCEPT ![l] = Idle]

\* Credentials of a login, as the token repeats them.
Credentials(l) == [user |-> login[l].user, operator |-> login[l].operator]

Issue(l) == tokens' = tokens \cup {Credentials(l)} /\ Ends(l)

\* generateToken starts; getUserFromStore.
Look(l, n, op) ==
    /\ login[l] = Idle
    /\ login' = [login EXCEPT ![l] =
                  [user |-> n, operator |-> op,
                   at |-> IF Known(n) THEN "check" ELSE "register"]]
    /\ LookUp(n)
    /\ UNCHANGED <<ca, wallet, call, tokens>>

\* The certificate authority knows no such username yet.
Free(n) == n \notin DOMAIN ca

\* createUser: register.  A username already registered is an error (500).
Register(l) ==
    /\ At(l, "register")
    /\ LET n == login[l].user IN
       IF Free(n)
       THEN /\ ca' = [m \in DOMAIN ca \cup {n} |->
                       IF m = n THEN login[l].operator ELSE ca[m]]
            /\ Goes(l, "enroll")
       ELSE Ends(l) /\ UNCHANGED ca
    /\ UNCHANGED <<wallet, context, call, tokens>>

\* Faulty variant of Certified: the attribute is not asked for.
CertifiedWithoutOperator(l) == [name |-> login[l].user, operator |-> NoOperator]

\* The certificate issued, with the operator attribute registered and asked for.
Certified(l) == [name |-> login[l].user, operator |-> login[l].operator]

\* enrollUser: the Fabric client's createUser makes the certificate the context
\* before it stores it.
Enroll(l) ==
    /\ At(l, "enroll")
    /\ context' = Certified(l)
    /\ Goes(l, "save")
    /\ UNCHANGED <<ca, wallet, call, tokens>>

\* The certificate is in the wallet, and the token is issued.
Save(l) ==
    /\ At(l, "save")
    /\ LET n == login[l].user IN
       wallet' = [m \in DOMAIN wallet \cup {n} |->
                   IF m = n THEN Certified(l).operator ELSE wallet[m]]
    /\ Issue(l)
    /\ UNCHANGED <<ca, context, call>>

\* Faulty variant of SameOperator: any known username will do.
SameOperatorIfKnown(l) == Known(login[l].user)

\* checkUserOperator's comparison.
SameOperator(l) == Found(login[l].user).operator = login[l].operator

\* checkUserCredsOperator: the name is looked up again.  If it was in the
\* context only and another login has replaced it, that is an error (500).
Check(l) ==
    /\ At(l, "check")
    /\ LookUp(login[l].user)
    /\ IF ~Known(login[l].user)
       THEN Ends(l) /\ UNCHANGED tokens
       ELSE IF SameOperator(l)
            THEN Issue(l)
            ELSE Goes(l, "refuse") /\ UNCHANGED tokens
    /\ UNCHANGED <<ca, wallet, call>>

\* getUserCredsOperator, for the log, then 401 (or 500 when it finds nobody).
Refuse(l) ==
    /\ At(l, "refuse")
    /\ LookUp(login[l].user)
    /\ Ends(l)
    /\ UNCHANGED <<ca, wallet, call, tokens>>

\* The certificate authority or the folder fails: the login is answered 500
\* and what it did so far stays.
Fail(l) ==
    /\ login[l] # Idle
    /\ Ends(l)
    /\ UNCHANGED <<ca, wallet, context, call, tokens>>

-----------------------------------------------------------------------------
(* Calls of the ledger, made by every handler behind isAuthorized.         *)

\* isAuthorized: a token is checked by its signature, not against a session.
Authorized(t) == t \in tokens

\* invokeRequest, then _sendTransactionProposal: created and signed by the context of now.  The
\* token's user is passed to invokeRequest, which does not use it.
Propose(c, t) ==
    /\ call[c] = Idle
    /\ Authorized(t)
    /\ call' = [call EXCEPT ![c] =
                 [token |-> t, creator |-> context, at |-> "proposed"]]
    /\ UNCHANGED <<ca, wallet, context, login, tokens>>

\* sendTransaction: the envelope is signed by the context of now, and the
\* orderer refuses it unless that is the proposal's creator.
Send(c) ==
    /\ call[c] # Idle
    /\ call[c].at = "proposed"
    /\ call' = [call EXCEPT ![c] =
                 IF context = call[c].creator THEN [@ EXCEPT !.at = "ordered"]
                 ELSE Idle]
    /\ UNCHANGED <<ca, wallet, context, login, tokens>>

\* The call is answered, or fails.
Answer(c) ==
    /\ call[c] # Idle
    /\ call' = [call EXCEPT ![c] = Idle]
    /\ UNCHANGED <<ca, wallet, context, login, tokens>>

-----------------------------------------------------------------------------
\* The process starts again, its handlers gone and the administrator its
\* context.  The wallet is the container's: it survives a restart, not a new
\* container.
Restart(kept) ==
    /\ wallet' = kept
    /\ context' = AdminCertificate
    /\ login' = [l \in Login |-> Idle]
    /\ call' = [c \in Call |-> Idle]
    /\ UNCHANGED <<ca, tokens>>

Next ==
    \/ \E l \in Login :
        \/ \E n \in Asked, op \in Operator : Look(l, n, op)
        \/ Register(l) \/ Enroll(l) \/ Save(l)
        \/ Check(l) \/ Refuse(l) \/ Fail(l)
    \/ \E c \in Call :
        \/ \E t \in Token : Propose(c, t)
        \/ Send(c) \/ Answer(c)
    \/ \E kept \in {wallet, AdminWallet} : Restart(kept)

Spec == Init /\ [][Next]_vars

-----------------------------------------------------------------------------
(* One username, one operator: whatever logins run at once, fail or are    *)
(* repeated after a restart, all tokens issued for a username name one     *)
(* operator ("Should fails when changing operator", auth.test.js 38).      *)
NameKeepsOperator ==
    \A s, t \in tokens : s.user = t.user => s.operator = t.operator

(* What the chaincodes read as the invoker's operator is what the          *)
(* certificate authority has registered for the call's creator, however    *)
(* logins and calls interleave; only Admin's calls carry none.             *)
OperatorIsRegistered ==
    \A c \in Call : call[c] # Idle =>
        LET signer == call[c].creator IN
        \/ signer = AdminCertificate
        \/ signer.name \in DOMAIN ca /\ signer.operator = ca[signer.name]

\* The certificate authority has op registered for n, or n is Admin.
Agrees(n, op) ==
    \/ n = Admin /\ op = NoOperator
    \/ n \in DOMAIN ca /\ op = ca[n]

CertificatesAgree ==
    /\ Agrees(context.name, context.operator)
    /\ \A n \in DOMAIN wallet : Agrees(n, wallet[n])

\* What a login that registers or enrols has to do with the registrations.
LoginAgrees(l) ==
    /\ At(l, "register") => login[l].user \in User
    /\ At(l, "enroll") \/ At(l, "save") => Agrees(login[l].user, login[l].operator)

TokensAgree == \A t \in tokens : t.user \in DOMAIN ca /\ t.operator = ca[t.user]

(* A username has one certificate at most, that of its registration: what  *)
(* the process stores, signs with, is about to store or has issued tokens  *)
(* for agrees with the certificate authority.                              *)
IInv ==
    /\ TypeOK
    /\ CertificatesAgree
    /\ \A l \in Login : LoginAgrees(l)
    /\ TokensAgree
    /\ OperatorIsRegistered

(* A call is made in the name of the user whose token the request carries  *)
(* ("@param {string} userId" of invokeRequest, requesthelper.js 27).       *)
SignedByRequester ==
    \A c \in Call :
        call[c] # Idle /\ call[c].at = "ordered" =>
            call[c].creator.name = call[c].token.user
=============================================================================
