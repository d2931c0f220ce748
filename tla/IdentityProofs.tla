--------------------------- MODULE IdentityProofs ---------------------------
(***************************************************************************)
(* Proofs about Identity, for any users and operators and any number of    *)
(* logins and calls in progress.                                           *)
(***************************************************************************)
EXTENDS Identity, TLAPS

\* The identity a known name is looked up to is certified.
LEMMA FoundAgrees ==
    ASSUME IInv, NEW n \in Name, Known(n)
    PROVE  /\ Found(n) \in Certificate
           /\ Found(n).name = n
           /\ Agrees(n, Found(n).operator)
<1>1. CASE context.name = n
  BY <1>1 DEF IInv, TypeOK, CertificatesAgree, Found
<1>2. CASE context.name # n
  <2>1. n \in DOMAIN wallet
    BY <1>2 DEF Known
  <2>2. wallet[n] \in Operator \cup {NoOperator} /\ Agrees(n, wallet[n])
    BY <2>1 DEF IInv, TypeOK, CertificatesAgree
  <2> QED
    BY <1>2, <2>2 DEF Found, Certificate
<1> QED
  BY <1>1, <1>2

\* A look-up sets the context to a certified identity, or leaves it.
LEMMA LookUpAgrees ==
    ASSUME IInv, NEW n \in Name, LookUp(n)
    PROVE  context' \in Certificate /\ Agrees(context'.name, context'.operator)
<1>1. CASE Known(n)
  BY <1>1, FoundAgrees DEF LookUp
<1>2. CASE ~Known(n)
  BY <1>2 DEF LookUp, IInv, TypeOK, CertificatesAgree
<1> QED
  BY <1>1, <1>2

\* One login moves; the others, the wallet and the registrations do not.
LEMMA OneLoginMoves ==
    ASSUME IInv, NEW l \in Login, UNCHANGED <<ca, wallet, call>>,
           context' \in Certificate, Agrees(context'.name, context'.operator),
           NEW s \in LoginState \cup {Idle}, login' = [login EXCEPT ![l] = s],
           LoginAgrees(l)',
           tokens' \subseteq Token, TokensAgree'
    PROVE  IInv'
<1>1. \A n, op : Agrees(n, op)' <=> Agrees(n, op)
  BY DEF Agrees
<1>2. TypeOK'
  BY DEF IInv, TypeOK
<1>3. CertificatesAgree'
  BY <1>1 DEF IInv, CertificatesAgree
<1>4. ASSUME NEW m \in Login PROVE LoginAgrees(m)'
  <2>1. CASE m # l
    <3>1. login'[m] = login[m]
      BY <2>1 DEF IInv, TypeOK
    <3> QED
      BY <1>1, <3>1 DEF IInv, LoginAgrees, At
  <2> QED
    BY <2>1
<1>5. OperatorIsRegistered'
  BY DEF IInv, OperatorIsRegistered
<1> QED
  BY <1>2, <1>3, <1>4, <1>5 DEF IInv

\* A login at an await is a record.
LEMMA LoginIsTyped ==
    ASSUME TypeOK, NEW l \in Login, NEW p, At(l, p)
    PROVE  login[l] \in LoginState
BY DEF TypeOK, At

\* A login that is over agrees with anything, whatever Idle is.
LEMMA IdleAgrees ==
    ASSUME NEW l \in Login, login[l] = Idle
    PROVE  LoginAgrees(l)
BY DEF LoginAgrees, At

LEMMA LookStep ==
    ASSUME IInv, NEW l \in Login, NEW n \in Asked, NEW op \in Operator, Look(l, n, op)
    PROVE  IInv'
<1> DEFINE s == [user |-> n, operator |-> op,
                 at |-> IF Known(n) THEN "check" ELSE "register"]
<1>1. n \in Name
  BY NameAssumption DEF Name
<1>2. s \in LoginState /\ login' = [login EXCEPT ![l] = s] /\ login'[l] = s
  BY <1>1 DEF Look, LoginState, IInv, TypeOK
<1>3. s.at = "register" => n \in User
  BY <1>1 DEF Known, Name, IInv, TypeOK
<1>4. LoginAgrees(l)'
  BY <1>2, <1>3 DEF LoginAgrees, At
<1>5. context' \in Certificate /\ Agrees(context'.name, context'.operator)
  BY <1>1, LookUpAgrees DEF Look
<1>6. UNCHANGED <<ca, wallet, call, tokens>> /\ tokens' \subseteq Token /\ TokensAgree'
  BY DEF Look, IInv, TypeOK, TokensAgree
<1> QED
  BY <1>2, <1>4, <1>5, <1>6, OneLoginMoves

\* A new registration leaves the others as they are.
LEMMA RegisterStep ==
    ASSUME IInv, NEW l \in Login, Register(l)
    PROVE  IInv'
<1> DEFINE n == login[l].user
<1>1. login[l] \in LoginState /\ n \in User /\ login[l].operator \in Operator
  BY LoginIsTyped DEF Register, IInv, LoginAgrees, LoginState
<1>2. CASE Free(n)
  <2>1. /\ DOMAIN ca' = DOMAIN ca \cup {n}
        /\ ca'[n] = login[l].operator
        /\ \A m \in DOMAIN ca : ca'[m] = ca[m]
        /\ ca' = [m \in DOMAIN ca' |-> ca'[m]]
    BY <1>2 DEF Register, Free
  <2>2. \A m, op : Agrees(m, op) => Agrees(m, op)'
    BY <2>1 DEF Agrees
  <2>3. UNCHANGED <<wallet, context, call, tokens>>
    BY DEF Register
  <2>4. login' = [login EXCEPT ![l].at = "enroll"]
    BY <1>2 DEF Register, Goes
  <2>5. TypeOK'
    <3>1. DOMAIN ca' \subseteq User /\ ca' \in [DOMAIN ca' -> Operator]
      BY <1>1, <2>1 DEF IInv, TypeOK
    <3>2. login' \in [Login -> LoginState \cup {Idle}]
      BY <1>1, <2>4 DEF IInv, TypeOK, LoginState
    <3> QED
      BY <2>3, <3>1, <3>2 DEF IInv, TypeOK
  <2>6. CertificatesAgree'
    BY <2>2, <2>3 DEF IInv, CertificatesAgree
  <2>7. ASSUME NEW m \in Login PROVE LoginAgrees(m)'
    <3>1. CASE m = l
      <4>1. login'[l] = [login[l] EXCEPT !.at = "enroll"]
        BY <2>4 DEF IInv, TypeOK
      <4>2. login'[l].user = n /\ login'[l].operator = login[l].operator /\ login'[l].at = "enroll"
        BY <1>1, <4>1 DEF LoginState
      <4>3. Agrees(login[l].user, login[l].operator)'
        BY <2>1, <4>2 DEF Agrees
      <4> QED
        BY <3>1, <4>2, <4>3 DEF LoginAgrees, At
    <3>2. CASE m # l
      <4>1. login'[m] = login[m]
        BY <2>4, <3>2 DEF IInv, TypeOK
      <4> QED
        BY <2>2, <4>1 DEF IInv, LoginAgrees, At
    <3> QED
      BY <3>1, <3>2
  <2>8. TokensAgree' /\ OperatorIsRegistered'
    BY <2>1, <2>3 DEF IInv, TokensAgree, OperatorIsRegistered
  <2> QED
    BY <2>5, <2>6, <2>7, <2>8 DEF IInv
<1>3. CASE ~Free(n)
  <2>1. login' = [login EXCEPT ![l] = Idle] /\ login'[l] = Idle
    BY <1>3 DEF Register, Ends, IInv, TypeOK
  <2>2. LoginAgrees(l)'
    BY <2>1, IdleAgrees DEF LoginAgrees, At
  <2>3. UNCHANGED <<ca, wallet, context, call, tokens>>
    BY <1>3 DEF Register
  <2>4. /\ context' \in Certificate /\ Agrees(context'.name, context'.operator)
        /\ tokens' \subseteq Token /\ TokensAgree'
    BY <2>3 DEF IInv, TypeOK, CertificatesAgree, TokensAgree
  <2> QED
    BY <2>1, <2>2, <2>3, <2>4, OneLoginMoves
<1> QED
  BY <1>2, <1>3

LEMMA EnrollStep ==
    ASSUME IInv, NEW l \in Login, Enroll(l)
    PROVE  IInv'
<1> DEFINE s == [login[l] EXCEPT !.at = "save"]
<1>1. login[l] \in LoginState /\ Agrees(login[l].user, login[l].operator)
  BY LoginIsTyped DEF Enroll, IInv, LoginAgrees
<1>2. s \in LoginState /\ s.user = login[l].user /\ s.operator = login[l].operator /\ s.at = "save"
  BY <1>1 DEF LoginState
<1>3. login' = [login EXCEPT ![l] = s] /\ login'[l] = s
  BY DEF Enroll, Goes, IInv, TypeOK
<1>4. context' \in Certificate /\ Agrees(context'.name, context'.operator)
  BY <1>1 DEF Enroll, Certified, LoginState, Certificate
<1>5. UNCHANGED <<ca, wallet, call, tokens>> /\ tokens' \subseteq Token /\ TokensAgree'
  BY DEF Enroll, IInv, TypeOK, TokensAgree
<1>6. LoginAgrees(l)'
  BY <1>1, <1>2, <1>3, <1>5 DEF LoginAgrees, At, Agrees
<1> QED
  BY <1>2, <1>3, <1>4, <1>5, <1>6, OneLoginMoves

\* A login that agrees with the registrations may be issued its token.
LEMMA IssueAgrees ==
    ASSUME IInv, NEW l \in Login, login[l] \in LoginState,
           Agrees(login[l].user, login[l].operator), Issue(l), ca' = ca
    PROVE  /\ tokens' \subseteq Token /\ TokensAgree'
           /\ login' = [login EXCEPT ![l] = Idle] /\ LoginAgrees(l)'
<1>1. login[l].operator # NoOperator
  BY OperatorAssumption DEF LoginState
<1>2. Credentials(l) \in Token /\ Credentials(l).user \in DOMAIN ca
      /\ Credentials(l).operator = ca[Credentials(l).user]
  BY <1>1 DEF Credentials, Token, LoginState, Agrees
<1>3. tokens' = tokens \cup {Credentials(l)} /\ login' = [login EXCEPT ![l] = Idle]
  BY DEF Issue, Ends
<1>4. login'[l] = Idle
  BY <1>3 DEF IInv, TypeOK
<1> QED
  BY <1>2, <1>3, <1>4 DEF IInv, TypeOK, TokensAgree, LoginAgrees, At

LEMMA SaveStep ==
    ASSUME IInv, NEW l \in Login, Save(l)
    PROVE  IInv'
<1> DEFINE n == login[l].user
<1>1. login[l] \in LoginState /\ Agrees(n, login[l].operator)
  BY LoginIsTyped DEF Save, IInv, LoginAgrees
<1>2. UNCHANGED <<ca, context, call>>
  BY DEF Save
<1>3. /\ tokens' \subseteq Token /\ TokensAgree'
      /\ login' = [login EXCEPT ![l] = Idle] /\ LoginAgrees(l)'
  BY <1>1, <1>2, IssueAgrees DEF Save
<1>4. /\ DOMAIN wallet' = DOMAIN wallet \cup {n}
      /\ wallet'[n] = login[l].operator
      /\ \A m \in DOMAIN wallet : m # n => wallet'[m] = wallet[m]
      /\ wallet' = [m \in DOMAIN wallet' |-> wallet'[m]]
  BY DEF Save, Certified
<1>5. TypeOK'
  <2>1. DOMAIN wallet' \subseteq Name /\ Admin \in DOMAIN wallet'
        /\ wallet' \in [DOMAIN wallet' -> Operator \cup {NoOperator}]
    BY <1>1, <1>4 DEF IInv, TypeOK, LoginState
  <2> QED
    BY <1>2, <1>3, <2>1 DEF IInv, TypeOK
<1>6. \A m, op : Agrees(m, op)' <=> Agrees(m, op)
  BY <1>2 DEF Agrees
<1>7. CertificatesAgree'
  BY <1>1, <1>2, <1>4, <1>6 DEF IInv, CertificatesAgree
<1>8. ASSUME NEW m \in Login PROVE LoginAgrees(m)'
  <2>1. CASE m # l
    <3>1. login'[m] = login[m]
      BY <1>3, <2>1 DEF IInv, TypeOK
    <3> QED
      BY <1>6, <3>1 DEF IInv, LoginAgrees, At
  <2> QED
    BY <1>3, <2>1
<1>9. OperatorIsRegistered'
  BY <1>2 DEF IInv, OperatorIsRegistered
<1> QED
  BY <1>3, <1>5, <1>7, <1>8, <1>9 DEF IInv

\* A certificate that names the operator asked for agrees with the token.
LEMMA CheckStep ==
    ASSUME IInv, NEW l \in Login, Check(l)
    PROVE  IInv'
<1> DEFINE n == login[l].user
<1>1. login[l] \in LoginState /\ n \in Name
  BY LoginIsTyped DEF Check, IInv, LoginState
<1>2. context' \in Certificate /\ Agrees(context'.name, context'.operator)
  BY <1>1, LookUpAgrees DEF Check
<1>3. UNCHANGED <<ca, wallet, call>>
  BY DEF Check
<1>4. CASE Known(n) /\ SameOperator(l)
  <2>1. Agrees(n, login[l].operator)
    BY <1>1, <1>4, FoundAgrees DEF SameOperator
  <2>2. Issue(l)
    BY <1>4 DEF Check
  <2>3. /\ tokens' \subseteq Token /\ TokensAgree'
        /\ login' = [login EXCEPT ![l] = Idle] /\ LoginAgrees(l)'
    BY <1>1, <1>3, <2>1, <2>2, IssueAgrees
  <2> QED
    BY <1>2, <1>3, <2>3, OneLoginMoves
<1>5. CASE ~(Known(n) /\ SameOperator(l))
  <2>1. UNCHANGED tokens
    BY <1>5 DEF Check
  <2>2. tokens' \subseteq Token /\ TokensAgree'
    BY <1>3, <2>1 DEF IInv, TypeOK, TokensAgree
  <2>3. PICK s \in {Idle, [login[l] EXCEPT !.at = "refuse"]} : login' = [login EXCEPT ![l] = s]
    BY <1>5 DEF Check, Ends, Goes
  <2>4. s \in LoginState \cup {Idle}
    BY <1>1 DEF LoginState
  <2>5. login'[l] = s
    BY <2>3 DEF IInv, TypeOK
  <2>6. s = Idle \/ s.at = "refuse"
    BY <1>1 DEF LoginState
  <2>7. LoginAgrees(l)'
    BY <2>5, <2>6 DEF LoginAgrees, At
  <2> QED
    BY <1>2, <1>3, <2>2, <2>3, <2>4, <2>7, OneLoginMoves
<1> QED
  BY <1>4, <1>5

\* A login that ends without a token, wherever the context has gone.
LEMMA EndStep ==
    ASSUME IInv, NEW l \in Login, Ends(l), UNCHANGED <<ca, wallet, call, tokens>>,
           context' \in Certificate, Agrees(context'.name, context'.operator)
    PROVE  IInv'
<1>1. login' = [login EXCEPT ![l] = Idle] /\ login'[l] = Idle
  BY DEF Ends, IInv, TypeOK
<1>2. LoginAgrees(l)'
  BY <1>1 DEF LoginAgrees, At
<1>3. tokens' \subseteq Token /\ TokensAgree'
  BY DEF IInv, TypeOK, TokensAgree
<1> QED
  BY <1>1, <1>2, <1>3, OneLoginMoves

\* A call is created by the context, which is certified.
LEMMA CallStep ==
    ASSUME IInv, NEW c \in Call,
           (\E t \in Token : Propose(c, t)) \/ Send(c) \/ Answer(c)
    PROVE  IInv'
<1>1. UNCHANGED <<ca, wallet, context, login, tokens>>
  BY DEF Propose, Send, Answer
<1>2. PICK s \in CallState \cup {Idle} :
        /\ call' = [call EXCEPT ![c] = s]
        /\ s = Idle \/ s.creator = context \/ (call[c] # Idle /\ s.creator = call[c].creator)
  <2>1. ASSUME NEW t \in Token, Propose(c, t)
        PROVE  \E s \in CallState \cup {Idle} :
                 call' = [call EXCEPT ![c] = s] /\ s.creator = context
    <3> DEFINE s == [token |-> t, creator |-> context, at |-> "proposed"]
    <3>1. s \in CallState /\ s.creator = context
      BY DEF IInv, TypeOK, CallState
    <3>2. call' = [call EXCEPT ![c] = s]
      BY <2>1 DEF Propose
    <3> QED
      BY <3>1, <3>2
  <2>2. ASSUME Send(c)
        PROVE  \E s \in CallState \cup {Idle} :
                 /\ call' = [call EXCEPT ![c] = s]
                 /\ s = Idle \/ (call[c] # Idle /\ s.creator = call[c].creator)
    <3> DEFINE s == IF context = call[c].creator
                    THEN [call[c] EXCEPT !.at = "ordered"] ELSE Idle
    <3>1. call[c] \in CallState
      BY <2>2 DEF Send, IInv, TypeOK
    <3>2. s \in CallState \cup {Idle} /\ (s = Idle \/ s.creator = call[c].creator)
      BY <3>1 DEF CallState
    <3>3. call' = [call EXCEPT ![c] = s] /\ call[c] # Idle
      BY <2>2 DEF Send
    <3> QED
      BY <3>2, <3>3
  <2>3. ASSUME Answer(c) PROVE call' = [call EXCEPT ![c] = Idle]
    BY <2>3 DEF Answer
  <2> QED
    BY <2>1, <2>2, <2>3
<1>3. TypeOK'
  BY <1>1, <1>2 DEF IInv, TypeOK
<1>4. OperatorIsRegistered'
  <2> SUFFICES ASSUME NEW d \in Call, call'[d] # Idle
               PROVE  \/ call'[d].creator = AdminCertificate
                      \/ /\ call'[d].creator.name \in DOMAIN ca
                         /\ call'[d].creator.operator = ca[call'[d].creator.name]
    BY <1>1 DEF OperatorIsRegistered
  <2>1. \/ context = AdminCertificate
        \/ context.name \in DOMAIN ca /\ context.operator = ca[context.name]
    BY DEF IInv, TypeOK, CertificatesAgree, Agrees, Certificate, AdminCertificate
  <2>2. \/ call[d] # Idle /\ call'[d].creator = call[d].creator
        \/ call'[d].creator = context
    BY <1>2 DEF IInv, TypeOK
  <2> QED
    BY <2>1, <2>2 DEF IInv, OperatorIsRegistered
<1>5. CertificatesAgree' /\ (\A l \in Login : LoginAgrees(l)') /\ TokensAgree'
  BY <1>1 DEF IInv, CertificatesAgree, LoginAgrees, TokensAgree, Agrees, At
<1> QED
  BY <1>3, <1>4, <1>5 DEF IInv

LEMMA RestartStep ==
    ASSUME IInv, NEW kept \in {wallet, AdminWallet}, Restart(kept)
    PROVE  IInv'
<1>1. DOMAIN wallet' \subseteq Name /\ Admin \in DOMAIN wallet'
      /\ wallet' \in [DOMAIN wallet' -> Operator \cup {NoOperator}]
  BY DEF Restart, IInv, TypeOK, AdminWallet, Name
<1>2. TypeOK'
  BY <1>1 DEF Restart, IInv, TypeOK, AdminCertificate, Certificate, Name
<1>3. CertificatesAgree'
  BY DEF Restart, IInv, CertificatesAgree, Agrees, AdminWallet, AdminCertificate
<1>4. (\A l \in Login : LoginAgrees(l)') /\ OperatorIsRegistered' /\ TokensAgree'
  BY DEF Restart, LoginAgrees, At, OperatorIsRegistered, IInv, TokensAgree
<1> QED
  BY <1>2, <1>3, <1>4 DEF IInv

LEMMA InitInv == Init => IInv
BY DEF Init, IInv, TypeOK, CertificatesAgree, LoginAgrees, TokensAgree, OperatorIsRegistered,
       Agrees, At, AdminWallet, AdminCertificate, Certificate, Name

LEMMA NextInv == IInv /\ [Next]_vars => IInv'
<1> SUFFICES ASSUME IInv, [Next]_vars PROVE IInv'
  OBVIOUS
<1>1. ASSUME NEW l \in Login, NEW n \in Asked, NEW op \in Operator, Look(l, n, op) PROVE IInv'
  BY <1>1, LookStep
<1>2. ASSUME NEW l \in Login, Register(l) PROVE IInv'
  BY <1>2, RegisterStep
<1>3. ASSUME NEW l \in Login, Enroll(l) PROVE IInv'
  BY <1>3, EnrollStep
<1>4. ASSUME NEW l \in Login, Save(l) PROVE IInv'
  BY <1>4, SaveStep
<1>5. ASSUME NEW l \in Login, Check(l) PROVE IInv'
  BY <1>5, CheckStep
<1>6. ASSUME NEW l \in Login, Refuse(l) PROVE IInv'
  <2>1. login[l].user \in Name
    BY <1>6, LoginIsTyped DEF Refuse, IInv, LoginState
  <2>2. context' \in Certificate /\ Agrees(context'.name, context'.operator)
    BY <1>6, <2>1, LookUpAgrees DEF Refuse
  <2> QED
    BY <1>6, <2>2, EndStep DEF Refuse
<1>7. ASSUME NEW l \in Login, Fail(l) PROVE IInv'
  <2>1. context' \in Certificate /\ Agrees(context'.name, context'.operator)
    BY <1>7 DEF Fail, IInv, TypeOK, CertificatesAgree
  <2> QED
    BY <1>7, <2>1, EndStep DEF Fail
<1>8. ASSUME NEW c \in Call, (\E t \in Token : Propose(c, t)) \/ Send(c) \/ Answer(c) PROVE IInv'
  BY <1>8, CallStep
<1>9. ASSUME NEW kept \in {wallet, AdminWallet}, Restart(kept) PROVE IInv'
  BY <1>9, RestartStep
<1>10. CASE UNCHANGED vars
  BY <1>10 DEF vars, IInv, TypeOK, CertificatesAgree, LoginAgrees, TokensAgree,
               OperatorIsRegistered, Agrees, At
<1> QED
  BY <1>1, <1>2, <1>3, <1>4, <1>5, <1>6, <1>7, <1>8, <1>9, <1>10 DEF Next

\* Certificates, logins and tokens of one username agree on its operator, which is the
\* one registered for it (proves IInv).
THEOREM Inductive == Spec => []IInv
<1> QED
  BY InitInv, NextInv, PTL DEF Spec

\* State, logins and calls are always what TypeOK says.
THEOREM IdentityTypes == Spec => []TypeOK
<1>1. IInv => TypeOK
  BY DEF IInv
<1> QED
  BY <1>1, Inductive, PTL

\* However many logins for a username run at once, fail or are repeated after
\* a restart, its tokens name one operator (generateToken, jwt.auth.js 48-63).
THEOREM OneOperatorPerName == Spec => []NameKeepsOperator
<1>1. IInv => NameKeepsOperator
  BY DEF IInv, TokensAgree, NameKeepsOperator
<1> QED
  BY <1>1, Inductive, PTL

\* The operator the chaincodes see behind a call is the one registered for the
\* call's creator, whoever logs in meanwhile (chain.service.js 130-149).
THEOREM SignersAreRegistered == Spec => []OperatorIsRegistered
<1>1. IInv => OperatorIsRegistered
  BY DEF IInv
<1> QED
  BY <1>1, Inductive, PTL
=============================================================================
