----------------------------- MODULE AccountsProofs -----------------------------
(*****************************************************************************)
(* Proofs about the accounts, for any clients, users, passwords, nicknames   *)
(* and scenarios: a user is logged in on one connection at most, what a      *)
(* user was told is what the database has, clients, workers and database     *)
(* agree, accounts change only for their users, and no form waits for        *)
(* ever.                                                                     *)
(*****************************************************************************)
EXTENDS Accounts, FiniteSetTheorems, TLAPS

-----------------------------------------------------------------------------
(***************************************************************************)
(* One session.  Only a login gives a worker a user name, and it looks at  *)
(* all the other workers first.                                            *)
(***************************************************************************)

\* workers is a function, and its values are pairs of names.
WorkersShaped ==
  /\ workers = [k \in DOMAIN workers |-> workers[k]]
  /\ \A k \in DOMAIN workers :
       workers[k] = [username |-> workers[k].username, nickname |-> workers[k].nickname]

SessionInv == WorkersShaped /\ OneSession

\* A worker has the user name it had, or none.
NamesKept ==
  \A k \in DOMAIN workers' :
    \/ workers'[k].username = None
    \/ k \in DOMAIN workers /\ workers'[k].username = workers[k].username

LEMMA KeptOneSession == OneSession /\ NamesKept => OneSession'
BY DEF OneSession, NamesKept

\* A new connection brings a worker without a user name, incomingConnection.
LEMMA ConnectedWorkers ==
  ASSUME SessionInv, NEW k, workers' = Added(workers, k, LoggedOut)
  PROVE  SessionInv'
<1>1. workers' = [j \in DOMAIN workers \cup {k} |->
                    IF j \in DOMAIN workers THEN workers[j] ELSE LoggedOut]
  BY DEF Added
<1>2. NamesKept
  BY <1>1 DEF NamesKept, LoggedOut
<1>3. WorkersShaped'
  BY <1>1 DEF WorkersShaped, SessionInv, LoggedOut
<1> QED
  BY <1>2, <1>3, KeptOneSession DEF SessionInv

LEMMA SameWorkers == ASSUME SessionInv, UNCHANGED workers PROVE SessionInv'
BY DEF SessionInv, WorkersShaped, OneSession

\* Requests of the windows of login and sign-up connect if need be.
LEMMA SendsSession ==
  ASSUME SessionInv, NEW c, NEW requests, Sends(c, requests)
  PROVE  SessionInv'
<1> DEFINE k == IF socket[c] # 0 THEN socket[c] ELSE connections + 1
<1>1. workers' = Added(workers, k, LoggedOut)
  BY DEF Sends
<1> QED
  BY <1>1, ConnectedWorkers

LEMMA UserSession == ASSUME SessionInv, NEW c, User(c) PROVE SessionInv'
<1>1. CASE try_to_log(c)
  BY <1>1, SendsSession DEF try_to_log
<1>2. CASE ChangesWindow(c)
  BY <1>2, SameWorkers DEF ChangesWindow
<1>3. CASE EntersUsername(c)
  BY <1>3, SendsSession DEF EntersUsername
<1>4. CASE on_pushButtonSignup_clicked(c)
  BY <1>4, SendsSession DEF on_pushButtonSignup_clicked
<1>5. CASE on_pushSaveNickname_clicked(c)
  BY <1>5, SameWorkers DEF on_pushSaveNickname_clicked, SendsInSession
<1>6. CASE EntersOldPassword(c)
  BY <1>6, SameWorkers DEF EntersOldPassword, SendsInSession
<1>7. CASE on_pushButtonSavePassword_clicked(c)
  BY <1>7, SameWorkers DEF on_pushButtonSavePassword_clicked, SendsInSession
<1>8. CASE on_logOut(c)
  BY <1>8, SameWorkers DEF on_logOut
<1>9. CASE ConnectionDrops(c)
  BY <1>9, SameWorkers DEF ConnectionDrops
<1>10. CASE WarningEnds(c)
  BY <1>10, SameWorkers DEF WarningEnds, network
<1> QED
  BY <1>1, <1>2, <1>3, <1>4, <1>5, <1>6, <1>7, <1>8, <1>9, <1>10 DEF User

LEMMA ListensSession == ASSUME SessionInv, NEW c, Listens(c) PROVE SessionInv'
<1>1. UNCHANGED workers
  BY DEF Listens, HearsLogin, HearsLoginFailed, HearsLate, HearsSignup, HearsCheckUsername,
         HearsOldPassword, HearsUpdate, Hears
<1> QED
  BY <1>1, SameWorkers

\* checkCredentials gives the worker a user name no other worker has.
LEMMA LoginSession == ASSUME SessionInv, NEW k, checkCredentials(k) PROVE SessionInv'
<1> DEFINE u == Head(up[k]).username
<1>1. \/ UNCHANGED workers
      \/ /\ \A w \in DOMAIN workers : workers[w].username # u
         /\ workers' = [workers EXCEPT ![k] = LoggedInAs(u)]
  BY DEF checkCredentials
<1>2. CASE UNCHANGED workers
  BY <1>2, SameWorkers
<1>3. CASE /\ \A w \in DOMAIN workers : workers[w].username # u
           /\ workers' = [workers EXCEPT ![k] = LoggedInAs(u)]
  <2>1. /\ DOMAIN workers' = DOMAIN workers
        /\ \A j \in DOMAIN workers : workers'[j] = IF j = k THEN LoggedInAs(u) ELSE workers[j]
    BY <1>3
  <2>2. OneSession'
    BY <1>3, <2>1 DEF SessionInv, OneSession, LoggedInAs
  <2>3. WorkersShaped'
    BY <1>3, <2>1 DEF SessionInv, WorkersShaped, LoggedInAs
  <2> QED
    BY <2>2, <2>3 DEF SessionInv
<1> QED
  BY <1>1, <1>2, <1>3

LEMMA HandlesSession == ASSUME SessionInv, NEW k, Handles(k) PROVE SessionInv'
<1>1. CASE checkCredentials(k)
  BY <1>1, LoginSession
<1>2. CASE checkAlreadyExistingUsername(k)
  BY <1>2, SameWorkers DEF checkAlreadyExistingUsername
<1>3. CASE signup(k)
  BY <1>3, SameWorkers DEF signup
<1>4. CASE updateNick(k)
  <2> DEFINE n == Head(up[k]).nickname
  <2>1. workers' = [workers EXCEPT ![k].nickname = n]
    BY <1>4 DEF updateNick
  <2>2. /\ DOMAIN workers' = DOMAIN workers
        /\ \A j \in DOMAIN workers :
             workers'[j] = [username |-> workers[j].username,
                            nickname |-> IF j = k THEN n ELSE workers[j].nickname]
    BY <2>1 DEF SessionInv, WorkersShaped
  <2>3. NamesKept
    BY <2>2 DEF NamesKept
  <2>4. workers' = [j \in DOMAIN workers' |-> workers'[j]]
    BY <2>1
  <2>5. WorkersShaped'
    BY <2>2, <2>4 DEF WorkersShaped
  <2> QED
    BY <2>3, <2>5, KeptOneSession DEF SessionInv
<1>5. CASE updatePass(k)
  BY <1>5, SameWorkers DEF updatePass
<1>6. CASE checkOldPass(k)
  BY <1>6, SameWorkers DEF checkOldPass
<1>7. CASE Ignores(k)
  BY <1>7, SameWorkers DEF Ignores
<1>8. CASE userDisconnected(k)
  <2>1. workers' = [j \in DOMAIN workers \ {k} |-> workers[j]]
    BY <1>8 DEF userDisconnected, Restrict
  <2>2. NamesKept /\ WorkersShaped'
    BY <2>1 DEF NamesKept, WorkersShaped, SessionInv
  <2> QED
    BY <2>2, KeptOneSession DEF SessionInv
<1> QED
  BY <1>1, <1>2, <1>3, <1>4, <1>5, <1>6, <1>7, <1>8 DEF Handles

\* The clients that are logged in at the start are different users.
LEMMA InitSession == Init => SessionInv
<1> SUFFICES ASSUME Init PROVE SessionInv
  OBVIOUS
<1>0. PICK start \in Starts : Connected(start.home)
  BY DEF Init
<1> DEFINE started == Cardinality(DOMAIN start.home)
<1>1. PICK user \in Bijection(1 .. started, DOMAIN start.home) :
        workers = [k \in 1 .. started |-> [username |-> start.home[user[k]],
                                           nickname |-> FirstPart[start.home[user[k]]]]]
  BY <1>0 DEF Connected
<1>2. IsInjective(start.home)
  BY StartsAssumption
<1>3. \A j, k \in DOMAIN workers : j # k => start.home[user[j]] # start.home[user[k]]
  BY <1>1, <1>2 DEF Bijection, Injection, IsInjective
<1>4. OneSession
  BY <1>1, <1>3 DEF OneSession
<1>5. WorkersShaped
  BY <1>1 DEF WorkersShaped
<1> QED
  BY <1>4, <1>5 DEF SessionInv

\* A user is logged in on one connection at most (checkCredentials looks at
\* m_clients), whatever the clients do and whichever connections are lost.
THEOREM OneSessionHolds == Spec => []OneSession
<1>1. Init => SessionInv
  BY InitSession
<1>2. SessionInv /\ [Next]_vars => SessionInv'
  <2> SUFFICES ASSUME SessionInv, [Next]_vars PROVE SessionInv'
    OBVIOUS
  <2>1. CASE UNCHANGED vars
    BY <2>1, SameWorkers DEF vars, network
  <2>2. CASE Next
    BY <2>2, UserSession, ListensSession, HandlesSession DEF Next
  <2> QED
    BY <2>1, <2>2
<1>3. SessionInv => OneSession
  BY DEF SessionInv
<1> QED
  BY <1>1, <1>2, <1>3, PTL DEF Spec

-----------------------------------------------------------------------------
(***************************************************************************)
(* What users are told.  Two errors are answered as a success: of the      *)
(* hashing in a sign-up, and any of a change of password.  Without them    *)
(* the database has what each user was told last.                          *)
(***************************************************************************)

AnsweredAsSuccess ==
  {<<"signup", "CRYPTO_ERROR">>, <<"password", "CRYPTO_ERROR">>, <<"password", "QUERY_ERROR">>}

\* accounts and told are functions, and an account is a password and a nickname.
AccountsShaped ==
  /\ accounts = [u \in DOMAIN accounts |-> accounts[u]]
  /\ \A u \in DOMAIN accounts :
       accounts[u] = [password |-> accounts[u].password, nickname |-> accounts[u].nickname]
  /\ told = [u \in Users |-> told[u]]

StoredInv == AccountsShaped /\ ToldIsStored

LEMMA SameAccounts == ASSUME StoredInv, UNCHANGED <<accounts, told>> PROVE StoredInv'
BY DEF StoredInv, AccountsShaped, ToldIsStored

\* Users and the answers they hear change nothing in the database.
LEMMA ClientStored == ASSUME StoredInv, NEW c, User(c) \/ Listens(c) PROVE StoredInv'
<1>1. CASE User(c)
  <2>1. UNCHANGED <<accounts, told>>
    BY <1>1 DEF User, try_to_log, ChangesWindow, EntersUsername, on_pushButtonSignup_clicked,
                on_pushSaveNickname_clicked, EntersOldPassword,
                on_pushButtonSavePassword_clicked, on_logOut, ConnectionDrops, WarningEnds,
                UserActs
  <2> QED
    BY <2>1, SameAccounts
<1>2. CASE Listens(c)
  <2>1. UNCHANGED <<accounts, told>>
    BY <1>2 DEF Listens, HearsLogin, HearsLoginFailed, HearsLate, HearsSignup,
                HearsCheckUsername, HearsOldPassword, HearsUpdate, Hears
  <2> QED
    BY <2>1, SameAccounts
<1> QED
  BY <1>1, <1>2

\* Mongo::signup inserts a user only if there is none of the name.
LEMMA SignupStored ==
  ASSUME StoredInv, Failing \cap AnsweredAsSuccess = {}, NEW k, signup(k)
  PROVE  StoredInv'
<1> DEFINE u == Head(up[k]).username
           p == Head(up[k]).password
<1>1. PICK r \in Results("signup", Existence(u)) :
        /\ MongoSignup(u, p, r)
        /\ told' = IF r \notin {"QUERY_ERROR", "ALREADY_EXISTING_USER"}
                   THEN [told EXCEPT ![u] = p] ELSE told
  BY DEF signup
<1>2. CASE r \in {"QUERY_ERROR", "ALREADY_EXISTING_USER"}
  BY <1>1, <1>2, SameAccounts DEF MongoSignup
<1>3. CASE r \notin {"QUERY_ERROR", "ALREADY_EXISTING_USER"}
  <2>1. r # "CRYPTO_ERROR"
    BY <1>1 DEF Results, Existence, AnsweredAsSuccess
  <2>2. r = "SUCCESS" /\ u \notin DOMAIN accounts
    BY <1>1, <1>3, <2>1 DEF Results, Existence
  <2>3. /\ accounts' = Added(accounts, u, [password |-> p, nickname |-> FirstPart[u]])
        /\ told' = [told EXCEPT ![u] = p]
    BY <1>1, <1>3, <2>2 DEF MongoSignup
  <2>4. AccountsShaped'
    BY <2>3 DEF StoredInv, AccountsShaped, Added
  <2>5. ToldIsStored'
    BY <2>2, <2>3 DEF StoredInv, AccountsShaped, ToldIsStored, Added
  <2> QED
    BY <2>4, <2>5 DEF StoredInv
<1> QED
  BY <1>2, <1>3

\* Mongo::updatePassword changes the password only of who gives the former one.
LEMMA PasswordStored ==
  ASSUME StoredInv, Failing \cap AnsweredAsSuccess = {}, NEW k, updatePass(k)
  PROVE  StoredInv'
<1> DEFINE m == Head(up[k])
<1>1. PICK r \in Results("password", Verified(m.username, m.password)) :
        /\ MongoUpdate(m.username, "password", m.newpass, r)
        /\ told' = IF r \notin {"NON_EXISTING_USER", "WRONG_PASSWORD"}
                   THEN [told EXCEPT ![m.username] = m.newpass] ELSE told
  BY DEF updatePass
<1>2. r = Verified(m.username, m.password)
  BY <1>1 DEF Results, AnsweredAsSuccess
<1>3. CASE r # "SUCCESS"
  <2>1. r \in {"NON_EXISTING_USER", "WRONG_PASSWORD"}
    BY <1>2, <1>3 DEF Verified
  <2> QED
    BY <1>1, <1>3, <2>1, SameAccounts DEF MongoUpdate
<1>4. CASE r = "SUCCESS"
  <2>1. m.username \in DOMAIN accounts
    BY <1>2, <1>4 DEF Verified
  <2>2. /\ accounts' = [accounts EXCEPT ![m.username]["password"] = m.newpass]
        /\ told' = [told EXCEPT ![m.username] = m.newpass]
    BY <1>1, <1>4 DEF MongoUpdate
  <2>3. /\ DOMAIN accounts' = DOMAIN accounts
        /\ \A u \in DOMAIN accounts :
             accounts'[u] = [password |-> IF u = m.username THEN m.newpass
                                          ELSE accounts[u].password,
                             nickname |-> accounts[u].nickname]
    BY <2>2 DEF StoredInv, AccountsShaped
  <2>4. accounts' = [u \in DOMAIN accounts' |-> accounts'[u]]
    BY <2>2
  <2>5. AccountsShaped'
    BY <2>2, <2>3, <2>4 DEF StoredInv, AccountsShaped
  <2>6. ToldIsStored'
    BY <2>1, <2>2, <2>3 DEF StoredInv, AccountsShaped, ToldIsStored
  <2> QED
    BY <2>5, <2>6 DEF StoredInv
<1> QED
  BY <1>3, <1>4

\* A change of nickname leaves the password.
LEMMA NicknameStored == ASSUME StoredInv, NEW k, updateNick(k) PROVE StoredInv'
<1> DEFINE m == Head(up[k])
<1>1. PICK r : MongoUpdate(m.username, "nickname", m.nickname, r) /\ UNCHANGED told
  BY DEF updateNick
<1>2. CASE r # "SUCCESS"
  BY <1>1, <1>2, SameAccounts DEF MongoUpdate
<1>3. CASE r = "SUCCESS"
  <2>1. accounts' = [accounts EXCEPT ![m.username]["nickname"] = m.nickname]
    BY <1>1, <1>3 DEF MongoUpdate
  <2>2. /\ DOMAIN accounts' = DOMAIN accounts
        /\ \A u \in DOMAIN accounts :
             accounts'[u] = [password |-> accounts[u].password,
                             nickname |-> IF u = m.username THEN m.nickname
                                          ELSE accounts[u].nickname]
    BY <2>1 DEF StoredInv, AccountsShaped
  <2>3. accounts' = [u \in DOMAIN accounts' |-> accounts'[u]]
    BY <2>1
  <2>4. AccountsShaped'
    BY <1>1, <2>2, <2>3 DEF StoredInv, AccountsShaped
  <2>5. ToldIsStored'
    BY <1>1, <2>2 DEF StoredInv, ToldIsStored
  <2> QED
    BY <2>4, <2>5 DEF StoredInv
<1> QED
  BY <1>2, <1>3

LEMMA HandlesStored ==
  ASSUME StoredInv, Failing \cap AnsweredAsSuccess = {}, NEW k, Handles(k)
  PROVE  StoredInv'
<1>1. CASE signup(k)
  BY <1>1, SignupStored
<1>2. CASE updateNick(k)
  BY <1>2, NicknameStored
<1>3. CASE updatePass(k)
  BY <1>3, PasswordStored
<1>4. CASE \/ checkCredentials(k) \/ checkAlreadyExistingUsername(k) \/ checkOldPass(k)
           \/ Ignores(k) \/ userDisconnected(k)
  <2>1. UNCHANGED <<accounts, told>>
    BY <1>4 DEF checkCredentials, checkAlreadyExistingUsername, checkOldPass, Ignores,
                userDisconnected
  <2> QED
    BY <2>1, SameAccounts
<1> QED
  BY <1>1, <1>2, <1>3, <1>4 DEF Handles

\* Who was told to have signed up (Server::signup's success), or to have a new
\* password, has the account and the password, unless one of the errors that are
\* answered as a success can happen: of several sign-ups of a name one succeeds.
THEOREM ToldIsStoredHolds ==
  ASSUME Failing \cap AnsweredAsSuccess = {} PROVE Spec => []ToldIsStored
<1>1. Init => StoredInv
  BY RegisteredAssumption DEF Init, StoredInv, AccountsShaped, ToldIsStored
<1>2. StoredInv /\ [Next]_vars => StoredInv'
  <2> SUFFICES ASSUME StoredInv, [Next]_vars PROVE StoredInv'
    OBVIOUS
  <2>1. CASE UNCHANGED vars
    BY <2>1, SameAccounts DEF vars
  <2>2. CASE Next
    BY <2>2, ClientStored, HandlesStored DEF Next
  <2> QED
    BY <2>1, <2>2
<1>3. StoredInv => ToldIsStored
  BY DEF StoredInv
<1> QED
  BY <1>1, <1>2, <1>3, PTL DEF Spec

-----------------------------------------------------------------------------
(***************************************************************************)
(* The invariant.  Its parts speak of values, so that what is left alone   *)
(* stays right without a proof.                                            *)
(***************************************************************************)

RequestSet ==
  [type : {"login", "signup"}, username : Users, password : Passwords]
  \cup [type : {"check_username"}, username : Users]
  \cup [type : {"nickname"}, username : Users, nickname : Nicknames]
  \cup [type : {"check_old_password"}, username : Users, password : Passwords]
  \cup [type : {"password"}, username : Users, password : Passwords, newpass : Passwords]
  \cup [type : {"disconnected"}]
AnswerSet ==
  [type : {"login"}, success : {TRUE}, username : Users, nickname : Nicknames]
  \cup [type : {"login"}, success : {FALSE}]
  \cup [type : {"signup", "nickname", "password", "old_password_checked"}, success : BOOLEAN]
  \cup [type : {"check_username"}, success : BOOLEAN, username : Users \cup {None}]

\* A worker has a user name just when it has a nickname.
WorkerSet == [username : Users, nickname : Nicknames] \cup {LoggedOut}
SessionSet == [loggedIn : BOOLEAN, username : Users \cup {None}, nickname : Nicknames \cup {None}]

DatabaseTypes ==
  /\ DOMAIN accounts \subseteq Users
  /\ accounts \in [DOMAIN accounts -> [password : Passwords, nickname : Nicknames]]
  /\ told \in [Users -> Passwords \cup {None}]

Links == 1 .. MaxConnections

NetworkTypes ==
  /\ connections \in 0 .. MaxConnections
  /\ DOMAIN workers \subseteq 1 .. connections
  /\ workers \in [DOMAIN workers -> WorkerSet]
  /\ up \in [Links -> Seq(RequestSet)] /\ down \in [Links -> Seq(AnswerSet)]
  /\ socket \in [Clients -> {0} \cup DOMAIN workers]
  /\ inbox \in [Clients -> Seq(AnswerSet)]

ProgramTypes ==
  /\ session \in [Clients -> SessionSet]
  /\ window \in [Clients -> {"login", "signup", "home"}]
  /\ waiting \in [Clients -> SUBSET {"login", "signup"}] /\ warned \subseteq Clients
  /\ form \in [Clients -> [name : Users \cup {None}, inuse : {"FREE", "USED", "UNCHECKED"}]]
  /\ oldPass \in [Clients -> [text : Passwords \cup {None},
                              status : {"CORRECT", "WRONG", "UNCHECKED"}]]
  /\ actions \in [Clients -> Nat] /\ drops \in Nat

Types == DatabaseTypes /\ NetworkTypes /\ ProgramTypes

\* The worker w of requests s: they are its user's, and it hears of the end of the
\* connection last.
RequestsOK(s, w) ==
  /\ \A m \in ToSet(s) : m.type \in LoggedInTypes => m.username = w.username
  /\ \A i \in DOMAIN s : s[i].type = "disconnected" => i = Len(s)

LinksInv ==
  \A k \in Links :
    /\ k > connections => up[k] = <<>> /\ down[k] = <<>>
    /\ up[k] # <<>> => k \in DOMAIN workers
    /\ k \in DOMAIN workers => RequestsOK(up[k], workers[k])

\* A client with a connection is alone with it, and has no more to hear from a
\* former one.
SocketsInv ==
  /\ \A c, d \in Clients : c # d /\ socket[c] = socket[d] => socket[c] = 0
  /\ \A c \in Clients : socket[c] # 0 =>
       /\ inbox[c] = <<>> /\ c \notin warned
       /\ \A m \in ToSet(up[socket[c]]) : m.type # "disconnected"

\* The nickname is `wanted' once the requests s were handled, and `now' before.
EndsWith(s, now, wanted) ==
  /\ (\A i \in DOMAIN s : s[i].type # "nickname") => now = wanted
  /\ \A i \in DOMAIN s :
       s[i].type = "nickname" /\ (\A j \in DOMAIN s : j > i => s[j].type # "nickname")
         => s[i].nickname = wanted

\* A connected client whose user is logged in: requests, worker and session.
HomeOK(req, w, ses) ==
  /\ ses.username = w.username
  /\ EndsWith(req, w.nickname, ses.nickname)

\* A connected client in the windows of login and sign-up, with the answers on their
\* way and the forms that wait.  One with a left-over session ignores the answers.
LoginSuccess(m) == m.type = "login" /\ m.success
FormTypes == {"login", "signup"}
DoorOK(req, ans, w, ses, wait) ==
  /\ \A m \in ToSet(req) : m.type \notin LoggedInTypes
  /\ \A m \in ToSet(ans) : LoginSuccess(m) => m.username = w.username /\ m.nickname = w.nickname
  /\ \A m \in ToSet(req) \cup ToSet(ans) : m.type \in FormTypes => m.type \in wait
  /\ ~ses.loggedIn =>
       /\ w.username # None => \E m \in ToSet(ans) : LoginSuccess(m)
       /\ \A f \in wait : \E m \in ToSet(req) \cup ToSet(ans) : m.type = f

\* The windows of a client that shows no warning.
WindowOK(ses, win, wait, connected) ==
  /\ win = "home" => ses.loggedIn
  /\ wait \subseteq {win} \cap FormTypes
  /\ ~connected => wait = {}

ClientInv(c) ==
  /\ session[c].loggedIn => session[c].username # None
  /\ c \notin warned => WindowOK(session[c], window[c], waiting[c], socket[c] # 0)
  /\ socket[c] # 0 =>
       LET k == socket[c]
       IN  IF window[c] = "home" THEN HomeOK(up[k], workers[k], session[c])
           ELSE DoorOK(up[k], down[k], workers[k], session[c], waiting[c])

Inv == Types /\ LinksInv /\ SocketsInv /\ \A c \in Clients : ClientInv(c)

\* The nickname of a worker is the one in the database.
NicknamesStored ==
  \A k \in DOMAIN workers : workers[k].username # None =>
    /\ workers[k].username \in DOMAIN accounts
    /\ accounts[workers[k].username].nickname = workers[k].nickname

-----------------------------------------------------------------------------
(***************************************************************************)
(* Sequences of messages and the sets of their elements.                   *)
(***************************************************************************)

LEMMA EmptySet == ToSet(<<>>) = {}
BY DEF ToSet

LEMMA TailSet ==
  ASSUME NEW S, NEW s \in Seq(S), s # <<>>
  PROVE  /\ Head(s) \in S /\ Tail(s) \in Seq(S)
         /\ ToSet(s) = {Head(s)} \cup ToSet(Tail(s))
         /\ Len(s) \in Nat /\ Len(s) > 0 /\ Len(Tail(s)) = Len(s) - 1 /\ s[1] = Head(s)
         /\ DOMAIN s = 1 .. Len(s) /\ DOMAIN Tail(s) = 1 .. Len(s) - 1
         /\ \A i \in 1 .. Len(s) - 1 : Tail(s)[i] = s[i + 1]
<1>1. /\ Head(s) \in S /\ Tail(s) \in Seq(S)
      /\ Len(s) \in Nat /\ Len(s) > 0 /\ Len(Tail(s)) = Len(s) - 1 /\ s[1] = Head(s)
      /\ DOMAIN s = 1 .. Len(s) /\ DOMAIN Tail(s) = 1 .. Len(s) - 1
      /\ \A i \in 1 .. Len(s) - 1 : Tail(s)[i] = s[i + 1]
  OBVIOUS
<1>2. ASSUME NEW i \in DOMAIN s PROVE s[i] = Head(s) \/ \E j \in DOMAIN Tail(s) : s[i] = Tail(s)[j]
  <2>1. CASE i = 1
    BY <1>1, <2>1
  <2>2. CASE i # 1
    <3>1. i - 1 \in DOMAIN Tail(s) /\ Tail(s)[i - 1] = s[i]
      BY <1>1, <2>2
    <3> QED
      BY <3>1
  <2> QED
    BY <2>1, <2>2
<1>3. /\ 1 \in DOMAIN s
      /\ \A j \in DOMAIN Tail(s) : j + 1 \in DOMAIN s /\ Tail(s)[j] = s[j + 1]
  BY <1>1
<1>4. ToSet(s) \subseteq {Head(s)} \cup ToSet(Tail(s))
  BY <1>2 DEF ToSet
<1>5. {Head(s)} \cup ToSet(Tail(s)) \subseteq ToSet(s)
  BY <1>1, <1>3 DEF ToSet
<1> QED
  BY <1>1, <1>4, <1>5

LEMMA AppendSet ==
  ASSUME NEW S, NEW s \in Seq(S), NEW e \in S
  PROVE  /\ Append(s, e) \in Seq(S) /\ Len(s) \in Nat
         /\ DOMAIN s = 1 .. Len(s) /\ DOMAIN Append(s, e) = 1 .. Len(s) + 1
         /\ Len(Append(s, e)) = Len(s) + 1
         /\ \A i \in 1 .. Len(s) : Append(s, e)[i] = s[i]
         /\ Append(s, e)[Len(s) + 1] = e
         /\ ToSet(Append(s, e)) = ToSet(s) \cup {e}
<1>1. /\ Append(s, e) \in Seq(S) /\ Len(s) \in Nat
      /\ DOMAIN s = 1 .. Len(s) /\ DOMAIN Append(s, e) = 1 .. Len(s) + 1
      /\ Len(Append(s, e)) = Len(s) + 1
      /\ \A i \in 1 .. Len(s) : Append(s, e)[i] = s[i]
      /\ Append(s, e)[Len(s) + 1] = e
  OBVIOUS
<1> QED
  BY <1>1 DEF ToSet

LEMMA ConcatSet ==
  ASSUME NEW S, NEW s \in Seq(S), NEW t \in Seq(S)
  PROVE  /\ s \o t \in Seq(S) /\ Len(s) \in Nat /\ Len(t) \in Nat
         /\ DOMAIN s = 1 .. Len(s) /\ DOMAIN t = 1 .. Len(t)
         /\ DOMAIN (s \o t) = 1 .. Len(s) + Len(t)
         /\ \A i \in 1 .. Len(s) : (s \o t)[i] = s[i]
         /\ \A i \in 1 .. Len(t) : (s \o t)[Len(s) + i] = t[i]
         /\ \A i \in DOMAIN (s \o t) :
              i \in 1 .. Len(s) \/ (i > Len(s) /\ i - Len(s) \in 1 .. Len(t) /\ (s \o t)[i] = t[i - Len(s)])
         /\ ToSet(s \o t) = ToSet(s) \cup ToSet(t)
<1>1. /\ s \o t \in Seq(S) /\ Len(s) \in Nat /\ Len(t) \in Nat
      /\ DOMAIN s = 1 .. Len(s) /\ DOMAIN t = 1 .. Len(t)
      /\ DOMAIN (s \o t) = 1 .. Len(s) + Len(t)
      /\ \A i \in 1 .. Len(s) : (s \o t)[i] = s[i]
      /\ \A i \in 1 .. Len(t) : (s \o t)[Len(s) + i] = t[i]
  OBVIOUS
<1>2. \A i \in DOMAIN (s \o t) :
        i \in 1 .. Len(s) \/ (i > Len(s) /\ i - Len(s) \in 1 .. Len(t) /\ (s \o t)[i] = t[i - Len(s)])
  BY <1>1
<1>3. ToSet(s \o t) \subseteq ToSet(s) \cup ToSet(t)
  <2>1. ASSUME NEW i \in DOMAIN (s \o t) PROVE (s \o t)[i] \in ToSet(s) \cup ToSet(t)
    <3>1. CASE i \in 1 .. Len(s)
      BY <1>1, <3>1 DEF ToSet
    <3>2. CASE i - Len(s) \in 1 .. Len(t) /\ (s \o t)[i] = t[i - Len(s)]
      BY <1>1, <3>2 DEF ToSet
    <3> QED
      BY <1>2, <3>1, <3>2
  <2> QED
    BY <2>1 DEF ToSet
<1>4. ToSet(s) \cup ToSet(t) \subseteq ToSet(s \o t)
  <2>1. \A i \in 1 .. Len(s) : i \in DOMAIN (s \o t)
    BY <1>1
  <2>2. \A i \in 1 .. Len(t) : Len(s) + i \in DOMAIN (s \o t)
    BY <1>1
  <2> QED
    BY <1>1, <2>1, <2>2 DEF ToSet
<1> QED
  BY <1>1, <1>2, <1>3, <1>4

LEMMA PrefixSet ==
  ASSUME NEW S, NEW s \in Seq(S), NEW p \in Prefixes(s)
  PROVE  /\ p \in Seq(S) /\ ToSet(p) \subseteq ToSet(s)
<1>1. PICK n \in 0 .. Len(s) : p = SubSeq(s, 1, n)
  BY DEF Prefixes
<1>2. /\ p \in Seq(S) /\ DOMAIN p = 1 .. n /\ DOMAIN s = 1 .. Len(s) /\ Len(s) \in Nat
      /\ \A i \in 1 .. n : p[i] = s[i]
  BY <1>1
<1> QED
  BY <1>2 DEF ToSet

-----------------------------------------------------------------------------
(***************************************************************************)
(* The parts of the invariant as messages come and go.                     *)
(***************************************************************************)

LEMMA RequestsOKTail ==
  ASSUME NEW s \in Seq(RequestSet), s # <<>>, NEW w, RequestsOK(s, w)
  PROVE  RequestsOK(Tail(s), w)
<1> USE TailSet
<1>1. \A m \in ToSet(Tail(s)) : m \in ToSet(s)
  OBVIOUS
<1>2. \A i \in DOMAIN Tail(s) : i + 1 \in DOMAIN s /\ Tail(s)[i] = s[i + 1] /\ i \in Int
  OBVIOUS
<1>3. Len(Tail(s)) = Len(s) - 1 /\ Len(s) \in Nat
  OBVIOUS
<1> QED
  BY <1>1, <1>2, <1>3 DEF RequestsOK

LEMMA RequestsOKConcat ==
  ASSUME NEW s \in Seq(RequestSet), NEW t \in Seq(RequestSet), NEW w, RequestsOK(s, w),
         \A m \in ToSet(s) \cup ToSet(t) : m.type # "disconnected",
         \A m \in ToSet(t) : m.type \in LoggedInTypes => m.username = w.username
  PROVE  RequestsOK(s \o t, w)
<1>1. ToSet(s \o t) = ToSet(s) \cup ToSet(t)
  BY ConcatSet
<1>2. \A i \in DOMAIN (s \o t) : (s \o t)[i] \in ToSet(s \o t)
  BY DEF ToSet
<1> QED
  BY <1>1, <1>2 DEF RequestsOK

LEMMA RequestsOKEnd ==
  ASSUME NEW s \in Seq(RequestSet), NEW p \in Prefixes(s), NEW w, RequestsOK(s, w),
         \A m \in ToSet(s) : m.type # "disconnected"
  PROVE  /\ RequestsOK(Append(p, [type |-> "disconnected"]), w)
         /\ Append(p, [type |-> "disconnected"]) \in Seq(RequestSet)
<1> DEFINE e == [type |-> "disconnected"]
<1>1. p \in Seq(RequestSet) /\ ToSet(p) \subseteq ToSet(s)
  BY PrefixSet
<1>2. e \in RequestSet /\ e.type = "disconnected" /\ e.type \notin LoggedInTypes
  BY DEF RequestSet, LoggedInTypes
<1> HIDE DEF e
<1>3. /\ Append(p, e) \in Seq(RequestSet) /\ Len(p) \in Nat
      /\ DOMAIN Append(p, e) = 1 .. Len(p) + 1 /\ Len(Append(p, e)) = Len(p) + 1
      /\ DOMAIN p = 1 .. Len(p)
      /\ \A i \in 1 .. Len(p) : Append(p, e)[i] = p[i]
      /\ ToSet(Append(p, e)) = ToSet(p) \cup {e}
  BY <1>1, <1>2, AppendSet
<1>4. \A i \in 1 .. Len(p) : p[i].type # "disconnected"
  BY <1>1, <1>3 DEF ToSet
<1>5. \A i \in DOMAIN Append(p, e) : Append(p, e)[i].type = "disconnected" => i = Len(Append(p, e))
  BY <1>3, <1>4
<1>6. \A m \in ToSet(Append(p, e)) : m.type \in LoggedInTypes => m.username = w.username
  BY <1>1, <1>2, <1>3 DEF RequestsOK
<1>7. RequestsOK(Append(p, e), w)
  BY <1>5, <1>6 DEF RequestsOK
<1> QED
  BY <1>3, <1>7 DEF e

LEMMA EndsWithNothing == ASSUME NEW n PROVE EndsWith(<<>>, n, n)
BY DEF EndsWith

\* Requests that do not change the nickname.
LEMMA EndsWithOthers ==
  ASSUME NEW s \in Seq(RequestSet), NEW t \in Seq(RequestSet), NEW now, NEW wanted,
         EndsWith(s, now, wanted), \A m \in ToSet(t) : m.type # "nickname"
  PROVE  EndsWith(s \o t, now, wanted)
<1> DEFINE r == s \o t
<1>1. /\ Len(s) \in Nat /\ Len(t) \in Nat /\ DOMAIN s = 1 .. Len(s) /\ DOMAIN t = 1 .. Len(t)
      /\ DOMAIN r = 1 .. Len(s) + Len(t)
      /\ \A i \in 1 .. Len(s) : r[i] = s[i]
      /\ \A i \in DOMAIN r : i \in 1 .. Len(s)
           \/ (i > Len(s) /\ i - Len(s) \in 1 .. Len(t) /\ r[i] = t[i - Len(s)])
  BY ConcatSet
<1> HIDE DEF r
<1>2. \A i \in DOMAIN t : t[i].type # "nickname"
  BY DEF ToSet
<1>3. \A i \in DOMAIN r : r[i].type = "nickname" => i \in DOMAIN s /\ r[i] = s[i]
  BY <1>1, <1>2
<1>4. \A i \in DOMAIN s : i \in DOMAIN r /\ r[i] = s[i]
  BY <1>1
<1>5. EndsWith(r, now, wanted)
  BY <1>3, <1>4 DEF EndsWith
<1> QED
  BY <1>5 DEF r

\* A request that does.
LEMMA EndsWithNickname ==
  ASSUME NEW s \in Seq(RequestSet), NEW m \in RequestSet, m.type = "nickname", NEW now
  PROVE  EndsWith(s \o <<m>>, now, m.nickname)
<1> DEFINE t == <<m>>
           r == s \o t
<1>1. t \in Seq(RequestSet) /\ Len(t) = 1 /\ t[1] = m
  OBVIOUS
<1> HIDE DEF t
<1>2. /\ Len(s) \in Nat /\ DOMAIN s = 1 .. Len(s)
      /\ DOMAIN r = 1 .. Len(s) + 1
      /\ r[Len(s) + 1] = m
  BY <1>1, ConcatSet
<1> HIDE DEF r
<1>3. Len(s) + 1 \in DOMAIN r /\ \A i \in DOMAIN r : i # Len(s) + 1 => Len(s) + 1 > i
  BY <1>2
<1>4. EndsWith(r, now, m.nickname)
  BY <1>2, <1>3 DEF EndsWith
<1> QED
  BY <1>4 DEF r, t

LEMMA EndsWithTail ==
  ASSUME NEW s \in Seq(RequestSet), s # <<>>, NEW now, NEW wanted, EndsWith(s, now, wanted)
  PROVE  EndsWith(Tail(s), IF Head(s).type = "nickname" THEN Head(s).nickname ELSE now, wanted)
<1> DEFINE t == Tail(s)
           next == IF Head(s).type = "nickname" THEN Head(s).nickname ELSE now
<1>1. /\ Len(s) \in Nat /\ Len(s) > 0 /\ s[1] = Head(s)
      /\ DOMAIN s = 1 .. Len(s) /\ DOMAIN t = 1 .. Len(s) - 1
      /\ \A i \in 1 .. Len(s) - 1 : t[i] = s[i + 1]
  BY TailSet
<1> HIDE DEF t
<1>2. \A i \in DOMAIN t : i + 1 \in DOMAIN s /\ t[i] = s[i + 1] /\ i \in Int
  BY <1>1
<1>3. \A j \in DOMAIN s : j = 1 \/ (j - 1 \in DOMAIN t /\ t[j - 1] = s[j])
  BY <1>1
<1>4. ASSUME \A i \in DOMAIN t : t[i].type # "nickname" PROVE next = wanted
  <2>1. \A j \in DOMAIN s : j # 1 => s[j].type # "nickname"
    BY <1>3, <1>4
  <2>2. CASE Head(s).type = "nickname"
    <3>1. 1 \in DOMAIN s /\ \A j \in DOMAIN s : j > 1 => j # 1
      BY <1>1
    <3> QED
      BY <1>1, <2>1, <2>2, <3>1 DEF EndsWith
  <2>3. CASE Head(s).type # "nickname"
    BY <1>1, <2>1, <2>3 DEF EndsWith
  <2> QED
    BY <2>2, <2>3
<1>5. ASSUME NEW i \in DOMAIN t, t[i].type = "nickname", \A j \in DOMAIN t : j > i => t[j].type # "nickname"
      PROVE  t[i].nickname = wanted
  <2>1. i + 1 \in DOMAIN s /\ s[i + 1].type = "nickname" /\ t[i] = s[i + 1] /\ i \in Int
    BY <1>2, <1>5
  <2>2. ASSUME NEW j \in DOMAIN s, j > i + 1 PROVE s[j].type # "nickname"
    <3>1. j # 1 /\ j - 1 > i
      BY <1>1, <2>1, <2>2
    <3> QED
      BY <1>3, <1>5, <3>1
  <2> QED
    BY <2>1, <2>2 DEF EndsWith
<1>6. EndsWith(t, next, wanted)
  BY <1>4, <1>5 DEF EndsWith
<1> QED
  BY <1>6 DEF t

\* Requests from the windows of login and sign-up; `more' are the forms that wait now.
LEMMA DoorSends ==
  ASSUME NEW req \in Seq(RequestSet), NEW t \in Seq(RequestSet), NEW ans, NEW w, NEW ses,
         NEW wait \in SUBSET FormTypes, NEW more \in SUBSET FormTypes,
         DoorOK(req, ans, w, ses, wait),
         \A m \in ToSet(t) : m.type \notin LoggedInTypes /\ (m.type \in FormTypes => m.type \in more),
         \A f \in more : \E m \in ToSet(t) : m.type = f
  PROVE  DoorOK(req \o t, ans, w, ses, wait \cup more)
<1>1. ToSet(req \o t) = ToSet(req) \cup ToSet(t)
  BY ConcatSet
<1> QED
  BY <1>1 DEF DoorOK

LEMMA DoorNew == ASSUME NEW ses PROVE DoorOK(<<>>, <<>>, LoggedOut, ses, {})
BY EmptySet DEF DoorOK, LoggedOut

\* The answer m to the first request, of the same type, for a worker that stays, or
\* is logged in by the answer.
LEMMA DoorAnswered ==
  ASSUME NEW req \in Seq(RequestSet), req # <<>>, NEW ans \in Seq(AnswerSet), NEW w, NEW ses, NEW wait,
         DoorOK(req, ans, w, ses, wait),
         NEW m \in AnswerSet, m.type = Head(req).type, NEW v \in WorkerSet,
         \/ ~LoginSuccess(m) /\ v = w
         \/ LoginSuccess(m) /\ w.username = None /\ m.username = v.username /\ m.nickname = v.nickname
  PROVE  DoorOK(Tail(req), Append(ans, m), v, ses, wait)
<1>1. /\ ToSet(req) = {Head(req)} \cup ToSet(Tail(req))
      /\ ToSet(Append(ans, m)) = ToSet(ans) \cup {m}
  BY TailSet, AppendSet
<1>2. ASSUME NEW a \in ToSet(ans), LoginSuccess(a) PROVE a.username = w.username /\ a.username # None
  <2>1. a \in AnswerSet
    BY DEF ToSet
  <2>2. a.username \in Users
    BY <2>1, <1>2 DEF AnswerSet, LoginSuccess
  <2> QED
    BY <1>2, <2>2, NoneAssumption DEF DoorOK, None
<1>3. \A a \in ToSet(Append(ans, m)) : LoginSuccess(a) => a.username = v.username /\ a.nickname = v.nickname
  BY <1>1, <1>2 DEF DoorOK
<1>4. \A a \in ToSet(Tail(req)) \cup ToSet(Append(ans, m)) : a.type \in FormTypes => a.type \in wait
  BY <1>1 DEF DoorOK
<1>5. ASSUME ~ses.loggedIn
      PROVE  /\ v.username # None => \E a \in ToSet(Append(ans, m)) : LoginSuccess(a)
             /\ \A f \in wait : \E a \in ToSet(Tail(req)) \cup ToSet(Append(ans, m)) : a.type = f
  <2>1. v.username # None => \E a \in ToSet(Append(ans, m)) : LoginSuccess(a)
    BY <1>1, <1>5 DEF DoorOK
  <2>2. \A f \in wait : \E a \in ToSet(req) \cup ToSet(ans) : a.type = f
    BY <1>5 DEF DoorOK
  <2>3. \A f \in wait : \E a \in ToSet(Tail(req)) \cup ToSet(Append(ans, m)) : a.type = f
    BY <1>1, <2>2
  <2> QED
    BY <2>1, <2>3
<1>6. \A a \in ToSet(Tail(req)) : a.type \notin LoggedInTypes
  BY <1>1 DEF DoorOK
<1> QED
  BY <1>3, <1>4, <1>5, <1>6 DEF DoorOK

\* A request that is not answered is not one that a form waits for, or its user is
\* logged in already.
LEMMA DoorIgnored ==
  ASSUME NEW req \in Seq(RequestSet), req # <<>>, NEW ans, NEW w, NEW ses,
         NEW wait \in SUBSET FormTypes,
         DoorOK(req, ans, w, ses, wait),
         Head(req).type # "signup",
         Head(req).type = "login" => w.username # None
  PROVE  DoorOK(Tail(req), ans, w, ses, wait)
<1>1. ToSet(req) = {Head(req)} \cup ToSet(Tail(req))
  BY TailSet
<1>2. ASSUME ~ses.loggedIn
      PROVE  \A f \in wait : \E a \in ToSet(Tail(req)) \cup ToSet(ans) : a.type = f
  <2>1. Head(req).type = "login" => \E a \in ToSet(ans) : a.type = "login"
    BY <1>2 DEF DoorOK, LoginSuccess
  <2> QED
    BY <1>1, <1>2, <2>1 DEF DoorOK, FormTypes
<1> QED
  BY <1>1, <1>2 DEF DoorOK

\* The client handles an answer that no form waits for.
LEMMA DoorHears ==
  ASSUME NEW req, NEW ans \in Seq(AnswerSet), ans # <<>>, NEW w, NEW ses, NEW wait \in SUBSET FormTypes,
         DoorOK(req, ans, w, ses, wait),
         ses.loggedIn \/ Head(ans).type \notin FormTypes
  PROVE  DoorOK(req, Tail(ans), w, ses, wait)
<1>1. ToSet(ans) = {Head(ans)} \cup ToSet(Tail(ans))
  BY TailSet
<1>2. ASSUME ~ses.loggedIn
      PROVE  /\ w.username # None => \E a \in ToSet(Tail(ans)) : LoginSuccess(a)
             /\ \A f \in wait : \E a \in ToSet(req) \cup ToSet(Tail(ans)) : a.type = f
  BY <1>1, <1>2 DEF DoorOK, LoginSuccess, FormTypes
<1> QED
  BY <1>1, <1>2 DEF DoorOK

-----------------------------------------------------------------------------
(***************************************************************************)
(* What a client does leaves the others alone.                             *)
(***************************************************************************)

LEMMA ClientKept ==
  ASSUME NEW d \in Clients, ClientInv(d),
         session'[d] = session[d], window'[d] = window[d], waiting'[d] = waiting[d],
         d \in warned' <=> d \in warned, socket'[d] = socket[d],
         socket[d] # 0 => /\ up'[socket[d]] = up[socket[d]] /\ down'[socket[d]] = down[socket[d]]
                          /\ workers'[socket[d]] = workers[socket[d]]
  PROVE  ClientInv(d)'
BY DEF ClientInv

\* The connection that requests are sent in, and its worker.
LEMMA SendsFacts ==
  ASSUME Inv, NEW c \in Clients, NEW t, Sends(c, t), NEW k, k = socket'[c]
  PROVE  /\ k \in Links /\ k # 0 /\ socket' = [socket EXCEPT ![c] = k]
         /\ up' = [up EXCEPT ![k] = up[k] \o t]
         /\ socket[c] # 0 => k = socket[c] /\ workers' = workers /\ connections' = connections
         /\ socket[c] = 0 =>
              /\ k = connections + 1 /\ k = connections' /\ k \notin DOMAIN workers
              /\ workers' = [j \in DOMAIN workers \cup {k} |-> IF j = k THEN LoggedOut ELSE workers[j]]
              /\ up[k] = <<>> /\ down[k] = <<>>
<1> DEFINE i == IF socket[c] # 0 THEN socket[c] ELSE connections + 1
<1>1. /\ i <= MaxConnections /\ socket' = [socket EXCEPT ![c] = i]
      /\ connections' = IF socket[c] # 0 THEN connections ELSE i
      /\ workers' = Added(workers, i, LoggedOut)
      /\ up' = [up EXCEPT ![i] = up[i] \o t]
  BY DEF Sends
<1>2. /\ socket \in [Clients -> {0} \cup DOMAIN workers] /\ connections \in Nat /\ MaxConnections \in Nat
      /\ DOMAIN workers \subseteq 1 .. connections /\ workers = [j \in DOMAIN workers |-> workers[j]]
  BY ConnectionsAssumption DEF Inv, Types, NetworkTypes
<1>3. i = k /\ i \in Links /\ i # 0
  BY <1>1, <1>2 DEF Links
<1>4. CASE socket[c] # 0
  <2>1. k = socket[c] /\ k \in DOMAIN workers
    BY <1>2, <1>3, <1>4
  <2>2. workers' = workers
    BY <1>1, <1>2, <1>3, <2>1 DEF Added
  <2> QED
    BY <1>1, <1>3, <1>4, <2>1, <2>2
<1>5. CASE socket[c] = 0
  <2>1. k = connections + 1 /\ k \notin DOMAIN workers
    BY <1>2, <1>3, <1>5
  <2>2. up[k] = <<>> /\ down[k] = <<>>
    BY <1>2, <1>3, <2>1 DEF Inv, LinksInv
  <2>3. workers' = [j \in DOMAIN workers \cup {k} |-> IF j = k THEN LoggedOut ELSE workers[j]]
    BY <1>1, <1>3, <2>1 DEF Added
  <2> QED
    BY <1>1, <1>3, <1>5, <2>1, <2>2, <2>3
<1> QED
  BY <1>4, <1>5

\* Requests t from the windows of login and sign-up, where `more' are the forms that
\* wait for them.
ForForms(t, more) ==
  /\ \A m \in ToSet(t) : /\ m.type \notin LoggedInTypes /\ m.type # "disconnected"
                         /\ m.type \in FormTypes => m.type \in more
  /\ \A f \in more : \E m \in ToSet(t) : m.type = f

\* They keep the invariant.
LEMMA SendsInv ==
  ASSUME Inv, NEW c \in Clients, window[c] # "home", c \notin warned, inbox[c] = <<>>,
         NEW t \in Seq(RequestSet), Sends(c, t), NEW more \in SUBSET (FormTypes \cap {window[c]}),
         ForForms(t, more),
         waiting' = [waiting EXCEPT ![c] = waiting[c] \cup more],
         UNCHANGED <<accounts, told, down, inbox, session, window, warned>>, ProgramTypes'
  PROVE  Inv'
<1>0. /\ \A m \in ToSet(t) : /\ m.type \notin LoggedInTypes /\ m.type # "disconnected"
                             /\ m.type \in FormTypes => m.type \in more
      /\ \A f \in more : \E m \in ToSet(t) : m.type = f
  BY DEF ForForms
<1> DEFINE k == socket'[c]
<1>1. /\ k \in Links /\ k # 0 /\ socket' = [socket EXCEPT ![c] = k]
      /\ up' = [up EXCEPT ![k] = up[k] \o t]
      /\ socket[c] # 0 => k = socket[c] /\ workers' = workers /\ connections' = connections
      /\ socket[c] = 0 =>
           /\ k = connections + 1 /\ k = connections' /\ k \notin DOMAIN workers
           /\ workers' = [j \in DOMAIN workers \cup {k} |-> IF j = k THEN LoggedOut ELSE workers[j]]
           /\ up[k] = <<>> /\ down[k] = <<>>
  BY SendsFacts
<1> HIDE DEF k
<1>2. /\ up \in [Links -> Seq(RequestSet)] /\ socket \in [Clients -> {0} \cup DOMAIN workers]
      /\ connections \in 0 .. MaxConnections /\ MaxConnections \in Nat
      /\ DOMAIN workers \subseteq 1 .. connections /\ workers \in [DOMAIN workers -> WorkerSet]
      /\ waiting \in [Clients -> SUBSET FormTypes]
  BY ConnectionsAssumption DEF Inv, Types, NetworkTypes, ProgramTypes, FormTypes
<1>3. /\ DOMAIN workers' = DOMAIN workers \cup {k} /\ k \in DOMAIN workers'
      /\ \A j \in DOMAIN workers : workers'[j] = workers[j]
      /\ socket[c] = 0 => workers'[k] = LoggedOut
      /\ workers' \in [DOMAIN workers' -> WorkerSet]
      /\ connections' \in 0 .. MaxConnections /\ DOMAIN workers' \subseteq 1 .. connections'
      /\ connections' >= connections
  <2>1. CASE socket[c] # 0
    <3>1. k \in DOMAIN workers
      BY <1>1, <1>2, <2>1
    <3>2. workers' = workers /\ connections' = connections
      BY <1>1, <2>1
    <3>3. DOMAIN workers' = DOMAIN workers \cup {k} /\ k \in DOMAIN workers'
      BY <3>1, <3>2
    <3>4. connections' \in 0 .. MaxConnections /\ connections' >= connections
      BY <1>2, <3>2
    <3>5. workers' \in [DOMAIN workers' -> WorkerSet] /\ DOMAIN workers' \subseteq 1 .. connections'
      BY <1>2, <3>2
    <3> QED
      BY <2>1, <3>2, <3>3, <3>4, <3>5
  <2>2. CASE socket[c] = 0
    <3>1. /\ DOMAIN workers' = DOMAIN workers \cup {k} /\ k \notin DOMAIN workers
          /\ \A j \in DOMAIN workers : workers'[j] = workers[j]
          /\ workers'[k] = LoggedOut /\ LoggedOut \in WorkerSet
      BY <1>1, <2>2 DEF WorkerSet
    <3>2. workers' \in [DOMAIN workers' -> WorkerSet]
      BY <1>1, <1>2, <2>2, <3>1
    <3>3. connections' \in 0 .. MaxConnections /\ DOMAIN workers' \subseteq 1 .. connections'
          /\ connections' >= connections
      BY <1>1, <1>2, <2>2, <3>1 DEF Links
    <3> QED
      BY <3>1, <3>2, <3>3
  <2> QED
    BY <2>1, <2>2
<1>4. /\ up' \in [Links -> Seq(RequestSet)] /\ up'[k] = up[k] \o t
      /\ \A j \in Links : j # k => up'[j] = up[j]
      /\ ToSet(up'[k]) = ToSet(up[k]) \cup ToSet(t) /\ up[k] \in Seq(RequestSet)
  BY <1>1, <1>2, ConcatSet
<1>5. \A m \in ToSet(up[k]) : m.type # "disconnected"
  BY <1>1, EmptySet DEF Inv, SocketsInv
<1>6. Types'
  <2>1. socket' \in [Clients -> {0} \cup DOMAIN workers']
    BY <1>1, <1>2, <1>3
  <2> QED
    BY <1>3, <1>4, <2>1 DEF Inv, Types, DatabaseTypes, NetworkTypes
<1>7. LinksInv'
  <2>1. ASSUME NEW j \in Links, j # k
        PROVE  /\ j > connections' => up'[j] = <<>> /\ down'[j] = <<>>
               /\ up'[j] # <<>> => j \in DOMAIN workers'
               /\ j \in DOMAIN workers' => RequestsOK(up'[j], workers'[j])
    <3>1. j > connections' => j > connections
      BY <1>2, <1>3, <2>1 DEF Links
    <3> QED
      BY <1>3, <1>4, <2>1, <3>1 DEF Inv, LinksInv
  <2>2. ~(k > connections')
    BY <1>1, <1>2, <1>3
  <2>3. RequestsOK(up'[k], workers'[k])
    <3>1. RequestsOK(up[k], workers'[k])
      <4>1. CASE socket[c] # 0
        BY <1>1, <1>2, <1>3, <4>1 DEF Inv, LinksInv
      <4>2. CASE socket[c] = 0
        BY <1>1, <4>2, EmptySet DEF RequestsOK
      <4> QED
        BY <4>1, <4>2
    <3> QED
      BY <1>0, <1>4, <1>5, <3>1, RequestsOKConcat
  <2> QED
    BY <1>3, <2>1, <2>2, <2>3 DEF LinksInv
<1>8. SocketsInv'
  <2>1. ASSUME NEW d \in Clients, d # c PROVE socket'[d] = socket[d] /\ socket[d] # k
    <3>1. socket'[d] = socket[d]
      BY <1>1, <2>1
    <3>2. CASE socket[c] # 0
      BY <1>1, <2>1, <3>1, <3>2 DEF Inv, SocketsInv
    <3>3. CASE socket[c] = 0
      BY <1>1, <1>2, <3>1, <3>3
    <3> QED
      BY <3>1, <3>2, <3>3
  <2>2. socket'[c] = k
    BY <1>1, <1>2
  <2>3. \A m \in ToSet(up'[k]) : m.type # "disconnected"
    BY <1>0, <1>4, <1>5
  <2>4. ASSUME NEW d \in Clients, d # c, socket[d] # 0 PROVE up'[socket[d]] = up[socket[d]]
    BY <1>2, <1>4, <2>1, <2>4 DEF Links
  <2>5. ASSUME NEW d \in Clients, NEW e \in Clients, d # e, socket'[d] = socket'[e] PROVE socket'[d] = 0
    BY <2>1, <2>2, <2>5 DEF Inv, SocketsInv
  <2> QED
    BY <1>1, <2>1, <2>2, <2>3, <2>4, <2>5 DEF Inv, SocketsInv
<1>9. ClientInv(c)'
  <2>1. socket'[c] = k /\ waiting'[c] = waiting[c] \cup more
    BY <1>1, <1>2
  <2>2. /\ session[c].loggedIn => session[c].username # None
        /\ WindowOK(session[c], window[c], waiting[c], socket[c] # 0)
    BY DEF Inv, ClientInv
  <2>3. DoorOK(up[k], down[k], workers'[k], session[c], waiting[c])
    <3>1. CASE socket[c] # 0
      BY <1>1, <3>1 DEF Inv, ClientInv
    <3>2. CASE socket[c] = 0
      <4>1. waiting[c] = {}
        BY <2>2, <3>2 DEF WindowOK
      <4> QED
        BY <1>1, <1>3, <3>2, <4>1, DoorNew
    <3> QED
      BY <3>1, <3>2
  <2>4. DoorOK(up'[k], down[k], workers'[k], session[c], waiting'[c])
    <3>1. waiting[c] \in SUBSET FormTypes /\ more \in SUBSET FormTypes
      BY <1>2
    <3>2. \A m \in ToSet(t) : m.type \notin LoggedInTypes /\ (m.type \in FormTypes => m.type \in more)
      BY <1>0
    <3>3. DoorOK(up[k] \o t, down[k], workers'[k], session[c], waiting[c] \cup more)
      BY <1>0, <1>4, <2>3, <3>1, <3>2, DoorSends
    <3> QED
      BY <1>4, <2>1, <3>3
  <2>5. WindowOK(session[c], window[c], waiting'[c], TRUE)
    BY <2>1, <2>2 DEF WindowOK
  <2> QED
    BY <1>1, <2>1, <2>2, <2>4, <2>5 DEF ClientInv
<1>10. ASSUME NEW d \in Clients, d # c PROVE ClientInv(d)'
  <2>1. socket'[d] = socket[d] /\ waiting'[d] = waiting[d]
    BY <1>1, <1>2, <1>10
  <2>2. ASSUME socket[d] # 0
        PROVE  /\ up'[socket[d]] = up[socket[d]]
               /\ workers'[socket[d]] = workers[socket[d]]
    <3>1. socket[d] \in DOMAIN workers /\ socket[d] \in Links
      BY <1>2, <2>2 DEF Links
    <3>2. socket[d] # k
      BY <1>1, <1>2, <1>10, <2>1, <2>2 DEF Inv, SocketsInv
    <3> QED
      BY <1>3, <1>4, <3>1, <3>2
  <2> QED
    BY <2>1, <2>2, ClientKept DEF Inv
<1> QED
  BY <1>6, <1>7, <1>8, <1>9, <1>10 DEF Inv

\* Requests of a user who is logged in keep the invariant, if the session has the
\* nickname they ask for.
LEMMA SendsInSessionInv ==
  ASSUME Inv, NEW c \in Clients, window[c] = "home", c \notin warned,
         NEW t \in Seq(RequestSet), SendsInSession(c, t),
         \A m \in ToSet(t) : m.type # "disconnected" /\ m.username = session[c].username,
         session'[c].loggedIn = session[c].loggedIn, session'[c].username = session[c].username,
         \A d \in Clients \ {c} : session'[d] = session[d],
         \A s \in Seq(RequestSet) : \A now : EndsWith(s, now, session[c].nickname)
                                               => EndsWith(s \o t, now, session'[c].nickname),
         UNCHANGED <<accounts, told, down, inbox, window, warned, waiting>>, ProgramTypes'
  PROVE  Inv'
<1> DEFINE k == socket[c]
<1>1. /\ UNCHANGED <<workers, connections, socket>>
      /\ up' = IF k = 0 THEN up ELSE [up EXCEPT ![k] = up[k] \o t]
  BY DEF SendsInSession
<1>2. /\ up \in [Links -> Seq(RequestSet)] /\ socket \in [Clients -> {0} \cup DOMAIN workers]
      /\ DOMAIN workers \subseteq 1 .. connections /\ connections \in 0 .. MaxConnections
      /\ MaxConnections \in Nat
  BY ConnectionsAssumption DEF Inv, Types, NetworkTypes
<1>3. \A d \in Clients : socket[d] # 0 => socket[d] \in DOMAIN workers /\ socket[d] \in Links
  BY <1>2 DEF Links
<1>4. k # 0 => /\ up' \in [Links -> Seq(RequestSet)] /\ up'[k] = up[k] \o t
               /\ \A j \in Links : j # k => up'[j] = up[j]
               /\ ToSet(up'[k]) = ToSet(up[k]) \cup ToSet(t) /\ up[k] \in Seq(RequestSet)
               /\ up[k] # <<>> \/ up[k] = <<>>
  BY <1>1, <1>2, <1>3, ConcatSet
<1>5. k # 0 => /\ HomeOK(up[k], workers[k], session[c])
               /\ \A m \in ToSet(up[k]) : m.type # "disconnected"
               /\ k \in DOMAIN workers /\ ~(k > connections)
  BY <1>2, <1>3 DEF Inv, ClientInv, SocketsInv
<1> HIDE DEF k
<1>6. Types'
  <2>1. up' \in [Links -> Seq(RequestSet)]
    BY <1>1, <1>2, <1>4
  <2> QED
    BY <1>1, <2>1 DEF Inv, Types, DatabaseTypes, NetworkTypes
<1>7. LinksInv'
  <2>1. k # 0 => RequestsOK(up'[k], workers[k])
    <3>1. k # 0 => RequestsOK(up[k], workers[k]) /\ session[c].username = workers[k].username
      BY <1>3, <1>5 DEF k, Inv, LinksInv, HomeOK
    <3> QED
      BY <1>4, <1>5, <3>1, RequestsOKConcat
  <2>2. \A j \in Links : j # k \/ k = 0 => up'[j] = up[j]
    BY <1>1, <1>4
  <2> QED
    BY <1>1, <1>5, <2>1, <2>2 DEF Inv, LinksInv
<1>8. \A d \in Clients : d # c /\ socket[d] # 0 => up'[socket[d]] = up[socket[d]]
  BY <1>1, <1>3, <1>4 DEF k, Inv, SocketsInv
<1>9. SocketsInv'
  <2>1. k # 0 => \A m \in ToSet(up'[k]) : m.type # "disconnected"
    BY <1>4, <1>5
  <2> QED
    BY <1>1, <1>8, <2>1 DEF k, Inv, SocketsInv
<1>10. ClientInv(c)'
  <2>1. k # 0 => HomeOK(up'[k], workers[k], session'[c])
    BY <1>4, <1>5 DEF HomeOK
  <2>2. /\ session[c].loggedIn => session[c].username # None
        /\ WindowOK(session[c], window[c], waiting[c], socket[c] # 0)
    BY DEF Inv, ClientInv
  <2>3. WindowOK(session'[c], window[c], waiting[c], socket[c] # 0)
    BY <2>2 DEF WindowOK
  <2> QED
    BY <1>1, <2>1, <2>2, <2>3 DEF k, ClientInv
<1>11. ASSUME NEW d \in Clients, d # c PROVE ClientInv(d)'
  BY <1>1, <1>8, <1>11, ClientKept DEF Inv
<1> QED
  BY <1>6, <1>7, <1>9, <1>10, <1>11 DEF Inv

\* A connection that is closed: the client may have answers to hear yet.
LEMMA ClosesInv ==
  ASSUME Inv, NEW c \in Clients, NEW arrived \in Prefixes(Requests(c)), NEW read \in Seq(AnswerSet),
         Closes(c, arrived, read),
         session'[c].loggedIn => session'[c].username # None,
         c \notin warned' => WindowOK(session'[c], window'[c], waiting'[c], FALSE),
         \A d \in Clients \ {c} :
           /\ session'[d] = session[d] /\ window'[d] = window[d] /\ waiting'[d] = waiting[d]
           /\ d \in warned' <=> d \in warned,
         UNCHANGED <<accounts, told, workers, connections>>, ProgramTypes'
  PROVE  Inv'
<1> DEFINE k == socket[c]
           e == [type |-> "disconnected"]
<1>1. /\ socket' = [socket EXCEPT ![c] = 0] /\ inbox' = [inbox EXCEPT ![c] = read]
      /\ up' = IF k = 0 THEN up ELSE [up EXCEPT ![k] = Append(arrived, e)]
      /\ down' = IF k = 0 THEN down ELSE [down EXCEPT ![k] = <<>>]
  BY DEF Closes
<1>2. /\ up \in [Links -> Seq(RequestSet)] /\ down \in [Links -> Seq(AnswerSet)]
      /\ inbox \in [Clients -> Seq(AnswerSet)]
      /\ socket \in [Clients -> {0} \cup DOMAIN workers]
      /\ DOMAIN workers \subseteq 1 .. connections /\ connections \in 0 .. MaxConnections
      /\ MaxConnections \in Nat
  BY ConnectionsAssumption DEF Inv, Types, NetworkTypes
<1>3. \A d \in Clients : socket[d] # 0 => socket[d] \in DOMAIN workers /\ socket[d] \in Links
                                          /\ ~(socket[d] > connections)
  BY <1>2 DEF Links
<1>4. k # 0 => /\ Append(arrived, e) \in Seq(RequestSet)
               /\ RequestsOK(Append(arrived, e), workers[k])
  <2> HAVE k # 0
  <2>1. /\ up[k] \in Seq(RequestSet) /\ arrived \in Prefixes(up[k])
        /\ RequestsOK(up[k], workers[k])
        /\ \A m \in ToSet(up[k]) : m.type # "disconnected"
    BY <1>2, <1>3 DEF Requests, Inv, LinksInv, SocketsInv
  <2> QED
    BY <2>1, RequestsOKEnd
<1> HIDE DEF k, e
<1>5. /\ up' \in [Links -> Seq(RequestSet)] /\ down' \in [Links -> Seq(AnswerSet)]
      /\ inbox' \in [Clients -> Seq(AnswerSet)]
      /\ socket' \in [Clients -> {0} \cup DOMAIN workers]
      /\ socket'[c] = 0
      /\ \A d \in Clients : d # c => socket'[d] = socket[d] /\ inbox'[d] = inbox[d]
      /\ \A j \in Links : j # k \/ k = 0 => up'[j] = up[j] /\ down'[j] = down[j]
      /\ k # 0 => up'[k] = Append(arrived, e) /\ k \in DOMAIN workers /\ k \in Links /\ ~(k > connections)
  <2>1. /\ socket' \in [Clients -> {0} \cup DOMAIN workers] /\ inbox' \in [Clients -> Seq(AnswerSet)]
        /\ socket'[c] = 0
        /\ \A d \in Clients : d # c => socket'[d] = socket[d] /\ inbox'[d] = inbox[d]
    BY <1>1, <1>2
  <2>2. CASE k = 0
    BY <1>1, <1>2, <2>1, <2>2
  <2>3. CASE k # 0
    <3>1. k \in DOMAIN workers /\ k \in Links /\ ~(k > connections)
      BY <1>3, <2>3 DEF k
    <3>2. up' \in [Links -> Seq(RequestSet)] /\ up'[k] = Append(arrived, e)
          /\ \A j \in Links : j # k => up'[j] = up[j]
      BY <1>1, <1>2, <1>4, <2>3, <3>1
    <3>3. down' \in [Links -> Seq(AnswerSet)] /\ \A j \in Links : j # k => down'[j] = down[j]
      <4>1. <<>> \in Seq(AnswerSet)
        OBVIOUS
      <4> QED
        BY <1>1, <1>2, <2>3, <3>1, <4>1
    <3> QED
      BY <2>1, <2>3, <3>1, <3>2, <3>3
  <2> QED
    BY <2>2, <2>3
<1>6. Types'
  BY <1>5 DEF Inv, Types, DatabaseTypes, NetworkTypes
<1>7. LinksInv'
  BY <1>4, <1>5 DEF Inv, LinksInv
<1>8. \A d \in Clients : d # c /\ socket[d] # 0 =>
        up'[socket[d]] = up[socket[d]] /\ down'[socket[d]] = down[socket[d]]
  BY <1>3, <1>5 DEF k, Inv, SocketsInv
<1>9. SocketsInv'
  <2>1. socket'[c] = 0 /\ \A d \in Clients : d # c => socket'[d] = socket[d] /\ inbox'[d] = inbox[d]
    BY <1>5
  <2>2. \A d, f \in Clients : d # f /\ socket'[d] = socket'[f] => socket'[d] = 0
    BY <2>1 DEF Inv, SocketsInv
  <2>3. ASSUME NEW d \in Clients, socket'[d] # 0
        PROVE  /\ inbox'[d] = <<>> /\ d \notin warned'
               /\ \A m \in ToSet(up'[socket'[d]]) : m.type # "disconnected"
    <3>1. d # c /\ socket'[d] = socket[d] /\ inbox'[d] = inbox[d] /\ (d \in warned' <=> d \in warned)
      BY <2>1, <2>3
    <3>2. up'[socket[d]] = up[socket[d]]
      BY <1>8, <2>3, <3>1
    <3> QED
      BY <2>3, <3>1, <3>2 DEF Inv, SocketsInv
  <2> QED
    BY <2>2, <2>3 DEF SocketsInv
<1>10. ClientInv(c)'
  BY <1>5 DEF ClientInv
<1>11. ASSUME NEW d \in Clients, d # c PROVE ClientInv(d)'
  BY <1>5, <1>8, <1>11, ClientKept DEF Inv
<1> QED
  BY <1>6, <1>7, <1>9, <1>10, <1>11 DEF Inv

\* The client handles an answer and keeps its connection.
LEMMA StaysInv ==
  ASSUME Inv, NEW c \in Clients, AnswersFor(c) # <<>>, Stays(c),
         session'[c].loggedIn => session'[c].username # None,
         c \notin warned => WindowOK(session'[c], window'[c], waiting'[c], socket[c] # 0),
         NEW k, k = socket[c],
         k # 0 => IF window'[c] = "home" THEN HomeOK(up[k], workers[k], session'[c])
                  ELSE DoorOK(up[k], Tail(down[k]), workers[k], session'[c], waiting'[c]),
         \A d \in Clients \ {c} :
           session'[d] = session[d] /\ window'[d] = window[d] /\ waiting'[d] = waiting[d],
         UNCHANGED <<accounts, told, workers, connections, warned>>, ProgramTypes'
  PROVE  Inv'
<1>1. /\ UNCHANGED <<up, socket>>
      /\ k = 0 => inbox' = [inbox EXCEPT ![c] = Tail(inbox[c])] /\ UNCHANGED down
      /\ k # 0 => down' = [down EXCEPT ![k] = Tail(down[k])] /\ UNCHANGED inbox
      /\ k = 0 => inbox[c] # <<>>
      /\ k # 0 => down[k] # <<>>
  BY DEF Stays, AnswersFor
<1>2. /\ down \in [Links -> Seq(AnswerSet)] /\ inbox \in [Clients -> Seq(AnswerSet)]
      /\ socket \in [Clients -> {0} \cup DOMAIN workers]
      /\ DOMAIN workers \subseteq 1 .. connections /\ connections \in 0 .. MaxConnections
      /\ MaxConnections \in Nat
  BY ConnectionsAssumption DEF Inv, Types, NetworkTypes
<1>3. \A d \in Clients : socket[d] # 0 => socket[d] \in DOMAIN workers /\ socket[d] \in Links
                                          /\ ~(socket[d] > connections)
  BY <1>2 DEF Links
<1>4. /\ down' \in [Links -> Seq(AnswerSet)] /\ inbox' \in [Clients -> Seq(AnswerSet)]
      /\ k # 0 => down'[k] = Tail(down[k]) /\ k \in Links /\ ~(k > connections)
      /\ \A j \in Links : j # k \/ k = 0 => down'[j] = down[j]
      /\ \A d \in Clients : d # c \/ k # 0 => inbox'[d] = inbox[d]
  <2>1. CASE k = 0
    <3>1. Tail(inbox[c]) \in Seq(AnswerSet)
      BY <1>1, <1>2, <2>1, TailSet
    <3> QED
      BY <1>1, <1>2, <2>1, <3>1
  <2>2. CASE k # 0
    <3>1. k \in Links /\ ~(k > connections)
      BY <1>3, <2>2
    <3>2. Tail(down[k]) \in Seq(AnswerSet)
      BY <1>1, <1>2, <2>2, <3>1, TailSet
    <3> QED
      BY <1>1, <1>2, <2>2, <3>1, <3>2
  <2> QED
    BY <2>1, <2>2
<1>5. Types'
  BY <1>1, <1>4 DEF Inv, Types, DatabaseTypes, NetworkTypes
<1>6. LinksInv'
  BY <1>1, <1>4 DEF Inv, LinksInv
<1>7. SocketsInv'
  BY <1>1, <1>4 DEF Inv, SocketsInv
<1>8. ClientInv(c)'
  BY <1>1, <1>4 DEF ClientInv
<1>9. ASSUME NEW d \in Clients, d # c PROVE ClientInv(d)'
  <2>1. socket[d] # 0 => down'[socket[d]] = down[socket[d]]
    BY <1>3, <1>4, <1>9 DEF Inv, SocketsInv
  <2> QED
    BY <1>1, <1>9, <2>1, ClientKept DEF Inv
<1> QED
  BY <1>5, <1>6, <1>7, <1>8, <1>9 DEF Inv

LEMMA RequestsType ==
  ASSUME Inv, NEW c \in Clients
  PROVE  /\ Requests(c) \in Seq(RequestSet) /\ Requests(c) \in Prefixes(Requests(c))
         /\ AnswersFor(c) \in Seq(AnswerSet)
         /\ AnswersFor(c) # <<>> => Head(AnswersFor(c)) \in AnswerSet /\ Tail(AnswersFor(c)) \in Seq(AnswerSet)
<1>1. /\ up \in [Links -> Seq(RequestSet)] /\ down \in [Links -> Seq(AnswerSet)]
      /\ inbox \in [Clients -> Seq(AnswerSet)]
      /\ socket[c] # 0 => socket[c] \in Links
  BY ConnectionsAssumption DEF Inv, Types, NetworkTypes, Links
<1>2. Requests(c) \in Seq(RequestSet) /\ AnswersFor(c) \in Seq(AnswerSet)
  BY <1>1 DEF Requests, AnswersFor
<1>3. \A s \in Seq(RequestSet) : Len(s) \in 0 .. Len(s) /\ s = SubSeq(s, 1, Len(s))
  OBVIOUS
<1>4. Requests(c) \in Prefixes(Requests(c))
  BY <1>2, <1>3 DEF Prefixes
<1> QED
  BY <1>2, <1>4, TailSet

-----------------------------------------------------------------------------
(***************************************************************************)
(* Users.                                                                  *)
(***************************************************************************)

LEMMA try_to_logInv == ASSUME Inv, NEW c \in Clients, try_to_log(c) PROVE Inv'
<1>1. PICK u \in Users, p \in Passwords, enter \in BOOLEAN :
        Sends(c, IF enter THEN <<[type |-> "login", username |-> u, password |-> p],
                                 [type |-> "login", username |-> u, password |-> p]>>
                 ELSE <<[type |-> "login", username |-> u, password |-> p]>>)
  BY DEF try_to_log
<1> DEFINE m == [type |-> "login", username |-> u, password |-> p]
           t == IF enter THEN <<m, m>> ELSE <<m>>
<1>2. m \in RequestSet /\ m.type = "login"
  BY DEF RequestSet
<1> HIDE DEF m
<1>3. t \in Seq(RequestSet) /\ ToSet(t) = {m}
  <2>1. CASE enter
    BY <1>2, <2>1 DEF ToSet
  <2>2. CASE ~enter
    BY <1>2, <2>2 DEF ToSet
  <2> QED
    BY <2>1, <2>2
<1>4. Sends(c, t)
  BY <1>1 DEF m
<1> HIDE DEF t
<1>5. /\ window[c] = "login" /\ c \notin warned /\ inbox[c] = <<>>
      /\ UNCHANGED <<accounts, told, down, inbox, session, window, warned, form, oldPass, drops>>
      /\ waiting' = [waiting EXCEPT ![c] = waiting[c] \cup {"login"}]
      /\ actions[c] > 0 /\ actions' = [actions EXCEPT ![c] = actions[c] - 1]
  BY DEF try_to_log, UserActs, Counts
<1>6. ProgramTypes'
  BY <1>5 DEF Inv, Types, ProgramTypes
<1> DEFINE more == {"login"}
<1>7. /\ ForForms(t, more) /\ more \in SUBSET (FormTypes \cap {window[c]})
      /\ waiting' = [waiting EXCEPT ![c] = waiting[c] \cup more] /\ window[c] # "home"
  BY <1>2, <1>3, <1>5 DEF ForForms, LoggedInTypes, FormTypes
<1> HIDE DEF more
<1> QED
  BY <1>3, <1>4, <1>5, <1>6, <1>7, SendsInv

LEMMA CheckUsernameType ==
  ASSUME NEW u \in Users PROVE CheckUsername(u) \in RequestSet /\ CheckUsername(u).type = "check_username"
BY DEF CheckUsername, RequestSet

LEMMA EntersUsernameInv == ASSUME Inv, NEW c \in Clients, EntersUsername(c) PROVE Inv'
<1>1. PICK u \in Users : /\ form' = [form EXCEPT ![c] = [name |-> u, inuse |-> "UNCHECKED"]]
                         /\ Sends(c, <<CheckUsername(u)>>)
  BY DEF EntersUsername
<1> DEFINE m == CheckUsername(u)
           t == <<m>>
<1>2. m \in RequestSet /\ m.type = "check_username"
  BY CheckUsernameType
<1> HIDE DEF m
<1>3. t \in Seq(RequestSet) /\ ToSet(t) = {m}
  BY <1>2 DEF ToSet
<1>4. Sends(c, t)
  BY <1>1 DEF m
<1> HIDE DEF t
<1>5. /\ window[c] = "signup" /\ c \notin warned /\ inbox[c] = <<>>
      /\ UNCHANGED <<accounts, told, down, inbox, session, window, warned, waiting, oldPass, drops>>
      /\ actions[c] > 0 /\ actions' = [actions EXCEPT ![c] = actions[c] - 1]
  BY DEF EntersUsername, UserActs, Counts
<1>6. ProgramTypes'
  BY <1>1, <1>5 DEF Inv, Types, ProgramTypes
<1> DEFINE more == {}
<1>7. /\ ForForms(t, more) /\ more \in SUBSET (FormTypes \cap {window[c]}) /\ window[c] # "home"
  BY <1>2, <1>3, <1>5 DEF ForForms, LoggedInTypes, FormTypes
<1>8. waiting' = [waiting EXCEPT ![c] = waiting[c] \cup more]
  BY <1>5 DEF Inv, Types, ProgramTypes
<1> HIDE DEF more
<1> QED
  BY <1>3, <1>4, <1>5, <1>6, <1>7, <1>8, SendsInv

LEMMA on_pushButtonSignup_clickedInv ==
  ASSUME Inv, NEW c \in Clients, on_pushButtonSignup_clicked(c) PROVE Inv'
<1> DEFINE u == form[c].name
           check == IF form[c].inuse = "UNCHECKED" THEN <<CheckUsername(u)>> ELSE <<>>
<1>1. PICK p \in Passwords :
        Sends(c, check \o <<[type |-> "signup", username |-> u, password |-> p]>>)
  BY DEF on_pushButtonSignup_clicked
<1> DEFINE m == [type |-> "signup", username |-> u, password |-> p]
           t == check \o <<m>>
<1>2. /\ window[c] = "signup" /\ c \notin warned /\ inbox[c] = <<>> /\ u # None
      /\ UNCHANGED <<accounts, told, down, inbox, session, window, warned, form, oldPass, drops>>
      /\ waiting' = [waiting EXCEPT ![c] = waiting[c] \cup {"signup"}]
      /\ actions[c] > 0 /\ actions' = [actions EXCEPT ![c] = actions[c] - 1]
  BY DEF on_pushButtonSignup_clicked, UserActs, Counts
<1>3. u \in Users
  BY <1>2 DEF Inv, Types, ProgramTypes
<1>4. m \in RequestSet /\ m.type = "signup"
  BY <1>3 DEF RequestSet
<1> HIDE DEF m
<1>5. <<m>> \in Seq(RequestSet) /\ ToSet(<<m>>) = {m}
  BY <1>4 DEF ToSet
<1>6. check \in Seq(RequestSet) /\ \A a \in ToSet(check) : a.type = "check_username"
  <2>1. CASE form[c].inuse = "UNCHECKED"
    BY <1>3, <2>1, CheckUsernameType DEF ToSet
  <2>2. CASE form[c].inuse # "UNCHECKED"
    BY <2>2, EmptySet
  <2> QED
    BY <2>1, <2>2
<1> HIDE DEF check
<1> DEFINE last == <<m>>
<1>7. t \in Seq(RequestSet) /\ ToSet(t) = ToSet(check) \cup {m}
  <2>1. last \in Seq(RequestSet) /\ ToSet(last) = {m} /\ t = check \o last
    BY <1>5
  <2> HIDE DEF last, t
  <2> QED
    BY <1>6, <2>1, ConcatSet
<1>8. Sends(c, t)
  BY <1>1 DEF m
<1> HIDE DEF t, u
<1>9. ProgramTypes'
  BY <1>2 DEF Inv, Types, ProgramTypes
<1> DEFINE more == {"signup"}
<1>10. /\ ForForms(t, more) /\ more \in SUBSET (FormTypes \cap {window[c]})
       /\ waiting' = [waiting EXCEPT ![c] = waiting[c] \cup more] /\ window[c] # "home"
  BY <1>2, <1>4, <1>6, <1>7 DEF ForForms, LoggedInTypes, FormTypes
<1> HIDE DEF more
<1> QED
  BY <1>2, <1>7, <1>8, <1>9, <1>10, SendsInv

\* The windows of one client change, and nothing else.
LEMMA WindowsInv ==
  ASSUME Inv, NEW c \in Clients,
         UNCHANGED <<accounts, told, workers, up, down, connections, socket, inbox, session>>,
         warned' \subseteq warned,
         \A d \in Clients \ {c} :
           window'[d] = window[d] /\ waiting'[d] = waiting[d] /\ (d \in warned' <=> d \in warned),
         ClientInv(c)', ProgramTypes'
  PROVE  Inv'
<1>1. Types' /\ LinksInv' /\ SocketsInv'
  BY DEF Inv, Types, DatabaseTypes, NetworkTypes, LinksInv, SocketsInv
<1>2. ASSUME NEW d \in Clients, d # c PROVE ClientInv(d)'
  BY <1>2, ClientKept DEF Inv
<1> QED
  BY <1>1, <1>2 DEF Inv

LEMMA ChangesWindowInv == ASSUME Inv, NEW c \in Clients, ChangesWindow(c) PROVE Inv'
<1>1. /\ c \notin warned /\ window[c] \in FormTypes /\ window[c] \notin waiting[c]
      /\ UNCHANGED <<accounts, told, workers, up, down, connections, socket, inbox, session>>
      /\ UNCHANGED <<waiting, warned, oldPass, actions, drops>>
      /\ form' = [form EXCEPT ![c] = Blank]
  BY DEF ChangesWindow, UserActs, FormTypes
<1>2. PICK w \in FormTypes : window' = [window EXCEPT ![c] = w]
  BY DEF ChangesWindow, FormTypes
<1>3. window' \in [Clients -> {"login", "signup", "home"}] /\ window'[c] = w
      /\ \A d \in Clients \ {c} : window'[d] = window[d]
  BY <1>2 DEF Inv, Types, ProgramTypes, FormTypes
<1>4. form' \in [Clients -> [name : Users \cup {None}, inuse : {"FREE", "USED", "UNCHECKED"}]]
  <2>1. Blank \in [name : Users \cup {None}, inuse : {"FREE", "USED", "UNCHECKED"}]
    BY DEF Blank
  <2> QED
    BY <1>1, <2>1 DEF Inv, Types, ProgramTypes
<1>5. ProgramTypes'
  BY <1>1, <1>3, <1>4 DEF Inv, Types, ProgramTypes
<1>6. ClientInv(c)'
  <2>1. waiting[c] = {} /\ window[c] # "home" /\ w # "home"
    BY <1>1 DEF Inv, ClientInv, WindowOK, FormTypes
  <2>2. WindowOK(session[c], w, waiting[c], socket[c] # 0)
    BY <2>1 DEF WindowOK
  <2> QED
    BY <1>1, <1>3, <2>1, <2>2 DEF Inv, ClientInv
<1> QED
  BY <1>1, <1>3, <1>5, <1>6, WindowsInv

\* The client that shows a warning has no connection.
LEMMA WarningEndsInv == ASSUME Inv, NEW c \in Clients, WarningEnds(c) PROVE Inv'
<1>1. /\ c \in warned /\ warned' = warned \ {c}
      /\ window' = [window EXCEPT ![c] = "login"] /\ waiting' = [waiting EXCEPT ![c] = {}]
      /\ UNCHANGED <<accounts, told, workers, up, down, connections, socket, inbox, session>>
      /\ UNCHANGED <<form, oldPass, actions, drops>>
  BY DEF WarningEnds, network
<1>2. ProgramTypes'
  BY <1>1 DEF Inv, Types, ProgramTypes
<1>3. ClientInv(c)'
  <2>1. socket[c] = 0
    BY <1>1 DEF Inv, SocketsInv
  <2>2. window'[c] = "login" /\ waiting'[c] = {}
    BY <1>1 DEF Inv, Types, ProgramTypes
  <2>3. WindowOK(session[c], window'[c], waiting'[c], FALSE)
    BY <2>2 DEF WindowOK
  <2> QED
    BY <1>1, <2>1, <2>3 DEF Inv, ClientInv
<1>4. \A d \in Clients \ {c} :
        window'[d] = window[d] /\ waiting'[d] = waiting[d] /\ (d \in warned' <=> d \in warned)
  BY <1>1
<1> QED
  BY <1>1, <1>2, <1>3, <1>4, WindowsInv

\* The session of a user at home has a name.
LEMMA HomeSession ==
  ASSUME Inv, NEW c \in Clients, window[c] = "home", c \notin warned
  PROVE  session[c].loggedIn /\ session[c].username \in Users
<1>1. session[c].loggedIn /\ session[c].username # None
  BY DEF Inv, ClientInv, WindowOK
<1> QED
  BY <1>1 DEF Inv, Types, ProgramTypes, SessionSet

LEMMA on_pushSaveNickname_clickedInv ==
  ASSUME Inv, NEW c \in Clients, on_pushSaveNickname_clicked(c) PROVE Inv'
<1>1. PICK n \in Nicknames :
        /\ session' = [session EXCEPT ![c].nickname = n]
        /\ SendsInSession(c, <<[type |-> "nickname", username |-> session[c].username,
                                nickname |-> n]>>)
  BY DEF on_pushSaveNickname_clicked
<1>2. /\ window[c] = "home" /\ c \notin warned
      /\ UNCHANGED <<accounts, told, down, inbox, window, warned, waiting, form, oldPass, drops>>
      /\ actions[c] > 0 /\ actions' = [actions EXCEPT ![c] = actions[c] - 1]
  BY DEF on_pushSaveNickname_clicked, UserActs, Counts
<1> DEFINE m == [type |-> "nickname", username |-> session[c].username, nickname |-> n]
           t == <<m>>
<1>3. /\ m \in RequestSet /\ m.type = "nickname" /\ m.nickname = n
      /\ m.username = session[c].username
  BY <1>2, HomeSession DEF RequestSet
<1> HIDE DEF m
<1>4. t \in Seq(RequestSet) /\ ToSet(t) = {m}
  BY <1>3 DEF ToSet
<1>5. SendsInSession(c, t)
  BY <1>1 DEF m
<1>6. /\ session' \in [Clients -> SessionSet] /\ session'[c].nickname = n
      /\ session'[c].loggedIn = session[c].loggedIn /\ session'[c].username = session[c].username
      /\ \A d \in Clients \ {c} : session'[d] = session[d]
  BY <1>1 DEF Inv, Types, ProgramTypes, SessionSet
<1>7. ProgramTypes'
  <2>1. actions' \in [Clients -> Nat]
    BY <1>2 DEF Inv, Types, ProgramTypes
  <2> QED
    BY <1>2, <1>6, <2>1 DEF Inv, Types, ProgramTypes
<1>8. \A s \in Seq(RequestSet) : \A now : EndsWith(s, now, session[c].nickname)
                                            => EndsWith(s \o t, now, session'[c].nickname)
  BY <1>3, <1>6, EndsWithNickname
<1> HIDE DEF t
<1>9. \A a \in ToSet(t) : a.type # "disconnected" /\ a.username = session[c].username
  BY <1>3, <1>4
<1> QED
  BY <1>2, <1>4, <1>5, <1>6, <1>7, <1>8, <1>9, SendsInSessionInv

\* Requests about the password.
LEMMA SendsPasswordsInv ==
  ASSUME Inv, NEW c \in Clients, window[c] = "home", c \notin warned,
         NEW m \in RequestSet, m.type \in {"check_old_password", "password"},
         m.username = session[c].username, SendsInSession(c, <<m>>),
         UNCHANGED <<accounts, told, down, inbox, session, window, warned, waiting>>, ProgramTypes'
  PROVE  Inv'
<1> DEFINE t == <<m>>
<1>1. t \in Seq(RequestSet) /\ ToSet(t) = {m} /\ SendsInSession(c, t)
  BY DEF ToSet
<1> HIDE DEF t
<1>2. \A s \in Seq(RequestSet) : \A now : EndsWith(s, now, session[c].nickname)
                                            => EndsWith(s \o t, now, session'[c].nickname)
  BY <1>1, EndsWithOthers
<1>3. \A a \in ToSet(t) : a.type # "disconnected" /\ a.username = session[c].username
  BY <1>1
<1> QED
  BY <1>1, <1>2, <1>3, SendsInSessionInv

LEMMA EntersOldPasswordInv == ASSUME Inv, NEW c \in Clients, EntersOldPassword(c) PROVE Inv'
<1>1. PICK p \in Passwords : /\ oldPass' = [oldPass EXCEPT ![c] = [text |-> p, status |-> "UNCHECKED"]]
                             /\ SendsInSession(c, <<CheckOldPassword(c, p)>>)
  BY DEF EntersOldPassword
<1>2. /\ window[c] = "home" /\ c \notin warned
      /\ UNCHANGED <<accounts, told, down, inbox, session, window, warned, waiting, form, drops>>
      /\ actions[c] > 0 /\ actions' = [actions EXCEPT ![c] = actions[c] - 1]
  BY DEF EntersOldPassword, UserActs, Counts
<1> DEFINE m == CheckOldPassword(c, p)
<1>3. m \in RequestSet /\ m.type = "check_old_password" /\ m.username = session[c].username
  BY <1>2, HomeSession DEF CheckOldPassword, RequestSet
<1>4. ProgramTypes'
  BY <1>1, <1>2 DEF Inv, Types, ProgramTypes
<1>5. SendsInSession(c, <<m>>)
  BY <1>1
<1> HIDE DEF m
<1> QED
  BY <1>2, <1>3, <1>4, <1>5, SendsPasswordsInv

LEMMA on_pushButtonSavePassword_clickedInv ==
  ASSUME Inv, NEW c \in Clients, on_pushButtonSavePassword_clicked(c) PROVE Inv'
<1>1. /\ window[c] = "home" /\ c \notin warned /\ oldPass[c].text # None
      /\ UNCHANGED <<accounts, told, down, inbox, session, window, warned, waiting, form, oldPass, drops>>
      /\ actions[c] > 0 /\ actions' = [actions EXCEPT ![c] = actions[c] - 1]
  BY DEF on_pushButtonSavePassword_clicked, UserActs, Counts
<1>2. oldPass[c].text \in Passwords
  BY <1>1 DEF Inv, Types, ProgramTypes
<1>3. ProgramTypes'
  BY <1>1 DEF Inv, Types, ProgramTypes
<1>4. session[c].username \in Users
  BY <1>1, HomeSession
<1>5. CASE SendsInSession(c, <<CheckOldPassword(c, oldPass[c].text)>>)
  <2> DEFINE m == CheckOldPassword(c, oldPass[c].text)
  <2>1. m \in RequestSet /\ m.type = "check_old_password" /\ m.username = session[c].username
    BY <1>2, <1>4 DEF CheckOldPassword, RequestSet
  <2>2. SendsInSession(c, <<m>>)
    BY <1>5
  <2> HIDE DEF m
  <2> QED
    BY <1>1, <1>3, <2>1, <2>2, SendsPasswordsInv
<1>6. CASE \E p \in Passwords :
             SendsInSession(c, <<[type |-> "password", username |-> session[c].username,
                                  password |-> oldPass[c].text, newpass |-> p]>>)
  <2>1. PICK p \in Passwords :
          SendsInSession(c, <<[type |-> "password", username |-> session[c].username,
                               password |-> oldPass[c].text, newpass |-> p]>>)
    BY <1>6
  <2> DEFINE m == [type |-> "password", username |-> session[c].username,
                   password |-> oldPass[c].text, newpass |-> p]
  <2>2. m \in RequestSet /\ m.type = "password" /\ m.username = session[c].username
    BY <1>2, <1>4 DEF RequestSet
  <2>3. SendsInSession(c, <<m>>)
    BY <2>1
  <2> HIDE DEF m
  <2> QED
    BY <1>1, <1>3, <2>2, <2>3, SendsPasswordsInv
<1> QED
  BY <1>5, <1>6 DEF on_pushButtonSavePassword_clicked

LEMMA on_logOutInv == ASSUME Inv, NEW c \in Clients, on_logOut(c) PROVE Inv'
<1>1. PICK read \in Prefixes(AnswersFor(c)) : Closes(c, Requests(c), read)
  BY DEF on_logOut
<1>2. /\ session' = [session EXCEPT ![c] = NoSession] /\ window' = [window EXCEPT ![c] = "login"]
      /\ oldPass' = [oldPass EXCEPT ![c] = Unentered] /\ window[c] = "home" /\ c \notin warned
      /\ UNCHANGED <<accounts, told, workers, connections, waiting, warned, form, actions, drops>>
  BY DEF on_logOut
<1>3. Requests(c) \in Prefixes(Requests(c)) /\ read \in Seq(AnswerSet)
  BY RequestsType, PrefixSet
<1>4. /\ session'[c] = NoSession /\ window'[c] = "login"
      /\ \A d \in Clients \ {c} : session'[d] = session[d] /\ window'[d] = window[d]
  BY <1>2 DEF Inv, Types, ProgramTypes
<1>5. ProgramTypes'
  BY <1>2 DEF Inv, Types, ProgramTypes, SessionSet, NoSession, Unentered
<1>6. WindowOK(session'[c], window'[c], waiting'[c], FALSE)
  <2>1. waiting[c] = {}
    BY <1>2 DEF Inv, ClientInv, WindowOK, FormTypes
  <2> QED
    BY <1>2, <1>4, <2>1 DEF WindowOK
<1>7. ~session'[c].loggedIn
  BY <1>4 DEF NoSession
<1> QED
  BY <1>1, <1>2, <1>3, <1>4, <1>5, <1>6, <1>7, ClosesInv

LEMMA ConnectionDropsInv == ASSUME Inv, NEW c \in Clients, ConnectionDrops(c) PROVE Inv'
<1>1. PICK arrived \in Prefixes(Requests(c)), read \in Prefixes(AnswersFor(c)) :
        Closes(c, arrived, read)
  BY DEF ConnectionDrops
<1>2. /\ session' = [session EXCEPT ![c] = NoSession] /\ warned' = warned \cup {c}
      /\ oldPass' = [oldPass EXCEPT ![c] = Unentered] /\ drops > 0 /\ drops' = drops - 1
      /\ UNCHANGED <<accounts, told, workers, connections, window, waiting, form, actions>>
  BY DEF ConnectionDrops
<1>3. read \in Seq(AnswerSet)
  BY RequestsType, PrefixSet
<1>4. /\ session'[c] = NoSession /\ \A d \in Clients \ {c} : session'[d] = session[d]
      /\ c \in warned' /\ \A d \in Clients \ {c} : d \in warned' <=> d \in warned
  BY <1>2 DEF Inv, Types, ProgramTypes
<1>5. ProgramTypes'
  BY <1>2 DEF Inv, Types, ProgramTypes, SessionSet, NoSession, Unentered
<1>6. ~session'[c].loggedIn
  BY <1>4 DEF NoSession
<1> QED
  BY <1>1, <1>2, <1>3, <1>4, <1>5, <1>6, ClosesInv

LEMMA UserInv == ASSUME Inv, NEW c \in Clients, User(c) PROVE Inv'
BY try_to_logInv, ChangesWindowInv, EntersUsernameInv, on_pushButtonSignup_clickedInv,
   on_pushSaveNickname_clickedInv, EntersOldPasswordInv, on_pushButtonSavePassword_clickedInv,
   on_logOutInv, ConnectionDropsInv, WarningEndsInv DEF User

-----------------------------------------------------------------------------
(***************************************************************************)
(* Answers.                                                                *)
(***************************************************************************)

\* What a client hears when it is connected.
LEMMA ConnectedClient ==
  ASSUME Inv, NEW c \in Clients, socket[c] # 0
  PROVE  /\ socket[c] \in Links /\ socket[c] \in DOMAIN workers /\ c \notin warned
         /\ AnswersFor(c) = down[socket[c]] /\ down[socket[c]] \in Seq(AnswerSet)
         /\ up[socket[c]] \in Seq(RequestSet)
         /\ waiting[c] \in SUBSET FormTypes
<1>1. socket[c] \in Links /\ socket[c] \in DOMAIN workers
  BY ConnectionsAssumption DEF Inv, Types, NetworkTypes, Links
<1> QED
  BY <1>1 DEF Inv, Types, NetworkTypes, ProgramTypes, SocketsInv, AnswersFor, FormTypes

\* A client that hears of its login or sign-up waits for nothing else.
LEMMA PendingForm ==
  ASSUME Inv, NEW c \in Clients, c \notin warned, ~session[c].loggedIn, AnswersFor(c) # <<>>,
         NEW f, f = Head(AnswersFor(c)).type, f \in FormTypes
  PROVE  window[c] # "home" /\ waiting[c] \ {f} = {}
<1>1. WindowOK(session[c], window[c], waiting[c], socket[c] # 0)
  BY DEF Inv, ClientInv
<1>2. window[c] # "home"
  BY <1>1 DEF WindowOK
<1>3. CASE socket[c] = 0
  BY <1>1, <1>2, <1>3 DEF WindowOK
<1>4. CASE socket[c] # 0
  <2> DEFINE k == socket[c]
  <2>1. DoorOK(up[k], down[k], workers[k], session[c], waiting[c])
    BY <1>2, <1>4 DEF Inv, ClientInv
  <2>2. Head(AnswersFor(c)) \in ToSet(down[k])
    BY <1>4, ConnectedClient, TailSet
  <2>3. f \in waiting[c]
    BY <2>1, <2>2 DEF DoorOK
  <2> QED
    BY <1>1, <1>2, <2>3 DEF WindowOK
<1> QED
  BY <1>3, <1>4

\* An answer that no form waits for, or that a session is left to hear.
LEMMA HearsOther ==
  ASSUME Inv, NEW c \in Clients, AnswersFor(c) # <<>>, Stays(c),
         session[c].loggedIn \/ Head(AnswersFor(c)).type \notin FormTypes,
         UNCHANGED <<accounts, told, workers, connections, warned, session, window, waiting>>,
         ProgramTypes'
  PROVE  Inv'
<1> DEFINE k == socket[c]
<1>1. /\ session[c].loggedIn => session[c].username # None
      /\ c \notin warned => WindowOK(session[c], window[c], waiting[c], socket[c] # 0)
  BY DEF Inv, ClientInv
<1>2. k # 0 => IF window[c] = "home" THEN HomeOK(up[k], workers[k], session[c])
               ELSE DoorOK(up[k], Tail(down[k]), workers[k], session[c], waiting[c])
  <2> SUFFICES ASSUME k # 0, window[c] # "home"
               PROVE  DoorOK(up[k], Tail(down[k]), workers[k], session[c], waiting[c])
    BY DEF Inv, ClientInv
  <2>1. DoorOK(up[k], down[k], workers[k], session[c], waiting[c])
    BY DEF Inv, ClientInv
  <2>2. AnswersFor(c) = down[k] /\ down[k] \in Seq(AnswerSet) /\ waiting[c] \in SUBSET FormTypes
    BY ConnectedClient
  <2> HIDE DEF k
  <2> QED
    BY <2>1, <2>2, DoorHears
<1> HIDE DEF k
<1> QED
  BY <1>1, <1>2, StaysInv DEF k

LEMMA HearsLoginInv == ASSUME Inv, NEW c \in Clients, HearsLogin(c) PROVE Inv'
<1> DEFINE m == Head(AnswersFor(c))
           k == socket[c]
<1>1. /\ AnswersFor(c) # <<>> /\ m.type = "login" /\ m.success /\ ~session[c].loggedIn
      /\ session' = [session EXCEPT ![c] =
            [loggedIn |-> TRUE, username |-> m.username, nickname |-> m.nickname]]
      /\ window' = [window EXCEPT ![c] = "home"]
      /\ waiting' = [waiting EXCEPT ![c] = waiting[c] \ {"login"}]
      /\ Stays(c)
      /\ UNCHANGED <<accounts, told, workers, connections, warned, form, oldPass, actions, drops>>
  BY DEF HearsLogin, Hears, Enables
<1>2. m \in AnswerSet
  BY <1>1, RequestsType
<1>3. m.username \in Users /\ m.nickname \in Nicknames /\ m.username # None
  BY <1>1, <1>2, NoneAssumption DEF AnswerSet, None
<1>4. /\ session'[c].loggedIn /\ session'[c].username = m.username
      /\ session'[c].nickname = m.nickname
      /\ window'[c] = "home" /\ waiting'[c] = waiting[c] \ {"login"}
      /\ \A d \in Clients \ {c} :
           session'[d] = session[d] /\ window'[d] = window[d] /\ waiting'[d] = waiting[d]
  BY <1>1 DEF Inv, Types, ProgramTypes
<1>5. ProgramTypes'
  <2>1. session' \in [Clients -> SessionSet]
    BY <1>1, <1>3 DEF Inv, Types, ProgramTypes, SessionSet
  <2>2. /\ window' \in [Clients -> {"login", "signup", "home"}]
        /\ waiting' \in [Clients -> SUBSET {"login", "signup"}]
    BY <1>1 DEF Inv, Types, ProgramTypes
  <2> QED
    BY <1>1, <2>1, <2>2 DEF Inv, Types, ProgramTypes
<1>6. c \notin warned => WindowOK(session'[c], window'[c], waiting'[c], socket[c] # 0)
  <2>1. c \notin warned => waiting'[c] = {}
    BY <1>1, <1>4, PendingForm DEF FormTypes
  <2> QED
    BY <1>4, <2>1 DEF WindowOK
<1>7. k # 0 => HomeOK(up[k], workers[k], session'[c])
  <2> HAVE k # 0
  <2>1. window[c] # "home" /\ AnswersFor(c) = down[k] /\ up[k] \in Seq(RequestSet)
    BY <1>1, ConnectedClient, PendingForm DEF FormTypes
  <2>2. DoorOK(up[k], down[k], workers[k], session[c], waiting[c])
    BY <2>1 DEF Inv, ClientInv
  <2>3. m \in ToSet(down[k])
    BY <1>1, <2>1, ConnectedClient, TailSet
  <2>4. workers[k].username = m.username /\ workers[k].nickname = m.nickname
    BY <1>1, <2>2, <2>3 DEF DoorOK, LoginSuccess
  <2>5. \A i \in DOMAIN up[k] : up[k][i].type # "nickname"
    BY <2>2 DEF DoorOK, LoggedInTypes, ToSet
  <2> QED
    BY <1>4, <2>4, <2>5 DEF HomeOK, EndsWith
<1> HIDE DEF m, k
<1> QED
  BY <1>1, <1>3, <1>4, <1>5, <1>6, <1>7, StaysInv DEF k

\* The connection is closed, and nothing is waited for.
LEMMA DisconnectsInv ==
  ASSUME Inv, NEW c \in Clients, AnswersFor(c) # <<>>, disconnectFromHost(c), ~session[c].loggedIn,
         c \notin warned => window'[c] # "home" /\ waiting'[c] = {},
         \A d \in Clients \ {c} : window'[d] = window[d] /\ waiting'[d] = waiting[d],
         UNCHANGED <<accounts, told, workers, connections, warned, session>>, ProgramTypes'
  PROVE  Inv'
<1> DEFINE rest == Tail(AnswersFor(c))
<1>1. PICK read \in IF socket[c] = 0 THEN {rest} ELSE Prefixes(rest) : Closes(c, Requests(c), read)
  BY DEF disconnectFromHost
<1>2. rest \in Seq(AnswerSet) /\ Requests(c) \in Prefixes(Requests(c))
  BY RequestsType
<1> HIDE DEF rest
<1>3. read \in Seq(AnswerSet)
  BY <1>1, <1>2, PrefixSet
<1>4. c \notin warned => WindowOK(session'[c], window'[c], waiting'[c], FALSE)
  BY DEF WindowOK
<1> QED
  BY <1>1, <1>2, <1>3, <1>4, ClosesInv

LEMMA HearsLoginFailedInv == ASSUME Inv, NEW c \in Clients, HearsLoginFailed(c) PROVE Inv'
<1>1. /\ AnswersFor(c) # <<>> /\ Head(AnswersFor(c)).type = "login" /\ ~session[c].loggedIn
      /\ waiting' = [waiting EXCEPT ![c] = waiting[c] \ {"login"}] /\ disconnectFromHost(c)
      /\ UNCHANGED <<accounts, told, workers, connections, warned, session, window, form, oldPass>>
      /\ UNCHANGED <<actions, drops>>
  BY DEF HearsLoginFailed, Hears, Enables
<1>2. /\ waiting'[c] = waiting[c] \ {"login"} /\ \A d \in Clients \ {c} : waiting'[d] = waiting[d]
  BY <1>1 DEF Inv, Types, ProgramTypes
<1>3. ProgramTypes'
  BY <1>1 DEF Inv, Types, ProgramTypes
<1>4. c \notin warned => window'[c] # "home" /\ waiting'[c] = {}
  BY <1>1, <1>2, PendingForm DEF FormTypes
<1> QED
  BY <1>1, <1>2, <1>3, <1>4, DisconnectsInv

LEMMA HearsSignupInv == ASSUME Inv, NEW c \in Clients, HearsSignup(c) PROVE Inv'
<1>1. /\ AnswersFor(c) # <<>> /\ Head(AnswersFor(c)).type = "signup" /\ ~session[c].loggedIn
      /\ waiting' = [waiting EXCEPT ![c] = waiting[c] \ {"signup"}] /\ disconnectFromHost(c)
      /\ form' = [form EXCEPT ![c] = Blank]
      /\ window' = window \/ window' = [window EXCEPT ![c] = "login"]
      /\ UNCHANGED <<accounts, told, workers, connections, warned, session, oldPass>>
      /\ UNCHANGED <<actions, drops>>
  BY DEF HearsSignup, Hears, Enables
<1>2. /\ waiting'[c] = waiting[c] \ {"signup"} /\ \A d \in Clients \ {c} : waiting'[d] = waiting[d]
      /\ window'[c] \in {window[c], "login"} /\ \A d \in Clients \ {c} : window'[d] = window[d]
      /\ window' \in [Clients -> {"login", "signup", "home"}]
  BY <1>1 DEF Inv, Types, ProgramTypes
<1>3. ProgramTypes'
  <2>1. form' \in [Clients -> [name : Users \cup {None}, inuse : {"FREE", "USED", "UNCHECKED"}]]
    BY <1>1 DEF Inv, Types, ProgramTypes, Blank
  <2> QED
    BY <1>1, <1>2, <2>1 DEF Inv, Types, ProgramTypes
<1>4. c \notin warned => window'[c] # "home" /\ waiting'[c] = {}
  BY <1>1, <1>2, PendingForm DEF FormTypes
<1> QED
  BY <1>1, <1>2, <1>3, <1>4, DisconnectsInv

LEMMA ListensInv == ASSUME Inv, NEW c \in Clients, Listens(c) PROVE Inv'
<1>1. CASE HearsLate(c)
  <2>1. /\ AnswersFor(c) # <<>> /\ session[c].loggedIn /\ Stays(c)
        /\ UNCHANGED <<accounts, told, workers, connections, warned, session, window, waiting>>
        /\ UNCHANGED <<form, oldPass, actions, drops>>
    BY <1>1 DEF HearsLate, Hears
  <2>2. ProgramTypes'
    BY <2>1 DEF Inv, Types, ProgramTypes
  <2> QED
    BY <2>1, <2>2, HearsOther
<1>2. CASE HearsCheckUsername(c)
  <2>1. /\ AnswersFor(c) # <<>> /\ Head(AnswersFor(c)).type \notin FormTypes /\ Stays(c)
        /\ UNCHANGED <<accounts, told, workers, connections, warned, session, window, waiting>>
        /\ UNCHANGED <<oldPass, actions, drops>>
        /\ \/ form' = form
           \/ \E used \in {"FREE", "USED"} : form' = [form EXCEPT ![c].inuse = used]
    BY <1>2 DEF HearsCheckUsername, Hears, FormTypes
  <2>2. form' \in [Clients -> [name : Users \cup {None}, inuse : {"FREE", "USED", "UNCHECKED"}]]
    <3> DEFINE F == [name : Users \cup {None}, inuse : {"FREE", "USED", "UNCHECKED"}]
    <3>1. form \in [Clients -> F]
      BY DEF Inv, Types, ProgramTypes
    <3>2. \A used \in {"FREE", "USED"} : [form[c] EXCEPT !.inuse = used] \in F
      BY <3>1
    <3> HIDE DEF F
    <3>3. form' \in [Clients -> F]
      BY <2>1, <3>1, <3>2
    <3> QED
      BY <3>3 DEF F
  <2>3. ProgramTypes'
    BY <2>1, <2>2 DEF Inv, Types, ProgramTypes
  <2> QED
    BY <2>1, <2>3, HearsOther
<1>3. CASE HearsOldPassword(c) \/ HearsUpdate(c)
  <2>1. /\ AnswersFor(c) # <<>> /\ Head(AnswersFor(c)).type \notin FormTypes /\ Stays(c)
        /\ UNCHANGED <<accounts, told, workers, connections, warned, session, window, waiting>>
        /\ UNCHANGED <<form, actions, drops>>
        /\ \/ oldPass' = oldPass
           \/ \E s \in {"CORRECT", "WRONG"} : oldPass' = [oldPass EXCEPT ![c].status = s]
    BY <1>3 DEF HearsOldPassword, HearsUpdate, Hears, FormTypes
  <2>2. oldPass' \in [Clients -> [text : Passwords \cup {None},
                                  status : {"CORRECT", "WRONG", "UNCHECKED"}]]
    <3> DEFINE F == [text : Passwords \cup {None}, status : {"CORRECT", "WRONG", "UNCHECKED"}]
    <3>1. oldPass \in [Clients -> F]
      BY DEF Inv, Types, ProgramTypes
    <3>2. \A s \in {"CORRECT", "WRONG"} : [oldPass[c] EXCEPT !.status = s] \in F
      BY <3>1
    <3> HIDE DEF F
    <3>3. oldPass' \in [Clients -> F]
      BY <2>1, <3>1, <3>2
    <3> QED
      BY <3>3 DEF F
  <2>3. ProgramTypes'
    BY <2>1, <2>2 DEF Inv, Types, ProgramTypes
  <2> QED
    BY <2>1, <2>3, HearsOther
<1> QED
  BY <1>1, <1>2, <1>3, HearsLoginInv, HearsLoginFailedInv, HearsSignupInv DEF Listens

-----------------------------------------------------------------------------
(***************************************************************************)
(* The server.                                                             *)
(***************************************************************************)

\* What the server reads from connection k.
LEMMA TakesFacts ==
  ASSUME Inv, NEW k \in Links, Takes(k)
  PROVE  /\ k \in DOMAIN workers /\ workers[k] \in WorkerSet
         /\ up[k] \in Seq(RequestSet) /\ up[k] # <<>> /\ down[k] \in Seq(AnswerSet)
         /\ Head(up[k]) \in RequestSet /\ Head(up[k]) \in ToSet(up[k])
         /\ up' \in [Links -> Seq(RequestSet)] /\ up'[k] = Tail(up[k])
         /\ ToSet(Tail(up[k])) \subseteq ToSet(up[k])
         /\ \A j \in Links : j # k => up'[j] = up[j]
         /\ RequestsOK(up[k], workers[k])
         /\ UNCHANGED <<connections, socket, inbox, session, window, waiting, warned, form, oldPass>>
         /\ UNCHANGED <<actions, drops>> /\ ~(k > connections)
<1>1. /\ up[k] # <<>> /\ up' = [up EXCEPT ![k] = Tail(up[k])]
      /\ UNCHANGED <<connections, socket, inbox, session, window, waiting, warned, form, oldPass>>
      /\ UNCHANGED <<actions, drops>>
  BY DEF Takes, program
<1>2. k \in DOMAIN workers /\ RequestsOK(up[k], workers[k])
  BY <1>1 DEF Inv, LinksInv
<1>3. /\ up \in [Links -> Seq(RequestSet)] /\ down[k] \in Seq(AnswerSet) /\ workers[k] \in WorkerSet
  BY <1>2 DEF Inv, Types, NetworkTypes
<1>4. /\ Head(up[k]) \in RequestSet /\ Tail(up[k]) \in Seq(RequestSet)
      /\ ToSet(up[k]) = {Head(up[k])} \cup ToSet(Tail(up[k]))
  BY <1>1, <1>3, TailSet
<1>5. ~(k > connections)
  BY <1>1 DEF Inv, LinksInv
<1> QED
  BY <1>1, <1>2, <1>3, <1>4, <1>5

\* Connection k has the worker w afterwards, and the others have those they had.
Handled(k, w) ==
  /\ DOMAIN workers' = DOMAIN workers /\ workers'[k] = w /\ w \in WorkerSet
  /\ workers' = [j \in DOMAIN workers |-> workers'[j]]
  /\ \A j \in DOMAIN workers : j # k => workers'[j] = workers[j]

LEMMA HandledSame ==
  ASSUME Inv, NEW k \in DOMAIN workers, UNCHANGED workers
  PROVE  Handled(k, workers[k])
BY DEF Handled, Inv, Types, NetworkTypes

LEMMA HandledNew ==
  ASSUME Inv, NEW k \in DOMAIN workers, NEW w \in WorkerSet, workers' = [workers EXCEPT ![k] = w]
  PROVE  Handled(k, w)
BY DEF Handled, Inv, Types, NetworkTypes

LEMMA ServerInv ==
  ASSUME Inv, NEW k \in Links, Takes(k), DatabaseTypes', NEW w, Handled(k, w),
         down' \in [Links -> Seq(AnswerSet)], \A j \in Links : j # k => down'[j] = down[j],
         RequestsOK(Tail(up[k]), w),
         \A c \in Clients : socket[c] = k /\ window[c] = "home" => HomeOK(Tail(up[k]), w, session[c]),
         \A c \in Clients : socket[c] = k /\ window[c] # "home" =>
           DoorOK(Tail(up[k]), down'[k], w, session[c], waiting[c])
  PROVE  Inv'
<1>1. /\ k \in DOMAIN workers /\ ~(k > connections)
      /\ up' \in [Links -> Seq(RequestSet)] /\ up'[k] = Tail(up[k])
      /\ ToSet(Tail(up[k])) \subseteq ToSet(up[k])
      /\ \A j \in Links : j # k => up'[j] = up[j]
      /\ UNCHANGED <<connections, socket, inbox, session, window, waiting, warned, form, oldPass>>
      /\ UNCHANGED <<actions, drops>>
  BY TakesFacts
<1>2. /\ DOMAIN workers' = DOMAIN workers /\ workers'[k] = w
      /\ workers' \in [DOMAIN workers' -> WorkerSet]
      /\ \A j \in DOMAIN workers : j # k => workers'[j] = workers[j]
  BY DEF Handled, Inv, Types, NetworkTypes
<1>3. \A d \in Clients : socket[d] # 0 => socket[d] \in Links /\ socket[d] \in DOMAIN workers
  BY ConnectedClient
<1>4. Types'
  BY <1>1, <1>2 DEF Inv, Types, NetworkTypes, ProgramTypes
<1>5. LinksInv'
  BY <1>1, <1>2 DEF Inv, LinksInv
<1>6. SocketsInv'
  <2>1. ASSUME NEW d \in Clients, socket[d] # 0
        PROVE  \A m \in ToSet(up'[socket[d]]) : m.type # "disconnected"
    <3>1. up'[socket[d]] = up[socket[d]] \/ ToSet(up'[socket[d]]) \subseteq ToSet(up[socket[d]])
      BY <1>1, <1>3, <2>1
    <3> QED
      BY <2>1, <3>1 DEF Inv, SocketsInv
  <2> QED
    BY <1>1, <2>1 DEF Inv, SocketsInv
<1>7. ASSUME NEW d \in Clients, socket[d] = k PROVE ClientInv(d)'
  BY <1>1, <1>2, <1>7 DEF Inv, ClientInv
<1>8. ASSUME NEW d \in Clients, socket[d] # k PROVE ClientInv(d)'
  BY <1>1, <1>2, <1>3, <1>8, ClientKept DEF Inv
<1> QED
  BY <1>4, <1>5, <1>6, <1>7, <1>8 DEF Inv

LEMMA AnswersFacts ==
  ASSUME Inv, NEW k \in Links, NEW m \in AnswerSet, Answers(k, m)
  PROVE  /\ down' \in [Links -> Seq(AnswerSet)] /\ \A j \in Links : j # k => down'[j] = down[j]
         /\ \A c \in Clients : socket[c] = k => down'[k] = Append(down[k], m)
<1>1. down \in [Links -> Seq(AnswerSet)] /\ Append(down[k], m) \in Seq(AnswerSet)
  BY AppendSet DEF Inv, Types, NetworkTypes
<1>2. CASE Open(k)
  <2>1. down' = [down EXCEPT ![k] = Append(down[k], m)]
    BY <1>2 DEF Answers
  <2> QED
    BY <1>1, <2>1
<1>3. CASE ~Open(k)
  <2>1. down' = down /\ \A c \in Clients : socket[c] # k
    BY <1>3 DEF Answers, Open
  <2> QED
    BY <1>1, <2>1
<1> QED
  BY <1>2, <1>3

\* A client whose user is at home has a worker with a user name.
LEMMA HomeWorker ==
  ASSUME Inv, NEW c \in Clients, socket[c] # 0, window[c] = "home"
  PROVE  workers[socket[c]].username # None
<1>1. session[c].loggedIn /\ session[c].username # None
  BY ConnectedClient, HomeSession, NoneAssumption DEF None
<1> QED
  BY <1>1 DEF Inv, ClientInv, HomeOK

\* Who is at the door asks for nothing that takes a login.
LEMMA DoorRequests ==
  ASSUME Inv, NEW c \in Clients, socket[c] # 0, NEW m \in ToSet(up[socket[c]]), m.type \in LoggedInTypes
  PROVE  window[c] = "home"
BY DEF Inv, ClientInv, DoorOK

\* An answer to a request that needs no login, for a worker that stays, or is logged in.
LEMMA AnsweredAtDoor ==
  ASSUME Inv, NEW k \in Links, Takes(k), DatabaseTypes', NEW w, Handled(k, w),
         NEW m \in AnswerSet, Answers(k, m), m.type = Head(up[k]).type, m.type # "nickname",
         \/ ~LoginSuccess(m) /\ w = workers[k]
         \/ /\ LoginSuccess(m) /\ workers[k].username = None
            /\ m.username = w.username /\ m.nickname = w.nickname
  PROVE  Inv'
<1> DEFINE s == up[k]
           v == workers[k]
           answers == down[k]
<1>1. /\ k \in DOMAIN workers /\ v \in WorkerSet /\ s \in Seq(RequestSet) /\ s # <<>>
      /\ answers \in Seq(AnswerSet) /\ RequestsOK(s, v)
      /\ ToSet(Tail(s)) \subseteq ToSet(s)
      /\ w \in WorkerSet /\ m.type = Head(s).type
  BY TakesFacts DEF Handled
<1>2. /\ down' \in [Links -> Seq(AnswerSet)] /\ \A j \in Links : j # k => down'[j] = down[j]
      /\ \A c \in Clients : socket[c] = k => down'[k] = Append(answers, m)
  BY AnswersFacts
<1>3. k # 0
  BY DEF Links
<1>4. RequestsOK(Tail(s), w)
  <2>1. CASE w = v
    BY <1>1, <2>1, RequestsOKTail
  <2>2. CASE v.username = None
    <3>1. ASSUME NEW a \in ToSet(s) PROVE a.type \notin LoggedInTypes
      <4>1. a \in RequestSet
        BY <1>1 DEF ToSet
      <4>2. a.type \in LoggedInTypes => a.username \in Users
        BY <4>1 DEF RequestSet, LoggedInTypes
      <4> QED
        BY <1>1, <2>2, <3>1, <4>2, NoneAssumption DEF RequestsOK, None
    <3>2. RequestsOK(Tail(s), v)
      BY <1>1, RequestsOKTail
    <3> QED
      BY <1>1, <3>1, <3>2 DEF RequestsOK
  <2> QED
    BY <2>1, <2>2
<1>5. ASSUME NEW c \in Clients, socket[c] = k, window[c] = "home"
      PROVE  HomeOK(Tail(s), w, session[c])
  <2>1. v.username # None /\ HomeOK(s, v, session[c])
    BY <1>3, <1>5, HomeWorker DEF Inv, ClientInv
  <2>2. w = v /\ Head(s).type # "nickname"
    BY <1>1, <2>1
  <2> HIDE DEF s, v
  <2>3. EndsWith(Tail(s), v.nickname, session[c].nickname)
    BY <1>1, <2>1, <2>2, EndsWithTail DEF HomeOK
  <2> QED
    BY <2>1, <2>2, <2>3 DEF HomeOK
<1>6. ASSUME NEW c \in Clients, socket[c] = k, window[c] # "home"
      PROVE  DoorOK(Tail(s), down'[k], w, session[c], waiting[c])
  <2>1. DoorOK(s, answers, v, session[c], waiting[c])
    BY <1>3, <1>6 DEF Inv, ClientInv
  <2>2. \/ ~LoginSuccess(m) /\ w = v
        \/ LoginSuccess(m) /\ v.username = None /\ m.username = w.username /\ m.nickname = w.nickname
    OBVIOUS
  <2> HIDE DEF s, v, answers
  <2>3. DoorOK(Tail(s), Append(answers, m), w, session[c], waiting[c])
    BY <1>1, <2>1, <2>2, DoorAnswered
  <2> QED
    BY <1>2, <1>6, <2>3
<1> QED
  BY <1>2, <1>4, <1>5, <1>6, ServerInv

\* An answer to a request of a user who is logged in.
LEMMA AnsweredAtHome ==
  ASSUME Inv, NEW k \in Links, Takes(k), DatabaseTypes', NEW w, Handled(k, w),
         NEW m \in AnswerSet, Answers(k, m), Head(up[k]).type \in LoggedInTypes,
         w.username = workers[k].username,
         w.nickname = IF Head(up[k]).type = "nickname" THEN Head(up[k]).nickname
                      ELSE workers[k].nickname
  PROVE  Inv'
<1> DEFINE s == up[k]
           v == workers[k]
<1>1. /\ k \in DOMAIN workers /\ v \in WorkerSet /\ s \in Seq(RequestSet) /\ s # <<>>
      /\ RequestsOK(s, v) /\ Head(s) \in ToSet(s) /\ w \in WorkerSet
  BY TakesFacts DEF Handled
<1>2. down' \in [Links -> Seq(AnswerSet)] /\ \A j \in Links : j # k => down'[j] = down[j]
  BY AnswersFacts
<1>3. k # 0
  BY DEF Links
<1>4. RequestsOK(Tail(s), w)
  <2>1. RequestsOK(Tail(s), v)
    BY <1>1, RequestsOKTail
  <2> QED
    BY <2>1 DEF RequestsOK
<1>5. ASSUME NEW c \in Clients, socket[c] = k PROVE window[c] = "home"
  BY <1>1, <1>3, <1>5, DoorRequests
<1>6. ASSUME NEW c \in Clients, socket[c] = k PROVE HomeOK(Tail(s), w, session[c])
  <2>1. HomeOK(s, v, session[c])
    BY <1>3, <1>5, <1>6 DEF Inv, ClientInv
  <2>2. /\ w.username = v.username
        /\ w.nickname = IF Head(s).type = "nickname" THEN Head(s).nickname ELSE v.nickname
    OBVIOUS
  <2> HIDE DEF s, v
  <2>3. EndsWith(Tail(s), w.nickname, session[c].nickname)
    BY <1>1, <2>1, <2>2, EndsWithTail DEF HomeOK
  <2> QED
    BY <2>1, <2>2, <2>3 DEF HomeOK
<1> QED
  BY <1>2, <1>4, <1>5, <1>6, ServerInv

\* A worker has a user name just when it has a nickname.
LEMMA WorkerNames ==
  ASSUME NEW w \in WorkerSet
  PROVE  \/ w.username \in Users /\ w.nickname \in Nicknames /\ w.username # None /\ w.nickname # None
         \/ w.username = None /\ w.nickname = None
<1>1. CASE w = LoggedOut
  BY <1>1 DEF LoggedOut
<1>2. CASE w \in [username : Users, nickname : Nicknames]
  <2>1. w.username \in Users /\ w.nickname \in Nicknames
    BY <1>2
  <2> QED
    BY <2>1, NoneAssumption DEF None
<1> QED
  BY <1>1, <1>2 DEF WorkerSet

\* A request of a user who is logged in is always heard: the worker knows the user.
LEMMA LoggedInHeard ==
  ASSUME Inv, NEW k \in Links, Takes(k), Head(up[k]).type \in LoggedInTypes
  PROVE  /\ Head(up[k]).username = workers[k].username
         /\ workers[k].username \in Users /\ workers[k].nickname \in Nicknames
<1>1. /\ Head(up[k]) \in RequestSet /\ Head(up[k]) \in ToSet(up[k]) /\ RequestsOK(up[k], workers[k])
      /\ workers[k] \in WorkerSet
  BY TakesFacts
<1>2. Head(up[k]).username \in Users
  BY <1>1 DEF RequestSet, LoggedInTypes
<1>3. Head(up[k]).username = workers[k].username
  BY <1>1 DEF RequestsOK
<1> QED
  BY <1>1, <1>2, <1>3, WorkerNames, NoneAssumption DEF None

LEMMA IgnoresInv == ASSUME Inv, NEW k \in Links, Ignores(k) PROVE Inv'
<1> DEFINE s == up[k]
           v == workers[k]
<1>1. Takes(k) /\ UNCHANGED <<accounts, workers, down, told>>
  BY DEF Ignores
<1>2. /\ k \in DOMAIN workers /\ v \in WorkerSet /\ s \in Seq(RequestSet) /\ s # <<>>
      /\ RequestsOK(s, v)
  BY <1>1, TakesFacts
<1>3. v.nickname # None /\ Head(s).type \in {"login", "check_username"}
  <2>1. Head(s).type \in LoggedInTypes => v.nickname # None
    BY <1>1, LoggedInHeard, NoneAssumption DEF None
  <2> QED
    BY <2>1 DEF Ignores
<1>4. v.username # None
  BY <1>2, <1>3, WorkerNames
<1>5. k # 0
  BY DEF Links
<1>6. Handled(k, v) /\ DatabaseTypes'
  BY <1>1, <1>2, HandledSame DEF Inv, Types, DatabaseTypes
<1>7. down' \in [Links -> Seq(AnswerSet)] /\ \A j \in Links : j # k => down'[j] = down[j]
  BY <1>1 DEF Inv, Types, NetworkTypes
<1>8. RequestsOK(Tail(s), v)
  BY <1>2, RequestsOKTail
<1>9. ASSUME NEW c \in Clients, socket[c] = k, window[c] = "home"
      PROVE  HomeOK(Tail(s), v, session[c])
  <2>1. HomeOK(s, v, session[c])
    BY <1>5, <1>9 DEF Inv, ClientInv
  <2> HIDE DEF s, v
  <2>2. EndsWith(Tail(s), v.nickname, session[c].nickname)
    BY <1>2, <1>3, <2>1, EndsWithTail DEF HomeOK
  <2> QED
    BY <2>1, <2>2 DEF HomeOK
<1>10. ASSUME NEW c \in Clients, socket[c] = k, window[c] # "home"
       PROVE  DoorOK(Tail(s), down'[k], v, session[c], waiting[c])
  <2>1. DoorOK(s, down[k], v, session[c], waiting[c]) /\ waiting[c] \in SUBSET FormTypes
    BY <1>5, <1>10, ConnectedClient DEF Inv, ClientInv
  <2> HIDE DEF s, v
  <2>2. DoorOK(Tail(s), down[k], v, session[c], waiting[c])
    BY <1>2, <1>3, <1>4, <2>1, DoorIgnored
  <2> QED
    BY <1>1, <2>2
<1> QED
  BY <1>1, <1>6, <1>7, <1>8, <1>9, <1>10, ServerInv

\* The request that says that a connection is closed is the last.
LEMMA userDisconnectedInv == ASSUME Inv, NEW k \in Links, userDisconnected(k) PROVE Inv'
<1>1. /\ Takes(k) /\ Head(up[k]).type = "disconnected"
      /\ workers' = [j \in DOMAIN workers \ {k} |-> workers[j]]
      /\ UNCHANGED <<accounts, down, told>>
  BY DEF userDisconnected, Restrict
<1>2. /\ k \in DOMAIN workers /\ up[k] \in Seq(RequestSet) /\ up[k] # <<>>
      /\ Head(up[k]) \in ToSet(up[k]) /\ RequestsOK(up[k], workers[k])
      /\ up' \in [Links -> Seq(RequestSet)] /\ up'[k] = Tail(up[k])
      /\ \A j \in Links : j # k => up'[j] = up[j]
      /\ UNCHANGED <<connections, socket, inbox, session, window, waiting, warned, form, oldPass>>
      /\ UNCHANGED <<actions, drops>> /\ ~(k > connections)
  BY <1>1, TakesFacts
<1>3. up'[k] = <<>>
  <2>1. 1 \in DOMAIN up[k] /\ up[k][1].type = "disconnected" /\ Len(up[k]) \in Nat
    BY <1>1, <1>2, TailSet
  <2>2. Len(up[k]) = 1
    BY <1>2, <2>1 DEF RequestsOK
  <2>3. Tail(up[k]) = <<>>
    BY <1>2, <2>2
  <2> QED
    BY <1>2, <2>3
<1>4. \A c \in Clients : socket[c] # k
  <2>1. k # 0
    BY DEF Links
  <2> QED
    BY <1>1, <1>2, <2>1 DEF Inv, SocketsInv
<1>5. /\ DOMAIN workers' = DOMAIN workers \ {k} /\ \A j \in DOMAIN workers' : workers'[j] = workers[j]
      /\ workers' \in [DOMAIN workers' -> WorkerSet]
  BY <1>1 DEF Inv, Types, NetworkTypes
<1>6. \A d \in Clients : socket[d] # 0 => socket[d] \in Links /\ socket[d] \in DOMAIN workers'
  BY <1>4, <1>5, ConnectedClient
<1>7. Types'
  <2>1. socket' \in [Clients -> {0} \cup DOMAIN workers']
    BY <1>2, <1>6 DEF Inv, Types, NetworkTypes
  <2>2. DOMAIN workers' \subseteq 1 .. connections'
    BY <1>2, <1>5 DEF Inv, Types, NetworkTypes
  <2> QED
    BY <1>1, <1>2, <1>5, <2>1, <2>2 DEF Inv, Types, DatabaseTypes, NetworkTypes, ProgramTypes
<1>8. LinksInv'
  BY <1>1, <1>2, <1>3, <1>5 DEF Inv, LinksInv
<1>9. SocketsInv'
  BY <1>2, <1>4, <1>6 DEF Inv, SocketsInv
<1>10. ASSUME NEW d \in Clients PROVE ClientInv(d)'
  <2>1. socket[d] # 0 => up'[socket[d]] = up[socket[d]] /\ workers'[socket[d]] = workers[socket[d]]
    BY <1>2, <1>4, <1>5, <1>6
  <2> QED
    BY <1>1, <1>2, <2>1, ClientKept DEF Inv
<1> QED
  BY <1>7, <1>8, <1>9, <1>10 DEF Inv

\* What the requests carry.
LEMMA RequestFields ==
  ASSUME NEW m \in RequestSet
  PROVE  /\ m.type \in {"login", "signup", "check_username"} \cup LoggedInTypes => m.username \in Users
         /\ m.type \in {"login", "signup", "check_old_password", "password"} => m.password \in Passwords
         /\ m.type = "nickname" => m.nickname \in Nicknames
         /\ m.type = "password" => m.newpass \in Passwords
BY DEF RequestSet, LoggedInTypes

LEMMA DatabaseKept == ASSUME Inv, UNCHANGED <<accounts, told>> PROVE DatabaseTypes'
BY DEF Inv, Types, DatabaseTypes

AccountSet == [password : Passwords, nickname : Nicknames]

LEMMA DatabaseUpdated ==
  ASSUME Inv, NEW u \in Users, NEW field \in {"password", "nickname"},
         NEW value, value \in IF field = "password" THEN Passwords ELSE Nicknames,
         NEW r, MongoUpdate(u, field, value, r)
  PROVE  DOMAIN accounts' = DOMAIN accounts /\ accounts' \in [DOMAIN accounts -> AccountSet]
<1>1. accounts \in [DOMAIN accounts -> AccountSet]
  BY DEF Inv, Types, DatabaseTypes, AccountSet
<1>2. CASE r # "SUCCESS"
  BY <1>1, <1>2 DEF MongoUpdate
<1>3. CASE r = "SUCCESS"
  <2>1. accounts' = [accounts EXCEPT ![u] = [accounts[u] EXCEPT ![field] = value]]
    BY <1>3 DEF MongoUpdate
  <2>2. u \in DOMAIN accounts => [accounts[u] EXCEPT ![field] = value] \in AccountSet
    <3> HAVE u \in DOMAIN accounts
    <3>1. accounts[u] \in AccountSet
      BY <1>1
    <3>2. CASE field = "password"
      BY <3>1, <3>2 DEF AccountSet
    <3>3. CASE field = "nickname"
      BY <3>1, <3>3 DEF AccountSet
    <3> QED
      BY <3>2, <3>3
  <2> DEFINE a == [accounts[u] EXCEPT ![field] = value]
  <2> HIDE DEF a
  <2>3. accounts' = [accounts EXCEPT ![u] = a] /\ (u \in DOMAIN accounts => a \in AccountSet)
    BY <2>1, <2>2 DEF a
  <2> QED
    BY <1>1, <2>3
<1> QED
  BY <1>2, <1>3

LEMMA checkCredentialsInv == ASSUME Inv, NEW k \in Links, checkCredentials(k) PROVE Inv'
<1> DEFINE u == Head(up[k]).username
<1>1. PICK r \in Results("login", Verified(u, Head(up[k]).password)) :
        \/ /\ r = "SUCCESS" /\ workers' = [workers EXCEPT ![k] = LoggedInAs(u)]
           /\ Answers(k, LoginAnswer(LoggedInAs(u)))
        \/ UNCHANGED workers /\ Answers(k, Answer("login", FALSE))
  BY DEF checkCredentials
<1>2. /\ Takes(k) /\ Head(up[k]).type = "login" /\ workers[k].nickname = None
      /\ UNCHANGED <<accounts, told>>
  BY DEF checkCredentials, Receives, LoggedInTypes
<1>3. /\ k \in DOMAIN workers /\ workers[k] \in WorkerSet /\ u \in Users
      /\ workers[k].username = None
  BY <1>2, TakesFacts, RequestFields, WorkerNames
<1>4. DatabaseTypes'
  BY <1>2, DatabaseKept
<1>5. CASE /\ r = "SUCCESS" /\ workers' = [workers EXCEPT ![k] = LoggedInAs(u)]
           /\ Answers(k, LoginAnswer(LoggedInAs(u)))
  <2> DEFINE w == LoggedInAs(u)
             m == LoginAnswer(w)
  <2>1. u \in DOMAIN accounts
    <3>1. Verified(u, Head(up[k]).password) = "SUCCESS"
      <4> DEFINE right == Verified(u, Head(up[k]).password)
      <4>1. r \in Results("login", right)
        BY <1>1
      <4> HIDE DEF right
      <4>2. right = "SUCCESS"
        BY <1>5, <4>1 DEF Results
      <4> QED
        BY <4>2 DEF right
    <3>2. u \notin DOMAIN accounts =>
            Verified(u, Head(up[k]).password) \in {"NON_EXISTING_USER", "WRONG_PASSWORD"}
      BY DEF Verified
    <3> QED
      BY <3>1, <3>2
  <2>2. accounts[u].nickname \in Nicknames
    BY <2>1 DEF Inv, Types, DatabaseTypes
  <2>3. w \in WorkerSet /\ w.username \in Users /\ w.nickname \in Nicknames
    BY <1>3, <2>2 DEF LoggedInAs, WorkerSet
  <2>4. workers' = [workers EXCEPT ![k] = w] /\ Answers(k, m)
    BY <1>5
  <2> HIDE DEF w
  <2>5. /\ m \in AnswerSet /\ m.type = "login" /\ LoginSuccess(m)
        /\ m.username = w.username /\ m.nickname = w.nickname
    BY <2>3 DEF LoginAnswer, AnswerSet, LoginSuccess
  <2> HIDE DEF m
  <2>6. Handled(k, w)
    BY <1>3, <2>3, <2>4, HandledNew
  <2> QED
    BY <1>2, <1>3, <1>4, <2>4, <2>5, <2>6, AnsweredAtDoor
<1>6. CASE UNCHANGED workers /\ Answers(k, Answer("login", FALSE))
  <2> DEFINE m == Answer("login", FALSE)
  <2>1. m \in AnswerSet /\ m.type = "login" /\ ~LoginSuccess(m)
    BY DEF Answer, AnswerSet, LoginSuccess
  <2>2. Answers(k, m)
    BY <1>6
  <2> HIDE DEF m
  <2>3. Handled(k, workers[k])
    BY <1>3, <1>6, HandledSame
  <2> QED
    BY <1>2, <1>4, <2>1, <2>2, <2>3, AnsweredAtDoor
<1> QED
  BY <1>1, <1>5, <1>6

LEMMA checkAlreadyExistingUsernameInv ==
  ASSUME Inv, NEW k \in Links, checkAlreadyExistingUsername(k) PROVE Inv'
<1> DEFINE u == Head(up[k]).username
<1>1. PICK r \in Results("check_username", Existence(u)) :
        Answers(k, [type |-> "check_username", success |-> r = "SUCCESS",
                    username |-> IF r = "QUERY_ERROR" THEN None ELSE u])
  BY DEF checkAlreadyExistingUsername
<1>2. Takes(k) /\ Head(up[k]).type = "check_username" /\ UNCHANGED <<accounts, workers, told>>
  BY DEF checkAlreadyExistingUsername, Receives
<1>3. k \in DOMAIN workers /\ u \in Users
  BY <1>2, TakesFacts, RequestFields
<1> DEFINE m == [type |-> "check_username", success |-> r = "SUCCESS",
                 username |-> IF r = "QUERY_ERROR" THEN None ELSE u]
<1>4. m \in AnswerSet /\ m.type = "check_username" /\ ~LoginSuccess(m)
  <2> DEFINE n == IF r = "QUERY_ERROR" THEN None ELSE u
             b == r = "SUCCESS"
  <2>1. n \in Users \cup {None} /\ b \in BOOLEAN
    BY <1>3
  <2> HIDE DEF n, b
  <2> QED
    BY <2>1 DEF n, b, AnswerSet, LoginSuccess
<1>5. Answers(k, m)
  BY <1>1
<1> HIDE DEF m
<1>6. Handled(k, workers[k]) /\ DatabaseTypes'
  BY <1>2, <1>3, HandledSame, DatabaseKept
<1> QED
  BY <1>2, <1>4, <1>5, <1>6, AnsweredAtDoor

LEMMA signupInv == ASSUME Inv, NEW k \in Links, signup(k) PROVE Inv'
<1> DEFINE u == Head(up[k]).username
           p == Head(up[k]).password
<1>1. PICK r \in Results("signup", Existence(u)) :
        LET success == r \notin {"QUERY_ERROR", "ALREADY_EXISTING_USER"}
        IN  /\ MongoSignup(u, p, r)
            /\ Answers(k, Answer("signup", success))
            /\ told' = IF success THEN [told EXCEPT ![u] = p] ELSE told
  BY DEF signup
<1>2. Takes(k) /\ Head(up[k]).type = "signup" /\ UNCHANGED workers
  BY DEF signup, Receives
<1>3. k \in DOMAIN workers /\ u \in Users /\ p \in Passwords
  BY <1>2, TakesFacts, RequestFields
<1> DEFINE success == r \notin {"QUERY_ERROR", "ALREADY_EXISTING_USER"}
           m == Answer("signup", success)
<1>4. m \in AnswerSet /\ m.type = "signup" /\ ~LoginSuccess(m)
  <2>1. success \in BOOLEAN
    OBVIOUS
  <2> HIDE DEF success
  <2> QED
    BY <2>1 DEF Answer, AnswerSet, LoginSuccess
<1>5. Answers(k, m)
  BY <1>1
<1>6. DatabaseTypes'
  <2>1. accounts' = accounts
        \/ accounts' = Added(accounts, u, [password |-> p, nickname |-> FirstPart[u]])
    BY <1>1 DEF MongoSignup
  <2>2. [password |-> p, nickname |-> FirstPart[u]] \in AccountSet
    BY <1>3, FirstPartAssumption DEF AccountSet
  <2>3. DOMAIN accounts \subseteq Users /\ accounts \in [DOMAIN accounts -> AccountSet]
    BY DEF Inv, Types, DatabaseTypes, AccountSet
  <2>4. DOMAIN accounts' \subseteq Users /\ accounts' \in [DOMAIN accounts' -> AccountSet]
    BY <1>3, <2>1, <2>2, <2>3 DEF Added
  <2>5. told' \in [Users -> Passwords \cup {None}]
    BY <1>1, <1>3 DEF Inv, Types, DatabaseTypes
  <2> QED
    BY <2>4, <2>5 DEF DatabaseTypes, AccountSet
<1> HIDE DEF m
<1>7. Handled(k, workers[k])
  BY <1>2, <1>3, HandledSame
<1> QED
  BY <1>2, <1>4, <1>5, <1>6, <1>7, AnsweredAtDoor

LEMMA updateNickInv == ASSUME Inv, NEW k \in Links, updateNick(k) PROVE Inv'
<1> DEFINE n == Head(up[k])
           right == IF n.username \in DOMAIN accounts THEN "SUCCESS" ELSE "NON_EXISTING_USER"
<1>1. PICK r \in Results("nickname", right) :
        /\ MongoUpdate(n.username, "nickname", n.nickname, r)
        /\ Answers(k, Answer("nickname", r = "SUCCESS"))
  BY DEF updateNick
<1>2. /\ Takes(k) /\ n.type = "nickname" /\ UNCHANGED told /\ n.type \in LoggedInTypes
      /\ workers' = [workers EXCEPT ![k].nickname = n.nickname]
  BY DEF updateNick, Receives, LoggedInTypes
<1>3. k \in DOMAIN workers /\ n.username \in Users /\ n.nickname \in Nicknames
  BY <1>2, TakesFacts, RequestFields
<1> DEFINE m == Answer("nickname", r = "SUCCESS")
<1>4. m \in AnswerSet
  BY DEF Answer, AnswerSet
<1>5. Answers(k, m)
  BY <1>1
<1>6. DatabaseTypes'
  <2>1. DOMAIN accounts' = DOMAIN accounts /\ accounts' \in [DOMAIN accounts -> AccountSet]
    BY <1>1, <1>3, DatabaseUpdated
  <2> QED
    BY <1>2, <2>1 DEF Inv, Types, DatabaseTypes, AccountSet
<1> DEFINE w == [username |-> workers[k].username, nickname |-> n.nickname]
<1>7. workers' = [workers EXCEPT ![k] = w] /\ w \in WorkerSet
  <2>1. workers[k] \in WorkerSet /\ workers[k].username \in Users
    BY <1>2, TakesFacts, LoggedInHeard
  <2>2. [workers[k] EXCEPT !.nickname = n.nickname] = w
    BY <2>1 DEF WorkerSet, LoggedOut
  <2> QED
    BY <1>2, <1>3, <2>1, <2>2 DEF WorkerSet
<1>8. w.username = workers[k].username /\ w.nickname = n.nickname
  OBVIOUS
<1> HIDE DEF w, m
<1>9. Handled(k, w)
  BY <1>3, <1>7, HandledNew
<1> QED
  BY <1>2, <1>4, <1>5, <1>6, <1>8, <1>9, AnsweredAtHome

\* An answer about a password.
LEMMA AboutPassword ==
  ASSUME Inv, NEW k \in Links, Takes(k), DatabaseTypes', UNCHANGED workers,
         Head(up[k]).type \in {"password", "check_old_password"},
         NEW type \in {"password", "old_password_checked"}, NEW success \in BOOLEAN,
         Answers(k, Answer(type, success))
  PROVE  Inv'
<1> DEFINE m == Answer(type, success)
           w == workers[k]
<1>1. m \in AnswerSet
  BY DEF Answer, AnswerSet
<1>2. Answers(k, m) /\ Head(up[k]).type \in LoggedInTypes /\ Head(up[k]).type # "nickname"
  BY DEF LoggedInTypes
<1>3. Handled(k, w)
  BY TakesFacts, HandledSame
<1>4. w.username = workers[k].username /\ w.nickname = workers[k].nickname
  OBVIOUS
<1> HIDE DEF m, w
<1> QED
  BY <1>1, <1>2, <1>3, <1>4, AnsweredAtHome

LEMMA updatePassInv == ASSUME Inv, NEW k \in Links, updatePass(k) PROVE Inv'
<1> DEFINE n == Head(up[k])
<1>1. PICK r \in Results("password", Verified(n.username, n.password)) :
        LET success == r \notin {"NON_EXISTING_USER", "WRONG_PASSWORD"}
        IN  /\ MongoUpdate(n.username, "password", n.newpass, r)
            /\ Answers(k, Answer("password", success))
            /\ told' = IF success THEN [told EXCEPT ![n.username] = n.newpass] ELSE told
  BY DEF updatePass
<1>2. Takes(k) /\ n.type = "password" /\ UNCHANGED workers
  BY DEF updatePass, Receives
<1>3. n.username \in Users /\ n.newpass \in Passwords
  BY <1>2, TakesFacts, RequestFields DEF LoggedInTypes
<1> DEFINE success == r \notin {"NON_EXISTING_USER", "WRONG_PASSWORD"}
<1>4. DatabaseTypes'
  <2>1. DOMAIN accounts' = DOMAIN accounts /\ accounts' \in [DOMAIN accounts -> AccountSet]
    BY <1>1, <1>3, DatabaseUpdated
  <2>2. told' \in [Users -> Passwords \cup {None}]
    BY <1>1, <1>3 DEF Inv, Types, DatabaseTypes
  <2> QED
    BY <2>1, <2>2 DEF Inv, Types, DatabaseTypes, AccountSet
<1>5. success \in BOOLEAN /\ Answers(k, Answer("password", success))
  BY <1>1
<1> HIDE DEF success
<1> QED
  BY <1>2, <1>4, <1>5, AboutPassword

LEMMA checkOldPassInv == ASSUME Inv, NEW k \in Links, checkOldPass(k) PROVE Inv'
<1>1. PICK r : Answers(k, Answer("old_password_checked", r = "SUCCESS"))
  BY DEF checkOldPass
<1>2. /\ Takes(k) /\ Head(up[k]).type = "check_old_password"
      /\ UNCHANGED <<accounts, workers, told>>
  BY DEF checkOldPass, Receives
<1> DEFINE success == r = "SUCCESS"
<1>3. success \in BOOLEAN /\ Answers(k, Answer("old_password_checked", success))
  BY <1>1
<1> HIDE DEF success
<1> QED
  BY <1>2, <1>3, DatabaseKept, AboutPassword

LEMMA HandlesInv == ASSUME Inv, NEW k \in Links, Handles(k) PROVE Inv'
BY checkCredentialsInv, checkAlreadyExistingUsernameInv, signupInv, updateNickInv, updatePassInv,
   checkOldPassInv, IgnoresInv, userDisconnectedInv DEF Handles

-----------------------------------------------------------------------------
(***************************************************************************)
(* The start.                                                              *)
(***************************************************************************)

\* The connections of the clients that are logged in at the start.
LEMMA InitConnected ==
  ASSUME NEW start \in Starts, Connected(start.home), AtHome(start.home)
  PROVE  /\ connections \in 0 .. MaxConnections /\ DOMAIN workers = 1 .. connections
         /\ workers \in [DOMAIN workers -> WorkerSet]
         /\ socket \in [Clients -> {0} \cup DOMAIN workers]
         /\ \A c, d \in Clients : c # d /\ socket[c] = socket[d] => socket[c] = 0
         /\ \A k \in DOMAIN workers : \E u \in DOMAIN Registered :
              workers[k] = [username |-> u, nickname |-> FirstPart[u]]
         /\ session \in [Clients -> SessionSet] /\ window \in [Clients -> {"login", "home"}]
         /\ \A c \in Clients :
              IF window[c] = "home"
              THEN /\ session[c].loggedIn /\ session[c].username # None
                   /\ session[c].username = workers[socket[c]].username
                   /\ session[c].nickname = workers[socket[c]].nickname
              ELSE socket[c] = 0 /\ ~session[c].loggedIn
<1> DEFINE home == start.home
           started == Cardinality(DOMAIN home)
<1>1. /\ DOMAIN home \subseteq Clients /\ IsFiniteSet(DOMAIN home) /\ started <= MaxConnections
      /\ \A c \in DOMAIN home : home[c] \in DOMAIN Registered /\ home[c] \in Users
  BY StartsAssumption, RegisteredAssumption
<1>2. started \in Nat
  BY <1>1, FS_CardinalityType
<1>3. PICK user \in Bijection(1 .. started, DOMAIN home) :
        /\ workers = [k \in 1 .. started |->
              [username |-> home[user[k]], nickname |-> FirstPart[home[user[k]]]]]
        /\ socket = [c \in Clients |->
              IF c \in DOMAIN home THEN CHOOSE k \in 1 .. started : user[k] = c ELSE 0]
  BY DEF Connected
<1>4. connections = started
  BY DEF Connected
<1>5. /\ session = [c \in Clients |->
            IF c \notin DOMAIN home THEN NoSession
            ELSE [loggedIn |-> TRUE, username |-> home[c], nickname |-> FirstPart[home[c]]]]
      /\ window = [c \in Clients |-> IF c \in DOMAIN home THEN "home" ELSE "login"]
  BY DEF AtHome
<1>6. /\ user \in [1 .. started -> DOMAIN home]
      /\ \A c \in DOMAIN home : \E k \in 1 .. started : user[k] = c
  BY <1>3 DEF Bijection, Injection, Surjection
<1> HIDE DEF home, started
<1>7. \A u \in Users : FirstPart[u] \in Nicknames /\ u # None
  BY FirstPartAssumption, NoneAssumption DEF None
<1>8. ASSUME NEW c \in DOMAIN home
      PROVE  c \in Clients /\ socket[c] \in 1 .. started /\ user[socket[c]] = c
  BY <1>1, <1>3, <1>6
<1>9. \A c \in Clients : c \notin DOMAIN home => socket[c] = 0
  BY <1>3
<1>10. ASSUME NEW k \in 1 .. started
       PROVE  /\ home[user[k]] \in DOMAIN Registered
              /\ workers[k] = [username |-> home[user[k]], nickname |-> FirstPart[home[user[k]]]]
              /\ workers[k] \in WorkerSet
  <2>1. user[k] \in DOMAIN home
    BY <1>6
  <2>2. home[user[k]] \in DOMAIN Registered /\ home[user[k]] \in Users
    BY <1>1, <2>1
  <2>3. workers[k] = [username |-> home[user[k]], nickname |-> FirstPart[home[user[k]]]]
    BY <1>3
  <2> QED
    BY <1>7, <2>2, <2>3 DEF WorkerSet
<1>11. DOMAIN workers = 1 .. started /\ workers \in [DOMAIN workers -> WorkerSet]
  BY <1>3, <1>10
<1>12. connections \in 0 .. MaxConnections
  BY <1>1, <1>2, <1>4, ConnectionsAssumption
<1>13. socket \in [Clients -> {0} \cup DOMAIN workers]
  <2>1. \A c \in Clients : socket[c] \in {0} \cup 1 .. started
    BY <1>8, <1>9
  <2> QED
    BY <1>3, <1>11, <2>1
<1>14. \A c, d \in Clients : c # d /\ socket[c] = socket[d] => socket[c] = 0
  BY <1>8, <1>9
<1>15. \A k \in DOMAIN workers : \E u \in DOMAIN Registered :
         workers[k] = [username |-> u, nickname |-> FirstPart[u]]
  BY <1>10, <1>11
<1>16. session \in [Clients -> SessionSet] /\ window \in [Clients -> {"login", "home"}]
  <2>1. \A c \in Clients : session[c] \in SessionSet
    BY <1>1, <1>5, <1>7 DEF SessionSet, NoSession
  <2> QED
    BY <1>5, <2>1
<1>17. ASSUME NEW c \in Clients
       PROVE  IF window[c] = "home"
              THEN /\ session[c].loggedIn /\ session[c].username # None
                   /\ session[c].username = workers[socket[c]].username
                   /\ session[c].nickname = workers[socket[c]].nickname
              ELSE socket[c] = 0 /\ ~session[c].loggedIn
  <2>1. CASE c \in DOMAIN home
    <3>1. /\ window[c] = "home" /\ home[c] # None
          /\ session[c] = [loggedIn |-> TRUE, username |-> home[c], nickname |-> FirstPart[home[c]]]
      BY <1>1, <1>5, <1>7, <2>1
    <3>2. workers[socket[c]] = [username |-> home[c], nickname |-> FirstPart[home[c]]]
      BY <1>8, <1>10, <2>1
    <3> QED
      BY <3>1, <3>2
  <2>2. CASE c \notin DOMAIN home
    BY <1>5, <1>9, <2>2 DEF NoSession
  <2> QED
    BY <2>1, <2>2
<1> QED
  BY <1>4, <1>11, <1>12, <1>13, <1>14, <1>15, <1>16, <1>17

LEMMA InitInv == Init => Inv
<1> SUFFICES ASSUME Init PROVE Inv
  OBVIOUS
<1>1. PICK start \in Starts : /\ Connected(start.home) /\ AtHome(start.home)
                              /\ actions = start.requests /\ drops = start.drops
  BY DEF Init
<1>2. /\ connections \in 0 .. MaxConnections /\ DOMAIN workers = 1 .. connections
      /\ workers \in [DOMAIN workers -> WorkerSet]
      /\ socket \in [Clients -> {0} \cup DOMAIN workers]
      /\ \A c, d \in Clients : c # d /\ socket[c] = socket[d] => socket[c] = 0
      /\ session \in [Clients -> SessionSet] /\ window \in [Clients -> {"login", "home"}]
      /\ \A c \in Clients :
           IF window[c] = "home"
           THEN /\ session[c].loggedIn /\ session[c].username # None
                /\ session[c].username = workers[socket[c]].username
                /\ session[c].nickname = workers[socket[c]].nickname
           ELSE socket[c] = 0 /\ ~session[c].loggedIn
  BY <1>1, InitConnected
<1>3. /\ accounts = [u \in DOMAIN Registered |->
            [password |-> Registered[u], nickname |-> FirstPart[u]]]
      /\ told = [u \in Users |-> IF u \in DOMAIN Registered THEN Registered[u] ELSE None]
      /\ up = [k \in Links |-> <<>>] /\ down = [k \in Links |-> <<>>]
      /\ inbox = [c \in Clients |-> <<>>] /\ waiting = [c \in Clients |-> {}] /\ warned = {}
      /\ form = [c \in Clients |-> Blank] /\ oldPass = [c \in Clients |-> Unentered]
  BY DEF Init, Links
<1>4. DatabaseTypes
  BY <1>3, RegisteredAssumption, FirstPartAssumption DEF DatabaseTypes
<1>5. NetworkTypes
  <2>1. <<>> \in Seq(RequestSet) /\ <<>> \in Seq(AnswerSet)
    OBVIOUS
  <2> QED
    BY <1>2, <1>3, <2>1 DEF NetworkTypes
<1>6. ProgramTypes
  <2>1. actions \in [Clients -> Nat] /\ drops \in Nat
    BY <1>1, StartsAssumption
  <2>2. window \in [Clients -> {"login", "signup", "home"}]
    BY <1>2
  <2> QED
    BY <1>2, <1>3, <2>1, <2>2 DEF ProgramTypes, Blank, Unentered
<1>7. \A c \in Clients : socket[c] # 0 => socket[c] \in Links /\ socket[c] \in DOMAIN workers
  BY <1>2, ConnectionsAssumption DEF Links
<1>8. LinksInv
  BY <1>3, EmptySet DEF LinksInv, RequestsOK
<1>9. SocketsInv
  BY <1>2, <1>3, <1>7, EmptySet DEF SocketsInv
<1>10. ASSUME NEW c \in Clients PROVE ClientInv(c)
  <2>1. session[c].loggedIn => session[c].username # None
    BY <1>2
  <2>2. WindowOK(session[c], window[c], waiting[c], socket[c] # 0)
    BY <1>2, <1>3 DEF WindowOK
  <2>3. ASSUME socket[c] # 0
        PROVE  window[c] = "home" /\ HomeOK(up[socket[c]], workers[socket[c]], session[c])
    BY <1>2, <1>3, <1>7, <2>3, EndsWithNothing DEF HomeOK
  <2> QED
    BY <2>1, <2>2, <2>3 DEF ClientInv
<1> QED
  BY <1>4, <1>5, <1>6, <1>8, <1>9, <1>10 DEF Inv, Types

\* The invariant.
THEOREM Invariant == Spec => []Inv
<1>1. Inv /\ [Next]_vars => Inv'
  <2> SUFFICES ASSUME Inv, [Next]_vars PROVE Inv'
    OBVIOUS
  <2>1. CASE UNCHANGED vars
    <3>1. /\ UNCHANGED <<accounts, told, workers, up, down, connections, socket, inbox, session>>
          /\ UNCHANGED <<window, waiting, warned, form, oldPass, actions, drops>>
      BY <2>1 DEF vars, network, program
    <3> QED
      BY <3>1 DEF Inv, Types, DatabaseTypes, NetworkTypes, ProgramTypes, LinksInv, SocketsInv, ClientInv
  <2>2. CASE Next
    BY <2>2, UserInv, ListensInv, HandlesInv DEF Next, Links
  <2> QED
    BY <2>1, <2>2
<1> QED
  BY <1>1, InitInv, PTL DEF Spec

-----------------------------------------------------------------------------
(***************************************************************************)
(* What the invariant is for.                                              *)
(***************************************************************************)

\* Every variable has the values it may have; a worker has a user name just when it
\* has the nickname by which jsonReceived tells who is logged in.
THEOREM TypesKept == Spec => []TypeOK
<1>1. Inv => TypeOK
  <2> SUFFICES ASSUME Inv PROVE TypeOK
    OBVIOUS
  <2>1. ASSUME NEW k \in DOMAIN workers
        PROVE  /\ workers[k] \in [username : Users \cup {None}, nickname : Nicknames \cup {None}]
               /\ workers[k].username = None <=> workers[k].nickname = None
    <3>1. workers[k] \in WorkerSet
      BY DEF Inv, Types, NetworkTypes
    <3>2. workers[k] \in [username : Users \cup {None}, nickname : Nicknames \cup {None}]
      BY <3>1 DEF WorkerSet, LoggedOut
    <3> QED
      BY <3>1, <3>2, WorkerNames
  <2> QED
    BY <2>1 DEF Inv, Types, DatabaseTypes, NetworkTypes, ProgramTypes, SessionSet, TypeOK
<1> QED
  BY <1>1, Invariant, PTL

\* A connected client that heard every answer and its worker agree on who is logged
\* in (m_loggedIn of Client, the user name of ServerWorker), for any clients and any
\* order of logins sent twice, refusals, logouts and lost connections.
THEOREM SessionsMatchHolds == Spec => []SessionsMatch
<1>1. Inv => SessionsMatch
  <2> SUFFICES ASSUME Inv, NEW c \in Clients, Quiet(c), ~LeftOver(c)
               PROVE  workers[socket[c]].username =
                        (IF session[c].loggedIn THEN session[c].username ELSE None)
    BY DEF SessionsMatch
  <2>1. socket[c] # 0 /\ up[socket[c]] = <<>> /\ down[socket[c]] = <<>>
    BY DEF Quiet
  <2>2. CASE window[c] = "home"
    <3>1. session[c].loggedIn
      BY <2>1, <2>2, ConnectedClient, HomeSession
    <3> QED
      BY <2>1, <2>2, <3>1 DEF Inv, ClientInv, HomeOK
  <2>3. CASE window[c] # "home"
    <3>1. ~session[c].loggedIn
      BY <2>3 DEF LeftOver
    <3>2. DoorOK(<<>>, <<>>, workers[socket[c]], session[c], waiting[c])
      BY <2>1, <2>3 DEF Inv, ClientInv
    <3> QED
      BY <3>1, <3>2, EmptySet DEF DoorOK
  <2> QED
    BY <2>2, <2>3
<1> QED
  BY <1>1, Invariant, PTL

\* While the buttons of a form are disabled, a request of the form or its answer is
\* on its way, or the client shows that the connection was lost (Login and Signup
\* disable their buttons in try_to_log and on_pushButtonSignup_clicked).
THEOREM WaitingIsPendingHolds == Spec => []WaitingIsPending
<1>1. Inv => WaitingIsPending
  <2> SUFFICES ASSUME Inv, NEW c \in Clients, NEW f \in waiting[c], c \notin warned, ~LeftOver(c)
               PROVE  \E m \in ToSet(Requests(c)) \cup ToSet(AnswersFor(c)) : m.type = f
    BY DEF WaitingIsPending
  <2>1. WindowOK(session[c], window[c], waiting[c], socket[c] # 0)
    BY DEF Inv, ClientInv
  <2>2. socket[c] # 0 /\ window[c] # "home" /\ ~session[c].loggedIn
    BY <2>1 DEF WindowOK, FormTypes, LeftOver
  <2>3. DoorOK(up[socket[c]], down[socket[c]], workers[socket[c]], session[c], waiting[c])
    BY <2>2 DEF Inv, ClientInv
  <2>4. Requests(c) = up[socket[c]] /\ AnswersFor(c) = down[socket[c]]
    BY <2>2 DEF Requests, AnswersFor
  <2> QED
    BY <2>2, <2>3, <2>4 DEF DoorOK
<1> QED
  BY <1>1, Invariant, PTL

-----------------------------------------------------------------------------
(***************************************************************************)
(* Accounts change only for their users: the request that the server       *)
(* handles names the user of its worker, though nothing checks it.         *)
(***************************************************************************)

OwnChange ==
  \A u \in DOMAIN accounts :
    accounts'[u] # accounts[u] =>
      \E k \in DOMAIN workers :
        /\ up[k] # up'[k] /\ workers[k].username = u /\ Head(up[k]).username = u
        /\ accounts'[u].password # accounts[u].password =>
             Head(up[k]).password = accounts[u].password

\* The connection whose request is handled.
LEMMA TakesChange ==
  ASSUME Inv, NEW k \in Links, Takes(k)
  PROVE  k \in DOMAIN workers /\ up[k] # up'[k]
<1>1. /\ k \in DOMAIN workers /\ up[k] \in Seq(RequestSet) /\ up[k] # <<>>
      /\ up'[k] = Tail(up[k])
  BY TakesFacts
<1>2. Len(Tail(up[k])) # Len(up[k])
  BY <1>1, TailSet
<1> QED
  BY <1>1, <1>2

LEMMA updateNickOwn == ASSUME Inv, NEW k \in Links, updateNick(k) PROVE OwnChange
<1> DEFINE m == Head(up[k])
<1>1. PICK r : MongoUpdate(m.username, "nickname", m.nickname, r)
  BY DEF updateNick
<1>2. Takes(k) /\ m.type \in LoggedInTypes
  BY DEF updateNick, Receives, LoggedInTypes
<1>3. k \in DOMAIN workers /\ up[k] # up'[k] /\ workers[k].username = m.username
  BY <1>2, TakesChange, LoggedInHeard
<1>4. accounts \in [DOMAIN accounts -> AccountSet]
  BY DEF Inv, Types, DatabaseTypes, AccountSet
<1>5. ASSUME NEW u \in DOMAIN accounts, accounts'[u] # accounts[u]
      PROVE  u = m.username /\ accounts'[u].password = accounts[u].password
  <2>1. accounts' = [accounts EXCEPT ![m.username] = [accounts[m.username] EXCEPT !["nickname"] = m.nickname]]
    BY <1>1, <1>5 DEF MongoUpdate
  <2>2. u = m.username
    BY <1>4, <1>5, <2>1
  <2>3. accounts[u] \in AccountSet /\ accounts'[u] = [accounts[u] EXCEPT !["nickname"] = m.nickname]
    BY <1>4, <1>5, <2>1, <2>2
  <2>4. accounts'[u].password = accounts[u].password
    BY <2>3 DEF AccountSet
  <2> QED
    BY <2>2, <2>4
<1> QED
  BY <1>3, <1>5 DEF OwnChange

LEMMA updatePassOwn == ASSUME Inv, NEW k \in Links, updatePass(k) PROVE OwnChange
<1> DEFINE m == Head(up[k])
           right == Verified(m.username, m.password)
<1>1. PICK r \in Results("password", right) : MongoUpdate(m.username, "password", m.newpass, r)
  BY DEF updatePass
<1>2. Takes(k) /\ m.type \in LoggedInTypes
  BY DEF updatePass, Receives, LoggedInTypes
<1>3. k \in DOMAIN workers /\ up[k] # up'[k] /\ workers[k].username = m.username
  BY <1>2, TakesChange, LoggedInHeard
<1>4. accounts \in [DOMAIN accounts -> AccountSet]
  BY DEF Inv, Types, DatabaseTypes, AccountSet
<1>5. right = "SUCCESS" /\ m.username \in DOMAIN accounts => accounts[m.username].password = m.password
  BY DEF Verified
<1> HIDE DEF right
<1>6. ASSUME NEW u \in DOMAIN accounts, accounts'[u] # accounts[u]
      PROVE  u = m.username /\ accounts[u].password = m.password
  <2>1. r = "SUCCESS"
    BY <1>1, <1>6 DEF MongoUpdate
  <2>2. accounts' = [accounts EXCEPT ![m.username] = [accounts[m.username] EXCEPT !["password"] = m.newpass]]
    BY <1>1, <2>1 DEF MongoUpdate
  <2>3. u = m.username
    BY <1>4, <1>6, <2>2
  <2>4. right = "SUCCESS"
    BY <1>1, <2>1 DEF Results
  <2> QED
    BY <1>5, <1>6, <2>3, <2>4
<1> QED
  BY <1>3, <1>6 DEF OwnChange

LEMMA signupOwn == ASSUME NEW k, signup(k) PROVE OwnChange
<1>1. PICK r : MongoSignup(Head(up[k]).username, Head(up[k]).password, r)
  BY DEF signup
<1>2. \A u \in DOMAIN accounts : accounts'[u] = accounts[u]
  BY <1>1 DEF MongoSignup, Added
<1> QED
  BY <1>2 DEF OwnChange

\* Only three handlers change the database (Mongo::signup, updateNickname and
\* updatePassword).
LEMMA AccountsKept ==
  ASSUME Next
  PROVE  \/ UNCHANGED accounts
         \/ \E k \in Links : signup(k) \/ updateNick(k) \/ updatePass(k)
<1>1. CASE \E c \in Clients : User(c)
  BY <1>1 DEF User, try_to_log, ChangesWindow, EntersUsername, on_pushButtonSignup_clicked,
              on_pushSaveNickname_clicked, EntersOldPassword, on_pushButtonSavePassword_clicked,
              on_logOut, ConnectionDrops, WarningEnds, UserActs
<1>2. CASE \E c \in Clients : Listens(c)
  BY <1>2 DEF Listens, HearsLogin, HearsLoginFailed, HearsLate, HearsSignup,
              HearsCheckUsername, HearsOldPassword, HearsUpdate, Hears
<1>3. CASE \E k \in Links : Handles(k)
  BY <1>3 DEF Handles, checkCredentials, checkAlreadyExistingUsername, checkOldPass, Ignores,
              userDisconnected
<1> QED
  BY <1>1, <1>2, <1>3 DEF Next, Links

\* An account changes only at the request of its user's own connection, and the
\* password only for who gives the one it replaces, though Server::updateNick and
\* Server::updatePass trust the user name in the request.
THEOREM OwnChangesHolds == Spec => OwnChanges
<1>1. Inv /\ [Next]_vars => [OwnChange]_vars
  <2> SUFFICES ASSUME Inv, Next PROVE OwnChange
    OBVIOUS
  <2>1. CASE UNCHANGED accounts
    BY <2>1 DEF OwnChange
  <2> QED
    BY <2>1, AccountsKept, updateNickOwn, updatePassOwn, signupOwn
<1>2. OwnChanges <=> [][OwnChange]_vars
  BY DEF OwnChanges, OwnChange
<1> QED
  BY <1>1, <1>2, Invariant, PTL DEF Spec

-----------------------------------------------------------------------------
(***************************************************************************)
(* Nicknames.  Server::updateNick gives the worker the nickname whatever   *)
(* the database says; without errors of the database they agree.           *)
(***************************************************************************)

NicknameFails == \E e \in {"QUERY_ERROR", "CRYPTO_ERROR"} : <<"nickname", e>> \in Failing

\* Workers that have a user name had it, and the nicknames are as they were.
LEMMA StoredKept ==
  ASSUME NicknamesStored,
         \A k \in DOMAIN workers' :
           workers'[k].username = None \/ (k \in DOMAIN workers /\ workers'[k] = workers[k]),
         \A u \in DOMAIN accounts :
           u \in DOMAIN accounts' /\ accounts'[u].nickname = accounts[u].nickname
  PROVE  NicknamesStored'
BY DEF NicknamesStored

LEMMA SendsWorkers ==
  ASSUME Inv, NEW c \in Clients, NEW t, Sends(c, t), NicknamesStored, UNCHANGED accounts
  PROVE  NicknamesStored'
<1>1. PICK k : workers' = [y \in DOMAIN workers \cup {k} |-> IF y \in DOMAIN workers THEN workers[y] ELSE LoggedOut]
  BY DEF Sends, Added
<1>2. \A j \in DOMAIN workers' :
        workers'[j].username = None \/ (j \in DOMAIN workers /\ workers'[j] = workers[j])
  BY <1>1 DEF LoggedOut
<1> QED
  BY <1>2, StoredKept

LEMMA UserStored ==
  ASSUME Inv, NicknamesStored, NEW c \in Clients, User(c) \/ Listens(c)
  PROVE  NicknamesStored'
<1>1. UNCHANGED accounts /\ ((\E t : Sends(c, t)) \/ UNCHANGED workers)
  <2>1. CASE User(c)
    BY <2>1 DEF User, try_to_log, ChangesWindow, EntersUsername, on_pushButtonSignup_clicked,
                on_pushSaveNickname_clicked, EntersOldPassword, on_pushButtonSavePassword_clicked,
                SendsInSession, on_logOut, ConnectionDrops, WarningEnds, UserActs, network
  <2>2. CASE Listens(c)
    BY <2>2 DEF Listens, HearsLogin, HearsLoginFailed, HearsLate, HearsSignup,
                HearsCheckUsername, HearsOldPassword, HearsUpdate, Hears
  <2> QED
    BY <2>1, <2>2
<1>2. CASE UNCHANGED workers
  BY <1>1, <1>2, StoredKept
<1> QED
  BY <1>1, <1>2, SendsWorkers

LEMMA checkCredentialsStored ==
  ASSUME Inv, NicknamesStored, NEW k \in Links, checkCredentials(k) PROVE NicknamesStored'
<1> DEFINE u == Head(up[k]).username
           right == Verified(u, Head(up[k]).password)
<1>1. PICK r \in Results("login", right) :
        (r = "SUCCESS" /\ workers' = [workers EXCEPT ![k] = LoggedInAs(u)]) \/ UNCHANGED workers
  BY DEF checkCredentials
<1>2. UNCHANGED accounts
  BY DEF checkCredentials
<1>3. right = "SUCCESS" => u \in DOMAIN accounts
  BY DEF Verified
<1> HIDE DEF right
<1>4. CASE r = "SUCCESS" /\ workers' = [workers EXCEPT ![k] = LoggedInAs(u)]
  <2>1. u \in DOMAIN accounts
    BY <1>1, <1>3, <1>4 DEF Results
  <2> QED
    BY <1>2, <1>4, <2>1 DEF NicknamesStored, LoggedInAs
<1>5. CASE UNCHANGED workers
  BY <1>2, <1>5, StoredKept
<1> QED
  BY <1>1, <1>4, <1>5

LEMMA signupStored ==
  ASSUME NicknamesStored, NEW k, signup(k) PROVE NicknamesStored'
<1>1. PICK r : MongoSignup(Head(up[k]).username, Head(up[k]).password, r)
  BY DEF signup
<1>2. UNCHANGED workers
  BY DEF signup
<1>3. \A u \in DOMAIN accounts : u \in DOMAIN accounts' /\ accounts'[u] = accounts[u]
  BY <1>1 DEF MongoSignup, Added
<1> QED
  BY <1>2, <1>3, StoredKept

\* No other worker has the user whose nickname changes.
LEMMA updateNickNicknames ==
  ASSUME Inv, SessionInv, NicknamesStored, ~NicknameFails, NEW k \in Links, updateNick(k)
  PROVE  NicknamesStored'
<1> DEFINE m == Head(up[k])
           u == m.username
           right == IF u \in DOMAIN accounts THEN "SUCCESS" ELSE "NON_EXISTING_USER"
<1>1. PICK r \in Results("nickname", right) : MongoUpdate(u, "nickname", m.nickname, r)
  BY DEF updateNick
<1>2. /\ Takes(k) /\ m.type \in LoggedInTypes
      /\ workers' = [workers EXCEPT ![k].nickname = m.nickname]
  BY DEF updateNick, Receives, LoggedInTypes
<1>3. /\ k \in DOMAIN workers /\ workers[k] \in WorkerSet
      /\ workers[k].username = u /\ u \in Users /\ u # None
  BY <1>2, TakesFacts, LoggedInHeard, NoneAssumption DEF None
<1>4. accounts \in [DOMAIN accounts -> AccountSet] /\ u \in DOMAIN accounts
  BY <1>3 DEF Inv, Types, DatabaseTypes, AccountSet, NicknamesStored
<1>5. r = "SUCCESS"
  BY <1>1, <1>4 DEF Results, NicknameFails
<1>6. accounts' = [accounts EXCEPT ![u] = [accounts[u] EXCEPT !["nickname"] = m.nickname]]
  BY <1>1, <1>5 DEF MongoUpdate
<1>7. /\ DOMAIN accounts' = DOMAIN accounts /\ accounts'[u].nickname = m.nickname
      /\ \A v \in DOMAIN accounts : v # u => accounts'[v] = accounts[v]
  <2>1. accounts[u] \in AccountSet
    BY <1>4
  <2>2. [accounts[u] EXCEPT !["nickname"] = m.nickname].nickname = m.nickname
    BY <2>1 DEF AccountSet
  <2> QED
    BY <1>4, <1>6, <2>2
<1>8. /\ DOMAIN workers' = DOMAIN workers
      /\ workers'[k].username = u /\ workers'[k].nickname = m.nickname
      /\ \A j \in DOMAIN workers : j # k => workers'[j] = workers[j]
  <2>1. workers' = [workers EXCEPT ![k] = [workers[k] EXCEPT !.nickname = m.nickname]]
    BY <1>2
  <2>2. LET w == [workers[k] EXCEPT !.nickname = m.nickname]
        IN  w.username = u /\ w.nickname = m.nickname
    BY <1>3 DEF WorkerSet, LoggedOut
  <2> QED
    BY <1>3, <2>1, <2>2
<1>9. \A j \in DOMAIN workers : j # k /\ workers[j].username # None => workers[j].username # u
  BY <1>3 DEF SessionInv, OneSession
<1> QED
  BY <1>4, <1>7, <1>8, <1>9 DEF NicknamesStored

LEMMA updatePassStored ==
  ASSUME Inv, NicknamesStored, NEW k \in Links, updatePass(k) PROVE NicknamesStored'
<1> DEFINE m == Head(up[k])
<1>1. PICK r : MongoUpdate(m.username, "password", m.newpass, r)
  BY DEF updatePass
<1>2. UNCHANGED workers
  BY DEF updatePass
<1>3. accounts \in [DOMAIN accounts -> AccountSet]
  BY DEF Inv, Types, DatabaseTypes, AccountSet
<1>4. ASSUME NEW u \in DOMAIN accounts
      PROVE  u \in DOMAIN accounts' /\ accounts'[u].nickname = accounts[u].nickname
  <2>1. CASE UNCHANGED accounts
    BY <2>1
  <2>2. CASE accounts' = [accounts EXCEPT ![m.username] = [accounts[m.username] EXCEPT !["password"] = m.newpass]]
    <3>1. accounts[u] \in AccountSet
      BY <1>3
    <3>2. [accounts[u] EXCEPT !["password"] = m.newpass].nickname = accounts[u].nickname
      BY <3>1 DEF AccountSet
    <3> QED
      BY <1>3, <2>2, <3>2
  <2> QED
    BY <1>1, <2>1, <2>2 DEF MongoUpdate
<1> QED
  BY <1>2, <1>4, StoredKept

LEMMA HandlesNicknames ==
  ASSUME Inv, SessionInv, NicknamesStored, ~NicknameFails, NEW k \in Links, Handles(k)
  PROVE  NicknamesStored'
<1>1. CASE \/ checkAlreadyExistingUsername(k) \/ checkOldPass(k) \/ Ignores(k)
           \/ userDisconnected(k)
  <2>1. /\ UNCHANGED accounts
        /\ UNCHANGED workers \/ workers' = [j \in DOMAIN workers \ {k} |-> workers[j]]
    BY <1>1 DEF checkAlreadyExistingUsername, checkOldPass, Ignores, userDisconnected, Restrict
  <2>2. \A j \in DOMAIN workers' : j \in DOMAIN workers /\ workers'[j] = workers[j]
    BY <2>1
  <2> QED
    BY <2>1, <2>2, StoredKept
<1> QED
  BY <1>1, checkCredentialsStored, signupStored, updateNickNicknames, updatePassStored DEF Handles

LEMMA InitNicknames == Init => NicknamesStored
<1> SUFFICES ASSUME Init PROVE NicknamesStored
  OBVIOUS
<1>1. PICK start \in Starts : Connected(start.home) /\ AtHome(start.home)
  BY DEF Init
<1>2. \A k \in DOMAIN workers : \E u \in DOMAIN Registered :
        workers[k] = [username |-> u, nickname |-> FirstPart[u]]
  BY <1>1, InitConnected
<1>3. accounts = [u \in DOMAIN Registered |->
            [password |-> Registered[u], nickname |-> FirstPart[u]]]
  BY DEF Init
<1> QED
  BY <1>2, <1>3 DEF NicknamesStored

\* The client, its worker and the database agree on the nickname of who is logged
\* in, when no change is on its way, if the database does not fail to store one.
THEOREM NicknamesAgreeHolds ==
  ASSUME ~NicknameFails PROVE Spec => []NicknamesAgree
<1>1. Init => SessionInv /\ NicknamesStored
  BY InitSession, InitNicknames
<1>2. Inv /\ SessionInv /\ NicknamesStored /\ [Next]_vars => (SessionInv /\ NicknamesStored)'
  <2> SUFFICES ASSUME Inv, SessionInv, NicknamesStored, [Next]_vars
               PROVE  SessionInv' /\ NicknamesStored'
    OBVIOUS
  <2>1. CASE UNCHANGED vars
    BY <2>1, SameWorkers DEF vars, network, NicknamesStored
  <2>2. CASE Next
    BY <2>2, UserSession, ListensSession, HandlesSession, UserStored, HandlesNicknames DEF Next, Links
  <2> QED
    BY <2>1, <2>2
<1>3. Inv /\ NicknamesStored => NicknamesAgree
  <2> SUFFICES ASSUME Inv, NicknamesStored, NEW c \in Clients, Quiet(c), window[c] = "home"
               PROVE  /\ workers[socket[c]].nickname = session[c].nickname
                      /\ accounts[session[c].username].nickname = session[c].nickname
    BY DEF NicknamesAgree
  <2>1. socket[c] # 0 /\ up[socket[c]] = <<>>
    BY DEF Quiet
  <2>2. HomeOK(<<>>, workers[socket[c]], session[c])
    BY <2>1 DEF Inv, ClientInv
  <2>3. /\ workers[socket[c]].nickname = session[c].nickname
        /\ workers[socket[c]].username = session[c].username
    BY <2>2 DEF HomeOK, EndsWith
  <2>4. socket[c] \in DOMAIN workers /\ workers[socket[c]].username # None
    BY <2>1, ConnectedClient, HomeWorker
  <2> QED
    BY <2>3, <2>4 DEF NicknamesStored
<1> QED
  BY <1>1, <1>2, <1>3, Invariant, PTL DEF Spec
===============================================================================
