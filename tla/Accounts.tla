-------------------------------- MODULE Accounts --------------------------------
(***************************************************************************)
(* The accounts of Scriba: sign-up, login, nickname and password, from the *)
(* windows of the clients (Client/login.cpp, signup.cpp, modify.cpp and    *)
(* client.cpp) to the server's handlers (Server/server.cpp) and the users  *)
(* in the database (Server/mongo.cpp).                                     *)
(*                                                                         *)
(* Connections are numbered.  The server has a ServerWorker for each, and  *)
(* handles one request at a time; each database call is a transaction of   *)
(* its own, which may fail.  A client reads answers first and handles them *)
(* by events that follow: when the connection is closed, what was not read *)
(* is lost, and what was read is handled all the same.                     *)
(*                                                                         *)
(* Users enter names and passwords the forms accept.  Profile images are   *)
(* left out.  A password is itself: hashing it and verifying the hash is   *)
(* comparing it.                                                           *)
(***************************************************************************)
EXTENDS Integers, SequencesExt

CONSTANTS
  Clients,
  Users,           \* user names
  Passwords,
  Nicknames,
  FirstPart,       \* the nickname a user name begins with, for each user
  Registered,      \* the password of the users with an account at the start
  Failing,         \* the database calls that may fail, and with which error
  Starts,          \* scenarios: the users of the clients logged in at the start, how
                   \* many connections may be lost, and the requests of each client
  MaxConnections   \* bound: connections in all

ASSUME RegisteredAssumption ==
  DOMAIN Registered \subseteq Users /\ \A u \in DOMAIN Registered : Registered[u] \in Passwords
ASSUME StartsAssumption ==
  \A start \in Starts :
    /\ DOMAIN start.home \subseteq Clients /\ IsInjective(start.home)
    /\ IsFiniteSet(DOMAIN start.home) /\ Cardinality(DOMAIN start.home) <= MaxConnections
    /\ \A c \in DOMAIN start.home : start.home[c] \in DOMAIN Registered
    /\ start.drops \in Nat /\ start.requests \in [Clients -> Nat]
ASSUME FirstPartAssumption == FirstPart \in [Users -> Nicknames]
ASSUME ConnectionsAssumption == MaxConnections \in Nat
\* None, the empty text, is nothing that the forms accept.
ASSUME NoneAssumption == "" \notin Users \cup Passwords \cup Nicknames

VARIABLES
  accounts,     \* database: password and nickname of each user that has an account
  workers,      \* m_clients: the user name and nickname of each ServerWorker
  up, down,     \* requests and answers in each connection
  socket,       \* the connection of each client, 0 when there is none
  connections,  \* connections made so far
  inbox,        \* answers a client read before its connection was closed
  session,      \* m_loggedIn, username and nickname of each client
  window,       \* "login", "signup" or "home", where "home" leads to Modify
  waiting,      \* the forms whose buttons are disabled until an answer comes
  warned,       \* clients that show "The host terminated the connection"
  form,         \* sign-up: the user name entered, and inuse_username
  oldPass,      \* Modify: the old password entered, and correct_old_password
  told,         \* history: the password each user was last told to have
  actions,      \* requests each user may still make
  drops         \* connections that may still be lost

network == <<workers, up, down, connections>>
program == <<socket, inbox, session, window, waiting, warned, form, oldPass>>
vars == <<accounts, network, program, told, actions, drops>>

\* The function f with a value for x, if it has none.
Added(f, x, v) == [y \in DOMAIN f \cup {x} |-> IF y \in DOMAIN f THEN f[y] ELSE v]

None == ""                                           \* an empty QString
LoggedOut == [username |-> None, nickname |-> None]  \* a new ServerWorker
NoSession == [loggedIn |-> FALSE, username |-> None, nickname |-> None]
Blank == [name |-> None, inuse |-> "UNCHECKED"]
Unentered == [text |-> None, status |-> "UNCHECKED"]

-----------------------------------------------------------------------------
(***************************************************************************)
(* The user of client c.  A user's event comes after the answers that are  *)
(* queued, and none comes while a warning is shown.                        *)
(***************************************************************************)

UserActs(c, w) ==
  /\ window[c] = w /\ c \notin warned
  /\ inbox[c] = <<>>
  /\ UNCHANGED <<accounts, down, inbox, told, drops>>

Counts(c) == actions[c] > 0 /\ actions' = [actions EXCEPT ![c] = @ - 1]

\* connectToServer, unless there is a connection, then the requests.
Sends(c, requests) ==
  LET k == IF socket[c] # 0 THEN socket[c] ELSE connections + 1
  IN  /\ k <= MaxConnections
      /\ socket' = [socket EXCEPT ![c] = k]
      /\ connections' = IF socket[c] # 0 THEN connections ELSE k
      /\ workers' = Added(workers, k, LoggedOut)
      /\ up' = [up EXCEPT ![k] = @ \o requests]

\* Requests of the windows behind the login, which never connect: without a
\* connection they are lost.
SendsInSession(c, requests) ==
  /\ UNCHANGED <<workers, connections, socket>>
  /\ up' = IF socket[c] = 0 THEN up ELSE [up EXCEPT ![socket[c]] = @ \o requests]

\* Login::try_to_log.  A click sends one request and disables the buttons; the
\* key Enter is connected twice, and not disabled.
try_to_log(c) ==
  /\ UserActs(c, "login") /\ Counts(c)
  /\ \E u \in Users, p \in Passwords, enter \in BOOLEAN :
       LET login == [type |-> "login", username |-> u, password |-> p]
       IN  /\ enter \/ "login" \notin waiting[c]
           /\ Sends(c, IF enter THEN <<login, login>> ELSE <<login>>)
  /\ waiting' = [waiting EXCEPT ![c] = @ \cup {"login"}]
  /\ UNCHANGED <<session, window, warned, form, oldPass>>

\* The buttons between the windows of login and sign-up.
ChangesWindow(c) ==
  /\ \/ UserActs(c, "login") /\ "login" \notin waiting[c]
        /\ window' = [window EXCEPT ![c] = "signup"]
     \/ UserActs(c, "signup") /\ "signup" \notin waiting[c]
        /\ window' = [window EXCEPT ![c] = "login"]
  /\ form' = [form EXCEPT ![c] = Blank]
  /\ UNCHANGED <<workers, up, connections, socket, session, waiting, warned, oldPass, actions>>

CheckUsername(u) == [type |-> "check_username", username |-> u]

\* The user name is entered: on_lineEditUsername_textChanged, editingFinished.
EntersUsername(c) ==
  /\ UserActs(c, "signup") /\ Counts(c)
  /\ \E u \in Users \ {form[c].name} :
       /\ form' = [form EXCEPT ![c] = [name |-> u, inuse |-> "UNCHECKED"]]
       /\ Sends(c, <<CheckUsername(u)>>)
  /\ UNCHANGED <<session, window, waiting, warned, oldPass>>

\* The button or, enabled or not, the key Enter.
on_pushButtonSignup_clicked(c) ==
  /\ UserActs(c, "signup") /\ Counts(c)
  /\ form[c].name # None /\ form[c].inuse # "USED"
  /\ \E p \in Passwords :
       Sends(c, (IF form[c].inuse = "UNCHECKED" THEN <<CheckUsername(form[c].name)>> ELSE <<>>)
                \o <<[type |-> "signup", username |-> form[c].name, password |-> p]>>)
  /\ waiting' = [waiting EXCEPT ![c] = @ \cup {"signup"}]
  /\ UNCHANGED <<session, window, warned, form, oldPass>>

\* Modify: the client takes the new nickname at once.
on_pushSaveNickname_clicked(c) ==
  /\ UserActs(c, "home") /\ Counts(c)
  /\ \E n \in Nicknames \ {session[c].nickname} :
       /\ session' = [session EXCEPT ![c].nickname = n]
       /\ SendsInSession(c, <<[type |-> "nickname", username |-> session[c].username,
                               nickname |-> n]>>)
  /\ UNCHANGED <<window, waiting, warned, form, oldPass>>

\* The old password is entered: on_lineEditOldPass_textChanged, editingFinished.
CheckOldPassword(c, p) ==
  [type |-> "check_old_password", username |-> session[c].username, password |-> p]
EntersOldPassword(c) ==
  /\ UserActs(c, "home") /\ Counts(c)
  /\ \E p \in Passwords \ {oldPass[c].text} :
       /\ oldPass' = [oldPass EXCEPT ![c] = [text |-> p, status |-> "UNCHECKED"]]
       /\ SendsInSession(c, <<CheckOldPassword(c, p)>>)
  /\ UNCHANGED <<session, window, waiting, warned, form>>

\* A change is asked for when the last answer said that the old one is correct;
\* without an answer the old one is checked again.
on_pushButtonSavePassword_clicked(c) ==
  /\ UserActs(c, "home") /\ Counts(c)
  /\ oldPass[c].text # None
  /\ \/ /\ oldPass[c].status = "UNCHECKED"
        /\ SendsInSession(c, <<CheckOldPassword(c, oldPass[c].text)>>)
     \/ /\ oldPass[c].status = "CORRECT"
        /\ \E p \in Passwords :
             SendsInSession(c, <<[type |-> "password", username |-> session[c].username,
                                  password |-> oldPass[c].text, newpass |-> p]>>)
  /\ UNCHANGED <<session, window, waiting, warned, form, oldPass>>

\* The connection of client c is closed: the server hears of it after the requests
\* that arrive, and the client handles the answers it read.
Closes(c, arrived, read) ==
  LET k == socket[c]
  IN  /\ socket' = [socket EXCEPT ![c] = 0]
      /\ inbox' = [inbox EXCEPT ![c] = read]
      /\ up' = IF k = 0 THEN up ELSE [up EXCEPT ![k] = Append(arrived, [type |-> "disconnected"])]
      /\ down' = IF k = 0 THEN down ELSE [down EXCEPT ![k] = <<>>]

Requests(c) == IF socket[c] = 0 THEN <<>> ELSE up[socket[c]]
AnswersFor(c) == IF socket[c] = 0 THEN inbox[c] ELSE down[socket[c]]

\* Mutated form: the connection is kept.
on_logOutConnected(c) ==
  /\ window[c] = "home" /\ c \notin warned /\ inbox[c] = <<>>
  /\ session' = [session EXCEPT ![c] = NoSession]
  /\ window' = [window EXCEPT ![c] = "login"]
  /\ oldPass' = [oldPass EXCEPT ![c] = Unentered]
  /\ UNCHANGED <<accounts, network, socket, inbox, waiting, warned, form, told, actions, drops>>

\* Client::disconnectFromHost, which sends what is still to be sent, and may read
\* what arrives meanwhile.
on_logOut(c) ==
  /\ window[c] = "home" /\ c \notin warned /\ inbox[c] = <<>>
  /\ \E read \in Prefixes(AnswersFor(c)) : Closes(c, Requests(c), read)
  /\ session' = [session EXCEPT ![c] = NoSession]
  /\ window' = [window EXCEPT ![c] = "login"]
  /\ oldPass' = [oldPass EXCEPT ![c] = Unentered]
  /\ UNCHANGED <<accounts, workers, connections, waiting, warned, form, told, actions, drops>>

\* The connection is lost: the client logs out and shows a warning, under which
\* the event loop runs ...
ConnectionDrops(c) ==
  /\ socket[c] # 0 /\ drops > 0
  /\ drops' = drops - 1
  /\ \E arrived \in Prefixes(Requests(c)), read \in Prefixes(AnswersFor(c)) :
       Closes(c, arrived, read)
  /\ session' = [session EXCEPT ![c] = NoSession]
  /\ oldPass' = [oldPass EXCEPT ![c] = Unentered]
  /\ warned' = warned \cup {c}
  /\ UNCHANGED <<accounts, workers, connections, window, waiting, form, told, actions>>

\* ... then the window of the login, with all its buttons.
WarningEnds(c) ==
  /\ c \in warned
  /\ warned' = warned \ {c}
  /\ window' = [window EXCEPT ![c] = "login"]
  /\ waiting' = [waiting EXCEPT ![c] = {}]
  /\ UNCHANGED <<accounts, network, socket, inbox, session, form, oldPass, told, actions, drops>>

-----------------------------------------------------------------------------
(***************************************************************************)
(* The database.  A call has the result that is right, or an error.        *)
(***************************************************************************)

Results(call, right) ==
  {right} \cup {e \in {"QUERY_ERROR", "CRYPTO_ERROR"} :
                  /\ <<call, e>> \in Failing
                  /\ e = "CRYPTO_ERROR" => right = "SUCCESS"}

Existence(u) == IF u \in DOMAIN accounts THEN "ALREADY_EXISTING_USER" ELSE "SUCCESS"
Verified(u, p) ==
  CASE u \notin DOMAIN accounts -> "NON_EXISTING_USER"
    [] u \in DOMAIN accounts /\ accounts[u].password # p -> "WRONG_PASSWORD"
    [] OTHER -> "SUCCESS"

\* A user is inserted with the nickname the user name begins with.
MongoSignup(u, p, result) ==
  accounts' = IF result # "SUCCESS" THEN accounts
              ELSE Added(accounts, u, [password |-> p, nickname |-> FirstPart[u]])

MongoUpdate(u, field, value, result) ==
  accounts' = IF result # "SUCCESS" THEN accounts ELSE [accounts EXCEPT ![u][field] = value]

-----------------------------------------------------------------------------
(***************************************************************************)
(* The server handles the next request of connection k.                    *)
(***************************************************************************)

Open(k) == \E c \in Clients : socket[c] = k

Takes(k) ==
  /\ up[k] # <<>>
  /\ up' = [up EXCEPT ![k] = Tail(@)]
  /\ UNCHANGED <<connections, program, actions, drops>>

Answer(type, success) == [type |-> type, success |-> success]
Answers(k, m) == down' = IF Open(k) THEN [down EXCEPT ![k] = Append(@, m)] ELSE down

LoggedInTypes == {"nickname", "password", "check_old_password"}

\* jsonReceived: what is handled depends on the nickname of the worker, but for
\* a sign-up.
Receives(k, type) ==
  /\ Takes(k)
  /\ Head(up[k]).type = type
  /\ type # "signup" => (workers[k].nickname = None) = (type \notin LoggedInTypes)

\* A request that does not fit is not answered.
Ignores(k) ==
  /\ Takes(k)
  /\ \/ workers[k].nickname # None /\ Head(up[k]).type \in {"login", "check_username"}
     \/ workers[k].nickname = None /\ Head(up[k]).type \in LoggedInTypes
  /\ UNCHANGED <<accounts, workers, down, told>>

LoggedInAs(u) == [username |-> u, nickname |-> accounts[u].nickname]
LoginAnswer(w) ==
  [type |-> "login", success |-> TRUE, username |-> w.username, nickname |-> w.nickname]

\* Mutated form: users may be logged in from several devices.
checkCredentialsAnywhere(k) ==
  LET u == Head(up[k]).username
  IN  /\ Receives(k, "login")
      /\ \E r \in Results("login", Verified(u, Head(up[k]).password)) :
           IF r = "SUCCESS"
           THEN /\ workers' = [workers EXCEPT ![k] = LoggedInAs(u)]
                /\ Answers(k, LoginAnswer(LoggedInAs(u)))
           ELSE UNCHANGED workers /\ Answers(k, Answer("login", FALSE))
      /\ UNCHANGED <<accounts, told>>

\* Mutated form: the worker is not given the nickname.
checkCredentialsNoNickname(k) ==
  LET u == Head(up[k]).username
  IN  /\ Receives(k, "login")
      /\ IF Verified(u, Head(up[k]).password) = "SUCCESS"
         THEN /\ workers' = [workers EXCEPT ![k].username = u]
              /\ Answers(k, LoginAnswer(LoggedInAs(u)))
         ELSE UNCHANGED workers /\ Answers(k, Answer("login", FALSE))
      /\ UNCHANGED <<accounts, told>>

\* A user that is connected is refused before the password is looked at.
checkCredentials(k) ==
  LET u == Head(up[k]).username
      connected == \E w \in DOMAIN workers : workers[w].username = u
  IN  /\ Receives(k, "login")
      /\ \E r \in Results("login", Verified(u, Head(up[k]).password)) :
           IF ~connected /\ r = "SUCCESS"
           THEN /\ workers' = [workers EXCEPT ![k] = LoggedInAs(u)]
                /\ Answers(k, LoginAnswer(LoggedInAs(u)))
           ELSE UNCHANGED workers /\ Answers(k, Answer("login", FALSE))
      /\ UNCHANGED <<accounts, told>>

\* The client takes no notice of an answer without the user name.
checkAlreadyExistingUsername(k) ==
  LET u == Head(up[k]).username
  IN  /\ Receives(k, "check_username")
      /\ \E r \in Results("check_username", Existence(u)) :
           Answers(k, [type |-> "check_username", success |-> r = "SUCCESS",
                       username |-> IF r = "QUERY_ERROR" THEN None ELSE u])
      /\ UNCHANGED <<accounts, workers, told>>

\* Mutated form: only the errors are told.
signupExisting(k) ==
  LET u == Head(up[k]).username
      p == Head(up[k]).password
  IN  /\ Receives(k, "signup")
      /\ \E r \in Results("signup", Existence(u)) :
           /\ MongoSignup(u, p, r)
           /\ Answers(k, Answer("signup", r # "QUERY_ERROR"))
           /\ told' = IF r = "QUERY_ERROR" THEN told ELSE [told EXCEPT ![u] = p]
      /\ UNCHANGED workers

\* handle_signup_updateImage_bulkOperation: what is neither a failed query nor a
\* user that exists is a success.
signup(k) ==
  LET u == Head(up[k]).username
      p == Head(up[k]).password
  IN  /\ Receives(k, "signup")
      /\ \E r \in Results("signup", Existence(u)) :
           LET success == r \notin {"QUERY_ERROR", "ALREADY_EXISTING_USER"}
           IN  /\ MongoSignup(u, p, r)
               /\ Answers(k, Answer("signup", success))
               /\ told' = IF success THEN [told EXCEPT ![u] = p] ELSE told
      /\ UNCHANGED workers

\* Mutated form: the worker keeps the nickname it has.
updateNickStored(k) ==
  LET m == Head(up[k])
      right == IF m.username \in DOMAIN accounts THEN "SUCCESS" ELSE "NON_EXISTING_USER"
  IN  /\ Receives(k, "nickname")
      /\ \E r \in Results("nickname", right) :
           /\ MongoUpdate(m.username, "nickname", m.nickname, r)
           /\ Answers(k, Answer("nickname", r = "SUCCESS"))
      /\ UNCHANGED <<workers, told>>

\* The worker has the new nickname whatever the database says.
updateNick(k) ==
  LET m == Head(up[k])
      right == IF m.username \in DOMAIN accounts THEN "SUCCESS" ELSE "NON_EXISTING_USER"
  IN  /\ Receives(k, "nickname")
      /\ workers' = [workers EXCEPT ![k].nickname = m.nickname]
      /\ \E r \in Results("nickname", right) :
           /\ MongoUpdate(m.username, "nickname", m.nickname, r)
           /\ Answers(k, Answer("nickname", r = "SUCCESS"))
      /\ UNCHANGED told

\* Mutated form: the old password is not verified, since the client did.
updatePassUnverified(k) ==
  LET m == Head(up[k])
  IN  /\ Receives(k, "password")
      /\ MongoUpdate(m.username, "password", m.newpass, "SUCCESS")
      /\ Answers(k, Answer("password", TRUE))
      /\ told' = [told EXCEPT ![m.username] = m.newpass]
      /\ UNCHANGED workers

\* An error of the database is answered as a success.
updatePass(k) ==
  LET m == Head(up[k])
  IN  /\ Receives(k, "password")
      /\ \E r \in Results("password", Verified(m.username, m.password)) :
           LET success == r \notin {"NON_EXISTING_USER", "WRONG_PASSWORD"}
           IN  /\ MongoUpdate(m.username, "password", m.newpass, r)
               /\ Answers(k, Answer("password", success))
               /\ told' = IF success THEN [told EXCEPT ![m.username] = m.newpass] ELSE told
      /\ UNCHANGED workers

checkOldPass(k) ==
  LET m == Head(up[k])
  IN  /\ Receives(k, "check_old_password")
      /\ \E r \in Results("check_old_password", Verified(m.username, m.password)) :
           Answers(k, Answer("old_password_checked", r = "SUCCESS"))
      /\ UNCHANGED <<accounts, workers, told>>

userDisconnected(k) ==
  /\ Takes(k)
  /\ Head(up[k]).type = "disconnected"
  /\ workers' = Restrict(workers, DOMAIN workers \ {k})
  /\ UNCHANGED <<accounts, down, told>>

-----------------------------------------------------------------------------
(***************************************************************************)
(* Client c handles the next answer.                                       *)
(***************************************************************************)

Hears(c, type) ==
  /\ AnswersFor(c) # <<>> /\ Head(AnswersFor(c)).type = type
  /\ UNCHANGED <<accounts, workers, connections, warned, told, actions, drops>>

\* The handler leaves the connection as it is, or closes it.
Stays(c) ==
  /\ IF socket[c] = 0
     THEN inbox' = [inbox EXCEPT ![c] = Tail(@)] /\ UNCHANGED down
     ELSE down' = [down EXCEPT ![socket[c]] = Tail(@)] /\ UNCHANGED inbox
  /\ UNCHANGED <<up, socket>>
disconnectFromHost(c) ==
  LET rest == Tail(AnswersFor(c))
  IN  \E read \in IF socket[c] = 0 THEN {rest} ELSE Prefixes(rest) : Closes(c, Requests(c), read)

\* The form can be used again.
Enables(c, f) == waiting' = [waiting EXCEPT ![c] = @ \ {f}]

\* Login::loggedIn.
HearsLogin(c) ==
  LET m == Head(AnswersFor(c))
  IN  /\ Hears(c, "login") /\ m.success /\ ~session[c].loggedIn
      /\ session' = [session EXCEPT ![c] =
            [loggedIn |-> TRUE, username |-> m.username, nickname |-> m.nickname]]
      /\ window' = [window EXCEPT ![c] = "home"]
      /\ Enables(c, "login")
      /\ Stays(c)
      /\ UNCHANGED <<form, oldPass>>

\* Mutated form: the buttons stay as they are.
HearsLoginFailedOnly(c) ==
  /\ Hears(c, "login") /\ ~Head(AnswersFor(c)).success /\ ~session[c].loggedIn
  /\ disconnectFromHost(c)
  /\ UNCHANGED <<waiting, session, window, form, oldPass>>

\* Login::loginFailed.
HearsLoginFailed(c) ==
  /\ Hears(c, "login") /\ ~Head(AnswersFor(c)).success /\ ~session[c].loggedIn
  /\ Enables(c, "login")
  /\ disconnectFromHost(c)
  /\ UNCHANGED <<session, window, form, oldPass>>

\* An answer to a login or a sign-up means nothing to who is logged in.
HearsLate(c) ==
  /\ Hears(c, "login") \/ Hears(c, "signup")
  /\ session[c].loggedIn
  /\ Stays(c)
  /\ UNCHANGED <<session, window, waiting, form, oldPass>>

\* Signup::signedUp and signupFailed: either way the form is emptied and the
\* connection closed.
HearsSignup(c) ==
  /\ Hears(c, "signup") /\ ~session[c].loggedIn
  /\ Enables(c, "signup")
  /\ form' = [form EXCEPT ![c] = Blank]
  /\ disconnectFromHost(c)
  /\ window' = IF Head(AnswersFor(c)).success THEN [window EXCEPT ![c] = "login"] ELSE window
  /\ UNCHANGED <<session, oldPass>>

\* on_failedUsernameCheck and on_successUsernameCheck: an answer for a name that
\* was replaced counts for nothing.
HearsCheckUsername(c) ==
  LET m == Head(AnswersFor(c))
  IN  /\ Hears(c, "check_username")
      /\ form' = IF m.username = None \/ m.username # form[c].name THEN form
                 ELSE [form EXCEPT ![c].inuse = IF m.success THEN "FREE" ELSE "USED"]
      /\ Stays(c)
      /\ UNCHANGED <<session, window, waiting, oldPass>>

\* The answer does not say which password it is about.
HearsOldPassword(c) ==
  /\ Hears(c, "old_password_checked")
  /\ oldPass' = [oldPass EXCEPT ![c].status =
        IF Head(AnswersFor(c)).success THEN "CORRECT" ELSE "WRONG"]
  /\ Stays(c)
  /\ UNCHANGED <<session, window, waiting, form>>

\* on_successUpdatePassword: the password entered, which is the former one now,
\* counts as correct.  An answer about a nickname is not handled.
HearsUpdate(c) ==
  /\ Hears(c, "password") \/ Hears(c, "nickname")
  /\ oldPass' = IF Head(AnswersFor(c)).type = "password" /\ Head(AnswersFor(c)).success
                THEN [oldPass EXCEPT ![c].status = "CORRECT"] ELSE oldPass
  /\ Stays(c)
  /\ UNCHANGED <<session, window, waiting, form>>

-----------------------------------------------------------------------------

\* The clients that are logged in have the first connections.
Connected(home) ==
  LET started == Cardinality(DOMAIN home)
  IN  /\ connections = started
      /\ \E user \in Bijection(1 .. started, DOMAIN home) :
           /\ workers = [k \in 1 .. started |->
                 [username |-> home[user[k]], nickname |-> FirstPart[home[user[k]]]]]
           /\ socket = [c \in Clients |->
                 IF c \in DOMAIN home THEN CHOOSE k \in 1 .. started : user[k] = c ELSE 0]

AtHome(home) ==
  /\ session = [c \in Clients |->
        IF c \notin DOMAIN home THEN NoSession
        ELSE [loggedIn |-> TRUE, username |-> home[c], nickname |-> FirstPart[home[c]]]]
  /\ window = [c \in Clients |-> IF c \in DOMAIN home THEN "home" ELSE "login"]

Init ==
  /\ accounts = [u \in DOMAIN Registered |->
        [password |-> Registered[u], nickname |-> FirstPart[u]]]
  /\ told = [u \in Users |-> IF u \in DOMAIN Registered THEN Registered[u] ELSE None]
  /\ up = [k \in 1 .. MaxConnections |-> <<>>]
  /\ down = [k \in 1 .. MaxConnections |-> <<>>]
  /\ inbox = [c \in Clients |-> <<>>]
  /\ waiting = [c \in Clients |-> {}]
  /\ warned = {}
  /\ form = [c \in Clients |-> Blank]
  /\ oldPass = [c \in Clients |-> Unentered]
  /\ \E start \in Starts :
       /\ Connected(start.home) /\ AtHome(start.home)
       /\ actions = start.requests /\ drops = start.drops

User(c) ==
  \/ try_to_log(c) \/ ChangesWindow(c) \/ EntersUsername(c) \/ on_pushButtonSignup_clicked(c)
  \/ on_pushSaveNickname_clicked(c) \/ EntersOldPassword(c)
  \/ on_pushButtonSavePassword_clicked(c) \/ on_logOut(c)
  \/ ConnectionDrops(c) \/ WarningEnds(c)
Handles(k) ==
  \/ checkCredentials(k) \/ checkAlreadyExistingUsername(k) \/ signup(k) \/ updateNick(k)
  \/ updatePass(k) \/ checkOldPass(k) \/ Ignores(k) \/ userDisconnected(k)
Listens(c) ==
  \/ HearsLogin(c) \/ HearsLoginFailed(c) \/ HearsLate(c) \/ HearsSignup(c)
  \/ HearsCheckUsername(c) \/ HearsOldPassword(c) \/ HearsUpdate(c)

Next == \/ \E c \in Clients : User(c) \/ Listens(c)
        \/ \E k \in 1 .. MaxConnections : Handles(k)

Spec == Init /\ [][Next]_vars

-----------------------------------------------------------------------------
(***************************************************************************)
(* Properties.                                                             *)
(***************************************************************************)

\* The type invariant; a worker has a user name just when it has the nickname by
\* which jsonReceived tells who is logged in.
TypeOK ==
  /\ DOMAIN accounts \subseteq Users
  /\ \A u \in DOMAIN accounts : accounts[u] \in [password : Passwords, nickname : Nicknames]
  /\ DOMAIN workers \subseteq 1 .. connections
  /\ \A k \in DOMAIN workers :
       /\ workers[k] \in [username : Users \cup {None}, nickname : Nicknames \cup {None}]
       /\ workers[k].username = None <=> workers[k].nickname = None
  /\ socket \in [Clients -> {0} \cup DOMAIN workers]
  /\ session \in [Clients -> [loggedIn : BOOLEAN, username : Users \cup {None},
                              nickname : Nicknames \cup {None}]]
  /\ window \in [Clients -> {"login", "signup", "home"}]
  /\ waiting \in [Clients -> SUBSET {"login", "signup"}] /\ warned \subseteq Clients
  /\ form \in [Clients -> [name : Users \cup {None}, inuse : {"FREE", "USED", "UNCHECKED"}]]
  /\ oldPass \in [Clients -> [text : Passwords \cup {None},
                              status : {"CORRECT", "WRONG", "UNCHECKED"}]]
  /\ told \in [Users -> Passwords \cup {None}]
  /\ connections \in 0 .. MaxConnections /\ actions \in [Clients -> Nat] /\ drops \in Nat

\* A user is logged in on one connection at most, however the logins, logouts
\* and lost connections of several clients interleave.
OneSession ==
  \A j, k \in DOMAIN workers :
    j # k => workers[j].username = None \/ workers[j].username # workers[k].username

\* Nothing is on its way between client c and the server.
Quiet(c) ==
  socket[c] # 0 /\ up[socket[c]] = <<>> /\ down[socket[c]] = <<>>

\* A client may be left with a session in the window of the login: the answer to
\* a login is handled under the warning that its connection was lost.
LeftOver(c) == session[c].loggedIn /\ window[c] # "home"

\* A connected client that heard every answer and its worker agree on who is
\* logged in, if anybody is, unless the session is left over: also after a login
\* that was sent twice, refused once, or overtaken by a logout.
SessionsMatch ==
  \A c \in Clients : Quiet(c) /\ ~LeftOver(c) =>
    workers[socket[c]].username = (IF session[c].loggedIn THEN session[c].username ELSE None)

\* The client, its worker and the database agree on the nickname, while no change
\* of it is on its way.
NicknamesAgree ==
  \A c \in Clients : Quiet(c) /\ window[c] = "home" =>
    /\ workers[socket[c]].nickname = session[c].nickname
    /\ accounts[session[c].username].nickname = session[c].nickname

\* Who was told to have signed up, or to have a new password, has the account
\* and the password: of several sign-ups of a name one succeeds.
ToldIsStored ==
  \A u \in Users : told[u] # None => u \in DOMAIN accounts /\ accounts[u].password = told[u]

\* An account changes only at the request of its user's own connection, and the
\* password only for who gives the one it replaces: the server trusts the user
\* name in the request, and the client the last answer about an old password.
OwnChanges ==
  [][\A u \in DOMAIN accounts :
       accounts'[u] # accounts[u] =>
         \E k \in DOMAIN workers :
           /\ up[k] # up'[k] /\ workers[k].username = u /\ Head(up[k]).username = u
           /\ accounts'[u].password # accounts[u].password =>
                Head(up[k]).password = accounts[u].password]_vars

\* Nobody waits for nothing: while the buttons of a form are disabled, a request
\* of the form or its answer is on its way, or the connection was lost and the
\* client shows it.  A left-over session is the exception: the client takes no
\* notice of the answer.
WaitingIsPending ==
  \A c \in Clients : \A f \in waiting[c] :
    \/ c \in warned \/ LeftOver(c)
    \/ \E m \in ToSet(Requests(c)) \cup ToSet(AnswersFor(c)) : m.type = f
=============================================================================
