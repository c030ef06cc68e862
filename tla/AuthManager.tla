---------------------------- MODULE AuthManager ----------------------------
(***************************************************************************)
(* Users and their rights (auth.rs) and what http.rs makes of them.  Every  *)
(* connection is a thread: it reads a request, check_auth looks the         *)
(* credentials up under the users' lock and hands back a role, and the      *)
(* handler acts on that role later, without the lock; requests that add and *)
(* remove users come in between.                                            *)
(*                                                                          *)
(* A credential is the text of a Basic header once it is decoded, a name, a *)
(* colon and a password in one; NoText stands for all that does not decode, *)
(* and for no header at all.                                                *)
(***************************************************************************)
EXTENDS Configuration

CONSTANTS Client,          \* connections
          Environment,     \* the environments the server may be started in
          Name,            \* user names
          Secret,          \* the texts a credential may hold behind its first colon
          Hash,            \* hash_password, 64 bits: secrets may share one, no other text has theirs
          Request,         \* the requests clients make: a route, a credential, a body
          Code             \* the words in texts, as bytes of ASCII

Role == {"Admin", "ReadWrite", "ReadOnly"}
NoRole == "NoRole"         \* in a body: a role nobody knows
NoBody == <<>>             \* no JSON, or none of what a handler reads
NoText == <<>>
AdminName == <<"admin">>   \* AuthManager::new's user, whose password is the same
User == [hash : {Hash[s] : s \in Secret}, role : Role]

can_write == {"Admin", "ReadWrite"}
can_admin == {"Admin"}

\* Fault: the route that adds users passes for a read.
Route_add_reads ==
  [health      |-> [kind |-> "health", admin |-> FALSE],
   query       |-> [kind |-> "read",   admin |-> FALSE],
   write       |-> [kind |-> "write",  admin |-> FALSE],
   sync        |-> [kind |-> "write",  admin |-> TRUE],
   add_user    |-> [kind |-> "read",   admin |-> TRUE],
   remove_user |-> [kind |-> "write",  admin |-> TRUE],
   list_users  |-> [kind |-> "read",   admin |-> TRUE]]

\* Fault: whoever may read may see the users.
Route_lists_for_readers ==
  [health      |-> [kind |-> "health", admin |-> FALSE],
   query       |-> [kind |-> "read",   admin |-> FALSE],
   write       |-> [kind |-> "write",  admin |-> FALSE],
   sync        |-> [kind |-> "write",  admin |-> TRUE],
   add_user    |-> [kind |-> "write",  admin |-> TRUE],
   remove_user |-> [kind |-> "write",  admin |-> TRUE],
   list_users  |-> [kind |-> "read",   admin |-> FALSE]]

\* The routes by what check_auth is asked for, and whether can_admin is asked
\* behind it.  query stands for tables, describe, stats, search, get and
\* sync/status; write for table/create, table/drop, insert, delete and update;
\* sync for sync/trigger and sync/configure.
Route ==
  [health      |-> [kind |-> "health", admin |-> FALSE],
   query       |-> [kind |-> "read",   admin |-> FALSE],
   write       |-> [kind |-> "write",  admin |-> FALSE],
   sync        |-> [kind |-> "write",  admin |-> TRUE],
   add_user    |-> [kind |-> "write",  admin |-> TRUE],
   remove_user |-> [kind |-> "write",  admin |-> TRUE],
   list_users  |-> [kind |-> "read",   admin |-> TRUE]]

NoRequest == [route |-> "none", auth |-> NoText]
OverUsers == {"add_user", "remove_user"}

Colons(text) == {i \in DOMAIN text : text[i] = ":"}
NameIn(text) == SubSeq(text, 1, Min(Colons(text)) - 1)
SecretIn(text) == SubSeq(text, Min(Colons(text)) + 1, Len(text))

ASSUME AuthAssumption ==
  /\ AdminName \in Name \cap Secret
  /\ DOMAIN Hash = Secret
  /\ \A r \in Request :
       /\ r.route \in DOMAIN Route /\ r.auth \in Seq(STRING)
       /\ r.route \in OverUsers =>
            r.body = NoBody \/ r.body \in [name : Name, secret : Secret, role : Role \cup {NoRole}]
  /\ NoRequest \notin Request
  /\ Code \in [DOMAIN Code -> 0..127]
  /\ \A v, w \in DOMAIN Code : Code[v] = Code[w] => v = w
  /\ ":" \in DOMAIN Code
  /\ Name \cup Secret \subseteq Seq(DOMAIN Code)
  /\ \A env \in Environment : env.admin_user \in Name /\ env.admin_pass \in Secret

VARIABLES level,    \* Config::auth_level
          users,    \* AuthManager::users
          pc,       \* where the thread of each connection is
          request,  \* what it was asked
          role,     \* what check_auth gave it
          reply     \* the status its last request was answered with

vars == <<level, users, pc, request, role, reply>>

UsersOK == DOMAIN users \subseteq Name /\ users \in [DOMAIN users -> User]

TypeOK ==
  /\ level \in AuthLevel
  /\ UsersOK
  /\ pc \in [Client -> {"idle", "check", "act"}]
  /\ request \in [Client -> Request \cup {NoRequest}]
  /\ \A c \in Client : pc[c] = "idle" <=> request[c] = NoRequest
  /\ role \in [Client -> Role \cup {NoRole}]
  /\ reply \in [Client -> {0, 200, 400, 401, 403, 404}]

-----------------------------------------------------------------------------
(* auth.rs *)

With(us, n, user) == [x \in DOMAIN us \cup {n} |-> IF x = n THEN user ELSE us[x]]
Without(us, n)    == [x \in DOMAIN us \ {n} |-> us[x]]

\* AuthManager::new
NewUsers(l) ==
  IF auth_enabled(l) THEN With(<<>>, AdminName, [hash |-> Hash[AdminName], role |-> "Admin"])
  ELSE <<>>

\* HttpServer::with_config: another administrator if the environment names
\* one; the password it gives the one who is there is not looked at.
ConfiguredUsers(env) ==
  LET l == auth_level(env) IN
  IF auth_enabled(l) /\ env.admin_user # AdminName
  THEN With(NewUsers(l), env.admin_user, [hash |-> Hash[env.admin_pass], role |-> "Admin"])
  ELSE NewUsers(l)

\* The role of whom the text names, if the password fits: one or none.
validate_basic_auth(us, text) ==
  {us[n].role : n \in {x \in DOMAIN us : /\ Colons(text) # {}
                                         /\ x = NameIn(text)
                                         /\ SecretIn(text) \in {s \in Secret : Hash[s] = us[x].hash}}}

-----------------------------------------------------------------------------
(* The credentials on their way, as digits of the base64 alphabet. *)

Undecoded == [out |-> <<>>, buffer |-> 0, bits |-> 0]

\* Fault: a byte is taken when there are more than eight bits.
decode_late(d, val) ==
  LET buffer == d.buffer * 64 + val
      bits   == d.bits + 6
  IN IF bits > 8
     THEN [out |-> Append(d.out, (buffer \div 2^(bits - 8)) % 256),
           buffer |-> buffer % 2^(bits - 8), bits |-> bits - 8]
     ELSE [out |-> d.out, buffer |-> buffer, bits |-> bits]

\* One digit more, the index of a character of the alphabet; buffer never has
\* more than 12 of its 32 bits in use.
decode(d, val) ==
  LET buffer == d.buffer * 64 + val
      bits   == d.bits + 6
  IN IF bits >= 8
     THEN [out |-> Append(d.out, (buffer \div 2^(bits - 8)) % 256),
           buffer |-> buffer % 2^(bits - 8), bits |-> bits - 8]
     ELSE [out |-> d.out, buffer |-> buffer, bits |-> bits]

\* The loop of base64_decode by the number of digits it has read.
Decoded(digits) ==
  LET d[n \in 0..Len(digits)] == IF n = 0 THEN Undecoded ELSE decode(d[n - 1], digits[n])
  IN d

base64_decode(digits) == Decoded(digits)[Len(digits)].out

\* The digits a client makes of a text: its bits, six at a time, filled up with
\* zeros; the padding is where decoding ends.  Six bits lie in two bytes.
Byte(text, k) == IF k < Len(text) THEN Code[text[k + 1]] ELSE 0
base64(text) ==
  LET Digit(k) == ((256 * Byte(text, k \div 8) + Byte(text, (k \div 8) + 1)) \div 2^(10 - (k % 8))) % 64
  IN [i \in 1..((8 * Len(text) + 5) \div 6) |-> Digit(6 * (i - 1))]

\* The text of the bytes, if they are UTF-8: a byte beyond ASCII never is one
\* next to those that are here.
from_utf8(bytes) ==
  IF \E i \in DOMAIN bytes : bytes[i] > 127 THEN NoText
  ELSE [i \in DOMAIN bytes |->
          LET named == {w \in DOMAIN Code : Code[w] = bytes[i]} IN
          IF named = {} THEN "?" ELSE CHOOSE w \in named : TRUE]

\* The text that the server has of a name and a password.
Credential == [n \in Name |-> [s \in Secret |-> from_utf8(base64_decode(base64(n \o <<":">> \o s)))]]

-----------------------------------------------------------------------------
(* http.rs *)

Init ==
  /\ \E env \in Environment :
       /\ level = auth_level(env)
       /\ users \in {ConfiguredUsers(env), NewUsers(level)}   \* with_config, with_database
  /\ pc = [c \in Client |-> "idle"]
  /\ request = [c \in Client |-> NoRequest]
  /\ role = [c \in Client |-> NoRole]
  /\ reply = [c \in Client |-> 0]

Arrive(c) ==
  /\ pc[c] = "idle"
  /\ \E r \in Request : request' = [request EXCEPT ![c] = r]
  /\ pc' = [pc EXCEPT ![c] = "check"]
  /\ reply' = [reply EXCEPT ![c] = 0]
  /\ UNCHANGED <<level, users, role>>

\* A path that nobody serves is answered with no look at credentials.
Unrouted(c) ==
  /\ pc[c] = "idle"
  /\ reply' = [reply EXCEPT ![c] = 404]
  /\ UNCHANGED <<level, users, pc, request, role>>

Answer(c, status) ==
  /\ pc' = [pc EXCEPT ![c] = "idle"]
  /\ request' = [request EXCEPT ![c] = NoRequest]
  /\ role' = [role EXCEPT ![c] = NoRole]
  /\ reply' = [reply EXCEPT ![c] = status]
  /\ UNCHANGED level

needs_auth(c) == level \in RequiresAuth[Route[request[c].route].kind]

\* Fault: only administrators are told from others.
check_auth_any_role(c) ==
  IF needs_auth(c) THEN validate_basic_auth(users, request[c].auth) ELSE {"Admin"}

\* Fault: whoever is not there may read.
check_auth_guests(c) ==
  IF ~needs_auth(c) THEN {"Admin"}
  ELSE IF Colons(request[c].auth) # {} /\ NameIn(request[c].auth) \notin DOMAIN users THEN {"ReadOnly"}
  ELSE {r \in validate_basic_auth(users, request[c].auth) :
          Route[request[c].route].kind = "write" => r \in can_write}

\* The role that is granted, one or none; without need of credentials all
\* rights are.
check_auth(c) ==
  IF ~needs_auth(c) THEN {"Admin"}
  ELSE {r \in validate_basic_auth(users, request[c].auth) :
          Route[request[c].route].kind = "write" => r \in can_write}

Admit(c) ==
  /\ pc[c] = "check"
  /\ \E r \in check_auth(c) :
       /\ Route[request[c].route].admin => r \in can_admin
       /\ role' = [role EXCEPT ![c] = r]
  /\ pc' = [pc EXCEPT ![c] = "act"]
  /\ UNCHANGED <<level, users, request, reply>>

Refuse(c) ==
  /\ pc[c] = "check"
  /\ \A r \in check_auth(c) : Route[request[c].route].admin /\ r \notin can_admin
  /\ Answer(c, IF validate_basic_auth(users, request[c].auth) = {} THEN 401 ELSE 403)
  /\ UNCHANGED users

\* Fault: a user who is there is written anew.
handle_add_user_overwrites(c) ==
  LET b == request[c].body IN
  /\ pc[c] = "act" /\ request[c].route = "add_user" /\ b # NoBody /\ b.role # NoRole
  /\ users' = With(users, b.name, [hash |-> Hash[b.secret], role |-> b.role])
  /\ Answer(c, 200)

\* Fault: a role that nobody knows is taken.
handle_add_user_any_role(c) ==
  LET b == request[c].body IN
  /\ pc[c] = "act" /\ request[c].route = "add_user" /\ b # NoBody /\ b.name \notin DOMAIN users
  /\ users' = With(users, b.name, [hash |-> Hash[b.secret], role |-> b.role])
  /\ Answer(c, 200)

handle_add_user(c) ==
  LET b == request[c].body IN
  /\ pc[c] = "act" /\ request[c].route = "add_user"
  /\ IF b # NoBody /\ b.role # NoRole /\ b.name \notin DOMAIN users
     THEN /\ users' = With(users, b.name, [hash |-> Hash[b.secret], role |-> b.role])
          /\ Answer(c, 200)
     ELSE Answer(c, 400) /\ UNCHANGED users

handle_remove_user(c) ==
  LET b == request[c].body IN
  /\ pc[c] = "act" /\ request[c].route = "remove_user"
  /\ IF b = NoBody THEN Answer(c, 400) /\ UNCHANGED users
     ELSE /\ users' = Without(users, b.name)
          /\ Answer(c, IF b.name \in DOMAIN users THEN 200 ELSE 404)

\* Fault: the connection is kept with the rights it has.
Serve_keeps_open(c) ==
  /\ pc[c] = "act" /\ request[c].route \notin OverUsers
  /\ reply' = [reply EXCEPT ![c] = 200]
  /\ UNCHANGED <<level, users, pc, request, role>>

\* The handlers that leave the users alone; 200 stands for whatever they answer.
Serve(c) ==
  /\ pc[c] = "act" /\ request[c].route \notin OverUsers
  /\ Answer(c, 200)
  /\ UNCHANGED users

\* The program around the server may call this; no route does.
update_password(n, s) ==
  /\ n \in DOMAIN users
  /\ users' = [users EXCEPT ![n].hash = Hash[s]]
  /\ UNCHANGED <<level, pc, request, role, reply>>

Check(c) == Admit(c) \/ Refuse(c)
Act(c) == handle_add_user(c) \/ handle_remove_user(c) \/ Serve(c)

Next ==
  \/ \E c \in Client : Arrive(c) \/ Unrouted(c) \/ Check(c) \/ Act(c)
  \/ \E n \in Name, s \in Secret : update_password(n, s)

Spec == Init /\ [][Next]_vars

\* Every thread gets on with the request it has.
FairSpec == Spec /\ \A c \in Client : WF_vars(Check(c) \/ Act(c))

-----------------------------------------------------------------------------
(* Properties *)

\* The README's table of levels: which columns are open to everybody.
OpenAt == [none |-> {"reads", "writes", "health"}, write |-> {"reads", "health"},
           read |-> {"health"}, all |-> {}]

\* Its table of roles; whoever logs in may ask for the health.
RightsOf == [Admin     |-> {"health", "read", "write", "admin"},
             ReadWrite |-> {"health", "read", "write"},
             ReadOnly  |-> {"health", "read"}]

\* The column of the levels, and the right, that it gives a route: what looks
\* is a read and what changes something a write, syncing and users are for
\* administrators.
Promised ==
  [health      |-> [column |-> "health", right |-> "health"],
   query       |-> [column |-> "reads",  right |-> "read"],
   write       |-> [column |-> "writes", right |-> "write"],
   sync        |-> [column |-> "writes", right |-> "admin"],
   add_user    |-> [column |-> "writes", right |-> "admin"],
   remove_user |-> [column |-> "writes", right |-> "admin"],
   list_users  |-> [column |-> "reads",  right |-> "admin"]]

Documented(c) ==
  LET promised == Promised[request[c].route] IN
  \/ promised.column \in OpenAt[level]
  \/ \E r \in validate_basic_auth(users, request[c].auth) : promised.right \in RightsOf[r]

\* A request gets past check_auth and the look at can_admin behind it exactly
\* if the README opens its column at the server's level or gives its caller the
\* right: nothing is granted beyond the two tables and nothing refused that
\* they promise (http.rs: check_auth, route_request).  Where reads are open the
\* list of users is one of them; the words beside it are AdminsOnly's.
RightsAsDocumented ==
  [][\A c \in Client : pc[c] = "check" /\ pc'[c] # "check" => (pc'[c] = "act") = Documented(c)]_vars

\* As the README's section on users says, "list users (admin only)": where
\* requests are authenticated at all, users are added, removed and listed for
\* administrators alone (http.rs: route_request).
AdminsOnly ==
  [][\A c \in Client :
       /\ pc[c] = "check" /\ pc'[c] = "act" /\ auth_enabled(level)
       /\ request[c].route \in OverUsers \cup {"list_users"}
       => "Admin" \in validate_basic_auth(users, request[c].auth)]_vars

\* However users come and go, each of them logs in with the password of that
\* user and no other, up to what the hash confuses, if there is no colon in
\* the name: the text is cut at its first one.  What is sent comes out of
\* base64 as it was, whatever its length (auth.rs: validate_basic_auth,
\* base64_decode).
EveryUserCanLogIn ==
  \A n \in DOMAIN users, s \in Secret :
    Colons(n) = {} =>
      validate_basic_auth(users, Credential[n][s])
        = IF users[n].hash = Hash[s] THEN {users[n].role} ELSE {}

\* No request has come yet.
Fresh == \A c \in Client : pc[c] = "idle" /\ reply[c] = 0

\* Before the first request the sync manager has the tables that were meant
\* (main.rs, http.rs: setup_sync_from_env).
TablesAreRead == Fresh => ListsAreRead

\* It has them if they were written as the README says and shows, "tables are
\* specified as comma-separated strings" (config.rs: SyncSourceConfig::from_env).
CommaListsAreRead ==
  Fresh => \A tables \in TableLists : setup_sync_from_env(Asked(tables, <<Comma>>)) = tables

\* The threads that act for a user, by credentials they needed.
ActsFor(n) ==
  {c \in Client : /\ pc[c] = "act" /\ needs_auth(c)
                  /\ NameIn(request[c].auth) = n}

\* While a user is not there, no further request is let through as theirs:
\* the ones that were past check_auth are all that can still act (auth.rs:
\* remove_user against http.rs: check_auth).
NoLicenceForTheAbsent ==
  [][\A n \in Name : n \notin DOMAIN users => ActsFor(n)' \subseteq ActsFor(n)]_vars

\* The role a thread acts with is the one its user has, and goes stale by the
\* removal of the user only: nobody's role changes in place, by an addition of
\* the same name that overlaps or otherwise (auth.rs: add_user).
RoleIsCurrent(c, n) == n \in DOMAIN users => users[n].role = role[c]
LicenceLapsesOnlyByRemoval ==
  [][\A n \in Name : \A c \in ActsFor(n)' :
       n \in DOMAIN users /\ (c \in ActsFor(n) => RoleIsCurrent(c, n)) => RoleIsCurrent(c, n)']_vars

\* Can anyone still change the users: an administrator whose name can be
\* given in a header, or a thread that acts as one.
Administrable ==
  \/ ~auth_enabled(level)
  \/ \E n \in DOMAIN users : users[n].role = "Admin" /\ Colons(n) = {}
  \/ \E c \in Client : pc[c] = "act" /\ request[c].route \in OverUsers

\* Users come from administrators alone: once the last of them is gone, by a
\* removal of their own or by two that remove each other, nobody gains a right
\* or loses one until the server is started again (http.rs: handle_add_user,
\* handle_remove_user behind check_auth).
NoRightsOutOfNothing ==
  [][~Administrable => /\ ~Administrable'
                       /\ [n \in DOMAIN users |-> users[n].role]
                            = [n \in DOMAIN users' |-> users'[n].role]]_vars

\* Once a user is removed for good, nothing acts for them any more.
RemovalTakesEffect ==
  \A n \in Name : <>[](n \notin DOMAIN users) => <>[](ActsFor(n) = {})
=============================================================================
