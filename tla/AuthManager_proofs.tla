------------------------- MODULE AuthManager_proofs -------------------------
(***************************************************************************)
(* Who is let through and what becomes of roles, for every set of names,    *)
(* secrets, hashes, requests and connections.                               *)
(***************************************************************************)
EXTENDS AuthManager, Loops_proofs, TLAPS

-----------------------------------------------------------------------------
(* Texts are cut at their first colon. *)

\* What stands before the first colon holds none.
LEMMA CutAtFirst ==
  ASSUME NEW text \in Seq(STRING), Colons(text) # {}
  PROVE  Colons(NameIn(text)) = {}
<1> DEFINE first == Min(Colons(text))
<1>1. first \in Colons(text) /\ \A i \in Colons(text) : first <= i
  <2>1. Colons(text) \in SUBSET Nat
    BY DEF Colons
  <2>2. \E x \in Colons(text) : \A y \in Colons(text) : x <= y
    BY <2>1, LeastElement
  <2> QED BY <2>2 DEF Min
<1>2. first \in 1..Len(text)
  BY <1>1 DEF Colons
<1> HIDE DEF first
<1>3. ASSUME NEW i \in DOMAIN SubSeq(text, 1, first - 1)
      PROVE  i \in 1..(first - 1) /\ SubSeq(text, 1, first - 1)[i] = text[i]
  BY <1>2, <1>3
<1>4. ASSUME NEW i \in Colons(SubSeq(text, 1, first - 1)) PROVE FALSE
  <2>1. i \in 1..(first - 1) /\ text[i] = ":"
    BY <1>3, <1>4 DEF Colons
  <2>2. i \in Colons(text)
    BY <1>2, <2>1 DEF Colons
  <2> QED BY <1>1, <1>2, <2>1, <2>2
<1> QED BY <1>4 DEF NameIn, first

-----------------------------------------------------------------------------
(* Types *)

LEMMA LevelsAreLevels ==
  ASSUME NEW env
  PROVE  auth_level(env) \in AuthLevel
<1> DEFINE named == {l \in AuthLevel : env.auth_level \in LevelNames[l]}
<1>1. CASE named # {}
  <2>1. (CHOOSE l \in named : TRUE) \in named
    BY <1>1
  <2> QED BY <1>1, <2>1 DEF auth_level
<1>2. CASE named = {}
  BY <1>2 DEF auth_level, AuthLevel, LevelNames
<1> QED BY <1>1, <1>2

\* Users with one more, and with one less, are users.
LEMMA WithIsTyped ==
  ASSUME NEW us, DOMAIN us \subseteq Name, us \in [DOMAIN us -> User],
         NEW n \in Name, NEW u \in User
  PROVE  /\ DOMAIN With(us, n, u) = DOMAIN us \cup {n}
         /\ DOMAIN With(us, n, u) \subseteq Name
         /\ With(us, n, u) \in [DOMAIN With(us, n, u) -> User]
  BY DEF With

LEMMA WithoutIsTyped ==
  ASSUME NEW us, DOMAIN us \subseteq Name, us \in [DOMAIN us -> User], NEW n
  PROVE  /\ DOMAIN Without(us, n) \subseteq Name
         /\ Without(us, n) \in [DOMAIN Without(us, n) -> User]
  BY DEF Without

\* A credential gives the role its user has, or none.
LEMMA ValidatedIsUsers ==
  ASSUME NEW us, NEW text, NEW r \in validate_basic_auth(us, text)
  PROVE  /\ Colons(text) # {}
         /\ NameIn(text) \in DOMAIN us
         /\ us[NameIn(text)].role = r
  BY DEF validate_basic_auth

LEMMA GrantedIsRole ==
  ASSUME TypeOK, NEW c \in Client, NEW r \in check_auth(c)
  PROVE  r \in Role
<1>1. CASE ~needs_auth(c)
  BY <1>1 DEF check_auth, Role
<1>2. CASE needs_auth(c)
  <2>1. r \in validate_basic_auth(users, request[c].auth)
    BY <1>2 DEF check_auth
  <2> QED BY <2>1, ValidatedIsUsers DEF TypeOK, UsersOK, User
<1> QED BY <1>1, <1>2

LEMMA UsersAtFirst ==
  ASSUME AuthAssumption, NEW env \in Environment
  PROVE  \A us \in {ConfiguredUsers(env), NewUsers(auth_level(env))} :
           DOMAIN us \subseteq Name /\ us \in [DOMAIN us -> User]
<1>1. \A s \in Secret : [hash |-> Hash[s], role |-> "Admin"] \in User
  BY DEF User, Role
<1>2. AdminName \in Name /\ AdminName \in Secret /\ env.admin_user \in Name /\ env.admin_pass \in Secret
  BY DEF AuthAssumption
<1>3. DOMAIN (<<>>) = {} /\ <<>> \in [DOMAIN (<<>>) -> User]
  OBVIOUS
<1>4. ASSUME NEW l PROVE DOMAIN NewUsers(l) \subseteq Name /\ NewUsers(l) \in [DOMAIN NewUsers(l) -> User]
  <2>1. CASE auth_enabled(l)
    <3>1. [hash |-> Hash[AdminName], role |-> "Admin"] \in User
      BY <1>1, <1>2
    <3>2. NewUsers(l) = With(<<>>, AdminName, [hash |-> Hash[AdminName], role |-> "Admin"])
      BY <2>1 DEF NewUsers
    <3> DEFINE admin == [hash |-> Hash[AdminName], role |-> "Admin"]
    <3>3. DOMAIN (<<>>) \subseteq Name /\ AdminName \in Name
      BY <1>2, <1>3
    <3> HIDE DEF admin
    <3>4. /\ DOMAIN With(<<>>, AdminName, admin) \subseteq Name
          /\ With(<<>>, AdminName, admin) \in [DOMAIN With(<<>>, AdminName, admin) -> User]
      BY <1>3, <3>1, <3>3, WithIsTyped DEF admin
    <3> QED BY <3>2, <3>4 DEF admin
  <2>2. CASE ~auth_enabled(l)
    BY <1>3, <2>2 DEF NewUsers
  <2> QED BY <2>1, <2>2
<1>5. /\ DOMAIN ConfiguredUsers(env) \subseteq Name
      /\ ConfiguredUsers(env) \in [DOMAIN ConfiguredUsers(env) -> User]
  BY <1>1, <1>2, <1>4, WithIsTyped DEF ConfiguredUsers
<1> QED BY <1>4, <1>5

LEMMA InitTyped ==
  ASSUME AuthAssumption, Init
  PROVE  TypeOK
<1>1. level \in AuthLevel /\ UsersOK
  <2>1. PICK env \in Environment : level = auth_level(env) /\ users \in {ConfiguredUsers(env), NewUsers(level)}
    BY DEF Init
  <2>2. level \in AuthLevel
    BY <2>1, LevelsAreLevels
  <2>3. UsersOK
    BY <2>1, UsersAtFirst DEF UsersOK
  <2> QED BY <2>2, <2>3
<1> QED BY <1>1 DEF Init, TypeOK

\* What an answer does to the thread.
LEMMA AnswerTyped ==
  ASSUME TypeOK, NEW c \in Client, NEW status \in {0, 200, 400, 401, 403, 404},
         Answer(c, status), UsersOK'
  PROVE  TypeOK'
  BY DEF TypeOK, Answer

LEMMA StepTyped ==
  ASSUME AuthAssumption, TypeOK, [Next]_vars
  PROVE  TypeOK'
<1>1. ASSUME NEW c \in Client, Arrive(c) PROVE TypeOK'
  BY <1>1 DEF Arrive, TypeOK, UsersOK, AuthAssumption
<1>2. ASSUME NEW c \in Client, Unrouted(c) PROVE TypeOK'
  BY <1>2 DEF Unrouted, TypeOK, UsersOK
<1>3. ASSUME NEW c \in Client, Admit(c) PROVE TypeOK'
  <2>1. PICK r \in check_auth(c) : role' = [role EXCEPT ![c] = r]
    BY <1>3 DEF Admit
  <2>2. r \in Role
    BY <2>1, GrantedIsRole
  <2> QED BY <1>3, <2>1, <2>2 DEF Admit, TypeOK, UsersOK
<1>4. ASSUME NEW c \in Client, Refuse(c) PROVE TypeOK'
  <2>1. UsersOK'
    BY <1>4 DEF Refuse, TypeOK, UsersOK
  <2> QED BY <1>4, <2>1, AnswerTyped DEF Refuse
<1>5. ASSUME NEW c \in Client, handle_add_user(c) PROVE TypeOK'
  <2> DEFINE b == request[c].body
  <2>1. b = NoBody \/ b \in [name : Name, secret : Secret, role : Role \cup {NoRole}]
    <3>1. pc[c] = "act" /\ request[c].route = "add_user"
      BY <1>5, Zenon DEF handle_add_user
    <3>2. request[c] \in Request
      BY <3>1 DEF TypeOK
    <3>3. request[c].route \in OverUsers
      BY <3>1 DEF OverUsers
    <3> QED BY <3>2, <3>3, Zenon DEF AuthAssumption
  <2>2. CASE b # NoBody /\ b.role # NoRole /\ b.name \notin DOMAIN users
    <3>1. Answer(c, 200) /\ users' = With(users, b.name, [hash |-> Hash[b.secret], role |-> b.role])
      BY <1>5, <2>2 DEF handle_add_user
    <3>2. b.name \in Name /\ [hash |-> Hash[b.secret], role |-> b.role] \in User
      BY <2>1, <2>2 DEF User
    <3> DEFINE u == [hash |-> Hash[b.secret], role |-> b.role]
    <3>3. users' = With(users, b.name, u) /\ u \in User
      BY <3>1, <3>2
    <3> HIDE DEF b, u
    <3>4. DOMAIN users \subseteq Name /\ users \in [DOMAIN users -> User]
      BY DEF TypeOK, UsersOK
    <3>5. /\ DOMAIN With(users, b.name, u) \subseteq Name
          /\ With(users, b.name, u) \in [DOMAIN With(users, b.name, u) -> User]
      BY <3>2, <3>3, <3>4, WithIsTyped, Zenon
    <3>6. UsersOK'
      BY <3>3, <3>5, Zenon DEF UsersOK
    <3> QED BY <3>1, <3>6, AnswerTyped
  <2>3. CASE ~(b # NoBody /\ b.role # NoRole /\ b.name \notin DOMAIN users)
    <3>1. Answer(c, 400) /\ UNCHANGED users
      BY <1>5, <2>3, Zenon DEF handle_add_user
    <3>2. UsersOK'
      BY <3>1 DEF TypeOK, UsersOK
    <3> QED BY <3>1, <3>2, AnswerTyped
  <2> QED BY <2>2, <2>3
<1>6. ASSUME NEW c \in Client, handle_remove_user(c) PROVE TypeOK'
  <2> DEFINE b == request[c].body
  <2>1. CASE b = NoBody
    <3>1. Answer(c, 400) /\ UNCHANGED users
      BY <1>6, <2>1 DEF handle_remove_user
    <3>2. UsersOK'
      BY <3>1 DEF TypeOK, UsersOK
    <3> QED BY <3>1, <3>2, AnswerTyped
  <2>2. CASE b # NoBody
    <3>1. /\ Answer(c, 200) \/ Answer(c, 404)
          /\ users' = Without(users, b.name)
      BY <1>6, <2>2 DEF handle_remove_user
    <3> HIDE DEF b
    <3>2. UsersOK'
      BY <3>1, WithoutIsTyped DEF TypeOK, UsersOK
    <3> QED BY <3>1, <3>2, AnswerTyped
  <2> QED BY <2>1, <2>2
<1>7. ASSUME NEW c \in Client, Serve(c) PROVE TypeOK'
  <2>1. UsersOK'
    BY <1>7 DEF Serve, TypeOK, UsersOK
  <2> QED BY <1>7, <2>1, AnswerTyped DEF Serve
<1>8. ASSUME NEW n \in Name, NEW s \in Secret, update_password(n, s) PROVE TypeOK'
  <2>1. n \in DOMAIN users /\ users' = [users EXCEPT ![n].hash = Hash[s]]
    BY <1>8 DEF update_password
  <2>2. users \in [DOMAIN users -> User] /\ users[n] \in User
    BY <2>1 DEF TypeOK, UsersOK
  <2>3. [users[n] EXCEPT !.hash = Hash[s]] \in User
    BY <2>2 DEF User
  <2>4. users' \in [DOMAIN users -> User] /\ DOMAIN users' = DOMAIN users
    BY <2>1, <2>2, <2>3
  <2> QED BY <1>8, <2>4 DEF update_password, TypeOK, UsersOK
<1>9. CASE UNCHANGED vars
  BY <1>9 DEF vars, TypeOK, UsersOK
<1> QED BY <1>1, <1>2, <1>3, <1>4, <1>5, <1>6, <1>7, <1>8, <1>9 DEF Next, Check, Act

\* The users and the threads keep their types (auth.rs, http.rs).
THEOREM AuthTypeCorrect ==
  Spec => []TypeOK
<1>1. Init => TypeOK
  BY AuthAssumption, InitTyped
<1>2. TypeOK /\ [Next]_vars => TypeOK'
  BY AuthAssumption, StepTyped
<1> QED BY <1>1, <1>2, PTL DEF Spec

-----------------------------------------------------------------------------
(* What is let through. *)

\* What a thread is asked, while it has a request.
LEMMA RequestIsKnown ==
  ASSUME AuthAssumption, TypeOK, NEW c \in Client, pc[c] # "idle"
  PROVE  /\ request[c] \in Request
         /\ request[c].route \in DOMAIN Route
         /\ request[c].auth \in Seq(STRING)
<1>1. request[c] \in Request
  BY DEF TypeOK
<1> QED BY <1>1, Zenon DEF AuthAssumption

LEMMA RouteKinds ==
  ASSUME NEW x \in DOMAIN Route
  PROVE  /\ Route[x].kind \in {"health", "read", "write"}
         /\ Route[x].admin \in BOOLEAN
         /\ x \in OverUsers => Route[x].kind = "write" /\ Route[x].admin
<1>1. x \in {"health", "query", "write", "sync", "add_user", "remove_user", "list_users"}
  BY DEF Route
<1>2. /\ Route["health"] = [kind |-> "health", admin |-> FALSE]
      /\ Route["query"] = [kind |-> "read", admin |-> FALSE]
      /\ Route["write"] = [kind |-> "write", admin |-> FALSE]
      /\ Route["list_users"] = [kind |-> "read", admin |-> TRUE]
      /\ \A y \in {"sync", "add_user", "remove_user"} : Route[y] = [kind |-> "write", admin |-> TRUE]
  BY DEF Route
<1>3. Route[x].kind \in {"health", "read", "write"}
  BY <1>1, <1>2
<1>4. Route[x].admin \in BOOLEAN
  <2>1. \/ Route[x].admin = TRUE
        \/ Route[x].admin = FALSE
    BY <1>1, <1>2
  <2> QED BY <2>1, Zenon
<1>5. x \in OverUsers => Route[x].kind = "write"
  BY <1>2 DEF OverUsers
<1>6. x \in OverUsers => Route[x].admin = TRUE
  BY <1>2 DEF OverUsers
<1> QED BY <1>3, <1>4, <1>5, <1>6, Zenon

\* The routes ask for what the README promises of them.
LEMMA RoutesKeepPromises ==
  ASSUME NEW x \in DOMAIN Route
  PROVE  /\ Promised[x].column = CASE Route[x].kind = "read" -> "reads"
                                    [] Route[x].kind = "write" -> "writes"
                                    [] OTHER -> "health"
         /\ Promised[x].right = IF Route[x].admin THEN "admin" ELSE Route[x].kind
<1>1. x \in {"health", "query", "write", "sync", "add_user", "remove_user", "list_users"}
  BY DEF Route
<1>2. CASE x = "health"
  BY <1>2 DEF Route, Promised
<1>3. CASE x = "query"
  BY <1>3 DEF Route, Promised
<1>4. CASE x = "write"
  BY <1>4 DEF Route, Promised
<1>5. CASE x = "sync"
  BY <1>5 DEF Route, Promised
<1>6. CASE x = "add_user"
  BY <1>6 DEF Route, Promised
<1>7. CASE x = "remove_user"
  BY <1>7 DEF Route, Promised
<1>8. CASE x = "list_users"
  BY <1>8 DEF Route, Promised
<1> QED BY <1>1, <1>2, <1>3, <1>4, <1>5, <1>6, <1>7, <1>8

\* A column is open at a level exactly if requests of its kind need no
\* authentication there.
LEMMA OpenIsUnchecked ==
  ASSUME level \in AuthLevel, NEW kind \in {"health", "read", "write"}
  PROVE  (CASE kind = "read" -> "reads" [] kind = "write" -> "writes" [] OTHER -> "health") \in OpenAt[level]
           <=> level \notin RequiresAuth[kind]
<1>1. level \in {"none", "write", "read", "all"}
  BY DEF AuthLevel, LevelNames
<1> QED BY <1>1 DEF OpenAt, RequiresAuth

\* A role has a right exactly if can_write and can_admin say so.
LEMMA RightsAreChecks ==
  ASSUME NEW r \in Role, NEW x \in DOMAIN Route
  PROVE  Promised[x].right \in RightsOf[r]
           <=> (Route[x].kind = "write" => r \in can_write) /\ (Route[x].admin => r \in can_admin)
<1>1. /\ Route[x].kind \in {"health", "read", "write"} /\ Route[x].admin \in BOOLEAN
      /\ Promised[x].right = IF Route[x].admin THEN "admin" ELSE Route[x].kind
  BY RouteKinds, RoutesKeepPromises
<1> HIDE DEF Route
<1> QED BY <1>1 DEF Role, RightsOf, can_write, can_admin

LEMMA GrantsAreDocumented ==
  ASSUME AuthAssumption, TypeOK, NEW c \in Client, pc[c] # "idle"
  PROVE  Documented(c) <=> \E r \in check_auth(c) : Route[request[c].route].admin => r \in can_admin
<1> DEFINE x == request[c].route
           route == Route[x]
           found == validate_basic_auth(users, request[c].auth)
<1>1. x \in DOMAIN Route /\ route.kind \in {"health", "read", "write"} /\ route.admin \in BOOLEAN
  BY RequestIsKnown, RouteKinds
<1>2. Promised[x].column \in OpenAt[level] <=> ~needs_auth(c)
  <2>1. Promised[x].column = CASE route.kind = "read" -> "reads" [] route.kind = "write" -> "writes" [] OTHER -> "health"
    BY <1>1, RoutesKeepPromises
  <2>2. (CASE route.kind = "read" -> "reads" [] route.kind = "write" -> "writes" [] OTHER -> "health") \in OpenAt[level]
          <=> level \notin RequiresAuth[route.kind]
    BY <1>1, OpenIsUnchecked DEF TypeOK
  <2> QED BY <2>1, <2>2 DEF needs_auth
<1>3. \A r \in found : r \in Role
  BY ValidatedIsUsers DEF TypeOK, UsersOK, User
<1>4. \A r \in found : Promised[x].right \in RightsOf[r]
        <=> (route.kind = "write" => r \in can_write) /\ (route.admin => r \in can_admin)
  BY <1>1, <1>3, RightsAreChecks
<1>5. Documented(c) <=> ~needs_auth(c) \/ \E r \in found : Promised[x].right \in RightsOf[r]
  BY <1>2 DEF Documented
<1> HIDE DEF route, found
<1>6. CASE needs_auth(c)
  <2>1. check_auth(c) = {r \in found : route.kind = "write" => r \in can_write}
    BY <1>6 DEF check_auth, route, found
  <2>2. Documented(c) <=> \E r \in check_auth(c) : route.admin => r \in can_admin
    BY <1>4, <1>5, <1>6, <2>1, Zenon
  <2> QED BY <2>2 DEF route
<1>7. CASE ~needs_auth(c)
  <2>1. check_auth(c) = {"Admin"} /\ "Admin" \in can_admin
    BY <1>7 DEF check_auth, can_admin
  <2> QED BY <1>5, <1>7, <2>1
<1> QED BY <1>6, <1>7

\* A step that takes a thread away from its check is the check.
LEMMA LeavesCheck ==
  ASSUME TypeOK, [Next]_vars, NEW c \in Client, pc[c] = "check", pc'[c] # "check"
  PROVE  Admit(c) \/ Refuse(c)
<1>1. ASSUME NEW d \in Client, Arrive(d) PROVE FALSE
  BY <1>1 DEF Arrive, TypeOK
<1>2. ASSUME NEW d \in Client, Unrouted(d) PROVE FALSE
  BY <1>2 DEF Unrouted
<1>3. ASSUME NEW d \in Client, Admit(d) PROVE Admit(c)
  <2>1. d = c
    BY <1>3 DEF Admit, TypeOK
  <2> QED BY <1>3, <2>1
<1>4. ASSUME NEW d \in Client, Refuse(d) PROVE Refuse(c)
  <2>1. d = c
    BY <1>4 DEF Refuse, Answer, TypeOK
  <2> QED BY <1>4, <2>1
<1>5. ASSUME NEW d \in Client, Act(d) PROVE FALSE
  <2>1. pc[d] = "act" /\ \E status \in {200, 400, 404} : Answer(d, status)
    BY <1>5 DEF Act, handle_add_user, handle_remove_user, Serve
  <2> QED BY <2>1 DEF Answer, TypeOK
<1>6. ASSUME NEW n \in Name, NEW s \in Secret, update_password(n, s) PROVE FALSE
  BY <1>6 DEF update_password
<1>7. CASE UNCHANGED vars
  BY <1>7 DEF vars
<1> QED BY <1>1, <1>2, <1>3, <1>4, <1>5, <1>6, <1>7 DEF Next, Check

\* Nothing gets past the check that the README's tables do not grant, and
\* nothing they grant is refused (http.rs: check_auth, route_request).
THEOREM RightsDocumented ==
  Spec => RightsAsDocumented
<1>1. ASSUME TypeOK, [Next]_vars, NEW c \in Client, pc[c] = "check", pc'[c] # "check"
      PROVE  (pc'[c] = "act") = Documented(c)
  <2>1. Documented(c) <=> \E r \in check_auth(c) : Route[request[c].route].admin => r \in can_admin
    BY <1>1, AuthAssumption, GrantsAreDocumented
  <2>2. Documented(c) \in BOOLEAN
    BY DEF Documented
  <2>3. CASE Admit(c)
    BY <1>1, <2>1, <2>2, <2>3 DEF Admit, TypeOK
  <2>4. CASE Refuse(c)
    <3>1. pc'[c] = "idle"
      BY <1>1, <2>4 DEF Refuse, Answer, TypeOK
    <3>2. ~Documented(c)
      BY <2>1, <2>4, Zenon DEF Refuse
    <3> QED BY <2>2, <3>1, <3>2
  <2> QED BY <1>1, <2>3, <2>4, LeavesCheck
<1>2. TypeOK /\ [Next]_vars =>
        [\A c \in Client : pc[c] = "check" /\ pc'[c] # "check" => (pc'[c] = "act") = Documented(c)]_vars
  BY <1>1
<1> QED BY <1>2, AuthTypeCorrect, PTL DEF Spec, RightsAsDocumented

-----------------------------------------------------------------------------
(* What becomes of a role that was handed out. *)

\* A thread that ends its request acts for nobody, and the others are as they
\* were.
LEMMA AnsweredActsNoMore ==
  ASSUME TypeOK, NEW d \in Client, NEW status, Answer(d, status),
         NEW c \in Client, pc'[c] = "act"
  PROVE  /\ c # d /\ pc[c] = "act"
         /\ request'[c] = request[c] /\ role'[c] = role[c] /\ level' = level
  BY DEF Answer, TypeOK

LEMMA ActAnswers ==
  ASSUME NEW d, Act(d)
  PROVE  pc[d] = "act" /\ \E status : Answer(d, status)
  BY DEF Act, handle_add_user, handle_remove_user, Serve

\* A thread that acts goes on as it was, or has just been let through.
LEMMA ActsOn ==
  ASSUME TypeOK, [Next]_vars, NEW c \in Client, pc'[c] = "act"
  PROVE  /\ request'[c] = request[c] /\ level' = level
         /\ \/ pc[c] = "act" /\ role'[c] = role[c]
            \/ Admit(c) /\ role'[c] \in check_auth(c)
<1>1. ASSUME NEW d \in Client, Arrive(d) PROVE pc[c] = "act" /\ UNCHANGED <<level, role>> /\ request'[c] = request[c]
  BY <1>1 DEF Arrive, TypeOK
<1>2. ASSUME NEW d \in Client, Unrouted(d) PROVE pc[c] = "act" /\ UNCHANGED <<level, role, request>>
  BY <1>2 DEF Unrouted
<1>3. ASSUME NEW d \in Client, Admit(d)
      PROVE  /\ UNCHANGED <<request, level>>
             /\ \/ pc[c] = "act" /\ role'[c] = role[c]
                \/ Admit(c) /\ role'[c] \in check_auth(c)
  <2>1. UNCHANGED <<request, level>>
    BY <1>3 DEF Admit
  <2>2. PICK r \in check_auth(d) : role' = [role EXCEPT ![d] = r]
    BY <1>3 DEF Admit
  <2>3. DOMAIN role = Client /\ DOMAIN pc = Client
    BY DEF TypeOK
  <2>4. CASE d = c
    <3>1. role'[c] \in check_auth(c)
      BY <2>2, <2>3, <2>4
    <3> QED BY <1>3, <2>1, <2>4, <3>1
  <2>5. CASE d # c
    <3>1. role'[c] = role[c]
      BY <2>2, <2>3, <2>5
    <3>2. pc' = [pc EXCEPT ![d] = "act"]
      BY <1>3 DEF Admit
    <3>3. pc'[c] = pc[c]
      BY <2>3, <2>5, <3>2
    <3> QED BY <2>1, <3>1, <3>3
  <2> QED BY <2>4, <2>5
<1>4. ASSUME NEW d \in Client, Refuse(d) \/ Act(d)
      PROVE  pc[c] = "act" /\ request'[c] = request[c] /\ role'[c] = role[c] /\ level' = level
  <2>1. PICK status : Answer(d, status)
    <3>1. CASE Refuse(d)
      BY <3>1, ZenonT(30) DEF Refuse
    <3>2. CASE Act(d)
      BY <3>2, ActAnswers
    <3> QED BY <1>4, <3>1, <3>2
  <2> QED BY <2>1, AnsweredActsNoMore
<1>5. ASSUME NEW n \in Name, NEW s \in Secret, update_password(n, s)
      PROVE  UNCHANGED <<pc, level, role, request>>
  BY <1>5 DEF update_password
<1>6. CASE UNCHANGED vars
  BY <1>6 DEF vars
<1> QED BY <1>1, <1>2, <1>3, <1>4, <1>5, <1>6 DEF Next, Check

\* Users come and go by those who act over users; all else leaves their roles.
LEMMA UsersStay ==
  ASSUME TypeOK, [Next]_vars
  PROVE  \/ \E d \in Client : handle_add_user(d) \/ handle_remove_user(d)
         \/ /\ DOMAIN users' = DOMAIN users
            /\ \A n \in DOMAIN users : users'[n].role = users[n].role
<1>1. ASSUME NEW c \in Client, Arrive(c) \/ Unrouted(c) \/ Check(c) \/ Serve(c) PROVE users' = users
  BY <1>1 DEF Arrive, Unrouted, Check, Admit, Refuse, Serve
<1>2. ASSUME NEW n \in Name, NEW s \in Secret, update_password(n, s)
      PROVE  /\ DOMAIN users' = DOMAIN users
             /\ \A x \in DOMAIN users : users'[x].role = users[x].role
  BY <1>2 DEF update_password, TypeOK, UsersOK, User
<1>3. CASE UNCHANGED vars
  BY <1>3 DEF vars
<1> QED BY <1>1, <1>2, <1>3 DEF Next, Act

\* A role is kept or goes with its user.
LEMMA RolesStay ==
  ASSUME TypeOK, [Next]_vars, NEW n \in DOMAIN users, n \in DOMAIN users'
  PROVE  users'[n].role = users[n].role
<1>1. ASSUME NEW c \in Client, handle_add_user(c) PROVE users'[n].role = users[n].role
  BY <1>1 DEF handle_add_user, With
<1>2. ASSUME NEW c \in Client, handle_remove_user(c) PROVE users'[n].role = users[n].role
  BY <1>2 DEF handle_remove_user, Without
<1> QED BY <1>1, <1>2, UsersStay

\* Whoever acts for a user did so before, or has just shown the user's
\* credentials and got the user's role.
LEMMA NewLicence ==
  ASSUME TypeOK, [Next]_vars, NEW n, NEW c \in ActsFor(n)'
  PROVE  \/ c \in ActsFor(n) /\ role'[c] = role[c]
         \/ n \in DOMAIN users /\ users' = users /\ role'[c] = users[n].role
<1>1. c \in Client /\ pc'[c] = "act" /\ needs_auth(c)' /\ NameIn(request'[c].auth) = n
  BY DEF ActsFor
<1>2. request'[c] = request[c] /\ level' = level
  BY <1>1, ActsOn
<1>3. needs_auth(c) /\ NameIn(request[c].auth) = n
  BY <1>1, <1>2 DEF needs_auth
<1>4. CASE pc[c] = "act" /\ role'[c] = role[c]
  BY <1>1, <1>3, <1>4 DEF ActsFor
<1>5. CASE Admit(c) /\ role'[c] \in check_auth(c)
  <2>1. role'[c] \in validate_basic_auth(users, request[c].auth)
    BY <1>3, <1>5 DEF check_auth
  <2>2. n \in DOMAIN users /\ users[n].role = role'[c]
    BY <1>3, <2>1, ValidatedIsUsers
  <2> QED BY <1>5, <2>2 DEF Admit
<1> QED BY <1>1, <1>4, <1>5, ActsOn

\* While a user is not there nothing further is let through for them
\* (auth.rs: remove_user; http.rs: check_auth).
THEOREM NoLicence ==
  Spec => NoLicenceForTheAbsent
<1>1. TypeOK /\ [Next]_vars =>
        [\A n \in Name : n \notin DOMAIN users => ActsFor(n)' \subseteq ActsFor(n)]_vars
  BY NewLicence
<1> QED BY <1>1, AuthTypeCorrect, PTL DEF Spec, NoLicenceForTheAbsent

\* The role a thread acts with goes stale by the removal of its user only
\* (auth.rs: add_user, remove_user).
THEOREM LicenceLapses ==
  Spec => LicenceLapsesOnlyByRemoval
<1>1. ASSUME TypeOK, [Next]_vars, NEW n \in Name, NEW c \in ActsFor(n)',
             n \in DOMAIN users, c \in ActsFor(n) => RoleIsCurrent(c, n)
      PROVE  RoleIsCurrent(c, n)'
  <2>1. CASE c \in ActsFor(n) /\ role'[c] = role[c]
    <3>1. users[n].role = role'[c]
      BY <1>1, <2>1 DEF RoleIsCurrent
    <3> QED BY <1>1, <3>1, RolesStay DEF RoleIsCurrent
  <2>2. CASE n \in DOMAIN users /\ users' = users /\ role'[c] = users[n].role
    BY <2>2 DEF RoleIsCurrent
  <2> QED BY <1>1, <2>1, <2>2, NewLicence
<1>2. TypeOK /\ [Next]_vars =>
        [\A n \in Name : \A c \in ActsFor(n)' :
           n \in DOMAIN users /\ (c \in ActsFor(n) => RoleIsCurrent(c, n)) => RoleIsCurrent(c, n)']_vars
  BY <1>1
<1> QED BY <1>2, AuthTypeCorrect, PTL DEF Spec, LicenceLapsesOnlyByRemoval

-----------------------------------------------------------------------------
(* Users come from administrators alone. *)

\* Who is let through to change users is an administrator, or nobody asks.
LEMMA AdmittedOverUsers ==
  ASSUME AuthAssumption, TypeOK, NEW c \in Client, Admit(c), request[c].route \in OverUsers
  PROVE  Administrable
<1>1. request[c].auth \in Seq(STRING) /\ request[c].route \in DOMAIN Route
  BY RequestIsKnown DEF Admit
<1>2. Route[request[c].route].kind = "write" /\ Route[request[c].route].admin
  BY <1>1, RouteKinds
<1>3. PICK r \in check_auth(c) : r \in can_admin
  BY <1>2 DEF Admit
<1>4. CASE needs_auth(c)
  <2>1. r \in validate_basic_auth(users, request[c].auth)
    BY <1>4 DEF check_auth
  <2> DEFINE n == NameIn(request[c].auth)
  <2>2. n \in DOMAIN users /\ users[n].role = "Admin" /\ Colons(request[c].auth) # {}
    BY <1>3, <2>1, ValidatedIsUsers DEF can_admin
  <2>3. Colons(n) = {}
    BY <1>1, <2>2, CutAtFirst
  <2> QED BY <2>2, <2>3 DEF Administrable
<1>5. CASE ~needs_auth(c)
  <2>1. level \in {"none", "write", "read", "all"} /\ level \notin {"write", "read", "all"}
    BY <1>2, <1>5 DEF needs_auth, RequiresAuth, TypeOK, AuthLevel, LevelNames
  <2> QED BY <2>1 DEF Administrable, auth_enabled
<1> QED BY <1>4, <1>5

\* Once nobody is left who could change the users, nobody gains or loses a
\* right (http.rs: handle_add_user, handle_remove_user behind check_auth).
THEOREM NothingFromNothing ==
  Spec => NoRightsOutOfNothing
<1>1. ASSUME TypeOK, [Next]_vars, ~Administrable
      PROVE  /\ ~Administrable'
             /\ [n \in DOMAIN users |-> users[n].role] = [n \in DOMAIN users' |-> users'[n].role]
  <2>1. ASSUME NEW c \in Client, handle_add_user(c) \/ handle_remove_user(c) PROVE FALSE
    <3>1. pc[c] = "act" /\ request[c].route \in OverUsers
      BY <2>1 DEF handle_add_user, handle_remove_user, OverUsers
    <3> QED BY <1>1, <3>1 DEF Administrable
  <2>2. DOMAIN users' = DOMAIN users /\ \A n \in DOMAIN users : users'[n].role = users[n].role
    BY <1>1, <2>1, UsersStay
  <2>3. level' = level
    <3>1. ASSUME NEW c \in Client, Arrive(c) \/ Unrouted(c) \/ Check(c) PROVE level' = level
      BY <3>1 DEF Arrive, Unrouted, Check, Admit, Refuse, Answer
    <3>2. ASSUME NEW c \in Client, Act(c) PROVE level' = level
      BY <3>2, ActAnswers DEF Answer
    <3>3. ASSUME NEW n \in Name, NEW s \in Secret, update_password(n, s) PROVE level' = level
      BY <3>3 DEF update_password
    <3> QED BY <1>1, <3>1, <3>2, <3>3 DEF Next, vars
  <2>4. ASSUME NEW c \in Client, pc'[c] = "act", request'[c].route \in OverUsers PROVE FALSE
    <3>1. request[c].route \in OverUsers /\ (pc[c] = "act" \/ Admit(c))
      BY <1>1, <2>4, ActsOn
    <3> QED BY <1>1, <3>1, AuthAssumption, AdmittedOverUsers DEF Administrable
  <2>5. ~Administrable'
    BY <1>1, <2>2, <2>3, <2>4 DEF Administrable
  <2> QED BY <2>2, <2>5
<1>2. TypeOK /\ [Next]_vars =>
        [~Administrable => /\ ~Administrable'
                           /\ [n \in DOMAIN users |-> users[n].role]
                                = [n \in DOMAIN users' |-> users'[n].role]]_vars
  BY <1>1
<1> QED BY <1>2, AuthTypeCorrect, PTL DEF Spec, NoRightsOutOfNothing

-----------------------------------------------------------------------------
(* Credentials come out of base64 as they were. *)

Decoder == [out : Seq(Nat), buffer : Nat, bits : {0, 2, 4, 6}]

\* What a digit does, by the bits that are waiting.
Decodes(d, val) ==
  LET buffer == d.buffer * 64 + val IN
  /\ d.bits = 0 => decode(d, val) = [out |-> d.out, buffer |-> buffer, bits |-> 6]
  /\ d.bits = 6 =>
           decode(d, val) = [out |-> Append(d.out, (buffer \div 16) % 256), buffer |-> buffer % 16, bits |-> 4]
  /\ d.bits = 4 =>
           decode(d, val) = [out |-> Append(d.out, (buffer \div 4) % 256), buffer |-> buffer % 4, bits |-> 2]
  /\ d.bits = 2 => decode(d, val) = [out |-> Append(d.out, buffer % 256), buffer |-> 0, bits |-> 0]

LEMMA DecodeCases ==
  ASSUME NEW d \in Decoder, NEW val \in Nat
  PROVE  Decodes(d, val)
<1> DEFINE buffer == d.buffer * 64 + val
<1>1. buffer \in Nat /\ d.bits \in {0, 2, 4, 6}
  BY DEF Decoder
<1>2. CASE d.bits = 0
  <2>1. ~(d.bits + 6 >= 8) /\ d.bits + 6 = 6
    BY <1>2
  <2>2. decode(d, val) = [out |-> d.out, buffer |-> buffer, bits |-> d.bits + 6]
    BY <2>1 DEF decode
  <2> HIDE DEF buffer
  <2> QED BY <1>2, <2>1, <2>2 DEF buffer, Decodes
<1>3. ASSUME d.bits # 0 
      PROVE  decode(d, val) = [out |-> Append(d.out, (buffer \div 2^((d.bits + 6) - 8)) % 256),
                               buffer |-> buffer % 2^((d.bits + 6) - 8), bits |-> (d.bits + 6) - 8]
  <2>1. d.bits + 6 >= 8
    BY <1>1, <1>3
  <2> DEFINE T == [out |-> Append(d.out, (buffer \div 2^((d.bits + 6) - 8)) % 256),
                   buffer |-> buffer % 2^((d.bits + 6) - 8), bits |-> (d.bits + 6) - 8]
             R == [out |-> d.out, buffer |-> buffer, bits |-> d.bits + 6]
  <2>2. decode(d, val) = IF d.bits + 6 >= 8 THEN T ELSE R
    BY Zenon DEF decode
  <2> HIDE DEF T, R
  <2>3. decode(d, val) = T
    BY <2>1, <2>2
  <2> QED BY <2>3 DEF T
<1>4. 2^0 = 1 /\ 2^2 = 4 /\ 2^4 = 16 /\ buffer \div 1 = buffer /\ buffer % 1 = 0
  <2> HIDE DEF buffer
  <2> QED BY <1>1
<1> HIDE DEF buffer
<1>5. CASE d.bits = 6
  <2>1. d.bits # 0 /\ d.bits + 6 - 8 = 4
    BY <1>5
  <2> QED BY <1>3, <1>4, <1>5, <2>1 DEF buffer, Decodes
<1>6. CASE d.bits = 4
  <2>1. d.bits # 0 /\ d.bits + 6 - 8 = 2
    BY <1>6
  <2> QED BY <1>3, <1>4, <1>6, <2>1 DEF buffer, Decodes
<1>7. CASE d.bits = 2
  <2>1. d.bits # 0 /\ d.bits + 6 - 8 = 0
    BY <1>7
  <2> QED BY <1>3, <1>4, <1>7, <2>1 DEF buffer, Decodes
<1> QED BY <1>1, <1>2, <1>5, <1>6, <1>7 DEF buffer, Decodes

LEMMA DecodeType ==
  ASSUME NEW d \in Decoder, NEW val \in Nat
  PROVE  decode(d, val) \in Decoder
<1> DEFINE buffer == d.buffer * 64 + val
<1>1. d.out \in Seq(Nat) /\ buffer \in Nat /\ d.bits \in {0, 2, 4, 6}
  BY DEF Decoder
<1>2. /\ d.bits = 0 => decode(d, val) = [out |-> d.out, buffer |-> buffer, bits |-> 6]
      /\ d.bits = 6 =>
               decode(d, val) = [out |-> Append(d.out, (buffer \div 16) % 256), buffer |-> buffer % 16, bits |-> 4]
      /\ d.bits = 4 =>
               decode(d, val) = [out |-> Append(d.out, (buffer \div 4) % 256), buffer |-> buffer % 4, bits |-> 2]
      /\ d.bits = 2 => decode(d, val) = [out |-> Append(d.out, buffer % 256), buffer |-> 0, bits |-> 0]
  <2>1. Decodes(d, val)
    BY DecodeCases
  <2> QED BY <2>1 DEF Decodes
<1> HIDE DEF buffer
<1>3. /\ (buffer \div 16) % 256 \in Nat /\ (buffer \div 4) % 256 \in Nat /\ buffer % 256 \in Nat
      /\ buffer % 16 \in Nat /\ buffer % 4 \in Nat
  BY <1>1
<1>4. \A x \in Nat : Append(d.out, x) \in Seq(Nat)
  BY <1>1
<1>5. \A out \in Seq(Nat), b \in Nat, bits \in {0, 2, 4, 6} : [out |-> out, buffer |-> b, bits |-> bits] \in Decoder
  BY DEF Decoder
<1>6. CASE d.bits = 0
  BY <1>1, <1>2, <1>6 DEF Decoder
<1>7. CASE d.bits = 6
  <2>1. decode(d, val) = [out |-> Append(d.out, (buffer \div 16) % 256), buffer |-> buffer % 16, bits |-> 4]
    BY <1>2, <1>7
  <2>2. Append(d.out, (buffer \div 16) % 256) \in Seq(Nat)
    BY <1>3, <1>4
  <2> QED BY <1>3, <2>1, <2>2 DEF Decoder
<1>8. CASE d.bits = 4
  <2>1. decode(d, val) = [out |-> Append(d.out, (buffer \div 4) % 256), buffer |-> buffer % 4, bits |-> 2]
    BY <1>2, <1>8
  <2>2. Append(d.out, (buffer \div 4) % 256) \in Seq(Nat)
    BY <1>3, <1>4
  <2> QED BY <1>3, <2>1, <2>2 DEF Decoder
<1>9. CASE d.bits = 2
  <2>1. decode(d, val) = [out |-> Append(d.out, buffer % 256), buffer |-> 0, bits |-> 0]
    BY <1>2, <1>9
  <2>2. Append(d.out, buffer % 256) \in Seq(Nat)
    BY <1>3, <1>4
  <2> QED BY <1>3, <2>1, <2>2 DEF Decoder
<1> QED BY <1>1, <1>6, <1>7, <1>8, <1>9

\* The loop exists, and does with each digit what it says.
LEMMA DecodedRuns ==
  ASSUME NEW digits \in Seq(Nat)
  PROVE  /\ Decoded(digits)[0] = Undecoded
         /\ \A n \in 1..Len(digits) : Decoded(digits)[n] = decode(Decoded(digits)[n - 1], digits[n])
<1> DEFINE N == Len(digits)
           step == [n \in 1..N |-> [d \in Decoder |-> decode(d, digits[n])]]
           Loop(f) == f = [n \in 0..N |-> IF n = 0 THEN Undecoded ELSE decode(f[n - 1], digits[n])]
<1>1. N \in Nat /\ Undecoded \in Decoder
  <2>1. <<>> \in Seq(Nat)
    OBVIOUS
  <2> QED BY <2>1 DEF Undecoded, Decoder
<1>2. step \in [1..N -> [Decoder -> Decoder]]
  <2>1. ASSUME NEW n \in 1..N, NEW d \in Decoder PROVE decode(d, digits[n]) \in Decoder
    <3>1. digits[n] \in Nat
      OBVIOUS
    <3> QED BY <3>1, DecodeType
  <2> QED BY <2>1
<1>3. PICK f \in [0..N -> Decoder] : Runs(f, N, Undecoded, step)
  <2> HIDE DEF N, step
  <2> QED BY <1>1, <1>2, Recursion
<1>4. Loop(f)
  <2> DEFINE r == [n \in 0..N |-> IF n = 0 THEN Undecoded ELSE decode(f[n - 1], digits[n])]
  <2>1. ASSUME NEW k \in 0..N PROVE f[k] = r[k]
    <3>1. CASE k = 0
      BY <1>3, <3>1 DEF Runs
    <3>2. CASE k # 0
      <4>1. k \in 1..N /\ k - 1 \in 0..N
        BY <3>2
      <4>2. f[k - 1] \in Decoder
        <5> HIDE DEF N
        <5> QED BY <1>3, <4>1
      <4>3. f[k] = step[k][f[k - 1]]
        <5> HIDE DEF N, step
        <5> QED BY <1>3, <4>1 DEF Runs
      <4> QED BY <3>2, <4>1, <4>2, <4>3
    <3> QED BY <3>1, <3>2
  <2>2. DOMAIN f = 0..N /\ f = [k \in 0..N |-> f[k]] /\ r = [k \in 0..N |-> r[k]]
    BY <1>3
  <2>3. f = r
    <3> HIDE DEF r
    <3> QED BY <2>1, <2>2
  <2> QED BY <2>3
<1>5. Decoded(digits) = CHOOSE g : Loop(g)
  BY DEF Decoded
<1> HIDE DEF Loop
<1>6. Loop(Decoded(digits))
  BY <1>4, <1>5
<1> USE DEF Loop
<1> DEFINE D == Decoded(digits)
<1>7. D = [n \in 0..N |-> IF n = 0 THEN Undecoded ELSE decode(D[n - 1], digits[n])]
  BY <1>6
<1> HIDE DEF D
<1>8. D[0] = Undecoded
  BY <1>1, <1>7
<1>9. ASSUME NEW n \in 1..N PROVE D[n] = decode(D[n - 1], digits[n])
  <2>1. n \in 0..N /\ n # 0
    OBVIOUS
  <2> QED BY <1>7, <2>1
<1> QED BY <1>8, <1>9 DEF D

-----------------------------------------------------------------------------
(* After n digits the decoder has the first 6n bits: the bytes they make, and *)
(* what they have of the next byte.                                           *)

Held(text, n) ==
  LET m == (6 * n) \div 8
      r == (6 * n) % 8
  IN [out |-> [i \in 1..m |-> Byte(text, i - 1)], buffer |-> Byte(text, m) \div 2^(8 - r), bits |-> r]

ShiftedBy(r) ==
  /\ r = 0 => 2^(10 - r) = 1024 /\ 2^(8 - r) = 256
  /\ r = 6 => 2^(10 - r) = 16 /\ 2^(8 - r) = 4
  /\ r = 4 => 2^(10 - r) = 64 /\ 2^(8 - r) = 16
  /\ r = 2 => 2^(10 - r) = 256 /\ 2^(8 - r) = 64

LEMMA Powers ==
  ASSUME NEW r
  PROVE  ShiftedBy(r)
<1>1. /\ 10 - 0 = 10 /\ 10 - 2 = 8 /\ 10 - 4 = 6 /\ 10 - 6 = 4
      /\ 8 - 0 = 8 /\ 8 - 2 = 6 /\ 8 - 4 = 4 /\ 8 - 6 = 2
      /\ 2^10 = 1024 /\ 2^8 = 256 /\ 2^6 = 64 /\ 2^4 = 16 /\ 2^2 = 4
  OBVIOUS
<1>2. CASE r = 0
  BY <1>1, <1>2 DEF ShiftedBy
<1>3. CASE r = 6
  BY <1>1, <1>3 DEF ShiftedBy
<1>4. CASE r = 4
  BY <1>1, <1>4 DEF ShiftedBy
<1>5. CASE r = 2
  BY <1>1, <1>5 DEF ShiftedBy
<1> QED BY <1>2, <1>3, <1>4, <1>5 DEF ShiftedBy

LEMMA ByteType ==
  ASSUME NEW text \in Seq(DOMAIN Code), NEW k \in Nat
  PROVE  Byte(text, k) \in 0..255 /\ (k < Len(text) => Byte(text, k) = Code[text[k + 1]])
<1>1. Code \in [DOMAIN Code -> 0..255]
  <2>1. Code \in [DOMAIN Code -> 0..127]
    BY AuthAssumption
  <2>2. \A w \in DOMAIN Code : Code[w] \in 0..255
    <3>1. \A w \in DOMAIN Code : Code[w] \in 0..127
      BY <2>1
    <3> QED BY <3>1
  <2> QED BY <2>1, <2>2
<1>2. CASE k < Len(text)
  <2>1. text[k + 1] \in DOMAIN Code
    BY <1>2
  <2> QED BY <1>1, <1>2, <2>1 DEF Byte
<1>3. CASE ~(k < Len(text))
  BY <1>3 DEF Byte
<1> QED BY <1>2, <1>3

\* One byte more.
LEMMA BytesAppend ==
  ASSUME NEW text \in Seq(DOMAIN Code), NEW m \in Nat
  PROVE  /\ [i \in 1..m |-> Byte(text, i - 1)] \in Seq(Nat)
         /\ Append([i \in 1..m |-> Byte(text, i - 1)], Byte(text, m)) = [i \in 1..(m + 1) |-> Byte(text, i - 1)]
<1> DEFINE s == [i \in 1..m |-> Byte(text, i - 1)]
           t == [i \in 1..(m + 1) |-> Byte(text, i - 1)]
<1>1. \A k \in Nat : Byte(text, k) \in Nat
  <2>1. \A k \in Nat : Byte(text, k) \in 0..255
    BY ByteType
  <2>2. 0..255 \subseteq Nat
    OBVIOUS
  <2> QED BY <2>1, <2>2
<1>2. s \in Seq(Nat) /\ t \in Seq(Nat) /\ Len(s) = m /\ Len(t) = m + 1
  BY <1>1
<1> DEFINE b == Byte(text, m)
<1>3. b \in Nat
  BY <1>1
<1>4. /\ \A i \in 1..m : s[i] = Byte(text, i - 1) /\ t[i] = Byte(text, i - 1)
      /\ t[m + 1] = b
  <2>1. m + 1 - 1 = m /\ m + 1 \in 1..(m + 1) /\ 1..m \subseteq 1..(m + 1)
    OBVIOUS
  <2> QED BY <2>1
<1> HIDE DEF s, t, b
<1>5. /\ Append(s, b) \in Seq(Nat) /\ Len(Append(s, b)) = m + 1
      /\ \A i \in 1..m : Append(s, b)[i] = s[i]
      /\ Append(s, b)[m + 1] = b
  BY <1>2, <1>3, AppendProperties
<1>6. ASSUME NEW i \in 1..(m + 1) PROVE Append(s, b)[i] = t[i]
  <2>1. CASE i = m + 1
    BY <1>4, <1>5, <2>1
  <2>2. CASE i # m + 1
    <3>1. i \in 1..m
      BY <2>2
    <3> QED BY <1>4, <1>5, <3>1
  <2> QED BY <2>1, <2>2
<1>7. Append(s, b) = t
  BY <1>2, <1>5, <1>6, SeqEqual
<1> QED BY <1>2, <1>7 DEF s, t, b

LEMMA HeldType ==
  ASSUME NEW text \in Seq(DOMAIN Code), NEW n \in Nat
  PROVE  Held(text, n) \in Decoder
<1> DEFINE m == (6 * n) \div 8
           r == (6 * n) % 8
<1>1. m \in Nat /\ r \in {0, 2, 4, 6}
  OBVIOUS
<1> HIDE DEF m, r
<1> DEFINE b == Byte(text, m)
           q == 2^(8 - r)
<1>2. b \in 0..255
  BY <1>1, ByteType
<1>3. q \in {256, 64, 16, 4}
  <2>1. ShiftedBy(r)
    BY Powers
  <2> QED BY <1>1, <2>1 DEF ShiftedBy
<1>4. b \div q \in Nat
  <2> HIDE DEF b, q
  <2> QED BY <1>2, <1>3
<1>5. [i \in 1..m |-> Byte(text, i - 1)] \in Seq(Nat)
  BY <1>1, BytesAppend
<1> QED BY <1>1, <1>4, <1>5 DEF Held, Decoder, m, r

\* The arithmetic of four digits in three bytes.
InSextets(a, b) ==
  /\ ((256 * a + b) \div 1024) % 64 = a \div 4
  /\ ((256 * a + b) \div 16) % 64 = (a % 4) * 16 + b \div 16
  /\ ((256 * a + b) \div 64) % 64 = (a % 16) * 4 + b \div 64
  /\ ((256 * a + b) \div 256) % 64 = a % 64
  /\ (((a \div 4) * 64 + (a % 4) * 16 + b \div 16) \div 16) % 256 = a
  /\ ((a \div 4) * 64 + (a % 4) * 16 + b \div 16) % 16 = b \div 16
  /\ (((a \div 16) * 64 + (a % 16) * 4 + b \div 64) \div 4) % 256 = a
  /\ ((a \div 16) * 64 + (a % 16) * 4 + b \div 64) % 4 = b \div 64
  /\ ((a \div 64) * 64 + (a % 64)) % 256 = a
  /\ a \div 256 = 0

LEMMA Sextets ==
  ASSUME NEW a \in 0..255, NEW b \in 0..255
  PROVE  InSextets(a, b)
<1>1. ((256 * a + b) \div 1024) % 64 = a \div 4
  OBVIOUS
<1>2. ((256 * a + b) \div 16) % 64 = (a % 4) * 16 + b \div 16
  OBVIOUS
<1>3. ((256 * a + b) \div 64) % 64 = (a % 16) * 4 + b \div 64
  OBVIOUS
<1>4. ((256 * a + b) \div 256) % 64 = a % 64
  OBVIOUS
<1>5. (((a \div 4) * 64 + (a % 4) * 16 + b \div 16) \div 16) % 256 = a
  OBVIOUS
<1>6. ((a \div 4) * 64 + (a % 4) * 16 + b \div 16) % 16 = b \div 16
  OBVIOUS
<1>7. (((a \div 16) * 64 + (a % 16) * 4 + b \div 64) \div 4) % 256 = a
  OBVIOUS
<1>8. ((a \div 16) * 64 + (a % 16) * 4 + b \div 64) % 4 = b \div 64
  OBVIOUS
<1>9. ((a \div 64) * 64 + (a % 64)) % 256 = a
  <2>1. (a \div 64) * 64 + (a % 64) = a
    OBVIOUS
  <2> QED BY <2>1
<1>10. a \div 256 = 0
  OBVIOUS
<1> QED BY <1>1, <1>2, <1>3, <1>4, <1>5, <1>6, <1>7, <1>8, <1>9, <1>10 DEF InSextets

\* The n-th digit has the six bits from k on.
LEMMA DigitAt ==
  ASSUME NEW text \in Seq(DOMAIN Code), NEW n \in 1..((8 * Len(text) + 5) \div 6), NEW q, NEW r,
         q = (6 * (n - 1)) \div 8, r = (6 * (n - 1)) % 8
  PROVE  base64(text)[n] = ((256 * Byte(text, q) + Byte(text, q + 1)) \div 2^(10 - r)) % 64
  BY Zenon DEF base64

LEMMA DigitsType ==
  ASSUME NEW text \in Seq(DOMAIN Code)
  PROVE  base64(text) \in Seq(Nat) /\ Len(base64(text)) = (8 * Len(text) + 5) \div 6
<1> DEFINE N == (8 * Len(text) + 5) \div 6
<1>1. N \in Nat
  OBVIOUS
<1>2. ASSUME NEW n \in 1..N PROVE base64(text)[n] \in Nat
  <2> DEFINE q == (6 * (n - 1)) \div 8
             r == (6 * (n - 1)) % 8
             x == 2^(10 - r)
             a == Byte(text, q)
             b == Byte(text, q + 1)
  <2>1. q \in Nat /\ r \in {0, 2, 4, 6}
    OBVIOUS
  <2>2. base64(text)[n] = ((256 * a + b) \div x) % 64
    BY DigitAt
  <2> HIDE DEF q, r
  <2>3. a \in 0..255 /\ b \in 0..255
    BY <2>1, ByteType
  <2>4. x \in {1024, 256, 64, 16}
    <3>1. ShiftedBy(r)
      BY Powers
    <3> QED BY <2>1, <3>1 DEF ShiftedBy
  <2> HIDE DEF x, a, b
  <2>5. ((256 * a + b) \div x) % 64 \in Nat
    BY <2>3, <2>4
  <2> QED BY <2>2, <2>5
<1>3. base64(text) = [n \in 1..N |-> base64(text)[n]]
  BY DEF base64
<1> HIDE DEF N
<1> QED BY <1>1, <1>2, <1>3 DEF N

LEMMA HeldIs ==
  ASSUME NEW text, NEW n \in Nat, NEW m, NEW r, m = (6 * n) \div 8, r = (6 * n) % 8
  PROVE  Held(text, n) = [out    |-> [i \in 1..m |-> Byte(text, i - 1)],
                         buffer |-> Byte(text, m) \div 2^(8 - r),
                         bits   |-> r]
  BY Zenon DEF Held

\* Each digit takes the decoder six bits further.
LEMMA HeldNext ==
  ASSUME NEW text \in Seq(DOMAIN Code), NEW n \in 1..((8 * Len(text) + 5) \div 6)
  PROVE  decode(Held(text, n - 1), base64(text)[n]) = Held(text, n)
<1> DEFINE m == (6 * (n - 1)) \div 8
           r == (6 * (n - 1)) % 8
           a == Byte(text, m)
           b == Byte(text, m + 1)
           val == base64(text)[n]
           d == Held(text, n - 1)
           done(k) == [i \in 1..k |-> Byte(text, i - 1)]
           p == 2^(10 - r)
           q == 2^(8 - r)
           t == d.buffer * 64 + val
<1>1. n - 1 \in Nat /\ n \in Nat /\ m \in Nat /\ r \in {0, 2, 4, 6} /\ 6 * n = 8 * m + r + 6
  OBVIOUS
<1>2. val = ((256 * a + b) \div p) % 64
  BY DigitAt
<1>3. d = [out |-> done(m), buffer |-> a \div q, bits |-> r]
  BY Zenon DEF Held
<1>4. val \in Nat
  <2>1. base64(text) \in Seq(Nat) /\ Len(base64(text)) = (8 * Len(text) + 5) \div 6
    BY DigitsType
  <2> QED BY <2>1
<1>5. d \in Decoder
  BY <1>1, HeldType
<1> SUFFICES decode(d, val) = Held(text, n)
  OBVIOUS
<1> HIDE DEF m, r
<1>6. /\ r = 0 => p = 1024 /\ q = 256
      /\ r = 6 => p = 16 /\ q = 4
      /\ r = 4 => p = 64 /\ q = 16
      /\ r = 2 => p = 256 /\ q = 64
  <2>1. ShiftedBy(r)
    BY Powers
  <2> QED BY <2>1 DEF ShiftedBy
<1> HIDE DEF val, d, p, q
<1>7. a \in 0..255 /\ b \in 0..255
  BY <1>1, ByteType
<1>8. Append(done(m), a) = done(m + 1)
  BY <1>1, BytesAppend
<1> HIDE DEF a, b, done
<1>9. ASSUME NEW k \in Nat, NEW s \in {0, 2, 4, 6}, (6 * n) \div 8 = k, (6 * n) % 8 = s
      PROVE  Held(text, n) = [out |-> done(k), buffer |-> Byte(text, k) \div 2^(8 - s), bits |-> s]
  <2>1. k = (6 * n) \div 8 /\ s = (6 * n) % 8 /\ n \in Nat
    BY <1>1, <1>9
  <2> QED BY <2>1, HeldIs DEF done
<1>10. Decodes(d, val)
  BY <1>4, <1>5, DecodeCases
<1>11. InSextets(a, b) /\ InSextets(b, a)
  BY <1>7, Sextets
<1>12. 2^10 = 1024 /\ 2^8 = 256 /\ 2^6 = 64 /\ 2^4 = 16 /\ 2^2 = 4
  OBVIOUS
<1>13. /\ (((a \div 4) * 64 + (a % 4) * 16 + b \div 16) \div 16) % 256 = a
       /\ ((a \div 4) * 64 + (a % 4) * 16 + b \div 16) % 16 = b \div 16
       /\ (((a \div 16) * 64 + (a % 16) * 4 + b \div 64) \div 4) % 256 = a
       /\ ((a \div 16) * 64 + (a % 16) * 4 + b \div 64) % 4 = b \div 64
       /\ ((a \div 64) * 64 + (a % 64)) % 256 = a
  BY <1>11 DEF InSextets
<1>14. CASE r = 0
  <2>1. val = a \div 4 /\ d.buffer = 0 /\ d.bits = 0 /\ d.out = done(m)
    <3>1. val = ((256 * a + b) \div 1024) % 64
      BY <1>2, <1>6, <1>14
    <3>2. d.buffer = a \div 256
      BY <1>3, <1>6, <1>14
    <3> QED BY <1>3, <1>7, <1>11, <1>14, <3>1, <3>2 DEF InSextets
  <2>2. decode(d, val) = [out |-> done(m), buffer |-> a \div 4, bits |-> 6]
    <3>1. decode(d, val) = [out |-> d.out, buffer |-> d.buffer * 64 + val, bits |-> 6]
      BY <1>10, <2>1 DEF Decodes
    <3>2. d.buffer * 64 + val = a \div 4
      BY <1>7, <2>1
    <3> QED BY <2>1, <3>1, <3>2
  <2>3. (6 * n) \div 8 = m /\ (6 * n) % 8 = 6 /\ 8 - 6 = 2
    BY <1>1, <1>14
  <2>4. Held(text, n) = [out |-> done(m), buffer |-> a \div 4, bits |-> 6]
    BY <1>1, <1>9, <1>12, <2>3 DEF a
  <2> QED BY <2>2, <2>4
<1>15. CASE r = 6
  <2>1. val = (a % 4) * 16 + b \div 16 /\ d.buffer = a \div 4 /\ d.bits = 6 /\ d.out = done(m)
    <3>1. val = ((256 * a + b) \div 16) % 64
      BY <1>2, <1>6, <1>15
    <3>2. d.buffer = a \div 4
      BY <1>3, <1>6, <1>15
    <3> QED BY <1>3, <1>7, <1>11, <1>15, <3>1, <3>2 DEF InSextets
  <2>2. decode(d, val) = [out |-> done(m + 1), buffer |-> b \div 16, bits |-> 4]
    <3>1. decode(d, val) = [out    |-> Append(d.out, ((d.buffer * 64 + val) \div 16) % 256),
                            buffer |-> (d.buffer * 64 + val) % 16,
                            bits   |-> 4]
      BY <1>10, <2>1 DEF Decodes
    <3>2. t = (a \div 4) * 64 + (a % 4) * 16 + b \div 16
      BY <1>7, <2>1
    <3>3. (t \div 16) % 256 = a /\ t % 16 = b \div 16
      <4> HIDE DEF t
      <4> QED BY <1>13, <3>2
    <3> QED BY <1>8, <2>1, <3>1, <3>3
  <2>3. (6 * n) \div 8 = m + 1 /\ (6 * n) % 8 = 4 /\ 8 - 4 = 4
    BY <1>1, <1>15
  <2>4. Held(text, n) = [out |-> done(m + 1), buffer |-> b \div 16, bits |-> 4]
    BY <1>1, <1>9, <1>12, <2>3 DEF b
  <2> QED BY <2>2, <2>4
<1>16. CASE r = 4
  <2>1. val = (a % 16) * 4 + b \div 64 /\ d.buffer = a \div 16 /\ d.bits = 4 /\ d.out = done(m)
    <3>1. val = ((256 * a + b) \div 64) % 64
      BY <1>2, <1>6, <1>16
    <3>2. d.buffer = a \div 16
      BY <1>3, <1>6, <1>16
    <3> QED BY <1>3, <1>7, <1>11, <1>16, <3>1, <3>2 DEF InSextets
  <2>2. decode(d, val) = [out |-> done(m + 1), buffer |-> b \div 64, bits |-> 2]
    <3>1. decode(d, val) = [out    |-> Append(d.out, ((d.buffer * 64 + val) \div 4) % 256),
                            buffer |-> (d.buffer * 64 + val) % 4,
                            bits   |-> 2]
      BY <1>10, <2>1 DEF Decodes
    <3>2. t = (a \div 16) * 64 + (a % 16) * 4 + b \div 64
      BY <1>7, <2>1
    <3>3. (t \div 4) % 256 = a /\ t % 4 = b \div 64
      <4> HIDE DEF t
      <4> QED BY <1>13, <3>2
    <3> QED BY <1>8, <2>1, <3>1, <3>3
  <2>3. (6 * n) \div 8 = m + 1 /\ (6 * n) % 8 = 2 /\ 8 - 2 = 6
    BY <1>1, <1>16
  <2>4. Held(text, n) = [out |-> done(m + 1), buffer |-> b \div 64, bits |-> 2]
    BY <1>1, <1>9, <1>12, <2>3 DEF b
  <2> QED BY <2>2, <2>4
<1>17. CASE r = 2
  <2>1. val = a % 64 /\ d.buffer = a \div 64 /\ d.bits = 2 /\ d.out = done(m)
    <3>1. val = ((256 * a + b) \div 256) % 64
      BY <1>2, <1>6, <1>17
    <3>2. d.buffer = a \div 64
      BY <1>3, <1>6, <1>17
    <3>3. ((256 * a + b) \div 256) % 64 = a % 64
      BY <1>11 DEF InSextets
    <3> QED BY <1>3, <1>17, <3>1, <3>2, <3>3
  <2>2. decode(d, val) = [out |-> done(m + 1), buffer |-> 0, bits |-> 0]
    <3>1. decode(d, val) = [out |-> Append(d.out, (d.buffer * 64 + val) % 256), buffer |-> 0, bits |-> 0]
      BY <1>10, <2>1 DEF Decodes
    <3>2. t = (a \div 64) * 64 + (a % 64)
      BY <1>7, <2>1
    <3>3. t % 256 = a /\ 0 = 0
      <4> HIDE DEF t
      <4> QED BY <1>13, <3>2
    <3> QED BY <1>8, <2>1, <3>1, <3>3
  <2>3. (6 * n) \div 8 = m + 1 /\ (6 * n) % 8 = 0 /\ 8 - 0 = 8
    BY <1>1, <1>17
  <2>4. Held(text, n) = [out |-> done(m + 1), buffer |-> 0, bits |-> 0]
    <3>1. b \div 256 = 0
      BY <1>11 DEF InSextets
    <3>2. Held(text, n) = [out |-> done(m + 1), buffer |-> b \div 256, bits |-> 0]
      BY <1>1, <1>9, <1>12, <2>3 DEF b
    <3> QED BY <3>1, <3>2
  <2> QED BY <2>2, <2>4
<1> QED BY <1>1, <1>14, <1>15, <1>16, <1>17

\* What goes in as a text comes out as its bytes, whatever its length.
LEMMA RoundTrip ==
  ASSUME NEW text \in Seq(DOMAIN Code)
  PROVE  base64_decode(base64(text)) = [i \in 1..Len(text) |-> Code[text[i]]]
<1> DEFINE L == Len(text)
           N == (8 * L + 5) \div 6
           digits == base64(text)
           good == {n \in 0..N : Decoded(digits)[n] = Held(text, n)}
<1>1. L \in Nat /\ N \in Nat /\ (6 * N) \div 8 = L
  OBVIOUS
<1>2. digits \in Seq(Nat) /\ Len(digits) = N
  BY DigitsType
<1>3. /\ Decoded(digits)[0] = Undecoded
      /\ \A n \in 1..N : Decoded(digits)[n] = decode(Decoded(digits)[n - 1], digits[n])
  <2> HIDE DEF digits
  <2> QED BY <1>2, DecodedRuns
<1>4. 0 \in good
  <2>1. 6 * 0 = 0 /\ 0 \div 8 = 0 /\ 0 % 8 = 0 /\ 8 - 0 = 8 /\ 2^8 = 256
    OBVIOUS
  <2>2. Held(text, 0) = [out    |-> [i \in 1..0 |-> Byte(text, i - 1)],
                         buffer |-> Byte(text, 0) \div 256,
                         bits   |-> 0]
    BY <2>1 DEF Held
  <2>3. Byte(text, 0) \div 256 = 0
    <3> DEFINE x == Byte(text, 0)
    <3>1. x \in 0..255
      BY ByteType
    <3> HIDE DEF x
    <3>2. x \div 256 = 0
      BY <3>1
    <3> QED BY <3>2 DEF x
  <2>4. [i \in 1..0 |-> Byte(text, i - 1)] = <<>>
    OBVIOUS
  <2> QED BY <1>1, <1>3, <2>2, <2>3, <2>4 DEF Undecoded
<1>5. ASSUME NEW n \in 1..N, n - 1 \in good PROVE n \in good
  <2>1. decode(Held(text, n - 1), digits[n]) = Held(text, n)
    BY HeldNext
  <2>2. Decoded(digits)[n] = decode(Decoded(digits)[n - 1], digits[n])
    BY <1>3
  <2>3. Decoded(digits)[n - 1] = Held(text, n - 1) /\ n \in 0..N
    BY <1>5
  <2> QED BY <2>1, <2>2, <2>3
<1>6. 0..N \subseteq good
  <2>1. \A n \in 1..N : n - 1 \in good => n \in good
    BY <1>5
  <2> HIDE DEF good, N
  <2> QED BY <1>1, <1>4, <2>1, IntervalInduction
<1>7. Decoded(digits)[N] = Held(text, N)
  <2>1. N \in 0..N
    BY <1>1
  <2> QED BY <1>6, <2>1
<1>8. base64_decode(digits) = Held(text, N).out
  BY <1>2, <1>7 DEF base64_decode
<1>9. Held(text, N).out = [i \in 1..L |-> Byte(text, i - 1)]
  <2>1. Held(text, N).out = [i \in 1..((6 * N) \div 8) |-> Byte(text, i - 1)]
    BY DEF Held
  <2> HIDE DEF N
  <2> QED BY <1>1, <2>1
<1>10. ASSUME NEW i \in 1..L PROVE Byte(text, i - 1) = Code[text[i]]
  <2>1. i - 1 < Len(text) /\ i - 1 + 1 = i
    OBVIOUS
  <2> QED BY <2>1 DEF Byte
<1> QED BY <1>8, <1>9, <1>10

\* No two words have a byte in common, so the bytes are the text.
LEMMA TextComesBack ==
  ASSUME NEW text \in Seq(DOMAIN Code)
  PROVE  from_utf8(base64_decode(base64(text))) = text
<1> DEFINE bytes == [i \in 1..Len(text) |-> Code[text[i]]]
           named(x) == {w \in DOMAIN Code : Code[w] = x}
<1>1. from_utf8(base64_decode(base64(text))) =
        [i \in DOMAIN bytes |-> IF named(bytes[i]) = {} THEN "?" ELSE CHOOSE w \in named(bytes[i]) : TRUE]
  <2>1. base64_decode(base64(text)) = bytes
    BY RoundTrip
  <2>2. ~ \E i \in DOMAIN bytes : bytes[i] > 127
    <3> SUFFICES ASSUME NEW i \in DOMAIN bytes PROVE ~ (bytes[i] > 127)
      OBVIOUS
    <3>1. Code[text[i]] \in 0..127
      <4>1. text[i] \in DOMAIN Code
        OBVIOUS
      <4> QED BY <4>1, AuthAssumption
    <3>2. bytes[i] = Code[text[i]]
      OBVIOUS
    <3> DEFINE x == bytes[i]
    <3>3. x \in 0..127
      BY <3>1, <3>2
    <3> HIDE DEF x, bytes
    <3>4. ~ (x > 127)
      BY <3>3
    <3> QED BY <3>4 DEF x
  <2> HIDE DEF bytes
  <2> QED BY <2>1, <2>2 DEF from_utf8
<1>2. DOMAIN bytes = 1..Len(text) /\ text = [i \in 1..Len(text) |-> text[i]]
  OBVIOUS
<1>3. ASSUME NEW i \in 1..Len(text)
      PROVE  (IF named(bytes[i]) = {} THEN "?" ELSE CHOOSE w \in named(bytes[i]) : TRUE) = text[i]
  <2>1. text[i] \in DOMAIN Code /\ bytes[i] = Code[text[i]]
    OBVIOUS
  <2>2. named(bytes[i]) = {text[i]}
    BY <2>1, AuthAssumption
  <2> QED BY <2>2
<1> QED BY <1>1, <1>2, <1>3

-----------------------------------------------------------------------------
(* Who logs in. *)

LEMMA CutAtColon ==
  ASSUME NEW S, ":" \in S, NEW n \in Seq(S), NEW s \in Seq(S), Colons(n) = {},
         NEW text, text = n \o <<":">> \o s
  PROVE  Colons(text) # {} /\ NameIn(text) = n /\ SecretIn(text) = s
<1> DEFINE first == Len(n) + 1
<1>1. /\ text \in Seq(S) /\ Len(text) = Len(n) + 1 + Len(s) /\ Len(n) \in Nat /\ Len(s) \in Nat
      /\ \A i \in 1..Len(n) : text[i] = n[i]
      /\ text[first] = ":"
      /\ \A i \in 1..Len(s) : text[first + i] = s[i]
  <2> DEFINE c == <<":">>
             t == n \o c
  <2>1. c \in Seq(S) /\ Len(c) = 1 /\ c[1] = ":"
    OBVIOUS
  <2> HIDE DEF c
  <2>2. /\ t \in Seq(S) /\ Len(t) = Len(n) + 1
        /\ \A i \in 1..Len(n) : t[i] = n[i]
        /\ t[Len(n) + 1] = ":"
    <3>1. /\ t \in Seq(S) /\ Len(t) = Len(n) + Len(c)
          /\ \A i \in 1..Len(n) + Len(c) : t[i] = IF i <= Len(n) THEN n[i] ELSE c[i - Len(n)]
      BY <2>1, ConcatProperties
    <3>2. Len(n) + 1 - Len(n) = 1 /\ Len(n) + 1 \in 1..(Len(n) + 1) /\ ~(Len(n) + 1 <= Len(n))
      OBVIOUS
    <3> HIDE DEF t
    <3>3. t[Len(n) + 1] = c[1]
      BY <2>1, <3>1, <3>2
    <3> QED BY <2>1, <3>1, <3>3
  <2> HIDE DEF t
  <2>3. text = t \o s
    BY DEF t, c
  <2>4. /\ text \in Seq(S) /\ Len(text) = Len(t) + Len(s)
        /\ \A i \in 1..Len(t) + Len(s) : text[i] = IF i <= Len(t) THEN t[i] ELSE s[i - Len(t)]
    BY <2>2, <2>3, ConcatProperties
  <2>5. Len(n) \in Nat /\ Len(s) \in Nat
    OBVIOUS
  <2>6. \A i \in 1..(Len(n) + 1) : text[i] = t[i]
    BY <2>2, <2>4, <2>5
  <2>7. ASSUME NEW i \in 1..Len(s) PROVE text[first + i] = s[i]
    <3>1. first + i \in 1..Len(t) + Len(s) /\ ~(first + i <= Len(t)) /\ first + i - Len(t) = i
      BY <2>2, <2>5
    <3> QED BY <2>4, <3>1
  <2> QED BY <2>2, <2>4, <2>5, <2>6, <2>7
<1>2. first \in Colons(text) /\ \A i \in Colons(text) : first <= i
  <2>1. first \in DOMAIN text
    BY <1>1
  <2>2. ASSUME NEW i \in Colons(text), i < first PROVE FALSE
    <3>1. i \in 1..Len(n) /\ text[i] = ":"
      BY <1>1, <2>2 DEF Colons
    <3>2. i \in Colons(n)
      BY <1>1, <3>1 DEF Colons
    <3> QED BY <3>2
  <2>3. \A i \in Colons(text) : i \in Nat /\ first \in Nat
    BY <1>1 DEF Colons
  <2> QED BY <1>1, <2>1, <2>2, <2>3 DEF Colons
<1>3. Min(Colons(text)) = first
  <2>1. \A i \in Colons(text) : i \in Nat /\ first \in Nat
    BY <1>1 DEF Colons
  <2> HIDE DEF first
  <2>2. \E x \in Colons(text) : \A y \in Colons(text) : x <= y
    BY <1>2
  <2>3. Min(Colons(text)) \in Colons(text) /\ \A y \in Colons(text) : Min(Colons(text)) <= y
    BY <2>2 DEF Min
  <2> QED BY <1>2, <2>1, <2>3
<1>4. NameIn(text) = n
  <2>1. NameIn(text) = SubSeq(text, 1, Len(n))
    <3>1. first - 1 = Len(n)
      BY <1>1
    <3> QED BY <1>3, <3>1 DEF NameIn
  <2>2. /\ SubSeq(text, 1, Len(n)) \in Seq(S) /\ Len(SubSeq(text, 1, Len(n))) = Len(n)
        /\ \A i \in 1..Len(n) : SubSeq(text, 1, Len(n))[i] = text[i]
    BY <1>1
  <2>3. \A i \in 1..Len(n) : SubSeq(text, 1, Len(n))[i] = n[i]
    BY <1>1, <2>2
  <2> QED BY <2>1, <2>2, <2>3, SeqEqual
<1>5. SecretIn(text) = s
  <2> DEFINE u == SubSeq(text, first + 1, Len(text))
  <2>1. SecretIn(text) = u
    BY <1>3 DEF SecretIn
  <2>2. u \in Seq(S) /\ Len(u) = Len(s) /\ \A i \in 1..Len(s) : u[i] = text[first + i]
    BY <1>1
  <2>3. \A i \in 1..Len(s) : u[i] = s[i]
    BY <1>1, <2>2
  <2> HIDE DEF u
  <2> QED BY <2>1, <2>2, <2>3, SeqEqual
<1> QED BY <1>2, <1>4, <1>5

LEMMA CredentialIsText ==
  ASSUME NEW n \in Name, NEW s \in Secret
  PROVE  Credential[n][s] = n \o <<":">> \o s
<1> DEFINE text == n \o <<":">> \o s
<1>1. text \in Seq(DOMAIN Code)
  <2>1. n \in Seq(DOMAIN Code) /\ s \in Seq(DOMAIN Code) /\ <<":">> \in Seq(DOMAIN Code)
    BY AuthAssumption
  <2> QED BY <2>1
<1>2. Credential[n][s] = from_utf8(base64_decode(base64(text)))
  BY Zenon DEF Credential
<1> HIDE DEF text
<1>3. from_utf8(base64_decode(base64(text))) = text
  BY <1>1, TextComesBack
<1> QED BY <1>2, <1>3 DEF text

LEMMA LoginsAreRight ==
  ASSUME TypeOK
  PROVE  EveryUserCanLogIn
<1> SUFFICES ASSUME NEW n \in DOMAIN users, NEW s \in Secret, Colons(n) = {}
             PROVE  validate_basic_auth(users, Credential[n][s])
                      = IF users[n].hash = Hash[s] THEN {users[n].role} ELSE {}
  BY DEF EveryUserCanLogIn
<1> DEFINE text == Credential[n][s]
<1>1. n \in Name
  BY DEF TypeOK, UsersOK
<1>2. text = n \o <<":">> \o s
  BY <1>1, CredentialIsText
<1>3. Colons(text) # {} /\ NameIn(text) = n /\ SecretIn(text) = s
  <2>1. n \in Seq(DOMAIN Code) /\ s \in Seq(DOMAIN Code) /\ ":" \in DOMAIN Code
    BY <1>1, AuthAssumption
  <2> HIDE DEF text
  <2> QED BY <1>2, <2>1, CutAtColon
<1> HIDE DEF text
<1> DEFINE whom == {x \in DOMAIN users : /\ Colons(text) # {}
                                        /\ x = NameIn(text)
                                        /\ SecretIn(text) \in {z \in Secret : Hash[z] = users[x].hash}}
<1>4. validate_basic_auth(users, text) = {users[x].role : x \in whom}
  BY DEF validate_basic_auth
<1>5. whom = IF users[n].hash = Hash[s] THEN {n} ELSE {}
  <2>1. CASE users[n].hash = Hash[s]
    BY <1>3, <2>1
  <2>2. CASE users[n].hash # Hash[s]
    BY <1>3, <2>2
  <2> QED BY <2>1, <2>2
<1>6. validate_basic_auth(users, text) = IF users[n].hash = Hash[s] THEN {users[n].role} ELSE {}
  <2>1. CASE users[n].hash = Hash[s]
    <3>1. whom = {n}
      BY <1>5, <2>1
    <3> HIDE DEF whom
    <3> QED BY <1>4, <2>1, <3>1
  <2>2. CASE users[n].hash # Hash[s]
    <3>1. whom = {}
      BY <1>5, <2>2
    <3> HIDE DEF whom
    <3> QED BY <1>4, <2>2, <3>1
  <2> QED BY <2>1, <2>2
<1> QED BY <1>6 DEF text

\* With any names and passwords, of any length, each user whose name has no
\* colon logs in with that user's password and no other, up to the hash
\* (auth.rs: validate_basic_auth, base64_decode).
THEOREM UsersLogIn ==
  Spec => []EveryUserCanLogIn
<1>1. TypeOK => EveryUserCanLogIn
  BY LoginsAreRight
<1> QED BY <1>1, AuthTypeCorrect, PTL

-----------------------------------------------------------------------------
(* The words of a list of tables. *)

LEMMA Signs ==
  /\ Semicolon \in Word /\ Colon \in Word /\ Comma \in Word /\ Equals \in Word /\ Space \in Word
  /\ Semicolon # Colon /\ Semicolon # Comma /\ Semicolon # Equals /\ Semicolon # Space
  /\ Colon # Comma /\ Colon # Equals /\ Colon # Space
  /\ Comma # Equals /\ Comma # Space /\ Equals # Space
  /\ Plain \subseteq Word
<1>1. Semicolon \in Sign /\ Colon \in Sign /\ Comma \in Sign /\ Equals \in Sign
  BY DEF Sign
<1>2. Sign \subseteq Word /\ Space \in Word /\ Plain \subseteq Word
  BY DEF Word
<1>3. /\ Semicolon # Colon /\ Semicolon # Comma /\ Semicolon # Equals /\ Semicolon # Space
      /\ Colon # Comma /\ Colon # Equals /\ Colon # Space
      /\ Comma # Equals /\ Comma # Space /\ Equals # Space
  BY DEF Semicolon, Colon, Comma, Equals, Space
<1> QED BY <1>1, <1>2, <1>3

LEMMA PlainIs == Semicolon \notin Plain /\ Colon \notin Plain /\ Comma \notin Plain /\ Equals \notin Plain
<1>1. Semicolon \in Sign /\ Colon \in Sign /\ Comma \in Sign /\ Equals \in Sign
  BY DEF Sign
<1> QED BY <1>1 DEF Plain

-----------------------------------------------------------------------------
(* What is read of a list of tables in a text. *)

Blank == {Space}
Asking(t) == [tables |-> t, enabled |-> TRUE, source |-> "clickhouse"]

\* What an entry between two semicolons asks for, and a list of entries.
Entry(e) == parse_table_config(Trim(e, Blank))
Entries(es) == [i \in DOMAIN es |-> Entry(es[i])]
Read(t) == Concat(Entries(Split(t, Semicolon)))

LEMMA SetUpIsRead ==
  ASSUME NEW t \in Seq(Word)
  PROVE  setup_sync_from_env(Asking(t)) = Read(t)
<1> DEFINE es == Split(t, Semicolon)
           entries == tables_from_env(t)
<1>1. t # Unset
  BY ListsAssumption
<1>2. entries = [i \in DOMAIN es |-> Trim(es[i], Blank)]
  BY <1>1 DEF tables_from_env, Blank
<1>3. setup_sync_from_env(Asking(t)) = Concat([i \in DOMAIN entries |-> parse_table_config(entries[i])])
  <2>1. Asking(t).tables = t /\ Asking(t).enabled /\ Asking(t).source = "clickhouse"
    BY DEF Asking
  <2> QED BY <2>1 DEF setup_sync_from_env
<1> HIDE DEF entries, es
<1>4. [i \in DOMAIN entries |-> parse_table_config(entries[i])] = [i \in DOMAIN es |-> Entry(es[i])]
  BY <1>2 DEF Entry
<1> QED BY <1>3, <1>4 DEF Read, Entries, es

\* All that an entry may ask for.
Wanted == {parse_table_config(t)[1] : t \in Seq(Word)}

LEMMA EntryType ==
  ASSUME NEW e \in Seq(Word)
  PROVE  Entry(e) \in Seq(Wanted)
<1> DEFINE t == Trim(e, Blank)
           parts == Split(t, Colon)
           x == [source  |-> parts[1],
                 target  |-> parts[2],
                 columns |-> IF Len(parts) >= 3 THEN Columns(parts[3]) ELSE <<>>]
<1>1. t \in Seq(Word)
  BY TrimLeaves
<1>2. parse_table_config(t) = IF Len(parts) < 2 THEN <<>> ELSE <<x>>
  BY DEF parse_table_config
<1> HIDE DEF t, parts, x
<1>3. CASE Len(parts) < 2
  BY <1>2, <1>3 DEF Entry, t
<1>4. CASE ~ Len(parts) < 2
  <2>1. parse_table_config(t) = <<x>>
    BY <1>2, <1>4
  <2>2. <<x>>[1] = x
    OBVIOUS
  <2>3. x \in Wanted
    BY <1>1, <2>1, <2>2 DEF Wanted
  <2>4. <<x>> \in Seq(Wanted)
    BY <2>3
  <2> QED BY <2>1, <2>4 DEF Entry, t
<1> QED BY <1>3, <1>4

LEMMA EntriesType ==
  ASSUME NEW es \in Seq(Seq(Word))
  PROVE  Entries(es) \in Seq(Seq(Wanted)) /\ Len(Entries(es)) = Len(es)
<1>1. \A i \in 1..Len(es) : Entry(es[i]) \in Seq(Wanted)
  BY EntryType
<1>2. DOMAIN es = 1..Len(es) /\ Len(es) \in Nat
  OBVIOUS
<1> QED BY <1>1, <1>2 DEF Entries

LEMMA ReadPlain ==
  ASSUME NEW t \in Seq(Word \ {Semicolon})
  PROVE  Read(t) = Entry(t)
<1> DEFINE es == Split(t, Semicolon)
           x == Entry(t)
           none == <<>>
<1>1. es = <<t>>
  <2>1. Semicolon \notin Word \ {Semicolon}
    OBVIOUS
  <2> QED BY <2>1, SplitOne
<1>2. x \in Seq(Wanted)
  <2>1. Word \ {Semicolon} \subseteq Word
    OBVIOUS
  <2>2. t \in Seq(Word)
    BY <2>1, SeqWiden
  <2> QED BY <2>2, EntryType
<1>3. Read(t) = Concat(Entries(es))
  BY DEF Read
<1>4. Entries(es) = <<x>>
  <2> DEFINE one == <<t>>
  <2>1. DOMAIN one = 1..1 /\ one[1] = t
    OBVIOUS
  <2>2. es = one
    BY <1>1
  <2> HIDE DEF one, es
  <2>3. [i \in DOMAIN es |-> Entry(es[i])] = [i \in 1..1 |-> x]
    BY <2>1, <2>2
  <2> HIDE DEF x
  <2>4. [i \in 1..1 |-> x] = <<x>>
    OBVIOUS
  <2> QED BY <2>3, <2>4 DEF Entries
<1> HIDE DEF x, es
<1>5. none \in Seq(Seq(Wanted)) /\ Append(none, x) = <<x>>
  BY <1>2
<1>6. Concat(Append(none, x)) = Concat(none) \o x
  <2> HIDE DEF none
  <2> QED BY <1>2, <1>5, ConcatAppend
<1>7. Concat(none) \o x = x
  <2>1. Concat(none) = <<>>
    BY ConcatEmpty
  <2>2. <<>> \o x = x
    BY <1>2, ConcatEmptySeq
  <2> QED BY <2>1, <2>2
<1> QED BY <1>3, <1>4, <1>5, <1>6, <1>7 DEF x

EntriesJoin(ps, qs) == Entries(ps \o qs) = Entries(ps) \o Entries(qs)

LEMMA EntriesBoth ==
  ASSUME NEW ps \in Seq(Seq(Word)), NEW qs \in Seq(Seq(Word))
  PROVE  EntriesJoin(ps, qs)
<1> DEFINE both == ps \o qs
           xs == Entries(ps)
           ys == Entries(qs)
           zs == Entries(both)
           ws == xs \o ys
           m == Len(ps)
           n == Len(qs)
<1>1. /\ both \in Seq(Seq(Word)) /\ Len(both) = m + n /\ m \in Nat /\ n \in Nat
      /\ \A i \in 1..(m + n) : both[i] = IF i <= m THEN ps[i] ELSE qs[i - m]
  BY ConcatProperties
<1>2. DOMAIN ps = 1..m /\ DOMAIN qs = 1..n
  OBVIOUS
<1>3. /\ xs \in Seq(Seq(Wanted)) /\ Len(xs) = m
      /\ ys \in Seq(Seq(Wanted)) /\ Len(ys) = n
  BY EntriesType
<1>4. \A i \in 1..m : xs[i] = Entry(ps[i])
  BY <1>2 DEF Entries
<1>5. \A i \in 1..n : ys[i] = Entry(qs[i])
  BY <1>2 DEF Entries
<1> HIDE DEF both, xs, ys, m, n
<1>6. zs \in Seq(Seq(Wanted)) /\ Len(zs) = m + n /\ DOMAIN both = 1..(m + n)
  BY <1>1, EntriesType
<1>7. \A i \in 1..(m + n) : zs[i] = Entry(both[i])
  BY <1>6 DEF Entries
<1>8. /\ ws \in Seq(Seq(Wanted)) /\ Len(ws) = m + n
      /\ \A i \in 1..(m + n) : ws[i] = IF i <= m THEN xs[i] ELSE ys[i - m]
  BY <1>3, ConcatProperties
<1> HIDE DEF zs, ws
<1>9. ASSUME NEW i \in 1..(m + n) PROVE zs[i] = ws[i]
  <2>1. zs[i] = Entry(both[i])
    BY <1>7
  <2>2. CASE i <= m
    <3>1. i \in 1..m /\ both[i] = ps[i] /\ ws[i] = xs[i]
      BY <1>1, <1>8, <2>2
    <3> QED BY <1>4, <2>1, <3>1
  <2>3. CASE ~ i <= m
    <3>1. both[i] = qs[i - m]
      BY <1>1, <2>3
    <3>2. ws[i] = ys[i - m]
      BY <1>8, <2>3
    <3>3. i - m \in 1..n
      <4>1. m \in Nat /\ n \in Nat
        BY <1>1
      <4> QED BY <2>3, <4>1
    <3> QED BY <1>5, <2>1, <3>1, <3>2, <3>3
  <2> QED BY <2>2, <2>3
<1> DEFINE k == m + n
<1>10. k \in Nat /\ \A i \in 1..k : zs[i] = ws[i]
  BY <1>1, <1>9
<1>11. zs \in Seq(Seq(Wanted)) /\ Len(zs) = k /\ ws \in Seq(Seq(Wanted)) /\ Len(ws) = k
  BY <1>6, <1>8
<1> HIDE DEF k
<1>12. zs = ws
  BY <1>10, <1>11
<1> QED BY <1>12 DEF EntriesJoin, zs, ws, xs, ys, both

ReadsBoth(t, u) == Read(Append(t, Semicolon) \o u) = Read(t) \o Read(u)

LEMMA ReadBoth ==
  ASSUME NEW t \in Seq(Word), NEW u \in Seq(Word)
  PROVE  ReadsBoth(t, u)
<1> DEFINE ps == Split(t, Semicolon)
           qs == Split(u, Semicolon)
<1>1. SplitsBoth(t, u, Semicolon)
  BY Signs, SplitBoth
<1>2. ps \in Seq(Seq(Word)) /\ qs \in Seq(Seq(Word))
  BY SplitType
<1>3. Read(Append(t, Semicolon) \o u) = Concat(Entries(ps \o qs))
  BY <1>1 DEF Read, SplitsBoth
<1> HIDE DEF ps, qs
<1>4. EntriesJoin(ps, qs)
  BY <1>2, EntriesBoth
<1>5. ConcatsBoth(Entries(ps), Entries(qs))
  BY <1>2, EntriesType, ConcatBoth
<1> QED BY <1>3, <1>4, <1>5 DEF EntriesJoin, ConcatsBoth, ReadsBoth, Read, ps, qs

\* A blank behind the last entry is trimmed off it.
LEMMA ReadBlank ==
  ASSUME NEW t \in Seq(Word)
  PROVE  Read(Append(t, Space)) = Read(t)
<1> DEFINE es == Split(t, Semicolon)
           n == Len(es)
           x == Append(es[n], Space)
           fs == [es EXCEPT ![n] = x]
<1>1. Space \in Word /\ Space # Semicolon /\ Space \in Blank
  BY Signs DEF Blank
<1>2. es \in Seq(Seq(Word)) /\ n \in Nat /\ n >= 1
  BY SplitType
<1>3. Split(Append(t, Space), Semicolon) = fs
  <2>1. Split(Append(t, Space), Semicolon) = parted(es, Space, Semicolon)
    BY <1>1, SplitAppend
  <2> HIDE DEF es
  <2> QED BY <1>1, <2>1 DEF parted
<1>4. Read(t) = Concat(Entries(es))
  BY DEF Read
<1>5. Read(Append(t, Space)) = Concat(Entries(fs))
  <2> HIDE DEF fs
  <2> QED BY <1>3 DEF Read
<1> HIDE DEF es
<1>6. DOMAIN fs = DOMAIN es
  OBVIOUS
<1>7. ASSUME NEW i \in DOMAIN es PROVE Entry(fs[i]) = Entry(es[i])
  <2>1. CASE i = n
    <3>1. fs[i] = x /\ es[i] \in Seq(Word)
      BY <1>2, <2>1
    <3>2. Trim(Append(es[i], Space), Blank) = Trim(es[i], Blank)
      BY <1>1, <3>1, TrimAppend
    <3> QED BY <2>1, <3>1, <3>2 DEF Entry
  <2>2. CASE i # n
    <3>1. fs[i] = es[i]
      BY <2>2
    <3> QED BY <3>1
  <2> QED BY <2>1, <2>2
<1> HIDE DEF fs
<1>8. Entries(fs) = Entries(es)
  BY <1>6, <1>7 DEF Entries
<1> QED BY <1>4, <1>5, <1>8

\* An entry without a word asks for nothing.
LEMMA ReadNothing ==
  /\ Entry(<<>>) = <<>> /\ Read(<<>>) = <<>>
  /\ Read(<<Space>>) = <<>>
<1> DEFINE none == <<>>
<1>1. none \in Seq(Word) /\ none \in Seq(Word \ {Semicolon}) /\ \A i \in 1..Len(none) : none[i] \in Blank
  OBVIOUS
<1>2. Trim(none, Blank) = <<>>
  <2> HIDE DEF none
  <2> QED BY <1>1, TrimBlank
<1>3. Entry(none) = <<>>
  <2>1. Split(none, Colon) = <<none>>
    BY SplitEmpty
  <2> HIDE DEF none
  <2>2. Len(Split(none, Colon)) < 2
    BY <2>1
  <2>3. parse_table_config(none) = <<>>
    BY <2>2 DEF parse_table_config
  <2>4. Trim(none, Blank) = none
    BY <1>2 DEF none
  <2> QED BY <2>3, <2>4 DEF Entry
<1> HIDE DEF none
<1>4. Read(none) = <<>>
  BY <1>1, <1>3, ReadPlain
<1>5. Read(Append(none, Space)) = <<>>
  BY <1>1, <1>4, ReadBlank
<1>6. Append(none, Space) = <<Space>>
  BY DEF none
<1> QED BY <1>3, <1>4, <1>5, <1>6 DEF none

\* The separators between tables that are understood.
Separators ==
  {<<Semicolon>>, <<Space, Semicolon, Space>>, <<Semicolon, Semicolon>>, <<Space, Semicolon, Space, Semicolon>>}

LEMMA SeparatorsAre ==
  /\ <<Semicolon>> \in Seq(Word) /\ <<Space>> \in Seq(Word)
  /\ <<Space, Semicolon, Space>> = (<<Space>> \o <<Semicolon>>) \o <<Space>>
  /\ <<Semicolon, Semicolon>> = <<Semicolon>> \o <<Semicolon>>
  /\ <<Space, Semicolon, Space, Semicolon>> = (<<Space>> \o <<Semicolon>>) \o (<<Space>> \o <<Semicolon>>)
<1> DEFINE b == <<Space, Semicolon>>
<1>1. <<Semicolon>> \in Seq(Word) /\ <<Space>> \in Seq(Word)
  BY Signs
<1>2. b = <<Space>> \o <<Semicolon>>
  OBVIOUS
<1>3. <<Space, Semicolon, Space>> = b \o <<Space>>
  OBVIOUS
<1>4. <<Semicolon, Semicolon>> = <<Semicolon>> \o <<Semicolon>>
  OBVIOUS
<1>5. <<Space, Semicolon, Space, Semicolon>> = b \o b
  OBVIOUS
<1> HIDE DEF b
<1> QED BY <1>1, <1>2, <1>3, <1>4, <1>5

\* A list that goes on behind a semicolon or a blank.
LEMMA ReadOn ==
  ASSUME NEW t \in Seq(Word), NEW u \in Seq(Word)
  PROVE  /\ Read(t \o (<<Semicolon>> \o u)) = Read(t) \o Read(u)
         /\ Read(t \o <<Space>>) = Read(t)
         /\ Read(<<Semicolon>> \o u) = Read(u)
<1> DEFINE s == <<Semicolon>>
           o == <<Space>>
           none == <<>>
<1>1. s \in Seq(Word) /\ o \in Seq(Word) /\ none \in Seq(Word)
  BY SeparatorsAre
<1>2. \A r \in Seq(Word) : Append(r, Semicolon) = r \o s /\ Append(r, Space) = r \o o
  BY Signs, AppendIsConcat
<1>3. Read(t \o o) = Read(t)
  BY <1>2, ReadBlank
<1> HIDE DEF s, o, none
<1>4. \A r \in Seq(Word) : Read(r \o (s \o u)) = Read(r) \o Read(u)
  <2> SUFFICES ASSUME NEW r \in Seq(Word) PROVE Read(r \o (s \o u)) = Read(r) \o Read(u)
    OBVIOUS
  <2>1. ReadsBoth(r, u) /\ Regroups(r, s, u)
    BY <1>1, ReadBoth, Regrouped
  <2> QED BY <1>2, <2>1 DEF ReadsBoth, Regroups
<1>5. Read(s \o u) = Read(u)
  <2> DEFINE su == s \o u
  <2>1. su \in Seq(Word) /\ none \o su = su
    <3>1. su \in Seq(Word)
      BY <1>1, ConcatProperties
    <3> HIDE DEF su
    <3> QED BY <3>1, ConcatEmptySeq DEF none
  <2>2. Read(none) = <<>>
    BY ReadNothing DEF none
  <2>3. Read(none \o su) = Read(none) \o Read(u)
    BY <1>1, <1>4
  <2>4. Read(u) \in Seq(Wanted)
    <3>1. Split(u, Semicolon) \in Seq(Seq(Word))
      BY SplitType
    <3>2. Entries(Split(u, Semicolon)) \in Seq(Seq(Wanted))
      BY <3>1, EntriesType
    <3>3. <<>> \in Seq(Wanted)
      OBVIOUS
    <3> QED BY <3>2, <3>3, ConcatAppend DEF Read
  <2>5. <<>> \o Read(u) = Read(u)
    BY <2>4, ConcatEmptySeq
  <2> QED BY <2>1, <2>2, <2>3, <2>5
<1> QED BY <1>3, <1>4, <1>5 DEF s, o

Reads(t, sep, w) == Read((t \o sep) \o w) = Read(t) \o Entry(w)

\* One more table, with any of the separators before it.
LEMMA ReadNext ==
  ASSUME NEW t \in Seq(Word), NEW w \in Seq(Word \ {Semicolon}), NEW sep \in Separators
  PROVE  Reads(t, sep, w)
<1> DEFINE s == <<Semicolon>>
           o == <<Space>>
           os == o \o s
           ow == o \o w
           sw == s \o w
           osw == o \o sw
           tb == t \o o
<1>1. w \in Seq(Word) /\ s \in Seq(Word) /\ o \in Seq(Word) /\ o \in Seq(Word \ {Semicolon})
  <2>1. Word \ {Semicolon} \subseteq Word /\ Space \in Word \ {Semicolon}
    BY Signs
  <2>2. w \in Seq(Word)
    BY <2>1, SeqWiden
  <2> QED BY <2>1, <2>2, SeparatorsAre
<1>2. \A i \in 1..Len(o) : o[i] \in Blank
  BY DEF Blank
<1>3. sep \in {s, os \o o, s \o s, os \o os}
  <2> HIDE DEF os
  <2>1. os = <<Space>> \o <<Semicolon>>
    BY DEF os
  <2>2. <<Space, Semicolon, Space>> = os \o o
    BY <2>1, SeparatorsAre
  <2>3. <<Semicolon, Semicolon>> = s \o s
    BY SeparatorsAre
  <2>4. <<Space, Semicolon, Space, Semicolon>> = os \o os
    BY <2>1, SeparatorsAre
  <2>5. <<Semicolon>> = s
    OBVIOUS
  <2> HIDE DEF s, o
  <2> QED BY <2>2, <2>3, <2>4, <2>5 DEF Separators
<1>4. \A r \in Seq(Word), u \in Seq(Word) :
        /\ Read(r \o (s \o u)) = Read(r) \o Read(u)
        /\ Read(r \o o) = Read(r)
        /\ Read(s \o u) = Read(u)
  BY ReadOn
<1>5. Read(o) = <<>>
  BY ReadNothing
<1> HIDE DEF s, o
<1>6. /\ ow \in Seq(Word) /\ ow \in Seq(Word \ {Semicolon}) /\ os \in Seq(Word) /\ sw \in Seq(Word)
      /\ osw \in Seq(Word) /\ tb \in Seq(Word)
  BY <1>1, ConcatProperties
<1>7. Read(w) = Entry(w) /\ Entry(w) \in Seq(Wanted)
  BY <1>1, ReadPlain, EntryType
<1>8. Read(ow) = Entry(w)
  <2>1. Trim(o \o w, Blank) = Trim(w, Blank)
    BY <1>1, <1>2, TrimBehind
  <2>2. Read(ow) = Entry(ow)
    <3> HIDE DEF ow
    <3> QED BY <1>6, ReadPlain
  <2> QED BY <2>1, <2>2 DEF Entry
<1>9. Read(osw) = Entry(w)
  <2>1. Read(osw) = Read(o) \o Read(w)
    BY <1>1, <1>4
  <2>2. <<>> \o Entry(w) = Entry(w)
    BY <1>7, ConcatEmptySeq
  <2> QED BY <1>5, <1>7, <2>1, <2>2
<1>10. CASE sep = s
  <2>1. Regroups(t, s, w)
    BY <1>1, Regrouped
  <2>2. (t \o s) \o w = t \o (s \o w)
    BY <2>1 DEF Regroups
  <2>3. Read(t \o (s \o w)) = Read(t) \o Read(w)
    BY <1>1, <1>4
  <2> QED BY <1>7, <1>10, <2>2, <2>3 DEF Reads
<1>11. CASE sep = os \o o
  <2> DEFINE oso == os \o o
             sow == s \o ow
  <2>1. oso \in Seq(Word) /\ sow \in Seq(Word)
    <3> HIDE DEF os, ow
    <3> QED BY <1>1, <1>6, ConcatProperties
  <2> HIDE DEF oso, sow, os, ow, tb
  <2>2. Regroups(t, oso, w) /\ Regroups(os, o, w) /\ Regroups(o, s, ow) /\ Regroups(t, o, sow)
    BY <1>1, <1>6, <2>1, Regrouped
  <2>3. oso \o w = os \o ow
    BY <2>2 DEF Regroups, oso, ow
  <2>4. os \o ow = o \o sow
    BY <2>2 DEF Regroups, os, sow
  <2>5. (t \o oso) \o w = tb \o sow
    BY <2>2, <2>3, <2>4 DEF Regroups, tb
  <2>6. Read(tb \o sow) = Read(tb) \o Read(ow) /\ Read(tb) = Read(t)
    <3>1. Read(tb) = Read(t)
      BY <1>1, <1>4 DEF tb
    <3> QED BY <1>4, <1>6, <3>1 DEF sow
  <2>7. sep = oso
    BY <1>11 DEF oso
  <2> QED BY <1>8, <2>5, <2>6, <2>7 DEF Reads
<1>12. CASE sep = s \o s
  <2> DEFINE ss == s \o s
  <2>1. ss \in Seq(Word)
    BY <1>1, ConcatProperties
  <2> HIDE DEF ss, sw
  <2>2. Regroups(t, ss, w) /\ Regroups(s, s, w)
    BY <1>1, <2>1, Regrouped
  <2>3. ss \o w = s \o sw
    BY <2>2 DEF Regroups, ss, sw
  <2>4. (t \o ss) \o w = t \o (s \o sw)
    BY <2>2, <2>3 DEF Regroups
  <2>5. Read(t \o (s \o sw)) = Read(t) \o Read(sw)
    BY <1>4, <1>6
  <2>6. Read(sw) = Read(w)
    BY <1>1, <1>4 DEF sw
  <2>7. sep = ss
    BY <1>12 DEF ss
  <2> QED BY <1>7, <2>4, <2>5, <2>6, <2>7 DEF Reads
<1>13. CASE sep = os \o os
  <2> DEFINE osos == os \o os
             sosw == s \o osw
  <2>1. osos \in Seq(Word) /\ sosw \in Seq(Word)
    <3> HIDE DEF os, osw
    <3> QED BY <1>1, <1>6, ConcatProperties
  <2> HIDE DEF osos, sosw, os, osw, sw, tb
  <2>2. /\ Regroups(t, osos, w) /\ Regroups(os, os, w) /\ Regroups(o, s, w)
        /\ Regroups(o, s, osw) /\ Regroups(t, o, sosw)
    BY <1>1, <1>6, <2>1, Regrouped
  <2>3. os \o w = osw
    BY <2>2 DEF Regroups, os, osw, sw
  <2>4. osos \o w = os \o osw
    BY <2>2, <2>3 DEF Regroups, osos
  <2>5. os \o osw = o \o sosw
    BY <2>2 DEF Regroups, os, sosw
  <2>6. (t \o osos) \o w = tb \o sosw
    BY <2>2, <2>4, <2>5 DEF Regroups, tb
  <2>7. Read(tb \o sosw) = Read(tb) \o Read(osw) /\ Read(tb) = Read(t)
    <3>1. Read(tb) = Read(t)
      BY <1>1, <1>4 DEF tb
    <3> QED BY <1>4, <1>6, <3>1 DEF sosw
  <2>8. sep = osos
    BY <1>13 DEF osos
  <2> QED BY <1>9, <2>6, <2>7, <2>8 DEF Reads
<1> QED BY <1>3, <1>10, <1>11, <1>12, <1>13

-----------------------------------------------------------------------------
(* What a table is written as. *)

Kinds == {"Int", "Float", "Bytes", "String"}

LEMMA KindIsRead ==
  ASSUME NEW k \in Kinds
  PROVE  /\ ColumnType(<<TypeWord(k)>>) = k
         /\ TypeWord(k) \in Word \ (Sign \cup {Space})
<1> DEFINE t == <<TypeWord(k)>>
           named == {l \in DOMAIN TypeNames : \E w \in TypeNames[l] : t = <<w>>}
<1>1. /\ DOMAIN TypeNames = {"Int", "Float", "Bytes"}
      /\ TypeNames["Int"] = {"int", "i64"} /\ TypeNames["Float"] = {"float", "f64"}
      /\ TypeNames["Bytes"] = {"bytes"}
  BY DEF TypeNames
<1>2. \A v, w : <<v>> = <<w>> => v = w
  OBVIOUS
<1>3. ColumnType(t) = IF named # {} THEN CHOOSE l \in named : TRUE ELSE "String"
  BY DEF ColumnType
<1>4. /\ "int" \in Word /\ "float" \in Word /\ "bytes" \in Word /\ "string" \in Word
  BY DEF Word
<1>5. {"int", "float", "bytes", "string"} \cap (Sign \cup {Space}) = {}
  BY DEF Sign, Space, Semicolon, Colon, Comma, Equals
<1>6. CASE k = "Int"
  <2>1. TypeWord(k) = "int"
    BY <1>6 DEF TypeWord
  <2>2. named = {"Int"}
    BY <1>1, <1>2, <2>1
  <2> HIDE DEF named
  <2> QED BY <1>3, <1>4, <1>5, <1>6, <2>1, <2>2
<1>7. CASE k = "Float"
  <2>1. TypeWord(k) = "float"
    BY <1>7 DEF TypeWord
  <2>2. named = {"Float"}
    BY <1>1, <1>2, <2>1
  <2> HIDE DEF named
  <2> QED BY <1>3, <1>4, <1>5, <1>7, <2>1, <2>2
<1>8. CASE k = "Bytes"
  <2>1. TypeWord(k) = "bytes"
    BY <1>8 DEF TypeWord
  <2>2. named = {"Bytes"}
    BY <1>1, <1>2, <2>1
  <2> HIDE DEF named
  <2> QED BY <1>3, <1>4, <1>5, <1>8, <2>1, <2>2
<1>9. CASE k = "String"
  <2>1. TypeWord(k) = "string"
    BY <1>9 DEF TypeWord
  <2>2. named = {}
    BY <1>1, <1>2, <2>1
  <2> HIDE DEF named
  <2> QED BY <1>3, <1>4, <1>5, <1>9, <2>1, <2>2
<1> QED BY <1>6, <1>7, <1>8, <1>9 DEF Kinds

ColumnDef == [name : Seq(Plain), type : Kinds]
ColumnText(c) == c.name \o <<Equals, TypeWord(c.type)>>
TwoParts(c) == <<c.name, <<TypeWord(c.type)>> >>

\* The words that definitions of columns are made of.
InColumns == Word \ {Semicolon, Colon, Comma}

LEMMA ColumnIsWritten ==
  ASSUME NEW c \in ColumnDef
  PROVE  /\ ColumnText(c) \in Seq(InColumns) /\ ColumnText(c) # <<>>
         /\ ColumnText(c)[Len(ColumnText(c))] # Space
         /\ Split(ColumnText(c), Equals) = TwoParts(c)
<1> DEFINE n == c.name
           w == TypeWord(c.type)
           one == <<w>>
           two == <<Equals, w>>
           t == n \o two
<1>1. n \in Seq(Plain) /\ c.type \in Kinds
  BY DEF ColumnDef
<1>2. w \in Word \ (Sign \cup {Space})
  BY <1>1, KindIsRead
<1> HIDE DEF n, w
<1>3. Plain \subseteq InColumns /\ Equals \in InColumns /\ w \in InColumns
  BY <1>2, Signs, PlainIs DEF InColumns, Sign
<1>4. n \in Seq(InColumns)
  BY <1>1, <1>3, SeqWiden
<1>5. two \in Seq(InColumns) /\ one \in Seq(InColumns) /\ Len(two) = 2 /\ two[2] = w
  BY <1>3
<1>6. two = <<Equals>> \o one
  BY Pair
<1>7. t \in Seq(InColumns) /\ t # <<>> /\ t[Len(t)] = w
  <2> HIDE DEF two
  <2>1. EndsMeet(n, two)
    BY <1>4, <1>5, EndsOfBoth
  <2>2. t \in Seq(InColumns)
    BY <1>4, <1>5, ConcatProperties
  <2> QED BY SMTT(30), <1>5, <2>1, <2>2 DEF EndsMeet
<1>8. Split(t, Equals) = <<n, one>>
  <2>1. n \in Seq(InColumns \ {Equals})
    <3>1. Plain \subseteq InColumns \ {Equals}
      BY <1>3, PlainIs
    <3> QED BY <1>1, <3>1, SeqWiden
  <2> HIDE DEF one, two
  <2>2. Split(n \o (<<Equals>> \o one), Equals) = <<n>> \o Split(one, Equals)
    BY <1>3, <1>5, <2>1, SplitFirst
  <2>3. Split(one, Equals) = <<one>>
    <3>1. Equals \notin {w}
      BY <1>2 DEF Sign
    <3>2. one \in Seq({w})
      BY DEF one
    <3> QED BY <3>1, <3>2, SplitOne
  <2> QED BY <1>6, <2>2, <2>3, Pair
<1> QED BY <1>2, <1>7, <1>8 DEF ColumnText, TwoParts, n, w

ColumnTexts(cs) == [i \in DOMAIN cs |-> ColumnText(cs[i])]
Pairs(cs) == [i \in DOMAIN cs |-> TwoParts(cs[i])]
ColumnsText(cs) == Join(ColumnTexts(cs), <<Comma>>)

\* What Columns makes of a text before it drops what has no equals sign.
Parted(t) == LET defs == Split(t, Comma) IN [i \in DOMAIN defs |-> Split(defs[i], Equals)]
Defined(t) == Only(Parted(t), {d \in ToSet(Parted(t)) : Len(d) >= 2})

LEMMA ColumnsAre ==
  ASSUME NEW t, NEW cs \in Seq(ColumnDef), Defined(t) = Pairs(cs)
  PROVE  Columns(t) = cs
<1> DEFINE parts == Defined(t)
<1>1. Columns(t) = [i \in DOMAIN parts |-> [name |-> parts[i][1], type |-> ColumnType(parts[i][2])]]
  BY DEF Columns, Defined, Parted
<1>2. parts = [i \in DOMAIN cs |-> TwoParts(cs[i])]
  BY DEF Pairs
<1> HIDE DEF parts
<1>3. ASSUME NEW i \in DOMAIN cs
      PROVE  [name |-> parts[i][1], type |-> ColumnType(parts[i][2])] = cs[i]
  <2>1. cs[i] \in ColumnDef
    OBVIOUS
  <2> DEFINE c == cs[i]
  <2>2. c = [name |-> c.name, type |-> c.type] /\ c.type \in Kinds
    BY <2>1 DEF ColumnDef
  <2>3. parts[i] = TwoParts(c)
    BY <1>2
  <2> HIDE DEF c
  <2>4. parts[i][1] = c.name /\ parts[i][2] = <<TypeWord(c.type)>>
    BY <2>3 DEF TwoParts
  <2>5. ColumnType(<<TypeWord(c.type)>>) = c.type
    BY <2>2, KindIsRead
  <2> QED BY <2>2, <2>4, <2>5 DEF c
<1>4. Columns(t) = [i \in DOMAIN cs |-> cs[i]]
  BY <1>1, <1>2, <1>3
<1> QED BY <1>4

LEMMA TextsOfColumns ==
  ASSUME NEW cs \in Seq(ColumnDef)
  PROVE  /\ ColumnTexts(cs) \in Seq(Seq(InColumns)) /\ Len(ColumnTexts(cs)) = Len(cs)
         /\ Pairs(cs) \in Seq(Seq(Seq(Word))) /\ Len(Pairs(cs)) = Len(cs)
         /\ \A i \in 1..Len(cs) : /\ Split(ColumnTexts(cs)[i], Equals) = Pairs(cs)[i]
                                  /\ ColumnTexts(cs)[i] # <<>>
                                  /\ ColumnTexts(cs)[i][Len(ColumnTexts(cs)[i])] # Space
                                  /\ Len(Pairs(cs)[i]) >= 2
<1> DEFINE n == Len(cs)
           ts == ColumnTexts(cs)
           ps == Pairs(cs)
<1>1. n \in Nat /\ DOMAIN cs = 1..n /\ \A i \in 1..n : cs[i] \in ColumnDef
  OBVIOUS
<1>2. ts = [i \in 1..n |-> ColumnText(cs[i])] /\ ps = [i \in 1..n |-> TwoParts(cs[i])]
  BY <1>1 DEF ColumnTexts, Pairs
<1> HIDE DEF n, ts, ps
<1>3. ASSUME NEW i \in 1..n
      PROVE  /\ ts[i] = ColumnText(cs[i]) /\ ps[i] = TwoParts(cs[i])
             /\ ts[i] \in Seq(InColumns) /\ ts[i] # <<>> /\ ts[i][Len(ts[i])] # Space
             /\ Split(ts[i], Equals) = ps[i] /\ Len(ps[i]) >= 2 /\ ps[i] \in Seq(Seq(Word))
  <2>1. cs[i] \in ColumnDef
    BY <1>1
  <2> DEFINE c == cs[i]
  <2>2. /\ ColumnText(c) \in Seq(InColumns) /\ ColumnText(c) # <<>>
        /\ ColumnText(c)[Len(ColumnText(c))] # Space
        /\ Split(ColumnText(c), Equals) = TwoParts(c)
    BY <2>1, ColumnIsWritten
  <2>3. ts[i] = ColumnText(c) /\ ps[i] = TwoParts(c)
    BY <1>2
  <2> HIDE DEF c
  <2>4. Len(TwoParts(c)) >= 2
    BY DEF TwoParts
  <2>5. Split(ColumnText(c), Equals) \in Seq(Seq(Word))
    <3>1. InColumns \subseteq Word
      BY DEF InColumns
    <3>2. ColumnText(c) \in Seq(Word)
      BY <2>2, <3>1, SeqWiden
    <3> QED BY <3>2, SplitType
  <2> QED BY <2>2, <2>3, <2>4, <2>5 DEF c
<1>4. ts \in Seq(Seq(InColumns)) /\ Len(ts) = n
  BY <1>1, <1>2, <1>3
<1>5. ps \in Seq(Seq(Seq(Word))) /\ Len(ps) = n
  <2> DEFINE X == Seq(Seq(Word))
  <2>1. \A i \in 1..n : ps[i] \in X
    BY <1>3
  <2> HIDE DEF X
  <2>2. ps \in Seq(X) /\ Len(ps) = n
    BY <1>1, <1>2, <2>1
  <2> QED BY <2>2 DEF X
<1>6. \A i \in 1..n : /\ Split(ts[i], Equals) = ps[i]
                      /\ ts[i] # <<>>
                      /\ ts[i][Len(ts[i])] # Space
                      /\ Len(ps[i]) >= 2
  BY <1>3
<1> QED BY <1>4, <1>5, <1>6 DEF n, ts, ps

\* Definitions that are all whole are all kept.
LEMMA WholeAreKept ==
  ASSUME NEW cs \in Seq(ColumnDef), NEW V, \A i \in 1..Len(cs) : Pairs(cs)[i] \in V
  PROVE  Only(Pairs(cs), V) = Pairs(cs) /\ Pairs(cs) \in Seq(V)
<1> DEFINE ps == Pairs(cs)
<1>1. ps \in Seq(Seq(Seq(Word))) /\ Len(ps) = Len(cs)
  BY TextsOfColumns
<1> HIDE DEF ps
<1> DEFINE X == Seq(Seq(Word))
<1>2. ps \in Seq(X) /\ \A i \in 1..Len(ps) : ps[i] \in V
  BY <1>1 DEF ps
<1> HIDE DEF X
<1>3. ps \in Seq(V)
  BY <1>2
<1> QED BY <1>3, OnlyAll DEF ps

\* The columns are read as they are written, and a definition that was cut off
\* behind them, before its equals sign, is dropped.
LEMMA ColumnsAreRead ==
  ASSUME NEW cs \in Seq(ColumnDef), cs # <<>>
  PROVE  /\ ColumnsText(cs) \in Seq(InColumns \cup {Comma})
         /\ Columns(ColumnsText(cs)) = cs
<1> DEFINE ts == ColumnTexts(cs)
           ps == Pairs(cs)
           t == ColumnsText(cs)
           n == Len(cs)
<1>1. /\ n \in Nat /\ n >= 1 /\ ts \in Seq(Seq(InColumns)) /\ Len(ts) = n
      /\ Len(ps) = n
      /\ \A i \in 1..n : Split(ts[i], Equals) = ps[i] /\ Len(ps[i]) >= 2
  <2>1. n \in Nat /\ n >= 1
    OBVIOUS
  <2> QED BY <2>1, TextsOfColumns
<1>2. Comma \notin InColumns /\ ts # <<>>
  BY <1>1 DEF InColumns
<1>3. Split(t, Comma) = ts /\ t \in Seq(InColumns \cup {Comma})
  <2> HIDE DEF ts
  <2> QED BY <1>1, <1>2, SplitJoin DEF ColumnsText, ts
<1>4. ps = [i \in 1..n |-> ps[i]] /\ DOMAIN ps = 1..n
  BY DEF Pairs
<1> HIDE DEF t, n, ts, ps
<1>5. Parted(t) = ps
  <2>1. DOMAIN ts = 1..n
    BY <1>1
  <2>2. Parted(t) = [i \in 1..n |-> Split(ts[i], Equals)]
    BY <1>3, <2>1 DEF Parted
  <2> QED BY <1>1, <1>4, <2>2
<1>6. Columns(t) = cs
  <2> DEFINE V == {d \in ToSet(ps) : Len(d) >= 2}
  <2>1. \A i \in 1..n : ps[i] \in V
    <3>1. \A i \in 1..n : i \in DOMAIN ps /\ Len(ps[i]) >= 2
      BY <1>1, <1>4
    <3> QED BY <3>1, Among
  <2> HIDE DEF V
  <2>2. Only(ps, V) = ps
    BY <2>1, WholeAreKept DEF n, ps
  <2>3. Defined(t) = Only(ps, V)
    BY <1>5 DEF Defined, V
  <2> QED BY <2>2, <2>3, ColumnsAre DEF ps
<1> QED BY <1>3, <1>6 DEF t

SyncTable == [source : TableName, target : TableName, columns : Seq(ColumnDef)]

LEMMA NameIs ==
  ASSUME NEW n \in TableName
  PROVE  n \in Seq(Plain) /\ n # <<>> /\ n[1] # Space /\ n[Len(n)] # Space
<1>1. n \in Seq(Plain) /\ n # <<>> /\ Head(n) # Space /\ Last(n) # Space
  BY DEF TableName
<1>2. Head(n) = n[1] /\ Last(n) = n[Len(n)]
  BY <1>1 DEF Last
<1> QED BY <1>1, <1>2

\* What is read of an entry, by its parts.
LEMMA EntryParts ==
  ASSUME NEW t, NEW parts, parts = Split(t, Colon), Len(parts) \in Nat, Len(parts) >= 2
  PROVE  parse_table_config(t) =
           <<[source |-> parts[1], target |-> parts[2],
              columns |-> IF Len(parts) >= 3 THEN Columns(parts[3]) ELSE <<>>]>>
<1>1. ~ Len(parts) < 2
  OBVIOUS
<1> QED BY <1>1 DEF parse_table_config

LEMMA Three ==
  ASSUME NEW S, NEW a \in S, NEW b \in S, NEW c \in S, NEW r \in Seq(S)
  PROVE  /\ Len(<<a>> \o (<<b>> \o (<<c>> \o r))) \in Nat
         /\ Len(<<a>> \o (<<b>> \o (<<c>> \o r))) >= 3
         /\ (<<a>> \o (<<b>> \o (<<c>> \o r)))[1] = a
         /\ (<<a>> \o (<<b>> \o (<<c>> \o r)))[2] = b
         /\ (<<a>> \o (<<b>> \o (<<c>> \o r)))[3] = c
<1> DEFINE p == <<c>> \o r
           q == <<b>> \o p
           s == <<a>> \o q
<1>1. p \in Seq(S) /\ Len(p) = 1 + Len(r) /\ p[1] = c /\ Len(r) \in Nat
  OBVIOUS
<1> HIDE DEF p
<1>2. q \in Seq(S) /\ Len(q) = 1 + Len(p) /\ q[1] = b /\ q[2] = p[1]
  BY <1>1
<1> HIDE DEF q
<1>3. s \in Seq(S) /\ Len(s) = 1 + Len(q) /\ s[1] = a /\ s[2] = q[1] /\ s[3] = q[2]
  BY <1>1, <1>2
<1> HIDE DEF s
<1>4. Len(s) \in Nat /\ Len(s) >= 3 /\ s[1] = a /\ s[2] = b /\ s[3] = c
  BY <1>1, <1>2, <1>3
<1> QED BY <1>4 DEF p, q, s

LEMMA WordSets ==
  /\ Plain \subseteq Word \ {Colon} /\ Plain \subseteq Word \ {Semicolon} /\ Plain \subseteq Word
  /\ InColumns \cup {Comma} \subseteq Word \ {Colon} /\ InColumns \cup {Comma} \subseteq Word \ {Semicolon}
  /\ InColumns \cup {Comma} \subseteq Word
  /\ <<Colon>> \in Seq(Word) /\ <<Comma>> \in Seq(Word)
  /\ <<Colon>> \in Seq(Word \ {Semicolon}) /\ <<Comma>> \in Seq(Word \ {Semicolon})
  /\ <<Comma>> \in Seq(Word \ {Colon})
  /\ Word \ {Semicolon} \subseteq Word
<1>1. /\ Plain \subseteq Word \ {Colon} /\ Plain \subseteq Word \ {Semicolon} /\ Plain \subseteq Word
  BY Signs, PlainIs
<1>2. /\ InColumns \cup {Comma} \subseteq Word \ {Colon} /\ InColumns \cup {Comma} \subseteq Word \ {Semicolon}
      /\ InColumns \cup {Comma} \subseteq Word
  BY Signs DEF InColumns
<1>3. Colon \in Word \ {Semicolon} /\ Comma \in Word \ {Semicolon} /\ Comma \in Word \ {Colon}
  BY Signs
<1>4. <<Colon>> \in Seq(Word) /\ <<Colon>> \in Seq(Word \ {Semicolon})
  BY <1>3
<1>5. <<Comma>> \in Seq(Word) /\ <<Comma>> \in Seq(Word \ {Semicolon}) /\ <<Comma>> \in Seq(Word \ {Colon})
  BY <1>3
<1> QED BY <1>1, <1>2, <1>4, <1>5

\* Two names and what stands behind them.
Spelled(n, m, r) == n \o (<<Colon>> \o (m \o r))

LEMMA SpelledIs ==
  ASSUME NEW n \in Seq(Plain), NEW m \in Seq(Plain)
  PROVE  /\ parse_table_config(n \o (<<Colon>> \o m)) = <<[source |-> n, target |-> m, columns |-> <<>>]>>
         /\ \A k \in Seq(Word \ {Colon}) :
              parse_table_config(Spelled(n, m, <<Colon>> \o k)) =
                <<[source |-> n, target |-> m, columns |-> Columns(k)]>>
<1> DEFINE c == <<Colon>>
           P == Seq(Word \ {Colon})
<1>1. n \in P /\ m \in P /\ Colon \in Word
  BY WordSets, SeqWiden, Signs
<1>2. \A t \in P : t \in Seq(Word)
  <2>1. Word \ {Colon} \subseteq Word
    OBVIOUS
  <2> QED BY <2>1, SeqWiden
<1>3. \A t \in P : Split(t, Colon) = <<t>>
  <2>1. Colon \notin Word \ {Colon}
    OBVIOUS
  <2> QED BY <2>1, SplitOne
<1>4. \A t \in P, u \in Seq(Word) : Split(t \o (c \o u), Colon) = <<t>> \o Split(u, Colon)
  BY <1>1, SplitFirst
<1>5. \A u \in Seq(Word), t \in P : c \o u \in Seq(Word) /\ t \o (c \o u) \in Seq(Word)
  <2> SUFFICES ASSUME NEW u \in Seq(Word), NEW t \in P PROVE c \o u \in Seq(Word) /\ t \o (c \o u) \in Seq(Word)
    OBVIOUS
  <2> DEFINE cu == c \o u
  <2>1. c \in Seq(Word) /\ t \in Seq(Word)
    BY <1>2, WordSets
  <2>2. cu \in Seq(Word)
    <3> HIDE DEF c
    <3> QED BY <2>1, ConcatProperties
  <2> HIDE DEF cu
  <2>3. t \o cu \in Seq(Word)
    BY <2>1, <2>2, ConcatProperties
  <2> QED BY <2>2, <2>3 DEF cu
<1> HIDE DEF c
<1>6. parse_table_config(n \o (c \o m)) = <<[source |-> n, target |-> m, columns |-> <<>>]>>
  <2> DEFINE t == n \o (c \o m)
             parts == Split(t, Colon)
  <2>1. parts = <<n>> \o <<m>>
    <3>1. m \in Seq(Word)
      BY <1>1, <1>2
    <3> HIDE DEF P
    <3> QED BY <1>1, <1>3, <1>4, <3>1
  <2>2. parts = <<n, m>>
    BY <2>1, Pair
  <2>3. Len(parts) = 2 /\ parts[1] = n /\ parts[2] = m
    <3> HIDE DEF parts, P
    <3> QED BY <2>2
  <2> HIDE DEF parts
  <2>4. parse_table_config(t) =
          <<[source |-> parts[1], target |-> parts[2],
             columns |-> IF Len(parts) >= 3 THEN Columns(parts[3]) ELSE <<>>]>>
    <3> HIDE DEF t
    <3>1. parts = Split(t, Colon)
      BY DEF parts
    <3>2. Len(parts) \in Nat /\ Len(parts) >= 2
      BY <2>3
    <3> QED BY <3>1, <3>2, EntryParts
  <2>5. ~ Len(parts) >= 3
    BY <2>3
  <2> QED BY <2>3, <2>4, <2>5
<1>7. ASSUME NEW k \in P, NEW rest, NEW r \in Seq(Seq(Word)),
             rest \in Seq(Word), Split(rest, Colon) = <<k>> \o r
      PROVE  parse_table_config(Spelled(n, m, c \o rest)) = <<[source |-> n, target |-> m, columns |-> Columns(k)]>>
  <2> DEFINE t2 == m \o (c \o rest)
             t == n \o (c \o t2)
             parts == Split(t, Colon)
  <2>1. t2 \in Seq(Word)
    BY <1>1, <1>5, <1>7
  <2>2. Split(t2, Colon) = <<m>> \o (<<k>> \o r)
    BY <1>1, <1>4, <1>7
  <2> HIDE DEF t2
  <2>3. parts = <<n>> \o (<<m>> \o (<<k>> \o r))
    BY <1>1, <1>4, <2>1, <2>2
  <2>4. n \in Seq(Word) /\ m \in Seq(Word) /\ k \in Seq(Word)
    BY <1>1, <1>2
  <2> HIDE DEF parts
  <2>5. Len(parts) \in Nat /\ Len(parts) >= 3 /\ parts[1] = n /\ parts[2] = m /\ parts[3] = k
    BY <2>3, <2>4, <1>7, Three
  <2>6. parse_table_config(t) =
          <<[source |-> parts[1], target |-> parts[2],
             columns |-> IF Len(parts) >= 3 THEN Columns(parts[3]) ELSE <<>>]>>
    <3> HIDE DEF t
    <3>1. parts = Split(t, Colon)
      BY DEF parts
    <3>2. Len(parts) >= 2
      BY <2>5
    <3> QED BY <2>5, <3>1, <3>2, EntryParts
  <2>7. t = Spelled(n, m, c \o rest)
    BY DEF Spelled, c, t2
  <2> HIDE DEF t
  <2> QED BY <2>5, <2>6, <2>7
<1>8. ASSUME NEW k \in P
      PROVE  parse_table_config(Spelled(n, m, c \o k)) = <<[source |-> n, target |-> m, columns |-> Columns(k)]>>
  <2> DEFINE none == <<>>
  <2>1. none \in Seq(Seq(Word)) /\ <<k>> \in Seq({k})
    OBVIOUS
  <2> HIDE DEF none
  <2>2. Split(k, Colon) = <<k>> \o none
    <3>1. <<k>> \o none = <<k>>
      BY <2>1, ConcatEmptySeq DEF none
    <3> QED BY <1>3, <1>8, <3>1
  <2> QED BY <1>2, <1>7, <1>8, <2>1, <2>2
<1> QED BY <1>6, <1>8 DEF c

LEMMA JoinEnds ==
  ASSUME NEW S, NEW sep \in Seq(S), NEW ts \in Seq({t \in Seq(S) : t # <<>> /\ t[Len(t)] # Space}), ts # <<>>
  PROVE  Join(ts, sep) \in Seq(S) /\ Join(ts, sep) # <<>> /\ Join(ts, sep)[Len(Join(ts, sep))] # Space
<1> DEFINE X == {t \in Seq(S) : t # <<>> /\ t[Len(t)] # Space}
           T == {us \in Seq(X) : us # <<>> => Join(us, sep) \in X}
<1>1. <<>> \in T
  OBVIOUS
<1>2. ASSUME NEW us \in Seq(X), NEW x \in X, us \in T PROVE Append(us, x) \in T
  <2>1. us \in Seq(Seq(S)) /\ x \in Seq(S)
    <3>1. X \subseteq Seq(S)
      OBVIOUS
    <3> HIDE DEF X
    <3> QED BY <3>1, SeqWiden
  <2>2. Append(us, x) \in Seq(X)
    <3> HIDE DEF X
    <3> QED BY AppendProperties
  <2>3. Join(Append(us, x), sep) = IF us = <<>> THEN x ELSE Join(us, sep) \o sep \o x
    BY <2>1, JoinAppend
  <2>4. CASE us = <<>>
    <3>1. Join(Append(us, x), sep) = x
      BY <2>3, <2>4
    <3> QED BY <2>2, <3>1
  <2>5. CASE us # <<>>
    <3> DEFINE js == Join(us, sep) \o sep
               j == js \o x
    <3>1. Join(us, sep) \in Seq(S)
      BY <1>2, <2>5
    <3>2. js \in Seq(S)
      BY <3>1, ConcatProperties
    <3> HIDE DEF js
    <3>3. j \in Seq(S) /\ EndsMeet(js, x)
      BY <2>1, <3>2, ConcatProperties, EndsOfBoth
    <3>4. j \in X
      BY <3>3 DEF EndsMeet
    <3>5. Join(Append(us, x), sep) = j
      BY <2>3, <2>5 DEF js
    <3> HIDE DEF j, X
    <3>6. Join(Append(us, x), sep) \in X
      BY <3>4, <3>5
    <3> QED BY <2>2, <3>6
  <2> QED BY <2>4, <2>5
<1>3. \A us \in Seq(X), x \in X : us \in T => Append(us, x) \in T
  BY <1>2
<1>4. Seq(X) \subseteq T
  <2> HIDE DEF X, T
  <2> QED BY <1>1, <1>3, SeqInduction
<1> QED BY <1>4

LEMMA ColumnsTextEnds ==
  ASSUME NEW cs \in Seq(ColumnDef), cs # <<>>
  PROVE  /\ ColumnTexts(cs) # <<>>
         /\ ColumnsText(cs) # <<>> /\ ColumnsText(cs)[Len(ColumnsText(cs))] # Space
<1> DEFINE ts == ColumnTexts(cs)
           X == {t \in Seq(Word) : t # <<>> /\ t[Len(t)] # Space}
           n == Len(cs)
<1>1. /\ n \in Nat /\ n >= 1 /\ Len(ts) = n /\ ts \in Seq(Seq(InColumns))
      /\ \A i \in 1..n : ts[i] # <<>> /\ ts[i][Len(ts[i])] # Space
  <2>1. n \in Nat /\ n >= 1
    OBVIOUS
  <2> QED BY <2>1, TextsOfColumns
<1> HIDE DEF ts, n
<1>2. ASSUME NEW i \in 1..n PROVE ts[i] \in X
  <2>1. ts[i] \in Seq(InColumns)
    BY <1>1
  <2>2. InColumns \subseteq Word
    BY DEF InColumns
  <2>3. ts[i] \in Seq(Word)
    BY <2>1, <2>2, SeqWiden
  <2> QED BY <1>1, <2>3
<1>3. ts # <<>>
  BY <1>1
<1>4. ts \in Seq(X)
  <2> HIDE DEF X
  <2> QED BY <1>1, <1>2
<1>5. <<Comma>> \in Seq(Word)
  BY WordSets
<1>6. Join(ts, <<Comma>>) # <<>> /\ Join(ts, <<Comma>>)[Len(Join(ts, <<Comma>>))] # Space
  BY <1>3, <1>4, <1>5, JoinEnds
<1> QED BY <1>3, <1>6 DEF ColumnsText, ts

LEMMA WrittenIs ==
  ASSUME NEW T \in SyncTable
  PROVE  /\ T.columns = <<>> => Written(T) = T.source \o (<<Colon>> \o T.target)
         /\ T.columns # <<>> =>
              Written(T) = Spelled(T.source, T.target, <<Colon>> \o ColumnsText(T.columns))
         /\ Written(T) \in Seq(Word \ {Semicolon}) /\ Inked(Written(T), Blank)
<1> DEFINE n == T.source
           m == T.target
           cs == T.columns
           c == <<Colon>>
           k == ColumnsText(cs)
           ck == c \o k
           ts == ColumnTexts(cs)
           none == <<>>
           nc == n \o c
           ncm == nc \o m
           D == Word \ {Semicolon}
<1>1. n \in TableName /\ m \in TableName /\ cs \in Seq(ColumnDef)
  BY DEF SyncTable
<1>2. Written(T) = ncm \o (IF ts = <<>> THEN <<>> ELSE ck)
  BY DEF Written, ColumnTexts, ColumnText, ColumnsText
<1> HIDE DEF n, m, cs, k, ts, c
<1>3. n \in Seq(Plain) /\ m \in Seq(Plain) /\ n # <<>> /\ m # <<>> /\ n[1] # Space /\ m[Len(m)] # Space
  BY <1>1, NameIs
<1>4. c \in Seq(D) /\ n \in Seq(D) /\ m \in Seq(D)
  BY <1>3, WordSets, SeqWiden DEF c
<1> HIDE DEF D
<1>5. nc \in Seq(D) /\ ncm \in Seq(D) /\ c \o m \in Seq(D)
  BY <1>4, ConcatProperties
<1>6. ncm = n \o (c \o m)
  <2>1. Regroups(n, c, m)
    BY <1>4, Regrouped
  <2> QED BY <2>1 DEF Regroups
<1>7. CASE cs = <<>>
  <2>1. ts = <<>>
    <3>1. Len(ts) = Len(cs) /\ ts \in Seq(Seq(InColumns))
      BY <1>1, TextsOfColumns DEF ts
    <3> QED BY <1>7, <3>1
  <2>2. Written(T) = ncm
    <3>1. ncm \o <<>> = ncm
      BY <1>5, ConcatEmptySeq
    <3> QED BY <1>2, <2>1, <3>1
  <2> DEFINE cm == c \o m
  <2>3. EndsMeet(n, cm) /\ EndsMeet(c, m)
    BY <1>4, <1>5, EndsOfBoth
  <2>4. cm # <<>> /\ cm[Len(cm)] # Space
    BY <1>3, <2>3 DEF EndsMeet
  <2>5. Written(T) = n \o cm
    BY <1>6, <2>2
  <2> HIDE DEF cm
  <2>6. n \o cm # <<>> /\ (n \o cm)[1] # Space /\ (n \o cm)[Len(n \o cm)] # Space
    BY <1>3, <2>3, <2>4 DEF EndsMeet
  <2>7. Inked(Written(T), Blank)
    BY <2>5, <2>6 DEF Inked, Blank
  <2>8. Written(T) \in Seq(D)
    BY <1>5, <2>2
  <2> QED BY <1>7, <2>5, <2>7, <2>8 DEF n, m, c, cs, D, cm
<1>8. CASE cs # <<>>
  <2> DEFINE mck == m \o ck
             all == c \o mck
  <2>1. ts # <<>> /\ k # <<>> /\ k[Len(k)] # Space
    BY <1>1, <1>8, ColumnsTextEnds DEF ts, k
  <2>2. k \in Seq(D)
    <3>1. none \in Seq(Plain)
      OBVIOUS
    <3> HIDE DEF none
    <3>2. k \in Seq(InColumns \cup {Comma})
      BY <1>1, <1>8, <3>1, ColumnsAreRead DEF k
    <3> QED BY <3>2, WordSets, SeqWiden DEF D
  <2>3. ck \in Seq(D)
    BY <1>4, <2>2, ConcatProperties
  <2> HIDE DEF ck
  <2>4. mck \in Seq(D)
    BY <1>4, <2>3, ConcatProperties
  <2> HIDE DEF mck
  <2>5. all \in Seq(D)
    BY <1>4, <2>4, ConcatProperties
  <2> HIDE DEF all, nc
  <2>6. Written(T) = ncm \o ck
    BY <1>2, <2>1
  <2>7. Written(T) = n \o all
    <3>1. Regroups(nc, m, ck) /\ Regroups(n, c, mck)
      BY <1>4, <1>5, <2>3, <2>4, Regrouped
    <3> QED BY <2>6, <3>1 DEF Regroups, nc, mck, all
  <2>8. EndsMeet(n, all) /\ EndsMeet(c, mck) /\ EndsMeet(m, ck) /\ EndsMeet(c, k)
    BY <1>4, <2>2, <2>3, <2>4, <2>5, EndsOfBoth
  <2>9. ck # <<>> /\ ck[Len(ck)] # Space
    BY <2>1, <2>8 DEF EndsMeet, ck
  <2>10. mck # <<>> /\ mck[Len(mck)] # Space
    BY <2>8, <2>9 DEF EndsMeet, mck
  <2>11. all # <<>> /\ all[Len(all)] # Space
    BY <2>8, <2>10 DEF EndsMeet, all
  <2>12. n \o all # <<>> /\ (n \o all)[1] # Space /\ (n \o all)[Len(n \o all)] # Space
    BY <1>3, <2>8, <2>11 DEF EndsMeet
  <2>13. Inked(Written(T), Blank)
    BY <2>7, <2>12 DEF Inked, Blank
  <2>14. Written(T) \in Seq(D)
    BY <1>4, <2>5, <2>7, ConcatProperties
  <2>16. Written(T) = Spelled(n, m, <<Colon>> \o k)
    BY <2>7 DEF Spelled, all, mck, ck, c
  <2> QED BY <1>8, <2>13, <2>14, <2>16 DEF n, m, cs, D, k
<1> QED BY <1>7, <1>8

\* A table's text asks for the table.
LEMMA TableIsRead ==
  ASSUME NEW T \in SyncTable
  PROVE  parse_table_config(Written(T)) = <<T>>
<1> DEFINE n == T.source
           m == T.target
           cs == T.columns
           c == <<Colon>>
           k == ColumnsText(cs)
           P == Seq(Word \ {Colon})
<1>1. n \in Seq(Plain) /\ m \in Seq(Plain) /\ cs \in Seq(ColumnDef)
  BY NameIs DEF SyncTable
<1>2. T = [source |-> n, target |-> m, columns |-> cs]
  BY DEF SyncTable
<1>3. CASE cs = <<>>
  <2>1. Written(T) = n \o (c \o m)
    BY <1>3, WrittenIs
  <2>2. parse_table_config(n \o (c \o m)) = <<[source |-> n, target |-> m, columns |-> <<>>]>>
    <3> HIDE DEF n, m
    <3> QED BY <1>1, SpelledIs
  <2> HIDE DEF n, m, c
  <2> QED BY <1>2, <1>3, <2>1, <2>2
<1>4. CASE cs # <<>>
  <2>1. Written(T) = Spelled(n, m, c \o k)
    BY <1>4, WrittenIs
  <2> HIDE DEF n, m, cs, c, k
  <2>2. k \in Seq(InColumns \cup {Comma}) /\ Columns(k) = cs
    BY <1>1, <1>4, ColumnsAreRead DEF k
  <2>4. k \in P
    BY <2>2, WordSets, SeqWiden
  <2>5. parse_table_config(Spelled(n, m, c \o k)) = <<[source |-> n, target |-> m, columns |-> Columns(k)]>>
    BY <1>1, <2>4, SpelledIs DEF c
  <2> QED BY <1>2, <2>1, <2>2, <2>5
<1> QED BY <1>3, <1>4

-----------------------------------------------------------------------------
(* What a list of tables is written as. *)

WrittenOut(tables) == [i \in DOMAIN tables |-> Written(tables[i])]

LEMMA WrittenOutAre ==
  ASSUME NEW tables \in Seq(SyncTable)
  PROVE  /\ WrittenOut(tables) \in Seq(Seq(Word \ {Semicolon})) /\ WrittenOut(tables) \in Seq(Seq(Word))
         /\ Len(WrittenOut(tables)) = Len(tables)
         /\ \A i \in 1..Len(tables) : WrittenOut(tables)[i] = Written(tables[i])
<1> DEFINE n == Len(tables)
           D == Word \ {Semicolon}
           ts == WrittenOut(tables)
<1>1. n \in Nat /\ DOMAIN tables = 1..n /\ \A i \in 1..n : tables[i] \in SyncTable
  OBVIOUS
<1>2. ts = [i \in 1..n |-> Written(tables[i])]
  BY <1>1 DEF WrittenOut
<1>3. ASSUME NEW i \in 1..n PROVE Written(tables[i]) \in Seq(D) /\ Written(tables[i]) \in Seq(Word)
  <2>1. tables[i] \in SyncTable
    BY <1>1
  <2>2. Written(tables[i]) \in Seq(D)
    BY <2>1, WrittenIs
  <2>3. D \subseteq Word
    OBVIOUS
  <2> HIDE DEF D
  <2> QED BY <2>2, <2>3, SeqWiden
<1> HIDE DEF n, D, ts
<1>4. ts \in Seq(Seq(D)) /\ ts \in Seq(Seq(Word)) /\ Len(ts) = n
  BY <1>1, <1>2, <1>3
<1> QED BY <1>2, <1>4 DEF n, D, ts

\* With one more table, the list has one more text.
WritingGrows(tables, T) == WrittenOut(Append(tables, T)) = Append(WrittenOut(tables), Written(T))

LEMMA WrittenOutAppend ==
  ASSUME NEW tables \in Seq(SyncTable), NEW T \in SyncTable
  PROVE  WritingGrows(tables, T)
<1> DEFINE n == Len(tables)
           more == Append(tables, T)
           ts == WrittenOut(tables)
           us == WrittenOut(more)
           vs == Append(ts, Written(T))
           X == Seq(Word)
<1>1. more \in Seq(SyncTable) /\ Len(more) = n + 1 /\ more[n + 1] = T /\ \A i \in 1..n : more[i] = tables[i]
  BY AppendProperties
<1>2. n \in Nat
  OBVIOUS
<1>3. ts \in Seq(X) /\ Len(ts) = n /\ \A i \in 1..n : ts[i] = Written(tables[i])
  BY WrittenOutAre
<1> HIDE DEF more, ts, n
<1>4. us \in Seq(X) /\ Len(us) = n + 1 /\ \A i \in 1..(n + 1) : us[i] = Written(more[i])
  BY <1>1, WrittenOutAre
<1>5. Written(T) \in X
  BY WrittenIs, WordSets, SeqWiden
<1> HIDE DEF X
<1>6. vs \in Seq(X) /\ Len(vs) = n + 1 /\ vs[n + 1] = Written(T) /\ \A i \in 1..n : vs[i] = ts[i]
  BY <1>3, <1>5, AppendProperties
<1> HIDE DEF us, vs
<1>7. ASSUME NEW i \in 1..(n + 1) PROVE us[i] = vs[i]
  <2>1. CASE i = n + 1
    BY <1>1, <1>4, <1>6, <2>1
  <2>2. CASE i # n + 1
    <3>1. i \in 1..n
      BY <1>2, <2>2
    <3> QED BY <1>1, <1>3, <1>4, <1>6, <3>1
  <2> QED BY <2>1, <2>2
<1> DEFINE l == n + 1
<1>8. l \in Nat /\ Len(us) = l /\ Len(vs) = l /\ \A i \in 1..l : us[i] = vs[i]
  BY <1>2, <1>4, <1>6, <1>7
<1> HIDE DEF l
<1>9. us = vs
  BY <1>4, <1>6, <1>8
<1> QED BY <1>9 DEF WritingGrows, us, vs, more, ts

LEMMA SyncTablesAre ==
  ASSUME NEW tables \in TableLists
  PROVE  tables \in Seq(SyncTable)
BY ListsAssumption DEF SyncTable, ColumnDef, Kinds

LEMMA ListIsRead ==
  ASSUME NEW tables \in Seq(SyncTable), NEW sep \in Separators
  PROVE  Join(WrittenOut(tables), sep) \in Seq(Word) /\ Read(Join(WrittenOut(tables), sep)) = tables
<1> DEFINE J(ts) == Join(WrittenOut(ts), sep)
           X == {ts \in Seq(SyncTable) : J(ts) \in Seq(Word) /\ Read(J(ts)) = ts}
<1>1. sep \in Seq(Word)
  <2>1. Space \in Word /\ Semicolon \in Word
    BY Signs
  <2>2. /\ <<Semicolon>> \in Seq(Word) /\ <<Space, Semicolon, Space>> \in Seq(Word)
        /\ <<Semicolon, Semicolon>> \in Seq(Word) /\ <<Space, Semicolon, Space, Semicolon>> \in Seq(Word)
    BY <2>1
  <2> QED BY <2>2 DEF Separators
<1>2. <<>> \in X
  <2> DEFINE none == <<>>
  <2>1. WrittenOut(none) = none
    BY DEF WrittenOut
  <2>2. Join(none, sep) = none
    BY <1>1, JoinEmpty
  <2>3. Read(none) = none
    BY ReadNothing
  <2>4. none \in Seq(Word) /\ none \in Seq(SyncTable)
    OBVIOUS
  <2> HIDE DEF none
  <2>5. none \in X
    BY <2>1, <2>2, <2>3, <2>4
  <2> QED BY <2>5 DEF none
<1>3. ASSUME NEW ts \in Seq(SyncTable), NEW T \in SyncTable, ts \in X PROVE Append(ts, T) \in X
  <2> DEFINE w == Written(T)
             xs == WrittenOut(ts)
             more == Append(ts, T)
  <2>1. w \in Seq(Word \ {Semicolon}) /\ Inked(w, Blank) /\ parse_table_config(w) = <<T>>
    BY WrittenIs, TableIsRead
  <2>2. w \in Seq(Word)
    BY <2>1, WordSets, SeqWiden
  <2>3. xs \in Seq(Seq(Word)) /\ Len(xs) = Len(ts)
    BY WrittenOutAre
  <2>4. WrittenOut(more) = Append(xs, w)
    BY WrittenOutAppend DEF WritingGrows
  <2>5. more \in Seq(SyncTable) /\ more = ts \o <<T>>
    BY AppendProperties, AppendIsConcat
  <2> HIDE DEF w, xs, more
  <2>6. J(more) = IF xs = <<>> THEN w ELSE Join(xs, sep) \o sep \o w
    BY ZenonT(30), <1>1, <2>2, <2>3, <2>4, JoinAppend
  <2>7. Entry(w) = <<T>>
    <3>1. Trim(w, Blank) = w
      BY <2>1, TrimInked
    <3> QED BY <2>1, <3>1 DEF Entry
  <2>8. CASE xs = <<>>
    <3>1. J(more) = w
      BY <2>6, <2>8
    <3>2. Read(w) = <<T>>
      BY <2>1, <2>7, ReadPlain
    <3>3. ts = <<>>
      BY <2>3, <2>8
    <3>4. more = <<T>>
      BY <3>3 DEF more
    <3>5. more \in X
      <4> HIDE DEF J
      <4> QED BY <2>2, <2>5, <3>1, <3>2, <3>4
    <3> QED BY <3>5 DEF more
  <2>9. CASE xs # <<>>
    <3> DEFINE j == Join(xs, sep)
    <3>1. j \in Seq(Word) /\ Read(j) = ts
      BY <1>3 DEF xs
    <3> HIDE DEF j
    <3>2. J(more) = (j \o sep) \o w
      BY <2>6, <2>9 DEF j
    <3>3. Reads(j, sep, w)
      BY <2>1, <3>1, ReadNext
    <3>4. Read(J(more)) = more
      BY <2>5, <2>7, <3>1, <3>2, <3>3 DEF Reads
    <3>5. j \o sep \in Seq(Word)
      BY <1>1, <3>1, ConcatProperties
    <3>6. (j \o sep) \o w \in Seq(Word)
      <4> DEFINE js == j \o sep
      <4> HIDE DEF js
      <4>1. js \in Seq(Word)
        BY <3>5 DEF js
      <4>2. js \o w \in Seq(Word)
        BY <2>2, <4>1, ConcatProperties
      <4> QED BY <4>2 DEF js
    <3> HIDE DEF J
    <3>7. more \in X
      BY <2>5, <3>2, <3>4, <3>6
    <3> QED BY <3>7 DEF more
  <2> QED BY <2>8, <2>9
<1>4. \A ts \in Seq(SyncTable), T \in SyncTable : ts \in X => Append(ts, T) \in X
  BY <1>3
<1>5. Seq(SyncTable) \subseteq X
  <2> HIDE DEF X
  <2> QED BY <1>2, <1>4, SeqInduction
<1> QED BY <1>5

LEMMA AskedIs ==
  ASSUME NEW tables, NEW sep
  PROVE  Asked(tables, sep) = Asking(Join(WrittenOut(tables), sep))
BY DEF Asked, Asking, WrittenOut

\* Lists of tables of any length, with names and columns of any, are read as
\* they were meant when semicolons separate them (SyncSourceConfig::from_env,
\* parse_table_config).
THEOREM ListsRead == ListsAreRead
<1>1. ASSUME NEW tables \in TableLists, NEW sep \in Separators
      PROVE  setup_sync_from_env(Asked(tables, sep)) = tables
  <2> DEFINE t == Join(WrittenOut(tables), sep)
  <2>1. t \in Seq(Word) /\ Read(t) = tables
    BY SyncTablesAre, ListIsRead
  <2>2. Asked(tables, sep) = Asking(t)
    BY AskedIs
  <2> HIDE DEF t
  <2> QED BY <2>1, <2>2, SetUpIsRead
<1> QED BY <1>1 DEF ListsAreRead, Separators

\* Before the first request, the sync manager has the tables that were meant,
\* and so ever after: there is nothing in it but what was read at the start
\* (http.rs: setup_sync_from_env).
THEOREM SyncTablesAreRead == Spec => []TablesAreRead
<1>1. TablesAreRead
  BY ListsRead DEF TablesAreRead
<1> QED BY <1>1, PTL
=============================================================================
