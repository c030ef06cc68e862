--------------------------- MODULE MCAuthManager ---------------------------
(***************************************************************************)
(* Two connections, three names, one of them with a colon in it, and the    *)
(* lists of tables that the configuration is read for.                      *)
(***************************************************************************)
EXTENDS AuthManager

Bob    == <<"bob">>
BobX   == <<"bob", ":", "x">>      \* a name that cannot be given in a header
Y      == <<"y">>
XY     == <<"x", ":", "y">>
Wrong  == <<"w">>

MCName   == {AdminName, Bob, BobX}
MCSecret == {AdminName, Y, XY}
\* Bytes with no, few, most and all of the bits of ASCII set.
MCCode   == [w \in {"admin", "bob", "x", "y", ":"} |->
               CASE w = "admin" -> 0 [] w = "bob" -> 65 [] w = "x" -> 127 [] w = "y" -> 121 [] OTHER -> 58]
\* Two passwords of one hash.
MCHash   == [s \in MCSecret |-> IF s = Y THEN 1 ELSE 2]

Login(n, s) == n \o <<":">> \o s
AsAdmin == Login(AdminName, AdminName)
AsBob   == Login(Bob, Y)
AsBobX  == Login(BobX, Y)

\* Requests about users carry a body, all others none.
Ask(route, auth) == [route |-> route, auth |-> auth, body |-> NoBody]
Names(route, auth, n, s, r) ==
  [route |-> route, auth |-> auth, body |-> [name |-> n, secret |-> s, role |-> r]]
MCRequest ==
  {Ask("health", NoText), Ask("query", NoText), Ask("query", AsBob), Ask("write", NoText),
   Ask("write", AsBob), Ask("write", AsBobX), Ask("sync", AsBob), Ask("list_users", NoText),
   Ask("list_users", AsBob)}
  \cup {Names("add_user", auth, Bob, s, r) : auth \in {AsAdmin, AsBob}, s \in {Y}, r \in {"ReadOnly", "Admin"}}
  \cup {Names("add_user", AsAdmin, BobX, Y, "ReadWrite"), Names("add_user", AsAdmin, Bob, Y, NoRole)}
  \cup {Names("remove_user", auth, n, Y, NoRole) : auth \in {AsAdmin, AsBob}, n \in {AdminName, Bob}}
  \cup {Ask("remove_user", AsAdmin), Names("add_user", NoText, Bob, XY, "ReadOnly")}

Started(auth_lvl, auth, user, pass) ==
  [auth_level |-> auth_lvl, auth |-> auth, admin_user |-> user, admin_pass |-> pass]
MCEnvironment == {Started("writes", Unset, AdminName, Y), Started("read", Unset, Bob, Y),
                  Started("?", "true", AdminName, Y),
                  Started(Unset, Unset, Bob, Y)}

ColumnLists ==
  LET column == [name : {<<"a">>, <<"b">>}, type : {"Int", "Float", "Bytes", "String"}]
  IN {<<>>} \cup {<<c>> : c \in column} \cup {<<c, d>> : c \in column, d \in {[name |-> <<"b">>, type |-> "Int"]}}
Tables == [source : {<<"p">>, <<"q">>}, target : {<<"p">>, <<"t", Space, "u">>}, columns : ColumnLists]
\* The README's example.
ReadmeTables ==
  LET Table(name, columns) == [source |-> <<name>>, target |-> <<name>>, columns |-> columns]
      Typed(name, type) == [name |-> <<name>>, type |-> type]
  IN {<<Table("users", <<Typed("id", "Int"), Typed("name", "String"), Typed("email", "String")>>),
        Table("products", <<Typed("id", "Int"), Typed("title", "String"), Typed("price", "Float")>>)>>}
MCTableLists == {<<>>} \cup {<<t>> : t \in Tables} \cup (Tables \X {t \in Tables : Len(t.columns) # 1})
=============================================================================
