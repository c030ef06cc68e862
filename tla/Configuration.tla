--------------------------- MODULE Configuration ---------------------------
(***************************************************************************)
(* What the environment variables mean (config.rs, and setup_sync_from_env  *)
(* with parse_table_config in http.rs): the level at which requests need    *)
(* authentication, and the tables to sync, which come as one text           *)
(*     source:target:col=type,col=type;source:target:...                    *)
(* A text is a sequence of words and of the separators below.  Case is left *)
(* out: the code lowers it before it compares.                              *)
(***************************************************************************)
EXTENDS Integers, Texts

CONSTANTS Unset,        \* the variable is not in the environment
          TableLists    \* lists of tables someone may want synced

Semicolon == ";"
Colon == ":"
Comma == ","
Equals == "="
Sign == {Semicolon, Colon, Comma, Equals}
Space == "SP"

\* Names are made of words and blanks, with a word at each end of a table's.
Plain == STRING \ Sign
TableName == {t \in Seq(Plain) : t # <<>> /\ Head(t) # Space /\ Last(t) # Space}

\* What a list of tables is written in.
Word == Plain \cup Sign \cup {Space, "int", "float", "bytes", "string"}

ASSUME ListsAssumption ==
  /\ Unset \notin Seq(Word)
  /\ TableLists \subseteq Seq([source : TableName, target : TableName,
                               columns : Seq([name : Seq(Plain), type : {"Int", "Float", "Bytes", "String"}])])

-----------------------------------------------------------------------------
(* QUICKSET_AUTH_LEVEL, and QUICKSET_AUTH from before there were levels. *)

LevelNames == [none  |-> {"none", "off", "false", "0"},
               write |-> {"write", "writes"},
               read  |-> {"read", "reads"},
               all   |-> {"all", "full", "true", "1"}]

AuthLevel == DOMAIN LevelNames

\* A level nobody knows counts as none given.
auth_level(env) ==
  LET named == {l \in AuthLevel : env.auth_level \in LevelNames[l]} IN
  IF named # {} THEN CHOOSE l \in named : TRUE
  ELSE IF env.auth \in {"1", "true"} THEN "all" ELSE "none"

auth_enabled(level) == level # "none"

\* The levels at which requests of a kind need authentication.
RequiresAuth == [health |-> {"all"}, read |-> {"read", "all"}, write |-> {"write", "read", "all"}]

-----------------------------------------------------------------------------
(* QUICKSET_SYNC_TABLES. *)

TypeNames == [Int |-> {"int", "i64"}, Float |-> {"float", "f64"}, Bytes |-> {"bytes"}]

\* All other words are strings, known or not.
ColumnType(t) ==
  LET named == {k \in DOMAIN TypeNames : \E w \in TypeNames[k] : t = <<w>>} IN
  IF named # {} THEN CHOOSE k \in named : TRUE ELSE "String"

\* Definitions without an equals sign are dropped.
Columns(t) ==
  LET defs  == Split(t, Comma)
      split == [i \in DOMAIN defs |-> Split(defs[i], Equals)]
      parts == Only(split, {d \in ToSet(split) : Len(d) >= 2})
  IN [i \in DOMAIN parts |-> [name |-> parts[i][1], type |-> ColumnType(parts[i][2])]]

\* No table, or one, in a sequence.
parse_table_config(t) ==
  LET parts == Split(t, Colon) IN
  IF Len(parts) < 2 THEN <<>>
  ELSE <<[source  |-> parts[1],
          target  |-> parts[2],
          columns |-> IF Len(parts) >= 3 THEN Columns(parts[3]) ELSE <<>>]>>

\* Fault: tables are cut at the comma that separates columns.
tables_from_env_comma(t) ==
  LET entries == Split(t, Comma) IN [i \in DOMAIN entries |-> Trim(entries[i], {Space})]

tables_from_env(t) ==
  IF t = Unset THEN <<>>
  ELSE LET entries == Split(t, Semicolon) IN [i \in DOMAIN entries |-> Trim(entries[i], {Space})]

\* The tables of the sync manager that is made and started, none when no
\* manager is.
setup_sync_from_env(env) ==
  LET entries == tables_from_env(env.tables) IN
  IF env.enabled /\ env.source = "clickhouse"
  THEN Concat([i \in DOMAIN entries |-> parse_table_config(entries[i])])
  ELSE <<>>

-----------------------------------------------------------------------------
(* The text that asks for tables. *)

TypeWord(type) ==
  CASE type = "Int" -> "int" [] type = "Float" -> "float"
    [] type = "Bytes" -> "bytes" [] OTHER -> "string"

Written(table) ==
  LET Column(c) == c.name \o <<Equals, TypeWord(c.type)>>
      columns   == [i \in DOMAIN table.columns |-> Column(table.columns[i])]
  IN table.source \o <<Colon>> \o table.target
       \o (IF columns = <<>> THEN <<>> ELSE <<Colon>> \o Join(columns, <<Comma>>))

Asked(tables, sep) ==
  [tables |-> Join([i \in DOMAIN tables |-> Written(tables[i])], sep),
   enabled |-> TRUE, source |-> "clickhouse"]

\* Every list of tables that is written with semicolons, be there blanks
\* around them or entries without a word between, is synced as it was meant,
\* in its order (config.rs, http.rs: SyncSourceConfig::from_env,
\* parse_table_config).
ListsAreRead ==
  \A tables \in TableLists :
    \A sep \in {<<Semicolon>>, <<Space, Semicolon, Space>>, <<Semicolon, Semicolon>>,
               <<Space, Semicolon, Space, Semicolon>>} :
      setup_sync_from_env(Asked(tables, sep)) = tables
=============================================================================
