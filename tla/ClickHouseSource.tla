-------------------------- MODULE ClickHouseSource --------------------------
(***************************************************************************)
(* fetch_table (clickhouse.rs): the answer that execute_query has read, as   *)
(* SourceReader has it, parsed into rows as TsvRows has it.                 *)
(***************************************************************************)
EXTENDS SourceReader, TsvRows

\* What the caller gets when the query has succeeded.
fetch_table == parse_response(response)

AnswerWith == [r \in SourceRow |-> Line(r)]

\* Over a connection that holds, with no character torn, the row that the server
\* sends is fetched as it was exactly if its cells survive the text in between,
\* however the answer is framed and cut into chunks (clickhouse.rs: fetch_table,
\* execute_query, parse_response, parse_value); and so it is for each of the rows
\* that a table may hold, whichever answer it is.
RowsComeBack ==
  (result = "ok" /\ ~ cut /\ ~ torn) =>
    /\ \A r \in SourceRow : AnswerWith[r] = body => (fetch_table = Faithful(r) <=> r \in Surviving)
    /\ SurvivorsComeBack
=============================================================================
