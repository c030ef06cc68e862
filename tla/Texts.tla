------------------------------- MODULE Texts -------------------------------
(***************************************************************************)
(* What the standard library's str::trim and str::split do to a text, which *)
(* is a sequence of characters, or of words and separators.                 *)
(***************************************************************************)
EXTENDS SequencesExt, FiniteSetsExt, Selections

\* str::trim, where white are the blank characters
Trim(t, white) ==
  LET ink == {i \in DOMAIN t : t[i] \notin white} IN
  IF ink = {} THEN <<>> ELSE SubSeq(t, Min(ink), Max(ink))

\* A separator begins the next part, all else goes on with the last one.
parted(parts, c, sep) ==
  IF c = sep THEN Append(parts, <<>>) ELSE [parts EXCEPT ![Len(parts)] = Append(@, c)]

\* str::split(sep) by the number of characters it has come to.
Parts(t, sep) ==
  LET parts[n \in 0..Len(t)] == IF n = 0 THEN <<(<<>>)>> ELSE parted(parts[n - 1], t[n], sep)
  IN parts

Split(t, sep) == Parts(t, sep)[Len(t)]

\* The texts one after another, with sep between them.
Joined(ts, sep) ==
  LET text[n \in 0..Len(ts)] ==
        IF n = 0 THEN <<>> ELSE IF n = 1 THEN ts[1] ELSE text[n - 1] \o sep \o ts[n]
  IN text

Join(ts, sep) == Joined(ts, sep)[Len(ts)]
Concat(ts) == Join(ts, <<>>)
=============================================================================
