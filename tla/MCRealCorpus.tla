---------------------------- MODULE MCRealCorpus ----------------------------
(***************************************************************************)
(* Two sources in a cycle of three slots.  The plain corpora have more     *)
(* fresh rows than are asked for, by the candidate and by its reruns;      *)
(* between them they hold every kind of row, texts shared by two sources   *)
(* and by two splits, and a row that encodes to nothing.                   *)
(***************************************************************************)
EXTENDS RealCorpus, TLC

Row(sp, text, verdict, n) == [split |-> sp, text |-> text, verdict |-> verdict, tokens |-> n]
T(text, n) == Row("train", text, "text", n)
V(text, n) == Row("architecture_validation", text, "text", n)

MCSources == {"edu", "docs"}
MCCycle == <<"edu", "edu", "docs">>

\* "b" and "c" are near-duplicates
MCSimilar == {<<t, t>> : t \in {"a", "b", "c", "d", "e", "f", "g", "h", "i", "j", "k", "m", "n", "o", "p"}}
             \cup {<<"b", "c">>, <<"c", "b">>}

Ample ==
  "edu" :> <<T("a", 2), V("b", 3), T("b", 3), T("a", 1), V("c", 2), T("d", 2), V("e", 4),
             T("f", 3), V("i", 2), V("j", 2), V("n", 4)>>
  @@ "docs" :> <<T("d", 0), T("c", 1), Row("train", "x", "filtered", 1), V("g", 3), T("g", 4),
                 Row("recovery_validation", "h", "text", 2), T("h", 3), V("k", 1), V("m", 2), V("o", 2), V("p", 2)>>

\* the source ends with a row that stops the stream
Ending(verdict) == [Ample EXCEPT !["docs"] = <<T("k", 1), Row("train", "h", verdict, 2)>>]
NoDocs == [Ample EXCEPT !["docs"] = <<>>]

MCCorpora == {Ample, Ending("missing"), Ending("resolved"), NoDocs}

\* Each source holds enough for one pass and no more.
MCExhausted ==
  {"edu" :> <<T("a", 2), T("b", 2), V("e", 4)>> @@ "docs" :> <<T("d", 2), V("g", 4)>>}

=============================================================================
