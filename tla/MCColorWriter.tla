---------------------------- MODULE MCColorWriter ----------------------------
EXTENDS ColorWriter

(* A terminal, a dumb one, a file, and each of them overruled. *)
Output(isTTY, term, noColor, clicolor, clicolorForce) ==
  [isTTY |-> isTTY, term |-> term, noColor |-> noColor, clicolor |-> clicolor,
   clicolorForce |-> clicolorForce]
MCOutputs == {Output(TRUE, "xterm", "", "", ""), Output(TRUE, "dumb", "", "", "0"),
              Output(TRUE, "xterm", "1", "", "1"), Output(FALSE, "xterm", "", "1", ""),
              Output(FALSE, "", "", "", "1"), Output(FALSE, "", "", "0", "1")}

(* Every awkward value of up to three symbols, followed by an attribute;   *)
(* then lines that queue up behind one that was cut short.                 *)
Values == UNION {[1..k -> {"a", Space, Quote, Backslash}] : k \in 0..3}
Awkward == {<<>>, <<"a">>, <<Equals>>, <<"/", Equals, "a">>, <<"a", Newline, Quote>>,
            <<Quote, Space, "level", Equals, "ERROR">>}

Attr(key, value) == [key |-> key, value |-> value]
AnyValue ==
  {<<Attr("name", value), Attr("msg", <<"a">>)>> : value \in Values}
    \union {<<Attr(key, value), Attr("name", <<"a">>)>> : key \in {"msg", "/"}, value \in Awkward}
Levels == {<<Attr("level", <<value>>), Attr("msg", <<"a", Newline>>)>> :
             value \in {"DEBUG", "INFO", "WARN", "ERROR", "n"}}
Results == {<<Attr("result", <<value>>)>> : value \in {"success", "a"}}

MCRecords == <<AnyValue, Levels, Results>>
MCCuts == {0, 4}
=============================================================================
