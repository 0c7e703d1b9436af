----------------------------- MODULE LineColors -----------------------------
(***************************************************************************)
(* How eddie colours a line of its log: package logging splits the text    *)
(* that slog has formatted into key=value tokens again and puts escape     *)
(* codes around the keys and some of the values.  A text is a sequence of  *)
(* symbols: a word counts as one, and so does an escape code.              *)
(***************************************************************************)
EXTENDS Naturals, SequencesExt

Space == " "
Equals == "="
Quote == "\""
Backslash == "\\"
Newline == "\n"

(* Words that isKeyChar accepts in every character; "/" is not one. *)
KeyWords == {"time", "level", "name", "result", "msg", "INFO", "WARN", "ERROR",
             "success", "SUCCESS", "a", "n"}

Base1 == "<base1>"
Base01 == "<base01>"
Blue == "<blue>"
Green == "<green>"
Yellow == "<yellow>"
BoldYellow == "<bold yellow>"
Red == "<red>"
BoldRed == "<bold red>"
Violet == "<violet>"
Reset == "<reset>"
Codes == {Base1, Base01, Blue, Green, Yellow, BoldYellow, Red, BoldRed, Violet, Reset}

-----------------------------------------------------------------------------
(* The text handler of slog, which produces the line. *)

NeedsQuoting(value) ==
  value = <<>> \/ \E s \in {Space, Equals, Quote, Newline} : Contains(value, s)

Escape(value) ==
  LET Escaped(s) == CASE s \in {Quote, Backslash} -> <<Backslash, s>>
                      [] s = Newline -> <<Backslash, "n">>
                      [] OTHER -> <<s>>
  IN  FlattenSeq([i \in 1..Len(value) |-> Escaped(value[i])])

RenderedValue(value) ==
  IF NeedsQuoting(value) THEN <<Quote>> \o Escape(value) \o <<Quote>> ELSE value

Joined(texts) ==
  FoldLeft(LAMBDA line, text : IF line = <<>> THEN text ELSE line \o <<Space>> \o text,
           <<>>, texts) \o <<Newline>>

(* A record is a sequence of attributes [key, value], the key one word. *)
Rendered(record) ==
  Joined([i \in 1..Len(record) |->
            <<record[i].key, Equals>> \o RenderedValue(record[i].value)])

-----------------------------------------------------------------------------
Wrap(text, code) == <<code>> \o text \o <<Reset>>

TrimQuotes(value) ==
  LET kept == {i \in DOMAIN value : value[i] # Quote}
  IN  IF kept = {} THEN <<>> ELSE SubSeq(value, Min(kept), Max(kept))

(* strings.ToUpper on the values that the switch asks about. *)
ToUpper(value) == IF value = <<"success">> THEN <<"SUCCESS">> ELSE value

ColorizeValueForKey(key, value) ==
  LET bare == ToUpper(TrimQuotes(value))
  IN  CASE key = <<"level">> ->
             Wrap(value, CASE bare = <<"DEBUG">> -> Base01
                           [] bare = <<"INFO">> -> Blue
                           [] bare = <<"WARN">> -> BoldYellow
                           [] bare = <<"ERROR">> -> BoldRed
                           [] OTHER -> Violet)
        [] key = <<"result">> -> Wrap(value, IF bare = <<"SUCCESS">> THEN Green ELSE Red)
        [] key = <<"name">> -> Wrap(value, Yellow)
        [] OTHER -> value

IsKeyToken(token) == token # <<>> /\ ToSet(token) \subseteq KeyWords

ColorizeToken(token) ==
  IF ~Contains(token, Equals) THEN token
  ELSE LET eq == SelectInSeq(token, LAMBDA s : s = Equals)
           key == SubSeq(token, 1, eq - 1)
           value == SubSeq(token, eq + 1, Len(token))
       IN  IF IsKeyToken(key)
           THEN Wrap(key, Base1) \o Wrap(<<Equals>>, Base1) \o ColorizeValueForKey(key, value)
           ELSE token

MutantScan(scan, s) ==
  IF s \in {Space, Newline} /\ ~scan.inQuote
  THEN [scan EXCEPT !.out = @ \o ColorizeToken(scan.token) \o <<s>>, !.token = <<>>]
  ELSE [scan EXCEPT !.token = Append(@, s),
                    !.inQuote = IF s = Quote THEN ~@ ELSE @]

(* One symbol of a line: a blank outside quotes ends the token. *)
Scan(scan, s) ==
  IF s \in {Space, Newline} /\ ~scan.inQuote
  THEN [scan EXCEPT !.out = @ \o ColorizeToken(scan.token) \o <<s>>, !.token = <<>>]
  ELSE [scan EXCEPT
         !.token = Append(@, s),
         !.escaped = scan.inQuote /\ s = Backslash /\ ~scan.escaped,
         !.inQuote = IF scan.inQuote THEN scan.escaped \/ s # Quote ELSE s = Quote]

ColorizeSlogTextLine(line) ==
  LET end == FoldLeft(Scan, [out |-> <<>>, token |-> <<>>, inQuote |-> FALSE,
                             escaped |-> FALSE], line)
  IN  end.out \o ColorizeToken(end.token)

-----------------------------------------------------------------------------
(* What NewLogger may find out about its output. *)
Environments ==
  [isTTY : BOOLEAN, term : {"", "dumb", "xterm"}, noColor : {"", "1"},
   clicolor : {"", "0", "1"}, clicolorForce : {"", "0", "1"}]

MutantShouldColorizeOutput(env) ==
  \/ env.clicolorForce \notin {"", "0"}
  \/ /\ env.noColor = ""
     /\ env.clicolor # "0"
     /\ env.isTTY /\ env.term \notin {"", "dumb"}

ShouldColorizeOutput(env) ==
  /\ env.noColor = ""
  /\ env.clicolor # "0"
  /\ \/ env.clicolorForce \notin {"", "0"}
     \/ env.isTTY /\ env.term \notin {"", "dumb"}
=============================================================================
