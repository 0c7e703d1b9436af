----------------------------- MODULE ColorWriter -----------------------------
(***************************************************************************)
(* The writer between the text handler of slog and standard error.  The    *)
(* handler hands over one whole line per call, under its mutex, and drops  *)
(* the error a call returns.  With colours the writer queues the line,     *)
(* writes what is queued line by line, and keeps a line that its target    *)
(* did not take whole, for the next call; without colours the handler      *)
(* writes to the target itself.                                            *)
(***************************************************************************)
EXTENDS LineColors

CONSTANTS
  Outputs,  \* the terminals and environments that NewLogger may find
  Records,  \* Records[n]: the records that the nth call may log
  Cuts      \* how much of a line a failing target takes before it fails

(* A key is one symbol; values are any texts. *)
ASSUME ColorWriterAssumption ==
  /\ Outputs \subseteq Environments
  /\ Len(Records) \in Nat
  /\ \A n \in 1 .. Len(Records) : \A record \in Records[n] :
       /\ record \in Seq([key : STRING, value : Seq(STRING)])
       /\ \A i \in DOMAIN record : record[i].key \notin {Space, Equals, Quote, Newline}

VARIABLES
  env,      \* the terminal and the environment that NewLogger sees
  logged,   \* the lines handed to Write so far, in order (history)
  pending,  \* keyValueColorWriter.pending: a sequence of lines
  stream,   \* what the target got: [n: which line, text, whole]
  writing,  \* whether a call of Write is under way
  result,   \* what the last call returned: "nil" or "error"
  failures  \* how many calls in a row returned an error (history)

vars == <<env, logged, pending, stream, writing, result, failures>>

colorize == ShouldColorizeOutput(env)

Out(line) == IF colorize THEN ColorizeSlogTextLine(line) ELSE line

Init ==
  /\ env \in Outputs
  /\ logged = <<>> /\ pending = <<>> /\ stream = <<>>
  /\ writing = FALSE
  /\ result = "nil"
  /\ failures = 0

(* The handler calls Write with the text of one record. *)
Write(record) ==
  /\ ~writing
  /\ writing' = TRUE
  /\ logged' = Append(logged, Rendered(record))
  /\ pending' = Append(pending, Rendered(record))
  /\ UNCHANGED <<env, stream, result, failures>>

(* The line in hand: the oldest one still queued. *)
Current == Len(logged) - Len(pending) + 1

TargetTakesLine ==
  /\ writing /\ pending # <<>>
  /\ stream' = Append(stream, [n |-> Current, text |-> Out(Head(pending)), whole |-> TRUE])
  /\ pending' = Tail(pending)
  /\ UNCHANGED <<env, logged, writing, result, failures>>

MutantTargetFails(taken) ==
  /\ writing /\ pending # <<>>
  /\ taken < Len(Out(Head(pending)))
  /\ stream' = Append(stream, [n |-> Current, whole |-> FALSE,
                               text |-> SubSeq(Out(Head(pending)), 1, taken)])
  /\ pending' = Tail(pending)
  /\ writing' = FALSE
  /\ result' = "error"
  /\ failures' = failures + 1
  /\ UNCHANGED <<env, logged>>

MutantTargetFailsSilently(taken) ==
  /\ writing /\ pending # <<>>
  /\ taken < Len(Out(Head(pending)))
  /\ stream' = Append(stream, [n |-> Current, whole |-> FALSE,
                               text |-> SubSeq(Out(Head(pending)), 1, taken)])
  /\ pending' = IF colorize THEN pending ELSE <<>>
  /\ writing' = FALSE
  /\ result' = "nil"
  /\ failures' = 0
  /\ UNCHANGED <<env, logged>>

(* The target takes the first symbols of the line and fails: Write returns *)
(* the error, or io.ErrShortWrite, with the line still queued.  An os.File *)
(* reports an error only when it has not taken everything.                 *)
TargetFails(taken) ==
  /\ writing /\ pending # <<>>
  /\ taken < Len(Out(Head(pending)))
  /\ stream' = Append(stream, [n |-> Current, whole |-> FALSE,
                               text |-> SubSeq(Out(Head(pending)), 1, taken)])
  /\ pending' = IF colorize THEN pending ELSE <<>>
  /\ writing' = FALSE
  /\ result' = "error"
  /\ failures' = failures + 1
  /\ UNCHANGED <<env, logged>>

WriteReturns ==
  /\ writing
  /\ pending = <<>>
  /\ writing' = FALSE
  /\ result' = "nil"
  /\ failures' = 0
  /\ UNCHANGED <<env, logged, pending, stream>>

Next ==
  \/ /\ Len(logged) < Len(Records)
     /\ \E record \in Records[Len(logged) + 1] : Write(record)
  \/ TargetTakesLine
  \/ \E taken \in Cuts : TargetFails(taken)
  \/ WriteReturns

Spec == Init /\ [][Next]_vars

-----------------------------------------------------------------------------
(* Through errors and short writes the coloured log loses no line, repeats *)
(* no line and keeps their order: the target gets each line in turn, after *)
(* the beginnings of that line that earlier calls left there, and what it  *)
(* has not got whole is queued (keyValueColorWriter.Write).                *)
LineAfter(chunk) == IF chunk.whole THEN chunk.n + 1 ELSE chunk.n
Due == IF stream = <<>> THEN 1 ELSE LineAfter(Last(stream))

NothingLost ==
  colorize =>
    /\ \A i \in DOMAIN stream :
         stream[i].n = IF i = 1 THEN 1 ELSE LineAfter(stream[i - 1])
    /\ pending = SubSeq(logged, Due, Len(logged))

(* With colours, a nil from Write says that the log is complete: the       *)
(* target has got every line so far, those included whose own calls had    *)
(* reported an error.                                                      *)
NilMeansComplete ==
  colorize /\ ~writing /\ result = "nil"
    => \A n \in DOMAIN logged :
         \E i \in DOMAIN stream : stream[i].n = n /\ stream[i].whole

(* The queue holds no more than the calls that have failed in a row, and   *)
(* the line in hand: one call that succeeds empties it.  Nothing else      *)
(* bounds it, and the process keeps the log of a dead terminal in memory.  *)
BacklogIsFailures ==
  Len(pending) =< failures + (IF writing THEN 1 ELSE 0)

(* What a reader of a record should see, attribute by attribute and        *)
(* without looking at the text again: the key and the = in the one colour, *)
(* the value in that of its attribute, whatever quotes, blanks, equals     *)
(* signs or backslashes are in it, and everything else as it is.           *)
ExpectedValue(attr) ==
  LET text == RenderedValue(attr.value)
      level == CASE attr.value = <<"DEBUG">> -> Base01
                 [] attr.value = <<"INFO">> -> Blue
                 [] attr.value = <<"WARN">> -> BoldYellow
                 [] attr.value = <<"ERROR">> -> BoldRed
                 [] OTHER -> Violet
  IN  CASE attr.key = "name" -> Wrap(text, Yellow)
        [] attr.key = "result" ->
             Wrap(text, IF attr.value \in {<<"success">>, <<"SUCCESS">>} THEN Green ELSE Red)
        [] attr.key = "level" -> Wrap(text, level)
        [] OTHER -> text

ExpectedAttribute(attr) ==
  IF attr.key \in KeyWords
  THEN Wrap(<<attr.key>>, Base1) \o Wrap(<<Equals>>, Base1) \o ExpectedValue(attr)
  ELSE <<attr.key, Equals>> \o RenderedValue(attr.value)

Expected(record) == Joined([i \in 1..Len(record) |-> ExpectedAttribute(record[i])])

(* Every line that arrives whole is one of the records that were logged,   *)
(* coloured per attribute if the terminal and the environment want colours *)
(* and without one escape code if they do not: NO_COLOR and CLICOLOR=0     *)
(* come before CLICOLOR_FORCE, and a file or a dumb terminal gets none.    *)
WantsColors ==
  LET forbidden == env.noColor = "1" \/ env.clicolor = "0"
      forced == env.clicolorForce = "1"
      capable == env.isTTY /\ env.term = "xterm"
  IN  ~forbidden /\ (forced \/ capable)

LinesReadAsLogged ==
  \A i \in DOMAIN stream :
    stream[i].whole =>
      \E record \in Records[stream[i].n] :
        /\ logged[stream[i].n] = Rendered(record)
        /\ stream[i].text = IF WantsColors THEN Expected(record) ELSE Rendered(record)
=============================================================================
