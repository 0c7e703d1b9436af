-------------------------- MODULE MailDeliveryProofs --------------------------
(***************************************************************************)
(* What holds of the mails of one notice for any list of recipients, any   *)
(* way of securing the connection and any behaviour of the SMTP server:    *)
(* nil means accepted, at most one watcher waits, and only the deadline    *)
(* keeps a recipient from being tried.                                     *)
(***************************************************************************)
EXTENDS MailDelivery, MailRecipients, SequenceTheorems, TLAPS

Merging == INSTANCE SequenceFolds WITH op <- AppendUnique

(* A sequence that opens without a QUIT and goes on with the delivery.     *)
Deliver == <<"auth", "mail", "rcpt", "data", "write", "commit", "quit">>

Openers == {"handshake", "greeting", "starttls"}
Words   == Openers \cup {"auth", "mail", "rcpt", "data", "write", "commit", "quit"}

(* The commands of a delivery: QUIT is the last and commit comes before it.*)
LEMMA DeliverFacts ==
  /\ Deliver \in Seq(Words)
  /\ Len(Deliver) = 7
  /\ \A i \in 1 .. 7 : (Deliver[i] = "quit" <=> i = 7) /\ (i = 6 => Deliver[i] = "commit")
<1>1. Deliver \in Seq(Words) /\ Len(Deliver) = 7
  BY DEF Deliver, Words
<1>2. \A i \in 1 .. 7 : (Deliver[i] = "quit" <=> i = 7) /\ (i = 6 => Deliver[i] = "commit")
  BY DEF Deliver
<1> QED
  BY <1>1, <1>2

(* Of the conversation the proofs need how it ends: the answer to the final*)
(* dot is awaited right before QUIT, and QUIT is the last command.         *)
LEMMA ConversationEnds ==
  /\ Len(Conversation) \in Nat
  /\ Len(Conversation) > 1
  /\ \A i \in 1 .. Len(Conversation) :
       /\ Conversation[i] = "quit" <=> i = Len(Conversation)
       /\ i + 1 = Len(Conversation) => Conversation[i] = "commit"
<1>1. ASSUME NEW secure \in Seq(Words),
             \A i \in 1 .. Len(secure) : secure[i] # "quit",
             Conversation = secure \o Deliver
      PROVE  /\ Len(Conversation) \in Nat
             /\ Len(Conversation) > 1
             /\ \A i \in 1 .. Len(Conversation) :
                  /\ Conversation[i] = "quit" <=> i = Len(Conversation)
                  /\ i + 1 = Len(Conversation) => Conversation[i] = "commit"
  <2> DEFINE n == Len(secure)
  <2>1. /\ Len(Conversation) = n + 7
        /\ \A i \in 1 .. n + 7 : Conversation[i] = IF i <= n THEN secure[i] ELSE Deliver[i - n]
    <3>1. Deliver \in Seq(Words) /\ Len(Deliver) = 7
      BY DeliverFacts
    <3>2. /\ Len(secure \o Deliver) = Len(secure) + Len(Deliver)
          /\ \A i \in 1 .. Len(secure) + Len(Deliver) :
               (secure \o Deliver)[i] = IF i <= Len(secure) THEN secure[i]
                                        ELSE Deliver[i - Len(secure)]
      BY <3>1, ConcatProperties, Zenon
    <3> QED
      BY <1>1, <3>1, <3>2, Zenon
  <2>2. n \in Nat
    BY <1>1
  <2>3. \A i \in 1 .. n : secure[i] # "quit"
    BY <1>1
  <2> HIDE DEF n
  <2>4. ASSUME NEW i \in 1 .. n + 7
        PROVE  /\ Conversation[i] = "quit" <=> i = n + 7
               /\ i + 1 = n + 7 => Conversation[i] = "commit"
    <3>1. CASE i <= n
      <4>1. i \in 1 .. n /\ i # n + 7 /\ i + 1 # n + 7
        BY <2>2, <3>1
      <4>2. Conversation[i] = secure[i]
        BY <2>1, <3>1
      <4> QED
        BY <2>3, <4>1, <4>2
    <3>2. CASE ~ (i <= n)
      <4>1. i - n \in 1 .. 7 /\ (i - n = 7 <=> i = n + 7) /\ (i - n = 6 <=> i + 1 = n + 7)
        BY <2>2, <3>2
      <4>2. Conversation[i] = Deliver[i - n]
        BY <2>1, <3>2
      <4> QED
        BY <4>1, <4>2, DeliverFacts
    <3> QED
      BY <3>1, <3>2
  <2>5. n + 7 \in Nat /\ n + 7 > 1
    BY <2>2
  <2> QED
    BY <2>1, <2>4, <2>5
<1> DEFINE Secure == (IF Mode = "implicit" THEN <<"handshake">> ELSE <<>>)
                       \o <<"greeting">>
                       \o (IF Mode = "starttls" THEN <<"starttls">> ELSE <<>>)
<1>2. Conversation = Secure \o Deliver
  BY DEF Conversation, Deliver
<1>3. Secure \in Seq(Openers)
  <2>1. ASSUME NEW a \in Seq(Openers),
               NEW b \in Seq(Openers),
               NEW c \in Seq(Openers)
        PROVE  a \o b \o c \in Seq(Openers)
    BY <2>1, ConcatProperties
  <2>2. /\ <<"handshake">> \in Seq(Openers)
        /\ <<"greeting">> \in Seq(Openers)
        /\ <<"starttls">> \in Seq(Openers)
        /\ <<>> \in Seq(Openers)
    BY DEF Openers
  <2> QED
    BY <2>1, <2>2
<1> HIDE DEF Secure
<1>4. \A i \in 1 .. Len(Secure) : Secure[i] \in Openers
  BY <1>3, ElementOfSeq
<1>5. \A i \in 1 .. Len(Secure) : Secure[i] # "quit"
  BY <1>4 DEF Openers
<1>6. Secure \in Seq(Words)
  BY <1>3, <1>4 DEF Words
<1> QED
  BY <1>1, <1>2, <1>5, <1>6

-------------------------------------------------------------------------------
(* The inductive invariant.                                                *)

Scalars ==
  /\ pc \in {"loop", "dial", "talk", "unwind", "done"}
  /\ current \in Nat /\ 1 <= current /\ current <= Len(Recipients) + 1
  /\ step \in Nat
  /\ expired \in BOOLEAN
  /\ conn \in {"none", "open", "closed"}

Sets == watchers \subseteq Mails /\ released \subseteq Mails /\ dialed \subseteq Mails

Tables ==
  /\ result \in [Mails -> {"none", "nil", "error"}]
  /\ verdict \in [Mails -> {"unsent", "pending", "accepted", "rejected"}]

(* Where the loop is, and where the conversation.                          *)
Place ==
  /\ pc \in {"dial", "talk", "unwind"} => current \in Mails
  /\ pc = "done" => current = Len(Recipients) + 1
  /\ pc = "talk" => step \in 1 .. Len(Conversation)
  /\ At("quit") => verdict[current] = "accepted"

(* No result is known before its Send returns.                             *)
Ahead ==
  \A m \in Mails :
    m > current \/ (m = current /\ pc # "unwind") => result[m] = "none"

(* A mail the loop has left behind was released; its own connection is     *)
(* watched.                                                                *)
Watched ==
  /\ \A m \in watchers : m < current \/ (m = current /\ pc \in {"talk", "unwind"})
  /\ \A m \in released : m < current
  /\ \A m \in watchers : m < current => m \in released
  /\ conn = "open" /\ pc = "talk" /\ ~expired => current \in watchers

Dialed ==
  ~expired => \A m \in Mails :
    m < current \/ (m = current /\ pc \in {"dial", "talk", "unwind"}) => m \in dialed

MailInv == Scalars /\ Sets /\ Tables /\ Place /\ Ahead /\ Watched /\ Dialed /\ NilMeansAccepted

(* Mails are numbered as their recipients are.                             *)
LEMMA MailsFacts ==
  /\ Len(Recipients) \in Nat
  /\ \A m : m \in Mails <=> m \in Nat /\ 1 <= m /\ m <= Len(Recipients)
  BY MailAssumption DEF Mails

(* A notice starts in the invariant.                                       *)
LEMMA InitMailInv == Init => MailInv
<1> SUFFICES ASSUME Init PROVE MailInv
  OBVIOUS
<1> USE MailsFacts DEF Init
<1>1. Scalars
  <2>1. pc \in {"loop", "dial", "talk", "unwind", "done"} /\ conn \in {"none", "open", "closed"}
    OBVIOUS
  <2>2. /\ current \in Nat /\ 1 <= current /\ current <= Len(Recipients) + 1
        /\ step \in Nat
    OBVIOUS
  <2>3. expired \in BOOLEAN
    OBVIOUS
  <2> QED
    BY <2>1, <2>2, <2>3, Zenon DEF Scalars
<1>2. Sets /\ Tables
  BY DEF Sets, Tables
<1>3. Place
  BY DEF Place, At
<1>4. Ahead /\ NilMeansAccepted
  BY DEF Ahead, NilMeansAccepted
<1>5. Watched
  BY DEF Watched
<1>6. Dialed
  BY DEF Dialed
<1> QED
  BY <1>1, <1>2, <1>3, <1>4, <1>5, <1>6 DEF MailInv

(* Every step of the loop over the recipients keeps it.                    *)
LEMMA NextMailInv == MailInv /\ [Next]_vars => MailInv'
<1> SUFFICES ASSUME MailInv, [Next]_vars PROVE MailInv'
  OBVIOUS
<1> USE MailsFacts DEF MailInv, Scalars, Sets, Tables, Place, Ahead, Watched, Dialed,
                       NilMeansAccepted, At
<1>1. Conversation' = Conversation
  BY DEF Conversation
<1>2. CASE Begin
  BY <1>1, <1>2 DEF Begin
<1>3. CASE Finish
  BY <1>1, <1>3 DEF Finish
<1>4. CASE Connect
  BY <1>1, <1>4, ConversationEnds DEF Connect
<1>5. CASE ConnectFails
  BY <1>1, <1>5 DEF ConnectFails
<1>6. CASE CommandOk
  <2>1. step < Len(Conversation)
    BY <1>6, ConversationEnds DEF CommandOk, Place, At
  <2>2. (Conversation[step + 1] = "quit") => At("commit")
    BY <1>6, <2>1, ConversationEnds DEF CommandOk, Place, At
  <2>3. ~(At("write") /\ At("commit"))
    BY DEF At
  <2> QED
    BY <1>1, <1>6, <2>1, <2>2, <2>3 DEF CommandOk
<1>7. CASE QuitOk
  BY <1>1, <1>7 DEF QuitOk
<1>8. CASE CommandFails
  BY <1>1, <1>8 DEF CommandFails
<1>9. CASE Unwind
  BY <1>1, <1>9 DEF Unwind
<1>10. CASE Expire
  BY <1>1, <1>10 DEF Expire
<1>11. ASSUME NEW m \in Mails, WatcherCloses(m) PROVE MailInv'
  BY <1>1, <1>11 DEF WatcherCloses, CtxDone
<1>12. ASSUME NEW m \in Mails, WatcherReleased(m) PROVE MailInv'
  BY <1>1, <1>12 DEF WatcherReleased
<1>13. ASSUME NEW m \in Mails, ServerDecides(m) PROVE MailInv'
  BY <1>1, <1>13 DEF ServerDecides
<1>14. CASE UNCHANGED vars
  BY <1>1, <1>14 DEF vars
<1> QED
  BY <1>2, <1>3, <1>4, <1>5, <1>6, <1>7, <1>8, <1>9, <1>10, <1>11, <1>12, <1>13, <1>14 DEF Next

-------------------------------------------------------------------------------
(* The theorems.                                                           *)

(* The invariant holds of any mails to anybody.                            *)
THEOREM MailInvariance == Safety => []MailInv
<1> QED
  BY InitMailInv, NextMailInv, PTL DEF Safety

(* Whatever the server does and however many are mailed: Send has returned *)
(* nil only for a message the server has accepted (Send, service.go).      *)
THEOREM NilMeansServerAccepted == Safety => []NilMeansAccepted
<1>1. MailInv => NilMeansAccepted
  BY DEF MailInv
<1> QED
  BY <1>1, MailInvariance, PTL

(* At most one watcher goroutine waits for anything, the one of the Send   *)
(* that is running, and a running Send has one (Send, service.go).         *)
THEOREM OneWatcherWaits == Safety => []WatchersDoNotPileUp
<1>1. MailInv => WatchersDoNotPileUp
  BY MailsFacts DEF MailInv, Scalars, Sets, Watched, WatchersDoNotPileUp
<1> QED
  BY <1>1, MailInvariance, PTL

(* Every recipient is dialed for unless the shared deadline has passed     *)
(* (sendEmailToRecipients, runner.go).                                     *)
THEOREM FailuresDoNotStarve == Safety => []OnlyDeadlineStarves
<1>1. ASSUME MailInv, pc = "done", ~expired PROVE dialed = Mails
  <2>1. \A m \in Mails : m < current
    BY <1>1, MailsFacts DEF MailInv, Place
  <2>2. \A m \in Mails : m \in dialed
    BY <1>1, <2>1 DEF MailInv, Dialed
  <2> QED
    BY <1>1, <2>2 DEF MailInv, Sets
<1>2. MailInv => OnlyDeadlineStarves
  BY <1>1 DEF OnlyDeadlineStarves
<1> QED
  BY <1>2, MailInvariance, PTL
-------------------------------------------------------------------------------
(* Who gets a mail at all.                                                 *)

(* Configured values that name one of the addresses, or none.              *)
Values(Addresses) == [address : Addresses \cup {NoAddress}, padded : BOOLEAN]

Members(list) == {list[i] : i \in 1 .. Len(list)}

Addressed(list) == {TrimSpace(list[i]) : i \in 1 .. Len(list)} \ {NoAddress}

Distinct(list) == \A i, j \in 1 .. Len(list) : list[i] = list[j] => i = j

(* One more value: its address is appended unless it is there already.     *)
LEMMA AppendUniqueStep ==
  ASSUME NEW A, NoAddress \notin A, NEW merged \in Seq(A), Distinct(merged),
         NEW value \in Values(A)
  PROVE  /\ AppendUnique(merged, value) \in Seq(A)
         /\ Distinct(AppendUnique(merged, value))
         /\ Members(AppendUnique(merged, value))
              = Members(merged) \cup ({TrimSpace(value)} \ {NoAddress})
<1> DEFINE a == TrimSpace(value)
           more == Append(merged, a)
<1>1. CASE a = NoAddress \/ Contains(merged, a)
  <2>1. AppendUnique(merged, value) = merged
    BY <1>1 DEF AppendUnique
  <2>2. a = NoAddress \/ a \in Members(merged)
    BY <1>1 DEF Contains, Members
  <2> QED
    BY <2>1, <2>2
<1>2. CASE ~(a = NoAddress \/ Contains(merged, a))
  <2>1. AppendUnique(merged, value) = more
    BY <1>2 DEF AppendUnique
  <2>2. a \in A
    BY <1>2 DEF TrimSpace, Values
  <2>3. \A i \in 1 .. Len(merged) : merged[i] # a
    BY <1>2 DEF Contains
  <2> HIDE DEF a
  <2>4. /\ more \in Seq(A) /\ Len(more) = Len(merged) + 1 /\ more[Len(merged) + 1] = a
        /\ \A i \in 1 .. Len(merged) : more[i] = merged[i]
    BY <2>2, AppendProperties
  <2> HIDE DEF more
  <2>5. /\ Len(merged) \in Nat
        /\ \A i \in 1 .. Len(merged) + 1 : i = Len(merged) + 1 \/ i \in 1 .. Len(merged)
    OBVIOUS
  <2>6. Distinct(more)
    BY <2>3, <2>4, <2>5 DEF Distinct
  <2>7. Members(more) = Members(merged) \cup {a}
    BY <2>4, <2>5 DEF Members
  <2>8. {a} \ {NoAddress} = {a}
    BY <2>2
  <2> QED
    BY <2>1, <2>4, <2>6, <2>7, <2>8 DEF a
<1> QED
  BY <1>1, <1>2

(* Whatever is configured: every address that is named, globally or in the *)
(* spec and with or without blanks around it, is in the merged list, once, *)
(* and nothing else is (mergedMailRecipients, runner.go).                  *)
THEOREM MergedOnceEach ==
  ASSUME NEW A, NoAddress \notin A,
         NEW globals \in Seq(Values(A)), NEW own \in Seq(Values(A))
  PROVE  LET merged == MergedMailRecipients(globals, own)
         IN  /\ merged \in Seq(A)
             /\ Distinct(merged)
             /\ Members(merged) = Addressed(globals) \cup Addressed(own)
<1> DEFINE Merged(list) == Merging!Fold(<<>>, list)
           P == {list \in Seq(Values(A)) :
                   /\ Merged(list) \in Seq(A)
                   /\ Distinct(Merged(list))
                   /\ Members(Merged(list)) = Addressed(list)}
<1>1. <<>> \in P
  <2>1. Merged(<<>>) = <<>>
    BY Merging!FoldEmpty
  <2>2. <<>> \in Seq(Values(A)) /\ <<>> \in Seq(A) /\ Len(<<>>) = 0
    OBVIOUS
  <2>3. Distinct(<<>>) /\ Addressed(<<>>) = {} /\ Members(<<>>) = {}
    BY <2>2 DEF Distinct, Addressed, Members
  <2> HIDE DEF Merged
  <2> QED
    BY <2>1, <2>2, <2>3
<1>2. ASSUME NEW list \in Seq(Values(A)), NEW value \in Values(A), list \in P
      PROVE  Append(list, value) \in P
  <2>1. Merged(Append(list, value)) = AppendUnique(Merged(list), value)
    BY Merging!FoldAppend
  <2> HIDE DEF Merged
  <2>2. Merged(list) \in Seq(A) /\ Distinct(Merged(list))
    BY <1>2
  <2>3. /\ Append(list, value) \in Seq(Values(A))
        /\ Len(Append(list, value)) = Len(list) + 1
        /\ Append(list, value)[Len(list) + 1] = value
        /\ \A i \in 1 .. Len(list) : Append(list, value)[i] = list[i]
    BY AppendProperties
  <2>4. Addressed(Append(list, value)) = Addressed(list) \cup ({TrimSpace(value)} \ {NoAddress})
    <3>1. \A i \in 1 .. Len(list) + 1 : i = Len(list) + 1 \/ i \in 1 .. Len(list)
      OBVIOUS
    <3>2. Len(list) + 1 \in 1 .. Len(list) + 1 /\ \A i \in 1 .. Len(list) : i \in 1 .. Len(list) + 1
      OBVIOUS
    <3> QED
      BY <2>3, <3>1, <3>2 DEF Addressed
  <2>5. /\ Merged(Append(list, value)) \in Seq(A)
        /\ Distinct(Merged(Append(list, value)))
        /\ Members(Merged(Append(list, value)))
             = Members(Merged(list)) \cup ({TrimSpace(value)} \ {NoAddress})
    BY <2>1, <2>2, AppendUniqueStep
  <2> QED
    BY <1>2, <2>3, <2>4, <2>5
<1>3. Seq(Values(A)) \subseteq P
  <2> HIDE DEF P
  <2> QED
    BY <1>1, <1>2, Merging!SeqIsInductive
<1>4. /\ globals \o own \in Seq(Values(A))
      /\ Len(globals \o own) = Len(globals) + Len(own)
      /\ \A i \in 1 .. Len(globals) + Len(own) :
           (globals \o own)[i] = IF i <= Len(globals) THEN globals[i] ELSE own[i - Len(globals)]
  BY ConcatProperties
<1>5. Addressed(globals \o own) = Addressed(globals) \cup Addressed(own)
  <2>1. ASSUME NEW i \in 1 .. Len(globals) + Len(own)
        PROVE  \/ i \in 1 .. Len(globals) /\ (globals \o own)[i] = globals[i]
               \/ i - Len(globals) \in 1 .. Len(own) /\ (globals \o own)[i] = own[i - Len(globals)]
    BY <1>4
  <2>2. ASSUME NEW i \in 1 .. Len(globals)
        PROVE  i \in 1 .. Len(globals) + Len(own) /\ (globals \o own)[i] = globals[i]
    BY <1>4
  <2>3. ASSUME NEW i \in 1 .. Len(own)
        PROVE  /\ i + Len(globals) \in 1 .. Len(globals) + Len(own)
               /\ (globals \o own)[i + Len(globals)] = own[i]
    BY <1>4
  <2>4. Addressed(globals \o own) \subseteq Addressed(globals) \cup Addressed(own)
    BY <1>4, <2>1 DEF Addressed
  <2>5. Addressed(globals) \subseteq Addressed(globals \o own)
    BY <1>4, <2>2 DEF Addressed
  <2>6. Addressed(own) \subseteq Addressed(globals \o own)
    <3> SUFFICES ASSUME NEW i \in 1 .. Len(own), TrimSpace(own[i]) # NoAddress
                 PROVE  TrimSpace(own[i]) \in Addressed(globals \o own)
      BY DEF Addressed
    <3> QED
      BY <1>4, <2>3 DEF Addressed
  <2> QED
    BY <2>4, <2>5, <2>6
<1>6. MergedMailRecipients(globals, own) = Merged(globals \o own)
  BY DEF MergedMailRecipients, Merging!Fold, FoldLeft, Merging!FoldLeft, MapThenFoldSet,
         Merging!MapThenFoldSet, Max, Merging!Max
<1> HIDE DEF Merged
<1> QED
  BY <1>3, <1>4, <1>5, <1>6

(* A notice to whatever is configured mails no address twice, however often*)
(* the global configuration and the spec name it (notify, runner.go).      *)
THEOREM NobodyIsMailedTwice ==
  ASSUME NEW A, NoAddress \notin A,
         NEW globals \in Seq(Values(A)), NEW own \in Seq(Values(A)),
         Recipients = MergedMailRecipients(globals, own)
  PROVE  Safety => []OneMailEach
<1>1. Recipients \in Seq(A) /\ Distinct(Recipients)
  BY MergedOnceEach
<1>2. OneMailEach
  BY <1>1 DEF OneMailEach, Distinct, Mails
<1> QED
  BY <1>2, PTL
===============================================================================
