----------------------------- MODULE MailDelivery -----------------------------
(***************************************************************************)
(* The mails of one notice: sendEmailToRecipients (internal/monitor/       *)
(* runner.go) calls Service.Send (internal/mail/service.go) for one        *)
(* recipient after the other under one deadline of 30 seconds.             *)
(* notifySpecParseFailure (cmd/eddie/main.go) runs the same loop.          *)
(*                                                                         *)
(* The SMTP server answers a command well, badly or never; the deadline    *)
(* passes at any time. Every connection has a watcher goroutine that       *)
(* closes it when the context ends.                                        *)
(***************************************************************************)
EXTENDS Naturals, Sequences, FiniteSets

CONSTANTS Recipients,   \* the recipients of the notice, in order
          Mode          \* "plain" (noTLS), "implicit" (port 465) or "starttls"

ASSUME MailAssumption == /\ Len(Recipients) \in Nat
                         /\ DOMAIN Recipients = 1 .. Len(Recipients)
                         /\ Mode \in {"plain", "implicit", "starttls"}

Mails == DOMAIN Recipients

VARIABLES
  pc,        \* where the sending goroutine is
  current,   \* the recipient it is at
  step,      \* the command of the conversation it is at
  expired,   \* the deadline of sendCtx has passed
  conn,      \* the current connection
  watchers,  \* the mails whose watcher goroutine is running
  released,  \* the mails whose Send has closed its done channel
  dialed,    \* history: the mails for which a connection was tried
  result,    \* history: what Send returned
  verdict    \* the server's side of each message

vars == <<pc, current, step, expired, conn, watchers, released, dialed, result, verdict>>

(* The commands of one Send after the connection is up.                    *)
Conversation ==
     (IF Mode = "implicit" THEN <<"handshake">> ELSE <<>>)
  \o <<"greeting">>
  \o (IF Mode = "starttls" THEN <<"starttls">> ELSE <<>>)
  \o <<"auth", "mail", "rcpt", "data", "write", "commit", "quit">>

At(command) == pc = "talk" /\ Conversation[step] = command

Init ==
  /\ pc = "loop"
  /\ current = 1
  /\ step = 1
  /\ expired = FALSE
  /\ conn = "none"
  /\ watchers = {}
  /\ released = {}
  /\ dialed = {}
  /\ result = [m \in Mails |-> "none"]
  /\ verdict = [m \in Mails |-> "unsent"]

-------------------------------------------------------------------------------
(* The loop over the recipients. An error is logged and the loop goes on.  *)

(* Send finds its context alive and dials, or finds it ended and returns.  *)
Begin ==
  /\ pc = "loop" /\ current <= Len(Recipients)
  /\ IF expired
     THEN /\ result' = [result EXCEPT ![current] = "error"]
          /\ current' = current + 1
          /\ UNCHANGED <<pc, dialed>>
     ELSE /\ pc' = "dial"
          /\ dialed' = dialed \cup {current}
          /\ UNCHANGED <<result, current>>
  /\ UNCHANGED <<step, expired, conn, watchers, released, verdict>>

(* The loop is over; the deferred cancel ends the context.                 *)
Finish ==
  /\ pc = "loop" /\ current > Len(Recipients)
  /\ pc' = "done"
  /\ UNCHANGED <<current, step, expired, conn, watchers, released, dialed, result, verdict>>

-------------------------------------------------------------------------------
(* One Send.                                                               *)

Connect ==
  /\ pc = "dial" /\ ~expired
  /\ pc' = "talk" /\ step' = 1
  /\ conn' = "open"
  /\ watchers' = watchers \cup {current}
  /\ UNCHANGED <<current, expired, released, dialed, result, verdict>>

(* DialContext fails: nothing to clean up.                                 *)
ConnectFails ==
  /\ pc = "dial"
  /\ result' = [result EXCEPT ![current] = "error"]
  /\ current' = current + 1
  /\ pc' = "loop"
  /\ UNCHANGED <<step, expired, conn, watchers, released, dialed, verdict>>

(* The connection still carries data: no deadline, no watcher has hit it.  *)
Alive == conn = "open" /\ ~expired

(* Without waiting for the answer to the final dot.                        *)
MutantCommandOk ==
  /\ pc = "talk" /\ Alive /\ ~At("quit")
  /\ step' = step + 1
  /\ verdict' = IF At("write") THEN [verdict EXCEPT ![current] = "pending"] ELSE verdict
  /\ UNCHANGED <<pc, current, expired, conn, watchers, released, dialed, result>>

(* The server answers a command and the conversation moves on. Writing the *)
(* message stands for its last flush too, which writer.Close does; the     *)
(* answer to the final dot is an acceptance of the message.                *)
CommandOk ==
  /\ pc = "talk" /\ Alive /\ ~At("quit")
  /\ At("commit") => verdict[current] = "accepted"
  /\ step' = step + 1
  /\ verdict' = IF At("write") THEN [verdict EXCEPT ![current] = "pending"] ELSE verdict
  /\ UNCHANGED <<pc, current, expired, conn, watchers, released, dialed, result>>

(* QUIT is answered: Send returns nil.                                     *)
QuitOk ==
  /\ At("quit") /\ Alive
  /\ result' = [result EXCEPT ![current] = "nil"]
  /\ pc' = "unwind"
  /\ UNCHANGED <<current, step, expired, conn, watchers, released, dialed, verdict>>

(* The server refuses, the connection breaks or the deadline passes; a     *)
(* message that was accepted is an error too if the answer to it, or to    *)
(* the QUIT after it, does not arrive.                                     *)
CommandFails ==
  /\ pc = "talk"
  /\ result' = [result EXCEPT ![current] = "error"]
  /\ pc' = "unwind"
  /\ UNCHANGED <<current, step, expired, conn, watchers, released, dialed, verdict>>

(* Without close(done).                                                    *)
MutantUnwindKeepsDone ==
  /\ pc = "unwind"
  /\ conn' = "none"
  /\ current' = current + 1
  /\ pc' = "loop"
  /\ UNCHANGED <<step, expired, watchers, released, dialed, result, verdict>>

(* A loop that returns at the first error.                                 *)
MutantUnwindStops ==
  /\ pc = "unwind"
  /\ conn' = "none"
  /\ released' = released \cup {current}
  /\ current' = current + 1
  /\ pc' = IF result[current] = "error" THEN "done" ELSE "loop"
  /\ UNCHANGED <<step, expired, watchers, dialed, result, verdict>>

(* The deferred calls: writer.Close, which reads one more answer if the    *)
(* message was begun, client.Close, close(done) and conn.Close.            *)
Unwind ==
  /\ pc = "unwind"
  /\ conn' = "none"
  /\ released' = released \cup {current}
  /\ current' = current + 1
  /\ pc' = "loop"
  /\ UNCHANGED <<step, expired, watchers, dialed, result, verdict>>

-------------------------------------------------------------------------------
(* The watcher goroutines, the clock and the server.                       *)

CtxDone == expired \/ pc = "done"

(* select: the context has ended. conn.Close is harmless when Send is over.*)
WatcherCloses(m) ==
  /\ m \in watchers /\ CtxDone
  /\ watchers' = watchers \ {m}
  /\ conn' = IF m = current /\ conn = "open" THEN "closed" ELSE conn
  /\ UNCHANGED <<pc, current, step, expired, released, dialed, result, verdict>>

(* select: Send has returned.                                              *)
WatcherReleased(m) ==
  /\ m \in watchers /\ m \in released
  /\ watchers' = watchers \ {m}
  /\ UNCHANGED <<pc, current, step, expired, conn, released, dialed, result, verdict>>

(* Thirty seconds go by only while Send waits for the network.             *)
Expire ==
  /\ ~expired
  /\ pc \in {"dial", "talk", "unwind"}
  /\ expired' = TRUE
  /\ UNCHANGED <<pc, current, step, conn, watchers, released, dialed, result, verdict>>

(* The server decides on a message, perhaps after Send has given up.       *)
ServerDecides(m) ==
  /\ verdict[m] = "pending"
  /\ \E v \in {"accepted", "rejected"} : verdict' = [verdict EXCEPT ![m] = v]
  /\ UNCHANGED <<pc, current, step, expired, conn, watchers, released, dialed, result>>

-------------------------------------------------------------------------------
Next ==
  \/ Begin \/ Finish
  \/ Connect \/ ConnectFails
  \/ CommandOk \/ QuitOk \/ CommandFails \/ Unwind
  \/ Expire
  \/ \E m \in Mails : WatcherCloses(m) \/ WatcherReleased(m) \/ ServerDecides(m)

Safety == Init /\ [][Next]_vars

MutantInterrupted == expired /\ pc = "dial"

(* Blocking calls that cannot go on waiting for the peer: the context of   *)
(* the dial, or the deadline set on the connection, has passed.            *)
Interrupted == expired /\ pc \in {"dial", "talk", "unwind"}

(* The goroutines are scheduled and the deadline passes. Nothing is        *)
(* assumed of the server: a call that waits for it ends by the deadline.   *)
Fairness ==
  /\ WF_vars(Begin \/ Finish)
  /\ WF_vars(Expire)
  /\ WF_vars(Interrupted /\ (ConnectFails \/ CommandFails \/ Unwind))
  /\ \A m \in Mails : WF_vars(WatcherCloses(m) \/ WatcherReleased(m))

Spec == Safety /\ Fairness

-------------------------------------------------------------------------------
(* Properties.                                                             *)

(* When Send returns nil the server has accepted the message: the explicit *)
(* writer.Close waits for the answer to the final dot.                     *)
NilMeansAccepted ==
  \A m \in Mails : result[m] = "nil" => verdict[m] = "accepted"

(* No address gets the mail of one notice twice, whatever the global and   *)
(* the spec's recipient lists have in common.                              *)
OneMailEach ==
  \A m, n \in Mails :
    /\ verdict[m] \in {"pending", "accepted"}
    /\ verdict[n] \in {"pending", "accepted"}
    /\ Recipients[m] = Recipients[n]
    => m = n

(* A watcher outlives its Send only until it is scheduled: at most one     *)
(* watcher at a time waits for anything, and it is the current one's.      *)
WatchersDoNotPileUp ==
  /\ watchers \ released \subseteq {current}
  /\ conn = "open" /\ pc = "talk" /\ ~expired => current \in watchers

(* The failure of one recipient does not keep the others from being tried: *)
(* only the shared deadline does.                                          *)
OnlyDeadlineStarves ==
  pc = "done" /\ ~expired => dialed = Mails

(* Every recipient of the notice is at least tried.                        *)
EveryRecipientIsTried == pc = "done" => dialed = Mails

(* The mail phase of a goroutine ends, however the server behaves, so the  *)
(* cycle that waits for it ends too.                                       *)
PhaseEnds == <>(pc = "done")
===============================================================================
