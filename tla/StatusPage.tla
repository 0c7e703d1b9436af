------------------------------ MODULE StatusPage ------------------------------
(***************************************************************************)
(* The status page composed with the runner: the snapshot function of      *)
(* cmd/eddie/main.go, and the handlers of / and /events in                 *)
(* internal/http/server.go, which read the runner's store while its        *)
(* goroutines write it.                                                    *)
(*                                                                         *)
(* A snapshot takes the time, then reads the store once per spec, each     *)
(* read under the store's lock but all of them not. Requests do not        *)
(* disturb each other, so one viewer stands for any number of them.        *)
(***************************************************************************)
EXTENDS Runner, Sequences

CONSTANTS Order,            \* the parsed specs, in the order the snapshot visits them
          RefreshInterval   \* of a stream (2s)

ASSUME PageAssumption == /\ Order \in Seq(Specs)
                         /\ \A s \in Specs : \E n \in 1 .. Len(Order) : Order[n] = s
                         /\ RefreshInterval \in Nat \ {0}

VARIABLES
  handler,    \* where the request's handler is
  stream,     \* the request is for /events
  next,       \* the index of the spec it reads next
  rows,       \* the rows it has read
  refreshAt,  \* when its stream's ticker has the next tick; 0 before there is a ticker
  received,   \* the rows of the last snapshot the client received on this request
  base        \* history: the rows the store would have given at generated_at

pageVars   == <<handler, stream, next, rows, refreshAt, received, base>>
systemVars == <<vars, pageVars>>

-------------------------------------------------------------------------------
(* What a spec's row shows; a spec without an entry is "unknown".          *)

NoRow == [HasState |-> FALSE, State |-> "unknown",
          LastCycleStartedAt |-> ZeroTime, LastCycleAt |-> ZeroTime]

Row(s) ==
  IF s \notin DOMAIN store THEN NoRow
  ELSE [HasState |-> TRUE, State |-> store[s].Status,
        LastCycleStartedAt |-> store[s].LastCycleStartedAt,
        LastCycleAt |-> store[s].LastCycleAt]

Nothing == [s \in {} |-> NoRow]

PageInit ==
  /\ handler = "away"
  /\ stream = FALSE
  /\ next = 1
  /\ rows = Nothing
  /\ refreshAt = 0
  /\ received = Nothing
  /\ base = Nothing

-------------------------------------------------------------------------------
(* The handlers.                                                           *)

(* The snapshot function takes the time (base is what that time stands     *)
(* for) and starts on the specs.                                           *)
BeginSnapshot ==
  /\ handler' = "reading"
  /\ next' = 1
  /\ rows' = Nothing
  /\ base' = [s \in Specs |-> Row(s)]

(* A request for / (one snapshot) or for /events (a stream of them).       *)
Open ==
  /\ handler = "away"
  /\ stream' \in BOOLEAN
  /\ received' = Nothing
  /\ BeginSnapshot
  /\ UNCHANGED refreshAt

(* Reusing the row of the last snapshot while the status is the same.      *)
MutantReadRow ==
  LET spec   == Order[next]
      cached == spec \in DOMAIN received /\ received[spec].State = Row(spec).State
  IN
  /\ handler = "reading"
  /\ next <= Len(Order)
  /\ next' = next + 1
  /\ rows' = [s \in DOMAIN rows \cup {spec} |->
                IF s # spec THEN rows[s] ELSE IF cached THEN received[s] ELSE Row(s)]
  /\ UNCHANGED <<handler, stream, refreshAt, received, base>>

(* stateStore.Get of the next spec.                                        *)
ReadRow ==
  LET spec == Order[next] IN
  /\ handler = "reading"
  /\ next <= Len(Order)
  /\ next' = next + 1
  /\ rows' = [s \in DOMAIN rows \cup {spec} |-> IF s = spec THEN Row(s) ELSE rows[s]]
  /\ UNCHANGED <<handler, stream, refreshAt, received, base>>

SnapshotDone == handler = "reading" /\ next > Len(Order)

EndRequest == handler' = "away" /\ stream' = FALSE /\ refreshAt' = 0

(* The snapshot is written. A stream starts its ticker after the first one.*)
Deliver ==
  /\ SnapshotDone
  /\ received' = rows
  /\ IF stream
     THEN /\ handler' = "waiting"
          /\ refreshAt' = IF refreshAt = 0 THEN now + RefreshInterval ELSE refreshAt
          /\ UNCHANGED stream
     ELSE EndRequest
  /\ next' = 1 /\ rows' = Nothing /\ base' = Nothing

(* The stream's ticker: ticks missed meanwhile are dropped but for one.    *)
Refresh ==
  /\ handler = "waiting"
  /\ now >= refreshAt
  /\ refreshAt' = refreshAt + ((now - refreshAt) \div RefreshInterval + 1) * RefreshInterval
  /\ BeginSnapshot
  /\ UNCHANGED <<stream, received>>

(* The client is gone: its context is done, or the write fails.            *)
Leave ==
  /\ handler = "waiting" \/ SnapshotDone
  /\ EndRequest
  /\ next' = 1 /\ rows' = Nothing /\ base' = Nothing
  /\ UNCHANGED received

-------------------------------------------------------------------------------
PageStep == Open \/ ReadRow \/ Deliver \/ Refresh \/ Leave

SystemNext ==
  \/ Next /\ UNCHANGED pageVars
  \/ PageStep /\ UNCHANGED vars

SystemSpec == Init /\ PageInit /\ [][SystemNext]_systemVars

-------------------------------------------------------------------------------
(* Properties.                                                             *)

Rows == [HasState: BOOLEAN, State: Statuses \cup {"unknown"},
         LastCycleStartedAt: Times, LastCycleAt: Times]

(* Nothing that a row shows is older in r than in q.                       *)
NotOlder(r, q) ==
  /\ r.LastCycleStartedAt >= q.LastCycleStartedAt
  /\ r.LastCycleAt >= q.LastCycleAt
  /\ q.HasState => r.HasState

(* A row is at least as recent as the snapshot's generated_at claims: what *)
(* the store held then is in it, although the store was read later, spec   *)
(* by spec, with checks starting and completing in between.                *)
RowsAreAsOfGeneratedAt ==
  handler = "reading" => \A s \in DOMAIN rows : NotOlder(rows[s], base[s])

(* A client that follows a stream never sees a spec go back in time or     *)
(* become unknown again: the entries of the store only grow newer, however *)
(* the checks and the cycles of the runner overlap with the snapshots.     *)
StreamsGoForward ==
  [][\A s \in DOMAIN received \cap DOMAIN received' :
       NotOlder(received'[s], received[s])]_systemVars
===============================================================================
