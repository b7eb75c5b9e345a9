------------------------------- MODULE TxnIntake -------------------------------
(***************************************************************************)
(* How room events come in: bridge.appservice_routes._handle_transaction.  *)
(*                                                                         *)
(* The homeserver numbers the events it has for the bridge and PUTs them   *)
(* in transactions, the next one only after a 200 for the last.  A request *)
(* it gives up waiting for goes on in the bridge all the same, beside the  *)
(* one it sends instead; a restart of the bridge ends both.  Each request  *)
(* goes through its events in order: an event that is marked as processed  *)
(* is skipped, any other is dispatched and marked, whether or not its      *)
(* handler raised.                                                         *)
(*                                                                         *)
(* What a handler does between Begin and End is for the module that        *)
(* EXTENDS this one.                                                       *)
(***************************************************************************)
EXTENDS Naturals, Sequences

CONSTANTS
    MaxRequests,    \* bound: requests in the bridge at the same time
    MaxEvents,      \* bound: events the rooms send
    MaxTimeouts,    \* bound: requests the homeserver gives up waiting for
    MaxCrashes      \* bound: restarts of the bridge

ASSUME IntakeAssumption ==
    /\ MaxRequests \in Nat /\ MaxEvents \in Nat /\ MaxTimeouts \in Nat /\ MaxCrashes \in Nat

VARIABLES
    stream,     \* the events the homeserver has for the bridge, in order
    acked,      \* how many of them are in transactions that got their 200
    batch,      \* the last event of the transaction being sent, or acked
    waiting,    \* the request whose response the homeserver waits for
    proc,       \* where each request is
    marked,     \* processed_matrix_events
    timeouts, crashes

intakeVars == <<stream, acked, batch, waiting, proc, marked, timeouts, crashes>>

Requests == 1..MaxRequests      \* a new request takes the lowest free number
NoRequest == 0
Positions == 1..MaxEvents
IdleProc == [pc |-> "idle", at |-> 0, end |-> 0]

IntakeTypeOK(Event) ==
    /\ stream \in Seq(Event) /\ Len(stream) <= MaxEvents
    /\ acked \in 0..Len(stream)
    /\ batch \in acked..Len(stream)
    /\ waiting \in Requests \cup {NoRequest}
    /\ proc \in [Requests -> [pc : {"idle", "look", "run", "mark"},
                              at : 0..MaxEvents + 1, end : 0..MaxEvents]]
    /\ marked \subseteq 1..Len(stream)
    /\ timeouts \in 0..MaxTimeouts
    /\ crashes \in 0..MaxCrashes

IntakeInit ==
    /\ stream = <<>> /\ acked = 0 /\ batch = 0
    /\ waiting = NoRequest
    /\ proc = [r \in Requests |-> IdleProc]
    /\ marked = {}
    /\ timeouts = 0 /\ crashes = 0

\* Somebody sends an event in a room of the bridge.
Arrive(e) ==
    /\ Len(stream) < MaxEvents
    /\ stream' = Append(stream, e)
    /\ UNCHANGED <<acked, batch, waiting, proc, marked, timeouts, crashes>>

(***************************************************************************)
(* The homeserver.  A transaction keeps its events however often it is     *)
(* sent.                                                                   *)
(***************************************************************************)
Send(r) ==
    /\ waiting = NoRequest
    /\ \A q \in 1..r : (q = r) <=> (proc[q].pc = "idle")
    /\ acked < Len(stream)
    /\ batch' \in IF batch > acked THEN {batch} ELSE (acked + 1)..Len(stream)
    /\ waiting' = r
    /\ proc' = [proc EXCEPT ![r] = [pc |-> "look", at |-> acked + 1, end |-> batch']]
    /\ UNCHANGED <<stream, acked, marked, timeouts, crashes>>

GiveUp ==
    /\ waiting # NoRequest /\ timeouts < MaxTimeouts
    /\ waiting' = NoRequest
    /\ timeouts' = timeouts + 1
    /\ UNCHANGED <<stream, acked, batch, proc, marked, crashes>>

(***************************************************************************)
(* The loop of _handle_transaction.                                        *)
(***************************************************************************)
Looking(r) == proc[r].pc = "look" /\ proc[r].at <= proc[r].end

IsProcessed(i) == i \in marked

Skip(r) ==
    /\ Looking(r) /\ IsProcessed(proc[r].at)
    /\ proc' = [proc EXCEPT ![r].at = @ + 1]
    /\ UNCHANGED <<stream, acked, batch, waiting, marked, timeouts, crashes>>

Begin(r) ==
    /\ Looking(r) /\ ~IsProcessed(proc[r].at)
    /\ proc' = [proc EXCEPT ![r].pc = "run"]
    /\ UNCHANGED <<stream, acked, batch, waiting, marked, timeouts, crashes>>

\* The handler returned or raised: the two are not told apart.
End(r) ==
    /\ proc' = [proc EXCEPT ![r].pc = "mark"]
    /\ UNCHANGED <<stream, acked, batch, waiting, marked, timeouts, crashes>>

Mark(r) ==
    /\ proc[r].pc = "mark"
    /\ marked' = marked \cup {proc[r].at}
    /\ proc' = [proc EXCEPT ![r].pc = "look", ![r].at = @ + 1]
    /\ UNCHANGED <<stream, acked, batch, waiting, timeouts, crashes>>

\* The 200, heard by nobody if the homeserver gave up on this request.
Reply(r) ==
    /\ proc[r].pc = "look" /\ proc[r].at > proc[r].end
    /\ proc' = [proc EXCEPT ![r] = IdleProc]
    /\ IF waiting = r THEN acked' = batch /\ waiting' = NoRequest
                      ELSE UNCHANGED <<acked, waiting>>
    /\ UNCHANGED <<stream, batch, marked, timeouts, crashes>>

\* The bridge dies, and starts again with its tables.
Crash ==
    /\ crashes < MaxCrashes
    /\ crashes' = crashes + 1
    /\ proc' = [r \in Requests |-> IdleProc]
    /\ waiting' = NoRequest
    /\ UNCHANGED <<stream, acked, batch, marked, timeouts>>

(***************************************************************************)
(* What the intake promises the handlers and the homeserver.               *)
(***************************************************************************)
\* No event is passed over: whatever is in an acknowledged transaction was
\* dispatched, and a handler runs only when every earlier event has been
\* (_handle_transaction, through retries, give-ups and restarts).
InOrder ==
    /\ 1..acked \subseteq marked
    /\ \A r \in Requests : proc[r].pc # "idle" => 1..(proc[r].at - 1) \subseteq marked
================================================================================
