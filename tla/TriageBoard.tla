---------------------------- MODULE TriageBoard ----------------------------
(***************************************************************************)
(* What the operators decide about attack paths: suppressions (a path is   *)
(* taken off the board, for good or until a date) and tickets (somebody    *)
(* owns closing it).  Both are kept either in a file of one replica, whose *)
(* memory answers every read and which is rewritten whole after every      *)
(* change, or in tables that all replicas share.                           *)
(*                                                                         *)
(* A request is handled in the steps others can come between: in the file  *)
(* store the change under the lock, the snapshot under the read lock, and  *)
(* the rename of the finished temporary file; in the shared store a query  *)
(* or a statement at a time.                                               *)
(***************************************************************************)
EXTENDS Naturals, FiniteSets

CONSTANTS
  Handlers,       \* requests being handled at once
  BoardPaths,     \* attack paths
  Visible,        \* the paths an application-scoped administrator sees
  Expiries,       \* the dates a suppression may end at; Never for none
  Never,
  MaxRequests,    \* bound: requests in a behaviour
  MaxBoardTime,   \* bound: ticks
  MaxBoardFaults  \* bound: failing writes and crashes

VARIABLES
  backend,     \* "file" or "postgres"
  suppressed,  \* path -> when its suppression ends
  tickets,     \* ticket id -> its path, whether it is open, when it closed
  saved,       \* store -> what its file holds
  request,     \* handler -> the request it is at, or Idle
  posted,      \* tickets the external tracker was told of
  day, requests, boardFaults,
  blurred      \* store -> its file may be behind (observation only)

boardVars == <<backend, suppressed, tickets, saved, request, posted, day, requests, boardFaults, blurred>>

Stores == {"suppressions", "tickets"}
Idle == [at |-> "idle"]
Busy(s) == {h \in Handlers : request[h] # Idle /\ request[h].store = s}

NoneOf == [x \in {} |-> 0]
With(f, x, v) == [y \in DOMAIN f \cup {x} |-> IF y = x THEN v ELSE f[y]]
WithoutKey(f, x) == [y \in DOMAIN f \ {x} |-> f[y]]

Memory(s) == IF s = "suppressions" THEN suppressed ELSE tickets

BoardInit ==
  /\ backend \in {"file", "postgres"}
  /\ suppressed = NoneOf /\ tickets = NoneOf
  /\ saved = [s \in Stores |-> NoneOf]
  /\ request = [h \in Handlers |-> Idle]
  /\ posted = {}
  /\ day = 0 /\ requests = 0 /\ boardFaults = 0
  /\ blurred = [s \in Stores |-> FALSE]

\* A suppression that has ended reads as absent.
ActiveSet(records) == {p \in DOMAIN records : records[p] = Never \/ records[p] > day}

OpenForPath(all, p) == {t \in DOMAIN all : all[t].path = p /\ all[t].open}

\* An administrator restricted to applications acts on the paths it sees.
MayActOnPath(scoped, p) == scoped => p \in Visible

---------------------------------------------------------------------------
(***************************************************************************)
(* A request passes the checks of its handler and begins; a malformed one, *)
(* or one out of the caller's reach, changes nothing and is not modelled.  *)
(* Two requests on one store that overlap may leave its file behind.       *)
(***************************************************************************)

Begin(h, op, s, p, t, until) ==
  /\ request[h] = Idle
  /\ requests < MaxRequests
  /\ request' = [g \in Handlers |->
       IF g = h THEN [at |-> "begun", op |-> op, store |-> s, path |-> p, until |-> until,
                      ticket |-> t, alone |-> Busy(s) = {}, copy |-> NoneOf]
       ELSE IF g \in Busy(s) THEN [request[g] EXCEPT !.alone = FALSE]
       ELSE request[g]]
  /\ blurred' = [blurred EXCEPT ![s] = @ \/ Busy(s) # {}]
  /\ requests' = requests + 1
  /\ UNCHANGED <<backend, suppressed, tickets, saved, posted, day, boardFaults>>

PutSuppression(h, scoped, p, until) ==
  MayActOnPath(scoped, p) /\ Begin(h, "put", "suppressions", p, 0, until)

DeleteSuppression(h, scoped, p) ==
  MayActOnPath(scoped, p) /\ Begin(h, "delete", "suppressions", p, 0, Never)

CreateTicket(h, scoped, p) ==
  MayActOnPath(scoped, p) /\ Begin(h, "create", "tickets", p, 0, Never)

\* The ticket's path is looked up before it is closed.
CloseTicket(h, scoped, t) ==
  /\ t \in DOMAIN tickets
  /\ MayActOnPath(scoped, tickets[t].path)
  /\ Begin(h, "close", "tickets", tickets[t].path, t, Never)

---------------------------------------------------------------------------
(***************************************************************************)
(* The change itself: in the file store under the lock, in the shared one  *)
(* a statement.                                                            *)
(***************************************************************************)

At(h, step) == request[h].at = step
Stepped(r, step) == [r EXCEPT !.at = step]
Becomes(h, step) == request' = [request EXCEPT ![h] = Stepped(@, step)]
Finish(h) == request' = [request EXCEPT ![h] = Idle]

\* What follows the change: the file is written, or the statement was all.
Changed(h) == IF backend = "file" THEN Becomes(h, "changed") ELSE Finish(h)

StoreSuppression(h) ==
  /\ At(h, "begun") /\ request[h].op \in {"put", "delete"}
  /\ suppressed' = IF request[h].op = "put"
                   THEN With(suppressed, request[h].path, request[h].until)
                   ELSE WithoutKey(suppressed, request[h].path)
  /\ Changed(h)
  /\ UNCHANGED <<backend, tickets, saved, posted, day, requests, boardFaults, blurred>>

\* A path with an open ticket gets no second one.  The shared store asks first,
\* and inserts in a statement of its own.
FindOpen(h) ==
  /\ At(h, "begun") /\ request[h].op = "create" /\ backend = "postgres"
  /\ IF OpenForPath(tickets, request[h].path) # {} THEN Finish(h) ELSE Becomes(h, "free")
  /\ UNCHANGED <<backend, suppressed, tickets, saved, posted, day, requests, boardFaults, blurred>>

FreeToOpen(h) ==
  \/ At(h, "free")
  \/ At(h, "begun") /\ backend = "file" /\ OpenForPath(tickets, request[h].path) = {}

NewTicket == Cardinality(DOMAIN tickets) + 1

OpenTicket(h) ==
  /\ request[h] # Idle /\ request[h].op = "create" /\ FreeToOpen(h)
  /\ tickets' = With(tickets, NewTicket, [path |-> request[h].path, open |-> TRUE, closed |-> 0])
  /\ request' = [request EXCEPT ![h] = [Stepped(@, "opened") EXCEPT !.ticket = NewTicket]]
  /\ UNCHANGED <<backend, suppressed, saved, posted, day, requests, boardFaults, blurred>>

ExistingReturned(h) ==
  /\ At(h, "begun") /\ request[h].op = "create" /\ backend = "file"
  /\ OpenForPath(tickets, request[h].path) # {}
  /\ Finish(h)
  /\ UNCHANGED <<backend, suppressed, tickets, saved, posted, day, requests, boardFaults, blurred>>

\* The tracker is told, or is out of reach, which is not an error; only then is
\* the file written.
DispatchTicket(h) ==
  /\ At(h, "opened")
  /\ posted' \in {posted, posted \cup {request[h].ticket}}
  /\ Changed(h)
  /\ UNCHANGED <<backend, suppressed, tickets, saved, day, requests, boardFaults, blurred>>

\* Closing again moves the date in the file store and not in the shared one.
MarkClosed(h) ==
  /\ At(h, "begun") /\ request[h].op = "close"
  /\ tickets' = [tickets EXCEPT ![request[h].ticket] =
                   [path |-> @.path, open |-> FALSE,
                    closed |-> IF @.open \/ backend = "file" THEN day ELSE @.closed]]
  /\ Changed(h)
  /\ UNCHANGED <<backend, suppressed, saved, posted, day, requests, boardFaults, blurred>>

---------------------------------------------------------------------------
(***************************************************************************)
(* The file: the whole store is copied under the read lock, written to a   *)
(* temporary file of its own, and renamed over the old one.  A write that  *)
(* fails is reported, and memory keeps the change.                         *)
(***************************************************************************)

\* Fault: an un-suppression changes memory only.
SnapshotBarDeletes(h) ==
  /\ At(h, "changed")
  /\ IF request[h].op = "delete" THEN Finish(h)
     ELSE request' = [request EXCEPT ![h] = [Stepped(@, "copied") EXCEPT !.copy = Memory(request[h].store)]]
  /\ UNCHANGED <<backend, suppressed, tickets, saved, posted, day, requests, boardFaults, blurred>>

Snapshot(h) ==
  /\ At(h, "changed")
  /\ request' = [request EXCEPT ![h] = [Stepped(@, "copied") EXCEPT !.copy = Memory(request[h].store)]]
  /\ UNCHANGED <<backend, suppressed, tickets, saved, posted, day, requests, boardFaults, blurred>>

Rename(h) ==
  /\ At(h, "copied")
  /\ saved' = [saved EXCEPT ![request[h].store] = request[h].copy]
  /\ blurred' = [blurred EXCEPT ![request[h].store] = @ /\ ~request[h].alone]
  /\ Finish(h)
  /\ UNCHANGED <<backend, suppressed, tickets, posted, day, requests, boardFaults>>

WriteFails(h) ==
  /\ At(h, "copied")
  /\ boardFaults < MaxBoardFaults
  /\ boardFaults' = boardFaults + 1
  /\ blurred' = [blurred EXCEPT ![request[h].store] = TRUE]
  /\ Finish(h)
  /\ UNCHANGED <<backend, suppressed, tickets, saved, posted, day, requests>>

\* The replica stops and starts again: the files are read back, the tables stand.
Restart ==
  /\ boardFaults < MaxBoardFaults
  /\ boardFaults' = boardFaults + 1
  /\ IF backend = "file"
     THEN suppressed' = saved["suppressions"] /\ tickets' = saved["tickets"]
     ELSE UNCHANGED <<suppressed, tickets>>
  /\ request' = [h \in Handlers |-> Idle]
  /\ blurred' = [s \in Stores |-> FALSE]
  /\ UNCHANGED <<backend, saved, posted, day, requests>>

NextDay ==
  /\ day < MaxBoardTime
  /\ day' = day + 1
  /\ UNCHANGED <<backend, suppressed, tickets, saved, request, posted, requests, boardFaults, blurred>>

BoardNext ==
  \/ \E h \in Handlers, scoped \in BOOLEAN, p \in BoardPaths :
       \/ \E until \in Expiries : PutSuppression(h, scoped, p, until)
       \/ DeleteSuppression(h, scoped, p)
       \/ CreateTicket(h, scoped, p)
  \/ \E h \in Handlers, scoped \in BOOLEAN, t \in DOMAIN tickets : CloseTicket(h, scoped, t)
  \/ \E h \in Handlers :
       \/ StoreSuppression(h) \/ FindOpen(h) \/ OpenTicket(h) \/ ExistingReturned(h)
       \/ DispatchTicket(h) \/ MarkClosed(h)
       \/ Snapshot(h) \/ Rename(h) \/ WriteFails(h)
  \/ Restart
  \/ NextDay

BoardSpec == BoardInit /\ [][BoardNext]_boardVars

---------------------------------------------------------------------------
(***************************************************************************)
(* Properties.                                                             *)
(***************************************************************************)

\* What a restart of a replica with files would bring back is what the board
\* shows, the suppressions in force and the open tickets, once no request is
\* being handled and the last one to write was alone in its store: one
\* undisturbed request also repairs what failed and overlapping ones left
\* behind (suppress.Store.persist, ticket.Store.persist, load).
RestartKeepsTheBoard ==
  backend = "file" =>
    /\ Busy("suppressions") = {} /\ ~blurred["suppressions"] =>
         /\ ActiveSet(saved["suppressions"]) = ActiveSet(suppressed)
         /\ \A p \in ActiveSet(suppressed) : saved["suppressions"][p] = suppressed[p]
    /\ Busy("tickets") = {} /\ ~blurred["tickets"] =>
         \A p \in BoardPaths : OpenForPath(saved["tickets"], p) = OpenForPath(tickets, p)

\* The file store never has two open tickets for a path, in memory or in the
\* file a restart would read, so a double click cannot fork the work
\* (ticket.Store.Create).
OneTicketPerPath ==
  backend = "file" =>
    \A p \in BoardPaths, all \in {tickets, saved["tickets"]} : Cardinality(OpenForPath(all, p)) <= 1

\* What the comments in persist say of concurrent writers: "the rename is atomic
\* and the last consistent snapshot wins".  When no write failed and no request
\* is being handled, the file holds what memory holds.
LastSnapshotWins ==
  backend = "file" /\ boardFaults = 0 =>
    \A s \in Stores : Busy(s) = {} => saved[s] = Memory(s)

\* What the team decided is kept, and once (suppress.Store, ticket.Store).
BoardHolds == RestartKeepsTheBoard /\ OneTicketPerPath
=============================================================================
