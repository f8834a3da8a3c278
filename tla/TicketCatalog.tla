---------------------------- MODULE TicketCatalog ----------------------------
(***************************************************************************)
(* The runner-ticket catalog that the dashboard's pages share              *)
(* (dashboard/src/lib/runner-ticket.ts): a cache at module level, filled   *)
(* by requests that several components may have on their way at once, the  *)
(* active ticket in localStorage, and the copies of both that every        *)
(* mounted useRunnerTicket hook keeps.  The table of tickets is go-api's   *)
(* factory_tickets_v1; its answers are snapshots of the table, delivered   *)
(* in any order.                                                           *)
(***************************************************************************)
EXTENDS Selections, SequencesExt

CONSTANTS
    Tickets, NoTicket,
    NewTickets,   \* the tickets that createNewTicket may generate
    TicketTables, \* the tables that a browser may find when it is opened
    MaxReads      \* bound: catalog requests on their way at once

ASSUME TicketConstants ==
    /\ NewTickets \in SUBSET Tickets /\ NoTicket \notin Tickets
    /\ TicketTables \in SUBSET Seq(Tickets \ NewTickets)
    /\ IsFiniteSet(Tickets) /\ MaxReads \in Nat \ {0}

VARIABLES
    ticketTable,  \* tickets stored by the server, newest first
    catalog,      \* cachedTickets, the stored active ticket, ticketsInFlight
    reads,        \* requests for the catalog
    creations,    \* state of the request that creates each ticket
    hooks         \* state of the useRunnerTicket hooks that are mounted

ticketVars == <<ticketTable, catalog, reads, creations, hooks>>

NoRead == 0
Gone == "gone"    \* stands for the hooks of a page that was left

NewHook(c) == [active |-> c.active, tickets |-> c.items, loading |-> ~c.loaded]

TicketInit ==
    /\ ticketTable \in TicketTables
    /\ \E t \in (Tickets \ NewTickets) \cup {NoTicket} :
           catalog = [loaded |-> FALSE, items |-> <<>>, active |-> t, inflight |-> NoRead]
    /\ reads = {}
    /\ creations = [t \in NewTickets |-> "unused"]
    /\ hooks = [h \in {} |-> NewHook(catalog)]

-----------------------------------------------------------------------------
(* The shared steps of the handlers.                                         *)

(* Mistake: the active ticket is not compared with the catalog. *)
Unrepaired(c) == c

(* An active ticket that the catalog does not list gives way to its head. *)
Repaired(c) ==
    IF c.items # <<>> /\ c.active \notin ToSet(c.items)
    THEN [c EXCEPT !.active = Head(c.items)] ELSE c

(* Mistake: the event of a new active ticket is not sent. *)
Unannounced(hs, t) == hs

(* handleTicketChange of every hook; an empty ticket is ignored. *)
Announced(hs, t) ==
    IF t = NoTicket THEN hs ELSE [h \in DOMAIN hs |-> [hs[h] EXCEPT !.active = t]]

(* handleSync of the hooks in S. *)
Synced(hs, c, S) ==
    [h \in DOMAIN hs |->
        IF h \notin S THEN hs[h]
        ELSE [active  |-> IF c.active = NoTicket THEN hs[h].active ELSE c.active,
              tickets |-> c.items, loading |-> FALSE]]

(* The hooks in S run handleSync on catalog c, one after the other. *)
SyncAll(c, hs, S) ==
    LET fixed == IF S = {} THEN c ELSE Repaired(c) IN
    /\ catalog' = fixed
    /\ hooks' = Synced(IF fixed.active = c.active THEN hs ELSE Announced(hs, fixed.active),
                       fixed, S)

FreshId == CHOOSE i \in 1 .. MaxReads : \A r \in reads : r.id # i
CanRead == Cardinality(reads) < MaxReads
NewRead(syncs, loads) ==
    [id |-> FreshId, phase |-> "sent", body |-> <<>>, syncs |-> syncs, loads |-> loads]

-----------------------------------------------------------------------------
(* The hooks.                                                                *)

(* The page with hooks S is opened in place of another one: its hooks take   *)
(* the cached catalog, or join the request that is on its way, or send one.  *)
(* The handlers of the page that was left stay with their requests.          *)
MountHooks(S) ==
    LET left == {[r EXCEPT !.syncs = IF @ = {} THEN {} ELSE {Gone}, !.loads = {}] : r \in reads}
        new  == [h \in S |-> NewHook(catalog)]
    IN /\ IF S = {} \/ catalog.loaded
          THEN SyncAll(catalog, new, S) /\ reads' = left
          ELSE /\ hooks' = new
               /\ IF catalog.inflight # NoRead
                  THEN /\ reads' = {IF r.id = catalog.inflight
                                    THEN [r EXCEPT !.syncs = @ \cup S] ELSE r : r \in left}
                       /\ UNCHANGED catalog
                  ELSE /\ CanRead
                       /\ reads' = left \cup {NewRead(S, {})}
                       /\ catalog' = [catalog EXCEPT !.inflight = FreshId]
       /\ UNCHANGED <<ticketTable, creations>>

(* loadTickets: a forced request, whatever is cached or on its way. *)
LoadTickets(h) ==
    /\ CanRead
    /\ reads' = reads \cup {NewRead({}, {h})}
    /\ catalog' = [catalog EXCEPT !.inflight = FreshId]
    /\ hooks' = [hooks EXCEPT ![h].loading = TRUE]
    /\ UNCHANGED <<ticketTable, creations>>

(* The options of the <select> that shows the catalog (RunnerTicketBar and   *)
(* the control cards of the pages).                                          *)
TicketOptions(h) == ToSet(hooks[h].tickets)

SetActiveTicket(h, t) ==
    /\ t \in TicketOptions(h)
    /\ catalog' = [catalog EXCEPT !.active = t]
    /\ hooks' = Announced(hooks, t)
    /\ UNCHANGED <<ticketTable, reads, creations>>

(* The new ticket is active at once; the server is told in the background. *)
CreateNewTicket(t) ==
    /\ creations[t] = "unused"
    /\ creations' = [creations EXCEPT ![t] = "sent"]
    /\ catalog' = [catalog EXCEPT !.active = t]
    /\ hooks' = Announced(hooks, t)
    /\ UNCHANGED <<ticketTable, reads>>

-----------------------------------------------------------------------------
(* The server, and the answers.                                              *)

ServeRead(r) ==
    /\ r.phase = "sent"
    /\ reads' = (reads \ {r}) \cup {[r EXCEPT !.phase = "served", !.body = ticketTable]}
    /\ UNCHANGED <<ticketTable, catalog, creations, hooks>>

ServeCreation(t) ==
    /\ creations[t] = "sent"
    /\ creations' = [creations EXCEPT ![t] = "served"]
    /\ ticketTable' = <<t>> \o ticketTable
    /\ UNCHANGED <<catalog, reads, hooks>>

(* The answer replaces the cache; an empty one also clears localStorage.     *)
(* finally forgets the request in flight, be it this one or a later one.     *)
ReadAnswered(r) ==
    LET c == [loaded |-> TRUE, items |-> r.body, inflight |-> NoRead,
              active |-> IF r.body = <<>> THEN NoTicket ELSE catalog.active]
    IN /\ r.phase = "served"
       /\ reads' = reads \ {r}
       /\ LET fixed == Repaired(c)
          IN SyncAll(fixed, IF fixed.active = catalog.active THEN hooks
                            ELSE Announced(hooks, fixed.active), DOMAIN hooks)
       /\ UNCHANGED <<ticketTable, creations>>

(* A failed request leaves the cache; who awaited it goes on with it. *)
ReadFailed(r) ==
    LET c  == [catalog EXCEPT !.inflight = NoRead]
        hs == [h \in DOMAIN hooks |->
                 IF h \in r.loads THEN [hooks[h] EXCEPT !.loading = FALSE] ELSE hooks[h]]
    IN /\ reads' = reads \ {r}
       /\ SyncAll(c, hs, r.syncs)
       /\ UNCHANGED <<ticketTable, creations>>

CreationAnswered(t) ==
    /\ creations[t] = "served"
    /\ creations' = [creations EXCEPT ![t] = "done"]
    /\ SyncAll([catalog EXCEPT !.loaded = TRUE,
                               !.items = <<t>> \o ElementsAt(@, {i \in DOMAIN @ : @[i] # t})],
               hooks, DOMAIN hooks)
    /\ UNCHANGED <<ticketTable, reads>>

CreationFailed(t) ==
    /\ creations[t] \in {"sent", "served"}
    /\ creations' = [creations EXCEPT ![t] = "failed"]
    /\ UNCHANGED <<ticketTable, catalog, reads, hooks>>

TicketAnswers ==
    \/ \E r \in reads : ServeRead(r) \/ ReadAnswered(r) \/ ReadFailed(r)
    \/ \E t \in NewTickets : ServeCreation(t) \/ CreationAnswered(t) \/ CreationFailed(t)

-----------------------------------------------------------------------------
(* The tickets that this browser created and the server has not confirmed. *)
Unconfirmed == {t \in NewTickets : creations[t] \in {"sent", "served", "failed"}}

(* Every mounted hook shows the ticket in localStorage: no page starts a run *)
(* under another ticket than the one the operator selected elsewhere on it.  *)
HooksFollowStorage ==
    catalog.active # NoTicket =>
        \A h \in DOMAIN hooks : hooks[h].active = catalog.active

(* While a page follows the active ticket, the ticket is listed in the       *)
(* cached catalog, unless it was created here and its creation is not        *)
(* confirmed.                                                                *)
ActiveTicketListed ==
    catalog.items # <<>> /\ DOMAIN hooks # {} =>
        catalog.active \in ToSet(catalog.items) \cup Unconfirmed

=============================================================================
