--------------------------- MODULE DashboardProofs ---------------------------
(***************************************************************************)
(* Invariants of the dashboard's pages that follow the runner ticket,      *)
(* proved for every set of tickets, hops and workers, every run history    *)
(* and any number of requests on their way.  The catalog of tickets and    *)
(* each page have an inductive invariant of their own; a step of the       *)
(* dashboard mounts a page, leaves it alone, lets it follow the active     *)
(* ticket or is a step of its module.                                      *)
(***************************************************************************)
EXTENDS Dashboard, TotalsTheorems

-----------------------------------------------------------------------------
(* The shared catalog.  The number of the request on its way is not typed:   *)
(* nothing here depends on it.                                               *)
MaybeTicket == Tickets \cup {NoTicket}
HookRecords == [active : MaybeTicket, tickets : Seq(Tickets), loading : BOOLEAN]

IsCatalog(c) ==
    c \in [loaded : BOOLEAN, items : Seq(Tickets), active : MaybeTicket, inflight : {c.inflight}]
AreHooks(hs) == hs \in [DOMAIN hs -> HookRecords]
IsRead(r) ==
    r \in [id : {r.id}, phase : {r.phase}, body : Seq(Tickets), syncs : {r.syncs}, loads : {r.loads}]

TicketType ==
    /\ IsCatalog(catalog) /\ AreHooks(hooks)
    /\ ticketTable \in Seq(Tickets)
    /\ \A r \in reads : IsRead(r)
    /\ creations \in [NewTickets -> {"unused", "sent", "served", "done", "failed"}]

(* The hooks hs agree with the catalog c on the active ticket and the list. *)
Follows(hs, c) == c.active # NoTicket => \A h \in DOMAIN hs : hs[h].active = c.active
Shows(hs, c) == \A h \in DOMAIN hs : hs[h].tickets = c.items

TicketInv ==
    /\ TicketType
    /\ HooksFollowStorage /\ ActiveTicketListed
    /\ Shows(hooks, catalog)
    /\ ~catalog.loaded => catalog.items = <<>>

(* What the helpers of the handlers do. *)
LEMMA Repairs ==
    ASSUME NEW c, IsCatalog(c)
    PROVE  /\ IsCatalog(Repaired(c))
           /\ Repaired(c).items = c.items /\ Repaired(c).loaded = c.loaded
           /\ c.items # <<>> => Repaired(c).active \in ToSet(c.items)
  <1>1. CASE c.items # <<>> /\ c.active \notin ToSet(c.items)
    <2>1. Repaired(c) = [c EXCEPT !.active = Head(c.items)]
      BY <1>1 DEF Repaired
    <2>2. Head(c.items) = c.items[1] /\ 1 \in DOMAIN c.items /\ c.items[1] \in Tickets
      BY <1>1 DEF IsCatalog
    <2>3. c.items[1] \in ToSet(c.items)
      BY <2>2 DEF ToSet
    <2> QED BY <2>1, <2>2, <2>3 DEF IsCatalog, MaybeTicket
  <1>2. CASE ~(c.items # <<>> /\ c.active \notin ToSet(c.items))
    BY <1>2 DEF Repaired
  <1> QED BY <1>1, <1>2

LEMMA Announces ==
    ASSUME NEW hs, AreHooks(hs), NEW t \in MaybeTicket
    PROVE  /\ AreHooks(Announced(hs, t)) /\ DOMAIN Announced(hs, t) = DOMAIN hs
           /\ t # NoTicket => \A h \in DOMAIN hs : Announced(hs, t)[h].active = t
           /\ \A h \in DOMAIN hs : Announced(hs, t)[h].tickets = hs[h].tickets
  BY DEF AreHooks, Announced, HookRecords

(* The hooks in S synchronise with c, the others are left as they are. *)
LEMMA Syncs ==
    ASSUME NEW hs, AreHooks(hs), NEW c, IsCatalog(c), Follows(hs, c), NEW S,
           \A h \in DOMAIN hs \ S : hs[h].tickets = c.items
    PROVE  /\ AreHooks(Synced(hs, c, S)) /\ DOMAIN Synced(hs, c, S) = DOMAIN hs
           /\ Follows(Synced(hs, c, S), c) /\ Shows(Synced(hs, c, S), c)
  <1> DEFINE new == Synced(hs, c, S)
  <1>1. DOMAIN new = DOMAIN hs
    BY DEF Synced
  <1>2. ASSUME NEW h \in DOMAIN hs
        PROVE  /\ new[h] \in HookRecords /\ new[h].tickets = c.items
               /\ c.active # NoTicket => new[h].active = c.active
    <2>1. CASE h \in S
      <3>1. new[h] = [active |-> IF c.active = NoTicket THEN hs[h].active ELSE c.active,
                      tickets |-> c.items, loading |-> FALSE]
        BY <2>1 DEF Synced
      <3> QED BY <3>1 DEF AreHooks, HookRecords, IsCatalog
    <2>2. CASE h \notin S
      <3>1. new[h] = hs[h]
        BY <2>2 DEF Synced
      <3> QED BY <2>2, <3>1 DEF AreHooks, Follows
    <2> QED BY <2>1, <2>2
  <1>3. new = [h \in DOMAIN new |-> new[h]]
    BY DEF Synced
  <1> QED BY <1>1, <1>2, <1>3 DEF AreHooks, Follows, Shows

(* A synchronisation of the hooks in S with the catalog c. *)
LEMMA SyncStep ==
    ASSUME NEW c, IsCatalog(c), NEW hs, AreHooks(hs), Follows(hs, c), NEW S,
           \A h \in DOMAIN hs \ S : hs[h].tickets = c.items,
           SyncAll(c, hs, S)
    PROVE  /\ IsCatalog(catalog') /\ AreHooks(hooks') /\ DOMAIN hooks' = DOMAIN hs
           /\ Follows(hooks', catalog') /\ Shows(hooks', catalog')
           /\ catalog'.items = c.items /\ catalog'.loaded = c.loaded
           /\ catalog'.active = c.active \/ catalog'.active \in ToSet(c.items) \/ c.items = <<>>
           /\ S # {} /\ c.items # <<>> => catalog'.active \in ToSet(c.items)
  <1> DEFINE fixed == IF S = {} THEN c ELSE Repaired(c)
             told == IF fixed.active = c.active THEN hs ELSE Announced(hs, fixed.active)
  <1>1. catalog' = fixed /\ hooks' = Synced(told, fixed, S)
    BY DEF SyncAll
  <1>2. /\ IsCatalog(fixed) /\ fixed.items = c.items /\ fixed.loaded = c.loaded
        /\ S # {} /\ c.items # <<>> => fixed.active \in ToSet(c.items)
        /\ fixed.active = c.active \/ fixed.active \in ToSet(c.items) \/ c.items = <<>>
    BY Repairs
  <1> HIDE DEF fixed
  <1>3. /\ AreHooks(told) /\ DOMAIN told = DOMAIN hs /\ Follows(told, fixed)
        /\ \A h \in DOMAIN told \ S : told[h].tickets = fixed.items
    <2>1. CASE fixed.active = c.active
      BY <1>2, <2>1 DEF Follows
    <2>2. CASE fixed.active # c.active
      <3>1. fixed.active \in MaybeTicket
        BY <1>2 DEF IsCatalog
      <3> QED BY <1>2, <2>2, <3>1, Announces DEF Follows
    <2> QED BY <2>1, <2>2
  <1> HIDE DEF told
  <1>4. /\ AreHooks(Synced(told, fixed, S)) /\ DOMAIN Synced(told, fixed, S) = DOMAIN told
        /\ Follows(Synced(told, fixed, S), fixed) /\ Shows(Synced(told, fixed, S), fixed)
    BY <1>2, <1>3, Syncs
  <1> QED BY <1>1, <1>2, <1>3, <1>4


-----------------------------------------------------------------------------
(* The steps of the catalog while a page is open, and with them the opening  *)
(* of another page.                                                          *)
CatalogSteps ==
    \/ TicketAnswers
    \/ \E h \in DOMAIN hooks, t \in Tickets : SetActiveTicket(h, t)
    \/ \E t \in NewTickets : CreateNewTicket(t) \/ HandleCreateNew(t)
    \/ LoadTickets("page")
    \/ UNCHANGED ticketVars

TicketSteps == CatalogSteps \/ \E S : MountHooks(S)

LEMMA FollowsStored ==
    HooksFollowStorage <=> Follows(hooks, catalog)
  BY DEF HooksFollowStorage, Follows

(* A synchronisation of the hooks in S, where the list of the catalog did    *)
(* not change for the other hooks, keeps the invariant.                      *)
LEMMA SyncKeeps ==
    ASSUME NEW c, IsCatalog(c), NEW hs, AreHooks(hs), Follows(hs, c), NEW S,
           \A h \in DOMAIN hs \ S : hs[h].tickets = c.items,
           SyncAll(c, hs, S),
           ~c.loaded => c.items = <<>>,
           \/ DOMAIN hs = {}
           \/ c.items = <<>>
           \/ S # {}
           \/ c.active \in ToSet(c.items) \cup Unconfirmed',
           ticketTable' \in Seq(Tickets),
           \A r \in reads' : IsRead(r),
           creations' \in [NewTickets -> {"unused", "sent", "served", "done", "failed"}]
    PROVE  TicketInv'
  <1>1. /\ IsCatalog(catalog') /\ AreHooks(hooks') /\ DOMAIN hooks' = DOMAIN hs
        /\ Follows(hooks', catalog') /\ Shows(hooks', catalog')
        /\ catalog'.items = c.items /\ catalog'.loaded = c.loaded
        /\ catalog'.active = c.active \/ catalog'.active \in ToSet(c.items) \/ c.items = <<>>
        /\ S # {} /\ c.items # <<>> => catalog'.active \in ToSet(c.items)
    BY SyncStep
  <1>2. TicketType'
    BY <1>1 DEF TicketType, IsCatalog, AreHooks
  <1>3. HooksFollowStorage'
    BY <1>1 DEF HooksFollowStorage, Follows
  <1>4. ActiveTicketListed'
    BY <1>1 DEF ActiveTicketListed
  <1> QED BY <1>1, <1>2, <1>3, <1>4 DEF TicketInv, Shows

LEMMA TicketMount ==
    ASSUME TicketInv, NEW S, MountHooks(S)
    PROVE  TicketInv'
  <1> DEFINE new == [h \in S |-> NewHook(catalog)]
             left == {[r EXCEPT !.syncs = IF @ = {} THEN {} ELSE {Gone}, !.loads = {}] : r \in reads}
  <1>1. /\ IsCatalog(catalog) /\ ticketTable \in Seq(Tickets)
        /\ \A r \in reads : IsRead(r)
        /\ creations \in [NewTickets -> {"unused", "sent", "served", "done", "failed"}]
        /\ ~catalog.loaded => catalog.items = <<>>
    BY DEF TicketInv, TicketType
  <1>2. ticketTable' = ticketTable /\ creations' = creations
    BY DEF MountHooks
  <1>3. /\ NewHook(catalog) \in HookRecords /\ NewHook(catalog).active = catalog.active
        /\ NewHook(catalog).tickets = catalog.items
    BY <1>1 DEF NewHook, HookRecords, IsCatalog
  <1>4. AreHooks(new) /\ DOMAIN new = S /\ Follows(new, catalog) /\ Shows(new, catalog)
    BY <1>3 DEF AreHooks, Follows, Shows
  <1>5. \A r \in left : IsRead(r)
    <2>1. ASSUME NEW r \in reads, NEW T
          PROVE  IsRead([r EXCEPT !.syncs = T, !.loads = {}])
      BY <1>1 DEF IsRead
    <2>2. ASSUME NEW r \in reads
          PROVE  IsRead([r EXCEPT !.syncs = IF @ = {} THEN {} ELSE {Gone}, !.loads = {}])
      <3>1. [r EXCEPT !.syncs = IF @ = {} THEN {} ELSE {Gone}, !.loads = {}]
              = [r EXCEPT !.syncs = IF r.syncs = {} THEN {} ELSE {Gone}, !.loads = {}]
        BY <1>1 DEF IsRead
      <3> QED BY <2>1, <3>1
    <2> QED BY <2>2
  <1> HIDE DEF new, left
  <1>6. CASE S = {} \/ catalog.loaded
    <2>1. SyncAll(catalog, new, S) /\ reads' = left
      BY <1>6 DEF MountHooks, new, left
    <2> QED BY <1>1, <1>2, <1>4, <1>5, <2>1, SyncKeeps
  <1>7. CASE ~(S = {} \/ catalog.loaded)
    <2>1. /\ hooks' = new
          /\ \/ /\ reads' = {IF r.id = catalog.inflight THEN [r EXCEPT !.syncs = @ \cup S] ELSE r :
                               r \in left}
                /\ UNCHANGED catalog
             \/ /\ reads' = left \cup {NewRead(S, {})}
                /\ catalog' = [catalog EXCEPT !.inflight = FreshId]
      BY <1>7 DEF MountHooks, new, left
    <2>2. IsRead(NewRead(S, {}))
      BY DEF NewRead, IsRead
    <2>3. \A r \in reads' : IsRead(r)
      BY <1>5, <2>1, <2>2 DEF IsRead
    <2>4. /\ IsCatalog(catalog') /\ catalog'.items = <<>> /\ catalog'.items = catalog.items
          /\ catalog'.active = catalog.active
      BY <1>1, <1>7, <2>1 DEF IsCatalog
    <2>5. Follows(hooks', catalog') /\ Shows(hooks', catalog')
      BY <1>4, <2>1, <2>4 DEF Follows, Shows
    <2> QED
      BY <1>1, <1>2, <1>4, <2>1, <2>3, <2>4, <2>5
         DEF TicketInv, TicketType, HooksFollowStorage, ActiveTicketListed, Follows, Shows, AreHooks
  <1> QED BY <1>6, <1>7

(* A request that was just sent. *)
LEMMA FreshRead ==
    ASSUME NEW S, NEW L
    PROVE  IsRead(NewRead(S, L))
  BY DEF NewRead, IsRead

(* A hook that starts loading. *)
LEMMA LoadingHook ==
    ASSUME NEW hs, AreHooks(hs), NEW h
    PROVE  LET new == [hs EXCEPT ![h].loading = TRUE]
           IN /\ AreHooks(new) /\ DOMAIN new = DOMAIN hs
              /\ \A g \in DOMAIN hs : new[g].active = hs[g].active /\ new[g].tickets = hs[g].tickets
  BY DEF AreHooks, HookRecords

LEMMA Loads ==
    ASSUME TicketInv, NEW h,
           reads' = reads \cup {NewRead({}, {h})},
           catalog' = [catalog EXCEPT !.inflight = FreshId],
           hooks' = [hooks EXCEPT ![h].loading = TRUE],
           UNCHANGED <<ticketTable, creations>>
    PROVE  TicketInv'
  <1>1. /\ AreHooks(hooks') /\ DOMAIN hooks' = DOMAIN hooks
        /\ \A g \in DOMAIN hooks : hooks'[g].active = hooks[g].active /\ hooks'[g].tickets = hooks[g].tickets
    BY LoadingHook DEF TicketInv, TicketType
  <1>2. /\ IsCatalog(catalog') /\ catalog'.active = catalog.active
        /\ catalog'.items = catalog.items /\ catalog'.loaded = catalog.loaded
    BY DEF TicketInv, TicketType, IsCatalog
  <1>3. \A r \in reads' : IsRead(r)
    BY FreshRead DEF TicketInv, TicketType
  <1> QED BY <1>1, <1>2, <1>3
             DEF TicketInv, TicketType, HooksFollowStorage, ActiveTicketListed, Shows, Unconfirmed

LEMMA HookStep ==
    ASSUME TicketInv,
           \/ \E h \in DOMAIN hooks, t \in Tickets : SetActiveTicket(h, t)
           \/ \E t \in NewTickets : CreateNewTicket(t)
           \/ LoadTickets("page")
    PROVE  TicketInv'
  <1> USE DEF TicketInv, TicketType, HooksFollowStorage
  <1>1. NewTickets \subseteq Tickets /\ NoTicket \notin Tickets
    BY TicketConstants
  <1>2. ASSUME NEW t \in Tickets, hooks' = Announced(hooks, t),
               catalog' = [catalog EXCEPT !.active = t]
        PROVE  /\ IsCatalog(catalog') /\ AreHooks(hooks')
               /\ HooksFollowStorage' /\ Shows(hooks', catalog')
               /\ DOMAIN hooks' = DOMAIN hooks
               /\ catalog'.items = catalog.items /\ catalog'.loaded = catalog.loaded
               /\ catalog'.active = t
    <2>1. /\ IsCatalog(catalog') /\ catalog'.active = t
          /\ catalog'.items = catalog.items /\ catalog'.loaded = catalog.loaded
      BY <1>2 DEF IsCatalog, MaybeTicket
    <2>2. /\ AreHooks(hooks') /\ DOMAIN hooks' = DOMAIN hooks
          /\ t # NoTicket => \A h \in DOMAIN hooks : hooks'[h].active = t
          /\ \A h \in DOMAIN hooks : hooks'[h].tickets = hooks[h].tickets
      BY <1>2, Announces DEF MaybeTicket
    <2> QED BY <1>1, <2>1, <2>2 DEF Shows
  <1>3. ASSUME NEW h \in DOMAIN hooks, NEW t \in Tickets, SetActiveTicket(h, t)
        PROVE  TicketInv'
    <2>1. /\ hooks' = Announced(hooks, t) /\ catalog' = [catalog EXCEPT !.active = t]
          /\ UNCHANGED <<ticketTable, reads, creations>> /\ t \in ToSet(catalog.items)
      BY <1>3 DEF SetActiveTicket, TicketOptions, Shows
    <2>2. ActiveTicketListed'
      BY <1>2, <2>1 DEF ActiveTicketListed
    <2> QED BY <1>2, <2>1, <2>2
  <1>4. ASSUME NEW t \in NewTickets, CreateNewTicket(t)
        PROVE  TicketInv'
    <2>1. /\ hooks' = Announced(hooks, t) /\ catalog' = [catalog EXCEPT !.active = t]
          /\ UNCHANGED <<ticketTable, reads>>
          /\ creations' = [creations EXCEPT ![t] = "sent"]
      BY <1>4 DEF CreateNewTicket
    <2>2. t \in Unconfirmed'
      BY <2>1 DEF Unconfirmed
    <2>3. ActiveTicketListed'
      BY <1>1, <1>2, <2>1, <2>2 DEF ActiveTicketListed
    <2> QED BY <1>1, <1>2, <2>1, <2>3
  <1>5. CASE LoadTickets("page")
    <2>1. /\ reads' = reads \cup {NewRead({}, {"page"})}
          /\ catalog' = [catalog EXCEPT !.inflight = FreshId]
          /\ hooks' = [hooks EXCEPT !["page"].loading = TRUE]
          /\ UNCHANGED <<ticketTable, creations>>
      BY <1>5 DEF LoadTickets
    <2> QED BY <2>1, Loads
  <1> QED BY <1>3, <1>4, <1>5

LEMMA TicketCreated ==
    ASSUME TicketInv, NEW t \in NewTickets, HandleCreateNew(t)
    PROVE  TicketInv'
  <1>1. /\ creations' = [creations EXCEPT ![t] = "sent"]
        /\ catalog' = [catalog EXCEPT !.active = t, !.inflight = FreshId]
        /\ reads' = reads \cup {NewRead({}, {"page"})}
        /\ hooks' = [Announced(hooks, t) EXCEPT !["page"].loading = TRUE]
        /\ UNCHANGED ticketTable
    BY DEF HandleCreateNew
  <1>2. t \in Tickets /\ t # NoTicket
    BY TicketConstants
  <1> DEFINE told == Announced(hooks, t)
  <1>3. /\ AreHooks(told) /\ DOMAIN told = DOMAIN hooks
        /\ \A h \in DOMAIN hooks : told[h].active = t /\ told[h].tickets = hooks[h].tickets
    BY <1>2, Announces DEF TicketInv, TicketType, MaybeTicket
  <1>4. hooks' = [told EXCEPT !["page"].loading = TRUE]
    BY <1>1
  <1> HIDE DEF told
  <1>5. /\ AreHooks(hooks') /\ DOMAIN hooks' = DOMAIN told
        /\ \A h \in DOMAIN told : hooks'[h].active = told[h].active /\ hooks'[h].tickets = told[h].tickets
    BY <1>3, <1>4, LoadingHook
  <1>6. /\ IsCatalog(catalog') /\ catalog'.active = t
        /\ catalog'.items = catalog.items /\ catalog'.loaded = catalog.loaded
    BY <1>1, <1>2 DEF TicketInv, TicketType, IsCatalog, MaybeTicket
  <1>7. \A r \in reads' : IsRead(r)
    BY <1>1, FreshRead DEF TicketInv, TicketType
  <1>8. t \in Unconfirmed'
    BY <1>1 DEF Unconfirmed, TicketInv, TicketType
  <1>9. TicketType'
    BY <1>1, <1>5, <1>6, <1>7 DEF TicketInv, TicketType
  <1>10. HooksFollowStorage' /\ ActiveTicketListed' /\ Shows(hooks', catalog')
    BY <1>3, <1>5, <1>6, <1>8
       DEF TicketInv, HooksFollowStorage, ActiveTicketListed, Shows
  <1> QED BY <1>6, <1>9, <1>10 DEF TicketInv, Shows

LEMMA AnswerStep ==
    ASSUME TicketInv, TicketAnswers
    PROVE  TicketInv'
  <1>1. /\ IsCatalog(catalog) /\ AreHooks(hooks) /\ ticketTable \in Seq(Tickets)
        /\ \A r \in reads : IsRead(r)
        /\ creations \in [NewTickets -> {"unused", "sent", "served", "done", "failed"}]
        /\ Follows(hooks, catalog) /\ Shows(hooks, catalog)
        /\ ~catalog.loaded => catalog.items = <<>>
        /\ NewTickets \subseteq Tickets /\ NoTicket \notin Tickets
    BY TicketConstants DEF TicketInv, TicketType, Follows, HooksFollowStorage
  <1>2. ASSUME NEW r \in reads, ServeRead(r) PROVE TicketInv'
    <2>1. \A s \in reads' : IsRead(s)
      BY <1>1, <1>2 DEF ServeRead, IsRead
    <2> QED BY <1>2, <2>1 DEF ServeRead, TicketInv, TicketType, HooksFollowStorage,
                              ActiveTicketListed, Shows, Unconfirmed
  <1>3. ASSUME NEW r \in reads, ReadAnswered(r) PROVE TicketInv'
    <2> DEFINE c == [loaded |-> TRUE, items |-> r.body, inflight |-> NoRead,
                     active |-> IF r.body = <<>> THEN NoTicket ELSE catalog.active]
               fixed == Repaired(c)
               told == IF fixed.active = catalog.active THEN hooks ELSE Announced(hooks, fixed.active)
    <2>1. SyncAll(fixed, told, DOMAIN hooks) /\ reads' = reads \ {r}
          /\ UNCHANGED <<ticketTable, creations>>
      BY <1>3 DEF ReadAnswered
    <2>2. IsCatalog(c) /\ c.loaded
      BY <1>1 DEF IsCatalog, IsRead, MaybeTicket
    <2> HIDE DEF c
    <2>3. /\ IsCatalog(fixed) /\ fixed.loaded /\ fixed.items = c.items
          /\ fixed.items # <<>> => fixed.active \in ToSet(fixed.items)
      BY <2>2, Repairs
    <2> HIDE DEF fixed
    <2>4. AreHooks(told) /\ DOMAIN told = DOMAIN hooks /\ Follows(told, fixed)
      <3>1. fixed.active \in MaybeTicket
        BY <2>3 DEF IsCatalog
      <3> QED BY <1>1, <3>1, Announces DEF Follows
    <2> HIDE DEF told
    <2> QED BY <1>1, <2>1, <2>3, <2>4, SyncKeeps
  <1>4. ASSUME NEW r \in reads, ReadFailed(r) PROVE TicketInv'
    <2> DEFINE c == [catalog EXCEPT !.inflight = NoRead]
               hs == [h \in DOMAIN hooks |->
                        IF h \in r.loads THEN [hooks[h] EXCEPT !.loading = FALSE] ELSE hooks[h]]
    <2>1. SyncAll(c, hs, r.syncs) /\ reads' = reads \ {r} /\ UNCHANGED <<ticketTable, creations>>
      BY <1>4 DEF ReadFailed
    <2>2. /\ IsCatalog(c) /\ c.items = catalog.items /\ c.active = catalog.active
          /\ c.loaded = catalog.loaded
      BY <1>1 DEF IsCatalog
    <2>3. AreHooks(hs) /\ DOMAIN hs = DOMAIN hooks /\ Follows(hs, c) /\ Shows(hs, c)
      BY <1>1, <2>2, ZenonT(40) DEF AreHooks, Follows, Shows, HookRecords
    <2>4. \/ DOMAIN hs = {} \/ c.items = <<>>
          \/ c.active \in ToSet(c.items) \cup Unconfirmed'
      BY <2>1, <2>2 DEF TicketInv, ActiveTicketListed, Unconfirmed
    <2> HIDE DEF c, hs
    <2> QED BY <1>1, <2>1, <2>2, <2>3, <2>4, SyncKeeps DEF Shows
  <1>5. ASSUME NEW t \in NewTickets, ServeCreation(t) \/ CreationFailed(t) PROVE TicketInv'
    <2>1. /\ UNCHANGED <<catalog, reads, hooks>>
          /\ creations' \in [NewTickets -> {"unused", "sent", "served", "done", "failed"}]
          /\ \A u \in Unconfirmed : u \in Unconfirmed'
      BY <1>1, <1>5 DEF ServeCreation, CreationFailed, Unconfirmed
    <2>2. ticketTable' \in Seq(Tickets)
      <3>1. <<t>> \in Seq(Tickets)
        BY <1>1
      <3>2. <<t>> \o ticketTable \in Seq(Tickets)
        BY <1>1, <3>1
      <3> QED BY <1>1, <1>5, <3>2 DEF ServeCreation, CreationFailed
    <2> QED BY <2>1, <2>2 DEF TicketInv, TicketType, HooksFollowStorage, ActiveTicketListed, Shows
  <1>6. ASSUME NEW t \in NewTickets, CreationAnswered(t) PROVE TicketInv'
    <2> DEFINE rest == ElementsAt(catalog.items, {i \in DOMAIN catalog.items : catalog.items[i] # t})
               c == [catalog EXCEPT !.loaded = TRUE, !.items = <<t>> \o rest]
    <2>1. SyncAll(c, hooks, DOMAIN hooks) /\ UNCHANGED <<ticketTable, reads>>
          /\ creations' = [creations EXCEPT ![t] = "done"]
      BY <1>6 DEF CreationAnswered
    <2>2. rest \in Seq(Tickets)
      BY <1>1, ElementsAtSeq DEF IsCatalog
    <2>3. <<t>> \o rest \in Seq(Tickets)
      <3> HIDE DEF rest
      <3>1. <<t>> \in Seq(Tickets)
        BY <1>1
      <3> QED BY <2>2, <3>1
    <2> HIDE DEF rest
    <2>4. IsCatalog(c) /\ c.loaded /\ c.active = catalog.active
      BY <1>1, <2>3 DEF IsCatalog
    <2> HIDE DEF c
    <2>5. Follows(hooks, c)
      BY <1>1, <2>4 DEF Follows
    <2>6. creations' \in [NewTickets -> {"unused", "sent", "served", "done", "failed"}]
      BY <1>1, <2>1
    <2> QED BY <1>1, <2>1, <2>4, <2>5, <2>6, SyncKeeps
  <1> QED BY <1>2, <1>3, <1>4, <1>5, <1>6 DEF TicketAnswers


-----------------------------------------------------------------------------
(* What a step of the dashboard is to the catalog and to each page. *)
DeskSteps ==
    \/ \E open \in BOOLEAN : runTable' \in DeskServers(open) /\ desk' = MountedDesk
    \/ DeskNext
    \/ UNCHANGED deskVars

IngestSteps ==
    \/ \E open \in BOOLEAN : \E t : ingester' \in IngestServers(open) /\ ingest' = MountedIngest(t)
    \/ \E t : ingest' = IngestFollows(ingest, t) /\ UNCHANGED ingester
    \/ IngestNext
    \/ UNCHANGED ingestVars

PrepSteps ==
    \/ \E t : prep' = MountedPrep(t)
    \/ \E t : prep' = PrepFollows(prep, t)
    \/ PrepNext
    \/ UNCHANGED prepVars

GoldSteps ==
    \/ \E t : gold' = MountedGold(t)
    \/ \E t : gold' = GoldFollows(gold, t)
    \/ GoldNext
    \/ UNCHANGED goldVars

DagSteps ==
    \/ \E t, r : dag' = MountedDag(t, r)
    \/ \E t : dag' = DagFollows(dag, t)
    \/ DagNext
    \/ UNCHANGED dagVars

LEMMA NavigateSteps ==
    ASSUME NEW p, Navigate(p)
    PROVE  TicketSteps /\ DeskSteps /\ IngestSteps /\ PrepSteps /\ GoldSteps /\ DagSteps
  <1>1. TicketSteps
    BY DEF Navigate, TicketSteps
  <1>2. DeskSteps
    BY DEF Navigate, DeskSteps
  <1>3. IngestSteps
    BY DEF Navigate, IngestSteps
  <1>4. PrepSteps /\ GoldSteps
    BY DEF Navigate, PrepSteps, GoldSteps
  <1>5. DagSteps
    BY DEF Navigate, DagSteps
  <1> QED BY <1>1, <1>2, <1>3, <1>4, <1>5

LEMMA FollowSteps ==
    ASSUME Follow
    PROVE  DeskSteps /\ IngestSteps /\ PrepSteps /\ GoldSteps /\ DagSteps
  <1> DEFINE kept == AllPages \ (IF HooksOf(route) = {} THEN {} ELSE {route})
  <1>1. KeepPages(kept)
    BY DEF Follow
  <1>2. \A p \in AllPages : p # route => p \in kept
    OBVIOUS
  <1> HIDE DEF kept
  <1>3. DeskSteps
    BY <1>1, <1>2 DEF Follow, KeepPages, AllPages, DeskSteps
  <1>4. IngestSteps
    BY <1>1, <1>2 DEF Follow, KeepPages, AllPages, IngestSteps
  <1>5. PrepSteps
    BY <1>1, <1>2 DEF Follow, KeepPages, AllPages, PrepSteps
  <1>6. GoldSteps
    BY <1>1, <1>2 DEF Follow, KeepPages, AllPages, GoldSteps
  <1>7. DagSteps
    BY <1>1, <1>2 DEF Follow, KeepPages, AllPages, DagSteps
  <1> QED BY <1>3, <1>4, <1>5, <1>6, <1>7

(* A step of one page leaves the others alone. *)
LEMMA KeepSteps ==
    ASSUME NEW p, KeepPages(AllPages \ {p})
    PROVE  /\ p # "tickets" => DeskSteps
           /\ p # "ingest" => IngestSteps
           /\ p # "preprocessing" => PrepSteps
           /\ p # "enrichment" => GoldSteps
           /\ p # "dag" => DagSteps
  BY DEF KeepPages, AllPages, DeskSteps, IngestSteps, PrepSteps, GoldSteps, DagSteps

LEMMA DeskTickets ==
    ASSUME DeskNext PROVE CatalogSteps
  BY DEF DeskNext, DeskAnswers, SelectTicket, ServeRuns, RunsAnswered, RunsFailed, PipelineProgress,
         WorkflowEvent, RefreshTimer, CatalogSteps

LEMMA IngestTickets ==
    ASSUME IngestNext PROVE UNCHANGED ticketVars
  BY DEF IngestNext, IngestAnswers, ServeLoad, LoadAnswered, LoadFailed, IngestEvent,
         CommandAnswered, CommandFailed, IngesterMoves, StreamReconnects, Launch, Stop

LEMMA PrepTickets ==
    ASSUME PrepNext PROVE UNCHANGED ticketVars
  BY DEF PrepNext, PrepAnswers, ServeGraph, GraphAnswered, GraphFailed, PollGraph, RefreshGraph,
         ServePrepCommand, PrepCommandAnswered, PrepCommandFailed, PrepEvent, RefinerMoves,
         LaunchPreprocessing, StopPreprocessing, ChooseMode

LEMMA GoldTickets ==
    ASSUME GoldNext PROVE UNCHANGED ticketVars
  BY DEF GoldNext, GoldAnswers, ServeOverview, OverviewAnswered, OverviewFailed, PollOverview,
         HistoryAnswered, HistoryFailed, GoldEvent, GoldCommandAnswered, GoldCommandFailed,
         BuilderMoves, GoldReconnects, GoldCommand

LEMMA DagTickets ==
    ASSUME DagNext, DOMAIN hooks = HooksOf("dag") PROVE CatalogSteps
  <1>1. ASSUME NEW t \in Tickets, SelectRunTicket(t) PROVE CatalogSteps
    BY <1>1 DEF SelectRunTicket, CatalogSteps, HooksOf
  <1>2. CASE UNCHANGED ticketVars
    BY <1>2 DEF CatalogSteps
  <1> QED BY <1>1, <1>2 DEF DagNext, ServeDag, DagAnswered, DetailAnswered, DagFailed, RunAnswered,
                            HopAnswered, DagEvent, TimerFires, CloseDrawer, ReturnToLive, SelectHop

(* The hooks are those of the page that is shown. *)
PageHooks == DOMAIN hooks = HooksOf(route)

LEMMA SyncDomain ==
    ASSUME NEW c, NEW hs, NEW S, SyncAll(c, hs, S)
    PROVE  DOMAIN hooks' = DOMAIN hs
  <1>1. \A gs, d : DOMAIN Synced(gs, d, S) = DOMAIN gs
    BY DEF Synced
  <1>2. \A t : DOMAIN Announced(hs, t) = DOMAIN hs
    BY DEF Announced
  <1> QED BY <1>1, <1>2 DEF SyncAll

LEMMA CatalogDomain ==
    ASSUME CatalogSteps
    PROVE  DOMAIN hooks' = DOMAIN hooks
  <1>1. \A t : DOMAIN Announced(hooks, t) = DOMAIN hooks
    BY DEF Announced
  <1>2. ASSUME NEW r \in reads, ReadAnswered(r) PROVE DOMAIN hooks' = DOMAIN hooks
    <2>1. PICK c, t : SyncAll(c, IF c.active = catalog.active THEN hooks ELSE Announced(hooks, t),
                              DOMAIN hooks)
      BY <1>2 DEF ReadAnswered
    <2> QED BY <1>1, <2>1, SyncDomain
  <1>3. ASSUME NEW r \in reads, ReadFailed(r) PROVE DOMAIN hooks' = DOMAIN hooks
    BY <1>3, SyncDomain DEF ReadFailed
  <1>4. ASSUME NEW t \in NewTickets, CreationAnswered(t) PROVE DOMAIN hooks' = DOMAIN hooks
    BY <1>4, SyncDomain DEF CreationAnswered
  <1>5. CASE TicketAnswers
    BY <1>2, <1>3, <1>4, <1>5 DEF TicketAnswers, ServeRead, ServeCreation, CreationFailed
  <1>6. CASE \/ \E h \in DOMAIN hooks, t \in Tickets : SetActiveTicket(h, t)
             \/ \E t \in NewTickets : CreateNewTicket(t)
    BY <1>1, <1>6 DEF SetActiveTicket, CreateNewTicket
  <1>7. ASSUME NEW t \in NewTickets, HandleCreateNew(t) PROVE DOMAIN hooks' = DOMAIN hooks
    <2>1. PICK hs : hs = Announced(hooks, t) /\ hooks' = [hs EXCEPT !["page"].loading = TRUE]
      BY <1>7 DEF HandleCreateNew
    <2> QED BY <1>1, <2>1
  <1>8. CASE LoadTickets("page")
    BY <1>8 DEF LoadTickets
  <1>9. CASE UNCHANGED ticketVars
    BY <1>9 DEF ticketVars
  <1> QED BY <1>5, <1>6, <1>7, <1>8, <1>9 DEF CatalogSteps

LEMMA MountDomain ==
    ASSUME NEW S, MountHooks(S)
    PROVE  DOMAIN hooks' = S
  <1> DEFINE new == [h \in S |-> NewHook(catalog)]
  <1>1. hooks' = new \/ SyncAll(catalog, new, S)
    BY DEF MountHooks
  <1>2. ASSUME SyncAll(catalog, new, S) PROVE DOMAIN hooks' = S
    <2>1. DOMAIN hooks' = DOMAIN new
      <3> HIDE DEF new
      <3> QED BY <1>2, SyncDomain
    <2> QED BY <2>1
  <1> QED BY <1>1, <1>2

(* A step within the page that is shown. *)
LEMMA PageStep ==
    ASSUME PageHooks, CatalogSteps, UNCHANGED route
    PROVE  TicketSteps /\ PageHooks'
  BY CatalogDomain DEF TicketSteps, PageHooks

LEMMA NextSteps ==
    ASSUME PageHooks, [Next]_vars
    PROVE  /\ TicketSteps /\ PageHooks'
           /\ DeskSteps /\ IngestSteps /\ PrepSteps /\ GoldSteps /\ DagSteps
  <1>1. CASE UNCHANGED vars
    <2>1. CatalogSteps /\ UNCHANGED route
      BY <1>1 DEF vars, CatalogSteps
    <2>2. DeskSteps /\ IngestSteps /\ PrepSteps /\ GoldSteps /\ DagSteps
      BY <1>1 DEF vars, DeskSteps, IngestSteps, PrepSteps, GoldSteps, DagSteps
    <2> QED BY <2>1, <2>2, PageStep
  <1>2. ASSUME NEW p, Navigate(p)
        PROVE  /\ TicketSteps /\ PageHooks'
               /\ DeskSteps /\ IngestSteps /\ PrepSteps /\ GoldSteps /\ DagSteps
    <2>1. PageHooks'
      BY <1>2, MountDomain DEF Navigate, PageHooks
    <2> QED BY <1>2, <2>1, NavigateSteps
  <1>3. CASE TicketAnswers /\ Follow /\ UNCHANGED route
    <2>1. CatalogSteps
      BY <1>3 DEF CatalogSteps
    <2> QED BY <1>3, <2>1, FollowSteps, PageStep
  <1>4. CASE /\ \E h \in DOMAIN hooks, t \in Tickets : SetActiveTicket(h, t)
             /\ Follow /\ UNCHANGED route
    <2>1. CatalogSteps
      BY <1>4 DEF CatalogSteps
    <2> QED BY <1>4, <2>1, FollowSteps, PageStep
  <1>5. CASE route = "tickets" /\ DeskNext /\ KeepPages(AllPages \ {route}) /\ UNCHANGED route
    BY <1>5, DeskTickets, KeepSteps, PageStep DEF DeskSteps
  <1>6. CASE route = "ingest" /\ IngestNext /\ KeepPages(AllPages \ {route}) /\ UNCHANGED route
    BY <1>6, IngestTickets, KeepSteps, PageStep DEF IngestSteps, CatalogSteps
  <1>7. CASE route = "preprocessing" /\ PrepNext /\ KeepPages(AllPages \ {route}) /\ UNCHANGED route
    BY <1>7, PrepTickets, KeepSteps, PageStep DEF PrepSteps, CatalogSteps
  <1>8. CASE route = "enrichment" /\ GoldNext /\ KeepPages(AllPages \ {route}) /\ UNCHANGED route
    BY <1>8, GoldTickets, KeepSteps, PageStep DEF GoldSteps, CatalogSteps
  <1>9. CASE route = "dag" /\ DagNext /\ KeepPages(AllPages \ {route}) /\ UNCHANGED route
    <2>1. CatalogSteps
      BY <1>9, DagTickets DEF PageHooks
    <2> QED BY <1>9, <2>1, KeepSteps, PageStep DEF DagSteps
  <1> QED BY <1>1, <1>2, <1>3, <1>4, <1>5, <1>6, <1>7, <1>8, <1>9 DEF Next

-----------------------------------------------------------------------------
(* The catalog's invariant. *)
LEMMA TicketStart ==
    ASSUME Init PROVE TicketInv /\ PageHooks
  <1>1. \E t \in (Tickets \ NewTickets) \cup {NoTicket} :
            catalog = [loaded |-> FALSE, items |-> <<>>, active |-> t, inflight |-> NoRead]
    BY DEF Init, TicketInit
  <1>2. /\ reads = {} /\ creations = [t \in NewTickets |-> "unused"] /\ DOMAIN hooks = {}
        /\ hooks = [h \in {} |-> NewHook(catalog)]
    BY DEF Init, TicketInit
  <1>3. ticketTable \in Seq(Tickets)
    <2>1. ticketTable \in Seq(Tickets \ NewTickets)
      BY TicketConstants DEF Init, TicketInit
    <2> QED BY <2>1
  <1>4. IsCatalog(catalog) /\ catalog.items = <<>> /\ AreHooks(hooks)
    BY <1>1, <1>2 DEF IsCatalog, MaybeTicket, AreHooks
  <1>5. TicketType
    BY <1>2, <1>3, <1>4 DEF TicketType
  <1> QED BY <1>2, <1>4, <1>5
             DEF TicketInv, HooksFollowStorage, ActiveTicketListed, Shows, PageHooks, HooksOf, Init

LEMMA TicketStep ==
    ASSUME TicketInv, TicketSteps
    PROVE  TicketInv'
  <1>1. CASE UNCHANGED ticketVars
    BY <1>1 DEF ticketVars, TicketInv, TicketType, HooksFollowStorage, ActiveTicketListed, Shows,
                Unconfirmed
  <1> QED BY <1>1, AnswerStep, HookStep, TicketCreated, TicketMount DEF TicketSteps, CatalogSteps

LEMMA TicketsAlways == Spec => [](TicketInv /\ PageHooks)
  <1>1. ASSUME TicketInv /\ PageHooks, [Next]_vars PROVE (TicketInv /\ PageHooks)'
    BY <1>1, NextSteps, TicketStep
  <1> QED BY <1>1, TicketStart, PTL DEF Spec

(* Every mounted useRunnerTicket hook shows the ticket in localStorage, for  *)
(* any number of tickets, hooks and catalog requests on their way.           *)
THEOREM HooksFollow == Spec => []HooksFollowStorage
  <1>1. TicketInv => HooksFollowStorage
    BY DEF TicketInv
  <1> QED BY <1>1, TicketsAlways, PTL

(* The active ticket that a page follows is listed in the cached catalog,    *)
(* unless this browser created it and the creation is not confirmed.         *)
THEOREM ActiveListed == Spec => []ActiveTicketListed
  <1>1. TicketInv => ActiveTicketListed
    BY DEF TicketInv
  <1> QED BY <1>1, TicketsAlways, PTL

-----------------------------------------------------------------------------
(* The Ingest page. *)
IngestStatuses == {"none", "not_observed", "planning", "running", "draining", "completed"}
IngestReports == [status : IngestStatuses, downloading : Nat]
IngestEvents ==
    [kind : {"planning", "ready", "status"}, n : {0}]
    \cup [kind : {"progress"}, n : 0 .. MaxIngestWorkers]
    \cup [kind : {"transfer", "transfer_complete"}, n : IngestWorkers]
IsIngestPage(p) ==
    p \in [status : IngestStatuses, downloading : Nat, job : IngestStatuses,
           busy : {"no", "starting", "stopping", "loading"}, signals : SUBSET IngestWorkers,
           highWater : Nat, load : {"none", "sent", "served"}, body : IngestReports,
           topic : {p.topic}, stream : Seq(IngestEvents)]

(* The high-water mark covers the workers of a run, and a command that waits *)
(* for a load has one to wait for.                                           *)
Marked(p) == IsIngesting(p) => p.highWater >= RawSpawned(p)
Awaited(p) == p.busy = "loading" => p.load # "none"

IngestInv ==
    /\ ingester \in IngestReports
    /\ IsIngestPage(ingest) /\ Marked(ingest) /\ Awaited(ingest)

(* The mark is not lowered during a run, and at its end no signal is left. *)
MarkKept(p, q) ==
    /\ IsIngesting(p) /\ IsIngesting(q) => q.highWater >= p.highWater
    /\ IsIngesting(p) /\ ~IsIngesting(q) => q.signals = {}

(* Pages that differ in nothing that the worker field is computed from. *)
SameField(p, q) ==
    /\ q.status = p.status /\ q.downloading = p.downloading /\ q.job = p.job
    /\ q.signals = p.signals /\ q.highWater = p.highWater

LEMMA SpawnedNat ==
    ASSUME NEW p, IsIngestPage(p)
    PROVE  RawSpawned(p) \in Nat
  <1>1. IsFiniteSet(IngestWorkers)
    BY IngestConstants, FS_Interval DEF IngestWorkers
  <1>2. p.signals \subseteq IngestWorkers /\ p.downloading \in Nat
    BY DEF IsIngestPage
  <1>3. Cardinality(p.signals) \in Nat
    BY <1>1, <1>2, FS_Subset, FS_CardinalityType
  <1> QED BY <1>2, <1>3 DEF RawSpawned

LEMMA SameFieldKeeps ==
    ASSUME NEW p, NEW q, IsIngestPage(p), SameField(p, q), Marked(p)
    PROVE  Marked(q) /\ MarkKept(p, q)
  <1>1. (IsIngesting(p) <=> IsIngesting(q)) /\ RawSpawned(p) = RawSpawned(q)
    BY DEF SameField, IsIngesting, ReportedStatus, RawSpawned
  <1>2. p.highWater \in Nat /\ q.highWater = p.highWater
    BY DEF IsIngestPage, SameField
  <1> QED BY <1>1, <1>2 DEF Marked, MarkKept

(* What follows every change of the page's state keeps the mark. *)
LEMMA RenderedKeeps ==
    ASSUME IngestInv, NEW p, IsIngestPage(p), p.highWater = ingest.highWater
    PROVE  /\ IsIngestPage(Rendered(p)) /\ Marked(Rendered(p)) /\ MarkKept(ingest, Rendered(p))
           /\ Rendered(p).busy = p.busy /\ Rendered(p).load = p.load
  <1> DEFINE q == Rendered(p)
             over == [p EXCEPT !.signals = {}, !.highWater = 0]
             raised == [p EXCEPT !.highWater = RawSpawned(p)]
  <1>1. RawSpawned(p) \in Nat /\ p.highWater \in Nat
    BY SpawnedNat DEF IsIngestPage
  <1>2. CASE IsIngesting(ingest) /\ ~IsIngesting(p)
    <2>1. q = over
      BY <1>2 DEF Rendered
    <2>2. IsIngestPage(over) /\ over.busy = p.busy /\ over.load = p.load /\ over.signals = {}
      BY DEF IsIngestPage
    <2>3. ~IsIngesting(over)
      BY <1>2 DEF IsIngestPage, IsIngesting, ReportedStatus
    <2> HIDE DEF over, q
    <2> QED BY <2>1, <2>2, <2>3 DEF Marked, MarkKept, q
  <1>3. CASE ~(IsIngesting(ingest) /\ ~IsIngesting(p)) /\ IsIngesting(p) /\ RawSpawned(p) > p.highWater
    <2>1. q = raised
      BY <1>3 DEF Rendered
    <2>2. /\ IsIngestPage(raised) /\ raised.busy = p.busy /\ raised.load = p.load
          /\ raised.highWater = RawSpawned(p)
      BY <1>1 DEF IsIngestPage
    <2>3. IsIngesting(raised) /\ RawSpawned(raised) = RawSpawned(p)
      BY <1>3 DEF IsIngestPage, IsIngesting, ReportedStatus, RawSpawned
    <2> HIDE DEF raised, q
    <2> QED BY <1>1, <1>3, <2>1, <2>2, <2>3 DEF Marked, MarkKept, q
  <1>4. CASE ~(IsIngesting(ingest) /\ ~IsIngesting(p)) /\ ~(IsIngesting(p) /\ RawSpawned(p) > p.highWater)
    <2>1. q = p
      BY <1>4 DEF Rendered
    <2> HIDE DEF q
    <2> QED BY <1>1, <1>4, <2>1 DEF Marked, MarkKept, q
  <1> QED BY <1>2, <1>3, <1>4

(* The rows of the worker field are those of the mark. *)
LEMMA FieldKept ==
    ASSUME NEW p, NEW q, IsIngestPage(p), IsIngestPage(q), Marked(p), Marked(q), MarkKept(p, q)
    PROVE  /\ IsIngesting(p) /\ IsIngesting(q) => DOMAIN WorkerRows(p) \subseteq DOMAIN WorkerRows(q)
           /\ IsIngesting(p) /\ ~IsIngesting(q) => \A i \in DOMAIN WorkerRows(q) : WorkerRows(q)[i] # "signal"
  <1>1. /\ RawSpawned(p) \in Nat /\ RawSpawned(q) \in Nat
        /\ p.highWater \in Nat /\ q.highWater \in Nat
    BY SpawnedNat DEF IsIngestPage
  <1>2. ASSUME IsIngesting(p), IsIngesting(q)
        PROVE  DOMAIN WorkerRows(p) \subseteq DOMAIN WorkerRows(q)
    <2>1. /\ SpawnedWorkers(p) \in Nat /\ SpawnedWorkers(q) \in Nat
          /\ SpawnedWorkers(p) <= SpawnedWorkers(q)
      BY <1>1, <1>2 DEF SpawnedWorkers, Marked, MarkKept
    <2>2. 1 .. SpawnedWorkers(p) \subseteq 1 .. SpawnedWorkers(q)
      BY <2>1
    <2> QED BY <2>2 DEF WorkerRows
  <1>3. ASSUME IsIngesting(p), ~IsIngesting(q), NEW i \in DOMAIN WorkerRows(q)
        PROVE  WorkerRows(q)[i] # "signal"
    <2>1. i \notin q.signals
      BY <1>3 DEF MarkKept
    <2>2. WorkerRows(q)[i] = CASE i \in q.signals    -> "signal"
                               [] i \notin q.signals /\ i <= q.downloading -> "product"
                               [] OTHER              -> "awaiting"
      BY DEF WorkerRows
    <2> QED BY <2>1, <2>2
  <1> QED BY <1>2, <1>3

LEMMA LoadKeeps ==
    ASSUME NEW p, IsIngestPage(p)
    PROVE  /\ IsIngestPage(Load(p)) /\ SameField(p, Load(p)) /\ Load(p).busy = p.busy
           /\ Load(p).load # "none" /\ Load(p).topic = p.topic /\ Load(p).stream = p.stream
  BY DEF Load, IsIngestPage, SameField

LEMMA LoadEndedKeeps ==
    ASSUME NEW p, IsIngestPage(p)
    PROVE  /\ IsIngestPage(LoadEnded(p)) /\ SameField(p, LoadEnded(p)) /\ Awaited(LoadEnded(p))
           /\ LoadEnded(p).highWater = p.highWater
  BY DEF LoadEnded, IsIngestPage, SameField, Awaited, NoReport, IngestReports, NotReported, IngestStatuses

LEMMA AppliedKeeps ==
    ASSUME NEW p, IsIngestPage(p), NEW e \in IngestEvents
    PROVE  /\ IsIngestPage(Applied(p, e)) /\ Applied(p, e).highWater = p.highWater
           /\ Applied(p, e).busy = p.busy
           /\ Applied(p, e).load = p.load \/ Applied(p, e).load # "none"
  <1>0. IngestWorkers \subseteq Nat /\ 0 .. MaxIngestWorkers \subseteq Nat
    BY IngestConstants DEF IngestWorkers
  <1>1. CASE e.kind = "planning"
    BY <1>1 DEF Applied, IsIngestPage, IngestStatuses
  <1>2. CASE e.kind = "progress"
    <2>1. e.n \in Nat
      BY <1>0, <1>2 DEF IngestEvents
    <2> QED BY <1>2, <2>1 DEF Applied, IsIngestPage
  <1>3. CASE e.kind = "transfer"
    <2>1. e.n \in IngestWorkers
      BY <1>3 DEF IngestEvents
    <2> QED BY <1>3, <2>1 DEF Applied, IsIngestPage
  <1>4. CASE e.kind = "transfer_complete"
    BY <1>4 DEF Applied, IsIngestPage
  <1>5. CASE e.kind \in {"ready", "status"}
    BY <1>5, LoadKeeps DEF Applied, SameField
  <1> QED BY <1>1, <1>2, <1>3, <1>4, <1>5 DEF IngestEvents

(* A step on the open page; a page that mounts is not ingesting. *)
LEMMA IngestPageStep ==
    ASSUME IngestInv, IngestNext
    PROVE  IngestInv' /\ MarkKept(ingest, ingest')
  <1> DEFINE ready == <<Event("ready", 0)>>
  <1>0. /\ IsIngestPage(ingest) /\ Marked(ingest) /\ Awaited(ingest) /\ ingester \in IngestReports
        /\ ingest.stream \in Seq(IngestEvents) /\ ready \in Seq(IngestEvents)
        /\ IngestWorkers \subseteq Nat /\ 0 .. MaxIngestWorkers \subseteq Nat
    <2>1. Event("ready", 0) \in IngestEvents
      BY DEF IngestEvents, Event
    <2> QED BY <2>1, IngestConstants DEF IngestInv, IsIngestPage, IngestWorkers
  <1> HIDE DEF ready
  <1>a. ASSUME IsIngestPage(ingest'), SameField(ingest, ingest'), Awaited(ingest'), ingester' \in IngestReports
        PROVE  IngestInv' /\ MarkKept(ingest, ingest')
    BY <1>0, <1>a, SameFieldKeeps DEF IngestInv
  <1>b. ASSUME NEW p, ingest' = Rendered(p), IsIngestPage(p), p.highWater = ingest.highWater,
               Awaited(p), ingester' \in IngestReports
        PROVE  IngestInv' /\ MarkKept(ingest, ingest')
    BY <1>b, RenderedKeeps DEF IngestInv, Awaited
  <1>1. CASE ServeLoad
    <2>1. ingest' = [ingest EXCEPT !.load = "served", !.body = ingester] /\ ingester' = ingester
      BY <1>1 DEF ServeLoad
    <2> QED BY <1>0, <1>a, <2>1 DEF IsIngestPage, SameField, Awaited
  <1>2. CASE LoadAnswered
    <2> DEFINE p == [ingest EXCEPT !.status = ingest.body.status, !.downloading = ingest.body.downloading]
    <2>1. IsIngestPage(p) /\ p.highWater = ingest.highWater
      BY <1>0 DEF IsIngestPage, IngestReports
    <2>2. ingest' = Rendered(LoadEnded(p)) /\ ingester' = ingester
      BY <1>2 DEF LoadAnswered
    <2> HIDE DEF p
    <2> QED BY <1>0, <1>b, <2>1, <2>2, LoadEndedKeeps
  <1>3. CASE LoadFailed
    BY <1>0, <1>3, <1>a, LoadEndedKeeps DEF LoadFailed
  <1>4. CASE IngestEvent
    <2> DEFINE p == [ingest EXCEPT !.stream = Tail(ingest.stream)]
               e == Head(ingest.stream)
    <2>1. ingest' = Rendered(Applied(p, e)) /\ ingester' = ingester /\ ingest.stream # <<>>
      BY <1>4 DEF IngestEvent
    <2>2. e \in IngestEvents /\ Tail(ingest.stream) \in Seq(IngestEvents)
      BY <1>0, <2>1
    <2>3. IsIngestPage(p) /\ p.highWater = ingest.highWater /\ Awaited(p)
      BY <1>0, <2>2 DEF IsIngestPage, Awaited
    <2> HIDE DEF p, e
    <2>4. IsIngestPage(Applied(p, e)) /\ Applied(p, e).highWater = ingest.highWater /\ Awaited(Applied(p, e))
      BY <2>2, <2>3, AppliedKeeps DEF Awaited
    <2> QED BY <1>0, <1>b, <2>1, <2>4
  <1>5. CASE CommandAnswered
    <2> DEFINE accepted == [ingester EXCEPT !.status = IF ingest.busy = "starting" THEN "planning"
                                                       ELSE "draining"]
               p == Load(ingest)
               q == [p EXCEPT !.busy = "loading", !.job = accepted.status,
                              !.stream = Append(p.stream, Event("status", 0))]
    <2>1. accepted \in IngestReports /\ accepted.status \in IngestStatuses
      BY <1>0 DEF IngestReports, IngestStatuses
    <2>2. /\ IsIngestPage(p) /\ p.highWater = ingest.highWater /\ p.load # "none"
          /\ p.stream \in Seq(IngestEvents)
      BY <1>0, LoadKeeps DEF SameField
    <2>3. ingest' = Rendered(q) /\ ingester' = accepted
      <3>1. Load(ingest).stream = ingest.stream
        BY <1>0, LoadKeeps
      <3> QED BY <1>5, <3>1 DEF CommandAnswered
    <2> HIDE DEF p, accepted
    <2>4. Append(p.stream, Event("status", 0)) \in Seq(IngestEvents)
      <3>1. Event("status", 0) \in IngestEvents
        BY DEF Event, IngestEvents
      <3> QED BY <2>2, <3>1
    <2>5. IsIngestPage(q) /\ q.highWater = ingest.highWater /\ Awaited(q)
      BY <2>1, <2>2, <2>4 DEF IsIngestPage, Awaited
    <2> HIDE DEF q
    <2> QED BY <1>b, <2>1, <2>3, <2>5
  <1>6. CASE CommandFailed
    <2>1. ingest' = [ingest EXCEPT !.busy = "no"] /\ ingester' = ingester
      BY <1>6 DEF CommandFailed
    <2> QED BY <1>0, <1>a, <2>1 DEF IsIngestPage, SameField, Awaited
  <1>7. CASE IngesterMoves
    <2>1. PICK e \in IngestEvents : /\ ingest' = [ingest EXCEPT !.stream = Append(ingest.stream, e)]
                                    /\ ingester' \in IngestReports
      <3>1. \A k \in {"planning", "status"} : Event(k, 0) \in IngestEvents
        BY DEF Event, IngestEvents
      <3>2. \A n \in 0 .. MaxIngestWorkers : Event("progress", n) \in IngestEvents
        BY DEF Event, IngestEvents
      <3>3. \A w \in IngestWorkers, k \in {"transfer", "transfer_complete"} : Event(k, w) \in IngestEvents
        BY DEF Event, IngestEvents
      <3>4. /\ [ingester EXCEPT !.status = "running"] \in IngestReports
            /\ \A n \in Nat : [ingester EXCEPT !.downloading = n] \in IngestReports
            /\ [status |-> "completed", downloading |-> 0] \in IngestReports
        BY <1>0 DEF IngestReports, IngestStatuses
      <3> QED BY <1>0, <1>7, <3>1, <3>2, <3>3, <3>4 DEF IngesterMoves
    <2>2. Append(ingest.stream, e) \in Seq(IngestEvents)
      BY <1>0
    <2>3. IsIngestPage(ingest') /\ SameField(ingest, ingest') /\ Awaited(ingest')
      BY <1>0, <2>1, <2>2 DEF IsIngestPage, SameField, Awaited
    <2> QED BY <1>a, <2>1, <2>3
  <1>8. CASE StreamReconnects
    <2>1. ingest' = [ingest EXCEPT !.stream = ready] /\ ingester' = ingester
      BY <1>8 DEF StreamReconnects, ready
    <2> QED BY <1>0, <1>a, <2>1 DEF IsIngestPage, SameField, Awaited
  <1>9. CASE Launch
    <2> DEFINE p == [ingest EXCEPT !.busy = "starting", !.signals = {}]
    <2>1. ingest' = Rendered(p) /\ ingester' = ingester
      BY <1>9 DEF Launch
    <2>2. IsIngestPage(p) /\ p.highWater = ingest.highWater /\ Awaited(p)
      BY <1>0 DEF IsIngestPage, Awaited
    <2> HIDE DEF p
    <2> QED BY <1>0, <1>b, <2>1, <2>2
  <1>10. CASE Stop
    <2>1. ingest' = [ingest EXCEPT !.busy = "stopping"] /\ ingester' = ingester
      BY <1>10 DEF Stop
    <2> QED BY <1>0, <1>a, <2>1 DEF IsIngestPage, SameField, Awaited
  <1> QED BY <1>1, <1>2, <1>3, <1>4, <1>5, <1>6, <1>7, <1>8, <1>9, <1>10 DEF IngestNext, IngestAnswers

LEMMA IngestMount ==
    ASSUME NEW t, NEW open, ingester' \in IngestServers(open), ingest' = MountedIngest(t)
    PROVE  IngestInv' /\ ~IsIngesting(ingest')  /\ ingest'.signals = {}
  <1>1. ingester' \in IngestReports
    BY DEF IngestServers, IngesterIdle, IngestReports, IngestStatuses
  <1>2. <<Event("ready", 0)>> \in Seq(IngestEvents)
    <2>1. Event("ready", 0) \in IngestEvents
      BY DEF Event, IngestEvents
    <2> QED BY <2>1
  <1>3. IsIngestPage(ingest')
    BY <1>2 DEF MountedIngest, IsIngestPage, NotReported, NoReport, IngestReports, IngestStatuses
  <1>4. ~IsIngesting(ingest') /\ ingest'.signals = {} /\ Awaited(ingest')
    BY DEF MountedIngest, IsIngesting, ReportedStatus, NotReported, Busy, Awaited
  <1> QED BY <1>1, <1>3, <1>4 DEF IngestInv, Marked

LEMMA IngestStep ==
    ASSUME IngestInv, IngestSteps
    PROVE  IngestInv' /\ MarkKept(ingest, ingest')
  <1>1. CASE \E open \in BOOLEAN : \E t : ingester' \in IngestServers(open) /\ ingest' = MountedIngest(t)
    BY <1>1, IngestMount DEF MarkKept
  <1>2. ASSUME NEW t, ingest' = IngestFollows(ingest, t), ingester' = ingester
        PROVE  IngestInv' /\ MarkKept(ingest, ingest')
    <2> DEFINE p == Load(ingest)
               q == [p EXCEPT !.topic = t, !.stream = <<Event("ready", 0)>>]
    <2>1. ingest' = ingest \/ ingest' = q
      BY <1>2 DEF IngestFollows
    <2>2. /\ IsIngestPage(ingest) /\ Marked(ingest) /\ Awaited(ingest)
          /\ IsIngestPage(p) /\ SameField(ingest, p) /\ p.load # "none" /\ p.busy = ingest.busy
      BY LoadKeeps DEF IngestInv
    <2>3. <<Event("ready", 0)>> \in Seq(IngestEvents)
      <3>1. Event("ready", 0) \in IngestEvents
        BY DEF Event, IngestEvents
      <3> QED BY <3>1
    <2> HIDE DEF p
    <2>4. IsIngestPage(q) /\ SameField(ingest, q) /\ Awaited(q)
      BY <2>2, <2>3 DEF IsIngestPage, SameField, Awaited
    <2> HIDE DEF q
    <2>5. IsIngestPage(ingest') /\ SameField(ingest, ingest') /\ Awaited(ingest')
      BY <2>1, <2>2, <2>4 DEF SameField
    <2> QED BY <1>2, <2>2, <2>5, SameFieldKeeps DEF IngestInv
  <1>3. CASE IngestNext
    BY <1>3, IngestPageStep
  <1>4. CASE UNCHANGED ingestVars
    <2>1. SameField(ingest, ingest') /\ ingest' = ingest /\ ingester' = ingester
      BY <1>4 DEF ingestVars, SameField
    <2> QED BY <2>1, SameFieldKeeps DEF IngestInv
  <1> QED BY <1>1, <1>2, <1>3, <1>4 DEF IngestSteps

LEMMA IngestAlways == Spec => []IngestInv
  <1>1. ASSUME Init PROVE IngestInv
    <2>1. ingester \in IngestReports
      BY <1>1 DEF Init, IngestServers, IngesterIdle, IngestReports, IngestStatuses
    <2>2. <<Event("ready", 0)>> \in Seq(IngestEvents)
      <3>1. Event("ready", 0) \in IngestEvents
        BY DEF Event, IngestEvents
      <3> QED BY <3>1
    <2>3. ingest = MountedIngest(NoTicket)
      BY <1>1 DEF Init
    <2>4. IsIngestPage(ingest)
      BY <2>2, <2>3 DEF MountedIngest, IsIngestPage, NotReported, NoReport, IngestReports, IngestStatuses
    <2>5. ~IsIngesting(ingest) /\ Awaited(ingest)
      BY <2>3 DEF MountedIngest, IsIngesting, ReportedStatus, NotReported, Busy, Awaited
    <2> QED BY <2>1, <2>4, <2>5 DEF IngestInv, Marked
  <1>2. ASSUME IngestInv, PageHooks, [Next]_vars PROVE IngestInv'
    BY <1>2, NextSteps, IngestStep
  <1>3. TicketInv /\ PageHooks => PageHooks
    OBVIOUS
  <1> QED BY <1>1, <1>2, <1>3, TicketsAlways, PTL DEF Spec

(* While a run goes on no row of the worker field goes away, and once it is  *)
(* over no row claims a signal, for any number of workers and of events on   *)
(* their way and any interleaving of commands, snapshots and ticket changes. *)
THEOREM WorkerFieldKept == Spec => WorkerFieldHolds
  <1> DEFINE holds ==
        /\ IsIngesting(ingest) /\ IsIngesting(ingest') =>
             DOMAIN WorkerRows(ingest) \subseteq DOMAIN WorkerRows(ingest')
        /\ IsIngesting(ingest) /\ ~IsIngesting(ingest') =>
             \A i \in DOMAIN WorkerRows(ingest') : WorkerRows(ingest')[i] # "signal"
  <1>1. ASSUME IngestInv, PageHooks, [Next]_vars PROVE holds
    <2>1. IngestInv' /\ MarkKept(ingest, ingest')
      BY <1>1, NextSteps, IngestStep
    <2> QED BY <1>1, <2>1, FieldKept DEF IngestInv
  <1> HIDE DEF holds
  <1>2. Spec => [][holds]_ingest
    BY <1>1, IngestAlways, TicketsAlways, PTL DEF Spec
  <1> QED BY <1>2 DEF WorkerFieldHolds, holds

-----------------------------------------------------------------------------
(* The Preprocessing page: a button that is disabled for a command has the   *)
(* command on its way.                                                       *)
PrepInv ==
    /\ prep \in [run : {prep.run}, job : {prep.job}, loaded : {prep.loaded},
                 startBusy : BOOLEAN, stopBusy : BOOLEAN, command : {prep.command},
                 served : {prep.served}, mode : {prep.mode}, timer : {prep.timer},
                 events : {prep.events}, topic : {prep.topic}, reads : {prep.reads}]
    /\ prep.stopBusy \/ prep.startBusy => prep.command # NoRun

(* A page that keeps its buttons and its command. *)
LEMMA PrepKept ==
    ASSUME NEW p, PrepInv,
           p \in [run : {p.run}, job : {p.job}, loaded : {p.loaded},
                  startBusy : {prep.startBusy}, stopBusy : {prep.stopBusy}, command : {prep.command},
                  served : {p.served}, mode : {p.mode}, timer : {p.timer},
                  events : {p.events}, topic : {p.topic}, reads : {p.reads}],
           prep' = p
    PROVE  PrepInv'
  BY DEF PrepInv

LEMMA PrepStep ==
    ASSUME PrepInv, PrepSteps
    PROVE  PrepInv'
  <1> DEFINE kept(p) ==
        p \in [run : {p.run}, job : {p.job}, loaded : {p.loaded},
               startBusy : {prep.startBusy}, stopBusy : {prep.stopBusy}, command : {prep.command},
               served : {p.served}, mode : {p.mode}, timer : {p.timer},
               events : {p.events}, topic : {p.topic}, reads : {p.reads}]
  <1>0. kept(prep) /\ (\A p : kept(p) => kept(LoadGraph(p)))
    BY DEF PrepInv, LoadGraph
  <1>a. ASSUME kept(prep') PROVE PrepInv'
    BY <1>a, PrepKept
  <1>1. CASE \E t : prep' = MountedPrep(t)
    BY <1>1 DEF MountedPrep, PrepInv
  <1>2. ASSUME NEW t, prep' = PrepFollows(prep, t) PROVE PrepInv'
    <2> DEFINE p == [prep EXCEPT !.topic = t, !.reads = {}, !.events = {},
                                 !.timer = IF prep.timer = "set" THEN "cleared" ELSE prep.timer]
    <2>1. prep' = prep \/ prep' = LoadGraph(p)
      BY <1>0, <1>2 DEF PrepFollows
    <2>2. kept(p)
      BY <1>0
    <2> HIDE DEF p, kept
    <2> QED BY <1>0, <1>a, <2>1, <2>2
  <1>3. CASE \E r \in prep.reads : ServeGraph(r) \/ GraphAnswered(r) \/ GraphFailed(r)
    <2>1. CASE \E r \in prep.reads : ServeGraph(r) \/ GraphFailed(r)
      <3>1. PICK R : prep' = [prep EXCEPT !.reads = R]
        BY <2>1 DEF ServeGraph, GraphFailed
      <3>2. kept(prep')
        BY <1>0, <3>1
      <3> QED BY <1>a, <3>2
    <2>2. ASSUME NEW r \in prep.reads, GraphAnswered(r) PROVE PrepInv'
      <3> DEFINE job == IF r.body.ticket # NoTicket THEN r.body ELSE prep.job
      <3>1. prep' = [prep EXCEPT !.reads = prep.reads \ {r}, !.run = r.body, !.loaded = TRUE, !.job = job]
        BY <1>0, <2>2 DEF GraphAnswered
      <3> HIDE DEF job
      <3>2. kept(prep')
        BY <1>0, <3>1
      <3> QED BY <1>a, <3>2
    <2> QED BY <1>3, <2>1, <2>2
  <1>4. CASE PollGraph
    <2> HIDE DEF kept
    <2> QED BY <1>0, <1>4, <1>a DEF PollGraph
  <1>5. CASE RefreshGraph
    <2> DEFINE p == LoadGraph(prep)
    <2>1. prep' = [p EXCEPT !.timer = "unset"] /\ kept(p)
      BY <1>0, <1>5 DEF RefreshGraph
    <2> HIDE DEF p
    <2>2. kept(prep')
      BY <2>1
    <2> QED BY <1>a, <2>2
  <1>6. CASE ServePrepCommand \/ (\E job \in prep.events : PrepEvent(job)) \/ RefinerMoves
             \/ \E m \in {"stream", "batch"} : ChooseMode(m)
    <2>1. kept(prep')
      BY <1>0, <1>6, ZenonT(40) DEF ServePrepCommand, PrepEvent, RefinerMoves, ChooseMode
    <2> QED BY <1>a, <2>1
  <1>7. CASE PrepCommandAnswered \/ PrepCommandFailed
    <2>1. PICK p : kept(p) /\ prep' = CommandEnded(p)
      <3>1. kept([prep EXCEPT !.job = prep.command,
                    !.run = IF prep.stopBusy /\ prep.loaded THEN prep.command ELSE prep.run])
        BY <1>0
      <3> QED BY <1>0, <1>7, <3>1 DEF PrepCommandAnswered, PrepCommandFailed
    <2> QED BY <2>1 DEF CommandEnded, PrepInv
  <1>8. CASE LaunchPreprocessing
    BY <1>8 DEF LaunchPreprocessing, PrepInv, PrepRun, NoRun
  <1>9. CASE StopPreprocessing
    BY <1>9 DEF StopPreprocessing, PrepInv, PrepRun, NoRun
  <1>10. CASE UNCHANGED prepVars
    BY <1>10 DEF prepVars, PrepInv
  <1> QED BY <1>1, <1>2, <1>3, <1>4, <1>5, <1>6, <1>7, <1>8, <1>9, <1>10
             DEF PrepSteps, PrepNext, PrepAnswers

-----------------------------------------------------------------------------
(* The Enrichment page: a command that waits for the overview has a request  *)
(* on its way, and the badge of the ledger shows while the ledger is read.   *)
IsGoldPage(p) ==
    p \in [loaded : {p.loaded}, overview : {p.overview}, request : {p.request}, body : {p.body},
           detail : {p.detail}, history : [ticket : {p.history.ticket}, phase : {"none", "sent"}],
           historyLoading : BOOLEAN, workers : {p.workers}, busy : {p.busy},
           topic : {p.topic}, stream : {p.stream}]
GoldWaits(p) ==
    /\ IsGoldPage(p)
    /\ p.busy = "loading" => p.request # "none"
    /\ p.historyLoading <=> p.history.phase = "sent"

LEMMA LoadHistoryWaits ==
    ASSUME NEW p, GoldWaits(p), NEW t
    PROVE  GoldWaits(LoadHistory(p, t))
  <1>1. CASE t = NoTicket
    BY <1>1 DEF GoldWaits, IsGoldPage, LoadHistory
  <1>2. CASE t # NoTicket /\ p.history.phase # "none"
    BY <1>2 DEF LoadHistory
  <1>3. CASE t # NoTicket /\ p.history.phase = "none"
    BY <1>3 DEF GoldWaits, IsGoldPage, LoadHistory
  <1> QED BY <1>1, <1>2, <1>3

LEMMA ObservedWaits ==
    ASSUME NEW p, GoldWaits(p)
    PROVE  GoldWaits(Observed(p))
  BY LoadHistoryWaits DEF Observed

LEMMA LoadOverviewWaits ==
    ASSUME NEW p, GoldWaits(p)
    PROVE  GoldWaits(LoadOverview(p)) /\ LoadOverview(p).request # "none"
  BY DEF GoldWaits, IsGoldPage, LoadOverview

LEMMA OverviewEndedWaits ==
    ASSUME NEW p, GoldWaits(p)
    PROVE  GoldWaits(OverviewEnded(p))
  BY DEF GoldWaits, IsGoldPage, OverviewEnded

LEMMA GoldStep ==
    ASSUME GoldWaits(gold), GoldSteps
    PROVE  GoldWaits(gold')
  <1>1. CASE \E t : gold' = MountedGold(t)
    BY <1>1 DEF MountedGold, NoHistory, GoldWaits, IsGoldPage
  <1>2. ASSUME NEW t, gold' = GoldFollows(gold, t) PROVE GoldWaits(gold')
    <2>1. PICK p : GoldWaits(p) /\ (gold' = gold \/ gold' = [p EXCEPT !.topic = t, !.stream = <<>>])
      BY <1>2, LoadOverviewWaits DEF GoldFollows
    <2> QED BY <2>1, ZenonT(40) DEF GoldWaits, IsGoldPage
  <1>3. CASE ServeOverview
    BY <1>3 DEF ServeOverview, GoldWaits, IsGoldPage
  <1>4. CASE OverviewAnswered
    <2> DEFINE p == [gold EXCEPT !.overview = gold.body, !.loaded = TRUE]
    <2>1. GoldWaits(p)
      BY DEF GoldWaits, IsGoldPage
    <2>2. gold' = Observed(OverviewEnded(p))
      BY <1>4 DEF OverviewAnswered
    <2> HIDE DEF p
    <2> QED BY <2>1, <2>2, OverviewEndedWaits, ObservedWaits
  <1>5. CASE OverviewFailed
    BY <1>5, OverviewEndedWaits DEF OverviewFailed
  <1>6. CASE PollOverview
    BY <1>6, LoadOverviewWaits DEF PollOverview
  <1>7. CASE HistoryAnswered \/ HistoryFailed
    <2>1. PICK detail : gold' = [gold EXCEPT !.detail = detail, !.history = NoHistory,
                                             !.historyLoading = FALSE]
      BY <1>7 DEF HistoryAnswered, HistoryFailed
    <2> QED BY <2>1 DEF GoldWaits, IsGoldPage, NoHistory
  <1>8. CASE GoldEvent
    <2> DEFINE e == Head(gold.stream)
               p == [gold EXCEPT !.stream = Tail(gold.stream)]
               told == [p EXCEPT !.overview.snapshot = e.snapshot]
               q == [p EXCEPT !.workers[e.worker] = e.action]
    <2>1. GoldWaits(p)
      BY DEF GoldWaits, IsGoldPage
    <2>2. GoldWaits(told) /\ GoldWaits(q)
      <3> HIDE DEF p, e
      <3> QED BY <2>1 DEF GoldWaits, IsGoldPage
    <2>3. \/ gold' = Observed(told) \/ gold' = p
          \/ gold' = LoadHistory(q, e.of) \/ gold' = q
      BY <1>8 DEF GoldEvent
    <2> HIDE DEF p, e, told, q
    <2> QED BY <2>1, <2>2, <2>3, ObservedWaits, LoadHistoryWaits
  <1>9. CASE BuilderMoves \/ GoldReconnects
    BY <1>9 DEF BuilderMoves, GoldReconnects, GoldWaits, IsGoldPage
  <1>10. ASSUME NEW c \in {"launch", "freeze"}, GoldCommand(c) PROVE GoldWaits(gold')
    BY <1>10 DEF GoldCommand, GoldWaits, IsGoldPage
  <1>11. CASE GoldCommandAnswered
    <2>1. PICK p : /\ GoldWaits(p) /\ p.request # "none"
                   /\ gold' = [p EXCEPT !.busy = "loading"] \/ gold' = [gold EXCEPT !.busy = "no"]
      BY <1>11, LoadOverviewWaits DEF GoldCommandAnswered
    <2> QED BY <2>1 DEF GoldWaits, IsGoldPage
  <1>12. CASE GoldCommandFailed
    BY <1>12 DEF GoldCommandFailed, GoldWaits, IsGoldPage
  <1>13. CASE UNCHANGED goldVars
    BY <1>13 DEF goldVars
  <1> QED BY <1>1, <1>2, <1>3, <1>4, <1>5, <1>6, <1>7, <1>8, <1>9, <1>10, <1>11, <1>12, <1>13
             DEF GoldSteps, GoldNext, GoldAnswers

-----------------------------------------------------------------------------
(* The Pipeline DAG page: what it shows as loading has a visible request on  *)
(* its way.                                                                  *)
IsDagPage(p) ==
    p \in [run : {p.run}, historical : {p.historical}, historyLoading : BOOLEAN,
           runReads : {p.runReads}, loading : BOOLEAN, graph : {p.graph},
           overviews : {p.overviews}, evidence : {p.evidence}, cache : {p.cache},
           timer : {p.timer}, topic : {p.topic}, nodes : {p.nodes}, hop : {p.hop},
           hopReads : {p.hopReads}, hopData : {p.hopData}]
IsOverview(r) == r \in [phase : {r.phase}, ticket : {r.ticket}, loud : BOOLEAN, body : {r.body}]
DagWaits(p) ==
    /\ IsDagPage(p)
    /\ \A r \in p.overviews : IsOverview(r)
    /\ p.loading => \E r \in p.overviews : r.loud
    /\ p.historyLoading => \E r \in p.runReads : r.loud

(* The drawer has evidence of its hop or none, none when it is closed, and   *)
(* asks for evidence of hops only.                                           *)
DrawerInv(p) ==
    /\ p.hopData # NoHopData => p.hopData.hop = p.hop
    /\ p.hop = NoHop => p.hopData = NoHopData
    /\ \A q \in p.hopReads : q.hop # NoHop

(* The drawers of p and q have the same evidence; q's is closed or at the    *)
(* same hop.                                                                 *)
SameDrawer(p, q) ==
    /\ q.hopData = p.hopData /\ q.hopReads = p.hopReads
    /\ q.hop = p.hop \/ q.hop = NoHop

LEMMA Inspects ==
    ASSUME DrawerInv(dag), NEW p, DagWaits(p), p.hopData = dag.hopData, p.hopReads = dag.hopReads,
           p.hop = dag.hop \/ p.hop = NoHop \/ dag.hop = NoHop
    PROVE  DagWaits(Inspecting(p)) /\ DrawerInv(Inspecting(p))
  <1>1. CASE Drawer(p) = Drawer(dag)
    <2>1. p.hop = dag.hop
      BY <1>1 DEF Drawer, NoDrawer
    <2>2. Inspecting(p) = p
      BY <1>1 DEF Inspecting
    <2> QED BY <2>1, <2>2 DEF DrawerInv
  <1>2. CASE Drawer(p) # Drawer(dag) /\ p.hop = NoHop
    <2>1. Inspecting(p) = [p EXCEPT !.hopData = NoHopData]
      BY <1>2 DEF Inspecting
    <2> QED BY <1>2, <2>1 DEF DagWaits, IsDagPage, DrawerInv
  <1>3. CASE Drawer(p) # Drawer(dag) /\ p.hop # NoHop
    <2> DEFINE q == Drawer(p)
    <2>1. Inspecting(p) = [p EXCEPT !.hopReads = p.hopReads \cup {q}]
      BY <1>3 DEF Inspecting, DagWaits, IsDagPage
    <2>2. q.hop # NoHop
      BY <1>3 DEF Drawer
    <2>3. p.hopData # NoHopData => p.hopData.hop = p.hop
      BY <1>3 DEF DrawerInv
    <2> HIDE DEF q
    <2> QED BY <1>3, <2>1, <2>2, <2>3 DEF DagWaits, IsDagPage, DrawerInv
  <1> QED BY <1>1, <1>2, <1>3

LEMMA Paints ==
    ASSUME NEW p, DagWaits(p), DrawerInv(p)
    PROVE  DagWaits(Painted(p)) /\ DrawerInv(Painted(p))
  <1>1. PICK nodes : Painted(p) = [p EXCEPT !.nodes = nodes]
    BY DEF Painted
  <1> QED BY <1>1 DEF DagWaits, IsDagPage, DrawerInv

LEMMA Settles ==
    ASSUME DrawerInv(dag), NEW p, DagWaits(p), p.hopData = dag.hopData, p.hopReads = dag.hopReads,
           p.hop = dag.hop \/ p.hop = NoHop \/ dag.hop = NoHop
    PROVE  DagWaits(Painted(Inspecting(p))) /\ DrawerInv(Painted(Inspecting(p)))
  BY Inspects, Paints

LEMMA LoadDagWaits ==
    ASSUME NEW p, DagWaits(p), NEW loud \in BOOLEAN
    PROVE  /\ DagWaits(LoadDag(p, loud)) /\ SameDrawer(p, LoadDag(p, loud))
           /\ LoadDag(p, loud).run = p.run
  <1> DEFINE r == OverviewRead(p.topic, loud)
             q == LoadDag(p, loud)
  <1>1. IsOverview(r) /\ r.loud = loud
    BY DEF OverviewRead, IsOverview
  <1>2. q = [p EXCEPT !.overviews = p.overviews \cup {r}, !.loading = p.loading \/ loud]
    BY DEF LoadDag, DagWaits, IsDagPage
  <1> HIDE DEF r, q
  <1>3. /\ IsDagPage(q) /\ q.overviews = p.overviews \cup {r}
        /\ (q.loading => p.loading \/ loud)
        /\ q.historyLoading = p.historyLoading /\ q.runReads = p.runReads
        /\ q.run = p.run /\ SameDrawer(p, q)
    BY <1>2 DEF DagWaits, IsDagPage, SameDrawer
  <1>4. q.loading => \E s \in q.overviews : s.loud
    BY <1>1, <1>3 DEF DagWaits
  <1>5. \A s \in q.overviews : IsOverview(s)
    BY <1>1, <1>3 DEF DagWaits
  <1>6. q.historyLoading => \E s \in q.runReads : s.loud
    BY <1>3 DEF DagWaits
  <1> QED BY <1>3, <1>4, <1>5, <1>6 DEF DagWaits, q

LEMMA LoadRunWaits ==
    ASSUME NEW p, DagWaits(p), NEW loud \in BOOLEAN
    PROVE  DagWaits(LoadRun(p, loud)) /\ SameDrawer(p, LoadRun(p, loud))
  <1> DEFINE q == LoadRun(p, loud)
  <1>1. CASE p.run = NoTicket
    BY <1>1 DEF LoadRun, DagWaits, IsDagPage, SameDrawer
  <1>2. CASE p.run # NoTicket
    <2> DEFINE r == [run |-> p.run, loud |-> loud]
               shown == IF loud THEN NoTicket ELSE p.historical
    <2>1. q = [p EXCEPT !.runReads = p.runReads \cup {r}, !.historyLoading = p.historyLoading \/ loud,
                        !.historical = shown]
      BY <1>2 DEF LoadRun, DagWaits, IsDagPage
    <2>2. r.loud = loud
      OBVIOUS
    <2> HIDE DEF r, q, shown
    <2>3. /\ IsDagPage(q) /\ q.runReads = p.runReads \cup {r}
          /\ (q.historyLoading => p.historyLoading \/ loud)
          /\ q.loading = p.loading /\ q.overviews = p.overviews /\ SameDrawer(p, q)
      BY <2>1 DEF DagWaits, IsDagPage, SameDrawer
    <2>4. q.historyLoading => \E s \in q.runReads : s.loud
      BY <2>2, <2>3 DEF DagWaits
    <2>5. /\ \A s \in q.overviews : IsOverview(s)
          /\ q.loading => \E s \in q.overviews : s.loud
      BY <2>3 DEF DagWaits
    <2> QED BY <2>3, <2>4, <2>5 DEF DagWaits, q
  <1> QED BY <1>1, <1>2

LEMMA RunSelectedWaits ==
    ASSUME NEW p, DagWaits(p), NEW r
    PROVE  DagWaits(RunSelected(p, r)) /\ SameDrawer(p, RunSelected(p, r))
  <1>1. CASE r = p.run
    BY <1>1 DEF RunSelected, SameDrawer
  <1>2. CASE r # p.run
    <2> DEFINE q == [p EXCEPT !.run = r, !.hop = NoHop, !.timer = FALSE]
    <2>1. DagWaits(q) /\ SameDrawer(p, q) /\ q.hop = NoHop
      BY DEF DagWaits, IsDagPage, SameDrawer
    <2>2. RunSelected(p, r) = LoadRun(q, TRUE)
      BY <1>2 DEF RunSelected
    <2> HIDE DEF q
    <2> QED BY <2>1, <2>2, LoadRunWaits DEF SameDrawer
  <1> QED BY <1>1, <1>2

LEMMA TicketFollowedWaits ==
    ASSUME NEW p, DagWaits(p), NEW t
    PROVE  DagWaits(TicketFollowed(p, t)) /\ SameDrawer(p, TicketFollowed(p, t))
  <1>1. CASE t = p.topic
    BY <1>1 DEF TicketFollowed, SameDrawer
  <1>2. CASE t # p.topic
    <2> DEFINE q == [p EXCEPT !.topic = t, !.timer = FALSE]
    <2>1. DagWaits(q) /\ SameDrawer(p, q)
      BY DEF DagWaits, IsDagPage, SameDrawer
    <2>2. TicketFollowed(p, t) = LoadDag(q, TRUE)
      BY <1>2 DEF TicketFollowed
    <2> HIDE DEF q
    <2> QED BY <2>1, <2>2, LoadDagWaits DEF SameDrawer
  <1> QED BY <1>1, <1>2

LEMMA OverviewDoneWaits ==
    ASSUME NEW p, DagWaits(p), NEW r \in p.overviews
    PROVE  DagWaits(OverviewDone(p, r)) /\ SameDrawer(p, OverviewDone(p, r))
  <1> DEFINE q == OverviewDone(p, r)
             still == IF r.loud THEN FALSE ELSE p.loading
  <1>1. r.loud \in BOOLEAN /\ still \in BOOLEAN
    BY DEF DagWaits, IsOverview, IsDagPage
  <1>2. q = [p EXCEPT !.overviews = p.overviews \ {r}, !.loading = still]
    BY DEF OverviewDone, DagWaits, IsDagPage
  <1>3. still => p.loading /\ ~r.loud
    BY <1>1
  <1> HIDE DEF q, still
  <1>4. /\ IsDagPage(q) /\ q.overviews = p.overviews \ {r} /\ q.loading = still
        /\ q.historyLoading = p.historyLoading /\ q.runReads = p.runReads /\ SameDrawer(p, q)
    BY <1>1, <1>2 DEF DagWaits, IsDagPage, SameDrawer
  <1>5. q.loading => \E s \in q.overviews : s.loud
    BY <1>3, <1>4 DEF DagWaits
  <1> QED BY <1>4, <1>5 DEF DagWaits, q

(* A request that goes on to its next phase stays as loud as it was. *)
LEMMA OverviewGoesOn ==
    ASSUME NEW p, DagWaits(p), NEW r \in p.overviews, NEW phase, NEW body,
           NEW q, q = [p EXCEPT !.overviews = (p.overviews \ {r}) \cup
                                    {[r EXCEPT !.phase = phase, !.body = body]}]
    PROVE  DagWaits(q) /\ SameDrawer(p, q)
  <1> DEFINE s == [r EXCEPT !.phase = phase, !.body = body]
  <1>1. IsOverview(s) /\ s.loud = r.loud
    BY DEF DagWaits, IsOverview
  <1>2. q = [p EXCEPT !.overviews = (p.overviews \ {r}) \cup {s}]
    OBVIOUS
  <1> HIDE DEF s
  <1>3. /\ IsDagPage(q) /\ q.overviews = (p.overviews \ {r}) \cup {s} /\ q.loading = p.loading
        /\ q.historyLoading = p.historyLoading /\ q.runReads = p.runReads /\ SameDrawer(p, q)
    BY <1>2 DEF DagWaits, IsDagPage, SameDrawer
  <1>4. q.loading => \E x \in q.overviews : x.loud
    <2>1. ASSUME q.loading PROVE \E x \in q.overviews : x.loud
      <3>1. PICK x \in p.overviews : x.loud
        BY <1>3, <2>1 DEF DagWaits
      <3> QED BY <1>1, <1>3, <3>1
    <2> QED BY <2>1
  <1>5. \A x \in q.overviews : IsOverview(x)
    BY <1>1, <1>3 DEF DagWaits
  <1> QED BY <1>3, <1>4, <1>5 DEF DagWaits

LEMMA DagAnswerStep ==
    ASSUME DagWaits(dag), DrawerInv(dag), NEW r \in dag.overviews,
           ServeDag(r) \/ DagAnswered(r) \/ DetailAnswered(r) \/ DagFailed(r)
    PROVE  DagWaits(dag') /\ DrawerInv(dag')
  <1>a. ASSUME NEW p, DagWaits(p), SameDrawer(dag, p), dag' = Painted(Inspecting(p))
        PROVE  DagWaits(dag') /\ DrawerInv(dag')
    BY <1>a, Settles DEF SameDrawer
  <1>b. ASSUME NEW p, DagWaits(p), SameDrawer(dag, p), r \in p.overviews,
               dag' = Painted(Inspecting(OverviewDone(p, r)))
        PROVE  DagWaits(dag') /\ DrawerInv(dag')
    <2>1. DagWaits(OverviewDone(p, r)) /\ SameDrawer(p, OverviewDone(p, r))
      BY <1>b, OverviewDoneWaits
    <2>2. SameDrawer(dag, OverviewDone(p, r))
      BY <1>b, <2>1 DEF SameDrawer
    <2> QED BY <1>a, <1>b, <2>1, <2>2
  <1>1. CASE ServeDag(r)
    <2>1. dag' = [dag EXCEPT !.overviews = (dag.overviews \ {r}) \cup
                      {[r EXCEPT !.phase = "served", !.body = factory]}]
      BY <1>1 DEF ServeDag, DagWaits, IsDagPage
    <2>2. DagWaits(dag') /\ SameDrawer(dag, dag')
      BY <2>1, OverviewGoesOn
    <2>3. dag'.hop = dag.hop
      BY <2>1 DEF DagWaits, IsDagPage
    <2> QED BY <2>2, <2>3 DEF SameDrawer, DrawerInv
  <1>2. CASE DagAnswered(r)
    <2> DEFINE key == [ticket |-> IF r.body.ticket # NoTicket THEN r.body.ticket ELSE r.ticket,
                       snapshot |-> r.body.snapshot]
               p == [dag EXCEPT !.graph = TRUE]
               p1 == [p EXCEPT !.cache = FactoryIdle, !.evidence = FactoryIdle]
               p2 == [p EXCEPT !.evidence = p.cache]
               p3 == [p EXCEPT !.overviews = (p.overviews \ {r}) \cup
                                   {[r EXCEPT !.phase = "detail", !.body = key]}]
    <2>1. DagWaits(p) /\ SameDrawer(dag, p) /\ r \in p.overviews
      BY DEF DagWaits, IsDagPage, SameDrawer
    <2>2. \/ dag' = Painted(Inspecting(OverviewDone(p1, r)))
          \/ dag' = Painted(Inspecting(OverviewDone(p2, r)))
          \/ dag' = Painted(Inspecting(p3))
      <3>1. p3 = [p EXCEPT !.overviews = (@ \ {r}) \cup {[r EXCEPT !.phase = "detail", !.body = key]}]
        <4> HIDE DEF p
        <4> QED BY <2>1 DEF DagWaits, IsDagPage
      <3> HIDE DEF p3
      <3> QED BY <1>2, <3>1 DEF DagAnswered, DagSettles
    <2>3. DagWaits(p3) /\ SameDrawer(p, p3)
      <3> HIDE DEF p, key
      <3> QED BY <2>1, OverviewGoesOn
    <2>4. /\ DagWaits(p1) /\ SameDrawer(p, p1) /\ r \in p1.overviews
          /\ DagWaits(p2) /\ SameDrawer(p, p2) /\ r \in p2.overviews
      <3> HIDE DEF p
      <3> QED BY <2>1 DEF DagWaits, IsDagPage, SameDrawer
    <2> HIDE DEF p, p1, p2, p3
    <2>5. SameDrawer(dag, p1) /\ SameDrawer(dag, p2) /\ SameDrawer(dag, p3)
      BY <2>1, <2>3, <2>4 DEF SameDrawer
    <2> QED BY <1>a, <1>b, <2>2, <2>3, <2>4, <2>5
  <1>3. CASE DetailAnswered(r)
    <2>1. PICK cache, evidence :
            LET p == [dag EXCEPT !.cache = cache, !.evidence = evidence]
            IN dag' = Painted(Inspecting(OverviewDone(p, r)))
      <3>1. [dag EXCEPT !.evidence = FactoryIdle]
              = [dag EXCEPT !.cache = dag.cache, !.evidence = FactoryIdle]
        BY DEF DagWaits, IsDagPage
      <3> QED BY <1>3, <3>1 DEF DetailAnswered, DagSettles
    <2> DEFINE p == [dag EXCEPT !.cache = cache, !.evidence = evidence]
    <2>2. DagWaits(p) /\ SameDrawer(dag, p) /\ r \in p.overviews
      BY DEF DagWaits, IsDagPage, SameDrawer
    <2>3. dag' = Painted(Inspecting(OverviewDone(p, r)))
      BY <2>1
    <2> HIDE DEF p
    <2> QED BY <1>b, <2>2, <2>3
  <1>4. CASE DagFailed(r)
    <2>1. SameDrawer(dag, dag) /\ dag' = Painted(Inspecting(OverviewDone(dag, r)))
      BY <1>4 DEF DagFailed, DagSettles, SameDrawer
    <2> QED BY <1>b, <2>1
  <1> QED BY <1>1, <1>2, <1>3, <1>4

LEMMA DagRunStep ==
    ASSUME DagWaits(dag), DrawerInv(dag), NEW r \in dag.runReads, RunAnswered(r)
    PROVE  DagWaits(dag') /\ DrawerInv(dag')
  <1>1. PICK shown : dag' = Painted(Inspecting(
          [dag EXCEPT !.runReads = dag.runReads \ {r}, !.historical = shown,
                      !.historyLoading = IF r.loud THEN FALSE ELSE dag.historyLoading]))
    BY DEF RunAnswered, DagSettles, DagWaits, IsDagPage
  <1> DEFINE still == IF r.loud THEN FALSE ELSE dag.historyLoading
             p == [dag EXCEPT !.runReads = dag.runReads \ {r}, !.historical = shown,
                              !.historyLoading = still]
  <1>2. still \in BOOLEAN /\ (still => dag.historyLoading /\ ~r.loud)
    BY DEF DagWaits, IsDagPage
  <1>3. dag' = Painted(Inspecting(p))
    BY <1>1
  <1> HIDE DEF still
  <1>4. /\ IsDagPage(p) /\ SameDrawer(dag, p) /\ p.loading = dag.loading
        /\ p.overviews = dag.overviews
        /\ p.runReads = dag.runReads \ {r} /\ p.historyLoading = still
    BY <1>2 DEF DagWaits, IsDagPage, SameDrawer
  <1> HIDE DEF p
  <1>5. p.historyLoading => \E s \in p.runReads : s.loud
    BY <1>2, <1>4 DEF DagWaits
  <1>6. DagWaits(p)
    BY <1>4, <1>5 DEF DagWaits
  <1> QED BY <1>3, <1>4, <1>6, Settles DEF SameDrawer

LEMMA DagHopStep ==
    ASSUME DagWaits(dag), DrawerInv(dag), NEW q \in dag.hopReads, HopAnswered(q)
    PROVE  DagWaits(dag') /\ DrawerInv(dag')
  <1>1. PICK data \in [hop : {q.hop}, observed : BOOLEAN] \cup {dag.hopData} :
          dag' = [dag EXCEPT !.hopReads = dag.hopReads \ {q},
                             !.hopData = IF Cancelled(q) THEN dag.hopData ELSE data]
    BY DEF HopAnswered, DagWaits, IsDagPage
  <1> DEFINE now == IF Cancelled(q) THEN dag.hopData ELSE data
  <1>2. ~Cancelled(q) => q.hop = dag.hop /\ dag.hop # NoHop
    <2>1. q.hop # NoHop
      BY DEF DrawerInv
    <2> QED BY <2>1 DEF Cancelled, Drawer, NoDrawer
  <1>3. now = dag.hopData \/ (now.hop = dag.hop /\ dag.hop # NoHop)
    BY <1>1, <1>2
  <1>4. dag' = [dag EXCEPT !.hopReads = dag.hopReads \ {q}, !.hopData = now]
    BY <1>1
  <1> HIDE DEF now
  <1>5. DagWaits(dag')
    BY <1>4 DEF DagWaits, IsDagPage
  <1>6. dag'.hopData = now /\ dag'.hop = dag.hop /\ dag'.hopReads = dag.hopReads \ {q}
    BY <1>4 DEF DagWaits, IsDagPage
  <1> QED BY <1>3, <1>5, <1>6 DEF DrawerInv

LEMMA DagPageStep ==
    ASSUME DagWaits(dag), DrawerInv(dag), DagNext
    PROVE  DagWaits(dag') /\ DrawerInv(dag')
  <1>a. ASSUME NEW p, DagWaits(p), SameDrawer(dag, p), dag' = Painted(Inspecting(p))
        PROVE  DagWaits(dag') /\ DrawerInv(dag')
    BY <1>a, Settles DEF SameDrawer
  <1>0. SameDrawer(dag, dag)
    BY DEF SameDrawer
  <1>1. CASE DagEvent
    BY <1>1 DEF DagEvent, DagWaits, IsDagPage, DrawerInv
  <1>2. CASE TimerFires
    <2> DEFINE p == [dag EXCEPT !.timer = FALSE]
               q == LoadDag(p, FALSE)
    <2>1. DagWaits(p) /\ SameDrawer(dag, p)
      BY DEF DagWaits, IsDagPage, SameDrawer
    <2>2. dag' = Painted(Inspecting(IF q.run = NoTicket THEN q ELSE LoadRun(q, FALSE)))
      BY <1>2 DEF TimerFires, DagSettles
    <2> HIDE DEF p
    <2>3. DagWaits(q) /\ SameDrawer(p, q)
      BY <2>1, LoadDagWaits
    <2> HIDE DEF q
    <2>4. DagWaits(LoadRun(q, FALSE)) /\ SameDrawer(q, LoadRun(q, FALSE))
      BY <2>3, LoadRunWaits
    <2>5. SameDrawer(dag, q) /\ SameDrawer(dag, LoadRun(q, FALSE))
      BY <2>1, <2>3, <2>4 DEF SameDrawer
    <2> QED BY <1>a, <2>2, <2>3, <2>4, <2>5
  <1>3. CASE CloseDrawer
    <2>1. DagWaits([dag EXCEPT !.hop = NoHop]) /\ SameDrawer(dag, [dag EXCEPT !.hop = NoHop])
      BY DEF DagWaits, IsDagPage, SameDrawer
    <2> QED BY <1>3, <1>a, <2>1 DEF CloseDrawer, DagSettles
  <1>4. CASE ReturnToLive
    BY <1>4, <1>a, RunSelectedWaits DEF ReturnToLive, DagSettles
  <1>5. ASSUME NEW h \in Hops(dag), SelectHop(h) PROVE DagWaits(dag') /\ DrawerInv(dag')
    <2> DEFINE p == [dag EXCEPT !.hop = h]
    <2>1. DagWaits(p) /\ p.hopData = dag.hopData /\ p.hopReads = dag.hopReads
      BY DEF DagWaits, IsDagPage
    <2>2. dag.hop = NoHop /\ dag' = Painted(Inspecting(p))
      BY <1>5 DEF SelectHop, DagSettles
    <2> HIDE DEF p
    <2> QED BY <2>1, <2>2, Settles
  <1>6. ASSUME NEW t \in Tickets, SelectRunTicket(t) PROVE DagWaits(dag') /\ DrawerInv(dag')
    <2> DEFINE p == TicketFollowed(dag, hooks'["page"].active)
               q == RunSelected(p, t)
    <2>1. dag' = Painted(Inspecting(q))
      BY <1>6 DEF SelectRunTicket, DagSettles
    <2>2. DagWaits(p) /\ SameDrawer(dag, p)
      BY TicketFollowedWaits
    <2> HIDE DEF p
    <2>3. DagWaits(q) /\ SameDrawer(p, q)
      BY <2>2, RunSelectedWaits
    <2> HIDE DEF q
    <2>4. SameDrawer(dag, q)
      BY <2>2, <2>3 DEF SameDrawer
    <2> QED BY <1>a, <2>1, <2>3, <2>4
  <1> QED BY <1>1, <1>2, <1>3, <1>4, <1>5, <1>6, DagAnswerStep, DagRunStep, DagHopStep DEF DagNext

LEMMA DagMount ==
    ASSUME NEW t, NEW r, NEW p, p = MountedDag(t, r)
    PROVE  DagWaits(p) /\ DrawerInv(p)
  <1> DEFINE first == OverviewRead(t, TRUE)
             runs == IF r = NoTicket THEN {} ELSE {[run |-> r, loud |-> TRUE]}
             dated == r # NoTicket
  <1>1. IsOverview(first) /\ first.loud
    BY DEF OverviewRead, IsOverview
  <1>2. dated \in BOOLEAN /\ (dated => \E s \in runs : s.loud)
    OBVIOUS
  <1> HIDE DEF first, runs, dated
  <1>3. p = [run |-> r, historical |-> NoTicket, historyLoading |-> dated, runReads |-> runs,
             loading |-> TRUE, graph |-> FALSE, overviews |-> {first},
             evidence |-> FactoryIdle, cache |-> FactoryIdle, timer |-> FALSE, topic |-> t,
             nodes |-> {}, hop |-> NoHop, hopReads |-> {}, hopData |-> NoHopData]
    BY DEF MountedDag, first, runs, dated
  <1>4. IsDagPage(p)
    BY <1>2, <1>3 DEF IsDagPage
  <1>5. /\ \A s \in p.overviews : IsOverview(s)
        /\ \E s \in p.overviews : s.loud
        /\ p.historyLoading => \E s \in p.runReads : s.loud
    <2>1. p.overviews = {first} /\ p.runReads = runs
      BY <1>3
    <2>2. p.historyLoading = dated
      BY <1>3
    <2> QED BY <1>1, <1>2, <2>1, <2>2
  <1> QED BY <1>3, <1>4, <1>5 DEF DagWaits, DrawerInv

LEMMA DagStep ==
    ASSUME DagWaits(dag), DrawerInv(dag), DagSteps
    PROVE  DagWaits(dag') /\ DrawerInv(dag')
  <1>1. ASSUME NEW t, dag' = DagFollows(dag, t) PROVE DagWaits(dag') /\ DrawerInv(dag')
    <2>1. DagWaits(TicketFollowed(dag, t)) /\ SameDrawer(dag, TicketFollowed(dag, t))
      BY TicketFollowedWaits
    <2> QED BY <1>1, <2>1, Settles DEF DagFollows, SameDrawer
  <1>2. CASE UNCHANGED dagVars
    BY <1>2 DEF dagVars
  <1> QED BY <1>1, <1>2, DagPageStep, DagMount DEF DagSteps

LEMMA DagAlways == Spec => [](DagWaits(dag) /\ DrawerInv(dag))
  <1>1. ASSUME Init PROVE DagWaits(dag) /\ DrawerInv(dag)
    BY <1>1, DagMount DEF Init
  <1>2. ASSUME DagWaits(dag) /\ DrawerInv(dag), PageHooks, [Next]_vars
        PROVE  (DagWaits(dag) /\ DrawerInv(dag))'
    <2>1. DagWaits(dag') /\ DrawerInv(dag')
      BY <1>2, NextSteps, DagStep
    <2> QED BY <2>1 DEF DagWaits, IsDagPage, IsOverview, DrawerInv
  <1> QED BY <1>1, <1>2, TicketsAlways, PTL DEF Spec

(* The evidence that the drawer of the Pipeline DAG page draws was read for  *)
(* its hop, whichever hops were opened and closed before and in whichever    *)
(* order their evidence arrives, for any set of hops.                        *)
THEOREM DrawerOfItsHop == Spec => []DrawerShowsItsHop
  <1>1. ASSUME DagWaits(dag), DrawerInv(dag) PROVE DrawerShowsItsHop
    <2>1. CASE dag.hopData # NoHopData
      BY <1>1, <2>1 DEF DrawerInv, DrawerShowsItsHop
    <2>2. CASE dag.hopData = NoHopData
      <3> DEFINE m == MergedMetrics([input_records |-> 0], [input_records |-> 0])
      <3>1. DrawerChart(dag) = HopChart(dag.hop, m)
        BY <2>2 DEF DrawerChart, NoHopData
      <3>2. DOMAIN m = {"input_records"}
        BY DEF MergedMetrics
      <3> HIDE DEF m
      <3>3. ~("readiness_observed" \in DOMAIN m) /\ ~("catalog_observed" \in DOMAIN m)
        BY <3>2
      <3>4. HopChart(dag.hop, m) \notin {"pairing", "catalog"}
        BY <3>3 DEF HopChart
      <3> QED BY <2>2, <3>1, <3>4 DEF DrawerShowsItsHop
    <2> QED BY <2>1, <2>2
  <1> QED BY <1>1, DagAlways, PTL

-----------------------------------------------------------------------------
(* The Runner Tickets page: it holds at most as many runs as it asks for,    *)
(* and shows that it loads while a visible request is on its way.            *)
Histories == {s \in Seq(RunRecords) : Len(s) <= FACTORY_RUN_HISTORY_LIMIT}
IsDesk(d) ==
    d \in [runs : Histories, selected : {d.selected}, loading : BOOLEAN, timer : {d.timer},
           event : {d.event}, reads : {d.reads}]
IsRunRead(r) == r \in [id : {r.id}, loud : BOOLEAN, phase : {r.phase}, body : Histories]
DeskWaits(d) ==
    /\ IsDesk(d)
    /\ \A r \in d.reads : IsRunRead(r)
    /\ d.loading => \E r \in d.reads : r.loud
DeskInv == runTable \in Seq(RunRecords) /\ DeskWaits(desk)

LEMMA NoHistoryYet == <<>> \in Histories
  BY DEF Histories, FACTORY_RUN_HISTORY_LIMIT

LEMMA LoadRunsWaits ==
    ASSUME NEW d, DeskWaits(d), NEW loud \in BOOLEAN
    PROVE  DeskWaits(LoadRuns(d, loud))
  <1> DEFINE r == [id |-> NextId(d), loud |-> loud, phase |-> "sent", body |-> <<>>]
             q == LoadRuns(d, loud)
             now == IF loud THEN TRUE ELSE d.loading
  <1>1. IsRunRead(r) /\ r.loud = loud
    BY NoHistoryYet DEF IsRunRead
  <1>2. now \in BOOLEAN /\ (now => loud \/ d.loading)
    BY DEF DeskWaits, IsDesk
  <1>3. q = [d EXCEPT !.reads = d.reads \cup {r}, !.loading = now]
    BY DEF LoadRuns, DeskWaits, IsDesk
  <1> HIDE DEF r, q, now
  <1>4. IsDesk(q) /\ q.reads = d.reads \cup {r} /\ q.loading = now
    BY <1>2, <1>3 DEF DeskWaits, IsDesk
  <1>5. q.loading => \E s \in q.reads : s.loud
    BY <1>1, <1>2, <1>4 DEF DeskWaits
  <1>6. \A s \in q.reads : IsRunRead(s)
    BY <1>1, <1>4 DEF DeskWaits
  <1> QED BY <1>4, <1>5, <1>6 DEF DeskWaits, q

LEMMA SelectedWaits ==
    ASSUME NEW d, DeskWaits(d), NEW t
    PROVE  DeskWaits(Selected(d, t))
  <1>1. DeskWaits([d EXCEPT !.selected = t])
    BY DEF DeskWaits, IsDesk
  <1> QED BY <1>1, LoadRunsWaits DEF Selected

(* A request ends, with a history or without. *)
LEMMA RunReadEnds ==
    ASSUME NEW d, DeskWaits(d), NEW r \in d.reads, NEW runs \in Histories
    PROVE  DeskWaits([d EXCEPT !.reads = d.reads \ {r}, !.runs = runs,
                               !.loading = IF r.loud THEN FALSE ELSE d.loading])
  <1> DEFINE still == IF r.loud THEN FALSE ELSE d.loading
             q == [d EXCEPT !.reads = d.reads \ {r}, !.runs = runs, !.loading = still]
  <1>1. still \in BOOLEAN /\ (still => d.loading /\ ~r.loud)
    BY DEF DeskWaits, IsDesk, IsRunRead
  <1> HIDE DEF still
  <1>2. IsDesk(q) /\ q.reads = d.reads \ {r} /\ q.loading = still
    BY <1>1 DEF DeskWaits, IsDesk
  <1> HIDE DEF q
  <1>3. q.loading => \E s \in q.reads : s.loud
    BY <1>1, <1>2 DEF DeskWaits
  <1>4. DeskWaits(q)
    BY <1>2, <1>3 DEF DeskWaits
  <1> QED BY <1>4 DEF q, still

LEMMA DeskMount ==
    ASSUME NEW d, d = MountedDesk PROVE DeskWaits(d)
  <1> DEFINE first == [id |-> 1, loud |-> TRUE, phase |-> "sent", body |-> <<>>]
  <1>1. IsRunRead(first) /\ first.loud
    BY NoHistoryYet DEF IsRunRead
  <1>2. d = [runs |-> <<>>, selected |-> NoTicket, loading |-> TRUE, timer |-> FALSE, event |-> FALSE,
             reads |-> {first}]
    BY DEF MountedDesk
  <1> HIDE DEF first
  <1>3. IsDesk(d) /\ d.reads = {first}
    BY <1>2, NoHistoryYet DEF IsDesk
  <1> QED BY <1>1, <1>3 DEF DeskWaits

LEMMA DeskServed ==
    ASSUME NEW open, NEW table \in DeskServers(open) PROVE table \in Seq(RunRecords)
  <1>1. <<>> \in Seq(RunRecords) /\ RunTables \subseteq Seq(RunRecords)
    BY DeskConstants
  <1>2. table \in RunTables \/ table = <<>>
    BY DEF DeskServers
  <1> QED BY <1>1, <1>2

LEMMA DeskStep ==
    ASSUME DeskInv, DeskSteps
    PROVE  DeskInv'
  <1>0. /\ DeskWaits(desk) /\ runTable \in Seq(RunRecords) /\ IsDesk(desk)
        /\ RunTables \subseteq Seq(RunRecords)
    BY DeskConstants DEF DeskInv, DeskWaits
  <1>1. ASSUME NEW open \in BOOLEAN, runTable' \in DeskServers(open), desk' = MountedDesk
        PROVE  DeskInv'
    <2>1. runTable' \in Seq(RunRecords)
      BY <1>1, DeskServed
    <2>2. DeskWaits(desk')
      BY <1>1, DeskMount
    <2> QED BY <2>1, <2>2 DEF DeskInv, DeskWaits, IsDesk, IsRunRead
  <1>a. ASSUME DeskWaits(desk'), runTable' \in Seq(RunRecords) PROVE DeskInv'
    BY <1>a DEF DeskInv, DeskWaits, IsDesk, IsRunRead
  <1>2. ASSUME NEW r \in desk.reads, ServeRuns(r) PROVE DeskInv'
    <2> DEFINE s == [r EXCEPT !.phase = "served", !.body = Listed(runTable)]
    <2>1. Listed(runTable) \in Histories
      <3>1. Len(runTable) \in Nat
        BY <1>0
      <3>2. \A n \in 0 .. Len(runTable) : SubSeq(runTable, 1, n) \in Seq(RunRecords)
                                          /\ Len(SubSeq(runTable, 1, n)) = n
        BY <1>0
      <3> QED BY <3>1, <3>2 DEF Listed, Histories, FACTORY_RUN_HISTORY_LIMIT
    <2>2. IsRunRead(s) /\ s.loud = r.loud
      BY <1>0, <2>1 DEF DeskWaits, IsRunRead
    <2>3. desk' = [desk EXCEPT !.reads = (desk.reads \ {r}) \cup {s}] /\ runTable' = runTable
      BY <1>0, <1>2 DEF ServeRuns, IsDesk
    <2> HIDE DEF s
    <2>4. IsDesk(desk') /\ desk'.reads = (desk.reads \ {r}) \cup {s} /\ desk'.loading = desk.loading
      BY <1>0, <2>3 DEF IsDesk
    <2>5. ASSUME desk'.loading PROVE \E x \in desk'.reads : x.loud
      <3>1. PICK x \in desk.reads : x.loud
        BY <1>0, <2>4, <2>5 DEF DeskWaits
      <3> QED BY <2>2, <2>4, <3>1
    <2>6. \A x \in desk'.reads : IsRunRead(x)
      BY <1>0, <2>2, <2>4 DEF DeskWaits
    <2>7. DeskWaits(desk')
      BY <2>4, <2>5, <2>6 DEF DeskWaits
    <2> QED BY <1>0, <1>a, <2>3, <2>7
  <1>3. ASSUME NEW r \in desk.reads, RunsAnswered(r) PROVE DeskInv'
    <2> DEFINE done == [desk EXCEPT !.reads = desk.reads \ {r}, !.runs = r.body,
                                    !.loading = IF r.loud THEN FALSE ELSE desk.loading]
    <2>1. r.body \in Histories
      BY <1>0 DEF DeskWaits, IsRunRead
    <2>2. DeskWaits(done)
      BY <1>0, <2>1, RunReadEnds
    <2>3. (desk' = Selected(done, Head(r.body).ticket) \/ desk' = done) /\ runTable' = runTable
      BY <1>0, <1>3 DEF RunsAnswered, IsDesk
    <2> HIDE DEF done
    <2> QED BY <1>0, <1>a, <2>2, <2>3, SelectedWaits
  <1>4. ASSUME NEW r \in desk.reads, RunsFailed(r) PROVE DeskInv'
    <2> DEFINE done == [desk EXCEPT !.reads = desk.reads \ {r}, !.runs = desk.runs,
                                    !.loading = IF r.loud THEN FALSE ELSE desk.loading]
    <2>1. DeskWaits(done)
      BY <1>0, RunReadEnds DEF IsDesk
    <2>2. desk' = done /\ runTable' = runTable
      BY <1>0, <1>4 DEF RunsFailed, IsDesk
    <2> HIDE DEF done
    <2> QED BY <1>0, <1>a, <2>1, <2>2
  <1>5. CASE WorkflowEvent \/ \E table \in RunTables : PipelineProgress(table)
    <2>1. DeskWaits(desk')
      BY <1>0, <1>5 DEF WorkflowEvent, PipelineProgress, DeskWaits, IsDesk
    <2>2. runTable' \in Seq(RunRecords)
      BY <1>0, <1>5 DEF WorkflowEvent, PipelineProgress
    <2> QED BY <1>a, <2>1, <2>2
  <1>6. CASE RefreshTimer
    <2> DEFINE d == LoadRuns(desk, FALSE)
    <2>1. DeskWaits(d)
      BY <1>0, LoadRunsWaits
    <2>2. desk' = [d EXCEPT !.timer = FALSE] /\ runTable' = runTable
      BY <1>6 DEF RefreshTimer
    <2> HIDE DEF d
    <2>3. DeskWaits(desk')
      BY <2>1, <2>2 DEF DeskWaits, IsDesk
    <2> QED BY <1>0, <1>a, <2>2, <2>3
  <1>7. ASSUME NEW t \in Tickets, SelectTicket(t) PROVE DeskInv'
    BY <1>0, <1>7, <1>a, SelectedWaits DEF SelectTicket
  <1>8. ASSUME NEW t \in NewTickets, HandleCreateNew(t) PROVE DeskInv'
    BY <1>0, <1>8, <1>a, SelectedWaits, LoadRunsWaits DEF HandleCreateNew
  <1>9. CASE UNCHANGED deskVars
    BY <1>0, <1>9, <1>a DEF deskVars
  <1> QED BY <1>1, <1>2, <1>3, <1>4, <1>5, <1>6, <1>7, <1>8, <1>9 DEF DeskSteps, DeskNext, DeskAnswers

LEMMA DeskAlways == Spec => []DeskInv
  <1>1. ASSUME Init PROVE DeskInv
    <2>1. runTable \in Seq(RunRecords)
      BY <1>1, DeskServed DEF Init
    <2>2. DeskWaits(desk)
      BY <1>1, DeskMount DEF Init
    <2> QED BY <2>1, <2>2 DEF DeskInv
  <1>2. ASSUME DeskInv, PageHooks, [Next]_vars PROVE DeskInv'
    BY <1>2, NextSteps, DeskStep
  <1> QED BY <1>1, <1>2, TicketsAlways, PTL DEF Spec

(* Whatever a page shows as under way has a request on its way that will end *)
(* it, in every order of answers, failures, events and ticket changes.       *)
THEOREM PagesWait == Spec => []BusyPagesWait
  <1>1. ASSUME DeskInv, IngestInv, PrepInv, GoldWaits(gold), DagWaits(dag) PROVE BusyPagesWait
    <2>1. TicketList(Tickets).shows = "loading" => desk.loading
      BY DEF TicketList
    <2>2. LedgerTable(gold).reading = gold.historyLoading
      BY DEF LedgerTable
    <2> QED BY <1>1, <2>1, <2>2 DEF BusyPagesWait, DeskInv, DeskWaits, IngestInv, Awaited, PrepInv,
                                    GoldWaits, DagWaits
  <1>2. Spec => [](PrepInv /\ GoldWaits(gold))
    <2>1. ASSUME Init PROVE PrepInv /\ GoldWaits(gold)
      BY <2>1 DEF Init, MountedPrep, PrepInv, MountedGold, NoHistory, GoldWaits, IsGoldPage
    <2>2. ASSUME PrepInv /\ GoldWaits(gold), PageHooks, [Next]_vars
          PROVE  (PrepInv /\ GoldWaits(gold))'
      <3>1. PrepInv' /\ GoldWaits(gold')
        BY <2>2, NextSteps, PrepStep, GoldStep
      <3> QED BY <3>1 DEF GoldWaits, IsGoldPage
    <2> QED BY <2>1, <2>2, TicketsAlways, PTL DEF Spec
  <1> QED BY <1>1, <1>2, DeskAlways, IngestAlways, DagAlways, PTL

(* The runs of a ticket. *)
LEMMA RunsOfTicket ==
    ASSUME desk.runs \in Seq(RunRecords), NEW t
    PROVE  \A r \in ToSet(RunsOf(t)) : \E i \in DOMAIN desk.runs : r = desk.runs[i]
  <1> DEFINE I == {i \in DOMAIN desk.runs : desk.runs[i].ticket = t}
             s == ElementsAt(desk.runs, I)
  <1>1. \A k \in DOMAIN s : \E i \in I : s[k] = desk.runs[i]
    <2>1. I \in SUBSET (DOMAIN desk.runs)
      OBVIOUS
    <2> HIDE DEF I
    <2> QED BY <2>1, ElementsAtSeq
  <1>2. RunsOf(t) = s /\ I \subseteq DOMAIN desk.runs
    BY DEF RunsOf
  <1> HIDE DEF I, s
  <1> QED BY <1>1, <1>2 DEF ToSet

(* A failed run lowers the health that is shown: of at most 100 runs one     *)
(* failure is not rounded away.                                              *)
LEMMA FailureShows ==
    ASSUME desk.runs \in Histories, NEW i \in DOMAIN desk.runs,
           desk.runs[i].status \in {"failed", "error"}
    PROVE  Summary.health < 100
  <1> DEFINE n == Len(desk.runs)
             D == {j \in DOMAIN desk.runs : desk.runs[j].status \in {"completed"}}
             F == {j \in DOMAIN desk.runs : desk.runs[j].status \in {"failed", "error"}}
             done == Cardinality(D)
             bad == Cardinality(F)
             ended == IF done + bad = 0 THEN 1 ELSE done + bad
  <1>1. n \in Nat /\ n <= 100 /\ DOMAIN desk.runs = 1 .. n /\ desk.runs # <<>>
    BY DEF Histories, FACTORY_RUN_HISTORY_LIMIT
  <1>2. IsFiniteSet(1 .. n) /\ Cardinality(1 .. n) = n
    <2> HIDE DEF n
    <2> QED BY <1>1, FS_Interval
  <1>3. D \subseteq 1 .. n /\ F \subseteq 1 .. n /\ D \cap F = {} /\ D \cup F \subseteq 1 .. n /\ i \in F
    BY <1>1
  <1>4. Summary.health = (200 * done + ended) \div (2 * ended)
    BY <1>1 DEF Summary
  <1> HIDE DEF n, D, F
  <1>5. /\ IsFiniteSet(D) /\ IsFiniteSet(F) /\ IsFiniteSet(D \cup F)
        /\ done \in Nat /\ bad \in Nat /\ Cardinality(D \cup F) <= n
    BY <1>2, <1>3, FS_Subset, FS_CardinalityType
  <1>6. bad # 0
    BY <1>3, <1>5, FS_EmptySet
  <1>7. Cardinality(D \cup F) = done + bad
    <2>1. Cardinality(D \cup F) = Cardinality(D) + Cardinality(F) - Cardinality(D \cap F)
      BY <1>5, FS_Union
    <2>2. Cardinality(D \cap F) = 0
      BY <1>3, FS_EmptySet
    <2> QED BY <1>5, <2>1, <2>2
  <1> HIDE DEF done, bad
  <1>8. /\ ended = done + bad /\ ended \in 1 .. 100 /\ done <= 99
    BY <1>1, <1>5, <1>6, <1>7
  <1> HIDE DEF ended
  <1>9. 200 * done + ended < 100 * (2 * ended) /\ done \in Nat /\ bad >= 1
    BY <1>5, <1>6, <1>8
  <1>10. (200 * done + ended) \div (2 * ended) < 100
    <2> DEFINE a == 200 * done + ended
               b == 2 * ended
    <2>1. a \in Nat /\ b \in Nat /\ b > 0 /\ a < 100 * b
      BY <1>8, <1>9
    <2> HIDE DEF a, b
    <2>2. a \div b < 100
      BY <2>1
    <2> QED BY <2>2 DEF a, b
  <1> QED BY <1>4, <1>10

(* The list and the inspector of the Runner Tickets page agree on the fate   *)
(* of every ticket, for every history of runs that go-api may answer.        *)
THEOREM TicketHistoriesAgree == Spec => []HistoryAgrees
  <1>1. ASSUME DeskInv, NEW t \in TicketRecords
        PROVE  LET ends == {a.action : a \in History(t)} \ {"started"} IN
               /\ OverallStatus(t) = "completed" => ends \subseteq {"completed"}
               /\ "failed" \in ends => /\ OverallStatus(t) \in {"failed", "running"}
                                       /\ Summary.health < 100
    <2> DEFINE runs == ToSet(RunsOf(t))
               statuses == {r.status : r \in runs}
               ends == {a.action : a \in History(t)} \ {"started"}
    <2>1. desk.runs \in Histories /\ desk.runs \in Seq(RunRecords)
      BY <1>1 DEF DeskInv, DeskWaits, IsDesk, Histories
    <2>2. ASSUME NEW e \in ends PROVE \E r \in runs : e = EndAction(r)
      <3>1. PICK a \in History(t) : e = a.action /\ e # "started"
        BY <2>2
      <3> QED BY <3>1 DEF History
    <2>3. OverallStatus(t) = IF statuses \cap {"running", "draining", "catalog_syncing"} # {} THEN "running"
                             ELSE IF statuses \cap {"failed", "error"} # {} THEN "failed"
                             ELSE IF statuses = {"completed"} THEN "completed" ELSE "idle"
      BY DEF OverallStatus
    <2>4. \A r \in runs : \E i \in DOMAIN desk.runs : r = desk.runs[i]
      BY <2>1, RunsOfTicket
    <2> HIDE DEF runs, ends
    <2>5. ASSUME OverallStatus(t) = "completed" PROVE ends \subseteq {"completed"}
      <3>1. statuses = {"completed"}
        BY <2>3, <2>5
      <3>2. \A r \in runs : r.status = "completed"
        BY <3>1
      <3> QED BY <2>2, <3>2 DEF EndAction
    <2>6. ASSUME "failed" \in ends PROVE OverallStatus(t) \in {"failed", "running"} /\ Summary.health < 100
      <3>1. PICK r \in runs : EndAction(r) = "failed"
        BY <2>2, <2>6
      <3>2. r.status \in {"failed", "error"}
        BY <3>1 DEF EndAction
      <3>3. statuses \cap {"failed", "error"} # {}
        BY <3>2
      <3>4. OverallStatus(t) \in {"failed", "running"}
        BY <2>3, <3>3
      <3> QED BY <2>1, <2>4, <3>2, <3>4, FailureShows
    <2> QED BY <2>5, <2>6 DEF ends
  <1>2. DeskInv => HistoryAgrees
    BY <1>1 DEF HistoryAgrees
  <1> QED BY <1>2, DeskAlways, PTL
==============================================================================
