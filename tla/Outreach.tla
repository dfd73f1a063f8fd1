------------------------------ MODULE Outreach ------------------------------
(***************************************************************************)
(* Outreach from the dashboard: requests that send leads into Saleshandy   *)
(* sequences (web/saleshandy_handlers.go) or WhatsApp templates to leads   *)
(* (web/whatsapp_handlers.go), while jobs are ingested and the operator    *)
(* changes statuses and opt-ins in other requests.                         *)
(*                                                                         *)
(* A request reads its leads once, decides from what it read, and then     *)
(* makes one outside call after another, each followed by a write that     *)
(* says it was made.  The call's answer can be lost, the write can fail    *)
(* (the browser that went away cancels both) and the process can stop in   *)
(* between.                                                                *)
(***************************************************************************)
EXTENDS Leads

CONSTANTS
  Request,       \* requests under way at a time
  Allowed,       \* the sequences saleshandy.json allows
  Live,          \* the account's sequences that have a step
  Routes,        \* for each category, the sequences of its longest matching keys
  MaxBatch,      \* maxSaleshandyBatch, maxWhatsAppBatch
  MaxRequests,   \* bound: requests
  MaxEvents      \* bound: process stops and days that pass

ByCategory == "by-category"

ASSUME OutreachAssumption ==
  /\ IsFiniteSet(Request) /\ ByCategory \notin Sequence
  /\ Allowed \subseteq Sequence /\ Live \subseteq Sequence
  /\ Routes \in [Category -> SUBSET Sequence]
  /\ {MaxBatch, MaxRequests, MaxEvents} \subseteq Nat

VARIABLES
  req,           \* requests in hand
  started, events,               \* the environment's counters
  into, unasked, shared,         \* history of Saleshandy: the sequences a lead is in; its
                                 \* imports less those asked for again or left unmarked;
                                 \* the leads two requests had in hand at once
  today, doubled,                \* of WhatsApp: the day's messages less those not recorded
  late                           \* messages since the opt-out, less the requests under way then

envVars == <<started, events>>
importVars == <<into, unasked, shared>>
dayVars == <<today, doubled>>
vars == <<leadVars, req, envVars, importVars, dayVars, late>>

NoBatch == [s \in Sequence |-> {}]
Idle == [op |-> "none", batches |-> NoBatch, marking |-> None, resend |-> FALSE,
         rows |-> {}, recording |-> None, accepted |-> FALSE]

\* The leads a request has yet to import or message.
Pending(r) == r.rows \cup UNION {r.batches[s] : s \in Sequence}
Saleshandy(h) == req[h].op = "saleshandy"
WhatsApp(h) == req[h].op = "whatsapp"

\* Those a call was made for that its write has yet to say so.
Marking(h) == IF req[h].marking = None \/ req[h].resend THEN {} ELSE req[h].batches[req[h].marking]
Recording(h) == IF req[h].accepted THEN {req[h].recording} ELSE {}

Added(f, n, L) == [l \in Lead |-> IF l \in L THEN f[l] + n ELSE f[l]]

Init ==
  /\ LeadsInit
  /\ req = [h \in Request |-> Idle]
  /\ started = 0 /\ events = 0
  /\ into = [l \in Lead |-> {}] /\ unasked = [l \in Lead |-> 0] /\ shared = {}
  /\ today = [l \in Lead |-> 0] /\ doubled = {} /\ late = [l \in Lead |-> 0]
-----------------------------------------------------------------------------
(* The list changes under the requests. *)

Ingest(file) ==
  /\ IngestCSV(file)
  /\ UNCHANGED <<req, envVars, importVars, dayVars, late>>

OperatorSets(L, s) ==
  /\ L \subseteq known /\ SetStatus(L, s)
  /\ UNCHANGED <<req, envVars, importVars, dayVars, late>>

OptsIn(l) ==
  /\ l \in known /\ SetWhatsAppOptIn(l)
  /\ UNCHANGED <<req, envVars, importVars, dayVars, late>>

OptsOut(l) ==
  /\ l \in known /\ SetWhatsAppOptOut(l)
  /\ late' = [late EXCEPT ![l] = -Cardinality({h \in Request : l \in req[h].rows})]
  /\ UNCHANGED <<req, envVars, importVars, dayVars>>

DayPasses ==
  /\ events < MaxEvents /\ events' = events + 1
  /\ CooldownEnds
  /\ today' = [l \in Lead |-> 0]
  /\ UNCHANGED <<req, started, importVars, doubled, late>>

(* Whatever a request had in hand is forgotten with the process. *)
ProcessStops ==
  /\ events < MaxEvents /\ events' = events + 1
  /\ req' = [h \in Request |-> Idle]
  /\ unasked' = [l \in Lead |-> unasked[l] - Cardinality({h \in Request : l \in Marking(h)})]
  /\ today' = [l \in Lead |-> today[l] - Cardinality({h \in Request : l \in Recording(h)})]
  /\ UNCHANGED <<leadVars, started, into, shared, doubled, late>>
-----------------------------------------------------------------------------
(* Saleshandy. *)

\* The sequences in whose first step a lead's category lets it start.
Route(l) == IF facts[l].category = None THEN {} ELSE Routes[facts[l].category] \cap Allowed \cap Live

Targets(l, choice) == IF choice = ByCategory THEN Route(l) ELSE {choice}

Begin(h) ==
  /\ req[h] = Idle /\ started < MaxRequests
  /\ started' = started + 1

\* Faulty variant: leads already sent are not left out.
ImportableAgain(l, resend) == Importable(l, TRUE)
WillImport(l, resend) == Importable(l, resend)

\* Where each lead of L goes: one of its targets, or nowhere.
Assignments(L, choice, resend) ==
  {goes \in [L -> Sequence \cup {None}] :
     \A l \in L : IF WillImport(l, resend) /\ Targets(l, choice) # {}
                 THEN goes[l] \in Targets(l, choice) ELSE goes[l] = None}

\* A filter can pick any leads; the query's page is one longer than a batch may be.
Selectable(L) == L \subseteq known /\ L # {} /\ Cardinality(L) <= MaxBatch

SaleshandySend(h, L, choice, resend) ==
  /\ Begin(h) /\ Selectable(L)
  /\ Allowed \cap Live # {}
  /\ choice \in (Allowed \cap Live) \cup {ByCategory}
  /\ \E goes \in Assignments(L, choice, resend) :
       /\ \E l \in L : goes[l] # None
       /\ req' = [req EXCEPT ![h] = [Idle EXCEPT
                    !.op = "saleshandy", !.resend = resend,
                    !.batches = [s \in Sequence |-> {l \in L : goes[l] = s}]]]
  /\ shared' = shared \cup {l \in Pending(req'[h]) :
                             \E g \in Request \ {h} : Saleshandy(g) /\ l \in Pending(req[g])}
  /\ UNCHANGED <<leadVars, events, into, unasked, dayVars, late>>

\* The request is over when its last batch is.
Rest(r, s) ==
  LET left == [r EXCEPT !.batches[s] = {}, !.marking = None]
  IN  IF left.batches = NoBatch THEN Idle ELSE left

\* The import of one batch: taken; refused; or taken with the answer lost,
\* which looks like a refusal.
Import(h, s, answer) ==
  /\ Saleshandy(h) /\ req[h].marking = None /\ req[h].batches[s] # {}
  /\ LET L == req[h].batches[s]
         made == IF answer = "refused" THEN {} ELSE L
     IN  /\ into' = [l \in Lead |-> IF l \in made THEN into[l] \cup {s} ELSE into[l]]
         /\ unasked' = Added(unasked, 1, IF answer = "lost" \/ req[h].resend THEN {} ELSE made)
  /\ req' = [req EXCEPT ![h] = IF answer = "taken" THEN [@ EXCEPT !.marking = s] ELSE Rest(@, s)]
  /\ UNCHANGED <<leadVars, envVars, shared, dayVars, late>>

\* MarkSaleshandy; a failure is logged and the next batch goes.
MarkBatch(h, written) ==
  /\ Saleshandy(h) /\ req[h].marking # None
  /\ LET s == req[h].marking
         L == req[h].batches[s]
     IN  /\ IF written THEN MarkSaleshandy(L, s) ELSE UNCHANGED leadVars
         /\ unasked' = Added(unasked, -1, IF written THEN {} ELSE Marking(h))
         /\ req' = [req EXCEPT ![h] = Rest(@, s)]
  /\ UNCHANGED <<envVars, into, shared, dayVars, late>>
-----------------------------------------------------------------------------
(* WhatsApp. *)

\* Faulty variant: the cool-down is not looked at.
MessageableWarm(l) == WhatsAppAllowed(l) /\ facts[l].phone

\* The opt-in filter of the query and the loop's checks, all of one read.
Messageable(l) == WhatsAppAllowed(l) /\ facts[l].phone /\ ~Cooling(l)

WhatsAppSend(h, L) ==
  /\ Begin(h)
  /\ Selectable({l \in L : WhatsAppAllowed(l)}) /\ \E l \in L : Messageable(l)
  /\ req' = [req EXCEPT ![h] = [Idle EXCEPT !.op = "whatsapp", !.rows = {l \in L : Messageable(l)}]]
  /\ doubled' = doubled \cup {l \in req'[h].rows : \E g \in Request \ {h} : l \in req[g].rows}
  /\ UNCHANGED <<leadVars, events, importVars, today, late>>

\* A lead stays in rows until its message is recorded.
Message(h, l, answer) ==
  /\ WhatsApp(h) /\ req[h].recording = None /\ l \in req[h].rows
  /\ req' = [req EXCEPT ![h].recording = l, ![h].accepted = (answer = "taken")]
  /\ today' = Added(today, 1, IF answer = "taken" THEN {l} ELSE {})
  /\ late' = Added(late, 1, IF answer # "refused" THEN {l} \cap optOut ELSE {})
  /\ UNCHANGED <<leadVars, envVars, importVars, doubled>>

\* RecordWhatsApp; when it fails the request returns.
Record(h, written) ==
  /\ WhatsApp(h) /\ req[h].recording # None
  /\ LET l == req[h].recording
         left == [req[h] EXCEPT !.rows = @ \ {l}, !.recording = None, !.accepted = FALSE]
     IN  /\ IF written THEN RecordWhatsApp(l, req[h].accepted) ELSE UNCHANGED leadVars
         /\ today' = Added(today, -1, IF written THEN {} ELSE Recording(h))
         /\ req' = [req EXCEPT ![h] = IF ~written \/ left.rows = {} THEN Idle ELSE left]
  /\ UNCHANGED <<envVars, importVars, doubled, late>>

\* The browser goes away while the request waits between two messages.
Stopped(h) ==
  /\ WhatsApp(h) /\ req[h].recording = None
  /\ req' = [req EXCEPT ![h] = Idle]
  /\ UNCHANGED <<leadVars, envVars, importVars, dayVars, late>>
-----------------------------------------------------------------------------
Answer == {"taken", "refused", "lost"}

Steps(h) ==
  \/ \E s \in Sequence, a \in Answer : Import(h, s, a)
  \/ \E written \in BOOLEAN : MarkBatch(h, written) \/ Record(h, written)
  \/ \E l \in Lead, a \in Answer : Message(h, l, a)
  \/ Stopped(h)

Requests ==
  \E h \in Request, L \in SUBSET Lead :
    \/ WhatsAppSend(h, L)
    \/ \E choice \in Sequence \cup {ByCategory}, resend \in BOOLEAN : SaleshandySend(h, L, choice, resend)

Operator ==
  \/ \E f \in Files : Ingest(f)
  \/ \E L \in SUBSET Lead, s \in Status : OperatorSets(L, s)
  \/ \E l \in Lead : OptsIn(l) \/ OptsOut(l)

Next == Requests \/ (\E h \in Request : Steps(h)) \/ Operator \/ DayPasses \/ ProcessStops

Spec == Init /\ [][Next]_vars
-----------------------------------------------------------------------------
ReqType ==
  req \in [Request -> [op : {"none", "saleshandy", "whatsapp"}, batches : [Sequence -> SUBSET Lead],
                       marking : Sequence \cup {None}, resend : BOOLEAN, rows : SUBSET Lead,
                       recording : Lead \cup {None}, accepted : BOOLEAN]]
HistoryType ==
  /\ into \in [Lead -> SUBSET Sequence] /\ shared \subseteq Lead /\ doubled \subseteq Lead
  /\ unasked \in [Lead -> Int] /\ today \in [Lead -> Int] /\ late \in [Lead -> Int]
TypeOK == /\ LeadsTypeOK /\ ReqType /\ HistoryType
          /\ started \in 0..MaxRequests /\ events \in 0..MaxEvents

(* A business that asked to stop hears no more than the requests that had      *)
(* already read its opt-in send it, one message each: no request that begins   *)
(* later reaches it, whatever is ingested or recorded in between               *)
(* (leads/store.go:69-70, whatsapp_handlers.go:165-167).                       *)
StopTakesEffect == \A l \in optOut : late[l] <= 0

(* As leads/store.go:69 has it: nothing is sent after the opt-out. *)
NothingAfterStop == [][\A h \in Request : (Recording(h)' \ Recording(h)) \cap optOut = {}]_vars

(* Once a day at most (leads.html:144): a lead that no two requests had in     *)
(* hand at once gets one message a day, and one more for each message that     *)
(* was made and not put on record.                                             *)
OnceADay == \A l \in Lead \ doubled : today[l] <= 1

(* A lead goes into Saleshandy again only when resend was ticked               *)
(* (saleshandy_handlers.go:127-128), or an earlier import of it was made and   *)
(* not marked, or two requests had it in hand at once.                         *)
NoRepeatUnasked == \A l \in Lead \ shared : unasked[l] <= 1

(* The sequence a lead is recorded in is one it was really imported into, and  *)
(* one the configuration allows (saleshandy_handlers.go:124-126).              *)
MarkIsTrue == \A l \in Lead : sentTo[l] # None => sentTo[l] \in into[l] \cap Allowed
=============================================================================
