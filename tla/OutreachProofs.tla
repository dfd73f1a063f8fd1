--------------------------- MODULE OutreachProofs ---------------------------
(***************************************************************************)
(* Proofs about Outreach, for any leads, sequences, routes and files, any  *)
(* finite set of requests, and any number of stops and days.  A request    *)
(* acts on what it once read; the invariants say what it may have read, as *)
(* long as it was alone with a lead.                                       *)
(***************************************************************************)
EXTENDS Outreach, FiniteSetTheorems, TLAPS

ListType ==
  /\ sentTo \in [Lead -> Sequence \cup {None}] /\ lastMessage \in [Lead -> When]
  /\ optIn \subseteq Lead /\ optOut \subseteq Lead

\* What a request is about to write is part of what it has in hand, and each lead is in
\* one batch.
InHand ==
  \A h \in Request :
    /\ req[h].op # "saleshandy" => req[h].batches = NoBatch
    /\ req[h].op # "whatsapp" => req[h].rows = {}
    /\ req[h].accepted => req[h].recording \in req[h].rows
    /\ \A s, t \in Sequence : s # t => req[h].batches[s] \cap req[h].batches[t] = {}
    /\ \A s \in Sequence : req[h].batches[s] # {} => s \in Allowed

\* A batch that is about to be marked was imported.
Imported ==
  \A h \in Request : req[h].marking # None =>
    \A l \in req[h].batches[req[h].marking] : req[h].marking \in into[l]

Types == ListType /\ ReqType /\ HistoryType

\* The requests that have yet to message l.
Owed(l) == {h \in Request : l \in req[h].rows /\ req[h].recording # l}

\* They were under way when it opted out.
OwedThen == \A l \in optOut : late[l] + Cardinality(Owed(l)) <= 0

\* Of a lead that was never in two hands: its request did not find it within the
\* cool-down, and a message of the day is on record or about to be.
OneMessenger ==
  \A l \in Lead \ doubled : \A g, h \in Request : l \in req[g].rows \cap req[h].rows => g = h
NotCooling ==
  \A l \in Lead \ doubled : \A h \in Request : l \in req[h].rows => ~Cooling(l)
OnRecord ==
  \A l \in Lead \ doubled :
    IF \E h \in Request : l \in Recording(h) THEN today[l] <= 1
    ELSE today[l] <= IF Cooling(l) THEN 1 ELSE 0

\* The same of imports, which resend lets a marked lead have again.
OneImporter ==
  \A l \in Lead \ shared : \A g, h \in Request :
    Saleshandy(g) /\ Saleshandy(h) /\ l \in Pending(req[g]) \cap Pending(req[h]) => g = h
NotSent ==
  \A l \in Lead \ shared : \A h \in Request :
    Saleshandy(h) /\ ~req[h].resend /\ l \in Pending(req[h]) => sentTo[l] = None
OnMark ==
  \A l \in Lead \ shared :
    IF \E h \in Request : l \in Marking(h) THEN unasked[l] <= 1
    ELSE unasked[l] <= IF sentTo[l] # None THEN 1 ELSE 0

Alone == OneMessenger /\ NotCooling /\ OnRecord
Once == OneImporter /\ NotSent /\ OnMark
IInv == Types /\ InHand /\ Imported /\ MarkIsTrue /\ OwedThen /\ Alone /\ Once

Rec ==
  [op : {"none", "saleshandy", "whatsapp"}, batches : [Sequence -> SUBSET Lead],
   marking : Sequence \cup {None}, resend : BOOLEAN, rows : SUBSET Lead,
   recording : Lead \cup {None}, accepted : BOOLEAN]

-----------------------------------------------------------------------------
LEMMA RecTyped == /\ ReqType <=> req \in [Request -> Rec]
                  /\ ReqType' <=> req' \in [Request -> Rec]
<1>. QED
  BY DEF ReqType, Rec

LEMMA PendingIs ==
  ASSUME NEW r \in Rec
  PROVE  /\ Pending(r) \subseteq Lead
         /\ \A l : l \in Pending(r) <=> l \in r.rows \/ \E s \in Sequence : l \in r.batches[s]
<1>1. r.rows \subseteq Lead /\ \A s \in Sequence : r.batches[s] \subseteq Lead
  BY DEF Rec
<1>2. \A l : l \in Pending(r) <=> l \in r.rows \/ \E s \in Sequence : l \in r.batches[s]
  BY DEF Pending
<1>. QED
  BY <1>1, <1>2

LEMMA IdleIsRec == Idle \in Rec
<1>. QED
  BY DEF Idle, Rec, NoBatch

\* What is left of a request when a batch is done.
LEMMA RestLeft ==
  ASSUME NEW r \in Rec, NEW s \in Sequence
  PROVE  /\ Rest(r, s) \in Rec
         /\ Rest(r, s) = Idle \/ (Rest(r, s).op = r.op /\ Rest(r, s).resend = r.resend /\ Rest(r, s).rows = r.rows
                                  /\ Rest(r, s).recording = r.recording /\ Rest(r, s).accepted = r.accepted)
         /\ Rest(r, s).marking = None /\ Rest(r, s).batches[s] = {}
         /\ \A t \in Sequence \ {s} : Rest(r, s).batches[t] \in {{}, r.batches[t]}
<1>. DEFINE left == [r EXCEPT !.batches = [@ EXCEPT ![s] = {}], !.marking = None]
<1>1. left \in Rec /\ Rest(r, s) \in {Idle, left}
  BY DEF Rest, Rec, Idle, NoBatch
<1>2. CASE Rest(r, s) = Idle
  BY <1>2, IdleIsRec DEF Idle, NoBatch
<1>3. CASE Rest(r, s) = left
  BY <1>3, <1>1 DEF Rec
<1>. QED
  BY <1>1, <1>2, <1>3

\* A batch that is done leaves no more than there was.
LEMMA RestLess ==
  ASSUME NEW r \in Rec, NEW s \in Sequence
  PROVE  /\ \A t \in Sequence : Rest(r, s).batches[t] \subseteq r.batches[t]
         /\ Rest(r, s).batches[s] = {} /\ Rest(r, s).rows \subseteq r.rows /\ Rest(r, s).marking = None
         /\ Rest(r, s).op = "saleshandy" => Rest(r, s).resend = r.resend
<1>1. \A t \in Sequence : Rest(r, s).batches[t] \subseteq r.batches[t]
  BY RestLeft
<1>2. CASE Rest(r, s) = Idle
  <2>1. Idle.rows = {} /\ Idle.op = "none"
    BY DEF Idle
  <2>. QED
    BY <1>1, <1>2, <2>1, RestLeft
<1>3. CASE Rest(r, s) # Idle
  BY <1>1, <1>3, RestLeft
<1>. QED
  BY <1>2, <1>3

LEMMA InitAll == Init => IInv
<1>. SUFFICES ASSUME Init PROVE IInv
  OBVIOUS
<1>. USE OutreachAssumption, LeadsAssumption DEF Init, LeadsInit, Idle, NoBatch
<1>1. Types
  BY DEF Types, ListType, ReqType, HistoryType, When
<1>2. InHand /\ Imported /\ MarkIsTrue /\ OwedThen
  BY DEF InHand, Imported, MarkIsTrue, OwedThen
<1>3. Alone
  BY DEF Alone, OneMessenger, NotCooling, OnRecord, Recording, Cooling
<1>4. Once
  BY DEF Once, OneImporter, NotSent, OnMark, Saleshandy, Marking
<1>. QED
  BY <1>1, <1>2, <1>3, <1>4 DEF IInv

-----------------------------------------------------------------------------
\* Steps that leave the messages alone.
LEMMA MessagesAside ==
  ASSUME InHand, InHand', OwedThen, Alone, UNCHANGED <<lastMessage, today, doubled, late>>, optOut' \subseteq optOut,
         \A h \in Request : req'[h] = req[h] \/ ~(WhatsApp(h) \/ WhatsApp(h)')
  PROVE  OwedThen' /\ Alone'
<1>1. \A h \in Request : req'[h] = req[h] \/ (req[h].rows = {} /\ req'[h].rows = {} /\ ~req[h].accepted /\ ~req'[h].accepted)
  BY DEF InHand, WhatsApp
<1>2. \A l : Owed(l)' = Owed(l)
  BY <1>1 DEF Owed
<1>3. \A h \in Request : Recording(h)' = Recording(h) /\ req'[h].rows = req[h].rows
  BY <1>1 DEF Recording
<1>4. \A l : Cooling(l)' <=> Cooling(l)
  BY DEF Cooling
<1>5. OwedThen'
  BY <1>2 DEF OwedThen
<1>6. OneMessenger' /\ NotCooling' /\ OnRecord'
  BY <1>3, <1>4 DEF Alone, OneMessenger, NotCooling, OnRecord
<1>. QED
  BY <1>5, <1>6 DEF Alone

\* Steps that leave the imports alone.
LEMMA ImportsAside ==
  ASSUME ReqType, ReqType', InHand, InHand', Once, UNCHANGED <<sentTo, unasked, shared>>,
         \A h \in Request : req'[h] = req[h] \/ ~(Saleshandy(h) \/ Saleshandy(h)')
  PROVE  Once'
<1>1. \A h \in Request : Marking(h)' = Marking(h)
  <2>. SUFFICES ASSUME NEW h \in Request, ~Saleshandy(h), ~Saleshandy(h)' PROVE Marking(h) = {} /\ Marking(h)' = {}
    BY DEF Marking, Saleshandy
  <2>. QED
    BY DEF Marking, InHand, Saleshandy, NoBatch, ReqType
<1>2. \A h \in Request : Saleshandy(h)' => Saleshandy(h) /\ req'[h] = req[h] /\ Pending(req'[h]) = Pending(req[h])
  BY DEF Saleshandy
<1>3. OneImporter' /\ NotSent'
  BY <1>2 DEF Once, OneImporter, NotSent, Saleshandy
<1>4. OnMark'
  BY <1>1 DEF Once, OnMark
<1>. QED
  BY <1>3, <1>4 DEF Once

-----------------------------------------------------------------------------
\* What each step of a request does to it.
LEMMA ImportDoes ==
  ASSUME Types, NEW h \in Request, NEW s \in Sequence, NEW a \in Answer, Import(h, s, a)
  PROVE  /\ Types'
         /\ \A g \in Request \ {h} : req'[g] = req[g]
         /\ \/ a = "taken" /\ req'[h] = [req[h] EXCEPT !.marking = s]
            \/ a # "taken" /\ req'[h] = Rest(req[h], s)
<1>1. req \in [Request -> Rec]
  BY RecTyped DEF Types
<1>2. req' = [req EXCEPT ![h] = IF a = "taken" THEN [req[h] EXCEPT !.marking = s] ELSE Rest(req[h], s)]
  BY DEF Import
<1>3. ReqType'
  <2>1. [req[h] EXCEPT !.marking = s] \in Rec
    BY <1>1 DEF Rec
  <2>2. Rest(req[h], s) \in Rec
    BY <1>1, RestLeft
  <2>. QED
    BY <1>1, <1>2, <2>1, <2>2, RecTyped
<1>4. ListType'
  BY DEF Import, leadVars, Types, ListType
<1>5. HistoryType'
  BY DEF Import, Types, HistoryType, Added, dayVars
<1>. QED
  BY <1>1, <1>2, <1>3, <1>4, <1>5 DEF Types

LEMMA MarkDoes ==
  ASSUME Types, NEW h \in Request, NEW w \in BOOLEAN, MarkBatch(h, w)
  PROVE  /\ Types' /\ req[h].marking \in Sequence
         /\ \A g \in Request \ {h} : req'[g] = req[g]
         /\ req'[h] = Rest(req[h], req[h].marking)
<1>1. req \in [Request -> Rec]
  BY RecTyped DEF Types
<1>2. req[h].marking \in Sequence /\ req' = [req EXCEPT ![h] = Rest(req[h], req[h].marking)]
  BY <1>1 DEF MarkBatch, Rec
<1>3. ReqType'
  BY <1>1, <1>2, RestLeft, RecTyped DEF ReqType, Rec
<1>4. ListType'
  BY <1>2 DEF MarkBatch, leadVars, Types, ListType, MarkSaleshandy
<1>5. HistoryType'
  BY DEF MarkBatch, Types, HistoryType, Added, dayVars
<1>. QED
  BY <1>1, <1>2, <1>3, <1>4, <1>5 DEF Types

LEMMA MessageDoes ==
  ASSUME Types, NEW h \in Request, NEW l \in Lead, NEW a \in Answer, Message(h, l, a)
  PROVE  /\ Types'
         /\ \A g \in Request \ {h} : req'[g] = req[g]
         /\ req'[h].op = req[h].op /\ req'[h].batches = req[h].batches /\ req'[h].rows = req[h].rows
         /\ req'[h].recording = l /\ l \in req[h].rows /\ (req'[h].accepted <=> a = "taken")
<1>1. req \in [Request -> Rec]
  BY RecTyped DEF Types
<1>. DEFINE sent == a = "taken"
<1>2. req' = [req EXCEPT ![h] = [req[h] EXCEPT !.recording = l, !.accepted = sent]]
  BY <1>1 DEF Message, Rec
<1>. DEFINE q == [req[h] EXCEPT !.recording = l, !.accepted = sent]
<1>3. sent \in BOOLEAN
  OBVIOUS
<1>. HIDE DEF sent
<1>4. q \in Rec /\ q.op = req[h].op /\ q.batches = req[h].batches /\ q.rows = req[h].rows /\ q.recording = l
      /\ q.accepted = sent
  BY <1>1, <1>3 DEF Rec
<1>5. req'[h] = q /\ ReqType' /\ \A g \in Request \ {h} : req'[g] = req[g]
  BY <1>1, <1>2, <1>4, RecTyped
<1>6. ListType' /\ HistoryType'
  BY DEF Message, leadVars, Types, ListType, HistoryType, importVars, Added
<1>7. l \in req[h].rows
  BY DEF Message
<1>. HIDE DEF q
<1>. QED
  BY <1>4, <1>5, <1>6, <1>7 DEF Types, sent

LEMMA RecordDoes ==
  ASSUME Types, NEW h \in Request, NEW w \in BOOLEAN, Record(h, w)
  PROVE  /\ Types' /\ req[h].recording \in Lead
         /\ \A g \in Request \ {h} : req'[g] = req[g]
         /\ req'[h] \in {Idle, [req[h] EXCEPT !.rows = @ \ {req[h].recording}, !.recording = None, !.accepted = FALSE]}
<1>1. req \in [Request -> Rec]
  BY RecTyped DEF Types
<1>. DEFINE left == [req[h] EXCEPT !.rows = @ \ {req[h].recording}, !.recording = None, !.accepted = FALSE]
<1>2. req[h].recording \in Lead /\ req' = [req EXCEPT ![h] = IF ~w \/ left.rows = {} THEN Idle ELSE left]
  BY <1>1 DEF Record, Rec
<1>3. ReqType'
  BY <1>1, <1>2, IdleIsRec DEF ReqType, Rec
<1>4. ListType'
  BY <1>2 DEF Record, leadVars, Types, ListType, RecordWhatsApp, When
<1>5. HistoryType'
  BY DEF Record, Types, HistoryType, Added, importVars
<1>. QED
  BY <1>1, <1>2, <1>3, <1>4, <1>5 DEF Types

LEMMA WhatsAppSendDoes ==
  ASSUME Types, NEW h \in Request, NEW L \in SUBSET Lead, WhatsAppSend(h, L)
  PROVE  /\ Types' /\ req[h] = Idle
         /\ \A g \in Request \ {h} : req'[g] = req[g]
         /\ req'[h] = [Idle EXCEPT !.op = "whatsapp", !.rows = {l \in L : Messageable(l)}]
<1>1. req \in [Request -> Rec]
  BY RecTyped DEF Types
<1>2. req' = [req EXCEPT ![h] = [Idle EXCEPT !.op = "whatsapp", !.rows = {l \in L : Messageable(l)}]]
  BY DEF WhatsAppSend
<1>3. ReqType'
  BY <1>1, <1>2, IdleIsRec DEF ReqType, Rec
<1>4. ListType' /\ HistoryType'
  BY <1>1, <1>2 DEF WhatsAppSend, leadVars, Types, ListType, HistoryType, importVars, Idle
<1>. QED
  BY <1>1, <1>2, <1>3, <1>4 DEF Types, WhatsAppSend, Begin

LEMMA SaleshandySendDoes ==
  ASSUME Types, NEW h \in Request,
         \E L \in SUBSET Lead, choice \in Sequence \cup {ByCategory}, resend \in BOOLEAN :
           SaleshandySend(h, L, choice, resend)
  PROVE  /\ Types' /\ req[h] = Idle /\ \A g \in Request \ {h} : req'[g] = req[g]
         /\ req'[h].op = "saleshandy" /\ req'[h].rows = {} /\ req'[h].marking = None
         /\ req'[h].recording = None /\ req'[h].accepted = FALSE
         /\ \A s, t \in Sequence : s # t => req'[h].batches[s] \cap req'[h].batches[t] = {}
         /\ \A s \in Sequence : req'[h].batches[s] # {} => s \in Allowed
         /\ ~req'[h].resend => \A l \in Pending(req'[h]) : sentTo[l] = None
         /\ UNCHANGED <<leadVars, into, unasked, today, doubled, late>>
         /\ shared \cup {l \in Pending(req'[h]) : \E g \in Request \ {h} : Saleshandy(g) /\ l \in Pending(req[g])}
              \subseteq shared'
<1>1. PICK L \in SUBSET Lead, choice \in Sequence \cup {ByCategory}, resend \in BOOLEAN :
        SaleshandySend(h, L, choice, resend)
  OBVIOUS
<1>2. PICK goes \in Assignments(L, choice, resend) :
        req' = [req EXCEPT ![h] = [Idle EXCEPT !.op = "saleshandy", !.resend = resend,
                  !.batches = [s \in Sequence |-> {l \in L : goes[l] = s}]]]
  BY <1>1 DEF SaleshandySend
<1>. DEFINE q == [Idle EXCEPT !.op = "saleshandy", !.resend = resend,
                              !.batches = [s \in Sequence |-> {l \in L : goes[l] = s}]]
<1>3. req \in [Request -> Rec]
  BY RecTyped DEF Types
<1>4. /\ q \in Rec /\ q.op = "saleshandy" /\ q.rows = {} /\ q.marking = None /\ q.recording = None
      /\ q.accepted = FALSE /\ q.resend = resend /\ \A s \in Sequence : q.batches[s] = {l \in L : goes[l] = s}
  BY IdleIsRec DEF Rec, Idle
<1>5. req'[h] = q /\ ReqType' /\ \A g \in Request \ {h} : req'[g] = req[g]
  BY <1>2, <1>3, <1>4, RecTyped
<1>. HIDE DEF q
<1>6. \A s \in Sequence : \A l \in q.batches[s] : s \in Targets(l, choice) /\ WillImport(l, resend)
  BY <1>2, <1>4, LeadsAssumption DEF Assignments
<1>7. \A s \in Sequence : q.batches[s] # {} => s \in Allowed
  <2>1. \A l \in L : Targets(l, choice) \subseteq Allowed
    BY <1>1 DEF Targets, Route, SaleshandySend
  <2>. QED
    BY <1>4, <1>6, <2>1
<1>8. \A s, t \in Sequence : s # t => q.batches[s] \cap q.batches[t] = {}
  BY <1>4
<1>9. ~resend => \A l \in Pending(q) : sentTo[l] = None
  BY <1>4, <1>6, PendingIs DEF WillImport, Importable
<1>10. Pending(q) \subseteq Lead
  BY <1>4, PendingIs
<1>11. /\ UNCHANGED <<leadVars, into, unasked, today, doubled, late>> /\ req[h] = Idle
       /\ shared' = shared \cup {l \in Pending(q) : \E g \in Request \ {h} : Saleshandy(g) /\ l \in Pending(req[g])}
  BY <1>1, <1>5 DEF SaleshandySend, Begin, dayVars
<1>12. ListType' /\ HistoryType'
  BY <1>10, <1>11 DEF leadVars, Types, ListType, HistoryType
<1>. QED
  BY <1>4, <1>5, <1>7, <1>8, <1>9, <1>11, <1>12 DEF Types

-----------------------------------------------------------------------------
\* The steps that leave the requests as they are.
LEMMA ListSteps ==
  ASSUME Types,
         \/ \E f \in Files : Ingest(f)
         \/ \E L \in SUBSET Lead, s \in Status : OperatorSets(L, s)
         \/ \E l \in Lead : OptsIn(l) \/ OptsOut(l)
         \/ DayPasses
         \/ UNCHANGED vars
  PROVE  Types' /\ UNCHANGED <<req, into, unasked, shared, sentTo, doubled>>
<1>1. CASE \E f \in Files : Ingest(f)
  BY <1>1 DEF Ingest, IngestCSV, importVars, dayVars, Types, ListType, ReqType, HistoryType
<1>2. CASE \E L \in SUBSET Lead, s \in Status : OperatorSets(L, s)
  BY <1>2 DEF OperatorSets, SetStatus, importVars, dayVars, Types, ListType, ReqType, HistoryType
<1>3. CASE \E l \in Lead : OptsIn(l)
  BY <1>3 DEF OptsIn, SetWhatsAppOptIn, importVars, dayVars, Types, ListType, ReqType, HistoryType
<1>4. CASE \E l \in Lead : OptsOut(l)
  <2>1. PICK l \in Lead : OptsOut(l)
    BY <1>4
  <2>2. Cardinality({h \in Request : l \in req[h].rows}) \in Nat
    BY OutreachAssumption, FS_Subset, FS_CardinalityType
  <2>3. late' \in [Lead -> Int]
    BY <2>1, <2>2 DEF OptsOut, Types, HistoryType
  <2>. QED
    BY <2>1, <2>3 DEF OptsOut, SetWhatsAppOptOut, importVars, dayVars, Types, ListType, ReqType, HistoryType
<1>5. CASE DayPasses
  BY <1>5 DEF DayPasses, CooldownEnds, importVars, When, Types, ListType, ReqType, HistoryType
<1>6. CASE UNCHANGED vars
  BY <1>6 DEF vars, leadVars, importVars, dayVars, Types, ListType, ReqType, HistoryType
<1>. QED
  BY <1>1, <1>2, <1>3, <1>4, <1>5, <1>6

\* How many requests have l in hand is a number.
LEMMA SomeRequests ==
  ASSUME NEW S, S \subseteq Request
  PROVE  IsFiniteSet(S) /\ Cardinality(S) \in Nat /\ (S # {} => Cardinality(S) >= 1)
<1>1. IsFiniteSet(S) /\ Cardinality(S) \in Nat
  BY OutreachAssumption, FS_Subset, FS_CardinalityType
<1>. QED
  BY <1>1, FS_EmptySet

LEMMA StopDoes == ASSUME Types, ProcessStops PROVE Types' /\ req' = [h \in Request |-> Idle]
<1>1. \A l \in Lead : /\ Cardinality({h \in Request : l \in Marking(h)}) \in Nat
                      /\ Cardinality({h \in Request : l \in Recording(h)}) \in Nat
  BY SomeRequests
<1>2. ListType'
  BY DEF ProcessStops, leadVars, Types, ListType
<1>3. HistoryType'
  <2>. DEFINE m(l) == Cardinality({h \in Request : l \in Marking(h)})
              n(l) == Cardinality({h \in Request : l \in Recording(h)})
  <2>0. /\ unasked' = [l \in Lead |-> unasked[l] - m(l)] /\ today' = [l \in Lead |-> today[l] - n(l)]
        /\ \A l \in Lead : m(l) \in Nat /\ n(l) \in Nat
    BY <1>1 DEF ProcessStops
  <2>. HIDE DEF m, n
  <2>1. unasked' \in [Lead -> Int]
    BY <2>0 DEF Types, HistoryType
  <2>2. today' \in [Lead -> Int]
    BY <2>0 DEF Types, HistoryType
  <2>. QED
    BY <2>1, <2>2 DEF ProcessStops, Types, HistoryType
<1>4. ReqType'
  BY RecTyped, IdleIsRec DEF ProcessStops
<1>. QED
  BY <1>2, <1>3, <1>4 DEF Types, ProcessStops

LEMMA StoppedDoes ==
  ASSUME Types, NEW h \in Request, Stopped(h)
  PROVE  Types' /\ req'[h] = Idle /\ \A g \in Request \ {h} : req'[g] = req[g]
<1>1. req \in [Request -> Rec] /\ req' = [req EXCEPT ![h] = Idle]
  BY RecTyped DEF Types, Stopped
<1>2. ReqType'
  BY <1>1, RecTyped, IdleIsRec
<1>3. ListType' /\ HistoryType'
  BY DEF Stopped, leadVars, importVars, dayVars, Types, ListType, HistoryType
<1>. QED
  BY <1>1, <1>2, <1>3 DEF Types

-----------------------------------------------------------------------------
\* InHand: of one request's record.
HandOK(r) ==
  /\ r.op # "saleshandy" => r.batches = NoBatch
  /\ r.op # "whatsapp" => r.rows = {}
  /\ r.accepted => r.recording \in r.rows
  /\ \A s, t \in Sequence : s # t => r.batches[s] \cap r.batches[t] = {}
  /\ \A s \in Sequence : r.batches[s] # {} => s \in Allowed

LEMMA InHandIs == InHand <=> \A h \in Request : HandOK(req[h])
<1>. QED
  BY DEF InHand, HandOK

LEMMA IdleHandOK == HandOK(Idle)
<1>. QED
  BY DEF HandOK, Idle, NoBatch

\* A record that differs in what it is about to write only.
LEMMA HandOKSame ==
  ASSUME NEW r, NEW q, HandOK(r), q.op = r.op, q.batches = r.batches, q.rows = r.rows,
         q.accepted => q.recording \in q.rows
  PROVE  HandOK(q)
<1>. QED
  BY DEF HandOK

LEMMA InHandKept == ASSUME Types, InHand, [Next]_vars PROVE InHand'
<1>. SUFFICES ASSUME NEW g \in Request PROVE HandOK(req'[g])
  BY DEF InHand, HandOK
<1>0. \A h \in Request : HandOK(req[h]) /\ req[h] \in Rec
  BY InHandIs, RecTyped DEF Types
<1>1. ASSUME NEW h \in Request, NEW s \in Sequence, NEW a \in Answer, Import(h, s, a) PROVE HandOK(req'[g])
  <2>1. CASE g # h
    BY <1>0, <1>1, <2>1, ImportDoes
  <2>2. CASE g = h /\ a = "taken"
    <3>1. req'[h] = [req[h] EXCEPT !.marking = s]
      BY <1>1, <2>2, ImportDoes
    <3>2. /\ req'[h].op = req[h].op /\ req'[h].batches = req[h].batches /\ req'[h].rows = req[h].rows
          /\ req'[h].accepted = req[h].accepted /\ req'[h].recording = req[h].recording
      BY <1>0, <3>1 DEF Rec
    <3>. QED
      BY <1>0, <2>2, <3>2 DEF HandOK
  <2>3. CASE g = h /\ a # "taken"
    <3>. DEFINE r == req[h]  q == Rest(req[h], s)
    <3>1. req'[h] = q /\ r \in Rec /\ HandOK(r) /\ r.op = "saleshandy"
      BY <1>0, <1>1, <2>3, ImportDoes DEF Import, Saleshandy
    <3>2. /\ q = Idle \/ (q.op = r.op /\ q.rows = r.rows /\ q.recording = r.recording /\ q.accepted = r.accepted)
          /\ q.batches[s] = {} /\ \A t \in Sequence \ {s} : q.batches[t] \in {{}, r.batches[t]}
      BY <3>1, RestLeft
    <3>. HIDE DEF r, q
    <3>3. HandOK(q)
      BY <3>1, <3>2, IdleHandOK DEF HandOK
    <3>. QED
      BY <2>3, <3>1, <3>3
  <2>. QED
    BY <2>1, <2>2, <2>3
<1>2. ASSUME NEW h \in Request, NEW w \in BOOLEAN, MarkBatch(h, w) PROVE HandOK(req'[g])
  BY <1>0, <1>2, MarkDoes, RestLeft, IdleHandOK DEF HandOK, Rec, MarkBatch, Saleshandy
<1>3. ASSUME NEW h \in Request, NEW w \in BOOLEAN, Record(h, w) PROVE HandOK(req'[g])
  <2>. DEFINE left == [req[h] EXCEPT !.rows = @ \ {req[h].recording}, !.recording = None, !.accepted = FALSE]
  <2>1. (g # h => req'[g] = req[g]) /\ req'[h] \in {Idle, left}
    BY <1>3, RecordDoes
  <2>2. left.op = "whatsapp" /\ left.batches = req[h].batches /\ left.accepted = FALSE
    BY <1>0, <1>3 DEF Record, WhatsApp, Rec
  <2>3. HandOK(left)
    BY <1>0, <1>3, <2>2 DEF HandOK, Record, WhatsApp
  <2>. QED
    BY <1>0, <2>1, <2>3, IdleHandOK
<1>4. ASSUME NEW h \in Request, NEW l \in Lead, NEW a \in Answer, Message(h, l, a) PROVE HandOK(req'[g])
  BY <1>0, <1>4, MessageDoes, HandOKSame
<1>5. ASSUME NEW h \in Request, Stopped(h) PROVE HandOK(req'[g])
  BY <1>0, <1>5, StoppedDoes, IdleHandOK
<1>6. ASSUME NEW h \in Request, NEW L \in SUBSET Lead, WhatsAppSend(h, L) PROVE HandOK(req'[g])
  <2>1. /\ g # h => req'[g] = req[g]
        /\ req'[h] = [Idle EXCEPT !.op = "whatsapp", !.rows = {l \in L : Messageable(l)}]
    BY <1>6, WhatsAppSendDoes
  <2>2. /\ req'[h].op = "whatsapp" /\ req'[h].batches = NoBatch /\ req'[h].accepted = FALSE
    BY <2>1 DEF Idle
  <2>3. HandOK(req'[h])
    BY <2>2 DEF HandOK, NoBatch
  <2>. QED
    BY <1>0, <2>1, <2>3
<1>7. ASSUME NEW h \in Request,
             \E L \in SUBSET Lead, choice \in Sequence \cup {ByCategory}, resend \in BOOLEAN :
               SaleshandySend(h, L, choice, resend)
      PROVE  HandOK(req'[g])
  <2>1. g # h => req'[g] = req[g]
    BY <1>7, SaleshandySendDoes
  <2>2. HandOK(req'[h])
    BY <1>7, SaleshandySendDoes DEF HandOK
  <2>. QED
    BY <1>0, <2>1, <2>2
<1>8. CASE ProcessStops
  BY <1>8, StopDoes, IdleHandOK
<1>9. CASE \/ Operator \/ DayPasses \/ UNCHANGED vars
  BY <1>0, <1>9, ListSteps DEF Operator
<1>. QED
  BY <1>1, <1>2, <1>3, <1>4, <1>5, <1>6, <1>7, <1>8, <1>9 DEF Next, Steps, Requests

-----------------------------------------------------------------------------
\* The two channels keep out of each other's way.
Importing ==
  \E h \in Request :
    \/ \E s \in Sequence, a \in Answer : Import(h, s, a)
    \/ \E w \in BOOLEAN : MarkBatch(h, w)
    \/ \E L \in SUBSET Lead, choice \in Sequence \cup {ByCategory}, resend \in BOOLEAN :
         SaleshandySend(h, L, choice, resend)
Messaging ==
  \E h \in Request :
    \/ \E l \in Lead, a \in Answer : Message(h, l, a)
    \/ \E w \in BOOLEAN : Record(h, w)
    \/ Stopped(h)
    \/ \E L \in SUBSET Lead : WhatsAppSend(h, L)
Editing ==
  \/ \E f \in Files : Ingest(f)
  \/ \E L \in SUBSET Lead, s \in Status : OperatorSets(L, s)
  \/ \E l \in Lead : OptsIn(l)
  \/ UNCHANGED vars

LEMMA NextIs ==
  [Next]_vars => Importing \/ Messaging \/ Editing \/ DayPasses \/ ProcessStops \/ \E l \in Lead : OptsOut(l)
<1>. QED
  BY DEF Next, Importing, Messaging, Editing, Operator, Requests, Steps

LEMMA ImportingApart ==
  ASSUME Types, Importing
  PROVE  /\ \A g \in Request : req'[g] = req[g] \/ ~(WhatsApp(g) \/ WhatsApp(g)')
         /\ UNCHANGED <<lastMessage, today, doubled, late, optOut>>
<1>1. \A r \in Rec, s \in Sequence : r.op = "saleshandy" => Rest(r, s).op \in {"saleshandy", "none"}
  BY RestLeft DEF Idle
<1>2. req \in [Request -> Rec]
  BY RecTyped DEF Types
<1>3. ASSUME NEW h \in Request, NEW s \in Sequence, NEW a \in Answer, Import(h, s, a)
      PROVE  /\ \A g \in Request : req'[g] = req[g] \/ ~(WhatsApp(g) \/ WhatsApp(g)')
             /\ UNCHANGED <<lastMessage, today, doubled, late, optOut>>
  <2>1. /\ \A g \in Request \ {h} : req'[g] = req[g]
        /\ req'[h] = [req[h] EXCEPT !.marking = s] \/ req'[h] = Rest(req[h], s)
    BY <1>3, ImportDoes
  <2>2. req[h].op = "saleshandy" /\ UNCHANGED <<lastMessage, today, doubled, late, optOut>>
    BY <1>3 DEF Import, Saleshandy, leadVars, dayVars
  <2>3. req'[h].op \in {"saleshandy", "none"}
    BY <1>1, <1>2, <2>1, <2>2 DEF Rec
  <2>. QED
    BY <2>1, <2>2, <2>3 DEF WhatsApp
<1>4. ASSUME NEW h \in Request, NEW w \in BOOLEAN, MarkBatch(h, w)
      PROVE  /\ \A g \in Request : req'[g] = req[g] \/ ~(WhatsApp(g) \/ WhatsApp(g)')
             /\ UNCHANGED <<lastMessage, today, doubled, late, optOut>>
  <2>1. /\ \A g \in Request \ {h} : req'[g] = req[g]
        /\ req[h].marking \in Sequence /\ req'[h] = Rest(req[h], req[h].marking)
    BY <1>4, MarkDoes
  <2>2. req[h].op = "saleshandy" /\ UNCHANGED <<lastMessage, today, doubled, late, optOut>>
    BY <1>4 DEF MarkBatch, Saleshandy, leadVars, dayVars, MarkSaleshandy
  <2>3. req'[h].op \in {"saleshandy", "none"}
    BY <1>1, <1>2, <2>1, <2>2
  <2>. QED
    BY <2>1, <2>2, <2>3 DEF WhatsApp
<1>5. ASSUME NEW h \in Request,
             \E L \in SUBSET Lead, choice \in Sequence \cup {ByCategory}, resend \in BOOLEAN :
               SaleshandySend(h, L, choice, resend)
      PROVE  /\ \A g \in Request : req'[g] = req[g] \/ ~(WhatsApp(g) \/ WhatsApp(g)')
             /\ UNCHANGED <<lastMessage, today, doubled, late, optOut>>
  <2>1. /\ \A g \in Request \ {h} : req'[g] = req[g]
        /\ req[h] = Idle /\ req'[h].op = "saleshandy" /\ UNCHANGED <<leadVars, today, doubled, late>>
    BY <1>5, SaleshandySendDoes
  <2>. QED
    BY <2>1 DEF WhatsApp, Idle, leadVars
<1>. QED
  BY <1>3, <1>4, <1>5 DEF Importing

LEMMA MessagingApart ==
  ASSUME Types, Messaging
  PROVE  /\ \A g \in Request : req'[g] = req[g] \/ ~(Saleshandy(g) \/ Saleshandy(g)')
         /\ UNCHANGED <<sentTo, into, unasked, shared>>
<1>2. req \in [Request -> Rec]
  BY RecTyped DEF Types
<1>3. ASSUME NEW h \in Request, NEW l \in Lead, NEW a \in Answer, Message(h, l, a)
      PROVE  /\ \A g \in Request : req'[g] = req[g] \/ ~(Saleshandy(g) \/ Saleshandy(g)')
             /\ UNCHANGED <<sentTo, into, unasked, shared>>
  <2>1. (\A g \in Request \ {h} : req'[g] = req[g]) /\ req'[h].op = req[h].op
    BY <1>3, MessageDoes
  <2>. QED
    BY <1>3, <2>1 DEF Message, WhatsApp, Saleshandy, leadVars, importVars
<1>4. ASSUME NEW h \in Request, NEW w \in BOOLEAN, Record(h, w)
      PROVE  /\ \A g \in Request : req'[g] = req[g] \/ ~(Saleshandy(g) \/ Saleshandy(g)')
             /\ UNCHANGED <<sentTo, into, unasked, shared>>
  <2>1. /\ \A g \in Request \ {h} : req'[g] = req[g]
        /\ req'[h] \in {Idle, [req[h] EXCEPT !.rows = @ \ {req[h].recording}, !.recording = None, !.accepted = FALSE]}
    BY <1>4, RecordDoes
  <2>2. req'[h].op \in {"none", req[h].op}
    <3>1. Idle.op = "none"
      BY DEF Idle
    <3>2. [req[h] EXCEPT !.rows = @ \ {req[h].recording}, !.recording = None, !.accepted = FALSE].op = req[h].op
      BY <1>2 DEF Rec
    <3>. QED
      BY <2>1, <3>1, <3>2
  <2>. QED
    BY <1>4, <2>1, <2>2 DEF Record, WhatsApp, Saleshandy, leadVars, importVars, RecordWhatsApp
<1>5. ASSUME NEW h \in Request, Stopped(h)
      PROVE  /\ \A g \in Request : req'[g] = req[g] \/ ~(Saleshandy(g) \/ Saleshandy(g)')
             /\ UNCHANGED <<sentTo, into, unasked, shared>>
  BY <1>5, StoppedDoes DEF Stopped, WhatsApp, Saleshandy, leadVars, importVars, Idle
<1>6. ASSUME NEW h \in Request, NEW L \in SUBSET Lead, WhatsAppSend(h, L)
      PROVE  /\ \A g \in Request : req'[g] = req[g] \/ ~(Saleshandy(g) \/ Saleshandy(g)')
             /\ UNCHANGED <<sentTo, into, unasked, shared>>
  <2>1. /\ \A g \in Request \ {h} : req'[g] = req[g]
        /\ req[h] = Idle /\ req'[h] = [Idle EXCEPT !.op = "whatsapp", !.rows = {l \in L : Messageable(l)}]
    BY <1>6, WhatsAppSendDoes
  <2>. QED
    <3>1. req[h].op = "none" /\ req'[h].op = "whatsapp"
      BY <2>1 DEF Idle
    <3>. QED
      BY <1>6, <2>1, <3>1 DEF WhatsAppSend, Saleshandy, leadVars, importVars
<1>. QED
  BY <1>3, <1>4, <1>5, <1>6 DEF Messaging

LEMMA TypesKept == ASSUME Types, [Next]_vars PROVE Types'
<1>1. CASE Importing
  BY <1>1, ImportDoes, MarkDoes, SaleshandySendDoes DEF Importing
<1>2. CASE Messaging
  BY <1>2, MessageDoes, RecordDoes, StoppedDoes, WhatsAppSendDoes DEF Messaging
<1>3. CASE Editing \/ DayPasses \/ \E l \in Lead : OptsOut(l)
  BY <1>3, ListSteps DEF Editing
<1>4. CASE ProcessStops
  BY <1>4, StopDoes
<1>. QED
  BY <1>1, <1>2, <1>3, <1>4, NextIs

LEMMA MarksKept == ASSUME IInv, [Next]_vars PROVE Imported' /\ MarkIsTrue'
<1>. USE DEF IInv
<1>0. InHand' /\ Types'
  BY InHandKept, TypesKept
<1>1. ASSUME NEW h \in Request, NEW s \in Sequence, NEW a \in Answer, Import(h, s, a) PROVE Imported' /\ MarkIsTrue'
  <2>1. \A l \in Lead : into[l] \subseteq into'[l]
    BY <1>1 DEF Import, Types, HistoryType
  <2>2. \A l \in req[h].batches[s] : a = "taken" => s \in into'[l]
    BY <1>1 DEF Import, Types, HistoryType, ReqType
  <2>3. /\ \A g \in Request \ {h} : req'[g] = req[g]
        /\ \/ a = "taken" /\ req'[h] = [req[h] EXCEPT !.marking = s]
           \/ a # "taken" /\ req'[h] = Rest(req[h], s)
    BY <1>1, ImportDoes
  <2>4. req[h] \in Rec
    BY RecTyped DEF Types
  <2>5. req'[h].marking = None \/ (a = "taken" /\ req'[h].marking = s /\ req'[h].batches = req[h].batches)
    BY <2>3, <2>4, RestLeft DEF Rec
  <2>6. \A g \in Request, t \in Sequence : req[g].batches[t] \subseteq Lead
    BY DEF Types, ReqType
  <2>7. Imported'
    <3>. SUFFICES ASSUME NEW g \in Request, req'[g].marking # None, NEW l \in req'[g].batches[req'[g].marking]
                  PROVE  req'[g].marking \in into'[l]
      BY DEF Imported
    <3>1. CASE g = h
      BY <3>1, <2>2, <2>5
    <3>2. CASE g # h
      BY <3>2, <2>1, <2>3, <2>6 DEF Imported, Types, ReqType
    <3>. QED
      BY <3>1, <3>2
  <2>8. MarkIsTrue'
    BY <1>1, <2>1 DEF Import, leadVars, MarkIsTrue
  <2>. QED
    BY <2>7, <2>8
<1>2. ASSUME NEW h \in Request, NEW w \in BOOLEAN, MarkBatch(h, w) PROVE Imported' /\ MarkIsTrue'
  <2>. DEFINE s == req[h].marking
  <2>1. s \in Sequence /\ req'[h] = Rest(req[h], s) /\ \A g \in Request \ {h} : req'[g] = req[g]
    BY <1>2, MarkDoes
  <2>2. req'[h].marking = None
    BY <2>1, RestLeft, RecTyped DEF Types
  <2>3. UNCHANGED into
    BY <1>2 DEF MarkBatch
  <2>4. Imported'
    BY <2>1, <2>2, <2>3 DEF Imported
  <2>5. \A l \in Lead : sentTo'[l] = sentTo[l] \/ (l \in req[h].batches[s] /\ sentTo'[l] = s)
    BY <1>2, <2>1 DEF MarkBatch, MarkSaleshandy, leadVars
  <2>6. \A l \in req[h].batches[s] : s \in into[l] /\ s \in Allowed
    BY <1>2 DEF MarkBatch, Imported, InHand, Types, ReqType
  <2>7. MarkIsTrue'
    BY <2>3, <2>5, <2>6 DEF MarkIsTrue
  <2>. QED
    BY <2>4, <2>7
<1>3. ASSUME NEW h \in Request,
             \E L \in SUBSET Lead, choice \in Sequence \cup {ByCategory}, resend \in BOOLEAN :
               SaleshandySend(h, L, choice, resend)
      PROVE  Imported' /\ MarkIsTrue'
  <2>1. /\ \A g \in Request \ {h} : req'[g] = req[g]
        /\ req'[h].marking = None /\ UNCHANGED <<leadVars, into>>
    BY <1>3, SaleshandySendDoes
  <2>. QED
    BY <2>1 DEF Imported, MarkIsTrue, leadVars
<1>4. CASE Messaging
  <2>1. /\ \A g \in Request : req'[g] = req[g] \/ ~(Saleshandy(g) \/ Saleshandy(g)')
        /\ UNCHANGED <<sentTo, into, unasked, shared>>
    BY <1>4, MessagingApart
  <2>2. \A g \in Request, t \in Sequence : ~Saleshandy(g)' => req'[g].batches[t] = {}
    BY <1>0 DEF InHand, Saleshandy, NoBatch
  <2>3. Imported'
    <3>. SUFFICES ASSUME NEW g \in Request, req'[g].marking # None, NEW l \in req'[g].batches[req'[g].marking]
                  PROVE  req'[g].marking \in into'[l]
      BY DEF Imported
    <3>1. req'[g].marking \in Sequence
      BY <1>0 DEF Types, ReqType
    <3>2. req'[g] = req[g]
      BY <2>1, <2>2, <3>1
    <3>. QED
      BY <2>1, <3>2 DEF Imported
  <2>. QED
    BY <2>1, <2>3 DEF MarkIsTrue
<1>5. CASE Editing \/ DayPasses \/ \E l \in Lead : OptsOut(l)
  BY <1>5, ListSteps DEF Editing, Imported, MarkIsTrue
<1>6. CASE ProcessStops
  BY <1>6, StopDoes DEF ProcessStops, Imported, MarkIsTrue, leadVars, Idle
<1>. QED
  BY <1>1, <1>2, <1>3, <1>4, <1>5, <1>6, NextIs DEF Importing

-----------------------------------------------------------------------------
\* What a request that messages has left.
LEMMA RecordLeaves ==
  ASSUME Types, InHand, NEW h \in Request, NEW w \in BOOLEAN, Record(h, w)
  PROVE  /\ req[h].recording \in Lead
         /\ req'[h].rows \in {{}, req[h].rows \ {req[h].recording}}
         /\ req'[h].recording = None /\ req'[h].accepted = FALSE
<1>. DEFINE left == [req[h] EXCEPT !.rows = @ \ {req[h].recording}, !.recording = None, !.accepted = FALSE]
<1>1. req[h].recording \in Lead /\ req'[h] \in {Idle, left}
  BY RecordDoes
<1>2. left.rows = req[h].rows \ {req[h].recording} /\ left.recording = None /\ left.accepted = FALSE
  BY RecTyped DEF Types, Rec
<1>3. Idle.rows = {} /\ Idle.recording = None /\ Idle.accepted = FALSE
  BY DEF Idle
<1>. QED
  BY <1>1, <1>2, <1>3

LEMMA OwedLess ==
  ASSUME Types, NEW l \in Lead, Owed(l)' \subseteq Owed(l), late'[l] = late[l], late[l] + Cardinality(Owed(l)) <= 0
  PROVE  late'[l] + Cardinality(Owed(l)') <= 0
<1>1. Owed(l) \subseteq Request
  BY DEF Owed
<1>2. IsFiniteSet(Owed(l)) /\ Cardinality(Owed(l)) \in Nat
  BY <1>1, SomeRequests
<1>3. Cardinality(Owed(l)') <= Cardinality(Owed(l)) /\ Cardinality(Owed(l)') \in Nat
  BY <1>2, FS_Subset, FS_CardinalityType
<1>4. late[l] \in Int
  BY DEF Types, HistoryType
<1>. QED
  BY <1>2, <1>3, <1>4

LEMMA OwedKept == ASSUME IInv, [Next]_vars PROVE OwedThen'
<1>. USE DEF IInv
<1>0. InHand' /\ Types' /\ None \notin Lead
  BY InHandKept, TypesKept, LeadsAssumption
<1>1. CASE Importing
  BY <1>0, <1>1, ImportingApart, MessagesAside
<1>2. CASE Editing
  <2>1. UNCHANGED <<req, lastMessage, today, doubled, late>> /\ optOut' \subseteq optOut
    BY <1>2 DEF Editing, Ingest, IngestCSV, OperatorSets, SetStatus, OptsIn, SetWhatsAppOptIn, dayVars, vars, leadVars
  <2>. QED
    BY <1>0, <2>1, MessagesAside
<1>3. ASSUME NEW m \in Lead, OptsOut(m) PROVE OwedThen'
  <2>. SUFFICES ASSUME NEW l \in optOut' PROVE late'[l] + Cardinality(Owed(l)') <= 0
    BY DEF OwedThen
  <2>1. /\ late' = [late EXCEPT ![m] = -Cardinality({h \in Request : m \in req[h].rows})]
        /\ optOut' = optOut \cup {m} /\ UNCHANGED req
    BY <1>3 DEF OptsOut, SetWhatsAppOptOut
  <2>2. Owed(l)' = Owed(l) /\ l \in Lead
    BY <1>0, <2>1 DEF Owed, Types, ListType
  <2>3. CASE l # m
    BY <2>1, <2>2, <2>3, OwedLess DEF OwedThen, Types, HistoryType
  <2>4. CASE l = m
    <3>. DEFINE S == {h \in Request : m \in req[h].rows}
    <3>1. Owed(l) \subseteq S /\ IsFiniteSet(S) /\ Cardinality(S) \in Nat
      BY <2>4, SomeRequests DEF Owed
    <3>2. Cardinality(Owed(l)) <= Cardinality(S) /\ Cardinality(Owed(l)) \in Nat
      BY <3>1, FS_Subset, FS_CardinalityType
    <3>3. late'[l] = -Cardinality(S)
      BY <2>1, <2>4 DEF Types, HistoryType
    <3>. HIDE DEF S
    <3>. QED
      BY <2>2, <3>1, <3>2, <3>3
  <2>. QED
    BY <2>3, <2>4
<1>4. CASE DayPasses
  <2>1. \A l \in optOut' : l \in optOut /\ l \in Lead /\ Owed(l)' = Owed(l) /\ late'[l] = late[l]
    BY <1>4 DEF DayPasses, CooldownEnds, Owed, Types, ListType
  <2>. QED
    BY <2>1, OwedLess DEF OwedThen
<1>5. CASE ProcessStops
  <2>1. \A l \in optOut' : l \in optOut /\ l \in Lead /\ late'[l] = late[l]
    BY <1>5 DEF ProcessStops, leadVars, Types, ListType
  <2>2. \A l : Owed(l)' = {}
    BY <1>5 DEF ProcessStops, Owed, Idle
  <2>. QED
    BY <2>1, <2>2, OwedLess DEF OwedThen
<1>6. ASSUME NEW h \in Request, NEW m \in Lead, NEW a \in Answer, Message(h, m, a) PROVE OwedThen'
  <2>. SUFFICES ASSUME NEW l \in optOut' PROVE late'[l] + Cardinality(Owed(l)') <= 0
    BY DEF OwedThen
  <2>1. /\ (\A g \in Request \ {h} : req'[g] = req[g])
        /\ req'[h].rows = req[h].rows /\ req'[h].recording = m /\ m \in req[h].rows
    BY <1>6, MessageDoes
  <2>2. l \in optOut /\ l \in Lead /\ req[h].recording = None
    BY <1>6 DEF Message, leadVars, Types, ListType
  <2>3. late'[l] = late[l] \/ (l = m /\ late'[l] = late[l] + 1)
    BY <1>6, <2>2 DEF Message, Added, Types, HistoryType
  <2>4. CASE l # m
    BY <2>1, <2>2, <2>3, <2>4, OwedLess, <1>0 DEF Owed, OwedThen
  <2>5. CASE l = m
    <3>1. Owed(l)' = Owed(l) \ {h} /\ h \in Owed(l)
      BY <2>1, <2>2, <2>5, <1>0 DEF Owed
    <3>2. IsFiniteSet(Owed(l)) /\ Cardinality(Owed(l)) \in Nat
      BY SomeRequests DEF Owed
    <3>3. Cardinality(Owed(l)') = Cardinality(Owed(l)) - 1
      BY <3>1, <3>2, FS_RemoveElement
    <3>. QED
      BY <2>2, <2>3, <3>2, <3>3 DEF OwedThen, Types, HistoryType
  <2>. QED
    BY <2>4, <2>5
<1>7. ASSUME NEW h \in Request, NEW w \in BOOLEAN, Record(h, w) PROVE OwedThen'
  <2>1. /\ \A g \in Request \ {h} : req'[g] = req[g]
        /\ req'[h].rows \in {{}, req[h].rows \ {req[h].recording}}
    BY <1>7, RecordDoes, RecordLeaves
  <2>2. \A l \in optOut' : l \in optOut /\ l \in Lead /\ late'[l] = late[l]
    BY <1>7 DEF Record, leadVars, RecordWhatsApp, Types, ListType
  <2>3. \A l : Owed(l)' \subseteq Owed(l)
    BY <2>1 DEF Owed
  <2>. QED
    BY <2>2, <2>3, OwedLess DEF OwedThen
<1>8. ASSUME NEW h \in Request, Stopped(h) PROVE OwedThen'
  <2>1. (\A g \in Request \ {h} : req'[g] = req[g]) /\ req'[h].rows = {}
    BY <1>8, StoppedDoes DEF Idle
  <2>2. \A l \in optOut' : l \in optOut /\ l \in Lead /\ late'[l] = late[l]
    BY <1>8 DEF Stopped, leadVars, Types, ListType
  <2>3. \A l : Owed(l)' \subseteq Owed(l)
    BY <2>1 DEF Owed
  <2>. QED
    BY <2>2, <2>3, OwedLess DEF OwedThen
<1>9. ASSUME NEW h \in Request, NEW L \in SUBSET Lead, WhatsAppSend(h, L) PROVE OwedThen'
  <2>1. /\ \A g \in Request \ {h} : req'[g] = req[g]
        /\ req'[h] = [Idle EXCEPT !.op = "whatsapp", !.rows = {l \in L : Messageable(l)}]
    BY <1>9, WhatsAppSendDoes
  <2>2. req'[h].rows = {l \in L : Messageable(l)}
    BY <2>1 DEF Idle
  <2>3. \A l \in optOut' : l \in optOut /\ l \in Lead /\ late'[l] = late[l] /\ l \notin req'[h].rows
    BY <1>9, <2>2 DEF WhatsAppSend, leadVars, Types, ListType, Messageable, WhatsAppAllowed
  <2>4. \A l \in optOut' : Owed(l)' \subseteq Owed(l)
    BY <2>1, <2>3 DEF Owed
  <2>. QED
    BY <2>3, <2>4, OwedLess DEF OwedThen
<1>. QED
  BY <1>1, <1>2, <1>3, <1>4, <1>5, <1>6, <1>7, <1>8, <1>9, NextIs DEF Messaging

-----------------------------------------------------------------------------
\* A request that is about to record a message has the lead in hand; one that is not
\* about to record has nothing to.
LEMMA RecordingInHand ==
  ASSUME Types, InHand, NEW h \in Request
  PROVE  /\ Recording(h) \subseteq req[h].rows
         /\ req[h].recording = None => Recording(h) = {}
         /\ req[h].rows \subseteq Lead
<1>. QED
  BY LeadsAssumption DEF Recording, InHand, Types, ReqType

LEMMA AloneKept == ASSUME IInv, [Next]_vars PROVE Alone'
<1>. USE DEF IInv
<1>0. InHand' /\ Types' /\ None \notin Lead
  BY InHandKept, TypesKept, LeadsAssumption
<1>1. CASE Importing
  BY <1>0, <1>1, ImportingApart, MessagesAside
<1>2. CASE Editing
  <2>1. UNCHANGED <<req, lastMessage, today, doubled, late>> /\ optOut' \subseteq optOut
    BY <1>2 DEF Editing, Ingest, IngestCSV, OperatorSets, SetStatus, OptsIn, SetWhatsAppOptIn, dayVars, vars, leadVars
  <2>. QED
    BY <1>0, <2>1, MessagesAside
<1>3. ASSUME NEW m \in Lead, OptsOut(m) PROVE Alone'
  <2>1. UNCHANGED <<req, lastMessage, today, doubled>>
    BY <1>3 DEF OptsOut, SetWhatsAppOptOut, dayVars
  <2>. QED
    BY <2>1 DEF Alone, OneMessenger, NotCooling, OnRecord, Recording, Cooling
<1>4. CASE DayPasses
  <2>1. UNCHANGED <<req, doubled>> /\ \A l \in Lead : today'[l] = 0 /\ ~Cooling(l)'
    BY <1>4 DEF DayPasses, CooldownEnds, Cooling
  <2>. QED
    BY <2>1 DEF Alone, OneMessenger, NotCooling, OnRecord
<1>5. CASE ProcessStops
  <2>1. req' = [h \in Request |-> Idle] /\ UNCHANGED <<lastMessage, doubled>>
    BY <1>5, StopDoes DEF ProcessStops, leadVars
  <2>2. \A h \in Request : Recording(h)' = {} /\ req'[h].rows = {}
    BY <2>1 DEF Recording, Idle
  <2>3. ASSUME NEW l \in Lead \ doubled PROVE today'[l] <= IF Cooling(l) THEN 1 ELSE 0
    <3>. DEFINE S == {h \in Request : l \in Recording(h)}
    <3>1. Cardinality(S) \in Nat /\ (S # {} => Cardinality(S) >= 1)
      BY SomeRequests
    <3>2. today'[l] = today[l] - Cardinality(S) /\ today[l] \in Int
      BY <1>5 DEF ProcessStops, Types, HistoryType
    <3>3. IF S # {} THEN today[l] <= 1 ELSE today[l] <= IF Cooling(l) THEN 1 ELSE 0
      BY DEF Alone, OnRecord
    <3>. HIDE DEF S
    <3>. QED
      BY <3>1, <3>2, <3>3
  <2>4. \A l : Cooling(l)' <=> Cooling(l)
    BY <2>1 DEF Cooling
  <2>. QED
    BY <2>1, <2>2, <2>3, <2>4 DEF Alone, OneMessenger, NotCooling, OnRecord
<1>6. ASSUME NEW h \in Request, NEW m \in Lead, NEW a \in Answer, Message(h, m, a) PROVE Alone'
  <2>1. /\ (\A g \in Request \ {h} : req'[g] = req[g])
        /\ req'[h].rows = req[h].rows /\ req'[h].recording = m /\ m \in req[h].rows
        /\ req'[h].accepted <=> a = "taken"
    BY <1>6, MessageDoes
  <2>2. req[h].recording = None /\ UNCHANGED <<lastMessage, doubled>>
    BY <1>6 DEF Message, leadVars
  <2>3. Recording(h) = {} /\ Recording(h)' = IF a = "taken" THEN {m} ELSE {}
    BY <2>1, <2>2, RecordingInHand DEF Recording
  <2>4. \A g \in Request \ {h} : Recording(g)' = Recording(g)
    BY <2>1 DEF Recording
  <2>5. \A l : Cooling(l)' <=> Cooling(l)
    BY <2>2 DEF Cooling
  <2>6. OneMessenger' /\ NotCooling'
    BY <2>1, <2>2, <2>5 DEF Alone, OneMessenger, NotCooling
  <2>7. \A l \in Lead : today'[l] = IF l = m /\ a = "taken" THEN today[l] + 1 ELSE today[l]
    BY <1>6 DEF Message, Added, Types, HistoryType
  <2>8. m \notin doubled => ~Cooling(m) /\ \A g \in Request : m \notin Recording(g)
    BY <2>1, <2>3, RecordingInHand DEF Alone, OneMessenger, NotCooling
  <2>9. ASSUME NEW l \in Lead \ doubled
        PROVE  IF \E g \in Request : l \in Recording(g)' THEN today'[l] <= 1
               ELSE today'[l] <= IF Cooling(l)' THEN 1 ELSE 0
    <3>1. CASE l = m
      <4>1. today[l] <= 0
        BY <3>1, <2>8 DEF Alone, OnRecord
      <4>. QED
        BY <4>1, <3>1, <2>3, <2>4, <2>7 DEF Types, HistoryType
    <3>2. CASE l # m
      <4>1. (\E g \in Request : l \in Recording(g)') <=> (\E g \in Request : l \in Recording(g))
        BY <3>2, <2>3, <2>4
      <4>. QED
        BY <4>1, <3>2, <2>5, <2>7 DEF Alone, OnRecord
    <3>. QED
      BY <3>1, <3>2
  <2>. QED
    BY <2>2, <2>6, <2>9 DEF Alone, OnRecord
<1>7. ASSUME NEW h \in Request, NEW w \in BOOLEAN, Record(h, w) PROVE Alone'
  <2>. DEFINE m == req[h].recording
  <2>1. /\ \A g \in Request \ {h} : req'[g] = req[g]
        /\ m \in Lead /\ req'[h].rows \in {{}, req[h].rows \ {m}}
        /\ req'[h].recording = None /\ req'[h].accepted = FALSE
    BY <1>7, RecordDoes, RecordLeaves
  <2>2. UNCHANGED doubled /\ Recording(h) = (IF req[h].accepted THEN {m} ELSE {}) /\ Recording(h)' = {}
    BY <1>7, <2>1 DEF Record, Recording
  <2>3. \A g \in Request \ {h} : Recording(g)' = Recording(g)
    BY <2>1 DEF Recording
  <2>4. \A l \in Lead : /\ l # m \/ ~req[h].accepted \/ ~w => (Cooling(l)' <=> Cooling(l))
                        /\ l = m /\ req[h].accepted /\ w => Cooling(l)'
    BY <1>7 DEF Record, RecordWhatsApp, leadVars, Cooling, Types, ListType
  <2>5. \A l \in Lead : today'[l] = IF l = m /\ req[h].accepted /\ ~w THEN today[l] - 1 ELSE today[l]
    BY <1>7, <2>2 DEF Record, Added, Types, HistoryType
  <2>6. OneMessenger'
    BY <2>1, <2>2 DEF Alone, OneMessenger
  <2>7. m \notin doubled /\ req[h].accepted => \A g \in Request \ {h} : m \notin req[g].rows
    BY <2>1 DEF InHand, Alone, OneMessenger
  <2>8. NotCooling'
    BY <2>1, <2>2, <2>4, <2>7 DEF Alone, NotCooling
  <2>9. ASSUME NEW l \in Lead \ doubled
        PROVE  IF \E g \in Request : l \in Recording(g)' THEN today'[l] <= 1
               ELSE today'[l] <= IF Cooling(l)' THEN 1 ELSE 0
    <3>1. CASE l = m /\ req[h].accepted
      <4>1. today[l] <= 1 /\ today[l] \in Int
        BY <3>1, <2>2 DEF Alone, OnRecord, Types, HistoryType
      <4>. QED
        BY <4>1, <3>1, <2>4, <2>5
    <3>2. CASE l # m \/ ~req[h].accepted
      <4>1. (\E g \in Request : l \in Recording(g)') <=> (\E g \in Request : l \in Recording(g))
        BY <3>2, <2>2, <2>3
      <4>. QED
        BY <4>1, <3>2, <2>4, <2>5 DEF Alone, OnRecord
    <3>. QED
      BY <3>1, <3>2
  <2>. QED
    BY <2>2, <2>6, <2>8, <2>9 DEF Alone, OnRecord
<1>8. ASSUME NEW h \in Request, Stopped(h) PROVE Alone'
  <2>1. (\A g \in Request \ {h} : req'[g] = req[g]) /\ req'[h].rows = {} /\ ~req'[h].accepted
    BY <1>8, StoppedDoes DEF Idle
  <2>2. UNCHANGED <<lastMessage, today, doubled>> /\ req[h].recording = None
    BY <1>8 DEF Stopped, leadVars, dayVars
  <2>3. \A g \in Request : Recording(g)' = Recording(g) /\ req'[g].rows \subseteq req[g].rows
    BY <2>1, <2>2, RecordingInHand DEF Recording
  <2>. QED
    BY <2>2, <2>3 DEF Alone, OneMessenger, NotCooling, OnRecord, Cooling
<1>9. ASSUME NEW h \in Request, NEW L \in SUBSET Lead, WhatsAppSend(h, L) PROVE Alone'
  <2>1. /\ \A g \in Request \ {h} : req'[g] = req[g]
        /\ req[h] = Idle /\ req'[h] = [Idle EXCEPT !.op = "whatsapp", !.rows = {l \in L : Messageable(l)}]
    BY <1>9, WhatsAppSendDoes
  <2>2. req[h].rows = {} /\ ~req[h].accepted /\ ~req'[h].accepted /\ req'[h].rows = {l \in L : Messageable(l)}
    BY <2>1 DEF Idle
  <2>3. /\ UNCHANGED <<lastMessage, today>>
        /\ doubled' = doubled \cup {l \in req'[h].rows : \E g \in Request \ {h} : l \in req[g].rows}
    BY <1>9 DEF WhatsAppSend, leadVars
  <2>4. \A g \in Request : Recording(g)' = Recording(g)
    BY <2>1, <2>2 DEF Recording
  <2>5. OneMessenger'
    BY <2>1, <2>3 DEF Alone, OneMessenger
  <2>7. \A l \in Lead : (Cooling(l))' = Cooling(l)
    BY <2>3 DEF Cooling
  <2>6. NotCooling'
    <3>1. NotCooling /\ doubled \subseteq doubled' /\ \A l \in req'[h].rows : ~Cooling(l)
      BY <2>2, <2>3 DEF Alone, Messageable
    <3>. QED
      BY <2>1, <2>7, <3>1 DEF NotCooling
  <2>8. OnRecord'
    <3>1. OnRecord /\ doubled \subseteq doubled' /\ today' = today
      BY <2>3 DEF Alone
    <3>. QED
      BY <2>4, <2>7, <3>1 DEF OnRecord
  <2>. QED
    BY <2>5, <2>6, <2>8 DEF Alone
<1>. QED
  BY <1>1, <1>2, <1>3, <1>4, <1>5, <1>6, <1>7, <1>8, <1>9, NextIs DEF Messaging

-----------------------------------------------------------------------------
\* The same of a request that imports.
LEMMA MarkingInHand ==
  ASSUME Types, InHand, NEW h \in Request
  PROVE  /\ req[h] \in Rec
         /\ \A l \in Marking(h) : Saleshandy(h) /\ l \in Pending(req[h]) /\ ~req[h].resend
         /\ req[h].marking = None => Marking(h) = {}
<1>1. req[h] \in Rec
  BY RecTyped DEF Types
<1>. QED
  BY <1>1, PendingIs DEF Marking, InHand, Saleshandy, Rec, NoBatch

LEMMA OnceKept == ASSUME IInv, [Next]_vars PROVE Once'
<1>. USE DEF IInv
<1>0. InHand' /\ Types' /\ InHand /\ Types
  BY InHandKept, TypesKept
<1>1. CASE Messaging
  BY <1>0, <1>1, MessagingApart, ImportsAside DEF Types
<1>2. CASE Editing \/ DayPasses \/ \E l \in Lead : OptsOut(l)
  <2>1. UNCHANGED <<req, sentTo, unasked, shared>>
    BY <1>2, ListSteps DEF Editing
  <2>. QED
    BY <1>0, <2>1, ImportsAside DEF Types
<1>3. CASE ProcessStops
  <2>1. req' = [h \in Request |-> Idle] /\ UNCHANGED <<sentTo, shared>>
    BY <1>3, StopDoes DEF ProcessStops, leadVars
  <2>2. \A h \in Request : ~Saleshandy(h)' /\ Marking(h)' = {}
    BY <2>1 DEF Marking, Idle, Saleshandy
  <2>3. ASSUME NEW l \in Lead \ shared PROVE unasked'[l] <= IF sentTo[l] # None THEN 1 ELSE 0
    <3>. DEFINE S == {h \in Request : l \in Marking(h)}
    <3>1. Cardinality(S) \in Nat /\ (S # {} => Cardinality(S) >= 1)
      BY SomeRequests
    <3>2. unasked'[l] = unasked[l] - Cardinality(S) /\ unasked[l] \in Int
      BY <1>3 DEF ProcessStops, Types, HistoryType
    <3>3. IF S # {} THEN unasked[l] <= 1 ELSE unasked[l] <= IF sentTo[l] # None THEN 1 ELSE 0
      BY DEF Once, OnMark
    <3>. HIDE DEF S
    <3>. QED
      BY <3>1, <3>2, <3>3
  <2>. QED
    BY <2>1, <2>2, <2>3 DEF Once, OneImporter, NotSent, OnMark
<1>4. ASSUME NEW h \in Request, NEW s \in Sequence, NEW a \in Answer, Import(h, s, a) PROVE Once'
  <2>. DEFINE L == req[h].batches[s]
              asked == IF a = "taken" /\ ~req[h].resend THEN L ELSE {}
  <2>1. /\ \A g \in Request \ {h} : req'[g] = req[g]
        /\ \/ a = "taken" /\ req'[h] = [req[h] EXCEPT !.marking = s]
           \/ a # "taken" /\ req'[h] = Rest(req[h], s)
    BY <1>4, ImportDoes
  <2>2. req[h] \in Rec /\ req'[h] \in Rec
    BY <1>0, RecTyped DEF Types
  <2>3. Saleshandy(h) /\ req[h].marking = None /\ UNCHANGED <<sentTo, shared>>
    BY <1>4 DEF Import, leadVars
  <2>4. /\ \A t \in Sequence : req'[h].batches[t] \subseteq req[h].batches[t]
        /\ req'[h].rows \subseteq req[h].rows
        /\ Saleshandy(h)' => req'[h].resend = req[h].resend
        /\ IF a = "taken" THEN req'[h].marking = s /\ req'[h].resend = req[h].resend /\ req'[h].batches = req[h].batches
           ELSE req'[h].marking = None
    <3>1. CASE a = "taken"
      BY <2>1, <2>2, <3>1 DEF Rec
    <3>2. CASE a # "taken"
      BY <2>1, <2>2, <3>2, RestLess DEF Saleshandy
    <3>. QED
      BY <3>1, <3>2
  <2>5. Pending(req'[h]) \subseteq Pending(req[h])
    BY <2>2, <2>4, PendingIs
  <2>6. Marking(h) = {} /\ Marking(h)' = asked
    BY <2>2, <2>3, <2>4, <1>0, MarkingInHand, LeadsAssumption DEF Marking
  <2>7. \A g \in Request \ {h} : Marking(g)' = Marking(g)
    BY <2>1 DEF Marking
  <2>8. \A l \in Lead : unasked'[l] = IF l \in asked THEN unasked[l] + 1 ELSE unasked[l]
    BY <1>4 DEF Import, Added, Types, HistoryType, Answer
  <2>9. OneImporter' /\ NotSent'
    BY <2>1, <2>3, <2>4, <2>5 DEF Once, OneImporter, NotSent, Saleshandy
  <2>10. ASSUME NEW l \in asked, l \notin shared, l \in Lead PROVE unasked[l] <= 0
    <3>1. l \in Pending(req[h]) /\ ~req[h].resend
      BY <2>2, <2>10, PendingIs
    <3>2. sentTo[l] = None
      BY <2>3, <2>10, <3>1 DEF Once, NotSent
    <3>3. \A g \in Request : l \notin Marking(g)
      BY <2>3, <2>6, <2>10, <3>1, <1>0, MarkingInHand DEF Once, OneImporter
    <3>. QED
      BY <2>10, <3>2, <3>3 DEF Once, OnMark
  <2>11. ASSUME NEW l \in Lead \ shared
         PROVE  IF \E g \in Request : l \in Marking(g)' THEN unasked'[l] <= 1
                ELSE unasked'[l] <= IF sentTo'[l] # None THEN 1 ELSE 0
    <3>1. CASE l \in asked
      BY <3>1, <2>6, <2>8, <2>10 DEF Types, HistoryType
    <3>2. CASE l \notin asked
      <4>1. (\E g \in Request : l \in Marking(g)') <=> (\E g \in Request : l \in Marking(g))
        BY <3>2, <2>6, <2>7
      <4>. QED
        BY <4>1, <3>2, <2>3, <2>8 DEF Once, OnMark
    <3>. QED
      BY <3>1, <3>2
  <2>. QED
    BY <2>3, <2>9, <2>11 DEF Once, OnMark
<1>5. ASSUME NEW h \in Request, NEW w \in BOOLEAN, MarkBatch(h, w) PROVE Once'
  <2>. DEFINE s == req[h].marking
              L == req[h].batches[s]
  <2>1. s \in Sequence /\ req'[h] = Rest(req[h], s) /\ \A g \in Request \ {h} : req'[g] = req[g]
    BY <1>5, MarkDoes
  <2>2. req[h] \in Rec /\ req'[h] \in Rec
    BY <1>0, RecTyped DEF Types
  <2>3. Saleshandy(h) /\ UNCHANGED shared
    BY <1>5 DEF MarkBatch
  <2>4. /\ \A t \in Sequence : req'[h].batches[t] \subseteq req[h].batches[t]
        /\ req'[h].batches[s] = {} /\ req'[h].rows \subseteq req[h].rows /\ req'[h].marking = None
        /\ Saleshandy(h)' => req'[h].resend = req[h].resend
    BY <2>1, <2>2, RestLess DEF Saleshandy
  <2>5. Pending(req'[h]) \subseteq Pending(req[h]) \ L
    <3>1. req[h].rows = {}
      BY <2>3 DEF InHand, Saleshandy
    <3>2. \A t \in Sequence : req'[h].batches[t] \cap L = {}
      BY <2>1, <2>4 DEF InHand
    <3>. QED
      BY <2>2, <2>4, <3>1, <3>2, PendingIs
  <2>6. L \subseteq Pending(req[h]) /\ L \subseteq Lead /\ Marking(h) = (IF req[h].resend THEN {} ELSE L) /\ Marking(h)' = {}
    BY <2>1, <2>2, <2>4, <1>0, PendingIs, LeadsAssumption DEF Marking, Rec
  <2>7. \A g \in Request \ {h} : Marking(g)' = Marking(g)
    BY <2>1 DEF Marking
  <2>8. \A l \in Lead : /\ l \in L /\ w => sentTo'[l] = s
                        /\ l \notin L \/ ~w => sentTo'[l] = sentTo[l]
    BY <1>5 DEF MarkBatch, MarkSaleshandy, leadVars, Types, ListType
  <2>9. \A l \in Lead : unasked'[l] = IF l \in Marking(h) /\ ~w THEN unasked[l] - 1 ELSE unasked[l]
    BY <1>5 DEF MarkBatch, Added, Types, HistoryType
  <2>10. OneImporter'
    BY <2>1, <2>3, <2>5 DEF Once, OneImporter, Saleshandy
  <2>11. ASSUME NEW l \in L, l \notin shared, NEW g \in Request \ {h}, Saleshandy(g) PROVE l \notin Pending(req[g])
    BY <2>3, <2>6, <2>11 DEF Once, OneImporter
  <2>12. NotSent'
    <3>. SUFFICES ASSUME NEW l \in Lead \ shared, NEW g \in Request, Saleshandy(g)', ~req'[g].resend, l \in Pending(req'[g])
                  PROVE  sentTo'[l] = None
      BY <2>3 DEF NotSent
    <3>1. Saleshandy(g) /\ ~req[g].resend /\ l \in Pending(req[g])
      BY <2>1, <2>3, <2>4, <2>5 DEF Saleshandy
    <3>2. l \notin L
      BY <2>1, <2>5, <2>11, <3>1
    <3>. QED
      BY <2>8, <3>1, <3>2 DEF Once, NotSent
  <2>13. ASSUME NEW l \in Lead \ shared
         PROVE  IF \E g \in Request : l \in Marking(g)' THEN unasked'[l] <= 1
                ELSE unasked'[l] <= IF sentTo'[l] # None THEN 1 ELSE 0
    <3>1. unasked[l] <= 1 /\ unasked[l] \in Int
      BY DEF Once, OnMark, Types, HistoryType
    <3>2. CASE l \in Marking(h)
      BY <3>1, <3>2, <2>1, <2>6, <2>8, <2>9, LeadsAssumption
    <3>3. CASE l \notin Marking(h)
      <4>1. (\E g \in Request : l \in Marking(g)') <=> (\E g \in Request : l \in Marking(g))
        BY <3>3, <2>6, <2>7
      <4>2. unasked'[l] = unasked[l] /\ (sentTo[l] # None => sentTo'[l] # None)
        BY <3>3, <2>1, <2>8, <2>9, LeadsAssumption
      <4>3. IF \E g \in Request : l \in Marking(g) THEN unasked[l] <= 1
            ELSE unasked[l] <= IF sentTo[l] # None THEN 1 ELSE 0
        BY DEF Once, OnMark
      <4>. QED
        BY <3>1, <4>1, <4>2, <4>3
    <3>. QED
      BY <3>2, <3>3
  <2>. QED
    BY <2>3, <2>10, <2>12, <2>13 DEF Once, OnMark
<1>6. ASSUME NEW h \in Request,
             \E L \in SUBSET Lead, choice \in Sequence \cup {ByCategory}, resend \in BOOLEAN :
               SaleshandySend(h, L, choice, resend)
      PROVE  Once'
  <2>1. /\ req[h] = Idle /\ \A g \in Request \ {h} : req'[g] = req[g]
        /\ req'[h].marking = None /\ UNCHANGED <<leadVars, unasked>>
        /\ ~req'[h].resend => \A l \in Pending(req'[h]) : sentTo[l] = None
        /\ shared \cup {l \in Pending(req'[h]) : \E g \in Request \ {h} : Saleshandy(g) /\ l \in Pending(req[g])}
             \subseteq shared'
    BY <1>6, SaleshandySendDoes
  <2>2. \A g \in Request : Marking(g)' = Marking(g)
    BY <2>1 DEF Marking, Idle
  <2>3. UNCHANGED sentTo
    BY <2>1 DEF leadVars
  <2>4. OneImporter'
    BY <2>1 DEF Once, OneImporter, Saleshandy
  <2>5. NotSent'
    BY <2>1, <2>3 DEF Once, NotSent, Saleshandy
  <2>6. OnMark'
    BY <2>1, <2>2, <2>3 DEF Once, OnMark
  <2>. QED
    BY <2>4, <2>5, <2>6 DEF Once
<1>. QED
  BY <1>1, <1>2, <1>3, <1>4, <1>5, <1>6, NextIs DEF Importing

-----------------------------------------------------------------------------
LEMMA Invariance == Spec => []IInv
<1>1. IInv /\ [Next]_vars => IInv'
  <2>. SUFFICES ASSUME IInv, [Next]_vars PROVE IInv'
    OBVIOUS
  <2>1. Types' /\ InHand' /\ Imported' /\ MarkIsTrue'
    BY TypesKept, InHandKept, MarksKept DEF IInv
  <2>2. OwedThen' /\ Alone' /\ Once'
    BY OwedKept, AloneKept, OnceKept
  <2>. QED
    BY <2>1, <2>2 DEF IInv
<1>. QED
  BY InitAll, <1>1, PTL DEF Spec

\* A business that asked to stop hears no more than what the requests that had already read
\* its opt-in send it, one message each (leads/store.go:69-70, whatsapp_handlers.go:165-167).
THEOREM StopsTakeEffect == Spec => []StopTakesEffect
<1>1. IInv => StopTakesEffect
  <2>. SUFFICES ASSUME IInv, NEW l \in optOut PROVE late[l] <= 0
    BY DEF StopTakesEffect
  <2>1. Cardinality(Owed(l)) \in Nat
    BY SomeRequests DEF Owed
  <2>. QED
    BY <2>1 DEF IInv, OwedThen, Types, ListType, HistoryType
<1>. QED
  BY Invariance, <1>1, PTL

\* A lead that no two requests had in hand at once gets one message a day, and one more for
\* each message that was made and not put on record (leads.html:144).
THEOREM MessagedOnceADay == Spec => []OnceADay
<1>1. IInv => OnceADay
  BY DEF IInv, Alone, OnRecord, OnceADay, Types, HistoryType
<1>. QED
  BY Invariance, <1>1, PTL

\* A lead goes into Saleshandy again only on resend, after an import that was not marked,
\* or when two requests had it in hand at once (saleshandy_handlers.go:127-128).
THEOREM NotImportedAgain == Spec => []NoRepeatUnasked
<1>1. IInv => NoRepeatUnasked
  BY DEF IInv, Once, OnMark, NoRepeatUnasked, Types, HistoryType
<1>. QED
  BY Invariance, <1>1, PTL

\* The sequence on record is one the lead was imported into and the configuration allows
\* (saleshandy_handlers.go:124-126).
THEOREM MarksAreTrue == Spec => []MarkIsTrue
<1>. QED
  BY Invariance, PTL DEF IInv
=============================================================================
