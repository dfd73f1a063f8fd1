------------------------------- MODULE Leads -------------------------------
(***************************************************************************)
(* The lead list (web/leads): one row per business, whatever number of     *)
(* jobs found it, with the marks of the operator and of the two outreach   *)
(* channels.  Every operation is one transaction on one connection; one    *)
(* that fails changes nothing, so failures of a single operation are the   *)
(* stuttering steps.                                                       *)
(***************************************************************************)
EXTENDS Integers, Sequences, FiniteSets, SequencesExt

CONSTANTS
  Lead,          \* businesses, as (source, source id)
  None,          \* no business, no sequence
  Status,        \* leads.Statuses
  Category,      \* what a listing says the business is
  Sequence,      \* Saleshandy sequences
  Files,         \* the CSVs jobs leave behind
  ReviewFloor    \* Config.ReviewFloor

ASSUME LeadsAssumption ==
  /\ {"new", "do_not_contact"} \subseteq Status
  /\ None \notin Lead \cup Sequence \cup Category
  /\ ReviewFloor \in Nat \ {0}

VARIABLES
  known,         \* the leads in the list
  facts,         \* what the listing of each says
  status,        \* the operator's status
  sentTo,        \* saleshandy_at and saleshandy_sequence: None when never sent
  optIn, optOut, \* wa_opt_in_at, wa_opt_out_at: the leads where each is set
  lastMessage    \* whatsapp_at

leadVars == <<known, facts, status, sentTo, optIn, optOut, lastMessage>>

\* What is told apart of a listing: whether it has an email and a usable
\* number, how many reviews (0: not shown) and its category (None: not shown).
Facts == [email : BOOLEAN, phone : BOOLEAN, reviews : Nat, category : Category \cup {None}]
Blank == [email |-> FALSE, phone |-> FALSE, reviews |-> 0, category |-> None]

\* A CSV row: "short" when a time limit cut it off, "broken" when the reader
\* cannot go on; its lead is None when it has no name or no id.
Row == [kind : {"whole", "short", "broken"}, lead : Lead \cup {None}, facts : Facts]

When == {"never", "today", "earlier"}

LeadsInit ==
  /\ known = {} /\ facts = [l \in Lead |-> Blank]
  /\ status = [l \in Lead |-> "new"] /\ sentTo = [l \in Lead |-> None]
  /\ optIn = {} /\ optOut = {} /\ lastMessage = [l \in Lead |-> "never"]
-----------------------------------------------------------------------------
(* A broken row ends the file; short and nameless rows are passed over. *)
Parsed(file) ==
  LET broken == {i \in DOMAIN file : file[i].kind = "broken"}
      end == IF broken = {} THEN Len(file) ELSE (CHOOSE i \in broken : \A k \in broken : i <= k) - 1
  IN  SelectSeq(SubSeq(file, 1, end), LAMBDA r : r.kind = "whole" /\ r.lead # None)

\* A later sighting refreshes what the listing shows and blanks nothing.
Refreshed(old, new) ==
  [email |-> new.email \/ old.email, phone |-> new.phone \/ old.phone,
   reviews |-> IF new.reviews > 0 THEN new.reviews ELSE old.reviews,
   category |-> IF new.category # None THEN new.category ELSE old.category]

Upsert(list, r) == [list EXCEPT ![r.lead] = Refreshed(@, r.facts)]

\* Faulty variant: an upsert replaces the row, marks and all.
IngestReplaces(file) ==
  /\ known' = known \cup {r.lead : r \in ToSet(Parsed(file))}
  /\ facts' = FoldLeft(Upsert, facts, Parsed(file))
  /\ sentTo' = [l \in Lead |-> IF l \in {r.lead : r \in ToSet(Parsed(file))} THEN None ELSE sentTo[l]]
  /\ UNCHANGED <<status, optIn, optOut, lastMessage>>

IngestCSV(file) ==
  /\ known' = known \cup {r.lead : r \in ToSet(Parsed(file))}
  /\ facts' = FoldLeft(Upsert, facts, Parsed(file))
  /\ UNCHANGED <<status, sentTo, optIn, optOut, lastMessage>>

SetStatus(L, s) ==
  /\ s \in Status /\ L # {}
  /\ status' = [l \in Lead |-> IF l \in L THEN s ELSE status[l]]
  /\ UNCHANGED <<known, facts, sentTo, optIn, optOut, lastMessage>>

SetWhatsAppOptIn(l) ==
  /\ optIn' = optIn \cup {l} /\ optOut' = optOut \ {l}
  /\ UNCHANGED <<known, facts, status, sentTo, lastMessage>>

SetWhatsAppOptOut(l) ==
  /\ optOut' = optOut \cup {l} /\ optIn' = optIn \ {l}
  /\ UNCHANGED <<known, facts, status, sentTo, lastMessage>>

MarkSaleshandy(L, s) ==
  /\ sentTo' = [l \in Lead |-> IF l \in L THEN s ELSE sentTo[l]]
  /\ UNCHANGED <<known, facts, status, optIn, optOut, lastMessage>>

\* A refused message is only logged.
RecordWhatsApp(l, accepted) ==
  /\ lastMessage' = IF accepted THEN [lastMessage EXCEPT ![l] = "today"] ELSE lastMessage
  /\ UNCHANGED <<known, facts, status, sentTo, optIn, optOut>>

\* Twenty-four hours go by, which only the cool-down looks at.
CooldownEnds ==
  /\ lastMessage' = [l \in Lead |-> IF lastMessage[l] = "today" THEN "earlier" ELSE lastMessage[l]]
  /\ UNCHANGED <<known, facts, status, sentTo, optIn, optOut>>
-----------------------------------------------------------------------------
(* What the queries select. *)

\* Faulty variant: whoever is not marked "do not contact" may be written to.
AllowedByStatus(l) == status[l] # "do_not_contact"
WhatsAppAllowed(l) == l \in optIn /\ l \notin optOut /\ status[l] # "do_not_contact"
Cooling(l) == lastMessage[l] = "today"

\* sendToSaleshandy's switch: why a lead is left out.
Importable(l, resend) ==
  /\ facts[l].email /\ facts[l].reviews >= ReviewFloor
  /\ status[l] # "do_not_contact"
  /\ sentTo[l] = None \/ resend

LeadsTypeOK ==
  /\ known \subseteq Lead /\ facts \in [Lead -> Facts]
  /\ status \in [Lead -> Status] /\ sentTo \in [Lead -> Sequence \cup {None}]
  /\ optIn \subseteq known /\ optOut \subseteq known /\ lastMessage \in [Lead -> When]
=============================================================================
