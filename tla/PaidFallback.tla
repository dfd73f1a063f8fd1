---------------------------- MODULE PaidFallback ----------------------------
(***************************************************************************)
(* The customer app's paid provider (app/backend/src/outscraper.ts): a     *)
(* ledger of reservations in one file, changed only under ledger.lock,     *)
(* which is never waited for; the collection of a place that reserves,     *)
(* submits, polls and keeps the result; and the status requests, which     *)
(* rewrite the ledger too.  The backends share the ledger's directory;     *)
(* their processes may die between any two steps.                          *)
(***************************************************************************)
EXTENDS Integers, Sequences, FiniteSets, Functions

CONSTANTS
  Backend, Place,
  PerJob, Monthly,       \* the limits of OutscraperConfig, both set
  Ten,                   \* the 10 reviews of a snapshot, and beyond the count reported
  Attempts,              \* pollAttempts
  Minute, Hour,          \* the cool-downs
  ResumeFor, Day, Month,     \* 3 hours, 24 hours, a month
  Reports, Sizes,        \* counts reported (0: unknown); reviews in a sample
  MaxTime, MaxCrashes    \* bounds

ASSUME PaidFallbackAssumption ==
  /\ {PerJob, Monthly, Ten, ResumeFor, Day, Month} \subseteq Nat \ {0}
  /\ {Attempts, Minute, Hour, MaxTime, MaxCrashes} \subseteq Nat
  /\ Reports \subseteq Nat /\ Sizes \subseteq Nat
  /\ ResumeFor <= Day

VARIABLES
  clock,
  holder,   \* of ledger.lock: an actor, Free, or Stale: left by a process that died
  copy,     \* what each actor has read of the ledger and not yet written back
  ledger,   \* ledger.json: [rows, blockedUntil]
  results,  \* the result files that are whole: [id, size]
  mixed,    \* the backends whose write of a result ran beside another one of the same file
  call,     \* the collection each backend runs
  crashes,
  paid,     \* history: the requests submitted, in order
  rewritten \* history: results written over a whole one or beside another write, until one write alone ends

paidVars == <<clock, holder, copy, ledger, results, mixed, call, crashes, paid, rewritten>>
written == <<results, mixed, rewritten>>
files == <<ledger, written>>

\* A backend's collection, and the status requests it answers meanwhile.
Job(b) == <<b, "job">>
Status(b) == <<b, "status">>
Actor == Backend \X {"job", "status"}
Free == <<"nobody", "free">>
Stale == <<"nobody", "stale">>

Nothing == [rows |-> <<>>, blockedUntil |-> -1]
Idling == [pc |-> "idle", place |-> "none", full |-> FALSE, reported |-> 0, have |-> 0, at |-> 0,
           id |-> 0, born |-> 0, limit |-> 0, req |-> FALSE, status |-> "none", polls |-> 0, cool |-> 0, size |-> 0]

PaidInit ==
  /\ clock = 0 /\ holder = Free /\ copy = [a \in Actor |-> Nothing]
  /\ ledger = [rows |-> <<>>, blockedUntil |-> 0]
  /\ results = {} /\ mixed = {} /\ rewritten = {} /\ call = [b \in Backend |-> Idling] /\ crashes = 0 /\ paid = <<>>
-----------------------------------------------------------------------------
(* transaction: the lock, the copy, the replacement, the lock's removal. *)

Inside(a) == holder = a /\ copy[a] # Nothing

\* The collections that are about to open a transaction.
Wants(b) == call[b].pc \in {"reserve", "note", "keep", "fail"} /\ holder # Job(b)

OpenLedger(a) == holder = Free /\ holder' = a /\ copy' = [copy EXCEPT ![a] = ledger]

\* One actor's rename puts the ledger it worked on in place; the lock is still there.
Publish(a, l) == Inside(a) /\ ledger' = l /\ copy' = [copy EXCEPT ![a] = Nothing] /\ UNCHANGED holder

CloseLedger(a) ==
  /\ holder = a /\ copy[a] = Nothing /\ holder' = Free
  /\ UNCHANGED <<clock, copy, files, call, crashes, paid>>

Enter(b) == Wants(b) /\ OpenLedger(Job(b)) /\ UNCHANGED <<clock, files, call, crashes, paid>>

\* What a transaction that throws does to the collection: an update's error is taken for a failed request.
Gone(b, pc, n) == [call EXCEPT ![b] = [Idling EXCEPT !.pc = pc, !.size = n]]
Thrown(b) == IF call[b].pc \in {"note", "keep"} THEN [call EXCEPT ![b].pc = "fail"] ELSE Gone(b, "threw", 0)

\* Faulty variant: a collection waits for the lock.
LockedWaits(b) == FALSE
Locked(b) ==
  /\ Wants(b) /\ holder # Free /\ call' = Thrown(b)
  /\ UNCHANGED <<clock, holder, copy, files, crashes, paid>>

WriteFails(b) ==
  /\ Inside(Job(b)) /\ copy' = [copy EXCEPT ![Job(b)] = Nothing] /\ holder' = Free /\ call' = Thrown(b)
  /\ UNCHANGED <<clock, files, crashes, paid>>

\* status: read, summed up, and written back as it was.
StatusEnter(b) == OpenLedger(Status(b)) /\ UNCHANGED <<clock, files, call, crashes, paid>>
StatusWrite(b) ==
  /\ Inside(Status(b)) /\ ledger' = copy[Status(b)]
  /\ copy' = [copy EXCEPT ![Status(b)] = Nothing] /\ holder' = Free
  /\ UNCHANGED <<clock, written, call, crashes, paid>>
-----------------------------------------------------------------------------
(* collect: the reservation. *)

Collect(b, place, full, reported, have) ==
  /\ call[b] = Idling
  /\ call' = [call EXCEPT ![b] = [Idling EXCEPT !.pc = "reserve", !.place = place, !.full = full,
                                    !.reported = reported, !.have = have, !.at = clock]]
  /\ UNCHANGED <<clock, holder, copy, files, crashes, paid>>

(* The reservations of the place in the last 24 hours. *)
\* Faulty variant: what failed may be tried again.
PriorUnfailed(rows, place, t) ==
  {i \in DOMAIN rows : rows[i].place = place /\ t - rows[i].at < Day /\ rows[i].state # "failed"}
Prior(rows, place, t) == {i \in DOMAIN rows : rows[i].place = place /\ t - rows[i].at < Day}

\* What is asked for in the month of t.
Limits(rows) == [i \in DOMAIN rows |-> rows[i].limit]
InMonth(rows, t) == {i \in DOMAIN rows : rows[i].at \div Month = t \div Month}

\* Faulty variant: a request that failed is taken to have been free.
UsedUnfailed(rows, t) == SumFunctionOnSet(Limits(rows), {i \in InMonth(rows, t) : rows[i].state # "failed"})
Used(rows, t) == SumFunctionOnSet(Limits(rows), InMonth(rows, t))

Smallest(a, b) == IF a <= b THEN a ELSE b

Limit(rows, c) ==
  LET desired == IF ~c.full THEN Ten ELSE IF c.reported > 0 THEN c.reported + Ten ELSE PerJob
  IN  Smallest(Smallest(PerJob, desired), Monthly - Used(rows, c.at))

Admitted(l, c) ==
  /\ Prior(l.rows, c.place, c.at) = {} /\ l.blockedUntil <= c.at
  /\ Limit(l.rows, c) \in 1..PerJob /\ (c.full => Limit(l.rows, c) > c.have)

Reusable(r, c) ==
  \/ r.state = "success" /\ (~c.full \/ r.full)
  \/ r.state = "pending" /\ r.req /\ c.at - r.at < ResumeFor

NewRow(rows, c) == [id |-> Len(rows) + 1, place |-> c.place, at |-> c.at, full |-> c.full,
                    limit |-> Limit(rows, c), state |-> "reserved", req |-> FALSE]

\* The collection goes on with row r.
Takes(b, r, pc, status) ==
  call' = [call EXCEPT ![b] = [Idling EXCEPT !.pc = pc, !.place = r.place, !.id = r.id, !.born = r.at,
                                 !.limit = r.limit, !.req = r.req, !.status = status]]

Reserve(b) ==
  LET c == call[b]  l == copy[Job(b)]  r == NewRow(l.rows, c)
  IN  /\ c.pc = "reserve" /\ Inside(Job(b)) /\ Admitted(l, c)
      /\ Publish(Job(b), [l EXCEPT !.rows = Append(@, r)])
      /\ Takes(b, r, "tell", "none")
      /\ UNCHANGED <<clock, written, crashes, paid>>

\* The newest of them.
Newest(l, c) == LET P == Prior(l.rows, c.place, c.at) IN {i \in P : \A j \in P : j <= i}

Reuse(b) ==
  LET c == call[b]  l == copy[Job(b)]
  IN  /\ c.pc = "reserve" /\ Inside(Job(b)) /\ Publish(Job(b), l)
      /\ \E i \in Newest(l, c) :
           /\ Reusable(l.rows[i], c)
           /\ IF l.rows[i].state = "success" THEN Takes(b, l.rows[i], "read", "none")
                                             ELSE Takes(b, l.rows[i], "tell", "Pending")
      /\ UNCHANGED <<clock, written, crashes, paid>>

Refuse(b) ==
  LET c == call[b]  l == copy[Job(b)]
  IN  /\ c.pc = "reserve" /\ Inside(Job(b)) /\ ~Admitted(l, c)
      /\ \A i \in Newest(l, c) : ~Reusable(l.rows[i], c)
      /\ copy' = [copy EXCEPT ![Job(b)] = Nothing] /\ holder' = Free /\ call' = Thrown(b)
      /\ UNCHANGED <<clock, files, crashes, paid>>
-----------------------------------------------------------------------------
(* collect: the request, and what comes of it. *)

At(b, pc) == call[b].pc = pc /\ holder # Job(b)

Moves(b, pc) ==
  /\ call' = IF pc = "threw" THEN Gone(b, pc, 0) ELSE [call EXCEPT ![b].pc = pc]
  /\ UNCHANGED <<clock, holder, copy, files, crashes, paid>>

ReadResult(b) ==
  /\ At(b, "read")
  /\ \E f \in results : f.id = call[b].id /\ call' = Gone(b, "returned", f.size)
  /\ UNCHANGED <<clock, holder, copy, files, crashes, paid>>

ReadFails(b) == At(b, "read") /\ Moves(b, "threw")

\* onProgress saves the job, and its error leaves collect.
Tell(b) == At(b, "tell") /\ Moves(b, IF call[b].status = "Pending" THEN "judge" ELSE "submit")
TellFails(b) == At(b, "tell") /\ Moves(b, "threw")

Sent(c) == [id |-> c.id, place |-> c.place, at |-> c.born, limit |-> c.limit]
Answer == {"Pending", "Success", "other"}

Submit(b) ==
  /\ At(b, "submit") /\ paid' = Append(paid, Sent(call[b]))
  /\ \E s \in Answer, named \in BOOLEAN :
       call' = [call EXCEPT ![b].pc = IF named THEN "note" ELSE "judge", ![b].req = named, ![b].status = s]
  /\ UNCHANGED <<clock, holder, copy, files, crashes>>

\* No answer, or an error status; nobody knows whether it is charged.
SubmitFails(b) ==
  /\ At(b, "submit") /\ paid' = Append(paid, Sent(call[b]))
  /\ \E d \in {0, Minute, Hour} : call' = [call EXCEPT ![b].pc = "fail", ![b].cool = d]
  /\ UNCHANGED <<clock, holder, copy, files, crashes>>

\* update: one row of the copy is changed.
Changed(r, id, s) == IF r.id = id THEN [r EXCEPT !.state = s, !.req = @ \/ s = "pending"] ELSE r

Patched(b, s) ==
  LET l == copy[Job(b)]
  IN  [l EXCEPT !.rows = [i \in DOMAIN l.rows |-> Changed(l.rows[i], call[b].id, s)]]

Note(b) ==
  /\ call[b].pc = "note" /\ Publish(Job(b), Patched(b, "pending"))
  /\ call' = [call EXCEPT ![b].pc = "judge"]
  /\ UNCHANGED <<clock, written, crashes, paid>>

Usable(b) == call[b].status = "Success"
MayPoll(b) == call[b].status = "Pending" /\ call[b].req
Exhausted(b) == call[b].polls = Attempts \/ clock - call[b].born >= ResumeFor

\* A result is written in place: the file is emptied, and then filled (the ledger's is replaced).
Without(id) == {f \in results : f.id # id}
Beside(b) == {c \in Backend \ {b} : call[c].pc = "write" /\ call[c].id = call[b].id}

\* Faulty variant: the write is not awaited.
EmptyResultUnawaited(b) ==
  /\ At(b, "judge") /\ Usable(b)
  /\ \E n \in Sizes : call' = [call EXCEPT ![b].pc = "keep", ![b].size = n]
  /\ results' = Without(call[b].id)
  /\ UNCHANGED <<clock, holder, copy, ledger, mixed, crashes, paid, rewritten>>
EmptyResult(b) ==
  /\ At(b, "judge") /\ Usable(b)
  /\ \E n \in Sizes : call' = [call EXCEPT ![b].pc = "write", ![b].size = n]
  /\ results' = Without(call[b].id)
  /\ mixed' = (IF Beside(b) = {} THEN mixed ELSE mixed \cup Beside(b) \cup {b})
  /\ rewritten' = (IF Beside(b) = {} /\ results' = results THEN rewritten ELSE rewritten \cup {call[b].id})
  /\ UNCHANGED <<clock, holder, copy, ledger, crashes, paid>>

\* What two writes at once leave may be of both.
FillResult(b) ==
  LET whole == Without(call[b].id) \cup {[id |-> call[b].id, size |-> call[b].size]}
  IN  /\ call[b].pc = "write" /\ call' = [call EXCEPT ![b].pc = "keep"] /\ mixed' = mixed \ {b}
      /\ \/ b \notin mixed /\ results' = whole /\ rewritten' = rewritten \ {call[b].id}
         \/ b \in mixed /\ results' \in {whole, Without(call[b].id)} /\ UNCHANGED rewritten
      /\ UNCHANGED <<clock, holder, copy, ledger, crashes, paid>>

\* A write that stops half-way: beside another one it may have spoilt what that one wrote.
Stops(b) ==
  /\ results' = results \/ (b \in mixed /\ results' = Without(call[b].id))
  /\ mixed' = mixed \ {b} /\ UNCHANGED rewritten

FillFails(b) ==
  /\ call[b].pc = "write" /\ call' = [call EXCEPT ![b].pc = "fail"] /\ Stops(b)
  /\ UNCHANGED <<clock, holder, copy, ledger, crashes, paid>>

\* Not what was asked for, or a file that cannot be opened; or neither a result nor an id to poll.
Unusable(b) == At(b, "judge") /\ (Usable(b) \/ ~MayPoll(b)) /\ Moves(b, "fail")

StillPending(b) == At(b, "judge") /\ MayPoll(b) /\ Exhausted(b) /\ Moves(b, "threw")

(* A poll that is not answered counts as "Pending". *)
Poll(b) ==
  /\ At(b, "judge") /\ MayPoll(b) /\ ~Exhausted(b)
  /\ \E s \in Answer : call' = [call EXCEPT ![b].status = s, ![b].polls = @ + 1]
  /\ UNCHANGED <<clock, holder, copy, files, crashes, paid>>

PollRefused(b) ==
  /\ At(b, "judge") /\ MayPoll(b) /\ ~Exhausted(b)
  /\ \E d \in {0, Hour} : call' = [call EXCEPT ![b].pc = "fail", ![b].cool = d]
  /\ UNCHANGED <<clock, holder, copy, files, crashes, paid>>

Keep(b) ==
  /\ call[b].pc = "keep" /\ Publish(Job(b), Patched(b, "success"))
  /\ call' = Gone(b, "returned", call[b].size)
  /\ UNCHANGED <<clock, written, crashes, paid>>

Fail(b) ==
  LET c == call[b]
  IN  /\ c.pc = "fail"
      /\ Publish(Job(b), [Patched(b, "failed") EXCEPT !.blockedUntil = IF c.cool > 0 THEN clock + c.cool ELSE @])
      /\ call' = Gone(b, "threw", 0)
      /\ UNCHANGED <<clock, written, crashes, paid>>

Return(b) == (At(b, "returned") \/ At(b, "threw")) /\ call' = [call EXCEPT ![b] = Idling]
-----------------------------------------------------------------------------
(* The process, the operator and the clock. *)

Dies(b) ==
  /\ crashes < MaxCrashes /\ crashes' = crashes + 1
  /\ call' = [call EXCEPT ![b] = Idling]
  /\ copy' = [a \in Actor |-> IF a \in {Job(b), Status(b)} THEN Nothing ELSE copy[a]]
  /\ holder' = IF holder \in {Job(b), Status(b)} THEN Stale ELSE holder
  /\ Stops(b) /\ UNCHANGED <<clock, ledger, paid>>

\* The operator stops all providers before the stale lock is removed.
RemoveLock ==
  /\ holder = Stale /\ \A b \in Backend : call[b] = Idling
  /\ holder' = Free /\ UNCHANGED <<clock, copy, files, call, crashes, paid>>

Tick == clock < MaxTime /\ clock' = clock + 1 /\ UNCHANGED <<holder, copy, files, call, crashes, paid>>

\* What a collection does without the provider's caller.
Works(b) ==
  \/ Enter(b) \/ Locked(b) \/ WriteFails(b) \/ CloseLedger(Job(b))
  \/ Reserve(b) \/ Reuse(b) \/ Refuse(b) \/ ReadResult(b) \/ ReadFails(b)
  \/ Tell(b) \/ TellFails(b) \/ Submit(b) \/ SubmitFails(b) \/ Note(b)
  \/ EmptyResult(b) \/ FillResult(b) \/ FillFails(b) \/ Unusable(b) \/ StillPending(b) \/ Poll(b) \/ PollRefused(b)
  \/ Keep(b) \/ Fail(b)

Around == RemoveLock \/ Tick \/ \E b \in Backend : StatusEnter(b) \/ StatusWrite(b)

Asked(b) == \E place \in Place, full \in BOOLEAN, reported \in Reports, have \in Sizes \cup {0} :
              Collect(b, place, full, reported, have)

Ends(b) == Return(b) /\ UNCHANGED <<clock, holder, copy, files, crashes, paid>>

PaidNext == Around \/ \E b \in Backend : Asked(b) \/ Works(b) \/ Ends(b) \/ Dies(b)

PaidSpec == PaidInit /\ [][PaidNext]_paidVars
-----------------------------------------------------------------------------
(* Properties. *)

Steps == {"idle", "reserve", "read", "tell", "submit", "note", "judge", "write", "keep", "fail", "returned", "threw"}
Names == Place \cup {"none"}
Row == [id : Nat, place : Names, at : Nat, full : BOOLEAN, limit : Nat,
        state : {"reserved", "pending", "success", "failed"}, req : BOOLEAN]
Ledger == [rows : Seq(Row), blockedUntil : Int]
Call == [pc : Steps, place : Names, full : BOOLEAN, reported : Nat, have : Nat, at : Nat,
         id : Nat, born : Nat, limit : Nat, req : BOOLEAN, status : Answer \cup {"none"}, polls : Nat,
         cool : Nat, size : Nat]

PaidTypeOK ==
  /\ clock \in Nat /\ copy \in [Actor -> Ledger] /\ ledger \in Ledger /\ call \in [Backend -> Call]
  /\ results \subseteq [id : Nat, size : Nat] /\ mixed \subseteq Backend /\ rewritten \subseteq Nat
  /\ paid \in Seq([id : Nat, place : Names, at : Nat, limit : Nat])

(* However collections, status requests, crashes and failures are mixed,   *)
(* no place is submitted twice within 24 hours, by any backend (the time   *)
(* of a request is that of its reservation, taken as it begins): a request *)
(* that failed or whose answer was lost counts as charged.                 *)
OneChargePerDay ==
  \A i, j \in DOMAIN paid :
    i # j /\ paid[i].place = paid[j].place =>
      paid[j].at - paid[i].at >= Day \/ paid[i].at - paid[j].at >= Day

(* What is submitted in a month never asks for more than the allowance.    *)
AllowanceHolds == \A t \in 0..clock : SumFunctionOnSet(Limits(paid), InMonth(paid, t)) <= Monthly

(* A row that says "success" can be served again: its result is whole on   *)
(* disk, wherever its own collection failed or died, and stays so - but    *)
(* for a second collection that resumed the same request (outscraper.ts:   *)
(* 128) and wrote its result over the first one's or beside it: then until *)
(* a write that runs alone has ended (156 is not a replacement).           *)
SuccessIsReadable ==
  \A i \in DOMAIN ledger.rows : ledger.rows[i].state = "success" =>
    (\E f \in results : f.id = ledger.rows[i].id) \/ ledger.rows[i].id \in rewritten

(* A completed result on disk can be reused: its row is never "failed".    *)
(* The documentation says so; the ledger's lock is not waited for.         *)
CompletedIsCached ==
  \A i \in DOMAIN ledger.rows :
    (\E f \in results : f.id = ledger.rows[i].id) => ledger.rows[i].state # "failed"

(* Nothing is paid for that the ledger does not hold: each request submitted *)
(* is that of a row, with its place, time and limit, and of a row of its own *)
(* - wherever a process died between the two, or an update was given up.     *)
ChargesAreOnRecord ==
  /\ \A k \in DOMAIN paid : \E i \in DOMAIN ledger.rows :
       LET r == ledger.rows[i]
       IN  r.id = paid[k].id /\ r.place = paid[k].place /\ r.at = paid[k].at /\ r.limit = paid[k].limit
  /\ \A k, m \in DOMAIN paid : k # m => paid[k].id # paid[m].id

(* No write of the ledger loses a reservation or takes back what one stands  *)
(* for: the place, its time, the limit, the id of the request, and that it   *)
(* is no longer only reserved.  Every writer puts back a whole file that it  *)
(* read an await earlier, status requests too (outscraper.ts:83-94, 100).    *)
StandsFor(r, q) ==
  /\ q.id = r.id /\ q.place = r.place /\ q.at = r.at /\ q.full = r.full /\ q.limit = r.limit
  /\ r.req => q.req
  /\ r.state # "reserved" => q.state # "reserved"
ReservationsStay ==
  [][\A i \in DOMAIN ledger.rows :
       i \in DOMAIN ledger'.rows /\ StandsFor(ledger.rows[i], ledger'.rows[i])]_paidVars
=============================================================================
