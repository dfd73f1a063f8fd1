-------------------------- MODULE DiscoveryProofs --------------------------
(***************************************************************************)
(* Proofs about the customer app's paid provider and the jobs above it,    *)
(* for any backends, places, limits and times, and any number of crashes.  *)
(* The provider: who has a copy of the ledger has the lock; rows of a      *)
(* place are a day apart, those of a month add up to the allowance at most *)
(* (SumTheorems), each request is that of one row, and a row whose request *)
(* is still to be submitted is one collection's alone.                     *)
(***************************************************************************)
EXTENDS Discovery, SumTheorems

\* Who has a copy of the ledger has the lock, and the copy is the ledger.
Copies == \A a \in Actor : copy[a] # Nothing => holder = a /\ copy[a] = ledger

\* The rows: numbered, and a day apart for each place.
Spread ==
  /\ \A i \in DOMAIN ledger.rows : ledger.rows[i].id = i
  /\ \A i, j \in DOMAIN ledger.rows :
       i < j /\ ledger.rows[i].place = ledger.rows[j].place => ledger.rows[j].at - ledger.rows[i].at >= Day

\* Each request submitted is that of a row, and of a row of its own.
Recorded ==
  /\ \A k \in DOMAIN paid : /\ paid[k].id \in DOMAIN ledger.rows
                            /\ ledger.rows[paid[k].id].place = paid[k].place
                            /\ ledger.rows[paid[k].id].at = paid[k].at
                            /\ ledger.rows[paid[k].id].limit = paid[k].limit
  /\ \A k, m \in DOMAIN paid : k # m => paid[k].id # paid[m].id

\* A collection that is still to submit has a row that is nobody else's.
Unsent(c) == c.pc = "submit" \/ (c.pc = "tell" /\ c.status # "Pending")
Owned ==
  /\ \A b \in Backend : Unsent(call[b]) =>
       /\ call[b].id \in DOMAIN ledger.rows
       /\ ledger.rows[call[b].id].place = call[b].place /\ ledger.rows[call[b].id].at = call[b].born
       /\ ledger.rows[call[b].id].limit = call[b].limit
       /\ \A k \in DOMAIN paid : paid[k].id # call[b].id
  /\ \A b, d \in Backend : b # d /\ Unsent(call[b]) /\ Unsent(call[d]) => call[b].id # call[d].id

\* What the ledger sets apart for a month is within the allowance.
Budgeted == \A t \in Nat : Used(ledger.rows, t) <= Monthly

\* Its result is whole, or was written over or beside another one since.
OnDisk(id) == (\E f \in results : f.id = id) \/ id \in rewritten
Written == \A b \in Backend : call[b].pc = "keep" => OnDisk(call[b].id)

\* Two that write one result know that it may be of both; who writes has left the ledger.
Writing ==
  /\ \A b \in mixed : call[b].pc = "write" /\ call[b].id \in rewritten
  /\ \A b, d \in Backend :
       b # d /\ call[b].pc = "write" /\ call[d].pc = "write" /\ call[b].id = call[d].id => b \in mixed
  /\ \A b \in Backend : call[b].pc = "write" => holder # Job(b)

PaidInv ==
  PaidTypeOK /\ Copies /\ Spread /\ Budgeted /\ Recorded /\ Owned /\ Written /\ Writing /\ SuccessIsReadable

\* What a step leaves as it is: rows but for their state, files, and what is still to submit.
RowsStay ==
  /\ DOMAIN ledger'.rows = DOMAIN ledger.rows
  /\ \A i \in DOMAIN ledger.rows : /\ ledger'.rows[i].id = ledger.rows[i].id
                                   /\ ledger'.rows[i].place = ledger.rows[i].place
                                   /\ ledger'.rows[i].at = ledger.rows[i].at
                                   /\ ledger'.rows[i].limit = ledger.rows[i].limit
                                   /\ ledger'.rows[i].state = "success" => OnDisk(i)'
FilesStay == \A id : OnDisk(id) => OnDisk(id)'
CallsStay ==
  \A b \in Backend :
    /\ Unsent(call[b])' => /\ Unsent(call[b]) /\ call'[b].id = call[b].id
                           /\ call'[b].place = call[b].place /\ call'[b].born = call[b].born
                           /\ call'[b].limit = call[b].limit
    /\ call'[b].pc = "keep" => OnDisk(call[b].id)'

Request == [id : Nat, place : Names, at : Nat, limit : Nat]

\* The limits of the rows, or requests, of a month add up.
LEMMA LimitsAdd ==
  ASSUME NEW rows, rows \in Seq(Row) \/ rows \in Seq(Request), NEW t
  PROVE  /\ IsFiniteSet(InMonth(rows, t)) /\ InMonth(rows, t) \subseteq DOMAIN rows
         /\ \A i \in DOMAIN rows : Limits(rows)[i] = rows[i].limit /\ Limits(rows)[i] \in Nat
         /\ SumFunctionOnSet(Limits(rows), InMonth(rows, t)) \in Nat
<1>1. DOMAIN rows = 1..Len(rows) /\ Len(rows) \in Nat
  OBVIOUS
<1>2. IsFiniteSet(InMonth(rows, t)) /\ InMonth(rows, t) \subseteq DOMAIN rows
  <2>1. IsFiniteSet(DOMAIN rows)
    BY <1>1, FS_Interval
  <2>. QED
    BY <2>1, FS_Subset DEF InMonth
<1>3. \A i \in DOMAIN rows : Limits(rows)[i] = rows[i].limit /\ Limits(rows)[i] \in Nat
  <2>1. CASE rows \in Seq(Row)
    <3>1. \A i \in DOMAIN rows : rows[i] \in Row
      BY <1>1, <2>1
    <3>. QED
      BY <3>1 DEF Limits, Row
  <2>2. CASE rows \in Seq(Request)
    <3>1. \A i \in DOMAIN rows : rows[i] \in Request
      BY <1>1, <2>2
    <3>. QED
      BY <3>1 DEF Limits, Request
  <2>. QED
    BY <2>1, <2>2
<1>. QED
  BY <1>2, <1>3, SumNatural

LEMMA Stays ==
  ASSUME PaidInv, PaidTypeOK', Copies', Writing', RowsStay, FilesStay, CallsStay, paid' = paid
  PROVE  PaidInv'
<1>1. Spread'
  BY DEF PaidInv, Spread, RowsStay
<1>6. Budgeted'
  <2>. SUFFICES ASSUME NEW t \in Nat PROVE Used(ledger'.rows, t) <= Monthly
    BY DEF Budgeted
  <2>1. /\ InMonth(ledger'.rows, t) = InMonth(ledger.rows, t)
        /\ \A i \in InMonth(ledger.rows, t) : Limits(ledger'.rows)[i] = Limits(ledger.rows)[i]
    BY DEF RowsStay, InMonth, Limits
  <2>2. ledger.rows \in Seq(Row)
    BY DEF PaidInv, PaidTypeOK, Ledger
  <2>3. Used(ledger'.rows, t) = Used(ledger.rows, t)
    <3>. DEFINE S == InMonth(ledger.rows, t)
                f == Limits(ledger.rows)
                g == Limits(ledger'.rows)
    <3>1. IsFiniteSet(S) /\ \A i \in S : f[i] \in Int
      BY <2>2, LimitsAdd
    <3>2. (\A i \in S : g[i] = f[i]) /\ Used(ledger.rows, t) = SumFunctionOnSet(f, S)
          /\ Used(ledger'.rows, t) = SumFunctionOnSet(g, S)
      BY <2>1 DEF Used
    <3>. HIDE DEF S, f, g
    <3>. QED
      BY <3>1, <3>2, SumSame
  <2>. QED
    BY <2>3 DEF PaidInv, Budgeted
<1>2. Recorded'
  BY DEF PaidInv, Recorded, RowsStay
<1>3. Owned'
  <2>1. ASSUME NEW b \in Backend, Unsent(call[b])'
        PROVE  /\ Unsent(call[b]) /\ call'[b].id = call[b].id
               /\ call'[b].place = call[b].place /\ call'[b].born = call[b].born
               /\ call'[b].limit = call[b].limit
    BY <2>1 DEF CallsStay
  <2>2. ASSUME NEW b \in Backend, Unsent(call[b])'
        PROVE  /\ call'[b].id \in DOMAIN ledger'.rows
               /\ ledger'.rows[call'[b].id].place = call'[b].place /\ ledger'.rows[call'[b].id].at = call'[b].born
               /\ ledger'.rows[call'[b].id].limit = call'[b].limit
               /\ \A k \in DOMAIN paid' : paid'[k].id # call'[b].id
    BY <2>1, <2>2 DEF PaidInv, Owned, RowsStay
  <2>3. ASSUME NEW b \in Backend, NEW d \in Backend, b # d, Unsent(call[b])', Unsent(call[d])'
        PROVE  call'[b].id # call'[d].id
    BY <2>1, <2>3 DEF PaidInv, Owned
  <2>. QED
    BY <2>2, <2>3 DEF Owned
<1>4. Written'
  BY DEF Written, CallsStay
<1>5. SuccessIsReadable'
  <2>1. \A i \in DOMAIN ledger'.rows : ledger'.rows[i].id = i
    BY DEF PaidInv, Spread, RowsStay
  <2>. QED
    BY <2>1 DEF RowsStay, SuccessIsReadable, OnDisk
<1>. QED
  BY <1>1, <1>2, <1>3, <1>4, <1>5, <1>6 DEF PaidInv

\* A row that says "success" has its file.
LEMMA Readable ==
  ASSUME PaidInv, NEW i \in DOMAIN ledger.rows, ledger.rows[i].state = "success"
  PROVE  OnDisk(i)
BY DEF PaidInv, SuccessIsReadable, OnDisk, Spread

\* What update makes of the ledger.
LEMMA PatchedRows ==
  ASSUME PaidInv, NEW b \in Backend, NEW s \in {"pending", "success", "failed"}, Inside(Job(b))
  PROVE  /\ Patched(b, s) \in Ledger
         /\ DOMAIN Patched(b, s).rows = DOMAIN ledger.rows
         /\ \A i \in DOMAIN ledger.rows :
              /\ Patched(b, s).rows[i].id = ledger.rows[i].id
              /\ Patched(b, s).rows[i].place = ledger.rows[i].place
              /\ Patched(b, s).rows[i].at = ledger.rows[i].at
              /\ Patched(b, s).rows[i].limit = ledger.rows[i].limit
              /\ Patched(b, s).rows[i].state = IF i = call[b].id THEN s ELSE ledger.rows[i].state
<1>1. copy[Job(b)] = ledger /\ ledger \in Ledger /\ ledger.rows \in Seq(Row)
  BY DEF PaidInv, Copies, Inside, Job, Actor, PaidTypeOK, Ledger
<1>. DEFINE patch(r) == Changed(r, call[b].id, s)
            new == [i \in DOMAIN ledger.rows |-> patch(ledger.rows[i])]
<1>2. Patched(b, s) = [ledger EXCEPT !.rows = new]
  BY <1>1 DEF Patched
<1>3. \A i \in DOMAIN ledger.rows : ledger.rows[i] \in Row /\ ledger.rows[i].id = i
  BY <1>1 DEF PaidInv, Spread
<1>4. ASSUME NEW r \in Row
      PROVE  patch(r) \in Row /\ patch(r).id = r.id /\ patch(r).place = r.place /\ patch(r).at = r.at
             /\ patch(r).limit = r.limit
             /\ patch(r).state = IF r.id = call[b].id THEN s ELSE r.state
  BY DEF Row, Changed
<1>. HIDE DEF patch
<1>5. new \in Seq(Row) /\ DOMAIN new = DOMAIN ledger.rows
  <2>1. DOMAIN ledger.rows = 1..Len(ledger.rows) /\ Len(ledger.rows) \in Nat
    BY <1>1
  <2>2. new \in [1..Len(ledger.rows) -> Row]
    BY <1>3, <1>4, <2>1
  <2>. QED
    BY <2>1, <2>2
<1>6. Patched(b, s) \in Ledger /\ Patched(b, s).rows = new
  BY <1>1, <1>2, <1>5 DEF Ledger
<1>. QED
  BY <1>3, <1>4, <1>5, <1>6

\* A step without a write of a result.
LEMMA WritesAlone ==
  ASSUME PaidInv, UNCHANGED <<mixed, rewritten>>,
         \A b \in Backend : /\ (call[b].pc = "write") = (call'[b].pc = "write")
                            /\ call[b].pc = "write" => call'[b].id = call[b].id
                            /\ holder' = Job(b) => holder = Job(b) \/ call[b].pc # "write"
  PROVE  Writing'
<1>1. \A b \in mixed : b \in Backend /\ call[b].pc = "write" /\ call[b].id \in rewritten
  BY DEF PaidInv, PaidTypeOK, Writing
<1>2. \A b \in mixed' : call'[b].pc = "write" /\ call'[b].id \in rewritten'
  BY <1>1
<1>3. ASSUME NEW b \in Backend, NEW d \in Backend, b # d, call'[b].pc = "write", call'[d].pc = "write",
             call'[b].id = call'[d].id
      PROVE  b \in mixed'
  <2>1. call[b].pc = "write" /\ call[d].pc = "write" /\ call[b].id = call[d].id
    BY <1>3
  <2>. QED
    BY <1>3, <2>1 DEF PaidInv, Writing
<1>4. ASSUME NEW b \in Backend, call'[b].pc = "write" PROVE holder' # Job(b)
  <2>1. call[b].pc = "write" /\ holder # Job(b)
    BY <1>4 DEF PaidInv, Writing
  <2>. QED
    BY <2>1
<1>. QED
  BY <1>2, <1>3, <1>4 DEF Writing

\* A step of one collection that is neither to submit nor to keep or write anything it was not about to.
Behaves(b) ==
  /\ call'[b] \in Call /\ call' = [call EXCEPT ![b] = call'[b]]
  /\ Unsent(call[b])' => /\ Unsent(call[b]) /\ call'[b].id = call[b].id
                         /\ call'[b].place = call[b].place /\ call'[b].born = call[b].born
                         /\ call'[b].limit = call[b].limit
  /\ call'[b].pc = "keep" => call[b].pc = "keep" /\ call'[b].id = call[b].id
  /\ call[b].pc # "write" /\ call'[b].pc # "write"

LEMMA BehavedCalls ==
  ASSUME PaidInv, NEW b \in Backend, Behaves(b), FilesStay
  PROVE  /\ CallsStay /\ call' \in [Backend -> Call]
         /\ UNCHANGED written /\ (\A d \in Backend : holder' = Job(d) => holder = Job(d)) => Writing'
<1>1. \A d \in Backend : d # b => call'[d] = call[d]
  BY DEF Behaves, PaidInv, PaidTypeOK
<1>2. call' \in [Backend -> Call]
  BY DEF Behaves, PaidInv, PaidTypeOK
<1>3. \A d \in Backend : call'[d].pc = "keep" => call[d].pc = "keep" /\ call'[d].id = call[d].id
  BY <1>1 DEF Behaves
<1>4. ASSUME NEW d \in Backend, call'[d].pc = "keep" PROVE OnDisk(call[d].id)'
  <2>1. OnDisk(call[d].id) /\ call'[d].id = call[d].id
    BY <1>3, <1>4 DEF PaidInv, Written
  <2>. QED
    BY <2>1 DEF FilesStay, OnDisk
<1>5. ASSUME NEW d \in Backend, Unsent(call[d])'
      PROVE  /\ Unsent(call[d]) /\ call'[d].id = call[d].id
             /\ call'[d].place = call[d].place /\ call'[d].born = call[d].born
             /\ call'[d].limit = call[d].limit
  BY <1>1, <1>5 DEF Behaves, Unsent
<1>6. \A d \in Backend : /\ (call[d].pc = "write") = (call'[d].pc = "write")
                         /\ call[d].pc = "write" => call'[d].id = call[d].id
  BY <1>1 DEF Behaves
<1>. QED
  BY <1>2, <1>4, <1>5, <1>6, WritesAlone DEF CallsStay, written

LEMMA Became ==
  ASSUME PaidInv, NEW b \in Backend, NEW x \in Call, call' = [call EXCEPT ![b] = x],
         ~Unsent(x), x.pc = "keep" => call[b].pc = "keep" /\ x.id = call[b].id,
         call[b].pc # "write", x.pc # "write"
  PROVE  Behaves(b)
<1>1. call'[b] = x
  BY DEF PaidInv, PaidTypeOK
<1>. QED
  BY <1>1 DEF Behaves, Unsent

LEMMA GoneCall ==
  ASSUME NEW pc \in {"threw", "returned"}, NEW n \in Nat
  PROVE  /\ [Idling EXCEPT !.pc = pc, !.size = n] \in Call
         /\ ~Unsent([Idling EXCEPT !.pc = pc, !.size = n]) /\ [Idling EXCEPT !.pc = pc, !.size = n].pc = pc
BY DEF Call, Idling, Steps, Unsent, Names

\* Nothing of the files changes.
LEMMA RowsAlone == ASSUME PaidInv, UNCHANGED ledger, FilesStay PROVE RowsStay
<1>1. ASSUME NEW i \in DOMAIN ledger.rows, ledger.rows[i].state = "success" PROVE OnDisk(i)'
  <2>1. OnDisk(i)
    BY <1>1, Readable
  <2>. QED
    BY <2>1 DEF FilesStay
<1>. QED
  BY <1>1 DEF RowsStay

LEMMA FilesAlone == ASSUME PaidInv, UNCHANGED files PROVE RowsStay /\ FilesStay
<1>1. FilesStay
  BY DEF files, written, FilesStay, OnDisk
<1>. QED
  BY <1>1, RowsAlone DEF files

\* The calls the steps below make of a call.
LEMMA CallChanges ==
  ASSUME NEW c \in Call
  PROVE  /\ Idling \in Call
         /\ \A place \in Names, full \in BOOLEAN, reported, have, at \in Nat :
              [Idling EXCEPT !.pc = "reserve", !.place = place, !.full = full,
                             !.reported = reported, !.have = have, !.at = at] \in Call
         /\ \A s \in Answer : /\ [c EXCEPT !.status = s, !.polls = @ + 1] \in Call
                              /\ [c EXCEPT !.status = s, !.polls = @ + 1].pc = c.pc
         /\ \A d \in Nat : /\ [c EXCEPT !.pc = "fail", !.cool = d] \in Call
                           /\ [c EXCEPT !.pc = "fail", !.cool = d].pc = "fail"
<1>1. Idling \in Call
  BY DEF Call, Idling, Steps, Names
<1>2. ASSUME NEW place \in Names, NEW full \in BOOLEAN, NEW reported \in Nat, NEW have \in Nat, NEW at \in Nat
      PROVE  [Idling EXCEPT !.pc = "reserve", !.place = place, !.full = full,
                            !.reported = reported, !.have = have, !.at = at] \in Call
  BY <1>1 DEF Call, Steps
<1>3. ASSUME NEW s \in Answer
      PROVE  /\ [c EXCEPT !.status = s, !.polls = @ + 1] \in Call
             /\ [c EXCEPT !.status = s, !.polls = @ + 1].pc = c.pc
  <2>1. [c EXCEPT !.status = s] \in Call /\ [c EXCEPT !.status = s].pc = c.pc /\ c.polls + 1 \in Nat
    BY DEF Call
  <2>2. ASSUME NEW e \in Call, NEW n \in Nat PROVE [e EXCEPT !.polls = n] \in Call /\ [e EXCEPT !.polls = n].pc = e.pc
    BY DEF Call
  <2>3. [c EXCEPT !.status = s, !.polls = @ + 1] = [[c EXCEPT !.status = s] EXCEPT !.polls = c.polls + 1]
    BY DEF Call
  <2>. QED
    BY <2>1, <2>2, <2>3
<1>4. ASSUME NEW d \in Nat
      PROVE  /\ [c EXCEPT !.pc = "fail", !.cool = d] \in Call
             /\ [c EXCEPT !.pc = "fail", !.cool = d].pc = "fail"
  BY DEF Call, Steps
<1>. QED
  BY <1>1, <1>2, <1>3, <1>4

LEMMA TakenCall ==
  ASSUME PaidInv, NEW b \in Backend, NEW r \in Row, NEW pc \in {"read", "tell"},
         NEW s \in {"none", "Pending"}, Takes(b, r, pc, s)
  PROVE  /\ call'[b] \in Call /\ call' = [call EXCEPT ![b] = call'[b]]
         /\ call'[b].pc = pc /\ call'[b].status = s
         /\ call'[b].id = r.id /\ call'[b].place = r.place /\ call'[b].born = r.at /\ call'[b].limit = r.limit
<1>. DEFINE x == [Idling EXCEPT !.pc = pc, !.place = r.place, !.id = r.id, !.born = r.at,
                                !.limit = r.limit, !.req = r.req, !.status = s]
<1>1. Idling \in Call
  BY DEF Call, Idling, Steps, Names
<1>2. x \in Call /\ x.pc = pc /\ x.status = s /\ x.id = r.id /\ x.place = r.place /\ x.born = r.at
            /\ x.limit = r.limit
  BY <1>1 DEF Call, Steps, Answer, Row
<1>3. call' = [call EXCEPT ![b] = x]
  BY DEF Takes
<1>4. call'[b] = x
  BY <1>3 DEF PaidInv, PaidTypeOK
<1>. QED
  BY <1>2, <1>3, <1>4

\* The collections that move without the ledger.
LEMMA MovesKeep ==
  ASSUME PaidInv, NEW b \in Backend,
         \/ Asked(b) \/ ReadResult(b) \/ ReadFails(b) \/ Tell(b) \/ TellFails(b)
         \/ Unusable(b) \/ StillPending(b) \/ Poll(b) \/ PollRefused(b) \/ Ends(b)
  PROVE  PaidInv'
<1>. USE PaidFallbackAssumption DEF PaidInv, PaidTypeOK
<1>1. UNCHANGED <<clock, holder, copy, files, crashes, paid>>
  BY DEF Asked, Collect, ReadResult, ReadFails, Tell, TellFails, Moves, Unusable, StillPending, Poll, PollRefused, Ends
<1>2. call[b] \in Call /\ call[b].pc # "write"
  <2>1. CASE Asked(b)
    <3>1. call[b] = Idling /\ Idling.pc = "idle"
      BY <2>1 DEF Asked, Collect, Idling
    <3>. QED
      BY <3>1
  <2>2. CASE Ends(b)
    BY <2>2 DEF Ends, Return, At
  <2>3. CASE ReadResult(b) \/ ReadFails(b) \/ Tell(b) \/ TellFails(b)
    BY <2>3 DEF ReadResult, ReadFails, Tell, TellFails, At
  <2>4. CASE Unusable(b) \/ StillPending(b) \/ Poll(b) \/ PollRefused(b)
    BY <2>4 DEF Unusable, StillPending, Poll, PollRefused, At
  <2>. QED
    BY <2>1, <2>2, <2>3, <2>4
<1>3. Behaves(b)
  <2>1. CASE Asked(b)
    <3>1. PICK place \in Place, full \in BOOLEAN, reported \in Reports, have \in Sizes \cup {0} :
            Collect(b, place, full, reported, have)
      BY <2>1 DEF Asked
    <3>. DEFINE x == [Idling EXCEPT !.pc = "reserve", !.place = place, !.full = full,
                                    !.reported = reported, !.have = have, !.at = clock]
    <3>2. x \in Call
      <4>1. place \in Names /\ reported \in Nat /\ have \in Nat /\ clock \in Nat
        BY DEF Names
      <4>. QED
        BY <1>2, <4>1, CallChanges
    <3>3. x.pc = "reserve"
      BY DEF Idling
    <3>. QED
      BY <1>2, <3>1, <3>2, <3>3, Became DEF Collect, Unsent
  <2>2. ASSUME NEW pc \in {"threw", "returned"}, NEW n \in Nat, call' = Gone(b, pc, n) PROVE Behaves(b)
    BY <1>2, <2>2, GoneCall, Became DEF Gone
  <2>3. CASE ReadResult(b)
    BY <2>2, <2>3 DEF ReadResult
  <2>4. CASE ReadFails(b) \/ TellFails(b) \/ StillPending(b)
    BY <2>2, <2>4 DEF ReadFails, TellFails, StillPending, Moves
  <2>5. CASE Unusable(b)
    <3>. DEFINE x == [call[b] EXCEPT !.pc = "fail"]
    <3>1. call' = [call EXCEPT ![b] = x]
      BY <2>5 DEF Unusable, Moves
    <3>2. x \in Call /\ x.pc = "fail"
      BY <1>2 DEF Call, Steps
    <3>. QED
      BY <1>2, <3>1, <3>2, Became DEF Unsent
  <2>6. CASE Tell(b)
    BY <1>2, <2>6 DEF Tell, At, Moves, Gone, Behaves, Unsent, Call, Steps
  <2>7. CASE Poll(b)
    <3>1. PICK s \in Answer : call' = [call EXCEPT ![b].status = s, ![b].polls = @ + 1]
      BY <2>7 DEF Poll
    <3>. DEFINE x == [call[b] EXCEPT !.status = s, !.polls = @ + 1]
    <3>2. x \in Call /\ x.pc = "judge"
      BY <1>2, <2>7, CallChanges DEF Poll, At
    <3>. QED
      BY <1>2, <3>1, <3>2, Became DEF Unsent
  <2>8. CASE PollRefused(b)
    <3>1. PICK d \in {0, Hour} : call' = [call EXCEPT ![b].pc = "fail", ![b].cool = d]
      BY <2>8 DEF PollRefused
    <3>. DEFINE x == [call[b] EXCEPT !.pc = "fail", !.cool = d]
    <3>2. x \in Call /\ x.pc = "fail"
      <4>1. d \in Nat
        BY <3>1
      <4>. QED
        BY <1>2, <4>1, CallChanges
    <3>. QED
      BY <1>2, <3>1, <3>2, Became DEF Unsent
  <2>9. CASE Ends(b)
    <3>1. Idling \in Call /\ Idling.pc = "idle"
      BY DEF Call, Idling, Steps, Names
    <3>. QED
      BY <1>2, <2>9, <3>1, Became DEF Ends, Return, Unsent
  <2>. QED
    BY <2>1, <2>3, <2>4, <2>5, <2>6, <2>7, <2>8, <2>9
<1>4. RowsStay /\ FilesStay
  BY <1>1, FilesAlone
<1>5. CallsStay /\ call' \in [Backend -> Call] /\ Writing'
  BY <1>1, <1>3, <1>4, BehavedCalls DEF files
<1>6. PaidTypeOK' /\ Copies'
  BY <1>1, <1>5 DEF files, written, Copies
<1>. QED
  BY <1>1, <1>4, <1>5, <1>6, Stays

LEMMA CallsAlone == ASSUME PaidInv, FilesStay, UNCHANGED call PROVE CallsStay
<1>1. ASSUME NEW b \in Backend, call[b].pc = "keep" PROVE OnDisk(call[b].id)'
  <2>1. OnDisk(call[b].id)
    BY <1>1 DEF PaidInv, Written
  <2>. QED
    BY <2>1 DEF FilesStay, OnDisk
<1>. QED
  BY <1>1 DEF CallsStay, Unsent

LEMMA Actors ==
  /\ \A b \in Backend : Job(b) \in Actor /\ Status(b) \in Actor
  /\ Free \notin Actor /\ Stale \notin Actor /\ Nothing \in Ledger
<1>1. Nothing \in Ledger
  BY DEF Nothing, Ledger
<1>. QED
  BY <1>1 DEF Job, Status, Actor, Free, Stale

\* An actor that opens the ledger is the only one, and gets what is there.
LEMMA Opened ==
  ASSUME PaidInv, NEW a \in Actor, OpenLedger(a), UNCHANGED ledger
  PROVE  Copies' /\ copy' \in [Actor -> Ledger]
<1>1. \A d \in Actor : copy[d] = Nothing
  BY Actors DEF PaidInv, Copies, OpenLedger
<1>. QED
  BY <1>1 DEF PaidInv, PaidTypeOK, Copies, OpenLedger

\* An actor that is done with its copy leaves none.
LEMMA Dropped ==
  ASSUME PaidInv, NEW a \in Actor, Inside(a), copy' = [copy EXCEPT ![a] = Nothing]
  PROVE  Copies' /\ copy' \in [Actor -> Ledger]
<1>1. \A d \in Actor : d # a => copy[d] = Nothing
  BY DEF PaidInv, Copies, Inside
<1>. QED
  BY <1>1, Actors DEF PaidInv, PaidTypeOK, Copies

LEMMA Throws == ASSUME PaidInv, NEW b \in Backend, call[b].pc # "write", call' = Thrown(b) PROVE Behaves(b)
<1>. DEFINE x == [call[b] EXCEPT !.pc = "fail"]
<1>1. CASE call[b].pc \in {"note", "keep"}
  <2>1. call' = [call EXCEPT ![b] = x]
    BY <1>1 DEF Thrown
  <2>2. call[b] \in Call
    BY DEF PaidInv, PaidTypeOK
  <2>3. x \in Call /\ x.pc = "fail"
    BY <2>2 DEF Call, Steps
  <2>. QED
    BY <2>1, <2>3, Became DEF Unsent
<1>2. CASE call[b].pc \notin {"note", "keep"}
  BY <1>2, GoneCall, Became DEF Thrown, Gone
<1>. QED
  BY <1>1, <1>2

\* The lock, the clock, and what throws.
LEMMA LocksKeep ==
  ASSUME PaidInv, UNCHANGED <<files, paid>>,
         \/ Tick \/ RemoveLock
         \/ \E a \in Actor : CloseLedger(a)
         \/ \E b \in Backend : \/ Enter(b) \/ StatusEnter(b) \/ Locked(b) \/ WriteFails(b) \/ Refuse(b)
  PROVE  PaidInv'
<1>1. RowsStay /\ FilesStay
  BY FilesAlone
<1>2. \/ UNCHANGED call
      \/ \E b \in Backend : call[b].pc # "write" /\ call' = Thrown(b)
  BY DEF Tick, RemoveLock, CloseLedger, Enter, StatusEnter, Locked, WriteFails, Refuse, Wants, Inside, PaidInv, Writing
<1>3. CallsStay /\ call' \in [Backend -> Call]
  <2>1. CASE UNCHANGED call
    BY <1>1, <2>1, CallsAlone DEF PaidInv, PaidTypeOK
  <2>2. CASE \E b \in Backend : call[b].pc # "write" /\ call' = Thrown(b)
    BY <1>1, <2>2, Throws, BehavedCalls
  <2>. QED
    BY <1>2, <2>1, <2>2
<1>4. Writing'
  <2>1. \A b \in Backend : holder' = Job(b) => holder = Job(b) \/ (call[b].pc # "write" /\ UNCHANGED call)
    <3>1. CASE \E a \in Backend : Enter(a)
      BY <3>1 DEF Enter, OpenLedger, Wants, Job
    <3>2. CASE \E a \in Backend : StatusEnter(a)
      BY <3>2 DEF StatusEnter, OpenLedger, Status, Job
    <3>3. CASE Tick \/ RemoveLock \/ \E b \in Backend : Locked(b)
      BY <3>3 DEF Tick, RemoveLock, Locked, Free, Job
    <3>4. CASE (\E a \in Actor : CloseLedger(a)) \/ \E b \in Backend : WriteFails(b) \/ Refuse(b)
      BY <3>4 DEF CloseLedger, WriteFails, Refuse, Free, Job
    <3>. QED
      BY <3>1, <3>2, <3>3, <3>4
  <2>2. CASE UNCHANGED call
    BY <2>1, <2>2, WritesAlone DEF files, written
  <2>3. CASE call' # call
    <3>1. PICK b \in Backend : Behaves(b)
      BY <1>2, <2>3, Throws
    <3>. QED
      BY <1>1, <2>1, <2>3, <3>1, BehavedCalls DEF files
  <2>. QED
    BY <2>2, <2>3
<1>5. Copies' /\ copy' \in [Actor -> Ledger]
  <2>1. CASE Tick \/ \E b \in Backend : Locked(b)
    BY <2>1 DEF Tick, Locked, files, PaidInv, PaidTypeOK, Copies
  <2>2. CASE RemoveLock \/ \E a \in Actor : CloseLedger(a)
    BY <2>2, Actors DEF RemoveLock, CloseLedger, files, PaidInv, PaidTypeOK, Copies
  <2>3. CASE \E b \in Backend : Enter(b) \/ StatusEnter(b)
    BY <2>3, Actors, Opened DEF Enter, StatusEnter, files
  <2>4. CASE \E b \in Backend : WriteFails(b) \/ Refuse(b)
    BY <2>4, Actors, Dropped DEF WriteFails, Refuse
  <2>. QED
    BY <2>1, <2>2, <2>3, <2>4
<1>6. clock' \in Nat
  BY DEF Tick, RemoveLock, CloseLedger, Enter, StatusEnter, Locked, WriteFails, Refuse, PaidInv, PaidTypeOK
<1>7. PaidTypeOK'
  BY <1>3, <1>5, <1>6 DEF files, written, PaidInv, PaidTypeOK
<1>. QED
  BY <1>1, <1>3, <1>4, <1>5, <1>7, Stays

\* The status requests and the collections put back what they have read, but for the state of a row.
LEMMA UpdatesKeep ==
  ASSUME PaidInv, NEW b \in Backend, StatusWrite(b) \/ Reuse(b) \/ Note(b) \/ Keep(b) \/ Fail(b)
  PROVE  PaidInv'
<1>1. FilesStay /\ UNCHANGED <<clock, written, paid>>
  BY DEF StatusWrite, Reuse, Note, Keep, Fail, written, FilesStay, OnDisk
<1>6. /\ \A d \in Backend : holder' = Job(d) => holder = Job(d)
      /\ StatusWrite(b) \/ call[b].pc # "write"
  BY DEF StatusWrite, Reuse, Note, Keep, Fail, Publish, Free, Job
<1>2. Copies' /\ copy' \in [Actor -> Ledger]
  BY Actors, Dropped DEF StatusWrite, Reuse, Note, Keep, Fail, Publish
<1>3. CASE StatusWrite(b)
  <2>1. UNCHANGED <<files, call>>
    BY <1>3, Actors DEF StatusWrite, Inside, PaidInv, Copies, files
  <2>2. RowsStay /\ CallsStay
    BY <1>1, <2>1, FilesAlone, CallsAlone
  <2>4. Writing'
    BY <1>1, <1>6, <2>1, WritesAlone DEF written
  <2>3. PaidTypeOK'
    BY <1>1, <1>2, <2>1 DEF files, written, PaidInv, PaidTypeOK
  <2>. QED
    BY <1>1, <1>2, <2>2, <2>3, <2>4, Stays
<1>4. CASE Reuse(b)
  <2>1. UNCHANGED files
    BY <1>1, <1>4, Actors DEF Reuse, Publish, Inside, PaidInv, Copies, files
  <2>2. Behaves(b)
    <3>1. PICK i \in DOMAIN ledger.rows : \/ Takes(b, ledger.rows[i], "read", "none")
                                          \/ Takes(b, ledger.rows[i], "tell", "Pending")
      BY <1>4, Actors DEF Reuse, Inside, PaidInv, Copies, Newest, Prior
    <3>2. ledger.rows[i] \in Row
      BY DEF PaidInv, PaidTypeOK, Ledger
    <3>. QED
      BY <1>4, <3>1, <3>2, TakenCall DEF Reuse, Behaves, Unsent
  <2>3. PaidTypeOK' /\ RowsStay /\ CallsStay /\ Writing'
    BY <1>1, <1>2, <1>6, <2>1, <2>2, FilesAlone, BehavedCalls DEF files, written, PaidInv, PaidTypeOK
  <2>. QED
    BY <1>1, <1>2, <2>3, Stays
<1>5. CASE Note(b) \/ Keep(b) \/ Fail(b)
  <2>1. Inside(Job(b)) /\ call[b] \in Call
    BY <1>5 DEF Note, Keep, Fail, Publish, PaidInv, PaidTypeOK
  <2>2. PICK s \in {"pending", "success", "failed"} :
          /\ ledger'.rows = Patched(b, s).rows /\ ledger' \in Ledger
          /\ s = "success" => call[b].pc = "keep"
    <3>1. \A s \in {"pending", "success", "failed"} : Patched(b, s) \in Ledger
      BY <2>1, PatchedRows
    <3>2. CASE Note(b)
      BY <3>1, <3>2 DEF Note, Publish
    <3>3. CASE Keep(b)
      BY <3>1, <3>3 DEF Keep, Publish
    <3>4. CASE Fail(b)
      <4>1. clock + call[b].cool \in Int
        BY <2>1 DEF Call, PaidInv, PaidTypeOK
      <4>. QED
        BY <3>1, <3>4, <4>1 DEF Fail, Publish, Ledger
    <3>. QED
      BY <1>5, <3>2, <3>3, <3>4
  <2>3. RowsStay
    <3>1. /\ DOMAIN ledger'.rows = DOMAIN ledger.rows
          /\ \A i \in DOMAIN ledger.rows :
               /\ ledger'.rows[i].id = ledger.rows[i].id
               /\ ledger'.rows[i].place = ledger.rows[i].place
               /\ ledger'.rows[i].at = ledger.rows[i].at
               /\ ledger'.rows[i].limit = ledger.rows[i].limit
               /\ ledger'.rows[i].state = IF i = call[b].id THEN s ELSE ledger.rows[i].state
      BY <2>1, <2>2, PatchedRows
    <3>2. ASSUME NEW i \in DOMAIN ledger.rows, ledger'.rows[i].state = "success" PROVE OnDisk(i)'
      <4>1. OnDisk(i)
        BY <2>2, <3>1, <3>2, Readable DEF PaidInv, Written
      <4>. QED
        BY <1>1, <4>1 DEF FilesStay
    <3>. QED
      BY <3>1, <3>2 DEF RowsStay
  <2>4. Behaves(b)
    <3>1. CASE Note(b)
      <4>. DEFINE x == [call[b] EXCEPT !.pc = "judge"]
      <4>1. call' = [call EXCEPT ![b] = x]
        BY <3>1 DEF Note
      <4>2. x \in Call /\ x.pc = "judge"
        BY <2>1 DEF Call, Steps
      <4>. QED
        BY <3>1, <4>1, <4>2, Became DEF Note, Unsent
    <3>2. ASSUME NEW pc \in {"threw", "returned"}, NEW n \in Nat, call' = Gone(b, pc, n) PROVE Behaves(b)
      BY <1>5, <3>2, GoneCall, Became DEF Note, Keep, Fail, Gone
    <3>3. call[b].size \in Nat
      BY <2>1 DEF Call
    <3>. QED
      BY <1>5, <3>1, <3>2, <3>3 DEF Keep, Fail
  <2>5. PaidTypeOK' /\ CallsStay /\ Writing'
    BY <1>1, <1>2, <1>6, <2>2, <2>4, BehavedCalls DEF written, PaidInv, PaidTypeOK
  <2>. QED
    BY <1>1, <1>2, <2>3, <2>5, Stays
<1>. QED
  BY <1>3, <1>4, <1>5

\* A new row: a day after the others of its place, and nobody has submitted it.
LEMMA ReserveKeeps == ASSUME PaidInv, NEW b \in Backend, Reserve(b) PROVE PaidInv'
<1>. DEFINE rows == ledger.rows
            n == Len(rows) + 1
            r == NewRow(rows, call[b])
<1>1. /\ ledger \in Ledger /\ rows \in Seq(Row) /\ Len(rows) \in Nat /\ DOMAIN rows = 1..Len(rows)
      /\ call[b] \in Call /\ UNCHANGED <<clock, written, paid>>
  BY DEF Reserve, PaidInv, PaidTypeOK, Ledger
<1>2. copy[Job(b)] = ledger /\ Inside(Job(b)) /\ Job(b) \in Actor
  BY Actors DEF Reserve, Inside, PaidInv, Copies
<1>3. /\ ledger' = [ledger EXCEPT !.rows = Append(rows, r)] /\ copy' = [copy EXCEPT ![Job(b)] = Nothing]
      /\ Takes(b, r, "tell", "none") /\ Admitted(ledger, call[b])
  BY <1>2 DEF Reserve, Publish
<1>4. r \in Row /\ r.id = n /\ r.place = call[b].place /\ r.at = call[b].at /\ r.state = "reserved"
      /\ r.limit = Limit(rows, call[b])
  <2>1. Limit(rows, call[b]) \in Nat
    BY <1>3, PaidFallbackAssumption DEF Admitted
  <2>2. call[b].at \in Nat /\ call[b].full \in BOOLEAN /\ call[b].place \in Names
    BY <1>1 DEF Call
  <2>. QED
    BY <1>1, <2>1, <2>2 DEF NewRow, Row
<1>. HIDE DEF r
<1>5. /\ ledger' \in Ledger /\ ledger'.rows = Append(rows, r) /\ DOMAIN ledger'.rows = 1..n
      /\ \A i \in 1..Len(rows) : ledger'.rows[i] = rows[i]
      /\ ledger'.rows[n] = r
  <2>1. ledger'.rows = Append(rows, r) /\ ledger'.blockedUntil = ledger.blockedUntil
    BY <1>1, <1>3 DEF Ledger
  <2>2. Append(rows, r) \in Seq(Row) /\ Len(Append(rows, r)) = n
    BY <1>1, <1>4
  <2>3. ledger' \in Ledger
    BY <1>1, <1>3, <2>2 DEF Ledger
  <2>4. DOMAIN Append(rows, r) = 1..n
    BY <2>2
  <2>5. Append(rows, r)[n] = r /\ \A i \in 1..Len(rows) : Append(rows, r)[i] = rows[i]
    BY <1>1, <1>4
  <2>. QED
    BY <2>1, <2>3, <2>4, <2>5
<1>6. /\ call'[b] \in Call /\ call' = [call EXCEPT ![b] = call'[b]] /\ call'[b].pc = "tell"
      /\ call'[b].id = n /\ call'[b].place = r.place /\ call'[b].born = r.at /\ call'[b].limit = r.limit
  BY <1>3, <1>4, TakenCall
<1>7. \A d \in Backend : d # b => call'[d] = call[d]
  BY <1>6 DEF PaidInv, PaidTypeOK
<1>8. PaidTypeOK' /\ Copies'
  <2>1. Copies' /\ copy' \in [Actor -> Ledger]
    BY <1>2, <1>3, Dropped
  <2>2. call' \in [Backend -> Call]
    BY <1>6 DEF PaidInv, PaidTypeOK
  <2>. QED
    BY <1>1, <1>5, <2>1, <2>2 DEF written, PaidInv, PaidTypeOK
<1>9. Spread'
  <2>1. \A i \in 1..Len(rows) : rows[i].place = r.place => r.at - rows[i].at >= Day
    <3>1. Prior(rows, call[b].place, call[b].at) = {}
      BY <1>3 DEF Admitted
    <3>2. ASSUME NEW i \in 1..Len(rows), rows[i].place = r.place PROVE ~(r.at - rows[i].at < Day)
      BY <1>1, <1>4, <3>1, <3>2 DEF Prior
    <3>3. r.at \in Nat /\ \A i \in 1..Len(rows) : rows[i].at \in Nat
      <4>1. \A i \in 1..Len(rows) : rows[i] \in Row
        BY <1>1
      <4>. QED
        BY <1>4, <4>1 DEF Row
    <3>4. Day \in Nat
      BY PaidFallbackAssumption
    <3>. QED
      BY <3>2, <3>3, <3>4
  <2>2. \A i \in 1..n : ledger'.rows[i].id = i
    BY <1>1, <1>4, <1>5 DEF PaidInv, Spread
  <2>3. ASSUME NEW i \in 1..n, NEW j \in 1..n, i < j, ledger'.rows[i].place = ledger'.rows[j].place
        PROVE  ledger'.rows[j].at - ledger'.rows[i].at >= Day
    <3>1. i \in 1..Len(rows) /\ (j \in 1..Len(rows) \/ j = n)
      BY <1>1, <2>3
    <3>. QED
      BY <1>1, <1>5, <2>1, <2>3, <3>1 DEF PaidInv, Spread
  <2>. QED
    BY <1>5, <2>2, <2>3 DEF Spread
<1>13. Budgeted'
  <2>. SUFFICES ASSUME NEW t \in Nat PROVE Used(ledger'.rows, t) <= Monthly
    BY DEF Budgeted
  <2>. DEFINE S == InMonth(rows, t)
              f == Limits(ledger'.rows)
  <2>1. /\ IsFiniteSet(S) /\ S \subseteq 1..Len(rows) /\ n \notin S
        /\ \A i \in S \cup {n} : f[i] \in Int
        /\ \A i \in S : f[i] = Limits(rows)[i]
        /\ f[n] = r.limit /\ r.limit \in Nat
    <3>1. ledger'.rows \in Seq(Row) /\ r.limit \in Nat
      BY <1>4, <1>5 DEF Ledger, Row
    <3>2. IsFiniteSet(S) /\ S \subseteq 1..Len(rows)
      BY <1>1, LimitsAdd
    <3>3. \A i \in 1..n : f[i] = ledger'.rows[i].limit /\ f[i] \in Nat
      BY <1>5, <3>1, LimitsAdd
    <3>4. \A i \in 1..Len(rows) : Limits(rows)[i] = rows[i].limit
      BY <1>1, LimitsAdd
    <3>5. n \in 1..n /\ n \notin 1..Len(rows) /\ 1..Len(rows) \subseteq 1..n
      BY <1>1
    <3>. QED
      BY <1>5, <3>1, <3>2, <3>3, <3>4, <3>5
  <2>2. SumFunctionOnSet(f, S) = Used(rows, t) /\ Used(rows, t) \in Nat /\ Used(rows, t) <= Monthly
    <3>1. Used(rows, t) \in Nat /\ Used(rows, t) <= Monthly
      BY <1>1, LimitsAdd DEF Used, PaidInv, Budgeted
    <3>2. SumFunctionOnSet(f, S) = SumFunctionOnSet(Limits(rows), S)
      <4>. HIDE DEF f, S
      <4>. QED
        BY <2>1, SumSame
    <3>. QED
      BY <3>1, <3>2 DEF Used
  <2>3. CASE r.at \div Month = t \div Month
    <3>1. InMonth(ledger'.rows, t) = S \cup {n}
      BY <1>1, <1>5, <2>3 DEF InMonth
    <3>2. SumFunctionOnSet(f, S \cup {n}) = SumFunctionOnSet(f, S) + f[n]
      <4>. HIDE DEF f, S, n
      <4>1. \A i \in S \cup {n} : f[i] \in Int
        BY <2>1
      <4>. QED
        BY <2>1, <4>1, SumAdds
    <3>3. Used(rows, t) = Used(rows, call[b].at)
      BY <1>4, <2>3 DEF Used, InMonth
    <3>4. Used(ledger'.rows, t) = Used(rows, t) + r.limit
      BY <2>1, <2>2, <3>1, <3>2 DEF Used
    <3>5. r.limit <= Monthly - Used(rows, t)
      <4>1. call[b].reported \in Nat /\ {PerJob, Monthly, Ten} \subseteq Nat
        BY <1>1, PaidFallbackAssumption DEF Call
      <4>. QED
        BY <1>4, <2>2, <3>3, <4>1 DEF Limit, Smallest
    <3>. QED
      BY <2>1, <2>2, <3>4, <3>5, PaidFallbackAssumption
  <2>4. CASE r.at \div Month # t \div Month
    <3>1. InMonth(ledger'.rows, t) = S
      BY <1>1, <1>5, <2>4 DEF InMonth
    <3>. QED
      BY <2>2, <3>1 DEF Used
  <2>. QED
    BY <2>3, <2>4
<1>10. Recorded'
  BY <1>1, <1>5 DEF PaidInv, Recorded
<1>11. Owned'
  <2>1. \A d \in Backend : d # b /\ Unsent(call[d]) => call[d].id \in 1..Len(rows)
    BY <1>1 DEF PaidInv, Owned
  <2>2. \A k \in DOMAIN paid : paid[k].id \in 1..Len(rows)
    BY <1>1 DEF PaidInv, Recorded
  <2>3. ASSUME NEW d \in Backend, Unsent(call[d])'
        PROVE  /\ call'[d].id \in DOMAIN ledger'.rows
               /\ ledger'.rows[call'[d].id].place = call'[d].place /\ ledger'.rows[call'[d].id].at = call'[d].born
               /\ ledger'.rows[call'[d].id].limit = call'[d].limit
               /\ \A k \in DOMAIN paid' : paid'[k].id # call'[d].id
    <3>1. CASE d = b
      BY <1>1, <1>5, <1>6, <2>2, <3>1
    <3>2. CASE d # b
      BY <1>1, <1>5, <1>7, <2>1, <2>3, <3>2 DEF PaidInv, Owned, Unsent
    <3>. QED
      BY <3>1, <3>2
  <2>4. ASSUME NEW d \in Backend, NEW e \in Backend, d # e, Unsent(call[d])', Unsent(call[e])'
        PROVE  call'[d].id # call'[e].id
    BY <1>1, <1>6, <1>7, <2>1, <2>4 DEF PaidInv, Owned, Unsent
  <2>. QED
    BY <2>3, <2>4 DEF Owned
<1>12. Written' /\ SuccessIsReadable'
  <2>1. Written'
    BY <1>1, <1>6, <1>7 DEF written, PaidInv, Written, OnDisk
  <2>2. SuccessIsReadable'
    BY <1>1, <1>4, <1>5 DEF written, PaidInv, SuccessIsReadable
  <2>. QED
    BY <2>1, <2>2
<1>14. Writing'
  <2>1. \A d \in Backend : holder' = Job(d) => holder = Job(d)
    BY DEF Reserve, Publish
  <2>2. call[b].pc = "reserve"
    BY DEF Reserve
  <2>. QED
    BY <1>1, <1>6, <1>7, <2>1, <2>2, WritesAlone DEF written
<1>. QED
  BY <1>8, <1>9, <1>10, <1>11, <1>12, <1>13, <1>14 DEF PaidInv

\* The request is sent: its row had not been.
LEMMA SubmitKeeps == ASSUME PaidInv, NEW b \in Backend, Submit(b) \/ SubmitFails(b) PROVE PaidInv'
<1>. DEFINE c == call[b]
            n == Len(paid) + 1
<1>1. /\ UNCHANGED <<clock, holder, copy, files>> /\ paid' = Append(paid, Sent(c)) /\ c \in Call /\ c.pc = "submit"
      /\ Len(paid) \in Nat /\ DOMAIN paid = 1..Len(paid)
  <2>1. paid \in Seq([id : Nat, place : Names, at : Nat, limit : Nat]) /\ c \in Call
    BY DEF PaidInv, PaidTypeOK
  <2>2. UNCHANGED <<clock, holder, copy, files>> /\ paid' = Append(paid, Sent(c)) /\ c.pc = "submit"
    BY DEF Submit, SubmitFails, At
  <2>3. Len(paid) \in Nat /\ DOMAIN paid = 1..Len(paid)
    BY <2>1
  <2>. QED
    BY <2>1, <2>2, <2>3
<1>2. /\ c.id \in DOMAIN ledger.rows
      /\ ledger.rows[c.id].place = c.place /\ ledger.rows[c.id].at = c.born
      /\ ledger.rows[c.id].limit = c.limit
      /\ \A k \in DOMAIN paid : paid[k].id # c.id
      /\ \A d \in Backend : d # b /\ Unsent(call[d]) => call[d].id # c.id
  BY <1>1 DEF PaidInv, Owned, Unsent
<1>4. Sent(c) \in [id : Nat, place : Names, at : Nat, limit : Nat] /\ Sent(c).id = c.id
      /\ Sent(c).place = c.place /\ Sent(c).at = c.born /\ Sent(c).limit = c.limit
  BY <1>1 DEF Sent, Call
<1>5. /\ paid' \in Seq([id : Nat, place : Names, at : Nat, limit : Nat]) /\ DOMAIN paid' = 1..n
      /\ \A k \in 1..Len(paid) : paid'[k] = paid[k]
      /\ paid'[n] = Sent(c)
  BY <1>1, <1>4 DEF PaidInv, PaidTypeOK
<1>6. /\ call'[b] \in Call /\ call' = [call EXCEPT ![b] = call'[b]]
      /\ call'[b].pc \in {"note", "judge", "fail"}
  <2>1. ASSUME NEW x \in Call, x.pc \in {"note", "judge", "fail"}, call' = [call EXCEPT ![b] = x]
        PROVE  call'[b] = x
    BY <2>1 DEF PaidInv, PaidTypeOK
  <2>2. CASE Submit(b)
    <3>1. PICK s \in Answer, named \in BOOLEAN :
            call' = [call EXCEPT ![b].pc = IF named THEN "note" ELSE "judge", ![b].req = named, ![b].status = s]
      BY <2>2 DEF Submit
    <3>. DEFINE x == [c EXCEPT !.pc = IF named THEN "note" ELSE "judge", !.req = named, !.status = s]
    <3>2. x \in Call /\ x.pc \in {"note", "judge"}
      BY <1>1 DEF Call, Steps
    <3>3. call' = [call EXCEPT ![b] = x]
      BY <3>1
    <3>. HIDE DEF x
    <3>. QED
      BY <2>1, <3>2, <3>3
  <2>3. CASE SubmitFails(b)
    <3>1. PICK d \in {0, Minute, Hour} : call' = [call EXCEPT ![b].pc = "fail", ![b].cool = d]
      BY <2>3 DEF SubmitFails
    <3>. DEFINE x == [c EXCEPT !.pc = "fail", !.cool = d]
    <3>2. d \in Nat
      BY <3>1, PaidFallbackAssumption
    <3>3. x \in Call /\ x.pc = "fail"
      BY <1>1, <3>2, CallChanges
    <3>. QED
      BY <2>1, <3>1, <3>3
  <2>. QED
    BY <2>2, <2>3
<1>7. \A d \in Backend : d # b => call'[d] = call[d]
  BY <1>6 DEF PaidInv, PaidTypeOK
<1>8. PaidTypeOK' /\ Copies' /\ Spread' /\ Budgeted' /\ SuccessIsReadable'
  <2>1. call' \in [Backend -> Call]
    BY <1>6 DEF PaidInv, PaidTypeOK
  <2>. QED
    BY <1>1, <1>5, <2>1 DEF files, written, PaidInv, PaidTypeOK, Copies, Spread, Budgeted, SuccessIsReadable
<1>9. Recorded'
  <2>1. \A k \in 1..n : k \in 1..Len(paid) \/ k = n
    BY <1>1
  <2>2. \A k \in 1..n : /\ paid'[k].id \in DOMAIN ledger.rows
                        /\ ledger.rows[paid'[k].id].place = paid'[k].place
                        /\ ledger.rows[paid'[k].id].at = paid'[k].at
                 /\ ledger.rows[paid'[k].id].limit = paid'[k].limit
                        /\ ledger.rows[paid'[k].id].limit = paid'[k].limit
    <3>1. ASSUME NEW k \in 1..Len(paid)
          PROVE  /\ paid'[k].id \in DOMAIN ledger.rows
                 /\ ledger.rows[paid'[k].id].place = paid'[k].place
                 /\ ledger.rows[paid'[k].id].at = paid'[k].at
                 /\ ledger.rows[paid'[k].id].limit = paid'[k].limit
      BY <1>1, <1>5 DEF PaidInv, Recorded
    <3>2. /\ paid'[n].id \in DOMAIN ledger.rows
          /\ ledger.rows[paid'[n].id].place = paid'[n].place
          /\ ledger.rows[paid'[n].id].at = paid'[n].at
          /\ ledger.rows[paid'[n].id].limit = paid'[n].limit
      BY <1>2, <1>4, <1>5
    <3>. QED
      BY <2>1, <3>1, <3>2
  <2>3. ASSUME NEW k \in 1..n, NEW m \in 1..n, k # m PROVE paid'[k].id # paid'[m].id
    <3>1. CASE k \in 1..Len(paid) /\ m \in 1..Len(paid)
      BY <1>1, <1>5, <2>3, <3>1 DEF PaidInv, Recorded
    <3>2. CASE k = n \/ m = n
      <4>1. \A i \in 1..Len(paid) : paid'[i].id # c.id
        BY <1>1, <1>2, <1>5
      <4>2. paid'[n].id = c.id
        BY <1>4, <1>5
      <4>. QED
        BY <2>1, <2>3, <3>2, <4>1, <4>2
    <3>. QED
      BY <2>1, <3>1, <3>2
  <2>. QED
    BY <1>1, <1>5, <2>2, <2>3 DEF files, Recorded
<1>10. Owned'
  <2>1. ASSUME NEW d \in Backend, Unsent(call[d])'
        PROVE  /\ d # b /\ Unsent(call[d]) /\ call'[d] = call[d] /\ call[d].id # c.id
               /\ call[d].id \in DOMAIN ledger.rows
               /\ ledger.rows[call[d].id].place = call[d].place /\ ledger.rows[call[d].id].at = call[d].born
               /\ ledger.rows[call[d].id].limit = call[d].limit
               /\ \A k \in DOMAIN paid : paid[k].id # call[d].id
    BY <1>2, <1>6, <1>7, <2>1 DEF PaidInv, Owned, Unsent
  <2>2. \A k \in 1..n : k \in 1..Len(paid) \/ k = n
    BY <1>1
  <2>3. ASSUME NEW d \in Backend, Unsent(call[d])' PROVE \A k \in DOMAIN paid' : paid'[k].id # call'[d].id
    <3>1. \A k \in 1..Len(paid) : paid'[k].id # call[d].id
      BY <1>1, <1>5, <2>1, <2>3
    <3>2. paid'[n].id # call[d].id
      BY <1>4, <1>5, <2>1, <2>3
    <3>. QED
      BY <1>5, <2>1, <2>2, <2>3, <3>1, <3>2
  <2>4. ASSUME NEW d \in Backend, NEW e \in Backend, d # e, Unsent(call[d])', Unsent(call[e])'
        PROVE  call'[d].id # call'[e].id
    BY <2>1, <2>4 DEF PaidInv, Owned
  <2>. QED
    BY <1>1, <2>1, <2>3, <2>4 DEF files, Owned
<1>11. Written'
  BY <1>1, <1>6, <1>7 DEF files, written, PaidInv, Written, OnDisk
<1>12. Writing'
  <2>1. /\ (\A d \in Backend : (call[d].pc = "write") = (call'[d].pc = "write"))
        /\ \A d \in Backend : call[d].pc = "write" => call'[d].id = call[d].id
    BY <1>1, <1>6, <1>7
  <2>. QED
    BY <1>1, <2>1, WritesAlone DEF files, written
<1>. QED
  BY <1>8, <1>9, <1>10, <1>11, <1>12 DEF PaidInv

\* The writes of results and what becomes of them, in whatever order: the ledger is not touched.
LEMMA WritesKeep ==
  ASSUME PaidInv, NEW b \in Backend, UNCHANGED <<ledger, paid>>, clock' \in Nat,
         copy' \in [Actor -> Ledger], Copies', results' \subseteq [id : Nat, size : Nat], rewritten' \subseteq Nat,
         FilesStay, Writing', mixed' \subseteq Backend,
         NEW x \in Call, call' = [call EXCEPT ![b] = x], ~Unsent(x), x.pc = "keep" => OnDisk(call[b].id)'
  PROVE  PaidInv'
<1>1. call'[b] = x /\ (\A d \in Backend : d # b => call'[d] = call[d]) /\ call' \in [Backend -> Call]
  BY DEF PaidInv, PaidTypeOK
<1>2. CallsStay
  <2>1. ASSUME NEW d \in Backend, call'[d].pc = "keep" PROVE OnDisk(call[d].id)'
    <3>1. CASE d = b
      BY <1>1, <2>1, <3>1
    <3>2. CASE d # b
      <4>1. OnDisk(call[d].id)
        BY <1>1, <2>1, <3>2 DEF PaidInv, Written
      <4>. QED
        BY <1>1, <3>2, <4>1 DEF FilesStay, OnDisk
    <3>. QED
      BY <3>1, <3>2
  <2>2. ASSUME NEW d \in Backend, Unsent(call[d])' PROVE Unsent(call[d]) /\ call'[d] = call[d]
    BY <1>1, <2>2 DEF Unsent
  <2>. QED
    BY <2>1, <2>2 DEF CallsStay
<1>3. PaidTypeOK'
  BY <1>1 DEF PaidInv, PaidTypeOK
<1>. QED
  BY <1>2, <1>3, RowsAlone, Stays

\* A file is emptied: from now on, if it was whole, it is being written over.
LEMMA EmptyKeeps == ASSUME PaidInv, NEW b \in Backend, EmptyResult(b) PROVE PaidInv'
<1>1. /\ call[b].pc = "judge" /\ holder # Job(b) /\ UNCHANGED <<clock, holder, copy, ledger, paid>>
      /\ results' = Without(call[b].id) /\ call[b] \in Call /\ call[b].id \in Nat
  BY DEF EmptyResult, At, PaidInv, PaidTypeOK, Call
<1>2. PICK n \in Nat : call' = [call EXCEPT ![b].pc = "write", ![b].size = n]
  BY PaidFallbackAssumption DEF EmptyResult
<1>. DEFINE x == [call[b] EXCEPT !.pc = "write", !.size = n]
<1>3. x \in Call /\ x.pc = "write" /\ x.id = call[b].id /\ call' = [call EXCEPT ![b] = x]
  BY <1>1, <1>2 DEF Call, Steps
<1>. HIDE DEF x
<1>4. call'[b] = x /\ \A d \in Backend : d # b => call'[d] = call[d]
  BY <1>3 DEF PaidInv, PaidTypeOK
<1>5. /\ mixed' \in {mixed, mixed \cup Beside(b) \cup {b}} /\ Beside(b) \subseteq mixed'
      /\ Beside(b) # {} => b \in mixed' /\ call[b].id \in rewritten'
      /\ b \in mixed' => b \in mixed \/ Beside(b) # {}
      /\ rewritten' \in {rewritten, rewritten \cup {call[b].id}}
      /\ results' # results => call[b].id \in rewritten'
  BY DEF EmptyResult
<1>6. FilesStay
  <2>1. ASSUME NEW f \in results, f.id # call[b].id PROVE f \in results'
    BY <1>1, <2>1 DEF Without
  <2>2. ASSUME NEW f \in results, f.id = call[b].id PROVE call[b].id \in rewritten'
    BY <1>1, <1>5, <2>2 DEF Without
  <2>. QED
    BY <1>5, <2>1, <2>2 DEF FilesStay, OnDisk
<1>7. Writing'
  <2>1. \A d \in Beside(b) : d \in Backend /\ d # b /\ call[d].pc = "write" /\ call[d].id = call[b].id
    BY DEF Beside
  <2>2. ASSUME NEW d \in mixed' PROVE call'[d].pc = "write" /\ call'[d].id \in rewritten'
    <3>1. CASE d \in mixed
      BY <1>1, <1>4, <1>5, <3>1 DEF PaidInv, PaidTypeOK, Writing
    <3>2. CASE d = b
      BY <1>1, <1>3, <1>4, <1>5, <2>2, <3>2 DEF PaidInv, Writing
    <3>3. CASE d \in Beside(b)
      BY <1>4, <1>5, <2>1, <3>3
    <3>. QED
      BY <1>5, <2>2, <3>1, <3>2, <3>3
  <2>3. ASSUME NEW d \in Backend, NEW e \in Backend, d # e, call'[d].pc = "write", call'[e].pc = "write",
               call'[d].id = call'[e].id
        PROVE  d \in mixed'
    <3>1. CASE d = b
      <4>1. e \in Beside(b)
        BY <1>3, <1>4, <2>3, <3>1 DEF Beside
      <4>. QED
        BY <1>5, <3>1, <4>1
    <3>2. CASE e = b
      <4>1. d \in Beside(b)
        BY <1>3, <1>4, <2>3, <3>2 DEF Beside
      <4>. QED
        BY <1>5, <4>1
    <3>3. CASE d # b /\ e # b
      <4>1. d \in mixed
        BY <1>4, <2>3, <3>3 DEF PaidInv, Writing
      <4>. QED
        BY <1>5, <4>1
    <3>. QED
      BY <3>1, <3>2, <3>3
  <2>4. \A d \in Backend : call'[d].pc = "write" => holder' # Job(d)
    BY <1>1, <1>4 DEF PaidInv, Writing
  <2>. QED
    BY <2>2, <2>3, <2>4 DEF Writing
<1>8. results' \subseteq [id : Nat, size : Nat] /\ rewritten' \subseteq Nat /\ mixed' \subseteq Backend
  BY <1>1, <1>5 DEF Without, Beside, PaidInv, PaidTypeOK
<1>9. clock' \in Nat /\ copy' \in [Actor -> Ledger] /\ Copies'
  BY <1>1 DEF PaidInv, PaidTypeOK, Copies
<1>. QED
  BY <1>1, <1>3, <1>6, <1>7, <1>8, <1>9, WritesKeep DEF Unsent

\* Who stops to write, or dies, spoils at most what was being written over.
LEMMA StopKeeps ==
  ASSUME PaidInv, NEW b \in Backend, FillFails(b) \/ Dies(b)
  PROVE  PaidInv'
<1>1. /\ Stops(b) /\ UNCHANGED <<clock, ledger, paid>> /\ call[b] \in Call
      /\ \A d \in Backend : holder' = Job(d) => holder = Job(d)
      /\ FillFails(b) => call[b].pc = "write"
  BY DEF FillFails, Dies, PaidInv, PaidTypeOK, Stale, Job
<1>2. PICK x \in Call : call' = [call EXCEPT ![b] = x] /\ x.pc \in {"idle", "fail"}
  <2>1. [call[b] EXCEPT !.pc = "fail"] \in Call /\ [call[b] EXCEPT !.pc = "fail"].pc = "fail"
    BY <1>1 DEF Call, Steps
  <2>2. Idling \in Call /\ Idling.pc = "idle"
    BY DEF Call, Idling, Steps, Names
  <2>. QED
    BY <2>1, <2>2 DEF FillFails, Dies
<1>3. call'[b] = x /\ \A d \in Backend : d # b => call'[d] = call[d]
  BY <1>2 DEF PaidInv, PaidTypeOK
<1>4. FilesStay
  <2>1. ASSUME NEW f \in results PROVE f \in results' \/ f.id \in rewritten'
    BY <1>1 DEF Stops, Without, PaidInv, Writing
  <2>. QED
    BY <1>1, <2>1 DEF FilesStay, OnDisk, Stops
<1>5. Writing'
  BY <1>1, <1>2, <1>3 DEF Stops, PaidInv, PaidTypeOK, Writing
<1>6. results' \subseteq [id : Nat, size : Nat] /\ rewritten' \subseteq Nat /\ mixed' \subseteq Backend
  BY <1>1 DEF Stops, Without, PaidInv, PaidTypeOK
<1>7. copy' \in [Actor -> Ledger] /\ Copies'
  <2>1. CASE FillFails(b)
    BY <2>1 DEF FillFails, PaidInv, PaidTypeOK, Copies
  <2>2. CASE Dies(b)
    BY <2>2, Actors DEF Dies, PaidInv, PaidTypeOK, Copies
  <2>. QED
    BY <2>1, <2>2
<1>8. clock' \in Nat
  BY <1>1 DEF PaidInv, PaidTypeOK
<1>. QED
  BY <1>1, <1>2, <1>4, <1>5, <1>6, <1>7, <1>8, WritesKeep DEF Unsent

\* A file is filled: whole, or beside another write, which will end too.
LEMMA FillKeeps == ASSUME PaidInv, NEW b \in Backend, FillResult(b) PROVE PaidInv'
<1>. DEFINE id == call[b].id
            file == [id |-> id, size |-> call[b].size]
            x == [call[b] EXCEPT !.pc = "keep"]
<1>1. /\ call[b].pc = "write" /\ UNCHANGED <<clock, holder, copy, ledger, paid>> /\ mixed' = mixed \ {b}
      /\ call' = [call EXCEPT ![b] = x] /\ call[b] \in Call
  BY DEF FillResult, PaidInv, PaidTypeOK
<1>2. \/ b \notin mixed /\ results' = Without(id) \cup {file} /\ rewritten' = rewritten \ {id}
      \/ b \in mixed /\ results' \in {Without(id) \cup {file}, Without(id)} /\ UNCHANGED rewritten
  BY DEF FillResult
<1>3. x \in Call /\ x.pc = "keep" /\ file.id = id /\ file \in [id : Nat, size : Nat]
  BY <1>1 DEF Call, Steps
<1>4. call'[b].pc = "keep" /\ \A d \in Backend : d # b => call'[d] = call[d]
  BY <1>1, <1>3 DEF PaidInv, PaidTypeOK
<1>. HIDE DEF x, file, id
<1>5. (\E f \in results' : f.id = id) \/ id \in rewritten'
  BY <1>1, <1>2, <1>3 DEF PaidInv, Writing, id
<1>6. FilesStay
  <2>1. \A f \in results : f.id # id => f \in results'
    BY <1>2 DEF Without
  <2>2. \A i \in rewritten : i # id => i \in rewritten'
    BY <1>2
  <2>3. ASSUME NEW i, (\E f \in results : f.id = i) \/ i \in rewritten
        PROVE  (\E f \in results' : f.id = i) \/ i \in rewritten'
    BY <1>5, <2>1, <2>2, <2>3
  <2>. QED
    BY <2>3 DEF FilesStay, OnDisk
<1>7. Writing'
  <2>1. ASSUME NEW d \in mixed' PROVE call'[d].pc = "write" /\ call'[d].id \in rewritten'
    <3>1. d \in mixed /\ d # b /\ d \in Backend /\ call'[d] = call[d]
          /\ call[d].pc = "write" /\ call[d].id \in rewritten
      BY <1>1, <1>4, <2>1 DEF PaidInv, PaidTypeOK, Writing
    <3>2. b \notin mixed => call[d].id # id
      BY <1>1, <3>1 DEF PaidInv, Writing, id
    <3>. QED
      BY <1>2, <3>1, <3>2
  <2>2. ASSUME NEW d \in Backend, NEW e \in Backend, d # e, call'[d].pc = "write", call'[e].pc = "write",
               call'[d].id = call'[e].id
        PROVE  d \in mixed'
    BY <1>1, <1>4, <2>2 DEF PaidInv, Writing
  <2>3. \A d \in Backend : call'[d].pc = "write" => holder' # Job(d)
    BY <1>1, <1>4 DEF PaidInv, Writing
  <2>. QED
    BY <2>1, <2>2, <2>3 DEF Writing
<1>8. results' \subseteq [id : Nat, size : Nat] /\ rewritten' \subseteq Nat /\ mixed' \subseteq Backend
  BY <1>1, <1>2, <1>3 DEF Without, PaidInv, PaidTypeOK
<1>9. clock' \in Nat /\ copy' \in [Actor -> Ledger] /\ Copies'
  BY <1>1 DEF PaidInv, PaidTypeOK, Copies
<1>10. OnDisk(call[b].id)'
  <2>1. call'[b].id = id
    <3>1. x.id = id
      BY <1>1 DEF x, id, Call
    <3>. QED
      BY <1>1, <1>3, <3>1 DEF PaidInv, PaidTypeOK
  <2>. QED
    BY <1>5, <2>1 DEF OnDisk
<1>. QED
  BY <1>1, <1>3, <1>6, <1>7, <1>8, <1>9, <1>10, WritesKeep DEF Unsent

LEMMA PaidStep == ASSUME PaidInv, [PaidNext]_paidVars PROVE PaidInv'
<1>1. CASE UNCHANGED paidVars
  <2>1. UNCHANGED <<clock, holder, copy, ledger, results, mixed, rewritten, call, paid, files>>
    BY <1>1 DEF paidVars, files, written
  <2>2. RowsStay /\ FilesStay /\ CallsStay
    BY <2>1, FilesAlone, CallsAlone
  <2>3. Writing'
    BY <2>1, WritesAlone
  <2>. QED
    BY <2>1, <2>2, <2>3, Stays DEF PaidInv, PaidTypeOK, Copies
<1>2. CASE Around
  <2>1. CASE \E b \in Backend : StatusWrite(b)
    BY <2>1, UpdatesKeep
  <2>2. CASE RemoveLock \/ Tick \/ \E b \in Backend : StatusEnter(b)
    BY <2>2, LocksKeep DEF RemoveLock, Tick, StatusEnter
  <2>. QED
    BY <1>2, <2>1, <2>2 DEF Around
<1>3. ASSUME NEW b \in Backend, Asked(b) \/ Works(b) \/ Ends(b) \/ Dies(b) PROVE PaidInv'
  <2>1. CASE \/ Asked(b) \/ ReadResult(b) \/ ReadFails(b) \/ Tell(b) \/ TellFails(b)
             \/ Unusable(b) \/ StillPending(b) \/ Poll(b) \/ PollRefused(b) \/ Ends(b)
    BY <2>1, MovesKeep
  <2>2. CASE Enter(b) \/ Locked(b) \/ WriteFails(b) \/ CloseLedger(Job(b)) \/ Refuse(b)
    <3>1. UNCHANGED <<files, paid>>
      BY <2>2 DEF Enter, Locked, WriteFails, CloseLedger, Refuse
    <3>. QED
      BY <2>2, <3>1, Actors, LocksKeep
  <2>3. CASE Reuse(b) \/ Note(b) \/ Keep(b) \/ Fail(b)
    BY <2>3, UpdatesKeep
  <2>4. CASE EmptyResult(b) \/ FillResult(b) \/ FillFails(b) \/ Dies(b)
    BY <2>4, EmptyKeeps, FillKeeps, StopKeeps
  <2>. QED
    BY <1>3, <2>1, <2>2, <2>3, <2>4, ReserveKeeps, SubmitKeeps DEF Works
<1>. QED
  BY <1>1, <1>2, <1>3 DEF PaidNext

LEMMA PaidStart == PaidInit => PaidInv
<1>1. Idling \in Call /\ Idling.pc = "idle"
  BY DEF Call, Idling, Steps, Names
<1>2. PaidInit => Budgeted
  <2>. SUFFICES ASSUME PaidInit, NEW t \in Nat PROVE Used(ledger.rows, t) <= Monthly
    BY DEF Budgeted
  <2>1. InMonth(ledger.rows, t) = {}
    BY DEF PaidInit, InMonth
  <2>2. Used(ledger.rows, t) = 0
    BY <2>1, SumOfNone DEF Used
  <2>. QED
    BY <2>2, PaidFallbackAssumption
<1>. QED
  BY <1>1, <1>2, Actors DEF PaidInit, PaidInv, PaidTypeOK, Copies, Spread, Recorded, Owned, Unsent,
    Written, Writing, SuccessIsReadable, Ledger

\* Only the writers of the ledger change it: what they put back was read under the lock.
LEMMA RowsAreKept ==
  ASSUME PaidInv, [PaidNext]_paidVars, NEW i \in DOMAIN ledger.rows
  PROVE  i \in DOMAIN ledger'.rows /\ StandsFor(ledger.rows[i], ledger'.rows[i])
<1>1. ledger \in Ledger /\ ledger.rows \in Seq(Row) /\ ledger.rows[i] \in Row
  BY DEF PaidInv, PaidTypeOK, Ledger
<1>2. CASE UNCHANGED ledger
  BY <1>2 DEF StandsFor
<1>3. ASSUME NEW b \in Backend, NEW s \in {"pending", "success", "failed"}, Inside(Job(b)),
             ledger'.rows = Patched(b, s).rows
      PROVE  i \in DOMAIN ledger'.rows /\ StandsFor(ledger.rows[i], ledger'.rows[i])
  <2>1. copy[Job(b)] = ledger
    BY <1>3, Actors DEF Inside, PaidInv, Copies
  <2>2. Patched(b, s).rows = [j \in DOMAIN ledger.rows |-> Changed(ledger.rows[j], call[b].id, s)]
    BY <1>1, <2>1 DEF Patched, Ledger
  <2>3. i \in DOMAIN ledger'.rows /\ ledger'.rows[i] = Changed(ledger.rows[i], call[b].id, s)
    BY <1>3, <2>2
  <2>4. StandsFor(ledger.rows[i], Changed(ledger.rows[i], call[b].id, s))
    BY <1>1, <1>3 DEF Row, Changed, StandsFor
  <2>. QED
    BY <2>3, <2>4
<1>4. ASSUME NEW b \in Backend, StatusWrite(b) PROVE UNCHANGED ledger
  BY <1>4, Actors DEF StatusWrite, Inside, PaidInv, Copies
<1>5. ASSUME NEW b \in Backend, Reuse(b) PROVE UNCHANGED ledger
  BY <1>5, Actors DEF Reuse, Inside, Publish, PaidInv, Copies
<1>6. ASSUME NEW b \in Backend, Note(b) \/ Keep(b) \/ Fail(b)
      PROVE  i \in DOMAIN ledger'.rows /\ StandsFor(ledger.rows[i], ledger'.rows[i])
  <2>1. Inside(Job(b))
    BY <1>6 DEF Note, Keep, Fail, Publish
  <2>2. CASE Note(b)
    BY <1>3, <2>1, <2>2 DEF Note, Publish
  <2>3. CASE Keep(b)
    BY <1>3, <2>1, <2>3 DEF Keep, Publish
  <2>4. CASE Fail(b)
    <3>1. Patched(b, "failed") \in Ledger
      BY <2>1, PatchedRows
    <3>2. ledger'.rows = Patched(b, "failed").rows
      BY <2>4, <3>1 DEF Fail, Publish, Ledger
    <3>. QED
      BY <1>3, <2>1, <3>2
  <2>. QED
    BY <1>6, <2>2, <2>3, <2>4
<1>7. ASSUME NEW b \in Backend, Reserve(b)
      PROVE  i \in DOMAIN ledger'.rows /\ StandsFor(ledger.rows[i], ledger'.rows[i])
  <2>. DEFINE r == NewRow(ledger.rows, call[b])
  <2>1. copy[Job(b)] = ledger /\ ledger' = [ledger EXCEPT !.rows = Append(ledger.rows, r)]
    BY <1>7, Actors DEF Reserve, Publish, Inside, PaidInv, Copies
  <2>. HIDE DEF r
  <2>2. ledger'.rows = Append(ledger.rows, r)
    BY <1>1, <2>1 DEF Ledger
  <2>3. i \in 1..Len(ledger.rows) /\ Len(ledger.rows) \in Nat
    BY <1>1
  <2>4. i \in DOMAIN ledger'.rows /\ ledger'.rows[i] = ledger.rows[i]
    BY <1>1, <2>2, <2>3
  <2>. QED
    BY <2>4 DEF StandsFor
<1>8. CASE Around
  BY <1>2, <1>4, <1>8 DEF Around, RemoveLock, Tick, StatusEnter, files
<1>9. ASSUME NEW b \in Backend, Asked(b) \/ Works(b) \/ Ends(b) \/ Dies(b)
      PROVE  i \in DOMAIN ledger'.rows /\ StandsFor(ledger.rows[i], ledger'.rows[i])
  <2>1. CASE Asked(b) \/ Ends(b) \/ Dies(b)
    BY <1>2, <2>1 DEF Asked, Collect, Ends, Dies, files
  <2>2. CASE Works(b)
    BY <1>2, <1>5, <1>6, <1>7, <2>2
       DEF Works, files, Enter, Locked, WriteFails, CloseLedger, Refuse, ReadResult, ReadFails, Tell, TellFails, Moves,
           Submit, SubmitFails, EmptyResult, FillResult, FillFails, Unusable, StillPending, Poll, PollRefused
  <2>. QED
    BY <1>9, <2>1, <2>2
<1>10. CASE UNCHANGED paidVars
  BY <1>2, <1>10 DEF paidVars, files
<1>. QED
  BY <1>8, <1>9, <1>10 DEF PaidNext

\* However many backends share the ledger, and wherever they die, the lock and the row
\* that is reserved before anything is sent (outscraper.ts:124-145) keep two requests of a
\* place a day apart.
THEOREM ChargesAreADayApart == PaidSpec => []OneChargePerDay
<1>1. PaidInv => OneChargePerDay
  <2>1. SUFFICES ASSUME PaidInv, NEW i \in DOMAIN paid, NEW j \in DOMAIN paid, i # j, paid[i].place = paid[j].place
                 PROVE  paid[j].at - paid[i].at >= Day \/ paid[i].at - paid[j].at >= Day
    BY DEF OneChargePerDay
  <2>. DEFINE k == paid[i].id
              m == paid[j].id
  <2>2. /\ k \in DOMAIN ledger.rows /\ m \in DOMAIN ledger.rows /\ k # m
        /\ ledger.rows[k].place = paid[i].place /\ ledger.rows[m].place = paid[j].place
        /\ ledger.rows[k].at = paid[i].at /\ ledger.rows[m].at = paid[j].at
    BY <2>1 DEF PaidInv, Recorded
  <2>3. k \in Nat /\ m \in Nat
    <3>1. DOMAIN ledger.rows = 1..Len(ledger.rows)
      BY DEF PaidInv, PaidTypeOK, Ledger
    <3>. QED
      BY <2>2, <3>1
  <2>4. k < m \/ m < k
    BY <2>2, <2>3
  <2>. QED
    BY <2>1, <2>2, <2>4 DEF PaidInv, Spread
<1>. QED
  BY <1>1, PaidStart, PaidStep, PTL DEF PaidSpec

\* What the reservations of a month leave of the allowance bounds the next one
\* (outscraper.ts:132-137), and nothing is submitted but what a reservation of its own is for:
\* so no month's requests ask for more, whatever fails or dies in between.
THEOREM AllowanceIsKept == PaidSpec => []AllowanceHolds
<1>1. PaidInv => AllowanceHolds
  <2>. SUFFICES ASSUME PaidInv, NEW t \in 0..clock
                PROVE  SumFunctionOnSet(Limits(paid), InMonth(paid, t)) <= Monthly
    BY DEF AllowanceHolds
  <2>. DEFINE rows == ledger.rows
              S == InMonth(paid, t)
              e == [k \in DOMAIN paid |-> paid[k].id]
              ids == {e[k] : k \in S}
  <2>1. rows \in Seq(Row) /\ paid \in Seq(Request) /\ t \in Nat /\ Monthly \in Nat
    BY PaidFallbackAssumption DEF PaidInv, PaidTypeOK, Ledger, Request
  <2>2. /\ IsFiniteSet(S) /\ S \subseteq DOMAIN paid
        /\ \A k \in DOMAIN paid : Limits(paid)[k] = paid[k].limit /\ Limits(paid)[k] \in Nat
    BY <2>1, LimitsAdd
  <2>3. /\ IsFiniteSet(InMonth(rows, t)) /\ InMonth(rows, t) \subseteq DOMAIN rows
        /\ \A i \in DOMAIN rows : Limits(rows)[i] = rows[i].limit /\ Limits(rows)[i] \in Nat
        /\ Used(rows, t) \in Nat /\ Used(rows, t) <= Monthly
    BY <2>1, LimitsAdd DEF Used, PaidInv, Budgeted
  <2>4. \A k \in S : Limits(paid)[k] \in Int /\ Limits(paid)[k] = Limits(rows)[e[k]] /\ e[k] \in InMonth(rows, t)
    <3>1. \A k \in S : /\ e[k] \in DOMAIN rows /\ rows[e[k]].limit = paid[k].limit
                       /\ rows[e[k]].at = paid[k].at /\ paid[k].at \div Month = t \div Month
      BY <2>2 DEF PaidInv, Recorded, InMonth
    <3>. HIDE DEF e, S
    <3>2. \A k \in S : e[k] \in InMonth(rows, t)
      BY <3>1 DEF InMonth
    <3>. QED
      BY <2>2, <2>3, <3>1, <3>2
  <2>5. \A k, m \in S : e[k] = e[m] => k = m
    BY <2>2 DEF PaidInv, Recorded
  <2>6. SumFunctionOnSet(Limits(paid), S) = SumFunctionOnSet(Limits(rows), ids)
    <3>. HIDE DEF e, S, rows
    <3>. QED
      BY <2>2, <2>4, <2>5, SumRenamed
  <2>7. SumFunctionOnSet(Limits(rows), ids) <= Used(rows, t)
    <3>1. ids \subseteq InMonth(rows, t)
      BY <2>4
    <3>. HIDE DEF ids, rows
    <3>. QED
      BY <2>3, <3>1, SumGrows DEF Used
  <2>8. SumFunctionOnSet(Limits(paid), S) \in Nat
    BY <2>1, LimitsAdd
  <2>. QED
    BY <2>1, <2>3, <2>6, <2>7, <2>8
<1>. QED
  BY <1>1, PaidStart, PaidStep, PTL DEF PaidSpec

\* A row is called a success (outscraper.ts:153-157) only once its result is on disk; what can take it away
\* again is a second collection of the same request that writes over it or beside it, and nothing else:
\* no failure, and no death of any other backend.
THEOREM SuccessesAreReadable == PaidSpec => []SuccessIsReadable
<1>1. PaidInv => SuccessIsReadable
  BY DEF PaidInv
<1>. QED
  BY <1>1, PaidStart, PaidStep, PTL DEF PaidSpec

\* However the backends' transactions, status requests, failures and deaths interleave, a
\* reservation stays in the ledger as it was made.
THEOREM ReservationsAreKept == PaidSpec => ReservationsStay
<1>1. PaidInv /\ [PaidNext]_paidVars =>
        [\A i \in DOMAIN ledger.rows :
           i \in DOMAIN ledger'.rows /\ StandsFor(ledger.rows[i], ledger'.rows[i])]_paidVars
  BY RowsAreKept
<1>. QED
  BY <1>1, PaidStart, PaidStep, PTL DEF PaidSpec, ReservationsStay

\* Nothing is charged that the ledger does not hold, and nothing twice.
THEOREM ChargesAreRecorded == PaidSpec => []ChargesAreOnRecord
<1>1. PaidInv => ChargesAreOnRecord
  BY DEF PaidInv, Recorded, Spread, ChargesAreOnRecord
<1>. QED
  BY <1>1, PaidStart, PaidStep, PTL DEF PaidSpec
-----------------------------------------------------------------------------
(* The jobs above the provider. *)

Sample == [by : {"none", "builtin", "paid"}, size : Nat]
JobRecord == [pc : {"idle", "begin", "runner", "store", "weigh", "tell", "paying", "settle", "final"},
              status : {"none", "running", "completed", "failed", "cancelled"},
              place : Names, full : BOOLEAN, sample : Sample, failed : BOOLEAN, reported : Nat,
              data : Sample, fallback : {"none", "running", "completed", "failed"}, asked : BOOLEAN]

\* A sample that is stored, if there is one; a data set that is, and is no smaller.
Kept(j, s) == j.sample # NoSample => j.sample \in s
Best(j, s) == j.data # NoSample => j.data \in s /\ j.data.size >= j.sample.size

\* What is true of a job that has come so far, with what is stored for it and its collection at the provider.
Fits(j, s, c) ==
  /\ j.pc \in {"begin", "runner", "store"} => j.data = NoSample
  /\ j.pc \in {"begin", "runner"} => j.sample = NoSample
  /\ j.pc \in {"store", "weigh", "tell"} => j.reported \in Reports /\ j.sample.size \in Sizes \cup {0}
  /\ j.pc = "tell" => j.place \in Place
  /\ j.pc \in {"weigh", "tell", "paying"} => j.data = j.sample
  /\ j.pc \in {"weigh", "tell", "paying", "settle"} => Kept(j, s) /\ Best(j, s)
  /\ j.status = "completed" => j.pc \in {"final", "idle"} /\ j.data # NoSample /\ Kept(j, s) /\ Best(j, s)
  /\ j.pc # "paying" => c = Idling

\* A backend without a collection does not hold the lock for one.
Unheld(b) == call[b] = Idling => holder # Job(b)

JobInv ==
  /\ PaidInv /\ job \in [Backend -> JobRecord] /\ store \in [Backend -> SUBSET Sample]
  /\ \A b \in Backend : Fits(job[b], store[b], call[b]) /\ Unheld(b)

\* A collection works only where one was asked for, and ends only when its caller takes it.
LEMMA WorkIsOfCalls ==
  ASSUME JobInv, NEW b \in Backend, Works(b)
  PROVE  /\ call[b] # Idling /\ call'[b] # Idling
         /\ \A d \in Backend : d # b => call'[d] = call[d] /\ (holder' = Job(d) => holder = Job(d))
<1>1. /\ call \in [Backend -> Call] /\ call[b] \in Call /\ Idling.pc = "idle"
      /\ (call[b] = Idling => holder # Job(b))
      /\ \A d \in Backend : d # b => Job(d) # Job(b) /\ Job(d) # Free
  BY DEF JobInv, PaidInv, PaidTypeOK, Idling, Unheld, Job, Free
<1>2. \A pc, n : /\ Gone(b, pc, n)[b].pc = pc
                 /\ \A d \in Backend : d # b => Gone(b, pc, n)[d] = call[d]
  BY <1>1 DEF Gone, Idling
<1>3. Thrown(b)[b].pc \in {"fail", "threw"} /\ \A d \in Backend : d # b => Thrown(b)[d] = call[d]
  BY <1>1, <1>2 DEF Thrown, Call
<1>4. CASE Enter(b) \/ Locked(b) \/ WriteFails(b) \/ CloseLedger(Job(b)) \/ Refuse(b)
  BY <1>1, <1>3, <1>4 DEF Enter, Locked, WriteFails, CloseLedger, Refuse, Wants, OpenLedger, Inside
<1>5. CASE Reserve(b) \/ Reuse(b)
  <2>1. /\ call[b].pc = "reserve" /\ UNCHANGED holder
        /\ \E r, pc, status : pc \in {"tell", "read"} /\ Takes(b, r, pc, status)
    BY <1>5 DEF Reserve, Reuse, Publish
  <2>2. PICK r, pc, status : pc \in {"tell", "read"} /\ Takes(b, r, pc, status)
    BY <2>1
  <2>3. call'[b].pc = pc /\ \A d \in Backend : d # b => call'[d] = call[d]
    BY <1>1, <2>2 DEF Takes, Idling
  <2>. QED
    BY <1>1, <2>1, <2>2, <2>3
<1>6. CASE ReadResult(b) \/ ReadFails(b) \/ Tell(b) \/ TellFails(b) \/ Unusable(b) \/ StillPending(b)
  BY <1>1, <1>2, <1>6 DEF ReadResult, ReadFails, Tell, TellFails, Unusable, StillPending, At, Moves, Call
<1>9. CASE Submit(b)
  <2>1. PICK s \in Answer, named \in BOOLEAN :
          call' = [call EXCEPT ![b].pc = IF named THEN "note" ELSE "judge", ![b].req = named, ![b].status = s]
    BY <1>9 DEF Submit
  <2>. DEFINE pc == IF named THEN "note" ELSE "judge"
              x == [call[b] EXCEPT !.pc = pc, !.req = named, !.status = s]
  <2>2. pc # "idle" /\ call[b].pc = "submit" /\ UNCHANGED holder
    BY <1>9 DEF Submit, At
  <2>3. call' = [call EXCEPT ![b] = x]
    BY <2>1
  <2>. HIDE DEF pc
  <2>4. x.pc # "idle"
    BY <1>1, <2>2 DEF Call
  <2>. HIDE DEF x
  <2>. QED
    BY <1>1, <2>2, <2>3, <2>4
<1>7. CASE SubmitFails(b) \/ Poll(b) \/ PollRefused(b) \/ EmptyResult(b) \/ FillResult(b) \/ FillFails(b)
  <2>1. UNCHANGED holder /\ call[b].pc \in {"submit", "judge", "write"}
    BY <1>7 DEF SubmitFails, Poll, PollRefused, EmptyResult, FillResult, FillFails, At
  <2>2. CASE SubmitFails(b) \/ PollRefused(b)
    <3>1. \E n : call' = [call EXCEPT ![b].pc = "fail", ![b].cool = n]
      BY <2>2 DEF SubmitFails, PollRefused
    <3>. QED
      BY <1>1, <2>1, <3>1 DEF Call
  <2>3. CASE Poll(b)
    <3>1. PICK s \in Answer : call' = [call EXCEPT ![b].status = s, ![b].polls = @ + 1]
      BY <2>3 DEF Poll
    <3>. DEFINE x == [call[b] EXCEPT !.status = s, !.polls = @ + 1]
    <3>2. call' = [call EXCEPT ![b] = x]
      BY <3>1
    <3>3. x.pc = call[b].pc
      BY <1>1 DEF Call
    <3>. HIDE DEF x
    <3>. QED
      BY <1>1, <2>1, <3>2, <3>3
  <2>4. CASE EmptyResult(b)
    <3>1. \E n : call' = [call EXCEPT ![b].pc = "write", ![b].size = n]
      BY <2>4 DEF EmptyResult
    <3>. QED
      BY <1>1, <2>1, <3>1 DEF Call
  <2>5. CASE FillResult(b) \/ FillFails(b)
    <3>1. \E pc \in {"keep", "fail"} : call' = [call EXCEPT ![b].pc = pc]
      BY <2>5 DEF FillResult, FillFails
    <3>. QED
      BY <1>1, <2>1, <3>1 DEF Call
  <2>. QED
    BY <1>7, <2>2, <2>3, <2>4, <2>5
<1>8. CASE Note(b) \/ Keep(b) \/ Fail(b)
  BY <1>1, <1>2, <1>8 DEF Note, Keep, Fail, Publish, Call
<1>. QED
  BY <1>4, <1>5, <1>6, <1>7, <1>8, <1>9 DEF Works

\* Whatever a job does, the provider sees one of its own steps, or none.
LEMMA PaidPart == ASSUME JobInv, [DiscoveryNext]_discoveryVars PROVE [PaidNext]_paidVars
<1>1. CASE UNCHANGED discoveryVars
  BY <1>1 DEF discoveryVars
<1>2. ASSUME NEW b \in Backend, Works(b) \/ Crash(b) PROVE PaidNext
  BY <1>2 DEF PaidNext, Crash
<1>3. ASSUME NEW b \in Backend, Pay(b) PROVE PaidNext
  <2>1. job[b].full \in BOOLEAN /\ job[b].pc = "tell" /\ Fits(job[b], store[b], call[b])
    BY <1>3 DEF Pay, Is, JobInv, JobRecord
  <2>. QED
    BY <1>3, <2>1 DEF Pay, PaidNext, Asked, Fits
<1>4. ASSUME NEW b \in Backend, PayFails(b) \/ Taken(b) \/ TakenFails(b) \/ Left(b) PROVE PaidNext
  BY <1>4 DEF PayFails, Taken, TakenFails, Left, Back, PaidNext, Ends
<1>5. ASSUME NEW b \in Backend,
             \/ Start(b) \/ Begin(b) \/ BeginFails(b) \/ RunnerStopped(b) \/ RunnerRefused(b) \/ RunnerFails(b)
             \/ RunnerReturns(b) \/ StoreSample(b) \/ StoreFails(b) \/ NoFallback(b) \/ Fallback(b) \/ TellJobFails(b)
             \/ Settle(b) \/ SaveJob(b) \/ SaveJobFails(b) \/ Cancel(b) \/ Get(b) \/ NothingKnown(b)
      PROVE  UNCHANGED paidVars
  BY <1>5 DEF Start, Begin, BeginFails, RunnerStopped, RunnerRefused, RunnerFails, RunnerReturns, StoreSample,
              StoreFails, NoFallback, Fallback, TellJobFails, Settle, SaveJob, SaveJobFails, Cancel, Get, NothingKnown,
              Finally, Step
<1>. QED
  BY <1>1, <1>2, <1>3, <1>4, <1>5 DEF DiscoveryNext, JobStep, PaidNext

\* One job goes on, with what is stored for it and its collection; the others stay as they are.
LEMMA JobGoesOn ==
  ASSUME JobInv, PaidInv', NEW b \in Backend, NEW j \in JobRecord, NEW s \in SUBSET Sample,
         job' = [job EXCEPT ![b] = j], store' = [store EXCEPT ![b] = s],
         \A d \in Backend : d # b => call'[d] = call[d],
         \A d \in Backend : holder' = Job(d) => holder = Job(d),
         call'[b] = Idling => call[b] = Idling \/ holder' # Job(b),
         Fits(j, s, call'[b])
  PROVE  JobInv'
<1>1. /\ job' \in [Backend -> JobRecord] /\ store' \in [Backend -> SUBSET Sample]
      /\ job'[b] = j /\ store'[b] = s
      /\ \A d \in Backend : d # b => job'[d] = job[d] /\ store'[d] = store[d]
  BY DEF JobInv
<1>2. ASSUME NEW d \in Backend PROVE Fits(job'[d], store'[d], call'[d]) /\ Unheld(d)'
  <2>1. CASE d = b
    BY <1>1, <2>1 DEF JobInv, Unheld
  <2>2. CASE d # b
    BY <1>1, <2>2 DEF JobInv, Unheld
  <2>. QED
    BY <2>1, <2>2
<1>. QED
  BY <1>1, <1>2 DEF JobInv

\* The same where the provider and what is stored for the job have no part in the step.
LEMMA JobAlone ==
  ASSUME JobInv, NEW b \in Backend, NEW j \in JobRecord, Step(b, j), UNCHANGED store, Fits(j, store[b], call[b])
  PROVE  JobInv'
<1>1. UNCHANGED <<paidVars, call, holder>> /\ PaidInv'
  BY PaidStep DEF Step, paidVars, JobInv
<1>2. store' = [store EXCEPT ![b] = store[b]] /\ store[b] \in SUBSET Sample
  BY DEF JobInv
<1>. QED
  BY <1>1, <1>2, JobGoesOn DEF Step

\* The steps of a job that are its own.
LEMMA OwnSteps ==
  ASSUME JobInv, NEW b \in Backend,
         \/ Begin(b) \/ BeginFails(b) \/ RunnerStopped(b) \/ RunnerRefused(b) \/ RunnerFails(b) \/ RunnerReturns(b)
         \/ StoreFails(b) \/ NoFallback(b) \/ Fallback(b) \/ TellJobFails(b) \/ Settle(b) \/ SaveJob(b)
         \/ SaveJobFails(b) \/ Cancel(b) \/ NothingKnown(b)
  PROVE  JobInv'
<1>1. job[b] \in JobRecord /\ Fits(job[b], store[b], call[b])
  BY DEF JobInv
<1>2. UNCHANGED store
  BY DEF Begin, BeginFails, RunnerStopped, RunnerRefused, RunnerFails, RunnerReturns, StoreFails, NoFallback,
         Fallback, TellJobFails, Settle, SaveJob, SaveJobFails, Cancel, NothingKnown, Finally
<1>3. \A r \in Reports : r \in Nat /\ \A n \in Sizes : n \in Nat
  BY PaidFallbackAssumption
<1>4. CASE RunnerStopped(b) \/ RunnerRefused(b) \/ StoreFails(b) \/ TellJobFails(b) \/ Settle(b)
  <2>1. PICK status \in {"cancelled", "failed", "completed"} :
          /\ Finally(b, status)
          /\ status = "completed" => job[b].pc = "settle" /\ job[b].data # NoSample
    BY <1>4 DEF RunnerStopped, RunnerRefused, StoreFails, TellJobFails, Settle, Is
  <2>. DEFINE j == [job[b] EXCEPT !.pc = "final", !.status = status]
  <2>2. j \in JobRecord /\ Step(b, j)
    BY <1>1, <2>1 DEF JobRecord, Finally
  <2>3. job[b].pc # "paying"
    BY <1>4 DEF RunnerStopped, RunnerRefused, StoreFails, TellJobFails, Settle, Is
  <2>4. Fits(j, store[b], call[b])
    BY <1>1, <2>1, <2>3 DEF Fits, Kept, Best, JobRecord
  <2>. QED
    BY <1>2, <2>2, <2>4, JobAlone
<1>5. CASE BeginFails(b)
  <2>1. NoJob \in JobRecord /\ Fits(NoJob, store[b], call[b])
    BY <1>1, <1>5 DEF BeginFails, Is, NoJob, JobRecord, Fits, NoSample, Sample, Names
  <2>. QED
    BY <1>2, <1>5, <2>1, JobAlone DEF BeginFails
<1>6. CASE Begin(b) \/ NoFallback(b) \/ SaveJob(b) \/ SaveJobFails(b)
  <2>1. PICK pc \in {"runner", "settle", "idle"} :
          /\ Step(b, [job[b] EXCEPT !.pc = pc])
          /\ \/ pc = "runner" /\ job[b].pc = "begin"
             \/ pc = "settle" /\ job[b].pc = "weigh"
             \/ pc = "idle" /\ job[b].pc = "final"
    BY <1>6 DEF Begin, NoFallback, SaveJob, SaveJobFails, Is
  <2>. DEFINE j == [job[b] EXCEPT !.pc = pc]
  <2>2. j \in JobRecord
    BY <1>1, <2>1 DEF JobRecord
  <2>3. Fits(j, store[b], call[b])
    BY <1>1, <2>1 DEF Fits, Kept, Best, JobRecord
  <2>. QED
    BY <1>2, <2>1, <2>2, <2>3, JobAlone
<1>7. CASE RunnerFails(b)
  <2>1. PICK r \in Reports : Step(b, [job[b] EXCEPT !.pc = "weigh", !.failed = TRUE, !.reported = r])
    BY <1>7 DEF RunnerFails
  <2>. DEFINE j == [job[b] EXCEPT !.pc = "weigh", !.failed = TRUE, !.reported = r]
  <2>2. j \in JobRecord
    BY <1>1, <1>3 DEF JobRecord
  <2>3. job[b].pc = "runner" /\ job[b].sample = NoSample /\ NoSample.size = 0
    BY <1>1, <1>7 DEF RunnerFails, Is, Fits, NoSample
  <2>4. Fits(j, store[b], call[b])
    BY <1>1, <2>3 DEF Fits, Kept, Best, JobRecord
  <2>. QED
    BY <1>2, <2>1, <2>2, <2>4, JobAlone
<1>8. CASE RunnerReturns(b)
  <2>1. PICK n \in Sizes \cup {0}, r \in Reports :
          Step(b, [job[b] EXCEPT !.pc = "store", !.reported = r, !.sample = [by |-> "builtin", size |-> n]])
    BY <1>8 DEF RunnerReturns
  <2>. DEFINE j == [job[b] EXCEPT !.pc = "store", !.reported = r, !.sample = [by |-> "builtin", size |-> n]]
  <2>2. [by |-> "builtin", size |-> n] \in Sample
    BY <1>3 DEF Sample
  <2>3. j \in JobRecord
    BY <1>1, <1>3, <2>2 DEF JobRecord
  <2>4. Fits(j, store[b], call[b])
    BY <1>1, <1>8 DEF RunnerReturns, Is, Fits, JobRecord
  <2>. QED
    BY <1>2, <2>1, <2>3, <2>4, JobAlone
<1>9. CASE Fallback(b)
  <2>. DEFINE j == [job[b] EXCEPT !.pc = "tell", !.fallback = "running"]
  <2>1. job[b].pc = "weigh" /\ job[b].place \in Place /\ Step(b, j)
    BY <1>1, <1>9 DEF Fallback, Is, Reason, JobRecord, Names
  <2>2. j \in JobRecord /\ Fits(j, store[b], call[b])
    BY <1>1, <2>1 DEF Fits, Kept, Best, JobRecord
  <2>. QED
    BY <1>2, <2>1, <2>2, JobAlone
<1>10. CASE Cancel(b)
  <2>. DEFINE j == [job[b] EXCEPT !.asked = TRUE]
  <2>1. j \in JobRecord /\ Fits(j, store[b], call[b]) /\ Step(b, j)
    BY <1>1, <1>10 DEF Cancel, Fits, Kept, Best, JobRecord
  <2>. QED
    BY <1>2, <2>1, JobAlone
<1>11. CASE NothingKnown(b)
  <2>. DEFINE j == [job[b] EXCEPT !.pc = "settle", !.fallback = "failed"]
  <2>1. Step(b, j) /\ job[b].pc = "tell"
    BY <1>11 DEF NothingKnown, Is
  <2>2. j \in JobRecord /\ Fits(j, store[b], call[b])
    BY <1>1, <2>1 DEF Fits, Kept, Best, JobRecord
  <2>. QED
    BY <1>2, <2>1, <2>2, JobAlone
<1>. QED
  BY <1>4, <1>5, <1>6, <1>7, <1>8, <1>9, <1>10, <1>11

\* The steps that store a data set, or begin with nothing stored.
LEMMA StoreSteps == ASSUME JobInv, NEW b \in Backend, Start(b) \/ StoreSample(b) PROVE JobInv'
<1>1. job[b] \in JobRecord /\ Fits(job[b], store[b], call[b]) /\ store[b] \in SUBSET Sample
  BY DEF JobInv
<1>2. UNCHANGED <<paidVars, call, holder>> /\ PaidInv'
  BY PaidStep DEF Start, StoreSample, Step, paidVars, JobInv
<1>3. CASE Start(b)
  <2>1. PICK place \in Place \cup {"none"}, full \in BOOLEAN :
          Step(b, [NoJob EXCEPT !.pc = "begin", !.status = "running", !.place = place, !.full = full])
    BY <1>3 DEF Start
  <2>. DEFINE j == [NoJob EXCEPT !.pc = "begin", !.status = "running", !.place = place, !.full = full]
  <2>2. NoJob \in JobRecord /\ NoJob.data = NoSample /\ NoJob.sample = NoSample
    BY DEF NoJob, JobRecord, NoSample, Sample, Names
  <2>3. j \in JobRecord /\ j.pc = "begin" /\ j.status = "running" /\ j.data = NoSample /\ j.sample = NoSample
    BY <2>2 DEF JobRecord, Names
  <2>4. /\ call[b] = Idling /\ store' = [store EXCEPT ![b] = {}]
        /\ job' = [job EXCEPT ![b] = j]
    BY <1>1, <1>3, <2>1 DEF Start, Is, Fits, Step
  <2>. HIDE DEF j
  <2>5. Fits(j, {}, call'[b]) /\ {} \in SUBSET Sample
    BY <1>2, <2>3, <2>4 DEF Fits
  <2>6. /\ PaidInv' /\ \A d \in Backend : d # b => call'[d] = call[d]
        /\ \A d \in Backend : holder' = Job(d) => holder = Job(d)
        /\ call'[b] = Idling => call[b] = Idling \/ holder' # Job(b)
    BY <1>2
  <2>. QED
    BY <2>3, <2>4, <2>5, <2>6, JobGoesOn
<1>4. CASE StoreSample(b)
  <2>. DEFINE j == [job[b] EXCEPT !.pc = "weigh", !.data = job[b].sample]
              s == store[b] \cup {job[b].sample}
  <2>1. j \in JobRecord /\ s \in SUBSET Sample /\ job[b].sample.size \in Nat
    BY <1>1 DEF JobRecord, Sample
  <2>2. store' = [store EXCEPT ![b] = s] /\ Step(b, j) /\ job[b].pc = "store"
    BY <1>4 DEF StoreSample, Is
  <2>3. Fits(j, s, call[b])
    BY <1>1, <2>1, <2>2 DEF Fits, Kept, Best, JobRecord
  <2>. QED
    BY <1>2, <2>1, <2>2, <2>3, JobGoesOn DEF Step
<1>. QED
  BY <1>3, <1>4

\* The provider is asked, and answers.
LEMMA PaySteps ==
  ASSUME JobInv, PaidInv', NEW b \in Backend, Pay(b) \/ PayFails(b) \/ Taken(b) \/ TakenFails(b) \/ Left(b)
  PROVE  JobInv'
<1>1. /\ job[b] \in JobRecord /\ Fits(job[b], store[b], call[b]) /\ store[b] \in SUBSET Sample
      /\ call \in [Backend -> Call] /\ call[b] \in Call
  BY DEF JobInv, PaidInv, PaidTypeOK
<1>2. store' = store => store' = [store EXCEPT ![b] = store[b]]
  BY DEF JobInv
<1>3. CASE Pay(b)
  <2>. DEFINE j == [job[b] EXCEPT !.pc = "paying"]
  <2>1. /\ job' = [job EXCEPT ![b] = j] /\ UNCHANGED <<holder, store>> /\ call[b] = Idling
        /\ \A d \in Backend : d # b => call'[d] = call[d]
    BY <1>1, <1>3 DEF Pay, Collect
  <2>2. j \in JobRecord /\ Fits(j, store[b], call'[b])
    BY <1>1, <1>3 DEF Pay, Is, Fits, Kept, Best, JobRecord
  <2>. QED
    BY <1>1, <1>2, <2>1, <2>2, JobGoesOn
<1>4. ASSUME NEW pc, NEW j \in JobRecord, NEW s \in SUBSET Sample, Back(b, pc, j),
             store' = [store EXCEPT ![b] = s], Fits(j, s, Idling)
      PROVE  JobInv'
  <2>1. /\ job' = [job EXCEPT ![b] = j] /\ UNCHANGED holder /\ holder # Job(b) /\ call'[b] = Idling
        /\ \A d \in Backend : d # b => call'[d] = call[d]
    BY <1>1, <1>4 DEF Back, Return, At
  <2>. QED
    BY <1>4, <2>1, JobGoesOn
<1>5. CASE PayFails(b) \/ TakenFails(b) \/ Left(b)
  <2>1. PICK pc \in {"threw", "returned"}, f \in {"completed", "failed"} :
          Back(b, pc, [job[b] EXCEPT !.pc = "settle", !.fallback = f])
    <3>1. CASE PayFails(b)
      BY <3>1 DEF PayFails
    <3>2. CASE TakenFails(b)
      BY <3>2 DEF TakenFails
    <3>3. CASE Left(b)
      BY <3>3 DEF Left
    <3>. QED
      BY <1>5, <3>1, <3>2, <3>3
  <2>. DEFINE j == [job[b] EXCEPT !.pc = "settle", !.fallback = f]
  <2>2. job[b].pc = "paying" /\ UNCHANGED store
    BY <1>5 DEF PayFails, TakenFails, Left, Back, Is
  <2>3. j \in JobRecord /\ Fits(j, store[b], Idling)
    BY <1>1, <2>2 DEF Fits, Kept, Best, JobRecord
  <2>. QED
    BY <1>1, <1>2, <1>4, <2>1, <2>2, <2>3
<1>6. CASE Taken(b)
  <2>. DEFINE j == [job[b] EXCEPT !.pc = "settle", !.fallback = "completed", !.data = Bought(b)]
              s == store[b] \cup {Bought(b)}
  <2>1. /\ job[b].pc = "paying" /\ Back(b, "returned", j) /\ store' = [store EXCEPT ![b] = s]
        /\ job[b].data = NoSample \/ call[b].size >= job[b].data.size
    <3>1. Better(b) \/ AsLarge(b)
      BY <1>6 DEF Taken
    <3>2. call[b].size \in Nat /\ job[b].data.size \in Nat
      BY <1>1 DEF Call, JobRecord, Sample
    <3>3. job[b].data = NoSample \/ call[b].size >= job[b].data.size
      BY <3>1, <3>2 DEF Better, AsLarge
    <3>. QED
      BY <1>6, <3>3 DEF Taken, Back, Is
  <2>2. Bought(b) \in Sample /\ Bought(b).size = call[b].size /\ call[b].size \in Nat
    BY <1>1 DEF Bought, Sample, Call
  <2>3. j \in JobRecord /\ s \in SUBSET Sample
    BY <1>1, <2>2 DEF JobRecord
  <2>4. Bought(b).size >= job[b].sample.size
    BY <1>1, <2>1, <2>2 DEF Fits, NoSample, JobRecord, Sample
  <2>5. Fits(j, s, Idling)
    BY <1>1, <2>1, <2>4 DEF Fits, Kept, Best, JobRecord
  <2>. QED
    BY <1>4, <2>1, <2>3, <2>5
<1>. QED
  BY <1>3, <1>5, <1>6

LEMMA JobNext == ASSUME JobInv, [DiscoveryNext]_discoveryVars PROVE JobInv'
<1>1. PaidInv'
  BY PaidPart, PaidStep DEF JobInv
<1>2. ASSUME UNCHANGED <<job, store, call>>, \A b \in Backend : holder' = Job(b) => holder = Job(b) PROVE JobInv'
  BY <1>1, <1>2 DEF JobInv, Unheld
<1>3. CASE UNCHANGED discoveryVars \/ \E b \in Backend : Get(b)
  BY <1>2, <1>3 DEF discoveryVars, jobVars, paidVars, Get
<1>4. CASE Around /\ UNCHANGED jobVars
  <2>1. UNCHANGED <<job, store, call>>
    BY <1>4 DEF jobVars, Around, RemoveLock, Tick, StatusEnter, StatusWrite
  <2>2. holder' \in {holder, Free} \cup {Status(b) : b \in Backend}
    BY <1>4 DEF Around, RemoveLock, Tick, StatusEnter, StatusWrite, OpenLedger
  <2>3. \A b, d \in Backend : Job(b) # Free /\ Job(b) # Status(d)
    BY DEF Job, Status, Free
  <2>. QED
    BY <1>2, <2>1, <2>2, <2>3
<1>5. ASSUME NEW b \in Backend, Works(b), UNCHANGED jobVars PROVE JobInv'
  <2>1. /\ job[b].pc = "paying" /\ job[b] \in JobRecord /\ Fits(job[b], store[b], call[b]) /\ store[b] \in SUBSET Sample
        /\ job' = [job EXCEPT ![b] = job[b]] /\ store' = [store EXCEPT ![b] = store[b]]
    BY <1>5, WorkIsOfCalls DEF JobInv, Fits, jobVars
  <2>2. Fits(job[b], store[b], call'[b])
    BY <2>1 DEF Fits
  <2>3. ASSUME NEW d \in Backend, d # b
        PROVE  job'[d] = job[d] /\ store'[d] = store[d] /\ call'[d] = call[d] /\ (holder' = Job(d) => holder = Job(d))
    BY <1>5, <2>3, WorkIsOfCalls DEF jobVars
  <2>4. call'[b] # Idling
    BY <1>5, WorkIsOfCalls
  <2>. QED
    BY <1>1, <1>5, <2>2, <2>3, <2>4 DEF JobInv, Unheld, jobVars
<1>6. ASSUME NEW b \in Backend, Crash(b) PROVE JobInv'
  <2>1. /\ job[b] \in JobRecord /\ store[b] \in SUBSET Sample
        /\ UNCHANGED store /\ store' = [store EXCEPT ![b] = store[b]] /\ job' = [job EXCEPT ![b] = NoJob]
    BY <1>6 DEF JobInv, Crash
  <2>2. /\ call'[b] = Idling /\ \A d \in Backend : d # b => call'[d] = call[d]
        /\ holder' # Job(b) /\ holder' \in {holder, Stale}
    BY <1>6 DEF Crash, Dies, JobInv, PaidInv, PaidTypeOK, Stale, Job
  <2>3. \A d \in Backend : Stale # Job(d)
    BY DEF Stale, Job
  <2>4. NoJob \in JobRecord /\ Fits(NoJob, store[b], Idling)
    BY DEF NoJob, JobRecord, Fits, NoSample, Sample, Names
  <2>. QED
    BY <1>1, <2>1, <2>2, <2>3, <2>4, JobGoesOn
<1>. QED
  BY <1>1, <1>3, <1>4, <1>5, <1>6, OwnSteps, StoreSteps, PaySteps DEF DiscoveryNext, JobStep

LEMMA JobStart == DiscoveryInit => JobInv
<1>1. NoJob \in JobRecord /\ Fits(NoJob, {}, Idling)
  BY DEF NoJob, JobRecord, Fits, NoSample, Sample, Names
<1>2. \A b \in Backend : Job(b) # Free
  BY DEF Job, Free
<1>. QED
  BY <1>1, <1>2, PaidStart DEF DiscoveryInit, PaidInit, JobInv, Unheld

\* The jobs (business-discovery.ts:135-181) do to the provider only what it does by itself.
THEOREM JobsUseTheProvider == DiscoverySpec => PaidAsSpecified
<1>1. DiscoveryInit => PaidInit
  BY DEF DiscoveryInit
<1>. QED
  BY <1>1, JobStart, JobNext, PaidPart, PTL DEF DiscoverySpec, PaidAsSpecified, PaidSpec

\* So what it promises holds below any number of backends with their jobs: the day between two
\* requests of a place (outscraper.ts:124-128), and the month's allowance (132-137).
THEOREM JobsPayOnceADay == DiscoverySpec => []OneChargePerDay
BY JobsUseTheProvider, ChargesAreADayApart, PTL DEF PaidAsSpecified

\* The same of the allowance: no number of jobs asks for more than the month's.
THEOREM JobsKeepTheAllowance == DiscoverySpec => []AllowanceHolds
BY JobsUseTheProvider, AllowanceIsKept, PTL DEF PaidAsSpecified

\* A job that says it is completed shows the larger data set, and all it has is stored.
THEOREM JobsShowTheBest == DiscoverySpec => []BestSampleShown
<1>1. JobInv => BestSampleShown
  BY DEF JobInv, Fits, Kept, Best, BestSampleShown
<1>. QED
  BY <1>1, JobStart, JobNext, PTL DEF DiscoverySpec

\* The sample of the built-in collector is stored before the paid provider is asked.
THEOREM JobsStoreBeforePaying == DiscoverySpec => []StoredBeforePaying
<1>1. JobInv => StoredBeforePaying
  BY DEF JobInv, Fits, Kept, StoredBeforePaying
<1>. QED
  BY <1>1, JobStart, JobNext, PTL DEF DiscoverySpec
============================================================================
