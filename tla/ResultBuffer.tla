---------------------------- MODULE ResultBuffer ----------------------------
(***************************************************************************)
(* The writer of the database mode (postgres/resultwriter.go): results are *)
(* kept in a buffer and saved when it is full, when a result comes a       *)
(* minute after the last save, and at the end.                             *)
(***************************************************************************)
EXTENDS Integers, FiniteSets

CONSTANTS
  Result,
  MaxBatch       \* maxBatchSize

ASSUME ResultBufferAssumption == MaxBatch \in Nat \ {0}

VARIABLES
  in,            \* the results' channel: "open", "closed"
  buff,
  writer,        \* Run: "running", "ended", "failed"
  received, saved, skipped  \* history: results that came, how often each was saved, those left out

bufferVars == <<in, buff, writer, received, saved, skipped>>

BufferInit ==
  /\ in = "open" /\ buff = {} /\ writer = "running"
  /\ received = {} /\ skipped = {} /\ saved = [r \in Result |-> 0]

\* What a save of B may come to: the results now in the table, those left out for a
\* byte the database cannot hold, and whether an error is returned.
Once(B) == [in : {{}, B}, out : {{}}, ok : {FALSE}] \cup {[in |-> B, out |-> {}, ok |-> TRUE]}
RowByRow(B) ==
  UNION {[in : SUBSET (B \ G), out : {G}, ok : {FALSE}] \cup {[in |-> B \ G, out |-> G, ok |-> TRUE]} : G \in SUBSET B}
\* Faulty variant: the buffer is not emptied.
SaveKeeping(B) ==
  \E o \in Once(B) \cup RowByRow(B) :
    /\ saved' = [r \in Result |-> saved[r] + (IF r \in o.in THEN 1 ELSE 0)]
    /\ skipped' = skipped \cup o.out /\ buff' = B
    /\ writer' = IF ~o.ok THEN "failed" ELSE IF in = "closed" THEN "ended" ELSE "running"
Save(B) ==
  \E o \in Once(B) \cup RowByRow(B) :
    /\ saved' = [r \in Result |-> saved[r] + (IF r \in o.in THEN 1 ELSE 0)]
    /\ skipped' = skipped \cup o.out
    /\ writer' = (IF ~o.ok THEN "failed" ELSE IF in = "closed" THEN "ended" ELSE "running")
    /\ buff' = IF o.ok THEN {} ELSE B

ResultComes(r) ==
  /\ writer = "running" /\ in = "open" /\ r \notin received /\ received' = received \cup {r}
  /\ LET B == buff \cup {r}
     IN  \/ Save(B)
         \/ Cardinality(B) < MaxBatch /\ buff' = B /\ UNCHANGED <<writer, saved, skipped>>
  /\ UNCHANGED in

\* A result of another type.
WrongType == writer = "running" /\ in = "open" /\ writer' = "failed" /\ UNCHANGED <<in, buff, received, saved, skipped>>

NoMoreResults == in = "open" /\ in' = "closed" /\ UNCHANGED <<buff, writer, received, saved, skipped>>

LastSave ==
  /\ writer = "running" /\ in = "closed"
  /\ IF buff = {} THEN writer' = "ended" /\ UNCHANGED <<buff, saved, skipped>> ELSE Save(buff)
  /\ UNCHANGED <<in, received>>

BufferNext == (\E r \in Result : ResultComes(r)) \/ WrongType \/ NoMoreResults \/ LastSave
BufferSpec == BufferInit /\ [][BufferNext]_bufferVars
-----------------------------------------------------------------------------
(* A result is written once at most, in a batch or, after a byte the database  *)
(* cannot hold, row by row; and when the writer ends well, each result it      *)
(* received is in the table or was left out for that byte                      *)
(* (resultwriter.go:86-188).                                                   *)
ResultsKept ==
  /\ \A r \in Result : saved[r] <= 1
  /\ writer = "ended" => \A r \in received \ skipped : saved[r] = 1
=============================================================================
