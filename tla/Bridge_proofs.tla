---------------------------- MODULE Bridge_proofs ----------------------------
(***************************************************************************)
(* Proofs about the parts of the bridge whose steps interleave in many     *)
(* tasks:                                                                  *)
(*   - the backpressure manager: no record is in two places or in none,    *)
(*     the size limit is overshot by a bounded amount, and the manager     *)
(*     implements RecordBuffer, for every number of records and consumers, *)
(*     every size of the queue and of the spool, and any number of         *)
(*     cancellations and restarts;                                         *)
(*   - what overlapping web requests leave behind: the tables of sources,  *)
(*     for every number of sources and of requests; the ZeroBus clients    *)
(*     and processors, for every number of targets and requests; the pages *)
(*     of the smart factory, for every number of pages and simulators; and *)
(*     all three in the model that composes them, WebRequests.             *)
(***************************************************************************)
EXTENDS Backpressure, WebRequests, FiniteSetTheorems,
        SequenceTheorems, WellFoundedInduction, TLAPS

------------------------------------------------------------------------------
(* Backpressure                                                            *)

(* Where records are: each arrived one in one place, in a queue once.      *)
Somewhere(r) ==
  \/ r \in tasks \/ r \in Elems(memory) \/ r \in writing \/ r \in disk
  \/ r \in dlq \/ r \in Elems(taken) \/ r \in lost

Apart(r) ==
  /\ r \in tasks => r \notin Elems(memory) /\ r \notin writing
  /\ r \in tasks \/ r \in Elems(memory) \/ r \in writing =>
       r \notin disk /\ r \notin dlq /\ r \notin Elems(taken) /\ r \notin lost
  /\ r \in Elems(memory) => r \notin writing
  /\ r \in disk => r \notin dlq /\ r \notin Elems(taken) /\ r \notin lost
  /\ r \in dlq => r \notin Elems(taken) /\ r \notin lost
  /\ r \in Elems(taken) => r \notin lost

PlaceInv ==
  /\ \A r \in Record : (r < next <=> Somewhere(r)) /\ Apart(r)
  /\ NoRepeats(memory) /\ NoRepeats(taken)

(* What a consumer that is suspended works on: a file it moved, or one     *)
(* that was complete when it began to read.                                *)
FileInv ==
  \A c \in Consumers :
    /\ cpc[c] = "moving" => cfile[c] \in dlq
    /\ cpc[c] = "reading" =>
         cfile[c] \in disk \/ cfile[c] \in dlq \/ cfile[c] \in Elems(taken)

SpoolInv == SpoolIndexed /\ PopsOwnFile /\ WedgedOnlyByInterruption /\ FileInv

IInv == TypeOK /\ PlaceInv /\ SpoolInv /\ OvershootBounded
-----------------------------------------------------------------------------
(* Queues as sequences without repetition. *)

LEMMA EmptyQueue == Elems(<< >>) = {} /\ NoRepeats(<< >>) /\ << >> \in Seq(Record)
BY DEF Elems, NoRepeats

LEMMA ElemsInRecord ==
  ASSUME NEW s \in Seq(Record) PROVE Elems(s) \subseteq Record
BY DEF Elems

(* append: the record is the last one. *)
LEMMA AppendQueue ==
  ASSUME NEW s \in Seq(Record), NEW r \in Record
  PROVE  /\ Append(s, r) \in Seq(Record) /\ Len(Append(s, r)) = Len(s) + 1
         /\ Elems(Append(s, r)) = Elems(s) \union {r}
         /\ NoRepeats(s) /\ r \notin Elems(s) => NoRepeats(Append(s, r))
         /\ s # << >> => Append(s, r) # << >> /\ Head(Append(s, r)) = Head(s)
         /\ s = << >> => Append(s, r) # << >> /\ Head(Append(s, r)) = r
<1> DEFINE a == Append(s, r)
<1>1. /\ a \in Seq(Record) /\ a # << >> /\ Len(a) = Len(s) + 1
      /\ \A i \in 1 .. Len(s) : a[i] = s[i]
      /\ a[Len(s) + 1] = r
  BY AppendProperties
<1>2. DOMAIN s = 1 .. Len(s) /\ Len(s) \in Nat /\ DOMAIN a = 1 .. Len(s) + 1
  BY <1>1, LenProperties
<1>3. Elems(a) = Elems(s) \union {r}
  BY <1>1, <1>2 DEF Elems
<1>4. ASSUME NoRepeats(s), r \notin Elems(s) PROVE NoRepeats(a)
  <2> SUFFICES ASSUME NEW i \in 1 .. Len(s) + 1, NEW j \in 1 .. Len(s) + 1, a[i] = a[j]
               PROVE  i = j
    BY <1>2 DEF NoRepeats
  <2>1. \A k \in 1 .. Len(s) : s[k] # r
    BY <1>2, <1>4 DEF Elems
  <2> QED BY <1>1, <1>2, <1>4, <2>1 DEF NoRepeats
<1>5. Head(a) = IF s = << >> THEN r ELSE Head(s)
  BY HeadTailAppend
<1> QED BY <1>1, <1>3, <1>4, <1>5

(* pop(0): the first record leaves, the others move up. *)
LEMMA TailQueue ==
  ASSUME NEW s \in Seq(Record), s # << >>
  PROVE  /\ Tail(s) \in Seq(Record) /\ Len(Tail(s)) = Len(s) - 1
         /\ Head(s) \in Elems(s) /\ Head(s) \in Record
         /\ 1 \in DOMAIN s /\ Head(s) = s[1]
         /\ \A i \in DOMAIN Tail(s) : i + 1 \in DOMAIN s /\ Tail(s)[i] = s[i + 1] /\ i + 1 # 1
         /\ NoRepeats(s) => /\ Elems(Tail(s)) = Elems(s) \ {Head(s)}
                            /\ NoRepeats(Tail(s))
<1> DEFINE t == Tail(s)
<1>1. /\ t \in Seq(Record) /\ Len(t) = Len(s) - 1 /\ Head(s) \in Record
      /\ \A i \in 1 .. Len(t) : t[i] = s[i + 1]
  BY HeadTailProperties
<1>2. /\ Len(s) \in Nat \ {0} /\ DOMAIN s = 1 .. Len(s) /\ DOMAIN t = 1 .. Len(s) - 1
      /\ Head(s) = s[1] /\ 1 \in DOMAIN s
  BY <1>1, LenProperties, EmptySeq
<1>3. Head(s) \in Elems(s)
  BY <1>2 DEF Elems
<1>4. \A i \in DOMAIN t : i + 1 \in DOMAIN s /\ t[i] = s[i + 1] /\ i + 1 # 1
  BY <1>1, <1>2
<1>5. ASSUME NoRepeats(s)
      PROVE  Elems(t) = Elems(s) \ {Head(s)} /\ NoRepeats(t)
  <2>1. NoRepeats(t)
    <3> SUFFICES ASSUME NEW i \in DOMAIN t, NEW j \in DOMAIN t, t[i] = t[j] PROVE i = j
      BY DEF NoRepeats
    <3>1. i + 1 = j + 1
      BY <1>4, <1>5 DEF NoRepeats
    <3> QED BY <1>2, <3>1
  <2>2. ASSUME NEW x \in Elems(t) PROVE x \in Elems(s) \ {Head(s)}
    <3>1. PICK i \in DOMAIN t : x = t[i]
      BY <2>2 DEF Elems
    <3>2. i + 1 \in DOMAIN s /\ x = s[i + 1] /\ i + 1 # 1
      BY <1>4, <3>1
    <3> QED BY <1>2, <1>5, <3>2 DEF Elems, NoRepeats
  <2>3. ASSUME NEW x \in Elems(s) \ {Head(s)} PROVE x \in Elems(t)
    <3>1. PICK i \in DOMAIN s : x = s[i]
      BY <2>3 DEF Elems
    <3>2. i - 1 \in DOMAIN t /\ i = (i - 1) + 1
      BY <1>2, <3>1
    <3>3. x = t[i - 1]
      BY <1>4, <3>1, <3>2
    <3> QED BY <3>2, <3>3 DEF Elems
  <2> QED BY <2>1, <2>2, <2>3
<1> QED BY <1>1, <1>2, <1>3, <1>4, <1>5
-----------------------------------------------------------------------------
(* Types.                                                                  *)

(* There are finitely many records. *)
LEMMA FiniteRecords ==
  ASSUME NEW S \in SUBSET Record PROVE IsFiniteSet(S) /\ Cardinality(S) \in Nat
<1>1. IsFiniteSet(Record)
  BY BackpressureAssumption, FS_Interval DEF Record, BackpressureAssumption
<1>2. IsFiniteSet(S)
  BY <1>1, FS_Subset
<1> QED BY <1>2, FS_CardinalityType

(* The counters count. *)
LEMMA CountsStay ==
  ASSUME metrics \in [Metrics -> Nat]
  PROVE  /\ \A m \in Metrics : [metrics EXCEPT ![m] = @ + 1] \in [Metrics -> Nat]
         /\ [metrics EXCEPT !["dropped"] = @ + 1, !["enqueued"] = @ + 1] \in [Metrics -> Nat]
         /\ {"enqueued", "dequeued", "spooled", "dropped", "dlq"} = Metrics
BY DEF Metrics

(* What put_nowait leaves. *)
LEMMA PutType ==
  ASSUME TypeOK, NEW r \in Record, PutNowait(r), BackpressureAssumption
  PROVE  memory' \in Seq(Record) /\ Len(memory') <= MaxQueue /\ metrics' \in [Metrics -> Nat]
<1>1. Len(memory) \in Nat
  BY LenProperties DEF TypeOK
<1>2. Len(memory) + 1 <= MaxQueue
  BY <1>1 DEF PutNowait, MemoryFull, BackpressureAssumption
<1> QED BY <1>2, AppendQueue, CountsStay DEF PutNowait, TypeOK, Count, Metrics

(* A full queue has a first record, and dropping it makes room for one.    *)
LEMMA FullQueueType ==
  ASSUME TypeOK, NEW r \in Record, MemoryFull, HandleFullQueue(r), BackpressureAssumption
  PROVE  /\ memory # << >>
         /\ memory' \in Seq(Record) /\ Len(memory') <= MaxQueue
         /\ metrics' \in [Metrics -> Nat] /\ lost' \subseteq Record
<1>1. Len(memory) \in Nat /\ Len(memory) > 0 /\ memory # << >> /\ MaxQueue \in Nat
  BY EmptySeq, LenProperties DEF MemoryFull, TypeOK, BackpressureAssumption
<1>2. CASE drop_policy = "oldest" /\ memory' = Append(Tail(memory), r)
           /\ lost' = lost \union {Head(memory)}
           /\ metrics' = [metrics EXCEPT !["dropped"] = @ + 1, !["enqueued"] = @ + 1]
  <2>1. Tail(memory) \in Seq(Record) /\ Len(Tail(memory)) = Len(memory) - 1
        /\ Head(memory) \in Record
    BY <1>1, TailQueue DEF TypeOK
  <2>2. memory' \in Seq(Record) /\ Len(memory') = Len(memory)
    BY <1>1, <1>2, <2>1, AppendQueue
  <2> QED BY <1>1, <1>2, <2>1, <2>2, CountsStay DEF TypeOK
<1>3. CASE UNCHANGED memory /\ lost' = lost \union {r} /\ (Count("dropped") \/ UNCHANGED metrics)
  BY <1>1, <1>3, CountsStay DEF TypeOK, Count
<1> QED BY <1>2, <1>3 DEF HandleFullQueue

(* Every variable keeps its type; that pop(0) finds a file is PopsOwnFile. *)
LEMMA TypeStep ==
  ASSUME TypeOK, PopsOwnFile, [Next]_vars PROVE TypeOK'
<1> USE BackpressureAssumption
<1>t. /\ NumRecords \in Nat /\ MaxCancels \in Nat /\ MaxRestarts \in Nat
      /\ Elems(memory) \subseteq Record
  BY ElemsInRecord DEF BackpressureAssumption, TypeOK
<1>1. CASE OnRecord
  <2>1. next \in Record /\ next' \in 1 .. NumRecords + 1
    BY <1>1, <1>t DEF OnRecord, TypeOK, Record
  <2>2. CASE PutNowait(next) /\ UNCHANGED tasks
    BY <1>1, <2>1, <2>2, PutType
       DEF OnRecord, TypeOK, spoolVars, consumerVars, ghosts, faults
  <2>3. CASE tasks' = tasks \union {next} /\ UNCHANGED <<memory, metrics>>
    BY <1>1, <2>1, <2>3 DEF OnRecord, TypeOK, spoolVars, consumerVars, ghosts, faults
  <2> QED BY <1>1, <2>2, <2>3 DEF OnRecord
<1>2. ASSUME NEW r \in Record, Enqueue(r) PROVE TypeOK'
  <2>1. CASE PutNowait(r) /\ UNCHANGED <<writing, lost, peak>>
    BY <1>2, <2>1, PutType DEF Enqueue, TypeOK, consumerVars, faults
  <2>2. CASE /\ writing' = writing \union {r}
             /\ peak' = IF Cardinality(writing') > peak THEN Cardinality(writing') ELSE peak
             /\ UNCHANGED <<memory, metrics, lost>>
    <3>1. writing' \subseteq Record
      BY <2>2 DEF TypeOK
    <3>2. Cardinality(writing') \in Nat
      BY <3>1, FiniteRecords
    <3> QED BY <1>2, <2>2, <3>1, <3>2 DEF Enqueue, TypeOK, consumerVars, faults
  <2>3. CASE MemoryFull /\ HandleFullQueue(r) /\ UNCHANGED <<writing, peak>>
    BY <1>2, <2>3, FullQueueType DEF Enqueue, TypeOK, consumerVars, faults
  <2> QED BY <1>2, <2>1, <2>2, <2>3 DEF Enqueue
<1>3. ASSUME NEW r \in Record, SpoolWritten(r) PROVE TypeOK'
  BY <1>3, AppendQueue, CountsStay
     DEF SpoolWritten, TypeOK, Count, queueVars, consumerVars, ghosts, faults
<1>4. ASSUME NEW r \in Record, SpoolWriteFails(r) PROVE TypeOK'
  BY <1>4 DEF SpoolWriteFails, TypeOK, queueVars, consumerVars, ghosts, faults
<1>5. ASSUME NEW c \in Consumers, DequeueMemory(c) PROVE TypeOK'
  <2>1. /\ Tail(memory) \in Seq(Record) /\ Len(Tail(memory)) <= MaxQueue
        /\ Append(taken, Head(memory)) \in Seq(Record)
    <3>1. Tail(memory) \in Seq(Record) /\ Len(Tail(memory)) = Len(memory) - 1
          /\ Head(memory) \in Record
      BY <1>5, TailQueue DEF DequeueMemory, TypeOK
    <3>2. Len(memory) \in Nat
      BY LenProperties DEF TypeOK
    <3> QED BY <3>1, <3>2, AppendQueue DEF TypeOK, BackpressureAssumption
  <2> QED BY <1>5, <2>1, CountsStay
          DEF DequeueMemory, TypeOK, Count, spoolVars, consumerVars, ghosts, faults
<1>6. ASSUME NEW c \in Consumers, StartLoad(c) PROVE TypeOK'
  <2>1. Head(spool_files) \in Record
    BY <1>6, TailQueue DEF StartLoad, TypeOK
  <2> QED BY <1>6, <2>1 DEF StartLoad, TypeOK, Suspend, queueVars, spoolVars, ghosts, faults
<1>7. ASSUME NEW c \in Consumers, LoadDone(c) PROVE TypeOK'
  <2>1. Tail(spool_files) \in Seq(Record) /\ cfile[c] \in Record
    BY <1>7, TailQueue DEF LoadDone, PopsOwnFile, TypeOK
  <2>2. Append(taken, cfile[c]) \in Seq(Record)
    BY <2>1, AppendQueue DEF TypeOK
  <2> QED BY <1>7, <2>1, <2>2
          DEF LoadDone, TypeOK, Resume, Suspend, queueVars, ghosts, faults
<1>8. ASSUME NEW c \in Consumers, LoadFails(c) PROVE TypeOK'
  BY <1>8 DEF LoadFails, TypeOK, Resume, Suspend, queueVars, ghosts, faults
<1>9. ASSUME NEW c \in Consumers, MoveDone(c) PROVE TypeOK'
  <2>1. Tail(spool_files) \in Seq(Record)
    BY <1>9, TailQueue DEF MoveDone, PopsOwnFile, TypeOK
  <2> QED BY <1>9, <2>1, CountsStay
          DEF MoveDone, TypeOK, Count, Resume, Suspend, queueVars, ghosts, faults
<1>10. ASSUME NEW c \in Consumers, Cancel(c) PROVE TypeOK'
  <2>1. cancels' \in 0 .. MaxCancels /\ interrupted' \in BOOLEAN
    BY <1>10, <1>t DEF Cancel, TypeOK
  <2> QED BY <1>10, <2>1 DEF Cancel, TypeOK, Resume, Suspend, queueVars, spoolVars
<1>11. CASE Restart
  <2>1. restarts' \in 0 .. MaxRestarts
    BY <1>11, <1>t DEF Restart, TypeOK
  <2>2. memory' \in Seq(Record) /\ spool_files' \in Seq(Record) /\ Len(memory') <= MaxQueue
    BY <1>11, EmptySeq DEF Restart, BackpressureAssumption
  <2>3. metrics' \in [Metrics -> Nat]
    BY <1>11 DEF Restart
  <2> QED BY <1>11, <1>t, <2>1, <2>2, <2>3 DEF Restart, TypeOK
<1>12. CASE UNCHANGED vars
  BY <1>12 DEF TypeOK, vars, queueVars, spoolVars, consumerVars, ghosts, faults
<1> QED BY <1>1, <1>2, <1>3, <1>4, <1>5, <1>6, <1>7, <1>8, <1>9, <1>10, <1>11, <1>12
        DEF Next, Load
-----------------------------------------------------------------------------
(* Places.                                                                 *)

(* A step moves records between places; where a record is before says that *)
(* it is nowhere else, so that a queue it enters does not have it.         *)
LEMMA PlaceStep ==
  ASSUME TypeOK, PlaceInv, [Next]_vars PROVE PlaceInv'
<1> USE DEF Somewhere, Apart
<1>t. /\ memory \in Seq(Record) /\ taken \in Seq(Record) /\ next \in 1 .. NumRecords + 1
      /\ tasks \subseteq Record /\ writing \subseteq Record /\ disk \subseteq Record
      /\ dlq \subseteq Record /\ lost \subseteq Record
      /\ NoRepeats(memory) /\ NoRepeats(taken)
      /\ \A r \in Record : (r < next <=> Somewhere(r)) /\ Apart(r)
      /\ Elems(memory) \subseteq Record /\ Elems(taken) \subseteq Record
  BY ElemsInRecord DEF TypeOK, PlaceInv
<1>1. CASE OnRecord
  <2>1. /\ next \in Record /\ next' = next + 1
        /\ \A r \in Record : r < next' <=> r < next \/ r = next
    BY <1>1, <1>t, BackpressureAssumption DEF OnRecord, Record, BackpressureAssumption
  <2>2. ~Somewhere(next)
    BY <1>t, <2>1 DEF Record
  <2>3. CASE PutNowait(next) /\ UNCHANGED tasks
    <3>1. Elems(memory') = Elems(memory) \union {next} /\ NoRepeats(memory')
      BY <1>t, <2>1, <2>2, <2>3, AppendQueue DEF PutNowait
    <3> QED BY <1>1, <1>t, <2>1, <2>2, <2>3, <3>1 DEF OnRecord, PlaceInv, spoolVars
  <2>4. CASE tasks' = tasks \union {next} /\ UNCHANGED memory
    BY <1>1, <1>t, <2>1, <2>2, <2>4 DEF OnRecord, PlaceInv, spoolVars
  <2> QED BY <1>1, <2>3, <2>4 DEF OnRecord
<1>2. ASSUME NEW r \in Record, Enqueue(r) PROVE PlaceInv'
  <2>1. r \in tasks /\ r \notin Elems(memory) /\ tasks' = tasks \ {r}
        /\ UNCHANGED <<next, disk, dlq, taken>>
    BY <1>2, <1>t DEF Enqueue
  <2>2. CASE PutNowait(r) /\ UNCHANGED <<writing, lost>>
    <3>1. Elems(memory') = Elems(memory) \union {r} /\ NoRepeats(memory')
      BY <1>t, <2>1, <2>2, AppendQueue DEF PutNowait
    <3> QED BY <1>t, <2>1, <2>2, <3>1 DEF PlaceInv
  <2>3. CASE writing' = writing \union {r} /\ UNCHANGED <<memory, lost>>
    BY <1>t, <2>1, <2>3 DEF PlaceInv
  <2>4. CASE MemoryFull /\ HandleFullQueue(r) /\ UNCHANGED writing
    <3>1. CASE memory' = Append(Tail(memory), r) /\ lost' = lost \union {Head(memory)}
      <4>1. memory # << >>
        BY <2>4, FullQueueType, BackpressureAssumption
      <4>2. /\ Tail(memory) \in Seq(Record) /\ NoRepeats(Tail(memory))
            /\ Elems(Tail(memory)) = Elems(memory) \ {Head(memory)}
            /\ Head(memory) \in Elems(memory)
        BY <1>t, <4>1, TailQueue
      <4>3. /\ NoRepeats(memory')
            /\ Elems(memory') = (Elems(memory) \ {Head(memory)}) \union {r}
        BY <2>1, <3>1, <4>2, AppendQueue
      <4> QED BY <1>t, <2>1, <2>4, <3>1, <4>2, <4>3 DEF PlaceInv
    <3>2. CASE lost' = lost \union {r} /\ UNCHANGED memory
      BY <1>t, <2>1, <2>4, <3>2 DEF PlaceInv
    <3> QED BY <2>4, <3>1, <3>2 DEF HandleFullQueue
  <2> QED BY <1>2, <2>2, <2>3, <2>4 DEF Enqueue
<1>3. ASSUME NEW r \in Record, SpoolWritten(r) PROVE PlaceInv'
  BY <1>3, <1>t DEF SpoolWritten, PlaceInv, queueVars
<1>4. ASSUME NEW r \in Record, SpoolWriteFails(r) PROVE PlaceInv'
  BY <1>4, <1>t DEF SpoolWriteFails, PlaceInv, queueVars
<1>5. ASSUME NEW c \in Consumers, DequeueMemory(c) PROVE PlaceInv'
  <2>1. /\ Elems(memory') = Elems(memory) \ {Head(memory)} /\ NoRepeats(memory')
        /\ Head(memory) \in Elems(memory) /\ Head(memory) \in Record
    BY <1>5, <1>t, TailQueue DEF DequeueMemory
  <2>2. Elems(taken') = Elems(taken) \union {Head(memory)} /\ NoRepeats(taken')
    BY <1>5, <1>t, <2>1, AppendQueue DEF DequeueMemory
  <2> QED BY <1>5, <1>t, <2>1, <2>2 DEF DequeueMemory, PlaceInv, spoolVars
<1>6. ASSUME NEW c \in Consumers, StartLoad(c) PROVE PlaceInv'
  BY <1>6, <1>t DEF StartLoad, PlaceInv, queueVars, spoolVars
<1>7. ASSUME NEW c \in Consumers, LoadDone(c) PROVE PlaceInv'
  <2>1. Elems(taken') = Elems(taken) \union {cfile[c]} /\ NoRepeats(taken')
    BY <1>7, <1>t, AppendQueue DEF LoadDone
  <2> QED BY <1>7, <1>t, <2>1 DEF LoadDone, PlaceInv, queueVars
<1>8. ASSUME NEW c \in Consumers, LoadFails(c) PROVE PlaceInv'
  BY <1>8, <1>t DEF LoadFails, PlaceInv, queueVars
<1>9. ASSUME NEW c \in Consumers, MoveDone(c) \/ Cancel(c) PROVE PlaceInv'
  BY <1>9, <1>t DEF MoveDone, Cancel, PlaceInv, queueVars, spoolVars
<1>10. CASE Restart
  <2>1. Elems(memory') = {} /\ NoRepeats(memory')
    BY <1>10, EmptyQueue DEF Restart
  <2> QED BY <1>10, <1>t, <2>1 DEF Restart, PlaceInv
<1>11. CASE UNCHANGED vars
  BY <1>11, <1>t DEF PlaceInv, vars, queueVars, spoolVars
<1> QED BY <1>1, <1>2, <1>3, <1>4, <1>5, <1>6, <1>7, <1>8, <1>9, <1>10, <1>11 DEF Next, Load
-----------------------------------------------------------------------------
(* The spool.                                                              *)

(* "Only the first entry" said of the files rather than of their places.   *)
LEMMA ListForm ==
  ASSUME NEW s \in Seq(Record), NEW d, NEW q, NoRepeats(s)
  PROVE  (\A i \in DOMAIN s : s[i] \in d \/ (i = 1 /\ s[i] \in q))
           <=> \A x \in Elems(s) : x \in d \/ (x = Head(s) /\ x \in q)
<1>1. CASE s = << >>
  BY <1>1 DEF Elems
<1>2. CASE s # << >>
  <2>1. 1 \in DOMAIN s /\ Head(s) = s[1]
    BY <1>2, TailQueue
  <2>2. \A i \in DOMAIN s : s[i] = Head(s) <=> i = 1
    BY <2>1 DEF NoRepeats
  <2> QED BY <2>2 DEF Elems
<1> QED BY <1>1, <1>2

Listed ==
  /\ NoRepeats(spool_files)
  /\ \A x \in Elems(spool_files) : x \in disk \/ (x = Head(spool_files) /\ x \in dlq)
  /\ restarts = 0 => disk \subseteq Elems(spool_files)

(* The file that is read stays the first one until it is loaded or moved:  *)
(* others are appended behind it, and nobody else pops while it is there.  *)
LEMMA SpoolStep ==
  ASSUME TypeOK, TypeOK', PlaceInv, PlaceInv', SpoolInv, [Next]_vars
  PROVE  SpoolInv'
<1> USE DEF PopsOwnFile, FileInv, Wedged, Mover, WedgedOnlyByInterruption
<1>t. /\ spool_files \in Seq(Record) /\ spool_files' \in Seq(Record)
      /\ cpc \in [Consumers -> {"idle", "reading", "moving"}]
      /\ cfile \in [Consumers -> Record \union {0}]
      /\ disk \subseteq Record /\ dlq \subseteq Record /\ writing \subseteq Record
      /\ restarts \in Nat /\ Elems(taken) \subseteq Record
      /\ \A r \in Record : Apart(r)
      /\ PopsOwnFile /\ FileInv /\ WedgedOnlyByInterruption
  BY ElemsInRecord, BackpressureAssumption
     DEF TypeOK, PlaceInv, SpoolInv, BackpressureAssumption
<1>l. Listed
  <2>1. SpoolIndexed
    BY DEF SpoolInv
  <2> QED BY <1>t, <2>1, ListForm DEF SpoolIndexed, Listed
<1>s. Listed' => SpoolIndexed'
  BY <1>t, ListForm DEF SpoolIndexed, Listed
<1>h. \A x \in Elems(spool_files) : spool_files # << >> /\ Head(spool_files) \in Elems(spool_files)
  BY <1>t, EmptyQueue, TailQueue
<1> USE DEF SpoolInv, Apart
<1>1. ASSUME NEW r \in Record, SpoolWritten(r) PROVE SpoolInv'
  <2>1. r \notin Elems(spool_files) /\ r \notin disk /\ r \notin dlq /\ r \notin Elems(taken)
    BY <1>1, <1>t, <1>l DEF SpoolWritten, Listed
  <2>2. /\ NoRepeats(spool_files') /\ Elems(spool_files') = Elems(spool_files) \union {r}
        /\ spool_files' # << >>
        /\ spool_files # << >> => Head(spool_files') = Head(spool_files)
        /\ spool_files = << >> => Head(spool_files') = r
    BY <1>1, <1>t, <1>l, <2>1, AppendQueue DEF SpoolWritten, Listed
  <2>3. /\ disk' = disk \union {r}
        /\ UNCHANGED <<dlq, cpc, cfile, taken, interrupted, restarts>>
    BY <1>1 DEF SpoolWritten, consumerVars, ghosts, faults
  <2>4. Listed'
    BY <1>l, <1>h, <2>2, <2>3 DEF Listed
  <2>5. PopsOwnFile' /\ FileInv'
    BY <1>t, <2>1, <2>2, <2>3
  <2>6. WedgedOnlyByInterruption'
    BY <1>t, <2>1, <2>2, <2>3
  <2> QED BY <1>s, <2>4, <2>5, <2>6
<1>2. ASSUME NEW c \in Consumers, StartLoad(c) PROVE SpoolInv'
  <2> DEFINE x == Head(spool_files)
  <2>1. /\ cpc' = [cpc EXCEPT ![c] = "reading"] /\ cfile' = [cfile EXCEPT ![c] = x]
        /\ cpc[c] = "idle" /\ spool_files # << >>
        /\ UNCHANGED <<spool_files, disk, dlq, taken, interrupted, restarts>>
    BY <1>2 DEF StartLoad, Suspend, spoolVars, ghosts, faults
  <2>2. x \in disk \/ x \in dlq
    BY <1>t, <1>l, <2>1, TailQueue DEF Listed
  <2>3. Listed'
    BY <1>l, <2>1 DEF Listed
  <2>4. PopsOwnFile' /\ FileInv'
    BY <1>t, <2>1, <2>2
  <2>5. WedgedOnlyByInterruption'
    BY <1>t, <2>1
  <2> QED BY <1>s, <2>3, <2>4, <2>5
<1>3. ASSUME NEW c \in Consumers, LoadDone(c) PROVE SpoolInv'
  <2> DEFINE x == Head(spool_files)
  <2>1. /\ cpc' = [cpc EXCEPT ![c] = "idle"] /\ cfile' = [cfile EXCEPT ![c] = 0]
        /\ cpc[c] = "reading" /\ cfile[c] \in disk /\ cfile[c] = x /\ spool_files # << >>
        /\ disk' = disk \ {x} /\ spool_files' = Tail(spool_files) /\ taken' = Append(taken, x)
        /\ UNCHANGED <<dlq, interrupted, restarts>>
    BY <1>3, <1>t DEF LoadDone, Resume, Suspend, ghosts, faults
  <2>2. /\ NoRepeats(spool_files') /\ Elems(spool_files') = Elems(spool_files) \ {x}
        /\ x \in Record
    BY <1>t, <1>l, <2>1, TailQueue DEF Listed
  <2>3. Elems(taken') = Elems(taken) \union {x}
    BY <2>1, <2>2, AppendQueue DEF TypeOK
  <2>4. \A y \in Elems(spool_files') : y \in disk'
    BY <1>l, <2>1, <2>2 DEF Listed
  <2>5. Listed'
    BY <1>l, <2>1, <2>2, <2>4 DEF Listed
  <2>6. \A d \in Consumers : cpc[d] # "moving"
    BY <1>t, <2>1, <2>2
  <2>7. PopsOwnFile' /\ FileInv'
    BY <1>t, <2>1, <2>2, <2>3, <2>6
  <2>8. WedgedOnlyByInterruption'
    <3>1. spool_files' # << >> => Head(spool_files') \in disk' /\ Head(spool_files') \in Record
      BY <1>t, <2>4, TailQueue
    <3>2. spool_files' # << >> => Head(spool_files') \notin dlq'
      BY <1>t, <2>1, <3>1
    <3> QED BY <3>2
  <2> QED BY <1>s, <2>5, <2>7, <2>8
<1>4. ASSUME NEW c \in Consumers, LoadFails(c) PROVE SpoolInv'
  <2>1. CASE /\ cfile[c] \in disk /\ disk' = disk \ {cfile[c]} /\ dlq' = dlq \union {cfile[c]}
             /\ Suspend(c, "moving", cfile[c])
    <3> DEFINE x == Head(spool_files)
    <3>1. /\ cpc[c] = "reading" /\ cfile[c] = x /\ spool_files # << >> /\ x \in disk
          /\ disk' = disk \ {x} /\ dlq' = dlq \union {x}
          /\ cpc' = [cpc EXCEPT ![c] = "moving"] /\ cfile' = cfile
          /\ UNCHANGED <<spool_files, taken, interrupted, restarts>>
      BY <1>4, <1>t, <2>1 DEF LoadFails, Suspend, ghosts, faults
    <3>2. x \in Elems(spool_files)
      BY <1>t, <3>1, TailQueue
    <3>3. Listed'
      BY <1>l, <3>1, <3>2 DEF Listed
    <3>4. \A d \in Consumers : cpc[d] # "moving"
      BY <1>t, <3>1
    <3>5. PopsOwnFile' /\ FileInv'
      BY <1>t, <3>1, <3>4
    <3>6. WedgedOnlyByInterruption'
      BY <1>t, <3>1
    <3> QED BY <1>s, <3>3, <3>5, <3>6
  <2>2. CASE cfile[c] \notin disk /\ Resume(c) /\ UNCHANGED <<disk, dlq>>
    <3>1. /\ cpc[c] = "reading"
          /\ cpc' = [cpc EXCEPT ![c] = "idle"] /\ cfile' = [cfile EXCEPT ![c] = 0]
          /\ UNCHANGED <<disk, dlq, spool_files, taken, interrupted, restarts>>
      BY <1>4, <2>2 DEF LoadFails, Resume, Suspend, ghosts, faults
    <3>2. Listed' /\ PopsOwnFile' /\ FileInv' /\ WedgedOnlyByInterruption'
      BY <1>t, <1>l, <3>1 DEF Listed
    <3> QED BY <1>s, <3>2
  <2> QED BY <1>4, <2>1, <2>2 DEF LoadFails
<1>5. ASSUME NEW c \in Consumers, MoveDone(c) PROVE SpoolInv'
  <2> DEFINE x == Head(spool_files)
  <2>1. /\ cpc' = [cpc EXCEPT ![c] = "idle"] /\ cfile' = [cfile EXCEPT ![c] = 0]
        /\ cpc[c] = "moving" /\ cfile[c] = x /\ x \in dlq /\ spool_files # << >>
        /\ spool_files' = Tail(spool_files)
        /\ \A d \in Consumers : cpc[d] = "moving" => d = c
        /\ UNCHANGED <<disk, dlq, taken, interrupted, restarts>>
    BY <1>5, <1>t DEF MoveDone, Resume, Suspend, ghosts, faults
  <2>2. /\ NoRepeats(spool_files') /\ Elems(spool_files') = Elems(spool_files) \ {x}
        /\ x \in Record
    BY <1>t, <1>l, <2>1, TailQueue DEF Listed
  <2>3. x \notin disk
    BY <1>t, <2>1, <2>2
  <2>4. \A y \in Elems(spool_files') : y \in disk'
    BY <1>l, <2>1, <2>2 DEF Listed
  <2>5. Listed'
    BY <1>l, <2>1, <2>2, <2>3, <2>4 DEF Listed
  <2>6. PopsOwnFile' /\ FileInv'
    BY <1>t, <2>1, <2>3
  <2>7. WedgedOnlyByInterruption'
    <3>1. spool_files' # << >> => Head(spool_files') \in disk' /\ Head(spool_files') \in Record
      BY <1>t, <2>4, TailQueue
    <3>2. spool_files' # << >> => Head(spool_files') \notin dlq'
      BY <1>t, <2>1, <3>1
    <3> QED BY <3>2
  <2> QED BY <1>s, <2>5, <2>6, <2>7
<1>6. ASSUME NEW c \in Consumers, Cancel(c) PROVE SpoolInv'
  <2>1. /\ cpc' = [cpc EXCEPT ![c] = "idle"] /\ cfile' = [cfile EXCEPT ![c] = 0]
        /\ interrupted' = (interrupted \/ cpc[c] = "moving")
        /\ UNCHANGED <<spool_files, disk, dlq, taken, restarts>>
    BY <1>6 DEF Cancel, Resume, Suspend, spoolVars
  <2>2. Listed' /\ PopsOwnFile' /\ FileInv'
    BY <1>t, <1>l, <2>1 DEF Listed
  <2>3. WedgedOnlyByInterruption'
    BY <1>t, <2>1
  <2> QED BY <1>s, <2>2, <2>3
<1>7. CASE Restart
  <2>1. /\ spool_files' = << >> /\ restarts' # 0
        /\ \A c \in Consumers : cpc'[c] = "idle"
    BY <1>7, <1>t DEF Restart
  <2>2. Listed' /\ PopsOwnFile' /\ FileInv' /\ WedgedOnlyByInterruption'
    BY <2>1, EmptyQueue DEF Listed
  <2> QED BY <1>s, <2>2
<1>8. ASSUME UNCHANGED <<spool_files, disk, dlq, cpc, cfile, interrupted, restarts>>,
             Elems(taken) \subseteq Elems(taken')
      PROVE  SpoolInv'
  <2>1. Listed' /\ PopsOwnFile' /\ FileInv' /\ WedgedOnlyByInterruption'
    BY <1>t, <1>l, <1>8 DEF Listed
  <2> QED BY <1>s, <2>1
<1>9. ASSUME NEW c \in Consumers, DequeueMemory(c) PROVE SpoolInv'
  <2>1. Head(memory) \in Record
    BY <1>9, TailQueue DEF DequeueMemory, TypeOK
  <2>2. Elems(taken) \subseteq Elems(taken')
    BY <1>9, <2>1, AppendQueue DEF DequeueMemory, TypeOK
  <2> QED BY <1>8, <1>9, <2>2 DEF DequeueMemory, spoolVars, consumerVars, ghosts, faults
<1>10. CASE OnRecord \/ (\E r \in Record : Enqueue(r) \/ SpoolWriteFails(r)) \/ UNCHANGED vars
  BY <1>8, <1>10 DEF OnRecord, Enqueue, SpoolWriteFails, vars, spoolVars, consumerVars,
     ghosts, faults
<1> QED BY <1>1, <1>2, <1>3, <1>4, <1>5, <1>6, <1>7, <1>9, <1>10 DEF Next, Load
-----------------------------------------------------------------------------
(* The size of the spool.                                                  *)

(* Room was seen by every task that writes, and files only take the place  *)
(* of tasks that write; so the most tasks at once bound the overshoot.     *)
LEMMA OvershootStep ==
  ASSUME TypeOK, TypeOK', PlaceInv, OvershootBounded, [Next]_vars
  PROVE  OvershootBounded'
<1> DEFINE S == disk \union dlq
<1>t. /\ S \subseteq Record /\ S' \subseteq Record
      /\ writing \subseteq Record /\ writing' \subseteq Record
      /\ peak \in Nat /\ peak' \in Nat /\ MaxSpool \in Nat
  BY BackpressureAssumption DEF TypeOK, BackpressureAssumption
<1>n. /\ IsFiniteSet(S) /\ Cardinality(S) \in Nat
      /\ IsFiniteSet(S') /\ Cardinality(S') \in Nat
      /\ IsFiniteSet(writing) /\ Cardinality(writing) \in Nat
      /\ IsFiniteSet(writing') /\ Cardinality(writing') \in Nat
  BY <1>t, FiniteRecords
<1>z. SpoolSize = Cardinality(S) /\ SpoolSize' = Cardinality(S')
  BY DEF SpoolSize
<1> HIDE DEF S
<1>s. \A r \in writing : Cardinality(writing \ {r}) = Cardinality(writing) - 1
  BY <1>n, FS_RemoveElement
<1>1. ASSUME S' = S, writing' = writing, peak' = peak PROVE OvershootBounded'
  BY <1>1, <1>z DEF OvershootBounded
<1>2. ASSUME NEW r \in Record, Enqueue(r) PROVE OvershootBounded'
  <2>1. S' = S
    BY <1>2 DEF Enqueue, S
  <2>2. CASE UNCHANGED <<writing, peak>>
    BY <1>1, <2>1, <2>2
  <2>3. CASE /\ SpoolHasRoom /\ writing' = writing \union {r}
             /\ peak' = IF Cardinality(writing') > peak THEN Cardinality(writing') ELSE peak
    <3>1. Cardinality(writing') # 0
      BY <1>n, <2>3, FS_EmptySet
    <3>2. Cardinality(S) < MaxSpool
      BY <1>z, <2>3 DEF SpoolHasRoom
    <3> QED BY <1>n, <1>t, <1>z, <2>1, <2>3, <3>1, <3>2 DEF OvershootBounded
  <2> QED BY <1>2, <2>2, <2>3 DEF Enqueue
<1>3. ASSUME NEW r \in Record, SpoolWritten(r) PROVE OvershootBounded'
  <2>1. /\ r \in writing /\ writing' = writing \ {r} /\ S' = S \union {r} /\ peak' = peak
    BY <1>3 DEF SpoolWritten, ghosts, S
  <2>2. r \notin S
    BY <2>1 DEF PlaceInv, Apart, S
  <2>3. Cardinality(S') = Cardinality(S) + 1
    BY <1>n, <2>1, <2>2, FS_AddElement
  <2> QED BY <1>n, <1>s, <1>t, <1>z, <2>1, <2>3 DEF OvershootBounded
<1>4. ASSUME S' \subseteq S, writing' \subseteq writing, peak' = peak
      PROVE  OvershootBounded'
  <2>1. /\ Cardinality(S') <= Cardinality(S)
        /\ Cardinality(writing') <= Cardinality(writing)
    BY <1>4, <1>n, FS_Subset
  <2> QED BY <1>4, <1>n, <1>t, <1>z, <2>1 DEF OvershootBounded
<1>5. ASSUME NEW c \in Consumers, LoadDone(c) \/ LoadFails(c) PROVE OvershootBounded'
  <2>1. S' \subseteq S /\ writing' \subseteq writing /\ peak' = peak
    BY <1>5 DEF LoadDone, LoadFails, ghosts, S
  <2> QED BY <1>4, <2>1
<1>6. CASE \/ OnRecord \/ (\E r \in Record : SpoolWriteFails(r)) \/ Restart
           \/ UNCHANGED vars
           \/ \E c \in Consumers : DequeueMemory(c) \/ StartLoad(c) \/ MoveDone(c) \/ Cancel(c)
  <2>1. S' \subseteq S /\ writing' \subseteq writing /\ peak' = peak
    BY <1>6 DEF OnRecord, SpoolWriteFails, Restart, DequeueMemory, StartLoad, MoveDone,
       Cancel, vars, spoolVars, ghosts, S
  <2> QED BY <1>4, <2>1
<1> QED BY <1>2, <1>3, <1>5, <1>6 DEF Next, Load
-----------------------------------------------------------------------------
(* The invariant, and the properties it gives.                             *)

(* Where records are, as the runs say it. *)
LEMMA PlacesSaid ==
  ASSUME TypeOK, PlaceInv PROVE OnePlace
<1>1. next \in 1 .. NumRecords + 1 /\ NumRecords \in Nat
  BY BackpressureAssumption DEF TypeOK, BackpressureAssumption
<1>2. /\ Elems(memory) \subseteq Record /\ Elems(taken) \subseteq Record
      /\ tasks \subseteq Record /\ writing \subseteq Record /\ disk \subseteq Record
      /\ dlq \subseteq Record /\ lost \subseteq Record
  BY ElemsInRecord DEF TypeOK
<1>3. /\ DOMAIN Places = 1 .. 7
      /\ Places[1] = tasks /\ Places[2] = Elems(memory) /\ Places[3] = writing
      /\ Places[4] = disk /\ Places[5] = dlq /\ Places[6] = Elems(taken)
      /\ Places[7] = lost
  BY DEF Places
<1>4. \A r \in 1 .. next - 1 : \E p \in DOMAIN Places : r \in Places[p]
  <2> SUFFICES ASSUME NEW r \in 1 .. next - 1
               PROVE  \E p \in 1 .. 7 : r \in Places[p]
    BY <1>3
  <2>1. r \in Record /\ r < next
    BY <1>1 DEF Record
  <2>2. Somewhere(r)
    BY <2>1 DEF PlaceInv
  <2> QED BY <1>3, <2>2 DEF Somewhere
<1>5. \A p, q \in DOMAIN Places : p # q => Places[p] \intersect Places[q] = {}
  <2> SUFFICES ASSUME NEW p \in 1 .. 7, NEW q \in 1 .. 7, p # q,
                      NEW r, r \in Places[p], r \in Places[q]
               PROVE  FALSE
    BY <1>3
  <2>1. p \in {1, 2, 3, 4, 5, 6, 7} /\ q \in {1, 2, 3, 4, 5, 6, 7}
    OBVIOUS
  <2>2. r \in Record
    BY <1>2, <1>3, <2>1
  <2>3. Apart(r)
    BY <2>2 DEF PlaceInv
  <2> QED BY <1>3, <2>1, <2>3 DEF Apart
<1> QED BY <1>4, <1>5 DEF OnePlace, PlaceInv

LEMMA InvariantInit == Init => IInv
<1> SUFFICES ASSUME Init PROVE IInv
  OBVIOUS
<1>1. TypeOK
  <2>1. drop_policy \in DropPolicies /\ next \in 1 .. NumRecords + 1
        /\ Len(memory) <= MaxQueue /\ cancels \in 0 .. MaxCancels
        /\ restarts \in 0 .. MaxRestarts
    BY EmptySeq, BackpressureAssumption DEF Init, BackpressureAssumption
  <2> QED BY <2>1, EmptyQueue DEF Init, TypeOK
<1>2. PlaceInv
  BY EmptyQueue DEF Init, PlaceInv, Somewhere, Apart, Record
<1>3. SpoolInv
  BY EmptyQueue DEF Init, SpoolInv, SpoolIndexed, PopsOwnFile, WedgedOnlyByInterruption,
     Wedged, Mover, FileInv
<1>4. OvershootBounded
  BY FS_EmptySet DEF Init, OvershootBounded, SpoolSize
<1> QED BY <1>1, <1>2, <1>3, <1>4 DEF IInv

LEMMA InvariantStep ==
  ASSUME IInv, [Next]_vars PROVE IInv'
<1>1. TypeOK'
  BY TypeStep DEF IInv, SpoolInv
<1>2. PlaceInv'
  BY PlaceStep DEF IInv
<1> QED BY <1>1, <1>2, SpoolStep, OvershootStep DEF IInv

(* What a reachable state of the manager has.                              *)
THEOREM BackpressureInvariant == Spec => []IInv
BY InvariantInit, InvariantStep, PTL DEF Spec

(* No record is lost without trace or handled twice, and the list of spool *)
(* files stays in step with the directory, through racing reads, failed    *)
(* moves and restarts (enqueue, dequeue, _load_from_spool, _move_to_dlq).  *)
THEOREM SpoolCorrect == Spec => []SpoolSound
<1>1. IInv => SpoolSound
  BY PlacesSaid DEF IInv, SpoolInv, SpoolSound
<1> QED BY <1>1, BackpressureInvariant, PTL

(* The size limit, checked before the write and not reserved, is exceeded  *)
(* by less than the number of tasks that wrote at once (enqueue).          *)
THEOREM OvershootIsBounded == Spec => []OvershootBounded
<1>1. IInv => OvershootBounded
  BY DEF IInv
<1> QED BY <1>1, BackpressureInvariant, PTL
-----------------------------------------------------------------------------
(* The manager as a RecordBuffer.                                          *)

(* What a step does to the fates, as a step of the buffer. *)
LEMMA BufferMoves ==
  /\ (\A r \in Record : Fate(r)' = Fate(r)) => UNCHANGED [r \in Record |-> Fate(r)]
  /\ \A x \in Record :
       Fate(x) = "new" /\ Fate(x)' = "held" /\ (\A r \in Record \ {x} : Fate(r)' = Fate(r))
         => Buffer!Arrive(x)
  /\ \A x \in Record :
       Fate(x) = "held" /\ Fate(x)' = "taken" /\ (\A r \in Record \ {x} : Fate(r)' = Fate(r))
         => Buffer!Take(x)
  /\ \A x \in Record :
       Fate(x) = "held" /\ Fate(x)' = "given_up" /\ (\A r \in Record \ {x} : Fate(r)' = Fate(r))
         => Buffer!GiveUp({x})
  /\ \A S \in SUBSET Record :
       (\A r \in S : Fate(r) = "held" /\ Fate(r)' = "given_up")
         /\ (\A r \in Record \ S : Fate(r)' = Fate(r))
         => Buffer!GiveUp(S)
BY DEF Buffer!Arrive, Buffer!Take, Buffer!GiveUp

(* Every step of the manager is a step of the buffer, or none: a record is *)
(* handed out once, and nothing brings one back that was given up.         *)
LEMMA RefinementStep ==
  ASSUME IInv, [Next]_vars
  PROVE  [Buffer!Next]_([r \in Record |-> Fate(r)])
<1>t. /\ memory \in Seq(Record) /\ taken \in Seq(Record) /\ spool_files \in Seq(Record)
      /\ next \in 1 .. NumRecords + 1 /\ NumRecords \in Nat
      /\ writing \subseteq Record /\ disk \subseteq Record /\ dlq \subseteq Record
      /\ tasks \subseteq Record /\ lost \subseteq Record
      /\ NoRepeats(memory) /\ NoRepeats(taken)
      /\ Elems(memory) \subseteq Record /\ Elems(taken) \subseteq Record
      /\ PopsOwnFile /\ FileInv
  BY ElemsInRecord, BackpressureAssumption
     DEF IInv, TypeOK, PlaceInv, SpoolInv, BackpressureAssumption
<1>p. \A r \in Record : (r < next <=> Somewhere(r)) /\ Apart(r)
  BY DEF IInv, PlaceInv
<1>l. Listed
  <2>1. SpoolIndexed
    BY DEF IInv, SpoolInv
  <2> QED BY <1>t, <2>1, ListForm DEF SpoolIndexed, Listed
<1>n. \A r \in Record : r >= next <=> ~(r < next)
  BY <1>t DEF Record
<1>f. \A r \in Record :
        Fate(r) = IF ~Somewhere(r) THEN "new"
                  ELSE IF r \in Elems(taken) THEN "taken"
                  ELSE IF r \in lost \/ r \in dlq \/ (r \in disk /\ r \notin Elems(spool_files))
                  THEN "given_up" ELSE "held"
  BY <1>n, <1>p DEF Fate, GivenUp
<1>g. ASSUME UNCHANGED next
      PROVE  \A r \in Record :
               Fate(r)' = IF ~Somewhere(r) THEN "new"
                          ELSE IF r \in Elems(taken') THEN "taken"
                          ELSE IF \/ r \in lost' \/ r \in dlq'
                                  \/ (r \in disk' /\ r \notin Elems(spool_files'))
                          THEN "given_up" ELSE "held"
  BY <1>g, <1>n, <1>p DEF Fate, GivenUp
<1> DEFINE Same == \A r \in Record : Fate(r)' = Fate(r)
           GivesUp(x) == /\ x \in Record /\ Fate(x) = "held" /\ Fate(x)' = "given_up"
                         /\ \A r \in Record \ {x} : Fate(r)' = Fate(r)
           Takes(x) == /\ x \in Record /\ Fate(x) = "held" /\ Fate(x)' = "taken"
                       /\ \A r \in Record \ {x} : Fate(r)' = Fate(r)
           Goal == [Buffer!Next]_([r \in Record |-> Fate(r)])
<1>b. /\ Same => Goal
      /\ \A x : GivesUp(x) => Goal
      /\ \A x : Takes(x) => Goal
  <2>1. Same => UNCHANGED [r \in Record |-> Fate(r)]
    BY BufferMoves
  <2>2. ASSUME NEW x, GivesUp(x) PROVE Buffer!Next
    <3>1. Buffer!GiveUp({x}) /\ {x} \in SUBSET Record
      BY <2>2, BufferMoves
    <3> QED BY <3>1 DEF Buffer!Next
  <2>3. ASSUME NEW x, Takes(x) PROVE Buffer!Next
    <3>1. Buffer!Take(x) /\ x \in Record
      BY <2>3, BufferMoves
    <3> QED BY <3>1 DEF Buffer!Next
  <2> QED BY <2>1, <2>2, <2>3
<1> HIDE DEF Goal, Same, GivesUp, Takes
<1> SUFFICES Goal
  BY DEF Goal
<1>0. CASE UNCHANGED <<next, taken, lost, disk, dlq, spool_files>>
  <2>1. Same
    BY <1>0, <1>f, <1>g DEF Same
  <2> QED BY <1>b, <2>1
<1>1. CASE OnRecord
  <2>1. PICK x \in Record : x = next
    BY <1>1, <1>t DEF OnRecord, Record
  <2>2. ~(x < next) /\ next' = x + 1
    BY <1>1, <2>1 DEF OnRecord, Record
  <2>3. /\ ~(x >= next')
        /\ \A r \in Record \ {x} : r >= next' <=> r >= next
    BY <2>1, <2>2 DEF Record
  <2>4. ~Somewhere(x)
    BY <1>p, <2>2
  <2>5. UNCHANGED <<taken, lost, disk, dlq, spool_files>>
    BY <1>1 DEF OnRecord, spoolVars
  <2>6. Fate(x) = "new"
    BY <1>f, <2>4
  <2>7. Fate(x)' = "held"
    BY <2>3, <2>4, <2>5 DEF Fate, GivenUp, Somewhere
  <2>8. \A r \in Record \ {x} : Fate(r)' = Fate(r)
    BY <2>3, <2>5 DEF Fate, GivenUp
  <2>9. Buffer!Arrive(x)
    BY <2>6, <2>7, <2>8, BufferMoves
  <2> QED BY <2>9 DEF Buffer!Next, Goal
<1>2. ASSUME NEW r \in Record, Enqueue(r) PROVE Goal
  <2>1. CASE UNCHANGED lost
    BY <1>0, <1>2, <2>1 DEF Enqueue
  <2>2. CASE MemoryFull /\ HandleFullQueue(r) /\ ~ UNCHANGED lost
    <3>1. memory # << >> => Head(memory) \in Elems(memory)
      BY <1>t, TailQueue
    <3>2. memory # << >>
      BY <2>2, FullQueueType, BackpressureAssumption DEF IInv
    <3>3. PICK x \in {r, Head(memory)} : lost' = lost \union {x}
      BY <2>2 DEF HandleFullQueue
    <3>4. x \in tasks \/ x \in Elems(memory)
      BY <1>2, <3>1, <3>2, <3>3 DEF Enqueue
    <3>5. x \in Record /\ Somewhere(x) /\ Apart(x)
      BY <1>p, <1>t, <3>4 DEF Somewhere
    <3>6. UNCHANGED <<next, taken, disk, dlq, spool_files>>
      BY <1>2 DEF Enqueue
    <3>7. GivesUp(x)
      BY <1>f, <1>g, <3>3, <3>4, <3>5, <3>6 DEF GivesUp, Apart
    <3> QED BY <1>b, <3>7
  <2> QED BY <1>2, <2>1, <2>2 DEF Enqueue
<1>3. ASSUME NEW r \in Record, SpoolWritten(r) PROVE Goal
  <2>1. /\ r \in writing /\ disk' = disk \union {r} /\ spool_files' = Append(spool_files, r)
        /\ UNCHANGED <<next, taken, lost, dlq>>
    BY <1>3 DEF SpoolWritten, queueVars
  <2>2. Elems(spool_files') = Elems(spool_files) \union {r}
    BY <1>t, <2>1, AppendQueue
  <2>3. Same
    BY <1>f, <1>g, <1>p, <2>1, <2>2 DEF Same, Apart
  <2> QED BY <1>b, <2>3
<1>4. ASSUME NEW r \in Record, SpoolWriteFails(r) PROVE Goal
  <2>1. /\ r \in writing /\ lost' = lost \union {r}
        /\ UNCHANGED <<next, taken, disk, dlq, spool_files>>
    BY <1>4 DEF SpoolWriteFails, queueVars
  <2>2. Somewhere(r) /\ Apart(r)
    BY <1>p, <2>1 DEF Somewhere
  <2>3. GivesUp(r)
    BY <1>f, <1>g, <2>1, <2>2 DEF GivesUp, Apart
  <2> QED BY <1>b, <2>3
<1>5. ASSUME NEW c \in Consumers, DequeueMemory(c) PROVE Goal
  <2>0. memory # << >>
    BY <1>5 DEF DequeueMemory
  <2>1. PICK x \in Elems(memory) : x = Head(memory) /\ x \in Record
    BY <1>t, <2>0, TailQueue
  <2>2. taken' = Append(taken, x) /\ UNCHANGED <<next, lost, disk, dlq, spool_files>>
    BY <1>5, <2>1 DEF DequeueMemory, spoolVars
  <2>3. Elems(taken') = Elems(taken) \union {x}
    BY <1>t, <2>1, <2>2, AppendQueue
  <2>4. Somewhere(x) /\ Apart(x)
    BY <1>p, <2>1 DEF Somewhere
  <2>5. Takes(x)
    BY <1>f, <1>g, <2>1, <2>2, <2>3, <2>4 DEF Takes, Apart
  <2> QED BY <1>b, <2>5
<1>6. ASSUME NEW c \in Consumers, LoadDone(c) PROVE Goal
  <2>0. PICK x \in Record : x = cfile[c] /\ x \in disk
    BY <1>6, <1>t DEF LoadDone
  <2>1. /\ x \in disk /\ x \in Record /\ spool_files # << >> /\ Head(spool_files) = x
        /\ disk' = disk \ {x} /\ spool_files' = Tail(spool_files) /\ taken' = Append(taken, x)
        /\ UNCHANGED <<next, lost, dlq>>
    BY <1>6, <1>t, <2>0 DEF LoadDone, PopsOwnFile, queueVars
  <2>2. x \in Elems(spool_files) /\ Elems(spool_files') = Elems(spool_files) \ {x}
    BY <1>t, <1>l, <2>1, TailQueue DEF Listed
  <2>3. Elems(taken') = Elems(taken) \union {x}
    BY <1>t, <2>1, AppendQueue
  <2>4. Somewhere(x) /\ Apart(x)
    BY <1>p, <2>1 DEF Somewhere
  <2>5. Takes(x)
    BY <1>f, <1>g, <2>1, <2>2, <2>3, <2>4 DEF Takes, Apart
  <2> QED BY <1>b, <2>5
<1>7. ASSUME NEW c \in Consumers, LoadFails(c) PROVE Goal
  <2>1. CASE UNCHANGED <<disk, dlq>>
    BY <1>0, <1>7, <2>1 DEF LoadFails, queueVars
  <2>2. CASE cfile[c] \in disk /\ disk' = disk \ {cfile[c]} /\ dlq' = dlq \union {cfile[c]}
    <3>0. PICK x \in Record : x = cfile[c] /\ x \in disk
      BY <1>t, <2>2
    <3>1. /\ x \in disk /\ x \in Record /\ spool_files # << >> /\ Head(spool_files) = x
          /\ disk' = disk \ {x} /\ dlq' = dlq \union {x}
          /\ UNCHANGED <<next, lost, taken, spool_files>>
      BY <1>7, <1>t, <2>2, <3>0 DEF LoadFails, PopsOwnFile, queueVars
    <3>2. x \in Elems(spool_files)
      BY <1>t, <3>1, TailQueue
    <3>3. Somewhere(x) /\ Apart(x)
      BY <1>p, <3>1 DEF Somewhere
    <3>4. GivesUp(x)
      BY <1>f, <1>g, <3>1, <3>2, <3>3 DEF GivesUp, Apart
    <3> QED BY <1>b, <3>4
  <2> QED BY <1>7, <2>1, <2>2 DEF LoadFails
<1>8. ASSUME NEW c \in Consumers, MoveDone(c) PROVE Goal
  <2>1. /\ spool_files # << >> /\ Head(spool_files) \in dlq
        /\ spool_files' = Tail(spool_files)
        /\ UNCHANGED <<next, taken, lost, disk, dlq>>
    BY <1>8, <1>t DEF MoveDone, PopsOwnFile, FileInv, queueVars
  <2>2. Elems(spool_files') = Elems(spool_files) \ {Head(spool_files)}
    BY <1>t, <1>l, <2>1, TailQueue DEF Listed
  <2>3. Same
    BY <1>f, <1>g, <1>p, <2>1, <2>2 DEF Same, Apart
  <2> QED BY <1>b, <2>3
<1>9. CASE Restart
  <2> DEFINE S == {r \in Record : Fate(r) = "held"}
  <2>1. /\ spool_files' = << >> /\ Elems(spool_files') = {}
        /\ lost' = lost \union Elems(memory) \union tasks \union writing
        /\ UNCHANGED <<next, taken, disk, dlq>>
    BY <1>9, EmptyQueue DEF Restart
  <2>2. \A r \in Record : Fate(r) = "held" => Fate(r)' = "given_up"
    BY <1>f, <1>g, <2>1 DEF Somewhere
  <2>3. \A r \in Record : Fate(r) # "held" => Fate(r)' = Fate(r)
    BY <1>f, <1>g, <1>p, <2>1 DEF Apart
  <2>4. Buffer!GiveUp(S) /\ S \in SUBSET Record
    BY <2>2, <2>3, BufferMoves
  <2> HIDE DEF S
  <2> QED BY <2>4 DEF Buffer!Next, Goal
<1>10. CASE (\E c \in Consumers : StartLoad(c) \/ Cancel(c)) \/ UNCHANGED vars
  BY <1>0, <1>10 DEF StartLoad, Cancel, vars, queueVars, spoolVars
<1> QED BY <1>1, <1>2, <1>3, <1>4, <1>5, <1>6, <1>7, <1>8, <1>9, <1>10 DEF Next, Load

(* The manager implements the buffer: whatever the queue, the spool and    *)
(* the consumers do, a record is returned by dequeue() at most once, and   *)
(* never after it was dropped, refused, moved to the DLQ or forgotten.     *)
THEOREM BackpressureImplementsBuffer == Spec => ImplementsBuffer
<1>1. Init => Buffer!Init
  BY DEF Init, Buffer!Init, Fate, Record
<1>2. Spec => Buffer!Init /\ [][Buffer!Next]_([r \in Record |-> Fate(r)])
  BY <1>1, BackpressureInvariant, RefinementStep, PTL DEF Spec
<1> QED BY <1>2, PTL DEF ImplementsBuffer, Buffer!Spec

------------------------------------------------------------------------------
(* SourceControl                                                           *)

(* A request that joins a task holds a cancelled one, and until its source *)
(* is started again the table can only have been emptied of that task.     *)
Joining(h) ==
  /\ req[h].task \in cancelled
  /\ req[h].name \notin raced => client_tasks[req[h].name] \in {0, req[h].task}

JoinInv == \A h \in Requests : req[h].at = "join" => Joining(h)

SourceInv == SourcesSound /\ JoinInv

Request == [op : Operations, name : Names, at : {"disconnect", "join"}, task : 0 .. MaxTasks]
-----------------------------------------------------------------------------
(* Every task was started for a source. *)
LEMMA SourcesHaveNames ==
  ASSUME SourceTypeOK
  PROVE  \A k \in DOMAIN source_of : source_of[k] \in Names /\ k # 0
<1>1. PICK i \in 0 .. MaxTasks : source_of \in [1 .. i -> Names]
  BY DEF SourceTypeOK
<1> QED BY <1>1

(* The number of a new task has not been used. *)
LEMMA FreshIsNew ==
  ASSUME SourceAssumption, SourceTypeOK, \E k \in Task : k \notin DOMAIN source_of
  PROVE  /\ Fresh \in Task /\ Fresh \notin DOMAIN source_of
         /\ \E i \in 0 .. MaxTasks : DOMAIN source_of \union {Fresh} = 1 .. i
<1>1. PICK i \in 0 .. MaxTasks : source_of \in [1 .. i -> Names]
  BY DEF SourceTypeOK
<1>2. i \in Nat /\ i + 1 \in Task
  BY <1>1, SourceAssumption DEF SourceAssumption, Task
<1>3. i + 1 \notin DOMAIN source_of /\ \A j \in 1 .. i : j \in DOMAIN source_of
  BY <1>1, <1>2
<1>4. \E k \in Task : k \notin DOMAIN source_of /\ \A j \in 1 .. k - 1 : j \in DOMAIN source_of
  BY <1>2, <1>3
<1>5. Fresh \in Task /\ Fresh \notin DOMAIN source_of /\ \A j \in 1 .. Fresh - 1 : j \in DOMAIN source_of
  BY <1>4 DEF Fresh
<1>6. Fresh = i + 1
  BY <1>1, <1>2, <1>5, SourceAssumption DEF Task, SourceAssumption
<1> QED BY <1>1, <1>2, <1>5, <1>6 DEF Task

(* _start_client leaves a task that the table has, and tables that agree.  *)
LEMMA ClientIsEntered ==
  ASSUME SourceAssumption, SourceTypeOK, NEW n \in Names, NEW configs, NEW left,
         left \in [Names -> 0 .. MaxTasks], StartClient(n, configs, left, left)
  PROVE  /\ clients' = [left EXCEPT ![n] = Fresh] /\ client_tasks' = clients'
         /\ clients' \in [Names -> 0 .. MaxTasks]
         /\ source_of' \in UNION {[1 .. i -> Names] : i \in 0 .. MaxTasks}
         /\ DOMAIN source_of' = DOMAIN source_of \union {Fresh}
         /\ \A k \in DOMAIN source_of : source_of'[k] = source_of[k]
         /\ source_of'[Fresh] = n
         /\ running' = running \union {Fresh} /\ sources' = configs
         /\ Fresh \in Task /\ Fresh \notin DOMAIN source_of
         /\ raced \subseteq raced' /\ raced' \subseteq Names
         /\ \A g \in Requests : req'[g].at = "join" /\ req'[g].name = n => n \in raced'
<1>1. Fresh \in Task /\ Fresh \notin DOMAIN source_of
  BY FreshIsNew DEF StartClient
<1>2. PICK i \in 0 .. MaxTasks : DOMAIN source_of \union {Fresh} = 1 .. i
  BY FreshIsNew DEF StartClient
<1>3. \A k \in DOMAIN source_of : source_of[k] \in Names
  BY SourcesHaveNames
<1>4. source_of' \in [1 .. i -> Names]
  BY <1>1, <1>2, <1>3 DEF StartClient
<1>5. clients' \in [Names -> 0 .. MaxTasks] /\ client_tasks' = clients'
  BY <1>1, SourceAssumption DEF StartClient, Task, SourceAssumption
<1>6. /\ raced \subseteq raced' /\ raced' \subseteq Names
      /\ \A g \in Requests : req'[g].at = "join" /\ req'[g].name = n => n \in raced'
  BY DEF StartClient, SourceTypeOK
<1> QED BY <1>1, <1>2, <1>4, <1>5, <1>6 DEF StartClient

(* A request ends by emptying the row of its source; an update may also    *)
(* start a client in a row that is empty then.                             *)
LEMMA FinishCases ==
  ASSUME SourceAssumption, SourceTypeOK, TablesAgree,
         NEW h \in Requests, req[h] \in Request, Finish(h)
  PROVE  LET n == req[h].name
             left == [clients EXCEPT ![n] = 0]
         IN  /\ req' = [req EXCEPT ![h] = Idle]
             /\ \/ /\ clients' = left /\ client_tasks' = left
                   /\ sources' \in {sources, [sources EXCEPT ![n] = 0]}
                   /\ UNCHANGED <<source_of, running, raced>>
                \/ \E m \in Names, configs \in [Names -> 0 .. MaxConfigs] :
                     /\ left[m] = 0 /\ configs[m] > 0
                     /\ \A o \in Names \ {n, m} : configs[o] = sources[o]
                     /\ req[h].op = "update"
                     /\ StartClient(m, configs, left, left)
<1> DEFINE n == req[h].name
           left == [clients EXCEPT ![n] = 0]
<1>1. n \in Names /\ clients \in [Names -> 0 .. MaxTasks] /\ sources \in [Names -> 0 .. MaxConfigs]
      /\ client_tasks = clients
  BY DEF SourceTypeOK, TablesAgree, Request
<1>2. CASE FinishStop(h)
  BY <1>1, <1>2 DEF FinishStop
<1>3. CASE FinishRemove(h)
  <2>1. CASE clients[n] = 0 /\ UNCHANGED <<sources, clients, source_of, running, raced>>
             /\ client_tasks' = [client_tasks EXCEPT ![n] = 0]
    <3>1. left = clients
      BY <1>1, <2>1
    <3> QED BY <1>1, <1>3, <2>1, <3>1 DEF FinishRemove
  <2>2. CASE /\ sources' = [sources EXCEPT ![n] = 0] /\ clients' = left
             /\ client_tasks' = [client_tasks EXCEPT ![n] = 0]
             /\ UNCHANGED <<source_of, running, raced>>
    BY <1>1, <1>3, <2>2 DEF FinishRemove
  <2>3. CASE /\ req[h].op = "update"
             /\ \E m \in Names :
                  /\ left[m] = 0 /\ [sources EXCEPT ![n] = 0][m] < MaxConfigs
                  /\ StartClient(m, [[sources EXCEPT ![n] = 0] EXCEPT ![m] = @ + 1], left,
                                 [client_tasks EXCEPT ![n] = 0])
    <3>1. PICK m \in Names :
                  /\ left[m] = 0 /\ [sources EXCEPT ![n] = 0][m] < MaxConfigs
                  /\ StartClient(m, [[sources EXCEPT ![n] = 0] EXCEPT ![m] = @ + 1], left,
                                 [client_tasks EXCEPT ![n] = 0])
      BY <2>3
    <3> DEFINE configs == [[sources EXCEPT ![n] = 0] EXCEPT ![m] = @ + 1]
    <3>2. /\ configs \in [Names -> 0 .. MaxConfigs] /\ configs[m] > 0
          /\ \A o \in Names \ {n, m} : configs[o] = sources[o]
      <4>1. [sources EXCEPT ![n] = 0] \in [Names -> 0 .. MaxConfigs]
        BY <1>1, SourceAssumption DEF SourceAssumption
      <4>2. [sources EXCEPT ![n] = 0][m] + 1 \in 1 .. MaxConfigs
        BY <3>1, <4>1, SourceAssumption DEF SourceAssumption
      <4> QED BY <1>1, <4>1, <4>2
    <3>3. StartClient(m, configs, left, left)
      BY <1>1, <3>1
    <3>4. req' = [req EXCEPT ![h] = Idle]
      BY <1>3 DEF FinishRemove
    <3> QED BY <2>3, <3>1, <3>2, <3>3, <3>4
  <2> QED BY <1>3, <2>1, <2>2, <2>3 DEF FinishRemove
<1> QED BY <1>2, <1>3 DEF Finish
-----------------------------------------------------------------------------
(* The shape of a request under way. *)
LEMMA RequestShape ==
  ASSUME SourceTypeOK, NEW h \in Requests, req[h].at # "idle"
  PROVE  req[h] \in Request /\ req[h] # Idle
BY DEF SourceTypeOK, Request, Idle

(* A request may end when the task the table has for its source does not   *)
(* run: the row it empties then hides no task, and no other request joins  *)
(* a task in that row that still runs.                                     *)
LEMMA FinishKeeps ==
  ASSUME SourceAssumption, SourceInv, NEW h \in Requests, req[h].at # "idle", Finish(h),
         UNCHANGED cancelled,
         req[h].name \notin raced => client_tasks[req[h].name] \notin running
  PROVE  SourceInv'
<1> DEFINE n == req[h].name
           left == [clients EXCEPT ![n] = 0]
<1>1. /\ SourceTypeOK /\ TablesAgree /\ ActiveIsConfigured /\ NoOrphanTask /\ JoinInv
      /\ req[h] \in Request /\ n \in Names
  BY RequestShape DEF SourceInv, SourcesSound, Request
<1>2. /\ left \in [Names -> 0 .. MaxTasks] /\ left[n] = 0
      /\ \A o \in Names \ {n} : left[o] = client_tasks[o] /\ left[o] = clients[o]
  BY <1>1, SourceAssumption DEF SourceTypeOK, TablesAgree, SourceAssumption
<1>3. /\ req' = [req EXCEPT ![h] = Idle]
      /\ req' \in [Requests -> Request \union {Idle}]
      /\ \A g \in Requests \ {h} : req'[g] = req[g]
      /\ req'[h] = Idle
  BY ZenonT(60), <1>1, FinishCases DEF SourceTypeOK, Request
<1>4. CASE /\ clients' = left /\ client_tasks' = left
           /\ sources' \in {sources, [sources EXCEPT ![n] = 0]}
           /\ UNCHANGED <<source_of, running, raced>>
  <2>1. SourceTypeOK'
    <3>1. sources' \in [Names -> 0 .. MaxConfigs]
      <4>1. sources \in [Names -> 0 .. MaxConfigs] /\ 0 \in 0 .. MaxConfigs
        BY <1>1, SourceAssumption DEF SourceTypeOK, SourceAssumption
      <4>2. [sources EXCEPT ![n] = 0] \in [Names -> 0 .. MaxConfigs]
        BY <4>1
      <4> QED BY <1>4, <4>1, <4>2
    <3> QED BY <1>1, <1>2, <1>3, <1>4, <3>1 DEF SourceTypeOK, Request
  <2>2. NoOrphanTask'
    <3> SUFFICES ASSUME NEW k \in running \ cancelled, source_of[k] \notin raced
                 PROVE  left[source_of[k]] = k
      BY <1>4 DEF NoOrphanTask
    <3>1. client_tasks[source_of[k]] = k /\ source_of[k] \in Names
      BY <1>1, SourcesHaveNames DEF NoOrphanTask, SourceTypeOK
    <3> QED BY <1>2, <3>1
  <2>3. ActiveIsConfigured'
    BY <1>1, <1>2, <1>4 DEF ActiveIsConfigured, SourceTypeOK
  <2>4. JoinInv'
    <3> SUFFICES ASSUME NEW g \in Requests, req'[g].at = "join" PROVE Joining(g)'
      BY DEF JoinInv
    <3>1. g # h /\ req'[g] = req[g] /\ Joining(g) /\ req[g] \in Request
      BY <1>1, <1>3, RequestShape DEF JoinInv, Idle
    <3>2. req[g].name \in Names
      BY <3>1 DEF Request
    <3> QED BY <1>2, <1>4, <3>1, <3>2 DEF Joining
  <2> QED BY <1>4, <2>1, <2>2, <2>3, <2>4 DEF SourceInv, SourcesSound, TablesAgree
<1>5. ASSUME NEW m \in Names, NEW configs \in [Names -> 0 .. MaxConfigs],
             left[m] = 0, configs[m] > 0,
             \A o \in Names \ {n, m} : configs[o] = sources[o],
             StartClient(m, configs, left, left)
      PROVE  SourceInv'
  <2>1. /\ clients' = [left EXCEPT ![m] = Fresh] /\ client_tasks' = clients'
        /\ clients' \in [Names -> 0 .. MaxTasks]
        /\ source_of' \in UNION {[1 .. i -> Names] : i \in 0 .. MaxTasks}
        /\ DOMAIN source_of' = DOMAIN source_of \union {Fresh}
        /\ \A k \in DOMAIN source_of : source_of'[k] = source_of[k]
        /\ source_of'[Fresh] = m
        /\ running' = running \union {Fresh} /\ sources' = configs
        /\ Fresh \in Task /\ Fresh \notin DOMAIN source_of
        /\ raced \subseteq raced' /\ raced' \subseteq Names
        /\ \A g \in Requests : req'[g].at = "join" /\ req'[g].name = m => m \in raced'
    BY <1>1, <1>2, <1>5, ClientIsEntered
  <2>2. /\ \A o \in Names \ {m} : clients'[o] = left[o]
        /\ clients'[m] = Fresh
    BY <1>2, <2>1
  <2>3. Fresh \notin cancelled /\ Fresh \notin running
    BY <1>1, <2>1 DEF SourceTypeOK
  <2>4. \A g \in Requests \ {h} : req'[g].at = "join" => Joining(g) /\ req[g].name \in Names
    BY <1>1, <1>3, RequestShape DEF JoinInv, Request
  <2>5. SourceTypeOK'
    BY <1>1, <1>3, <1>5, <2>1 DEF SourceTypeOK, Request
  <2>6. NoOrphanTask'
    <3> SUFFICES ASSUME NEW k \in running' \ cancelled', source_of'[k] \notin raced'
                 PROVE  clients'[source_of'[k]] = k
      BY <2>1 DEF NoOrphanTask
    <3>1. CASE k = Fresh
      BY <2>1, <2>2, <3>1
    <3>2. CASE k # Fresh
      <4>1. k \in running \ cancelled /\ k \in DOMAIN source_of
        BY <1>1, <2>1, <3>2 DEF SourceTypeOK
      <4>2. source_of'[k] = source_of[k] /\ source_of[k] \in Names
        BY <1>1, <2>1, <4>1, SourcesHaveNames
      <4>3. client_tasks[source_of[k]] = k /\ k # 0 /\ source_of[k] # n
        BY <1>1, <1>5, <2>1, <4>1, <4>2, SourcesHaveNames DEF NoOrphanTask
      <4>4. left[source_of[k]] = k /\ source_of[k] # m
        BY <1>2, <1>5, <4>2, <4>3
      <4> QED BY <2>2, <4>2, <4>4
    <3> QED BY <3>1, <3>2
  <2>7. ActiveIsConfigured'
    BY <1>1, <1>2, <1>5, <2>1, <2>2 DEF ActiveIsConfigured
  <2>8. JoinInv'
    <3> SUFFICES ASSUME NEW g \in Requests, req'[g].at = "join" PROVE Joining(g)'
      BY DEF JoinInv
    <3>1. g # h /\ req'[g] = req[g] /\ Joining(g) /\ req[g].name \in Names
      BY <1>3, <2>4 DEF Idle
    <3>2. req[g].name \notin raced' => req[g].name # m /\ req[g].name \notin raced
      BY <2>1, <3>1
    <3> QED BY <1>2, <2>1, <2>2, <2>3, <3>1, <3>2 DEF Joining
  <2> QED BY <2>1, <2>5, <2>6, <2>7, <2>8 DEF SourceInv, SourcesSound, TablesAgree
<1> QED BY <1>1, <1>4, <1>5, FinishCases
-----------------------------------------------------------------------------
(* A client is started in an empty row only.  Who joins a task of that     *)
(* source then has lost the race.                                          *)
LEMMA StartKeeps ==
  ASSUME SourceAssumption, SourceInv, NEW n \in Names, clients[n] = 0,
         NEW configs \in [Names -> 0 .. MaxConfigs], configs[n] > 0,
         \A o \in Names \ {n} : configs[o] = sources[o],
         StartClient(n, configs, clients, client_tasks),
         UNCHANGED <<cancelled, req>>
  PROVE  SourceInv'
<1>1. /\ SourceTypeOK /\ TablesAgree /\ ActiveIsConfigured /\ NoOrphanTask /\ JoinInv
      /\ clients \in [Names -> 0 .. MaxTasks] /\ client_tasks = clients
  BY DEF SourceInv, SourcesSound, SourceTypeOK, TablesAgree
<1>2. StartClient(n, configs, clients, clients)
  BY <1>1
<1>3. /\ clients' = [clients EXCEPT ![n] = Fresh] /\ client_tasks' = clients'
      /\ clients' \in [Names -> 0 .. MaxTasks]
      /\ source_of' \in UNION {[1 .. i -> Names] : i \in 0 .. MaxTasks}
      /\ DOMAIN source_of' = DOMAIN source_of \union {Fresh}
      /\ \A k \in DOMAIN source_of : source_of'[k] = source_of[k]
      /\ source_of'[Fresh] = n
      /\ running' = running \union {Fresh} /\ sources' = configs
      /\ Fresh \in Task /\ Fresh \notin DOMAIN source_of
      /\ raced \subseteq raced' /\ raced' \subseteq Names
      /\ \A g \in Requests : req'[g].at = "join" /\ req'[g].name = n => n \in raced'
  BY <1>1, <1>2, ClientIsEntered
<1>4. clients'[n] = Fresh /\ \A o \in Names \ {n} : clients'[o] = clients[o]
  BY <1>1, <1>3
<1>5. SourceTypeOK'
  BY <1>1, <1>3 DEF SourceTypeOK
<1>6. NoOrphanTask'
  <2> SUFFICES ASSUME NEW k \in running' \ cancelled, source_of'[k] \notin raced'
               PROVE  clients'[source_of'[k]] = k
    BY <1>3 DEF NoOrphanTask
  <2>1. CASE k = Fresh
    BY <1>3, <1>4, <2>1
  <2>2. CASE k # Fresh
    <3>1. k \in running \ cancelled /\ k \in DOMAIN source_of
      BY <1>1, <1>3, <2>2 DEF SourceTypeOK
    <3>2. source_of'[k] = source_of[k] /\ source_of[k] \in Names /\ k # 0
      BY <1>1, <1>3, <3>1, SourcesHaveNames
    <3>3. source_of[k] \notin raced
      BY <1>3, <3>2
    <3>4. clients[source_of[k]] = k
      BY <1>1, <3>1, <3>3 DEF NoOrphanTask
    <3> QED BY <1>4, <3>2, <3>4
  <2> QED BY <2>1, <2>2
<1>7. ActiveIsConfigured'
  BY <1>1, <1>3, <1>4 DEF ActiveIsConfigured
<1>8. JoinInv'
  <2> SUFFICES ASSUME NEW g \in Requests, req[g].at = "join" PROVE Joining(g)'
    BY DEF JoinInv
  <2>1. Joining(g) /\ req[g].name \in Names
    BY <1>1, RequestShape DEF JoinInv, Request
  <2>2. req[g].name \notin raced' => req[g].name # n /\ req[g].name \notin raced
    BY <1>3
  <2> QED BY <1>1, <1>3, <1>4, <2>1, <2>2 DEF Joining
<1> QED BY <1>3, <1>5, <1>6, <1>7, <1>8 DEF SourceInv, SourcesSound, TablesAgree

(* Every step keeps the tables in order. *)
THEOREM SourceStep ==
  ASSUME SourceAssumption PROVE SourceInv /\ [SourceNext]_sourceVars => SourceInv'
<1> SUFFICES ASSUME SourceInv, [SourceNext]_sourceVars PROVE SourceInv'
  OBVIOUS
<1>t. /\ SourceTypeOK /\ TablesAgree /\ ActiveIsConfigured /\ NoOrphanTask /\ JoinInv
      /\ sources \in [Names -> 0 .. MaxConfigs]
      /\ req \in [Requests -> Request \union {Idle}]
  BY DEF SourceInv, SourcesSound, SourceTypeOK, Request
<1>1. ASSUME NEW n \in Names, StartSource(n) PROVE SourceInv'
  BY <1>1, <1>t, StartKeeps, SourceAssumption DEF StartSource
<1>2. ASSUME NEW n \in Names, AddSource(n) PROVE SourceInv'
  <2> DEFINE configs == [sources EXCEPT ![n] = @ + 1]
  <2>1. sources[n] + 1 \in 1 .. MaxConfigs
    BY <1>2, <1>t, SourceAssumption DEF AddSource, SourceAssumption
  <2>2. /\ configs \in [Names -> 0 .. MaxConfigs] /\ configs[n] > 0
        /\ \A o \in Names \ {n} : configs[o] = sources[o]
    BY <1>t, <2>1
  <2> QED BY <1>2, <2>2, StartKeeps, SourceAssumption DEF AddSource
<1>3. ASSUME NEW h \in Requests, NEW op \in Operations, NEW n \in Names, Disconnect(h, op, n)
      PROVE  SourceInv'
  <2> DEFINE new == [op |-> op, name |-> n, at |-> "disconnect", task |-> 0]
  <2>1. new \in Request
    BY SourceAssumption DEF Request, SourceAssumption
  <2>2. SourceTypeOK'
    BY <1>3, <1>t, <2>1 DEF Disconnect, SourceTypeOK, Request, tables
  <2>3. JoinInv'
    <3> SUFFICES ASSUME NEW g \in Requests, req'[g].at = "join" PROVE Joining(g)'
      BY DEF JoinInv
    <3>1. g # h /\ req'[g] = req[g]
      BY <1>3, <1>t DEF Disconnect
    <3> QED BY <1>3, <1>t, <3>1 DEF JoinInv, Joining, Disconnect, tables
  <2> QED BY <1>3, <1>t, <2>2, <2>3
          DEF SourceInv, SourcesSound, TablesAgree, NoOrphanTask, ActiveIsConfigured, Disconnect, tables
<1>4. ASSUME NEW h \in Requests, CancelTask(h) PROVE SourceInv'
  <2> DEFINE k == client_tasks[req[h].name]
  <2>1. CASE k \notin running
    <3>1. Finish(h) /\ UNCHANGED cancelled /\ req[h].at # "idle"
      BY <1>4, <2>1 DEF CancelTask
    <3> QED BY <2>1, <3>1, FinishKeeps, SourceAssumption
  <2>2. CASE k \in running
    <3>1. /\ cancelled' = cancelled \union {k}
          /\ req' = [req EXCEPT ![h].at = "join", ![h].task = k]
          /\ UNCHANGED <<tables, source_of, running, raced>>
      BY <1>4, <2>2 DEF CancelTask
    <3>2. req[h] \in Request /\ k \in 0 .. MaxTasks
      BY <1>4, <1>t, RequestShape DEF CancelTask, Request, SourceTypeOK
    <3>3. req'[h] \in Request /\ req'[h].at = "join" /\ req'[h].task = k
          /\ req'[h].name = req[h].name
      BY <1>t, <3>1, <3>2 DEF Request
    <3>4. \A g \in Requests \ {h} : req'[g] = req[g]
      BY <1>t, <3>1
    <3>5. SourceTypeOK'
      <4>1. req' \in [Requests -> Request \union {Idle}]
        BY <1>t, <3>1, <3>3, <3>4
      <4> QED BY <1>t, <2>2, <3>1, <4>1 DEF SourceTypeOK, Request, tables
    <3>6. JoinInv'
      BY <1>t, <2>2, <3>1, <3>3, <3>4 DEF JoinInv, Joining, tables
    <3> QED BY <1>t, <3>1, <3>5, <3>6
            DEF SourceInv, SourcesSound, TablesAgree, NoOrphanTask, ActiveIsConfigured, tables
  <2> QED BY <2>1, <2>2
<1>5. ASSUME NEW h \in Requests, Joined(h) PROVE SourceInv'
  <2>1. req[h].at = "join" /\ req[h].task \notin running /\ Joining(h)
    BY <1>5, <1>t DEF Joined, JoinInv
  <2>2. 0 \notin running
    BY <1>t, SourcesHaveNames DEF SourceTypeOK
  <2>3. req[h].name \notin raced => client_tasks[req[h].name] \notin running
    BY <2>1, <2>2 DEF Joining
  <2> QED BY <1>5, <2>1, <2>3, FinishKeeps, SourceAssumption DEF Joined
<1>6. ASSUME NEW k \in Task, TaskEnds(k) PROVE SourceInv'
  <2>1. SourceTypeOK'
    BY <1>6, <1>t DEF TaskEnds, SourceTypeOK, tables
  <2>2. NoOrphanTask'
    BY <1>6, <1>t DEF TaskEnds, NoOrphanTask, tables
  <2>3. JoinInv'
    BY <1>6, <1>t DEF TaskEnds, JoinInv, Joining, tables
  <2> QED BY <1>6, <1>t, <2>1, <2>2, <2>3
          DEF SourceInv, SourcesSound, TablesAgree, ActiveIsConfigured, TaskEnds, tables
<1>7. CASE UNCHANGED sourceVars
  BY <1>7, <1>t DEF SourceInv, SourcesSound, SourceTypeOK, TablesAgree, NoOrphanTask, ActiveIsConfigured,
     JoinInv, Joining, sourceVars, tables
<1> QED BY <1>1, <1>2, <1>3, <1>4, <1>5, <1>6, <1>7 DEF SourceNext
-----------------------------------------------------------------------------
(* The invariant holds throughout, whatever the fairness. *)
LEMMA SourcesRun ==
  ASSUME SourceAssumption
  PROVE  SourceInit /\ [][SourceNext]_sourceVars => []SourceInv
<1>1. SourceInit => SourceInv
  <2> SUFFICES ASSUME SourceInit PROVE SourceInv
    OBVIOUS
  <2>1. /\ 0 \in 0 .. MaxTasks /\ 0 .. 1 \subseteq 0 .. MaxConfigs
        /\ 1 .. 0 = {}
    BY SourceAssumption DEF SourceAssumption
  <2>2. source_of \in [1 .. 0 -> Names]
    BY <2>1 DEF SourceInit
  <2>3. SourceTypeOK
    BY <2>1, <2>2 DEF SourceInit, SourceTypeOK
  <2>4. JoinInv
    BY DEF SourceInit, JoinInv, Idle
  <2> QED BY <2>3, <2>4
          DEF SourceInit, SourceInv, SourcesSound, TablesAgree, NoOrphanTask, ActiveIsConfigured
<1>2. SourceInv /\ [SourceNext]_sourceVars => SourceInv'
  BY SourceAssumption, SourceStep
<1> QED BY <1>1, <1>2, PTL

THEOREM SourceInvariant ==
  ASSUME SourceAssumption PROVE SourceSpec => []SourceInv
BY SourceAssumption, SourcesRun, PTL DEF SourceSpec

(* The two tables agree at every await, a task that collects for good is   *)
(* in them, and what collects is configured -- whichever requests overlap. *)
THEOREM SourcesCorrect ==
  ASSUME SourceAssumption PROVE SourceSpec => []SourcesSound
<1>1. SourceInv => SourcesSound
  BY DEF SourceInv
<1> QED BY <1>1, SourceAssumption, SourceInvariant, PTL

(* What a stop_source leaves behind when it returns. *)
LEMMA StopsRun ==
  ASSUME SourceAssumption
  PROVE  SourceInit /\ [][SourceNext]_sourceVars => StopMeansStopped
<1>1. SourceInv /\ SourceInv' /\ [SourceNext]_sourceVars =>
        [\A h \in Requests :
           req[h].op = "stop" /\ req'[h] = Idle /\ req[h].name \notin raced =>
             \A k \in running' : source_of'[k] = req[h].name => k \in cancelled']_sourceVars
  <2> SUFFICES ASSUME SourceInv, SourceInv', SourceNext, NEW h \in Requests,
                      req[h].op = "stop", req'[h] = Idle, req[h].name \notin raced,
                      NEW k \in running', source_of'[k] = req[h].name, k \notin cancelled'
               PROVE  FALSE
    OBVIOUS
  <2>1. /\ SourceTypeOK /\ TablesAgree /\ req[h] \in Request /\ req[h].name \in Names
        /\ req[h] # Idle
    BY SMTT(30), RequestShape DEF SourceInv, SourcesSound, Idle, SourceTypeOK, Request
  <2>2. Finish(h)
    <3>1. ASSUME NEW g \in Requests, CancelTask(g) \/ Joined(g), g # h PROVE FALSE
      <4>1. CASE /\ CancelTask(g) /\ client_tasks[req[g].name] \in running
        BY <2>1, <3>1, <4>1 DEF CancelTask, SourceTypeOK
      <4>2. CASE Finish(g) /\ req[g].at # "idle"
        <5>1. req[g] \in Request
          BY <2>1, <4>2, RequestShape
        <5>2. req' = [req EXCEPT ![g] = Idle]
          BY <2>1, <4>2, <5>1, FinishCases, SourceAssumption
        <5> QED BY <2>1, <3>1, <5>2 DEF SourceTypeOK
      <4>3. Joined(g) => req[g].at # "idle"
        BY DEF Joined
      <4> QED BY <3>1, <4>1, <4>2, <4>3 DEF CancelTask, Joined
    <3>2. ASSUME NEW g \in Requests, NEW op \in Operations, NEW n \in Names, Disconnect(g, op, n)
          PROVE  FALSE
      BY <2>1, <3>2 DEF Disconnect, SourceTypeOK, Idle
    <3>3. req' # req
      BY <2>1
    <3>4. CancelTask(h) \/ Joined(h)
      BY <3>1, <3>2, <3>3 DEF SourceNext, StartSource, AddSource, TaskEnds
    <3>5. CancelTask(h) => Finish(h)
      <4> SUFFICES ASSUME CancelTask(h), client_tasks[req[h].name] \in running PROVE FALSE
        BY DEF CancelTask
      <4>1. req'[h].at = "join"
        BY <2>1 DEF CancelTask, SourceTypeOK, Request
      <4> QED BY <4>1 DEF Idle
    <3> QED BY <3>4, <3>5 DEF Joined
  <2>3. FinishStop(h)
    BY <2>2 DEF Finish
  <2>4. client_tasks'[req[h].name] = 0 /\ req[h].name \notin raced'
    BY <2>1, <2>3 DEF FinishStop, SourceTypeOK
  <2>5. client_tasks'[source_of'[k]] = k
    BY <2>4 DEF SourceInv, SourcesSound, NoOrphanTask
  <2>6. k # 0
    <3>1. \A j \in DOMAIN source_of : j # 0
      BY <2>1, SourcesHaveNames
    <3>2. UNCHANGED <<source_of, running>>
      BY <2>3 DEF FinishStop
    <3> QED BY <2>1, <3>1, <3>2 DEF SourceTypeOK
  <2> QED BY <2>4, <2>5, <2>6
<1> QED BY <1>1, SourceAssumption, SourcesRun, PTL DEF StopMeansStopped

(* A stop_source that returns leaves nothing collecting for its source.    *)
THEOREM StoppedSourceIsQuiet ==
  ASSUME SourceAssumption PROVE SourceSpec => StopMeansStopped
BY SourceAssumption, StopsRun, PTL DEF SourceSpec

------------------------------------------------------------------------------
(* ZeroBusControl                                                          *)

Starts == {"start_infra", "start_zerobus"}

Quiet == \A t \in Target : \A k \in DOMAIN processors[t] : ~Working(t, k)

(* Only a start connects. *)
CallKinds ==
  /\ call = [h \in Calls |-> call[h]]
  /\ \A h \in Calls : call[h].at = "connect" <=> call[h].op \in Starts

(* While a start connects, no other start and no stop_zerobus is under     *)
(* way, nothing works, and the targets to come have no client.             *)
StartsAlone ==
  \A h \in Calls : call[h].at = "connect" =>
    /\ \A g \in Calls \ {h} : call[g].op \notin Starts \union {"stop_zerobus"}
    /\ Quiet
    /\ \A t \in Target : t >= call[h].target => zerobus_clients[t] = 0

(* Once stop_zerobus has cancelled the processors nothing works, and what  *)
(* is still open is still to be closed.                                    *)
StopsQuietly ==
  \A h \in Calls : call[h].op = "stop_zerobus" =>
    /\ Quiet
    /\ call[h].at = "close" =>
         \A t \in Target : zerobus_clients[t] \in streams =>
           t \in call[h].pending \/ zerobus_clients[t] = call[h].client

(* What works is in the table, with the client its target has now.         *)
WorkIsKnown ==
  \A t \in Target : \A k \in DOMAIN processors[t] : Working(t, k) =>
    /\ batch_tasks[t] = k /\ zerobus_enabled /\ zerobus_clients[t] # 0
    /\ processors[t][k].at = "running" => processors[t][k].client = zerobus_clients[t]

StreamsAreHeld == \A c \in streams : \E t \in Target : zerobus_clients[t] = c

OffMeansNone ==
  zerobus_enabled \/ zerobus_clients = None \/ \E h \in Calls : call[h].at = "connect"

(* A processor that runs serves a client that was connected.               *)
Serving ==
  \A t \in Target : \A k \in DOMAIN processors[t] :
    processors[t][k].at = "running" => processors[t][k].client \in 1 .. made

Unclashed ==
  ~clashed => StartsAlone /\ StopsQuietly /\ WorkIsKnown /\ StreamsAreHeld /\ OffMeansNone

ControlInv == ControlTypeOK /\ CallKinds /\ Serving /\ Unclashed
-----------------------------------------------------------------------------
(* The parts of the types. *)
Processor == [client : 0 .. MaxClients, at : {"new", "running", "ended"}]

FlagTypes ==
  /\ zerobus_config_enabled \in BOOLEAN /\ clashed \in BOOLEAN
  /\ bridge_running \in BOOLEAN /\ starting \in BOOLEAN
  /\ shutdown \in BOOLEAN /\ zerobus_enabled \in BOOLEAN

ClientTypes ==
  /\ made \in 0 .. MaxClients /\ streams \subseteq 1 .. made
  /\ zerobus_clients \in [Target -> 0 .. made]

ProcessorTypes ==
  /\ processors \in [Target -> Seq(Processor)]
  /\ batch_tasks \in [Target -> Nat]
  /\ \A t \in Target : batch_tasks[t] \in 0 .. Len(processors[t])
  /\ \A p \in cancelled_tasks : p[1] \in Target /\ p[2] \in 1 .. Len(processors[p[1]])

CallShape(h) ==
  \/ call[h] = NoCall
  \/ /\ call[h].op \in Operation
     /\ call[h].at \in {"connect", "sources", "gather", "close"}
     /\ call[h].at = "connect" => call[h].target \in Target
     /\ call[h].at = "close" => call[h].client \in 1 .. made

LEMMA TypeParts ==
  ControlTypeOK <=>
    FlagTypes /\ ClientTypes /\ ProcessorTypes /\ \A h \in Calls : CallShape(h)
BY DEF ControlTypeOK, FlagTypes, ClientTypes, ProcessorTypes, Processor, CallShape

LEMMA TypePartsNext ==
  (ControlTypeOK <=>
    FlagTypes /\ ClientTypes /\ ProcessorTypes /\ \A h \in Calls : CallShape(h))'
BY TypeParts, PTL

LEMMA ControlNumbers ==
  ASSUME ControlAssumption
  PROVE  /\ NumTargets \in Nat /\ NumTargets > 0 /\ MaxClients \in Nat
         /\ 1 \in Target
         /\ \A t \in Target : t < NumTargets => t + 1 \in Target
BY DEF ControlAssumption, Target

LEMMA NoCallIs ==
  NoCall.op = "none" /\ NoCall.at = "idle"
BY DEF NoCall

(* The numbers of processors in the tables. *)
LEMMA ProcessorNumbers ==
  ASSUME ProcessorTypes, NEW t \in Target
  PROVE  /\ processors[t] \in Seq(Processor)
         /\ Len(processors[t]) \in Nat /\ DOMAIN processors[t] = 1 .. Len(processors[t])
         /\ \A k \in DOMAIN processors[t] : processors[t][k] \in Processor
         /\ batch_tasks[t] \in Nat /\ batch_tasks[t] \in 0 .. Len(processors[t])
<1>1. /\ processors[t] \in Seq(Processor)
      /\ batch_tasks[t] \in Nat /\ batch_tasks[t] \in 0 .. Len(processors[t])
  BY DEF ProcessorTypes
<1>2. \A s \in Seq(Processor) : /\ Len(s) \in Nat /\ DOMAIN s = 1 .. Len(s)
                                /\ \A k \in DOMAIN s : s[k] \in Processor
  OBVIOUS
<1> QED BY <1>1, <1>2

LEMMA AppendProcessor ==
  ASSUME ControlAssumption, NEW s \in Seq(Processor)
  PROVE  LET r == Append(s, NewProcessor)
         IN  /\ r \in Seq(Processor) /\ Len(s) \in Nat /\ Len(r) = Len(s) + 1
             /\ DOMAIN s = 1 .. Len(s) /\ DOMAIN r = 1 .. Len(s) + 1
             /\ \A k \in 1 .. Len(s) : r[k] = s[k]
             /\ r[Len(s) + 1].at = "new"
<1>1. NewProcessor \in Processor /\ NewProcessor.at = "new"
  BY ControlNumbers DEF NewProcessor, Processor
<1> HIDE DEF NewProcessor
<1> QED BY <1>1

(* A start adds processors that are new ... *)
LEMMA StartedTypes ==
  ASSUME ControlAssumption, ProcessorTypes, NEW op, NEW table, StartProcessors(op, table),
         UNCHANGED cancelled_tasks
  PROVE  ProcessorTypes'
<1>1. ASSUME NEW t \in Target
      PROVE  /\ processors'[t] \in Seq(Processor)
             /\ batch_tasks'[t] \in 0 .. Len(processors'[t]) /\ batch_tasks'[t] \in Nat
             /\ Len(processors[t]) \in Nat /\ Len(processors'[t]) \in Nat
             /\ Len(processors[t]) <= Len(processors'[t])
  <2>1. /\ processors[t] \in Seq(Processor) /\ Len(processors[t]) \in Nat
        /\ batch_tasks[t] \in Nat /\ batch_tasks[t] \in 0 .. Len(processors[t])
    BY ProcessorNumbers
  <2>2. CASE batch_tasks'[t] = batch_tasks[t] /\ processors'[t] = processors[t]
    BY <2>1, <2>2
  <2>3. CASE /\ batch_tasks'[t] = Len(processors[t]) + 1
             /\ processors'[t] = Append(processors[t], NewProcessor)
    BY <2>1, <2>3, AppendProcessor
  <2> QED BY <2>2, <2>3 DEF StartProcessors
<1>2. /\ processors' = [t \in Target |-> processors'[t]]
      /\ batch_tasks' = [t \in Target |-> batch_tasks'[t]]
  BY DEF StartProcessors
<1>3. processors' \in [Target -> Seq(Processor)] /\ batch_tasks' \in [Target -> Nat]
  BY <1>1, <1>2
<1>4. \A p \in cancelled_tasks' : p[1] \in Target /\ p[2] \in 1 .. Len(processors'[p[1]])
  <2> SUFFICES ASSUME NEW p \in cancelled_tasks
               PROVE  p[1] \in Target /\ p[2] \in 1 .. Len(processors'[p[1]])
    OBVIOUS
  <2>1. p[1] \in Target /\ p[2] \in 1 .. Len(processors[p[1]])
    BY DEF ProcessorTypes
  <2>2. /\ Len(processors[p[1]]) \in Nat /\ Len(processors'[p[1]]) \in Nat
        /\ Len(processors[p[1]]) <= Len(processors'[p[1]])
    BY <1>1, <2>1
  <2> QED BY <2>1, <2>2
<1> QED BY <1>1, <1>3, <1>4 DEF ProcessorTypes

(* ... and that the table has; what worked before is left as it is.        *)
LEMMA StartedProcessors ==
  ASSUME ControlAssumption, ProcessorTypes, NEW op, NEW table, StartProcessors(op, table),
         UNCHANGED cancelled_tasks, (op # "start_zerobus" /\ WorkIsKnown) \/ Quiet,
         NEW t \in Target, NEW k \in DOMAIN processors'[t], Working(t, k)'
  PROVE  \/ k = batch_tasks'[t] /\ table[t] # 0 /\ processors'[t][k].at = "new"
         \/ /\ k \in DOMAIN processors[t] /\ Working(t, k)
            /\ processors'[t] = processors[t] /\ batch_tasks'[t] = batch_tasks[t]
<1>1. /\ processors[t] \in Seq(Processor) /\ Len(processors[t]) \in Nat
      /\ DOMAIN processors[t] = 1 .. Len(processors[t])
  BY ProcessorNumbers
<1>2. CASE batch_tasks'[t] = batch_tasks[t] /\ processors'[t] = processors[t]
  <2>1. Working(t, k)
    BY <1>2 DEF Working, Live
  <2> QED BY <1>2, <2>1
<1>3. CASE /\ batch_tasks'[t] = Len(processors[t]) + 1
           /\ processors'[t] = Append(processors[t], NewProcessor)
           /\ table[t] # 0
           /\ op = "start_zerobus" \/ batch_tasks[t] = 0 \/ ~Live(t, batch_tasks[t])
  <2>1. /\ DOMAIN processors'[t] = 1 .. Len(processors[t]) + 1
        /\ \A j \in 1 .. Len(processors[t]) : processors'[t][j] = processors[t][j]
        /\ processors'[t][Len(processors[t]) + 1].at = "new"
    BY <1>1, <1>3, AppendProcessor
  <2>2. k \notin 1 .. Len(processors[t])
    <3> SUFFICES ASSUME k \in 1 .. Len(processors[t]) PROVE FALSE
      OBVIOUS
    <3>1. processors'[t][k] = processors[t][k] /\ k \in DOMAIN processors[t]
      BY <1>1, <2>1
    <3>2. Working(t, k) /\ Live(t, k)
      BY <3>1 DEF Working, Live
    <3>3. ~Quiet
      BY <3>1, <3>2 DEF Quiet
    <3>4. batch_tasks[t] = k
      BY <3>1, <3>2, <3>3 DEF WorkIsKnown
    <3>5. k # 0
      BY <1>1
    <3> QED BY <1>3, <3>2, <3>3, <3>4, <3>5
  <2>3. k = Len(processors[t]) + 1
    BY <1>1, <2>1, <2>2
  <2> QED BY <1>3, <2>1, <2>3
<1> QED BY <1>2, <1>3 DEF StartProcessors

(* What a request that goes on changes of the requests.                    *)
LEMMA CallUpdate ==
  ASSUME CallKinds, NEW h \in Calls, NEW c, call' = [call EXCEPT ![h] = c]
  PROVE  /\ call'[h] = c
         /\ \A g \in Calls \ {h} : call'[g] = call[g]
         /\ call' = [g \in Calls |-> call'[g]]
<1>1. DOMAIN call = Calls
  BY DEF CallKinds
<1> QED BY <1>1

LEMMA ConnectToIs ==
  ASSUME CallKinds, NEW h \in Calls, NEW op, NEW t, ConnectTo(h, op, t)
  PROVE  /\ call'[h].op = op /\ call'[h].at = "connect" /\ call'[h].target = t
         /\ \A g \in Calls \ {h} : call'[g] = call[g]
         /\ call' = [g \in Calls |-> call'[g]]
<1>1. call' = [call EXCEPT ![h] = [NoCall EXCEPT !.op = op, !.at = "connect", !.target = t]]
  BY DEF ConnectTo
<1>2. call'[h] = [NoCall EXCEPT !.op = op, !.at = "connect", !.target = t]
  BY <1>1 DEF CallKinds
<1> QED BY <1>1, <1>2, CallUpdate DEF NoCall

(* The requests keep their shape as clients are connected. *)
LEMMA ShapesKept ==
  ASSUME \A g \in Calls : CallShape(g), made \in Nat, made' \in Nat, made <= made',
         NEW h \in Calls, CallShape(h)', \A g \in Calls \ {h} : call'[g] = call[g]
  PROVE  \A g \in Calls : CallShape(g)'
<1>1. \A n \in 1 .. made : n \in 1 .. made'
  OBVIOUS
<1> QED BY <1>1 DEF CallShape

LEMMA CallTypes ==
  ASSUME ControlTypeOK, NEW h \in Calls
  PROVE  /\ call[h].at \in {"idle", "connect", "sources", "gather", "close"}
         /\ call[h].op \in Operation \union {"none"}
         /\ call[h] = NoCall <=> call[h].at = "idle"
         /\ call[h] = NoCall <=> call[h].op = "none"
BY NoCallIs DEF ControlTypeOK, Operation

(* What is not a clash. *)
LEMMA NoClash ==
  ASSUME ControlTypeOK, NEW h \in Calls, NEW op, Clash(h, op)
  PROVE  /\ clashed' \in BOOLEAN
         /\ ~clashed' => ~clashed
         /\ ~clashed' /\ op \in Starts =>
              \A g \in Calls \ {h} : call[g].op \notin Starts \union {"stop_zerobus"}
         /\ ~clashed' /\ op = "stop_zerobus" => \A g \in Calls \ {h} : call[g].op \notin Starts
         /\ ~clashed' /\ op = "start_infra" /\ zerobus_config_enabled => zerobus_clients = None
<1>1. clashed \in BOOLEAN
  BY DEF ControlTypeOK
<1>2. ~clashed' => ~clashed
  BY DEF Clash
<1>3. ASSUME ~clashed', NEW g \in Calls \ {h}, call[g].op \in Operation
      PROVE  {call[g].op, op} \notin { {"start_infra"}, {"start_zerobus"},
                       {"start_infra", "start_zerobus"},
                       {"start_infra", "stop_zerobus"}, {"start_zerobus", "stop_zerobus"} }
  <2>1. call[g] # NoCall
    BY <1>3, NoCallIs DEF Operation
  <2> QED BY <1>3, <2>1 DEF Clash
<1>4. ASSUME ~clashed', op \in Starts, NEW g \in Calls \ {h}
      PROVE  call[g].op \notin Starts \union {"stop_zerobus"}
  <2>1. CASE op = "start_infra"
    <3>1. ~(call[g].op = "start_infra")
      <4> SUFFICES ASSUME call[g].op = "start_infra" PROVE FALSE
        OBVIOUS
      <4>1. {call[g].op, op} = {"start_infra"}
        BY <2>1
      <4> QED BY <1>3, <1>4, <4>1 DEF Operation
    <3>2. ~(call[g].op = "start_zerobus")
      <4> SUFFICES ASSUME call[g].op = "start_zerobus" PROVE FALSE
        OBVIOUS
      <4>1. {call[g].op, op} = {"start_infra", "start_zerobus"}
        BY <2>1
      <4> QED BY <1>3, <1>4, <4>1 DEF Operation
    <3>3. ~(call[g].op = "stop_zerobus")
      <4> SUFFICES ASSUME call[g].op = "stop_zerobus" PROVE FALSE
        OBVIOUS
      <4>1. {call[g].op, op} = {"start_infra", "stop_zerobus"}
        BY <2>1
      <4> QED BY <1>3, <1>4, <4>1 DEF Operation
    <3> QED BY <3>1, <3>2, <3>3 DEF Starts
  <2>2. CASE op = "start_zerobus"
    <3>1. ~(call[g].op = "start_infra")
      <4> SUFFICES ASSUME call[g].op = "start_infra" PROVE FALSE
        OBVIOUS
      <4>1. {call[g].op, op} = {"start_infra", "start_zerobus"}
        BY <2>2
      <4> QED BY <1>3, <1>4, <4>1 DEF Operation
    <3>2. ~(call[g].op = "start_zerobus")
      <4> SUFFICES ASSUME call[g].op = "start_zerobus" PROVE FALSE
        OBVIOUS
      <4>1. {call[g].op, op} = {"start_zerobus"}
        BY <2>2
      <4> QED BY <1>3, <1>4, <4>1 DEF Operation
    <3>3. ~(call[g].op = "stop_zerobus")
      <4> SUFFICES ASSUME call[g].op = "stop_zerobus" PROVE FALSE
        OBVIOUS
      <4>1. {call[g].op, op} = {"start_zerobus", "stop_zerobus"}
        BY <2>2
      <4> QED BY <1>3, <1>4, <4>1 DEF Operation
    <3> QED BY <3>1, <3>2, <3>3 DEF Starts
  <2> QED BY <1>4, <2>1, <2>2 DEF Starts
<1>5. ASSUME ~clashed', op = "stop_zerobus", NEW g \in Calls \ {h}
      PROVE  call[g].op \notin Starts
  <2> SUFFICES ASSUME call[g].op \in Starts PROVE FALSE
    OBVIOUS
  <2>1. {call[g].op, op} \in {{"start_infra", "stop_zerobus"}, {"start_zerobus", "stop_zerobus"}}
    BY <1>5 DEF Starts
  <2> QED BY <1>3, <1>5, <2>1 DEF Operation, Starts
<1>6. /\ clashed' \in BOOLEAN
      /\ ~clashed' /\ op = "start_infra" /\ zerobus_config_enabled => zerobus_clients = None
  BY <1>1 DEF Clash
<1> QED BY <1>2, <1>4, <1>5, <1>6
-----------------------------------------------------------------------------
(* Nothing works while no target has a client. *)
LEMMA NoneIsQuiet ==
  ASSUME WorkIsKnown, zerobus_clients = None
  PROVE  Quiet
BY DEF WorkIsKnown, Quiet, None

LEMMA Assembled ==
  ASSUME FlagTypes', ClientTypes', ProcessorTypes', \A h \in Calls : CallShape(h)',
         CallKinds', Serving', Unclashed'
  PROVE  ControlInv'
BY TypePartsNext DEF ControlInv

(* A start leaves the processors that run, and what they serve, alone.     *)
LEMMA StartedServing ==
  ASSUME ControlAssumption, ProcessorTypes, Serving, NEW op, NEW table,
         StartProcessors(op, table), made \in Nat, made' \in Nat, made <= made'
  PROVE  Serving'
<1> SUFFICES ASSUME NEW t \in Target, NEW k \in DOMAIN processors'[t],
                    processors'[t][k].at = "running"
             PROVE  processors'[t][k].client \in 1 .. made'
  BY DEF Serving
<1>1. /\ processors[t] \in Seq(Processor) /\ Len(processors[t]) \in Nat
      /\ DOMAIN processors[t] = 1 .. Len(processors[t])
  BY ProcessorNumbers
<1>2. k \in DOMAIN processors[t] /\ processors'[t][k] = processors[t][k]
  <2>1. CASE processors'[t] = processors[t]
    BY <2>1
  <2>2. CASE processors'[t] = Append(processors[t], NewProcessor)
    <3>1. /\ DOMAIN processors'[t] = 1 .. Len(processors[t]) + 1
          /\ \A j \in 1 .. Len(processors[t]) : processors'[t][j] = processors[t][j]
          /\ processors'[t][Len(processors[t]) + 1].at = "new"
      BY <1>1, <2>2, AppendProcessor
    <3>2. k # Len(processors[t]) + 1
      BY <3>1
    <3>3. k \in 1 .. Len(processors[t])
      BY <1>1, <3>1, <3>2
    <3> QED BY <1>1, <3>1, <3>3
  <2> QED BY <2>1, <2>2 DEF StartProcessors
<1>3. processors[t][k].client \in 1 .. made
  BY <1>2 DEF Serving
<1> QED BY <1>2, <1>3

(* A start begins to connect while nothing works and no target has a client.*)
LEMMA BeginConnects ==
  ASSUME ControlAssumption, ControlInv, NEW h \in Calls, NEW op \in Starts, call[h] = NoCall,
         ConnectTo(h, op, 1), Clash(h, op), FlagTypes', ~clashed' => zerobus_clients = None,
         UNCHANGED <<zerobus_enabled, held, made, streams, processors, cancelled_tasks>>
  PROVE  ControlInv'
<1>1. /\ ControlTypeOK /\ CallKinds /\ Serving /\ ClientTypes /\ ProcessorTypes
      /\ \A g \in Calls : CallShape(g)
  BY TypeParts DEF ControlInv
<1>2. /\ call'[h].op = op /\ call'[h].at = "connect" /\ call'[h].target = 1
      /\ \A g \in Calls \ {h} : call'[g] = call[g]
      /\ call' = [g \in Calls |-> call'[g]]
  BY <1>1, ConnectToIs
<1>3. ClientTypes' /\ ProcessorTypes' /\ Serving'
  BY <1>1 DEF ClientTypes, ProcessorTypes, Serving, held
<1>4. \A g \in Calls : CallShape(g)'
  <2>1. CallShape(h)'
    BY <1>2, ControlNumbers DEF CallShape, Starts, Operation
  <2> QED BY <1>1, <1>2, <2>1, ShapesKept DEF ClientTypes
<1>5. CallKinds'
  BY <1>1, <1>2 DEF CallKinds
<1>6. ASSUME ~clashed' PROVE StartsAlone' /\ StopsQuietly' /\ WorkIsKnown' /\ StreamsAreHeld' /\ OffMeansNone'
  <2>1. /\ zerobus_clients = None /\ WorkIsKnown /\ StreamsAreHeld
        /\ \A g \in Calls \ {h} : call[g].op \notin Starts \union {"stop_zerobus"}
    BY <1>1, <1>6, NoClash DEF ControlInv, Unclashed
  <2>2. WorkIsKnown' /\ StreamsAreHeld'
    BY <2>1 DEF WorkIsKnown, StreamsAreHeld, held, Working, Live
  <2>3. Quiet'
    <3>1. Quiet
      BY <2>1, NoneIsQuiet
    <3> QED BY <3>1 DEF Quiet, Working, Live
  <2>4. \A g \in Calls : call'[g].at = "connect" => g = h
    BY <1>1, <1>2, <2>1 DEF CallKinds
  <2>5. StartsAlone'
    <3>1. \A t \in Target : zerobus_clients'[t] = 0
      BY <2>1 DEF None, held
    <3> QED BY <1>2, <2>1, <2>3, <2>4, <3>1 DEF StartsAlone
  <2>6. StopsQuietly'
    BY <1>2, <2>1 DEF StopsQuietly, Starts
  <2>7. OffMeansNone'
    BY <1>2 DEF OffMeansNone
  <2> QED BY <2>2, <2>5, <2>6, <2>7
<1> QED BY <1>3, <1>4, <1>5, <1>6, Assembled DEF Unclashed

LEMMA StartInfraKeeps ==
  ASSUME ControlAssumption, ControlInv, NEW h \in Calls, StartInfra(h)
  PROVE  ControlInv'
<1>1. /\ ControlTypeOK /\ CallKinds /\ Serving /\ ClientTypes /\ ProcessorTypes /\ FlagTypes
      /\ \A g \in Calls : CallShape(g)
  BY TypeParts DEF ControlInv
<1>2. /\ call[h] = NoCall /\ Clash(h, "start_infra") /\ shutdown' = FALSE
      /\ UNCHANGED <<zerobus_config_enabled, made, streams, cancelled_tasks>>
  BY DEF StartInfra
<1>3. CASE /\ zerobus_config_enabled
           /\ starting' = TRUE
           /\ ConnectTo(h, "start_infra", 1)
           /\ UNCHANGED <<bridge_running, zerobus_enabled, held, processors>>
  <2>1. FlagTypes' /\ (~clashed' => zerobus_clients = None)
    BY <1>1, <1>2, <1>3, NoClash DEF FlagTypes, Starts
  <2> QED BY <1>2, <1>3, <2>1, BeginConnects DEF Starts
<1>4. CASE /\ ~zerobus_config_enabled
           /\ bridge_running' = TRUE
           /\ IF zerobus_enabled THEN StartProcessors("start_infra", zerobus_clients)
                                 ELSE UNCHANGED <<batch_tasks, processors>>
           /\ UNCHANGED <<starting, zerobus_enabled, zerobus_clients, call>>
  <2>1. FlagTypes' /\ ClientTypes' /\ CallKinds'
    BY <1>1, <1>2, <1>4, NoClash DEF FlagTypes, ClientTypes, CallKinds
  <2>2. \A g \in Calls : CallShape(g)'
    BY <1>1, <1>2, <1>4 DEF CallShape
  <2>3. ProcessorTypes' /\ Serving'
    <3>1. CASE StartProcessors("start_infra", zerobus_clients)
      BY <1>1, <1>2, <3>1, StartedTypes, StartedServing DEF ClientTypes
    <3>2. CASE UNCHANGED <<batch_tasks, processors>>
      BY <1>1, <1>2, <3>2 DEF ProcessorTypes, Serving
    <3> QED BY <1>4, <3>1, <3>2
  <2>4. ASSUME ~clashed'
        PROVE  StartsAlone' /\ StopsQuietly' /\ WorkIsKnown' /\ StreamsAreHeld' /\ OffMeansNone'
    <3>1. /\ WorkIsKnown /\ StreamsAreHeld /\ OffMeansNone
          /\ \A g \in Calls : call[g].op \notin Starts \union {"stop_zerobus"}
      <4>1. call[h].op \notin Starts \union {"stop_zerobus"}
        BY <1>2, NoCallIs DEF Starts
      <4> QED BY <1>1, <1>2, <2>4, <4>1, NoClash DEF ControlInv, Unclashed, Starts
    <3>2. StreamsAreHeld' /\ OffMeansNone'
      BY <1>2, <1>4, <3>1 DEF StreamsAreHeld, OffMeansNone
    <3>3. StartsAlone' /\ StopsQuietly'
      BY <1>1, <1>4, <3>1 DEF StartsAlone, StopsQuietly, CallKinds
    <3>4. WorkIsKnown'
      <4>1. CASE UNCHANGED <<batch_tasks, processors>>
        BY <1>2, <1>4, <3>1, <4>1 DEF WorkIsKnown, Working, Live
      <4>2. CASE StartProcessors("start_infra", zerobus_clients) /\ zerobus_enabled
        <5> SUFFICES ASSUME NEW t \in Target, NEW k \in DOMAIN processors'[t], Working(t, k)'
                     PROVE  /\ batch_tasks'[t] = k /\ zerobus_enabled' /\ zerobus_clients'[t] # 0
                            /\ processors'[t][k].at = "running" =>
                                 processors'[t][k].client = zerobus_clients'[t]
          BY DEF WorkIsKnown
        <5>1. \/ k = batch_tasks'[t] /\ zerobus_clients[t] # 0 /\ processors'[t][k].at = "new"
              \/ /\ k \in DOMAIN processors[t] /\ Working(t, k)
                 /\ processors'[t] = processors[t] /\ batch_tasks'[t] = batch_tasks[t]
          BY <1>1, <1>2, <3>1, <4>2, StartedProcessors
        <5> QED BY <1>4, <3>1, <4>2, <5>1 DEF WorkIsKnown
      <4> QED BY <1>4, <4>1, <4>2
    <3> QED BY <3>2, <3>3, <3>4
  <2> QED BY <2>1, <2>2, <2>3, <2>4, Assembled DEF Unclashed
<1> QED BY <1>3, <1>4 DEF StartInfra

LEMMA StartZerobusKeeps ==
  ASSUME ControlAssumption, ControlInv, NEW h \in Calls, StartZerobus(h)
  PROVE  ControlInv'
<1>1. ControlTypeOK /\ CallKinds /\ FlagTypes
  BY TypeParts DEF ControlInv
<1>2. /\ call[h] = NoCall /\ Clash(h, "start_zerobus") /\ ConnectTo(h, "start_zerobus", 1)
      /\ ~(zerobus_enabled /\ zerobus_clients # None)
      /\ UNCHANGED <<flags, held, made, streams, processors, cancelled_tasks>>
  BY DEF StartZerobus
<1>3. FlagTypes'
  BY <1>1, <1>2, NoClash DEF FlagTypes, flags
<1>4. ASSUME ~clashed' PROVE zerobus_clients = None
  <2>1. /\ \A g \in Calls \ {h} : call[g].op \notin Starts
        /\ OffMeansNone
    BY <1>1, <1>2, <1>4, NoClash DEF Starts, ControlInv, Unclashed
  <2>2. \A g \in Calls : call[g].at # "connect"
    BY <1>1, <1>2, <2>1, NoCallIs DEF CallKinds
  <2> QED BY <1>2, <2>1, <2>2 DEF OffMeansNone
<1> QED BY <1>2, <1>3, <1>4, BeginConnects DEF Starts, flags

(* What a connect() that returns leaves in the table of clients. *)
Connects(t, table) ==
  \/ /\ made < MaxClients
     /\ made' = made + 1
     /\ streams' = streams \union {made + 1}
     /\ table = [zerobus_clients EXCEPT ![t] = made + 1]
  \/ table = zerobus_clients /\ UNCHANGED <<made, streams>>

Proceeds(h, op, t, table) ==
  IF t < NumTargets
  THEN /\ zerobus_clients' = table
       /\ ConnectTo(h, op, t + 1)
       /\ UNCHANGED <<bridge_running, starting, zerobus_enabled, batch_tasks, processors>>
  ELSE Started(h, op, table)

LEMMA ConnectIs ==
  ASSUME NEW h \in Calls, Connect(h)
  PROVE  \E table : Connects(call[h].target, table) /\ Proceeds(h, call[h].op, call[h].target, table)
<1> DEFINE t == call[h].target
<1>1. CASE /\ made < MaxClients
           /\ made' = made + 1
           /\ streams' = streams \union {made + 1}
           /\ Proceeds(h, call[h].op, t, [zerobus_clients EXCEPT ![t] = made + 1])
  BY <1>1 DEF Connects
<1>2. CASE Proceeds(h, call[h].op, t, zerobus_clients) /\ UNCHANGED <<made, streams>>
  BY <1>2 DEF Connects
<1> QED BY <1>1, <1>2 DEF Connect, Proceeds

(* The table and the streams after it.                                     *)
LEMMA ConnectsTypes ==
  ASSUME ControlAssumption, ClientTypes, NEW t \in Target, NEW table, Connects(t, table)
  PROVE  /\ made \in Nat /\ made' \in Nat /\ made <= made' /\ made' \in 0 .. MaxClients
         /\ streams' \subseteq 1 .. made' /\ table \in [Target -> 0 .. made']
         /\ \A u \in Target \ {t} : table[u] = zerobus_clients[u]
         /\ zerobus_clients[t] = 0 /\ StreamsAreHeld =>
              \A c \in streams' : \E u \in Target : table[u] = c
<1>1. made \in Nat /\ MaxClients \in Nat /\ made <= MaxClients /\ streams \subseteq 1 .. made
      /\ zerobus_clients \in [Target -> 0 .. made]
  BY ControlNumbers DEF ClientTypes
<1>2. CASE table = zerobus_clients /\ UNCHANGED <<made, streams>>
  BY <1>1, <1>2 DEF StreamsAreHeld
<1>3. CASE /\ made < MaxClients
           /\ made' = made + 1
           /\ streams' = streams \union {made + 1}
           /\ table = [zerobus_clients EXCEPT ![t] = made + 1]
  <2>1. made' \in Nat /\ made <= made' /\ made' \in 0 .. MaxClients
    BY <1>1, <1>3
  <2>2. streams' \subseteq 1 .. made'
    BY <1>1, <1>3
  <2>3. table \in [Target -> 0 .. made']
    <3>1. made + 1 \in 0 .. made' /\ 0 .. made \subseteq 0 .. made'
      BY <1>1, <1>3
    <3> QED BY <1>1, <1>3, <3>1
  <2>4. table[t] = made + 1 /\ \A u \in Target \ {t} : table[u] = zerobus_clients[u]
    BY <1>1, <1>3
  <2>5. ASSUME zerobus_clients[t] = 0, StreamsAreHeld, NEW c \in streams'
        PROVE  \E u \in Target : table[u] = c
    <3>1. CASE c = made + 1
      BY <2>4, <3>1
    <3>2. CASE c \in streams
      <4>1. PICK u \in Target : zerobus_clients[u] = c
        BY <2>5, <3>2 DEF StreamsAreHeld
      <4>2. c # 0
        BY <1>1, <3>2
      <4>3. u # t
        BY <2>5, <4>1, <4>2
      <4> QED BY <2>4, <4>1, <4>3
    <3> QED BY <1>3, <2>5, <3>1, <3>2
  <2> QED BY <1>1, <2>1, <2>2, <2>3, <2>4, <2>5
<1> QED BY <1>2, <1>3 DEF Connects

LEMMA ConnectKeeps ==
  ASSUME ControlAssumption, ControlInv, NEW h \in Calls, Connect(h)
  PROVE  ControlInv'
<1> DEFINE t == call[h].target
<1>1. /\ ControlTypeOK /\ CallKinds /\ Serving /\ ClientTypes /\ ProcessorTypes /\ FlagTypes
      /\ \A g \in Calls : CallShape(g)
  BY TypeParts DEF ControlInv
<1>2. /\ call[h].at = "connect"
      /\ UNCHANGED <<zerobus_config_enabled, shutdown, cancelled_tasks, clashed>>
  BY DEF Connect
<1>3. t \in Target /\ call[h].op \in Starts /\ call[h].op \in Operation
  BY <1>1, <1>2, NoCallIs DEF CallKinds, CallShape, Starts, Operation
<1>4. PICK table : Connects(t, table) /\ Proceeds(h, call[h].op, t, table)
  BY ConnectIs
<1> HIDE DEF t
<1>5. /\ made \in Nat /\ made' \in Nat /\ made <= made' /\ made' \in 0 .. MaxClients
      /\ streams' \subseteq 1 .. made' /\ table \in [Target -> 0 .. made']
      /\ \A u \in Target \ {t} : table[u] = zerobus_clients[u]
      /\ zerobus_clients[t] = 0 /\ StreamsAreHeld =>
           \A c \in streams' : \E u \in Target : table[u] = c
  BY <1>1, <1>3, <1>4, ConnectsTypes
<1>6. zerobus_clients' = table
  BY <1>4 DEF Proceeds, Started
<1>7. ClientTypes'
  BY <1>5, <1>6 DEF ClientTypes
<1>8. ASSUME ~clashed
      PROVE  /\ \A g \in Calls \ {h} : call[g].op \notin Starts \union {"stop_zerobus"}
             /\ \A g \in Calls \ {h} : call[g].at # "connect"
             /\ Quiet /\ zerobus_clients[t] = 0
             /\ \A u \in Target : u >= t => zerobus_clients[u] = 0
             /\ StreamsAreHeld'
  <2>1. StartsAlone /\ StreamsAreHeld
    BY <1>8 DEF ControlInv, Unclashed
  <2>2. /\ \A g \in Calls \ {h} : call[g].op \notin Starts \union {"stop_zerobus"}
        /\ Quiet
        /\ \A u \in Target : u >= t => zerobus_clients[u] = 0
    BY <1>2, <2>1 DEF StartsAlone, t
  <2>3. \A g \in Calls \ {h} : call[g].at # "connect"
    BY <1>1, <2>2 DEF CallKinds
  <2>4. zerobus_clients[t] = 0
    <3>1. t >= t
      BY <1>3, ControlNumbers DEF Target
    <3> QED BY <1>3, <2>2, <3>1
  <2>5. StreamsAreHeld'
    BY <1>5, <1>6, <2>1, <2>4 DEF StreamsAreHeld
  <2> QED BY <2>2, <2>3, <2>4, <2>5
<1>9. CASE t < NumTargets
  <2>1. /\ ConnectTo(h, call[h].op, t + 1)
        /\ UNCHANGED <<bridge_running, starting, zerobus_enabled, batch_tasks, processors>>
    BY <1>4, <1>9 DEF Proceeds
  <2>2. t + 1 \in Target
    BY <1>3, <1>9, ControlNumbers
  <2>3. /\ call'[h].op = call[h].op /\ call'[h].at = "connect" /\ call'[h].target = t + 1
        /\ \A g \in Calls \ {h} : call'[g] = call[g]
        /\ call' = [g \in Calls |-> call'[g]]
    BY <1>1, <2>1, ConnectToIs
  <2>4. FlagTypes' /\ ProcessorTypes' /\ CallKinds'
    <3>1. FlagTypes' /\ ProcessorTypes'
      BY <1>1, <1>2, <2>1 DEF FlagTypes, ProcessorTypes
    <3>2. CallKinds'
      BY <1>1, <1>2, <2>3 DEF CallKinds
    <3> QED BY <3>1, <3>2
  <2>5. Serving'
    <3>1. \A n \in 1 .. made : n \in 1 .. made'
      BY <1>5
    <3> QED BY <1>1, <2>1, <3>1 DEF Serving
  <2>6. \A g \in Calls : CallShape(g)'
    <3>1. CallShape(h)'
      BY <1>3, <2>2, <2>3 DEF CallShape
    <3> QED BY <1>1, <1>5, <2>3, <3>1, ShapesKept
  <2>7. ASSUME ~clashed'
        PROVE  StartsAlone' /\ StopsQuietly' /\ WorkIsKnown' /\ StreamsAreHeld' /\ OffMeansNone'
    <3>1. ~clashed
      BY <1>2, <2>7
    <3>2. Quiet'
      BY <1>2, <1>8, <2>1, <3>1 DEF Quiet, Working, Live
    <3>3. WorkIsKnown'
      BY <3>2 DEF WorkIsKnown, Quiet
    <3>4. StartsAlone'
      <4>1. \A u \in Target : u >= t + 1 => zerobus_clients'[u] = 0
        <5> SUFFICES ASSUME NEW u \in Target, u >= t + 1 PROVE zerobus_clients'[u] = 0
          OBVIOUS
        <5>1. u >= t /\ u # t
          BY <1>3, ControlNumbers DEF Target
        <5> QED BY <1>5, <1>6, <1>8, <3>1, <5>1
      <4>2. \A g \in Calls : call'[g].at = "connect" => g = h
        BY <1>8, <2>3, <3>1
      <4>3. \A g \in Calls \ {h} : call'[g].op \notin Starts \union {"stop_zerobus"}
        BY <1>8, <2>3, <3>1
      <4> QED BY <2>3, <3>2, <4>1, <4>2, <4>3 DEF StartsAlone
    <3>5. StopsQuietly'
      BY <1>3, <1>8, <2>3, <3>1 DEF StopsQuietly, Starts
    <3>6. OffMeansNone'
      BY <2>3 DEF OffMeansNone
    <3> QED BY <1>8, <3>1, <3>3, <3>4, <3>5, <3>6
  <2> QED BY <1>7, <2>4, <2>5, <2>6, <2>7, Assembled DEF Unclashed
<1>10. CASE ~(t < NumTargets)
  <2>1. /\ call' = [call EXCEPT ![h] = NoCall]
        /\ zerobus_enabled' = TRUE
        /\ StartProcessors(call[h].op, table)
        /\ \/ bridge_running' = TRUE /\ starting' = FALSE
           \/ UNCHANGED <<bridge_running, starting>>
    BY <1>4, <1>10 DEF Proceeds, Started
  <2>2. /\ call'[h] = NoCall
        /\ \A g \in Calls \ {h} : call'[g] = call[g]
        /\ call' = [g \in Calls |-> call'[g]]
    BY <1>1, <2>1, CallUpdate
  <2>3. FlagTypes'
    BY <1>1, <1>2, <2>1 DEF FlagTypes
  <2>4. ProcessorTypes' /\ Serving'
    BY <1>1, <1>2, <1>5, <2>1, StartedTypes, StartedServing
  <2>5. CallKinds'
    BY <1>1, <2>2, NoCallIs DEF CallKinds, Starts
  <2>6. \A g \in Calls : CallShape(g)'
    <3>1. CallShape(h)'
      BY <2>2 DEF CallShape
    <3> QED BY <1>1, <1>5, <2>2, <3>1, ShapesKept
  <2>7. ASSUME ~clashed'
        PROVE  StartsAlone' /\ StopsQuietly' /\ WorkIsKnown' /\ StreamsAreHeld' /\ OffMeansNone'
    <3>1. ~clashed
      BY <1>2, <2>7
    <3>2. WorkIsKnown'
      <4> SUFFICES ASSUME NEW u \in Target, NEW k \in DOMAIN processors'[u], Working(u, k)'
                   PROVE  /\ batch_tasks'[u] = k /\ zerobus_enabled' /\ zerobus_clients'[u] # 0
                          /\ processors'[u][k].at # "running"
        BY DEF WorkIsKnown
      <4>1. \/ k = batch_tasks'[u] /\ table[u] # 0 /\ processors'[u][k].at = "new"
            \/ k \in DOMAIN processors[u] /\ Working(u, k)
        BY <1>1, <1>2, <1>8, <2>1, <3>1, StartedProcessors
      <4>2. ~(k \in DOMAIN processors[u] /\ Working(u, k))
        BY <1>8, <3>1 DEF Quiet
      <4> QED BY <1>6, <2>1, <4>1, <4>2
    <3>3. StartsAlone'
      BY <1>8, <2>2, <3>1, NoCallIs DEF StartsAlone
    <3>4. StopsQuietly'
      BY <1>8, <2>2, <3>1, NoCallIs DEF StopsQuietly
    <3>5. OffMeansNone'
      BY <2>1 DEF OffMeansNone
    <3> QED BY <1>8, <3>1, <3>2, <3>3, <3>4, <3>5
  <2> QED BY <1>7, <2>3, <2>4, <2>5, <2>6, <2>7, Assembled DEF Unclashed
<1> QED BY <1>9, <1>10

Stops == {"stop", "stop_zerobus"}

(* The loop over the clients ends, or goes on to wait for a close().       *)
LEMMA CloseNextIs ==
  ASSUME CallKinds, NEW h \in Calls, NEW op \in Stops, NEW left, NEW size, NEW open,
         CloseNext(h, op, left, size, open)
  PROVE  /\ call' = [g \in Calls |-> call'[g]]
         /\ \A g \in Calls \ {h} : call'[g] = call[g]
         /\ \/ /\ \A t \in left : zerobus_clients[t] \notin open
               /\ call'[h] = NoCall
               /\ \/ op = "stop_zerobus" /\ zerobus_clients' = None /\ zerobus_enabled' = FALSE
                  \/ op = "stop" /\ UNCHANGED <<zerobus_clients, zerobus_enabled>>
            \/ /\ UNCHANGED <<zerobus_clients, zerobus_enabled>>
               /\ call'[h].op = op /\ call'[h].at = "close"
               /\ \E t \in left : /\ zerobus_clients[t] \in open
                                  /\ call'[h].client = zerobus_clients[t]
                                  /\ call'[h].pending = left \ {t}
<1> DEFINE todo == {t \in left : zerobus_clients[t] \in open}
<1>1. CASE todo = {} /\ Closed(h, op)
  <2>1. call' = [call EXCEPT ![h] = NoCall]
    BY <1>1 DEF Closed
  <2>2. /\ call'[h] = NoCall
        /\ \A g \in Calls \ {h} : call'[g] = call[g]
        /\ call' = [g \in Calls |-> call'[g]]
    BY <2>1, CallUpdate
  <2>3. \A t \in left : zerobus_clients[t] \notin open
    BY <1>1
  <2>4. \/ op = "stop_zerobus" /\ zerobus_clients' = None /\ zerobus_enabled' = FALSE
        \/ op = "stop" /\ UNCHANGED <<zerobus_clients, zerobus_enabled>>
    BY <1>1 DEF Closed, Stops
  <2> QED BY <2>2, <2>3, <2>4
<1>2. ASSUME NEW t \in todo,
             call' = [call EXCEPT ![h] = [op |-> op, at |-> "close", target |-> t,
                                          client |-> zerobus_clients[t],
                                          pending |-> left \ {t}, size |-> size]],
             UNCHANGED <<zerobus_clients, zerobus_enabled>>
      PROVE  /\ call' = [g \in Calls |-> call'[g]]
             /\ \A g \in Calls \ {h} : call'[g] = call[g]
             /\ call'[h].op = op /\ call'[h].at = "close"
             /\ call'[h].client = zerobus_clients[t] /\ call'[h].pending = left \ {t}
  <2>1. /\ call'[h] = [op |-> op, at |-> "close", target |-> t,
                       client |-> zerobus_clients[t], pending |-> left \ {t}, size |-> size]
        /\ \A g \in Calls \ {h} : call'[g] = call[g]
        /\ call' = [g \in Calls |-> call'[g]]
    BY <1>2, CallUpdate
  <2> QED BY <2>1
<1>3. CASE \E t \in todo :
             /\ call' = [call EXCEPT ![h] = [op |-> op, at |-> "close", target |-> t,
                                             client |-> zerobus_clients[t],
                                             pending |-> left \ {t}, size |-> size]]
             /\ UNCHANGED <<zerobus_clients, zerobus_enabled>>
  BY <1>2, <1>3
<1> QED BY <1>1, <1>3 DEF CloseNext

(* Nothing starts to work when processors are only cancelled.              *)
LEMMA QuietKept ==
  ASSUME UNCHANGED processors, cancelled_tasks \subseteq cancelled_tasks'
  PROVE  /\ \A t \in Target : \A k \in DOMAIN processors'[t] : Working(t, k)' => Working(t, k)
         /\ Quiet => Quiet'
BY DEF Quiet, Working, Live

LEMMA CloseNextKeeps ==
  ASSUME ControlAssumption, ControlInv, NEW h \in Calls, NEW op \in Stops, NEW left, NEW size,
         NEW open, open = streams', streams' \subseteq streams, CloseNext(h, op, left, size, open),
         call[h].at # "connect", ProcessorTypes', clashed' \in BOOLEAN, ~clashed' => ~clashed,
         UNCHANGED <<zerobus_config_enabled, bridge_running, starting, shutdown, made, processors>>,
         cancelled_tasks \subseteq cancelled_tasks',
         op = "stop" => UNCHANGED batch_tasks,
         ~clashed' /\ op = "stop_zerobus" =>
           /\ Quiet'
           /\ \A t \in Target : zerobus_clients[t] \in open => t \in left
           /\ \A g \in Calls : call[g].at # "connect"
  PROVE  ControlInv'
<1>1. /\ ControlTypeOK /\ CallKinds /\ Serving /\ ClientTypes /\ FlagTypes
      /\ \A g \in Calls : CallShape(g)
  BY TypeParts DEF ControlInv
<1>2. /\ call' = [g \in Calls |-> call'[g]]
      /\ \A g \in Calls \ {h} : call'[g] = call[g]
      /\ \/ /\ \A t \in left : zerobus_clients[t] \notin open
            /\ call'[h] = NoCall
            /\ \/ op = "stop_zerobus" /\ zerobus_clients' = None /\ zerobus_enabled' = FALSE
               \/ op = "stop" /\ UNCHANGED <<zerobus_clients, zerobus_enabled>>
         \/ /\ UNCHANGED <<zerobus_clients, zerobus_enabled>>
            /\ call'[h].op = op /\ call'[h].at = "close"
            /\ \E t \in left : /\ zerobus_clients[t] \in open
                               /\ call'[h].client = zerobus_clients[t]
                               /\ call'[h].pending = left \ {t}
  <2>1. CallKinds /\ h \in Calls /\ op \in Stops /\ CloseNext(h, op, left, size, open)
    BY <1>1
  <2> QED BY ONLY <2>1, CloseNextIs
<1>3. /\ made \in Nat /\ made' = made /\ streams' \subseteq 1 .. made /\ 0 \notin streams'
      /\ zerobus_clients \in [Target -> 0 .. made] /\ None \in [Target -> 0 .. made]
      /\ \A t \in Target : None[t] = 0
  BY <1>1, ControlNumbers DEF ClientTypes, None
<1>4. FlagTypes'
  BY <1>1, <1>2 DEF FlagTypes
<1>5. ClientTypes'
  BY <1>1, <1>2, <1>3 DEF ClientTypes
<1>6. Serving'
  BY <1>1 DEF Serving
<1>7. CallKinds'
  BY <1>1, <1>2, NoCallIs DEF CallKinds, Stops, Starts
<1>8. \A g \in Calls : CallShape(g)'
  <2>1. CallShape(h)'
    <3>1. CASE call'[h] = NoCall
      BY <3>1 DEF CallShape
    <3>2. CASE /\ call'[h].op = op /\ call'[h].at = "close"
               /\ \E t \in left : /\ zerobus_clients[t] \in open
                                  /\ call'[h].client = zerobus_clients[t]
      BY <1>3, <3>2 DEF CallShape, Stops, Operation
    <3> QED BY <1>2, <3>1, <3>2
  <2> QED BY <1>1, <1>2, <1>3, <2>1, ShapesKept
<1>9. call'[h].at # "connect" /\ call'[h].op \in {op, "none"}
  BY <1>2, NoCallIs
<1>10. ASSUME ~clashed'
       PROVE  StartsAlone' /\ StopsQuietly' /\ WorkIsKnown' /\ StreamsAreHeld' /\ OffMeansNone'
  <2>1. StartsAlone /\ StopsQuietly /\ WorkIsKnown /\ StreamsAreHeld /\ OffMeansNone
    BY <1>10 DEF ControlInv, Unclashed
  <2>2. /\ Quiet => Quiet'
        /\ \A t \in Target : \A k \in DOMAIN processors'[t] : Working(t, k)' => Working(t, k)
    BY QuietKept
  <2>3. StartsAlone'
    <3>1. CASE op = "stop_zerobus"
      <4>1. \A g \in Calls : call'[g].at # "connect"
        BY <1>2, <1>9, <1>10, <3>1
      <4> QED BY <4>1 DEF StartsAlone
    <3>2. CASE op = "stop"
      <4>1. \A g \in Calls : call'[g].at = "connect" => g # h /\ call'[g] = call[g]
        BY <1>2, <1>9
      <4>2. call'[h].op \notin Starts \union {"stop_zerobus"}
        BY <1>9, <3>2 DEF Starts
      <4>3. UNCHANGED zerobus_clients
        BY <1>2, <3>2
      <4> QED BY <1>2, <2>1, <2>2, <4>1, <4>2, <4>3 DEF StartsAlone
    <3> QED BY <3>1, <3>2 DEF Stops
  <2>4. StopsQuietly'
    <3>1. ASSUME NEW g \in Calls \ {h}, call'[g].op = "stop_zerobus"
          PROVE  /\ Quiet'
                 /\ call'[g].at = "close" =>
                      \A t \in Target : zerobus_clients'[t] \in streams' =>
                        t \in call'[g].pending \/ zerobus_clients'[t] = call'[g].client
      <4>1. call'[g] = call[g] /\ Quiet
        BY <1>2, <2>1, <3>1 DEF StopsQuietly
      <4>2. CASE UNCHANGED zerobus_clients
        BY <2>1, <2>2, <3>1, <4>1, <4>2 DEF StopsQuietly
      <4>3. CASE zerobus_clients' = None
        BY <1>3, <2>2, <4>1, <4>3
      <4> QED BY <1>2, <4>2, <4>3
    <3>2. ASSUME call'[h].op = "stop_zerobus"
          PROVE  /\ Quiet'
                 /\ call'[h].at = "close" =>
                      \A t \in Target : zerobus_clients'[t] \in streams' =>
                        t \in call'[h].pending \/ zerobus_clients'[t] = call'[h].client
      <4>1. op = "stop_zerobus"
        BY <1>9, <3>2
      <4>2. Quiet' /\ \A t \in Target : zerobus_clients[t] \in open => t \in left
        BY <1>10, <4>1
      <4>3. ASSUME call'[h].at = "close", NEW t \in Target, zerobus_clients'[t] \in streams'
            PROVE  t \in call'[h].pending \/ zerobus_clients'[t] = call'[h].client
        <5>1. /\ UNCHANGED zerobus_clients
              /\ \E u \in left : /\ call'[h].client = zerobus_clients[u]
                                 /\ call'[h].pending = left \ {u}
          BY <1>2, <4>3, NoCallIs
        <5> QED BY <4>2, <4>3, <5>1
      <4> QED BY <4>2, <4>3
    <3> QED BY <3>1, <3>2 DEF StopsQuietly
  <2>5. WorkIsKnown'
    <3>1. CASE op = "stop_zerobus"
      <4>1. Quiet'
        BY <1>10, <3>1
      <4> QED BY <4>1 DEF Quiet, WorkIsKnown
    <3>2. CASE op = "stop"
      <4>1. UNCHANGED <<zerobus_clients, zerobus_enabled, batch_tasks>>
        BY <1>2, <3>2
      <4> QED BY <2>1, <2>2, <4>1 DEF WorkIsKnown
    <3> QED BY <3>1, <3>2 DEF Stops
  <2>6. StreamsAreHeld'
    <3>1. CASE UNCHANGED zerobus_clients
      BY <2>1, <3>1 DEF StreamsAreHeld
    <3>2. CASE op = "stop_zerobus" /\ \A t \in left : zerobus_clients[t] \notin open
      <4>1. ASSUME NEW c \in streams' PROVE FALSE
        <5>1. PICK t \in Target : zerobus_clients[t] = c
          BY <2>1, <4>1 DEF StreamsAreHeld
        <5>2. t \in left /\ zerobus_clients[t] \in open
          BY <1>10, <3>2, <4>1, <5>1
        <5> QED BY <3>2, <5>2
      <4> QED BY <4>1 DEF StreamsAreHeld
    <3> QED BY <1>2, <3>1, <3>2
  <2>7. OffMeansNone'
    <3>1. CASE zerobus_clients' = None
      BY <3>1 DEF OffMeansNone, None
    <3>2. CASE UNCHANGED <<zerobus_clients, zerobus_enabled>>
      <4>1. \A g \in Calls : call[g].at = "connect" => call'[g].at = "connect"
        BY <1>2
      <4> QED BY <2>1, <3>2, <4>1 DEF OffMeansNone, None
    <3> QED BY <1>2, <3>1, <3>2
  <2> QED BY <2>3, <2>4, <2>5, <2>6, <2>7
<1> QED BY <1>4, <1>5, <1>6, <1>7, <1>8, <1>10, Assembled DEF Unclashed

(* Cancelling what is in the tables stops all that works.                  *)
LEMMA CancelledQuiet ==
  ASSUME ProcessorTypes, NEW h, NEW op, CancelProcessors(h, op), UNCHANGED <<processors, batch_tasks>>
  PROVE  /\ cancelled_tasks \subseteq cancelled_tasks' /\ ProcessorTypes'
         /\ WorkIsKnown => Quiet'
<1> DEFINE known == {<<t, batch_tasks[t]>> : t \in {u \in Target : batch_tasks[u] # 0}}
<1>1. cancelled_tasks' = cancelled_tasks \union {p \in known : Live(p[1], p[2])}
  BY DEF CancelProcessors
<1>2. ASSUME NEW p \in known PROVE p[1] \in Target /\ p[2] \in 1 .. Len(processors[p[1]])
  <2>1. PICK t \in Target : batch_tasks[t] # 0 /\ p = <<t, batch_tasks[t]>>
    BY <1>2
  <2>2. Len(processors[t]) \in Nat /\ batch_tasks[t] \in 0 .. Len(processors[t])
    BY ProcessorNumbers
  <2>3. batch_tasks[t] \in 1 .. Len(processors[t])
    BY <2>1, <2>2
  <2> QED BY <2>1, <2>3
<1>3. ProcessorTypes'
  BY <1>1, <1>2 DEF ProcessorTypes
<1>4. ASSUME WorkIsKnown, NEW t \in Target, NEW k \in DOMAIN processors'[t], Working(t, k)'
      PROVE  FALSE
  <2>1. k \in DOMAIN processors[t] /\ k # 0
    BY ProcessorNumbers
  <2>2. Working(t, k) /\ Live(t, k) /\ <<t, k>> \notin cancelled_tasks'
    BY <1>1, <1>4 DEF Working, Live
  <2>3. batch_tasks[t] = k
    BY <1>4, <2>1, <2>2 DEF WorkIsKnown
  <2>4. <<t, k>> \in known
    BY <2>1, <2>3
  <2> QED BY <1>1, <2>2, <2>4
<1> QED BY <1>1, <1>3, <1>4 DEF Quiet

LEMMA CancelKeeps ==
  ASSUME ControlAssumption, ControlInv, NEW h \in Calls, NEW op \in Stops,
         CancelProcessors(h, op), call[h].at # "connect",
         clashed' \in BOOLEAN, ~clashed' => ~clashed,
         UNCHANGED <<zerobus_config_enabled, bridge_running, starting, shutdown, batch_tasks, made,
                     streams, processors>>,
         ~clashed' /\ op = "stop_zerobus" => \A g \in Calls : call[g].at # "connect"
  PROVE  ControlInv'
<1> DEFINE known == {<<t, batch_tasks[t]>> : t \in {u \in Target : batch_tasks[u] # 0}}
<1>1. /\ ControlTypeOK /\ CallKinds /\ Serving /\ ClientTypes /\ ProcessorTypes /\ FlagTypes
      /\ \A g \in Calls : CallShape(g)
  BY TypeParts DEF ControlInv
<1>2. /\ cancelled_tasks \subseteq cancelled_tasks' /\ ProcessorTypes'
      /\ WorkIsKnown => Quiet'
  BY <1>1, CancelledQuiet
<1>3. CASE CloseAll(h, op)
  <2> DEFINE left == {t \in Target : zerobus_clients[t] # 0}
  <2>1. CloseNext(h, op, left, Size(zerobus_clients), streams)
    BY <1>3 DEF CloseAll
  <2>2. 0 \notin streams
    BY <1>1, ControlNumbers DEF ClientTypes
  <2>3. \A t \in Target : zerobus_clients[t] \in streams => t \in left
    BY <2>2
  <2>4. ~clashed' /\ op = "stop_zerobus" => Quiet'
    BY <1>2 DEF ControlInv, Unclashed
  <2> HIDE DEF left
  <2> QED BY <1>2, <2>1, <2>3, <2>4, CloseNextKeeps
<1>4. CASE /\ call' = [call EXCEPT ![h] = [NoCall EXCEPT !.op = op, !.at = "gather",
                                                         !.pending = known]]
           /\ UNCHANGED <<zerobus_clients, zerobus_enabled>>
  <2>1. /\ call'[h] = [NoCall EXCEPT !.op = op, !.at = "gather", !.pending = known]
        /\ \A g \in Calls \ {h} : call'[g] = call[g]
        /\ call' = [g \in Calls |-> call'[g]]
    BY <1>1, <1>4, CallUpdate
  <2>2. call'[h].op = op /\ call'[h].at = "gather"
    BY <2>1 DEF NoCall
  <2> HIDE DEF known
  <2>3. FlagTypes' /\ ClientTypes' /\ Serving' /\ CallKinds'
    <3>1. FlagTypes' /\ ClientTypes'
      BY <1>1, <1>4 DEF FlagTypes, ClientTypes
    <3>2. Serving'
      BY <1>1 DEF Serving
    <3>3. CallKinds'
      BY <1>1, <2>1, <2>2 DEF CallKinds, Stops, Starts
    <3> QED BY <3>1, <3>2, <3>3
  <2>4. \A g \in Calls : CallShape(g)'
    <3>1. CallShape(h)'
      BY <2>2 DEF CallShape, Stops, Operation
    <3> QED BY <1>1, <2>1, <3>1, ShapesKept, ControlNumbers DEF ClientTypes
  <2>5. ASSUME ~clashed'
        PROVE  StartsAlone' /\ StopsQuietly' /\ WorkIsKnown' /\ StreamsAreHeld' /\ OffMeansNone'
    <3>1. StartsAlone /\ StopsQuietly /\ WorkIsKnown /\ StreamsAreHeld /\ OffMeansNone
      BY <2>5 DEF ControlInv, Unclashed
    <3>2. Quiet'
      BY <1>2, <3>1
    <3>3. WorkIsKnown'
      BY <3>2 DEF WorkIsKnown, Quiet
    <3>4. StreamsAreHeld'
      BY <1>4, <3>1 DEF StreamsAreHeld
    <3>5. StartsAlone'
      <4>1. CASE op = "stop_zerobus"
        <5>1. \A g \in Calls : call'[g].at # "connect"
          BY <2>1, <2>2, <2>5, <4>1
        <5> QED BY <5>1 DEF StartsAlone
      <4>2. CASE op = "stop"
        <5>1. call'[h].op \notin Starts \union {"stop_zerobus"} /\ call'[h].at # "connect"
          BY <2>2, <4>2 DEF Starts
        <5> QED BY <1>4, <2>1, <3>1, <3>2, <5>1 DEF StartsAlone
      <4> QED BY <4>1, <4>2 DEF Stops
    <3>6. StopsQuietly'
      BY <1>4, <2>1, <2>2, <3>1, <3>2 DEF StopsQuietly
    <3>7. OffMeansNone'
      <4>1. \A g \in Calls : call[g].at = "connect" => call'[g].at = "connect"
        BY <2>1
      <4> QED BY <1>4, <3>1, <4>1 DEF OffMeansNone, None
    <3> QED BY <3>3, <3>4, <3>5, <3>6, <3>7
  <2> QED BY <1>2, <2>3, <2>4, <2>5, Assembled DEF Unclashed
<1> QED BY <1>3, <1>4 DEF CancelProcessors

LEMMA StopZerobusKeeps ==
  ASSUME ControlAssumption, ControlInv, NEW h \in Calls, StopZerobus(h)
  PROVE  ControlInv'
<1>1. ControlTypeOK /\ CallKinds
  BY DEF ControlInv
<1>2. /\ call[h] = NoCall /\ CancelProcessors(h, "stop_zerobus") /\ Clash(h, "stop_zerobus")
      /\ UNCHANGED <<zerobus_config_enabled, bridge_running, starting, shutdown, batch_tasks, made,
                     streams, processors>>
  BY DEF StopZerobus
<1>3. clashed' \in BOOLEAN /\ (~clashed' => ~clashed)
  BY <1>1, <1>2, NoClash
<1>4. ASSUME ~clashed' PROVE \A g \in Calls : call[g].at # "connect"
  <2>1. \A g \in Calls \ {h} : call[g].op \notin Starts
    BY <1>1, <1>2, <1>4, NoClash
  <2> QED BY <1>1, <1>2, <2>1, NoCallIs DEF CallKinds
<1> QED BY <1>2, <1>3, <1>4, NoCallIs, CancelKeeps DEF Stops

LEMMA StopKeeps ==
  ASSUME ControlAssumption, ControlInv, NEW h \in Calls, Stop(h)
  PROVE  ControlInv'
<1>1. /\ ControlTypeOK /\ CallKinds /\ Serving /\ ClientTypes /\ ProcessorTypes /\ FlagTypes
      /\ \A g \in Calls : CallShape(g)
  BY TypeParts DEF ControlInv
<1>2. /\ call[h] = NoCall /\ shutdown' = TRUE /\ starting' = FALSE
      /\ call' = [call EXCEPT ![h] = [NoCall EXCEPT !.op = "stop", !.at = "sources"]]
      /\ UNCHANGED <<zerobus_config_enabled, bridge_running, zerobus_enabled, held, made, streams,
                     processors, cancelled_tasks, clashed>>
  BY DEF Stop
<1>3. /\ call'[h] = [NoCall EXCEPT !.op = "stop", !.at = "sources"]
      /\ \A g \in Calls \ {h} : call'[g] = call[g]
      /\ call' = [g \in Calls |-> call'[g]]
  BY <1>1, <1>2, CallUpdate
<1>4. call'[h].op = "stop" /\ call'[h].at = "sources"
  BY <1>3 DEF NoCall
<1>5. FlagTypes' /\ ClientTypes' /\ ProcessorTypes' /\ Serving' /\ CallKinds'
  <2>1. FlagTypes'
    BY <1>1, <1>2 DEF FlagTypes
  <2>2. ClientTypes' /\ ProcessorTypes' /\ Serving'
    BY <1>1, <1>2 DEF ClientTypes, ProcessorTypes, Serving, held
  <2>3. CallKinds'
    BY <1>1, <1>3, <1>4 DEF CallKinds, Starts
  <2> QED BY <2>1, <2>2, <2>3
<1>6. \A g \in Calls : CallShape(g)'
  <2>1. CallShape(h)'
    BY <1>4 DEF CallShape, Operation
  <2> QED BY <1>1, <1>2, <1>3, <2>1, ShapesKept, ControlNumbers DEF ClientTypes
<1>7. ASSUME ~clashed'
      PROVE  StartsAlone' /\ StopsQuietly' /\ WorkIsKnown' /\ StreamsAreHeld' /\ OffMeansNone'
  <2>1. StartsAlone /\ StopsQuietly /\ WorkIsKnown /\ StreamsAreHeld /\ OffMeansNone
    BY <1>2, <1>7 DEF ControlInv, Unclashed
  <2>2. Quiet => Quiet'
    BY <1>2 DEF Quiet, Working, Live
  <2>3. StartsAlone'
    <3>1. call'[h].op \notin Starts \union {"stop_zerobus"} /\ call'[h].at # "connect"
      BY <1>4 DEF Starts
    <3> QED BY <1>2, <1>3, <2>1, <2>2, <3>1 DEF StartsAlone, held
  <2>4. StopsQuietly'
    BY <1>2, <1>3, <1>4, <2>1, <2>2 DEF StopsQuietly, held
  <2>5. WorkIsKnown' /\ StreamsAreHeld'
    BY <1>2, <2>1 DEF WorkIsKnown, StreamsAreHeld, Working, Live, held
  <2>6. OffMeansNone'
    <3>1. \A g \in Calls : call[g].at = "connect" => call'[g].at = "connect"
      BY <1>2, <1>3, NoCallIs
    <3> QED BY <1>2, <2>1, <3>1 DEF OffMeansNone, None, held
  <2> QED BY <2>3, <2>4, <2>5, <2>6
<1> QED BY <1>5, <1>6, <1>7, Assembled DEF Unclashed

(* A request that raises leaves all as it is, but for streams it closed.   *)
LEMMA LeaveKeeps ==
  ASSUME ControlAssumption, ControlInv, NEW h \in Calls, call[h].at # "connect",
         call' = [call EXCEPT ![h] = NoCall], streams' \subseteq streams,
         UNCHANGED <<flags, held, made, processors, cancelled_tasks, clashed>>
  PROVE  ControlInv'
<1> USE DEF flags, held
<1>1. /\ ControlTypeOK /\ CallKinds /\ Serving /\ ClientTypes /\ ProcessorTypes /\ FlagTypes
      /\ \A g \in Calls : CallShape(g)
  BY TypeParts DEF ControlInv
<1>2. /\ call'[h] = NoCall
      /\ \A g \in Calls \ {h} : call'[g] = call[g]
      /\ call' = [g \in Calls |-> call'[g]]
  BY <1>1, CallUpdate
<1>3. FlagTypes' /\ ClientTypes' /\ ProcessorTypes' /\ Serving'
  BY <1>1 DEF FlagTypes, ClientTypes, ProcessorTypes, Serving
<1>4. CallKinds'
  BY <1>1, <1>2, NoCallIs DEF CallKinds, Starts
<1>5. \A g \in Calls : CallShape(g)'
  <2>1. CallShape(h)'
    BY <1>2 DEF CallShape
  <2> QED BY <1>1, <1>2, <2>1, ShapesKept, ControlNumbers DEF ClientTypes
<1>6. ASSUME ~clashed'
      PROVE  StartsAlone' /\ StopsQuietly' /\ WorkIsKnown' /\ StreamsAreHeld' /\ OffMeansNone'
  <2>1. StartsAlone /\ StopsQuietly /\ WorkIsKnown /\ StreamsAreHeld /\ OffMeansNone
    BY <1>6 DEF ControlInv, Unclashed
  <2>2. Quiet => Quiet'
    BY DEF Quiet, Working, Live
  <2>3. StartsAlone'
    BY <1>2, <2>1, <2>2, NoCallIs DEF StartsAlone, Starts
  <2>4. StopsQuietly'
    BY <1>2, <2>1, <2>2, NoCallIs DEF StopsQuietly
  <2>5. WorkIsKnown' /\ StreamsAreHeld'
    BY <2>1 DEF WorkIsKnown, StreamsAreHeld, Working, Live
  <2>6. OffMeansNone'
    <3>1. \A g \in Calls : call[g].at = "connect" => call'[g].at = "connect"
      BY <1>2
    <3> QED BY <2>1, <3>1 DEF OffMeansNone, None
  <2> QED BY <2>3, <2>4, <2>5, <2>6
<1> QED BY <1>3, <1>4, <1>5, <1>6, Assembled DEF Unclashed

LEMMA SourcesStoppedKeeps ==
  ASSUME ControlAssumption, ControlInv, NEW h \in Calls, SourcesStopped(h)
  PROVE  ControlInv'
<1>1. clashed \in BOOLEAN
  BY DEF ControlInv, ControlTypeOK
<1>2. /\ call[h].at = "sources"
      /\ UNCHANGED <<zerobus_config_enabled, bridge_running, starting, shutdown, batch_tasks, made,
                     streams, processors, clashed>>
  BY DEF SourcesStopped
<1>3. CASE CancelProcessors(h, "stop")
  BY <1>1, <1>2, <1>3, CancelKeeps DEF Stops
<1>4. CASE /\ call' = [call EXCEPT ![h] = NoCall]
           /\ UNCHANGED <<zerobus_clients, zerobus_enabled, cancelled_tasks>>
  BY <1>2, <1>4, LeaveKeeps DEF flags, held
<1> QED BY <1>3, <1>4 DEF SourcesStopped

(* Who gathers or closes is stopping, and while stop_zerobus does, no      *)
(* request connects.                                                       *)
LEMMA StopsOnly ==
  ASSUME ControlTypeOK, CallKinds, NEW h \in Calls, call[h].at \in {"gather", "close"}
  PROVE  /\ call[h].op \in Stops /\ call[h].at # "connect"
         /\ StartsAlone /\ call[h].op = "stop_zerobus" => \A g \in Calls : call[g].at # "connect"
<1>1. call[h].op \in Stops /\ call[h].at # "connect"
  BY NoCallIs DEF ControlTypeOK, CallKinds, Operation, Starts, Stops
<1>2. ASSUME StartsAlone, call[h].op = "stop_zerobus", NEW g \in Calls, call[g].at = "connect"
      PROVE  FALSE
  <2>1. g # h
    BY <1>1, <1>2
  <2> QED BY <1>2, <2>1 DEF StartsAlone
<1> QED BY <1>1, <1>2

LEMMA GatheredKeeps ==
  ASSUME ControlAssumption, ControlInv, NEW h \in Calls, Gathered(h)
  PROVE  ControlInv'
<1> DEFINE op == call[h].op
           left == {t \in Target : zerobus_clients[t] # 0}
<1>1. /\ ControlTypeOK /\ CallKinds /\ ClientTypes /\ ProcessorTypes /\ clashed \in BOOLEAN
  BY TypeParts DEF ControlInv, FlagTypes
<1>2. /\ call[h].at = "gather" /\ CloseAll(h, op)
      /\ batch_tasks' = IF op = "stop_zerobus" THEN None ELSE batch_tasks
      /\ UNCHANGED <<zerobus_config_enabled, bridge_running, starting, shutdown, made, streams,
                     processors, cancelled_tasks, clashed>>
  BY DEF Gathered, Ended
<1>3. /\ op \in Stops /\ call[h].at # "connect"
      /\ StartsAlone /\ op = "stop_zerobus" => \A g \in Calls : call[g].at # "connect"
  BY <1>1, <1>2, StopsOnly
<1>4. ProcessorTypes'
  <2>1. \A t \in Target : batch_tasks'[t] = batch_tasks[t] \/ batch_tasks'[t] = 0
    BY <1>2 DEF None
  <2>2. \A t \in Target : batch_tasks'[t] \in Nat /\ batch_tasks'[t] \in 0 .. Len(processors[t])
    <3> SUFFICES ASSUME NEW t \in Target
                 PROVE  batch_tasks'[t] \in Nat /\ batch_tasks'[t] \in 0 .. Len(processors[t])
      OBVIOUS
    <3>1. /\ Len(processors[t]) \in Nat
          /\ batch_tasks[t] \in Nat /\ batch_tasks[t] \in 0 .. Len(processors[t])
      BY <1>1, ProcessorNumbers
    <3> QED BY <2>1, <3>1
  <2>3. batch_tasks' \in [Target -> Nat]
    BY <1>1, <1>2 DEF ProcessorTypes, None
  <2> QED BY <1>1, <1>2, <2>2, <2>3 DEF ProcessorTypes
<1>5. ASSUME ~clashed', op = "stop_zerobus"
      PROVE  Quiet' /\ \A g \in Calls : call[g].at # "connect"
  <2>1. StartsAlone /\ StopsQuietly
    BY <1>2, <1>5 DEF ControlInv, Unclashed
  <2>2. Quiet
    BY <1>5, <2>1 DEF StopsQuietly
  <2> QED BY <1>2, <1>3, <1>5, <2>1, <2>2, QuietKept
<1>6. CloseNext(h, op, left, Size(zerobus_clients), streams)
  BY <1>2 DEF CloseAll
<1>7. \A t \in Target : zerobus_clients[t] \in streams => t \in left
  <2>1. 0 \notin streams
    BY <1>1, ControlNumbers DEF ClientTypes
  <2> QED BY <2>1
<1>8. op = "stop" => UNCHANGED batch_tasks
  BY <1>2
<1> HIDE DEF op, left
<1> QED BY <1>1, <1>2, <1>3, <1>4, <1>5, <1>6, <1>7, <1>8, CloseNextKeeps

LEMMA CloseKeeps ==
  ASSUME ControlAssumption, ControlInv, NEW h \in Calls, Close(h)
  PROVE  ControlInv'
<1> DEFINE op == call[h].op
<1>1. /\ ControlTypeOK /\ CallKinds /\ Serving /\ ClientTypes /\ ProcessorTypes /\ FlagTypes
      /\ \A g \in Calls : CallShape(g)
  BY TypeParts DEF ControlInv
<1>2. /\ call[h].at = "close" /\ streams' = streams \ {call[h].client}
      /\ UNCHANGED <<zerobus_config_enabled, bridge_running, starting, shutdown, batch_tasks, made,
                     processors, cancelled_tasks, clashed>>
  BY DEF Close
<1>3. /\ op \in Stops /\ call[h].at # "connect"
      /\ StartsAlone /\ op = "stop_zerobus" => \A g \in Calls : call[g].at # "connect"
  BY <1>1, <1>2, StopsOnly
<1>4. /\ streams' \subseteq streams /\ ProcessorTypes' /\ clashed' \in BOOLEAN
      /\ cancelled_tasks \subseteq cancelled_tasks'
  BY <1>1, <1>2 DEF ProcessorTypes, FlagTypes
<1>5. CASE CloseNext(h, op, call[h].pending, call[h].size, streams')
  <2>1. ASSUME ~clashed', op = "stop_zerobus"
        PROVE  /\ Quiet'
               /\ \A t \in Target : zerobus_clients[t] \in streams' => t \in call[h].pending
               /\ \A g \in Calls : call[g].at # "connect"
    <3>1. StartsAlone /\ StopsQuietly
      BY <1>2, <2>1 DEF ControlInv, Unclashed
    <3>2. /\ Quiet
          /\ \A t \in Target : zerobus_clients[t] \in streams =>
               t \in call[h].pending \/ zerobus_clients[t] = call[h].client
      BY <1>2, <2>1, <3>1 DEF StopsQuietly
    <3> QED BY <1>2, <1>3, <2>1, <3>1, <3>2, QuietKept
  <2> HIDE DEF op
  <2> QED BY <1>2, <1>3, <1>4, <1>5, <2>1, CloseNextKeeps
<1>6. CASE call' = [call EXCEPT ![h] = NoCall] /\ UNCHANGED <<zerobus_clients, zerobus_enabled>>
  BY <1>2, <1>3, <1>4, <1>6, LeaveKeeps DEF flags, held
<1> QED BY <1>5, <1>6 DEF Close
-----------------------------------------------------------------------------
(* What is not changed keeps its part of the invariant. *)
LEMMA CallsUnchanged ==
  ASSUME ControlInv, UNCHANGED <<flags, held, made, call, clashed>>
  PROVE  /\ FlagTypes' /\ CallKinds' /\ \A g \in Calls : CallShape(g)'
         /\ streams' \subseteq 1 .. made => ClientTypes'
<1>1. FlagTypes /\ CallKinds /\ ClientTypes /\ \A g \in Calls : CallShape(g)
  BY TypeParts DEF ControlInv
<1>2. FlagTypes'
  BY <1>1 DEF FlagTypes, flags
<1>3. CallKinds' /\ \A g \in Calls : CallShape(g)'
  BY <1>1 DEF CallKinds, CallShape
<1>4. streams' \subseteq 1 .. made => ClientTypes'
  BY <1>1 DEF ClientTypes, held
<1> QED BY <1>2, <1>3, <1>4

(* A processor that goes on, or ends, among the others.                    *)
LEMMA OneProcessor ==
  ASSUME ProcessorTypes, Serving, NEW t \in Target, NEW k \in DOMAIN processors[t],
         NEW p \in Processor, processors' = [processors EXCEPT ![t][k] = p],
         p.at = "running" => p.client \in 1 .. made, Live(t, k),
         UNCHANGED <<batch_tasks, made, cancelled_tasks>>
  PROVE  /\ ProcessorTypes' /\ Serving'
         /\ \A u \in Target : DOMAIN processors'[u] = DOMAIN processors[u]
         /\ processors'[t][k] = p
         /\ \A u \in Target : \A j \in DOMAIN processors[u] :
              (u # t \/ j # k) => processors'[u][j] = processors[u][j]
         /\ \A u \in Target : \A j \in DOMAIN processors[u] : Working(u, j)' => Working(u, j)
<1>1. processors \in [Target -> Seq(Processor)]
  BY DEF ProcessorTypes
<1>2. /\ processors'[t] = [processors[t] EXCEPT ![k] = p]
      /\ \A u \in Target \ {t} : processors'[u] = processors[u]
      /\ processors' = [u \in Target |-> processors'[u]]
  BY <1>1
<1>3. /\ processors[t] \in Seq(Processor) /\ DOMAIN processors[t] = 1 .. Len(processors[t])
  BY ProcessorNumbers
<1>4. /\ processors'[t] \in Seq(Processor) /\ Len(processors'[t]) = Len(processors[t])
      /\ DOMAIN processors'[t] = DOMAIN processors[t]
      /\ processors'[t][k] = p
      /\ \A j \in DOMAIN processors[t] : j # k => processors'[t][j] = processors[t][j]
  BY <1>2, <1>3
<1>5. ProcessorTypes'
  <2>1. \A u \in Target : /\ processors'[u] \in Seq(Processor)
                          /\ Len(processors'[u]) = Len(processors[u])
    BY <1>1, <1>2, <1>4
  <2>2. processors' \in [Target -> Seq(Processor)]
    BY <1>2, <2>1
  <2> QED BY <2>1, <2>2 DEF ProcessorTypes
<1>6. /\ \A u \in Target : DOMAIN processors'[u] = DOMAIN processors[u]
      /\ \A u \in Target : \A j \in DOMAIN processors[u] :
           (u # t \/ j # k) => processors'[u][j] = processors[u][j]
  BY <1>2, <1>4
<1>7. Serving'
  BY <1>4, <1>6 DEF Serving
<1>8. ASSUME NEW u \in Target, NEW j \in DOMAIN processors[u], Working(u, j)'
      PROVE  Working(u, j)
  <2>1. CASE u = t /\ j = k
    BY <1>8, <2>1 DEF Working
  <2>2. CASE u # t \/ j # k
    BY <1>6, <1>8, <2>2 DEF Working, Live
  <2> QED BY <2>1, <2>2
<1> QED BY <1>4, <1>5, <1>6, <1>7, <1>8

(* While a processor works no start connects and no stop_zerobus waits.    *)
LEMMA WorkMeansNoChange ==
  ASSUME ControlInv, ~clashed, NEW t \in Target, NEW k \in DOMAIN processors[t], Working(t, k)
  PROVE  /\ ~Quiet /\ WorkIsKnown /\ StreamsAreHeld /\ OffMeansNone
         /\ \A h \in Calls : call[h].at # "connect" /\ call[h].op # "stop_zerobus"
BY DEF ControlInv, Unclashed, StartsAlone, StopsQuietly, Quiet

LEMMA ProcessorBeginsKeeps ==
  ASSUME ControlAssumption, ControlInv, NEW t \in Target, NEW k \in DOMAIN processors[t],
         ProcessorBegins(t, k)
  PROVE  ControlInv'
<1> DEFINE p == [client |-> zerobus_clients[t],
                 at |-> IF zerobus_clients[t] = 0 THEN "ended" ELSE "running"]
<1>1. ProcessorTypes /\ ClientTypes /\ Serving
  BY TypeParts DEF ControlInv
<1>2. /\ Working(t, k) /\ Live(t, k) /\ processors' = [processors EXCEPT ![t][k] = p]
      /\ UNCHANGED <<flags, held, made, streams, cancelled_tasks, call, clashed>>
  BY DEF ProcessorBegins, Working
<1>3. /\ made \in Nat /\ MaxClients \in Nat /\ made <= MaxClients /\ zerobus_clients[t] \in 0 .. made
  BY <1>1, ControlNumbers DEF ClientTypes
<1>4. p \in Processor /\ (p.at = "running" => p.client \in 1 .. made) /\ p.at # "new"
      /\ p.client = zerobus_clients[t]
  BY <1>3 DEF Processor
<1> HIDE DEF p
<1>5. /\ ProcessorTypes' /\ Serving'
      /\ \A u \in Target : DOMAIN processors'[u] = DOMAIN processors[u]
      /\ processors'[t][k] = p
      /\ \A u \in Target : \A j \in DOMAIN processors[u] :
           (u # t \/ j # k) => processors'[u][j] = processors[u][j]
      /\ \A u \in Target : \A j \in DOMAIN processors[u] : Working(u, j)' => Working(u, j)
  <2>1. UNCHANGED <<batch_tasks, made, cancelled_tasks>>
    BY <1>2 DEF held
  <2> QED BY <1>1, <1>2, <1>4, <2>1, OneProcessor
<1>6. FlagTypes' /\ CallKinds' /\ ClientTypes' /\ \A g \in Calls : CallShape(g)'
  <2>1. streams' \subseteq 1 .. made
    BY <1>1, <1>2 DEF ClientTypes
  <2> QED BY <1>2, <2>1, CallsUnchanged
<1>7. ASSUME ~clashed'
      PROVE  StartsAlone' /\ StopsQuietly' /\ WorkIsKnown' /\ StreamsAreHeld' /\ OffMeansNone'
  <2>1. /\ WorkIsKnown /\ StreamsAreHeld /\ OffMeansNone
        /\ \A h \in Calls : call[h].at # "connect" /\ call[h].op # "stop_zerobus"
    BY <1>2, <1>7, WorkMeansNoChange
  <2>2. StartsAlone' /\ StopsQuietly'
    BY <1>2, <2>1 DEF StartsAlone, StopsQuietly
  <2>3. StreamsAreHeld' /\ OffMeansNone'
    BY <1>2, <2>1 DEF StreamsAreHeld, OffMeansNone, held, flags
  <2>4. WorkIsKnown'
    <3> SUFFICES ASSUME NEW u \in Target, NEW j \in DOMAIN processors'[u], Working(u, j)'
                 PROVE  /\ batch_tasks'[u] = j /\ zerobus_enabled' /\ zerobus_clients'[u] # 0
                        /\ processors'[u][j].at = "running" =>
                             processors'[u][j].client = zerobus_clients'[u]
      BY DEF WorkIsKnown
    <3>1. j \in DOMAIN processors[u] /\ Working(u, j)
      BY <1>5
    <3>2. /\ batch_tasks[u] = j /\ zerobus_enabled /\ zerobus_clients[u] # 0
          /\ processors[u][j].at = "running" => processors[u][j].client = zerobus_clients[u]
      BY <2>1, <3>1 DEF WorkIsKnown
    <3>3. UNCHANGED <<batch_tasks, zerobus_enabled, zerobus_clients>>
      BY <1>2 DEF held, flags
    <3>4. CASE u = t /\ j = k
      BY <1>4, <1>5, <3>2, <3>3, <3>4
    <3>5. CASE u # t \/ j # k
      BY <1>5, <3>1, <3>2, <3>3, <3>5
    <3> QED BY <3>4, <3>5
  <2> QED BY <2>2, <2>3, <2>4
<1> QED BY <1>5, <1>6, <1>7, Assembled DEF Unclashed

LEMMA ProcessorReconnectsKeeps ==
  ASSUME ControlAssumption, ControlInv, NEW t \in Target, NEW k \in DOMAIN processors[t],
         ProcessorReconnects(t, k)
  PROVE  ControlInv'
<1>1. ProcessorTypes /\ ClientTypes /\ Serving
  BY TypeParts DEF ControlInv
<1>2. /\ Working(t, k) /\ processors[t][k].at = "running"
      /\ streams' = streams \union {processors[t][k].client}
      /\ UNCHANGED <<flags, held, made, processors, cancelled_tasks, call, clashed>>
  BY DEF ProcessorReconnects
<1>3. streams' \subseteq 1 .. made
  BY <1>1, <1>2 DEF ClientTypes, Serving
<1>4. FlagTypes' /\ CallKinds' /\ ClientTypes' /\ \A g \in Calls : CallShape(g)'
  BY <1>2, <1>3, CallsUnchanged
<1>5. ProcessorTypes' /\ Serving'
  BY <1>1, <1>2 DEF ProcessorTypes, Serving, held
<1>6. ASSUME ~clashed'
      PROVE  StartsAlone' /\ StopsQuietly' /\ WorkIsKnown' /\ StreamsAreHeld' /\ OffMeansNone'
  <2>1. /\ WorkIsKnown /\ StreamsAreHeld /\ OffMeansNone
        /\ \A h \in Calls : call[h].at # "connect" /\ call[h].op # "stop_zerobus"
    BY <1>2, <1>6, WorkMeansNoChange
  <2>2. StartsAlone' /\ StopsQuietly'
    BY <1>2, <2>1 DEF StartsAlone, StopsQuietly
  <2>3. WorkIsKnown' /\ OffMeansNone'
    BY <1>2, <2>1 DEF WorkIsKnown, OffMeansNone, Working, Live, held, flags
  <2>4. StreamsAreHeld'
    <3>1. processors[t][k].client = zerobus_clients[t]
      BY <1>2, <2>1 DEF WorkIsKnown
    <3> QED BY <1>2, <2>1, <3>1 DEF StreamsAreHeld, held
  <2> QED BY <2>2, <2>3, <2>4
<1> QED BY <1>4, <1>5, <1>6, Assembled DEF Unclashed

LEMMA ProcessorEndsKeeps ==
  ASSUME ControlAssumption, ControlInv, NEW t \in Target, NEW k \in DOMAIN processors[t],
         ProcessorEnds(t, k)
  PROVE  ControlInv'
<1> DEFINE p == [processors[t][k] EXCEPT !.at = "ended"]
<1>1. ProcessorTypes /\ ClientTypes /\ Serving
  BY TypeParts DEF ControlInv
<1>2. /\ Live(t, k) /\ processors' = [processors EXCEPT ![t][k] = p]
      /\ UNCHANGED <<flags, held, made, streams, cancelled_tasks, call, clashed>>
  <2>1. processors' = [processors EXCEPT ![t][k].at = "ended"]
    BY DEF ProcessorEnds
  <2>2. processors' = [processors EXCEPT ![t][k] = p]
    BY <2>1
  <2> QED BY <2>2 DEF ProcessorEnds
<1>3. p \in Processor /\ p.at = "ended"
  <2>1. processors[t][k] \in Processor
    BY <1>1, ProcessorNumbers
  <2> QED BY <2>1 DEF Processor
<1> HIDE DEF p
<1>4. /\ ProcessorTypes' /\ Serving'
      /\ \A u \in Target : DOMAIN processors'[u] = DOMAIN processors[u]
      /\ processors'[t][k] = p
      /\ \A u \in Target : \A j \in DOMAIN processors[u] :
           (u # t \/ j # k) => processors'[u][j] = processors[u][j]
      /\ \A u \in Target : \A j \in DOMAIN processors[u] : Working(u, j)' => Working(u, j)
  <2>1. UNCHANGED <<batch_tasks, made, cancelled_tasks>>
    BY <1>2 DEF held
  <2> QED BY <1>1, <1>2, <1>3, <2>1, OneProcessor
<1>5. FlagTypes' /\ CallKinds' /\ ClientTypes' /\ \A g \in Calls : CallShape(g)'
  <2>1. streams' \subseteq 1 .. made
    BY <1>1, <1>2 DEF ClientTypes
  <2> QED BY <1>2, <2>1, CallsUnchanged
<1>6. ASSUME ~clashed'
      PROVE  StartsAlone' /\ StopsQuietly' /\ WorkIsKnown' /\ StreamsAreHeld' /\ OffMeansNone'
  <2>1. StartsAlone /\ StopsQuietly /\ WorkIsKnown /\ StreamsAreHeld /\ OffMeansNone
    BY <1>2, <1>6 DEF ControlInv, Unclashed
  <2>2. Quiet => Quiet'
    BY <1>4 DEF Quiet
  <2>3. StartsAlone' /\ StopsQuietly'
    BY <1>2, <2>1, <2>2 DEF StartsAlone, StopsQuietly, held
  <2>4. StreamsAreHeld' /\ OffMeansNone'
    BY <1>2, <2>1 DEF StreamsAreHeld, OffMeansNone, held, flags
  <2>5. WorkIsKnown'
    <3> SUFFICES ASSUME NEW u \in Target, NEW j \in DOMAIN processors'[u], Working(u, j)'
                 PROVE  /\ batch_tasks'[u] = j /\ zerobus_enabled' /\ zerobus_clients'[u] # 0
                        /\ processors'[u][j].at = "running" =>
                             processors'[u][j].client = zerobus_clients'[u]
      BY DEF WorkIsKnown
    <3>1. j \in DOMAIN processors[u] /\ Working(u, j)
      BY <1>4
    <3>2. u # t \/ j # k
      BY <1>3, <1>4 DEF Working, Live
    <3> QED BY <1>2, <1>4, <2>1, <3>1, <3>2 DEF WorkIsKnown, held, flags
  <2> QED BY <2>3, <2>4, <2>5
<1> QED BY <1>4, <1>5, <1>6, Assembled DEF Unclashed

LEMMA ControlInitially ==
  ASSUME ControlAssumption, ControlInit
  PROVE  ControlInv
<1>1. FlagTypes
  BY DEF ControlInit, FlagTypes
<1>2. None \in [Target -> 0 .. 0] /\ None \in [Target -> Nat] /\ \A t \in Target : None[t] = 0
  BY DEF None
<1>3. ClientTypes
  BY <1>2, ControlNumbers DEF ControlInit, ClientTypes
<1>4. ProcessorTypes /\ Quiet /\ Serving
  <2>1. <<>> \in Seq(Processor) /\ Len(<<>>) = 0 /\ DOMAIN <<>> = {}
    OBVIOUS
  <2>2. /\ processors \in [Target -> Seq(Processor)]
        /\ \A t \in Target : processors[t] = <<>> /\ batch_tasks[t] = 0
        /\ batch_tasks \in [Target -> Nat] /\ cancelled_tasks = {}
    BY <1>2, <2>1 DEF ControlInit
  <2>3. ProcessorTypes
    BY <2>1, <2>2 DEF ProcessorTypes
  <2>4. \A t \in Target : DOMAIN processors[t] = {}
    BY <2>1, <2>2
  <2> QED BY <2>3, <2>4 DEF Quiet, Serving
<1>5. \A h \in Calls : call[h] = NoCall /\ CallShape(h)
  BY DEF ControlInit, CallShape
<1>6. CallKinds
  BY <1>5, NoCallIs DEF ControlInit, CallKinds, Starts
<1>7. Unclashed
  <2>1. StartsAlone /\ StopsQuietly
    BY <1>5, NoCallIs DEF StartsAlone, StopsQuietly
  <2>2. WorkIsKnown /\ StreamsAreHeld /\ OffMeansNone
    BY <1>4 DEF WorkIsKnown, StreamsAreHeld, OffMeansNone, Quiet, ControlInit
  <2> QED BY <2>1, <2>2 DEF Unclashed
<1> QED BY <1>1, <1>3, <1>4, <1>5, <1>6, <1>7, TypeParts DEF ControlInv

LEMMA ControlStutters ==
  ASSUME ControlInv, UNCHANGED controlVars
  PROVE  ControlInv'
<1>1. /\ ProcessorTypes /\ ClientTypes /\ Serving
      /\ UNCHANGED <<flags, held, made, streams, processors, cancelled_tasks, call, clashed>>
  BY TypeParts DEF ControlInv, controlVars
<1>2. FlagTypes' /\ CallKinds' /\ ClientTypes' /\ \A g \in Calls : CallShape(g)'
  BY <1>1, CallsUnchanged DEF ClientTypes
<1>3. ProcessorTypes' /\ Serving'
  BY <1>1 DEF ProcessorTypes, Serving, held
<1>4. ASSUME ~clashed'
      PROVE  StartsAlone' /\ StopsQuietly' /\ WorkIsKnown' /\ StreamsAreHeld' /\ OffMeansNone'
  <2>1. StartsAlone /\ StopsQuietly /\ WorkIsKnown /\ StreamsAreHeld /\ OffMeansNone
    BY <1>1, <1>4 DEF ControlInv, Unclashed
  <2>2. Quiet => Quiet'
    BY <1>1, QuietKept
  <2>3. StartsAlone' /\ StopsQuietly'
    BY <1>1, <2>1, <2>2 DEF StartsAlone, StopsQuietly, held
  <2>4. WorkIsKnown' /\ StreamsAreHeld' /\ OffMeansNone'
    BY <1>1, <2>1 DEF WorkIsKnown, StreamsAreHeld, OffMeansNone, Working, Live, held, flags
  <2> QED BY <2>3, <2>4
<1> QED BY <1>2, <1>3, <1>4, Assembled DEF Unclashed

(* Every step of a request or a processor keeps the control invariant: a   *)
(* start that did not clash connects alone, while nothing works; what      *)
(* works is in the table, and open streams belong to clients that are.     *)
LEMMA ControlRuns ==
  ASSUME ControlAssumption
  PROVE  ControlInit /\ [][ControlNext]_controlVars => []ControlInv
<1>1. ControlInit => ControlInv
  BY ControlInitially
<1>2. ControlInv /\ [ControlNext]_controlVars => ControlInv'
  <2> SUFFICES ASSUME ControlInv, [ControlNext]_controlVars PROVE ControlInv'
    OBVIOUS
  <2>1. CASE UNCHANGED controlVars
    BY <2>1, ControlStutters
  <2>2. ASSUME NEW h \in Calls,
               \/ StartInfra(h) \/ StartZerobus(h) \/ Connect(h) \/ StopZerobus(h)
               \/ Stop(h) \/ SourcesStopped(h) \/ Gathered(h) \/ Close(h)
        PROVE  ControlInv'
    BY <2>2, StartInfraKeeps, StartZerobusKeeps, ConnectKeeps, StopZerobusKeeps,
       StopKeeps, SourcesStoppedKeeps, GatheredKeeps, CloseKeeps
  <2>3. ASSUME NEW t \in Target, NEW k \in DOMAIN processors[t],
               ProcessorBegins(t, k) \/ ProcessorReconnects(t, k) \/ ProcessorEnds(t, k)
        PROVE  ControlInv'
    BY <2>3, ProcessorBeginsKeeps, ProcessorReconnectsKeeps, ProcessorEndsKeeps
  <2> QED BY <2>1, <2>2, <2>3 DEF ControlNext
<1> QED BY <1>1, <1>2, PTL

THEOREM ControlInvariant == ASSUME ControlAssumption PROVE ControlSpec => []ControlInv
BY ControlAssumption, ControlRuns, PTL DEF ControlSpec

LEMMA ControlIsSound == ControlInv => ControlSound
<1> SUFFICES ASSUME ControlInv PROVE ControlSound
  OBVIOUS
<1>1. ProcessorsAreKnown
  BY DEF ControlInv, Unclashed, WorkIsKnown, ProcessorsAreKnown
<1>2. QuietWhenDisabled
  BY DEF ControlInv, Unclashed, WorkIsKnown, QuietWhenDisabled
<1>3. ClosedWhenDisabled
  <2> SUFFICES ASSUME ~clashed, ~zerobus_enabled, AllIdle PROVE streams = {}
    BY DEF ClosedWhenDisabled
  <2>1. OffMeansNone /\ StreamsAreHeld /\ ClientTypes
    BY TypeParts DEF ControlInv, Unclashed
  <2>2. zerobus_clients = None
    BY <2>1, NoCallIs DEF OffMeansNone, AllIdle
  <2>3. 0 \notin streams
    BY <2>1, ControlNumbers DEF ClientTypes
  <2> QED BY <2>1, <2>2, <2>3 DEF StreamsAreHeld, None
<1> QED BY <1>1, <1>2, <1>3 DEF ControlSound, ControlInv

(* For any number of targets and of requests in flight: unless a start     *)
(* clashed with another request, every processor that goes on sending is   *)
(* in the table that stop and stop_zerobus cancel from, and a ZeroBus that *)
(* is off, with no request in progress, sends nothing and has no stream.   *)
THEOREM ControlCorrect == ASSUME ControlAssumption PROVE ControlSpec => []ControlSound
BY ControlAssumption, ControlInvariant, ControlIsSound, PTL

-----------------------------------------------------------------------------
(* The list of pages                                                       *)

(* A set of numbers that is not empty has a least one: what the proofs have *)
(* for induction along a recursive function.                               *)
LEMMA LeastNat ==
  ASSUME NEW N \in SUBSET Nat, N # {}
  PROVE  \E x \in N : \A y \in N : x <= y
<1> DEFINE Below == OpToRel(<, Nat)
<1>1. IsWellFoundedOn(Below, Nat)
  BY NatLessThanWellFounded, Zenon
<1>2. \A x, y \in Nat : y < x => <<y, x>> \in Below
  BY DEF OpToRel
<1> HIDE DEF Below
<1>3. PICK x \in N : \A y \in N : ~ (<<y, x>> \in Below)
  BY <1>1, WFMin, Zenon
<1>4. x \in Nat /\ N \subseteq Nat
  OBVIOUS
<1>5. ASSUME NEW y \in N PROVE x <= y
  <2>1. y \in Nat
    OBVIOUS
  <2>2. ~ (y < x)
    BY <1>2, <1>3, <1>4, <2>1, Zenon
  <2> QED BY <1>4, <2>1, <2>2
<1> QED BY <1>5, Zenon

(* A set that has 0 and with every number the next one has them all.       *)
LEMMA SetInduction ==
  ASSUME NEW S \in SUBSET Nat, 0 \in S, \A n \in S : n + 1 \in S
  PROVE  S = Nat
<1> SUFFICES ASSUME Nat \ S # {} PROVE FALSE
  OBVIOUS
<1>1. PICK x \in Nat \ S : \A y \in Nat \ S : x <= y
  BY LeastNat
<1>2. x # 0 /\ x - 1 \in Nat /\ x - 1 \in S
  BY <1>1
<1> QED BY <1>2, <1>1

(* What each step of Without does to the list so far. *)
Left(seq, c, gone) == IF c \in gone THEN seq ELSE Append(seq, c)

(* The recursion along a list has a value at each of its positions. *)
LEMMA WithoutSteps ==
  ASSUME NEW s, NEW gone, Len(s) \in Nat
  PROVE  \E f : /\ f[0] = <<>>
                /\ \A k \in 1 .. Len(s) : f[k] = Left(f[k - 1], s[k], gone)
                /\ F!Without(s, gone) = f[Len(s)]
<1> DEFINE n == Len(s)
           Next1(m, k) == Left(m, s[k], gone)
           Good(f, k) == /\ f = [i \in 0 .. k |-> f[i]] /\ f[0] = <<>>
                         /\ \A i \in 1 .. k : f[i] = Next1(f[i - 1], i)
<1>1. n \in Nat
  OBVIOUS
<1>2. \A k \in Nat : \E f : Good(f, k)
  <2> HIDE DEF Next1
  <2> DEFINE N == {k \in Nat : \E f : Good(f, k)}
  <2>1. 0 \in N
    <3> DEFINE g == [i \in 0 .. 0 |-> <<>>]
    <3>1. g = [i \in 0 .. 0 |-> g[i]] /\ g[0] = <<>>
      OBVIOUS
    <3> HIDE DEF g
    <3>2. Good(g, 0)
      BY <3>1
    <3> HIDE DEF Good
    <3> QED BY <3>2
  <2>2. ASSUME NEW k \in N PROVE k + 1 \in N
    <3>1. PICK f : Good(f, k)
      OBVIOUS
    <3> DEFINE g == [i \in 0 .. k + 1 |-> IF i = k + 1 THEN Next1(f[k], k + 1) ELSE f[i]]
    <3>2. g = [i \in 0 .. k + 1 |-> g[i]] /\ g[0] = <<>>
      BY <3>1
    <3>3. ASSUME NEW i \in 1 .. k + 1 PROVE g[i] = Next1(g[i - 1], i)
      <4>1. CASE i = k + 1
        <5>1. g[i] = Next1(f[k], k + 1) /\ g[i - 1] = f[k]
          BY <4>1
        <5> HIDE DEF g
        <5> QED BY <4>1, <5>1
      <4>2. CASE i # k + 1
        <5>1. i \in 1 .. k /\ i - 1 \in 0 .. k + 1 /\ i - 1 # k + 1
          BY <4>2
        <5>2. g[i] = f[i] /\ g[i - 1] = f[i - 1]
          BY <5>1
        <5> HIDE DEF g
        <5> QED BY <3>1, <5>1, <5>2
      <4> QED BY <4>1, <4>2
    <3> HIDE DEF g
    <3>4. Good(g, k + 1)
      BY <3>2, <3>3
    <3> HIDE DEF Good
    <3> QED BY <3>4
  <2>3. N = Nat
    <3> HIDE DEF N
    <3>1. N \in SUBSET Nat
      BY DEF N
    <3> QED BY <2>1, <2>2, <3>1, SetInduction
  <2> QED BY <2>3
<1> DEFINE Sound(f) == f = [i \in 0 .. n |->
                              IF i = 0 THEN <<>>
                              ELSE IF s[i] \in gone THEN f[i - 1] ELSE Append(f[i - 1], s[i])]
<1>3. \E f : Sound(f)
  <2>1. PICK f : Good(f, n)
    <3> HIDE DEF Good, n
    <3> QED BY <1>1, <1>2
  <2>2. \A i \in 0 .. n :
          f[i] = IF i = 0 THEN <<>>
                 ELSE IF s[i] \in gone THEN f[i - 1] ELSE Append(f[i - 1], s[i])
    <3> HIDE DEF n
    <3>1. \A i \in 0 .. n : i = 0 \/ i \in 1 .. n
      BY <1>1
    <3> QED BY <2>1, <3>1 DEF Left
  <2>3. f = [i \in 0 .. n |-> f[i]]
    BY <2>1
  <2>4. Sound(f)
    BY <2>2, <2>3
  <2> QED BY <2>4
<1> DEFINE g == CHOOSE f : Sound(f)
<1>4. F!Without(s, gone) = g[n]
  BY DEF F!Without
<1>5. Sound(g)
  BY <1>3
<1>6. g[0] = <<>> /\ \A k \in 1 .. n : g[k] = Left(g[k - 1], s[k], gone)
  <2> HIDE DEF g
  <2>1. g = [i \in 0 .. n |-> IF i = 0 THEN <<>>
                              ELSE IF s[i] \in gone THEN g[i - 1] ELSE Append(g[i - 1], s[i])]
    BY <1>5
  <2> HIDE DEF n
  <2>2. g[0] = <<>>
    BY <1>1, <2>1
  <2>3. ASSUME NEW k \in 1 .. n PROVE g[k] = Left(g[k - 1], s[k], gone)
    <3>1. k \in 0 .. n /\ k # 0
      BY <1>1
    <3>2. g[k] = IF k = 0 THEN <<>>
                 ELSE IF s[k] \in gone THEN g[k - 1] ELSE Append(g[k - 1], s[k])
      BY <2>1, <3>1
    <3> QED BY <3>1, <3>2 DEF Left
  <2> QED BY <2>2, <2>3
<1> QED BY <1>4, <1>6

LEMMA AppendPage ==
  ASSUME NEW s \in Seq(Sockets), NEW c \in Sockets
  PROVE  /\ Append(s, c) \in Seq(Sockets)
         /\ Elems(Append(s, c)) = Elems(s) \union {c}
         /\ NoRepeats(s) /\ c \notin Elems(s) => NoRepeats(Append(s, c))
<1> DEFINE a == Append(s, c)
<1>1. /\ a \in Seq(Sockets) /\ Len(a) = Len(s) + 1
      /\ \A i \in 1 .. Len(s) : a[i] = s[i]
      /\ a[Len(s) + 1] = c
  BY AppendProperties
<1>2. DOMAIN s = 1 .. Len(s) /\ Len(s) \in Nat /\ DOMAIN a = 1 .. Len(s) + 1
  BY <1>1, LenProperties
<1>3. Elems(a) = Elems(s) \union {c}
  BY <1>1, <1>2 DEF Elems
<1>4. ASSUME NoRepeats(s), c \notin Elems(s) PROVE NoRepeats(a)
  <2> SUFFICES ASSUME NEW i \in 1 .. Len(s) + 1, NEW j \in 1 .. Len(s) + 1, a[i] = a[j]
               PROVE  i = j
    BY <1>2 DEF NoRepeats
  <2>1. \A k \in 1 .. Len(s) : s[k] # c
    BY <1>2, <1>4 DEF Elems
  <2> QED BY <1>1, <1>2, <1>4, <2>1 DEF NoRepeats
<1> QED BY <1>1, <1>3, <1>4

(* Without takes off what it is told to, and nothing twice.                *)
LEMMA WithoutFacts ==
  ASSUME NEW s \in Seq(Sockets), NEW gone, NoRepeats(s)
  PROVE  /\ F!Without(s, gone) \in Seq(Sockets)
         /\ Elems(F!Without(s, gone)) = Elems(s) \ gone
         /\ NoRepeats(F!Without(s, gone))
<1> DEFINE n == Len(s)
<1>1. n \in Nat /\ DOMAIN s = 1 .. n /\ \A i \in 1 .. n : s[i] \in Sockets
  BY LenProperties, ElementOfSeq
<1>2. PICK f : /\ f[0] = <<>>
               /\ \A k \in 1 .. n : f[k] = Left(f[k - 1], s[k], gone)
               /\ F!Without(s, gone) = f[n]
  BY <1>1, WithoutSteps
<1> DEFINE Upto(k) == {s[i] : i \in 1 .. k}
           Good(k) == f[k] \in Seq(Sockets) /\ Elems(f[k]) = Upto(k) \ gone /\ NoRepeats(f[k])
           N == {k \in Nat : k <= n => Good(k)}
<1>3. Elems(s) = Upto(n)
  BY <1>1 DEF Elems
<1>4. \A i, j \in 1 .. n : s[i] = s[j] => i = j
  BY <1>1 DEF NoRepeats
<1> HIDE DEF n
<1>5. 0 \in N
  <2>1. <<>> \in Seq(Sockets) /\ Elems(<<>>) = {} /\ NoRepeats(<<>>) /\ Upto(0) = {}
    BY DEF Elems, NoRepeats
  <2> QED BY <1>2, <2>1
<1>6. ASSUME NEW k \in N PROVE k + 1 \in N
  <2> SUFFICES ASSUME k + 1 <= n PROVE Good(k + 1)
    OBVIOUS
  <2>1. k \in Nat /\ Good(k) /\ k + 1 \in 1 .. n /\ k + 1 - 1 = k
    BY <1>1
  <2>2. f[k + 1] = Left(f[k], s[k + 1], gone) /\ s[k + 1] \in Sockets
    BY <1>1, <1>2, <2>1
  <2>3. s[k + 1] \notin Upto(k)
    BY <1>1, <1>4, <2>1
  <2>4. Upto(k + 1) = Upto(k) \union {s[k + 1]}
    <3>1. 1 .. k + 1 = (1 .. k) \union {k + 1}
      BY <2>1
    <3> QED BY <3>1
  <2> HIDE DEF Upto
  <2>5. CASE s[k + 1] \in gone
    BY <2>1, <2>2, <2>4, <2>5 DEF Left
  <2>6. CASE s[k + 1] \notin gone
    <3>1. f[k + 1] = Append(f[k], s[k + 1])
      BY <2>2, <2>6 DEF Left
    <3>2. f[k] \in Seq(Sockets) /\ NoRepeats(f[k]) /\ s[k + 1] \notin Elems(f[k])
      BY <2>1, <2>3
    <3>3. /\ f[k + 1] \in Seq(Sockets) /\ NoRepeats(f[k + 1])
          /\ Elems(f[k + 1]) = Elems(f[k]) \union {s[k + 1]}
      BY <2>2, <3>1, <3>2, AppendPage
    <3> QED BY <2>1, <2>4, <2>6, <3>3
  <2> QED BY <2>5, <2>6
<1>7. N = Nat
  <2> HIDE DEF N
  <2>1. N \in SUBSET Nat
    BY DEF N
  <2> QED BY <1>5, <1>6, <2>1, SetInduction
<1>8. Good(n)
  <2> HIDE DEF Good
  <2> QED BY <1>1, <1>7
<1> QED BY <1>2, <1>3, <1>8

-----------------------------------------------------------------------------
(* SmartFactory                                                            *)

(* The list has no page twice, every open page, and none that did not      *)
(* connect yet.                                                            *)
PagesInv ==
  /\ active \in Seq(Sockets) /\ NoRepeats(active)
  /\ socket \in [Sockets -> {"new", "open", "gone", "closed"}]
  /\ \A s \in Sockets : socket[s] = "new" => s \notin Elems(active)
  /\ \A s \in Sockets : socket[s] = "open" => s \in Elems(active)

(* What a broadcast took for dead is, and stays so.                        *)
SimulatorTask ==
  [at : {"new", "sleeping", "pushing", "sending", "done"}, cancelled : BOOLEAN, next : Nat,
   dead : Seq(Sockets), shown : BOOLEAN]

Buries(record) ==
  /\ record \in SimulatorTask
  /\ record.at = "sending" => record.next >= 1
  /\ \A s \in Elems(record.dead) : socket[s] \in {"gone", "closed"}

TasksInv == task \in [F!Tasks -> SimulatorTask] /\ \A t \in F!Tasks : Buries(task[t])

MachineInv ==
  /\ simulatorTask \in F!Tasks \union {0} /\ stopping \in F!Tasks \union {0}
  /\ fault \in BOOLEAN /\ progress \in 0 .. FullFault /\ (fault = FALSE => progress = 0)

FactoryInv == PagesInv /\ TasksInv /\ MachineInv

LEMMA PutTask ==
  ASSUME TasksInv, NEW t \in F!Tasks, NEW record, Buries(record),
         task' = [task EXCEPT ![t] = record], UNCHANGED socket
  PROVE  TasksInv'
<1>1. \A u \in F!Tasks : task'[u] = IF u = t THEN record ELSE task[u]
  BY DEF TasksInv
<1>2. task' \in [F!Tasks -> SimulatorTask]
  BY DEF TasksInv, Buries
<1>3. \A u \in F!Tasks : Buries(task'[u])
  BY <1>1 DEF TasksInv
<1>4. \A u \in F!Tasks : Buries(task[u])'
  BY <1>3 DEF Buries
<1> QED BY <1>2, <1>4 DEF TasksInv

LEMMA SameTasks ==
  ASSUME TasksInv, UNCHANGED <<task, socket>>
  PROVE  TasksInv'
BY DEF TasksInv, Buries

LEMMA SamePages ==
  ASSUME PagesInv, UNCHANGED <<active, socket>>
  PROVE  PagesInv'
BY DEF PagesInv, Elems, NoRepeats

LEMMA FreshTask ==
  ASSUME NEW place \in {"new", "sleeping", "done"}
  PROVE  Buries([F!NewTask EXCEPT !.at = place])
<1> DEFINE fresh == F!NewTask
           record == [fresh EXCEPT !.at = place]
<1>1. fresh \in SimulatorTask /\ fresh.dead = <<>>
  <2>1. <<>> \in Seq(Sockets)
    OBVIOUS
  <2> QED BY <2>1 DEF F!NewTask, SimulatorTask
<1> HIDE DEF fresh
<1>2. record \in SimulatorTask /\ record.at = place /\ record.dead = fresh.dead
  BY <1>1 DEF SimulatorTask
<1> HIDE DEF record
<1>3. record.at # "sending" /\ Elems(record.dead) = {}
  BY <1>1, <1>2 DEF Elems
<1>4. Buries(record)
  BY <1>2, <1>3 DEF Buries
<1> QED BY <1>4 DEF record, fresh

(* Changes of a field of a task. *)
LEMMA TaskFields ==
  ASSUME TasksInv, NEW t \in F!Tasks
  PROVE  /\ task[t] \in SimulatorTask /\ Buries(task[t])
         /\ \A at \in {"new", "sleeping", "pushing", "done"} :
              /\ [task EXCEPT ![t].at = at] = [task EXCEPT ![t] = [task[t] EXCEPT !.at = at]]
              /\ Buries([task[t] EXCEPT !.at = at])
         /\ /\ [task EXCEPT ![t].cancelled = TRUE]
                = [task EXCEPT ![t] = [task[t] EXCEPT !.cancelled = TRUE]]
            /\ Buries([task[t] EXCEPT !.cancelled = TRUE])
<1>1. task[t] \in SimulatorTask /\ Buries(task[t])
  BY DEF TasksInv
<1>2. ASSUME NEW at \in {"new", "sleeping", "pushing", "done"}
      PROVE  /\ [task EXCEPT ![t].at = at] = [task EXCEPT ![t] = [task[t] EXCEPT !.at = at]]
             /\ Buries([task[t] EXCEPT !.at = at])
  <2> DEFINE record == [task[t] EXCEPT !.at = at]
  <2>1. record \in SimulatorTask /\ record.at = at /\ record.dead = task[t].dead
    BY <1>1 DEF SimulatorTask
  <2>2. Buries(record)
    BY <1>1, <2>1 DEF Buries
  <2> QED BY <2>2
<1>3. Buries([task[t] EXCEPT !.cancelled = TRUE])
  <2> DEFINE record == [task[t] EXCEPT !.cancelled = TRUE]
  <2>1. /\ record \in SimulatorTask /\ record.at = task[t].at /\ record.next = task[t].next
        /\ record.dead = task[t].dead
    BY <1>1 DEF SimulatorTask
  <2> HIDE DEF record
  <2>2. Buries(record)
    BY <1>1, <2>1 DEF Buries
  <2> QED BY <2>2 DEF record
<1> QED BY <1>1, <1>2, <1>3

(* The steps of a simulator task but the broadcast, and the requests that  *)
(* start and stop it.                                                      *)
LEMMA SimulatorKeeps ==
  ASSUME F!FactoryAssumption, FactoryInv, NEW t \in F!Tasks,
         \/ F!StartSimulator(t) \/ F!StopSimulator \/ F!TaskEnds(t) \/ F!StopReturns
         \/ F!Tick(t)
  PROVE  FactoryInv'
<1>0. PagesInv /\ TasksInv /\ MachineInv
  BY DEF FactoryInv
<1>1. CASE F!StartSimulator(t)
  <2>1. TasksInv'
    BY <1>0, <1>1, TaskFields, PutTask DEF F!StartSimulator
  <2>2. PagesInv' /\ MachineInv'
    BY <1>0, <1>1, SamePages DEF F!StartSimulator, MachineInv
  <2> QED BY <2>1, <2>2 DEF FactoryInv
<1>2. CASE F!StopSimulator
  <2>1. simulatorTask \in F!Tasks
    BY <1>0, <1>2 DEF F!StopSimulator, MachineInv, F!NoTask
  <2>2. TasksInv'
    BY <1>0, <1>2, <2>1, TaskFields, PutTask DEF F!StopSimulator
  <2>3. PagesInv' /\ MachineInv'
    BY <1>0, <1>2, <2>1, SamePages DEF F!StopSimulator, MachineInv
  <2> QED BY <2>2, <2>3 DEF FactoryInv
<1>3. CASE F!TaskEnds(t)
  <2>1. TasksInv'
    BY <1>0, <1>3, FreshTask, PutTask DEF F!TaskEnds
  <2>2. PagesInv' /\ MachineInv'
    BY <1>0, <1>3, SamePages DEF F!TaskEnds, MachineInv
  <2> QED BY <2>1, <2>2 DEF FactoryInv
<1>4. CASE F!StopReturns
  <2>1. TasksInv'
    BY <1>0, <1>4, SameTasks DEF F!StopReturns
  <2>2. PagesInv' /\ MachineInv'
    BY <1>0, <1>4, SamePages DEF F!StopReturns, MachineInv, F!NoTask
  <2> QED BY <2>1, <2>2 DEF FactoryInv
<1>5. CASE F!Tick(t)
  <2>1. TasksInv'
    BY <1>0, <1>5, TaskFields, PutTask DEF F!Tick
  <2>2. PagesInv'
    BY <1>0, <1>5, SamePages DEF F!Tick
  <2>3. FullFault \in Nat
    BY DEF F!FactoryAssumption
  <2>4. progress' \in 0 .. FullFault /\ (fault = FALSE => progress' = 0)
    <3>1. CASE fault /\ progress < FullFault
      BY <1>0, <1>5, <2>3, <3>1 DEF F!Tick, MachineInv
    <3>2. CASE ~(fault /\ progress < FullFault)
      BY <1>0, <1>5, <3>2 DEF F!Tick, MachineInv
    <3> QED BY <3>1, <3>2
  <2>5. MachineInv'
    BY <1>0, <1>5, <2>4 DEF F!Tick, MachineInv
  <2> QED BY <2>1, <2>2, <2>5 DEF FactoryInv
<1> QED BY <1>1, <1>2, <1>3, <1>4, <1>5

(* The broadcast: it takes for dead what is, and takes off nothing else.   *)
LEMMA BroadcastKeeps ==
  ASSUME FactoryInv, NEW t \in F!Tasks,
         F!StartBroadcast(t) \/ F!SendNext(t) \/ F!EndBroadcast(t)
  PROVE  FactoryInv'
<1>0. /\ PagesInv /\ TasksInv /\ MachineInv
      /\ task[t] \in SimulatorTask /\ Buries(task[t])
  BY TaskFields DEF FactoryInv
<1>1. CASE F!StartBroadcast(t)
  <2> DEFINE record == [task[t] EXCEPT !.at = "sending", !.next = 1, !.dead = <<>>,
                                       !.shown = fault]
  <2>1. task' = [task EXCEPT ![t] = record]
    BY <1>1 DEF F!StartBroadcast
  <2>2. fault \in BOOLEAN /\ <<>> \in Seq(Sockets)
    BY <1>0 DEF MachineInv
  <2>3. record \in SimulatorTask /\ record.next = 1 /\ record.dead = <<>>
    BY <1>0, <2>2 DEF SimulatorTask
  <2> HIDE DEF record
  <2>4. Elems(<<>>) = {}
    BY DEF Elems
  <2>5. Buries(record)
    BY <2>3, <2>4 DEF Buries
  <2>6. TasksInv'
    BY <1>0, <1>1, <2>1, <2>5, PutTask DEF F!StartBroadcast
  <2>7. PagesInv' /\ MachineInv'
    BY <1>0, <1>1, SamePages DEF F!StartBroadcast, MachineInv
  <2> QED BY <2>6, <2>7 DEF FactoryInv
<1>2. CASE F!SendNext(t)
  <2> DEFINE s == active[task[t].next]
             sent == [task[t] EXCEPT !.next = @ + 1]
             failed == [task[t] EXCEPT !.next = @ + 1, !.dead = Append(@, s)]
  <2>1. /\ task[t].at = "sending" /\ task[t].next >= 1 /\ task[t].next \in Nat
        /\ task[t].next <= Len(active)
    BY <1>0, <1>2 DEF F!SendNext, Buries, SimulatorTask
  <2>2. s \in Sockets /\ s \in Elems(active)
    <3>1. active \in Seq(Sockets) /\ DOMAIN active = 1 .. Len(active) /\ Len(active) \in Nat
      BY <1>0, LenProperties DEF PagesInv
    <3>2. task[t].next \in 1 .. Len(active)
      BY <2>1, <3>1
    <3> QED BY <3>1, <3>2, ElementOfSeq DEF Elems
  <2>3. CASE socket[s] = "open"
    <3>1. task' = [task EXCEPT ![t] = sent]
      BY <1>2, <2>3 DEF F!SendNext
    <3>2. /\ sent \in SimulatorTask /\ sent.at = task[t].at /\ sent.dead = task[t].dead
          /\ sent.next = task[t].next + 1
      BY <1>0, <2>1 DEF SimulatorTask
    <3> HIDE DEF sent
    <3>3. Buries(sent)
      BY <1>0, <2>1, <3>2 DEF Buries
    <3>4. TasksInv'
      BY <1>0, <1>2, <3>1, <3>3, PutTask DEF F!SendNext
    <3>5. PagesInv' /\ MachineInv'
      BY <1>0, <1>2, SamePages DEF F!SendNext, MachineInv
    <3> QED BY <3>4, <3>5 DEF FactoryInv
  <2>4. CASE socket[s] # "open"
    <3>1. task' = [task EXCEPT ![t] = failed]
      BY <1>2, <2>4 DEF F!SendNext
    <3>2. task[t].dead \in Seq(Sockets)
      BY <1>0 DEF SimulatorTask
    <3>3. /\ Append(task[t].dead, s) \in Seq(Sockets)
          /\ Elems(Append(task[t].dead, s)) = Elems(task[t].dead) \union {s}
      BY <2>2, <3>2, AppendPage
    <3> HIDE DEF s
    <3> DEFINE more == Append(task[t].dead, s)
               half == [task[t] EXCEPT !.next = @ + 1]
    <3>a. half \in SimulatorTask /\ half.at = task[t].at /\ half.next = task[t].next + 1
      BY <1>0, <2>1 DEF SimulatorTask
    <3>b. more \in Seq(Sockets) /\ failed = [half EXCEPT !.dead = more]
      BY <1>0, <3>3 DEF SimulatorTask
    <3> HIDE DEF more, half
    <3>c. LET r == [half EXCEPT !.dead = more]
          IN  r \in SimulatorTask /\ r.at = half.at /\ r.dead = more /\ r.next = half.next
      BY <3>a, <3>b DEF SimulatorTask
    <3>4. /\ failed \in SimulatorTask /\ failed.at = task[t].at
          /\ failed.dead = Append(task[t].dead, s) /\ failed.next = task[t].next + 1
      BY <3>a, <3>b, <3>c DEF more
    <3>5. socket[s] \in {"gone", "closed"}
      BY <1>0, <2>2, <2>4 DEF PagesInv
    <3> HIDE DEF failed
    <3>6. Buries(failed)
      BY <1>0, <2>1, <3>3, <3>4, <3>5 DEF Buries
    <3>7. TasksInv'
      BY <1>0, <1>2, <3>1, <3>6, PutTask DEF F!SendNext
    <3>8. PagesInv' /\ MachineInv'
      BY <1>0, <1>2, SamePages DEF F!SendNext, MachineInv
    <3> QED BY <3>7, <3>8 DEF FactoryInv
  <2> QED BY <2>3, <2>4
<1>3. CASE F!EndBroadcast(t)
  <2>1. TasksInv'
    BY <1>0, <1>3, FreshTask, PutTask DEF F!EndBroadcast
  <2>2. MachineInv'
    BY <1>0, <1>3 DEF F!EndBroadcast, MachineInv
  <2>3. PICK gone \in SUBSET Elems(task[t].dead) : active' = F!Without(active, gone)
    <3> DEFINE dead == task[t].dead
               missing == {i \in DOMAIN dead : ~F!Contains(active, dead[i])}
               removed == {dead[i] : i \in {j \in DOMAIN dead : \A m \in missing : j < m}}
    <3>1. active' = F!Without(active, removed)
      BY <1>3 DEF F!EndBroadcast, F!DropDead
    <3>2. removed \in SUBSET Elems(dead)
      BY DEF Elems
    <3> QED BY <3>1, <3>2
  <2>4. /\ active' \in Seq(Sockets) /\ NoRepeats(active')
        /\ Elems(active') = Elems(active) \ gone
    BY <1>0, <2>3, WithoutFacts DEF PagesInv
  <2>5. \A s \in gone : socket[s] \in {"gone", "closed"}
    BY <1>0, <2>3 DEF Buries
  <2>6. PagesInv'
    BY <1>0, <1>3, <2>4, <2>5 DEF PagesInv, F!EndBroadcast, Elems, NoRepeats
  <2> QED BY <2>1, <2>2, <2>6 DEF FactoryInv
<1> QED BY <1>1, <1>2, <1>3

(* Pages come and go. *)
LEMMA PagesKeep ==
  ASSUME FactoryInv, NEW s \in Sockets,
         F!Connect(s) \/ F!PageCloses(s) \/ F!Disconnect(s) \/ F!HandlerFails(s)
  PROVE  FactoryInv'
<1>0. PagesInv /\ TasksInv /\ MachineInv
  BY DEF FactoryInv
<1>1. /\ MachineInv' /\ task' = task
  BY <1>0 DEF MachineInv, F!Connect, F!PageCloses, F!Disconnect, F!HandlerFails
<1>2. \E to \in {"open", "gone", "closed"} :
        socket' = [socket EXCEPT ![s] = to] /\ (socket[s] \in {"gone", "closed"} => to = "closed")
  BY DEF F!Connect, F!PageCloses, F!Disconnect, F!HandlerFails
<1>3. /\ socket' \in [Sockets -> {"new", "open", "gone", "closed"}]
      /\ \A c \in Sockets : c # s => socket'[c] = socket[c]
      /\ socket[s] \in {"gone", "closed"} => socket'[s] = "closed"
      /\ socket'[s] # "new"
  BY <1>0, <1>2 DEF PagesInv
<1>4. TasksInv'
  <2>1. ASSUME NEW u \in F!Tasks PROVE Buries(task[u])'
    <3>1. Buries(task[u]) /\ Elems(task[u].dead) \subseteq Sockets
      BY <1>0 DEF TasksInv, SimulatorTask, Elems
    <3>2. ASSUME NEW c \in Elems(task[u].dead) PROVE socket'[c] \in {"gone", "closed"}
      BY <1>3, <3>1 DEF Buries
    <3> QED BY <1>1, <3>1, <3>2 DEF Buries, Elems
  <2> QED BY <1>0, <1>1, <2>1 DEF TasksInv
<1>5. PagesInv'
  <2>1. CASE F!Connect(s)
    <3>1. active' = Append(active, s) /\ s \notin Elems(active) /\ socket'[s] = "open"
      BY <1>0, <2>1 DEF F!Connect, PagesInv
    <3>2. /\ active' \in Seq(Sockets) /\ NoRepeats(active')
          /\ Elems(active') = Elems(active) \union {s}
      BY <1>0, <3>1, AppendPage DEF PagesInv
    <3>3. /\ \A c \in Sockets : socket'[c] = "new" => c \notin Elems(active')
          /\ \A c \in Sockets : socket'[c] = "open" => c \in Elems(active')
      BY <1>0, <1>3, <3>1, <3>2 DEF PagesInv
    <3> QED BY <1>3, <3>2, <3>3 DEF PagesInv, Elems, NoRepeats
  <2>2. CASE F!Disconnect(s)
    <3>1. active' = F!Without(active, {s}) /\ socket'[s] = "closed"
      BY <1>0, <2>2 DEF F!Disconnect, PagesInv
    <3>2. /\ active' \in Seq(Sockets) /\ NoRepeats(active')
          /\ Elems(active') = Elems(active) \ {s}
      BY <1>0, <3>1, WithoutFacts DEF PagesInv
    <3>3. /\ \A c \in Sockets : socket'[c] = "new" => c \notin Elems(active')
          /\ \A c \in Sockets : socket'[c] = "open" => c \in Elems(active')
      BY <1>0, <1>3, <3>1, <3>2 DEF PagesInv
    <3> QED BY <1>3, <3>2, <3>3 DEF PagesInv, Elems, NoRepeats
  <2>3. CASE F!PageCloses(s) \/ F!HandlerFails(s)
    <3>1. active' = active /\ socket'[s] \in {"gone", "closed"}
      BY <1>0, <2>3 DEF F!PageCloses, F!HandlerFails, PagesInv
    <3>2. /\ \A c \in Sockets : socket'[c] = "new" => c \notin Elems(active)
          /\ \A c \in Sockets : socket'[c] = "open" => c \in Elems(active)
      BY <1>0, <1>3, <3>1 DEF PagesInv
    <3> QED BY <1>0, <1>3, <3>1, <3>2 DEF PagesInv, Elems, NoRepeats
  <2> QED BY <2>1, <2>2, <2>3
<1> QED BY <1>1, <1>4, <1>5 DEF FactoryInv

(* Faults are injected and cleared, the data is reset. *)
LEMMA MachineKeeps ==
  ASSUME F!FactoryAssumption, FactoryInv,
         \/ F!InjectFault \/ F!ClearFault \/ F!PipelineRequest \/ F!ResetData \/ F!Truncate
         \/ F!ResetEnds
  PROVE  FactoryInv'
<1>1. UNCHANGED <<task, simulatorTask, stopping, active, socket>>
  BY DEF F!InjectFault, F!ClearFault, F!PipelineRequest, F!ResetData, F!Truncate, F!ResetEnds,
         F!ResetChanges
<1>2. \/ fault' = fault /\ progress' = progress
      \/ fault' = FALSE /\ progress' = 0
      \/ fault' = TRUE /\ progress' = progress
  BY DEF F!InjectFault, F!ClearFault, F!PipelineRequest, F!ResetData, F!Truncate,
         F!ResetEnds, F!ResetChanges
<1>z. 0 \in 0 .. FullFault
  BY DEF F!FactoryAssumption
<1>3. MachineInv'
  BY <1>1, <1>2, <1>z DEF FactoryInv, MachineInv
<1>4. PagesInv' /\ TasksInv'
  BY <1>1, SamePages, SameTasks DEF FactoryInv
<1> QED BY <1>3, <1>4 DEF FactoryInv

THEOREM FactoryInvariant ==
  ASSUME F!FactoryAssumption
  PROVE  F!Spec => []FactoryInv
<1>1. F!Init => FactoryInv
  <2> SUFFICES ASSUME F!Init PROVE FactoryInv
    OBVIOUS
  <2>1. Elems(<<>>) = {} /\ NoRepeats(<<>>) /\ <<>> \in Seq(Sockets)
    BY DEF Elems, NoRepeats
  <2>2. PagesInv
    BY <2>1 DEF F!Init, PagesInv
  <2>3. F!NewTask \in SimulatorTask /\ F!NewTask.at = "new" /\ F!NewTask.dead = <<>>
    BY <2>1 DEF F!NewTask, SimulatorTask
  <2>4. Buries(F!NewTask)
    BY <2>1, <2>3 DEF Buries
  <2>5. TasksInv
    BY <2>3, <2>4 DEF F!Init, TasksInv
  <2>6. MachineInv
    <3>1. 0 \in 0 .. FullFault
      BY DEF F!FactoryAssumption
    <3> QED BY <3>1 DEF F!Init, MachineInv, F!NoTask
  <2> QED BY <2>2, <2>5, <2>6 DEF FactoryInv
<1>2. FactoryInv /\ [F!Next]_F!factoryVars => FactoryInv'
  <2> SUFFICES ASSUME FactoryInv, [F!Next]_F!factoryVars PROVE FactoryInv'
    OBVIOUS
  <2>1. CASE UNCHANGED F!factoryVars
    <3>1. UNCHANGED <<active, socket>> /\ UNCHANGED <<task, socket>>
          /\ UNCHANGED <<fault, progress, simulatorTask, stopping>>
      BY <2>1 DEF F!factoryVars
    <3>2. PagesInv' /\ TasksInv'
      BY <3>1, SamePages, SameTasks DEF FactoryInv
    <3>3. MachineInv'
      BY <3>1 DEF FactoryInv, MachineInv
    <3> QED BY <3>2, <3>3 DEF FactoryInv
  <2>2. ASSUME NEW t \in F!Tasks, F!StartSimulator(t) \/ F!TaskEnds(t) \/ F!Tick(t)
        PROVE  FactoryInv'
    BY <2>2, SimulatorKeeps
  <2>3. CASE F!StopSimulator
    <3>1. simulatorTask \in F!Tasks
      BY <2>3 DEF F!StopSimulator, FactoryInv, MachineInv, F!NoTask
    <3> QED BY <2>3, <3>1, SimulatorKeeps
  <2>4. CASE F!StopReturns
    <3>1. stopping \in F!Tasks
      BY <2>4 DEF F!StopReturns, FactoryInv, MachineInv, F!NoTask
    <3> QED BY <2>4, <3>1, SimulatorKeeps
  <2>5. ASSUME NEW t \in F!Tasks, F!StartBroadcast(t) \/ F!SendNext(t) \/ F!EndBroadcast(t)
        PROVE  FactoryInv'
    BY <2>5, BroadcastKeeps
  <2>6. ASSUME NEW s \in Sockets,
               F!Connect(s) \/ F!PageCloses(s) \/ F!Disconnect(s) \/ F!HandlerFails(s)
        PROVE  FactoryInv'
    BY <2>6, PagesKeep
  <2>7. CASE \/ F!InjectFault \/ F!ClearFault \/ F!PipelineRequest \/ F!ResetData
             \/ F!Truncate \/ F!ResetEnds
    BY <2>7, MachineKeeps
  <2> QED BY <2>1, <2>2, <2>3, <2>4, <2>5, <2>6, <2>7 DEF F!Next
<1> QED BY <1>1, <1>2, PTL DEF F!Spec

(* A page that is open is on the list of the smart factory, once, whatever *)
(* broadcasts and other pages take off meanwhile, for every number of      *)
(* pages and of simulator tasks (demos/smart_factory/src/app.py).          *)
THEOREM FactoryCorrect ==
  ASSUME F!FactoryAssumption
  PROVE  F!Spec => []F!FactorySound
<1>1. FactoryInv => F!FactorySound
  <2> SUFFICES ASSUME FactoryInv PROVE F!FactorySound
    OBVIOUS
  <2>1. F!TypeOK
    <3>1. \A i \in DOMAIN active : active[i] \in Sockets
      BY DEF FactoryInv, PagesInv
    <3>2. progress > 0 => fault
      <4>1. fault = TRUE \/ fault = FALSE
        BY DEF FactoryInv, MachineInv
      <4>2. fault = FALSE => ~(progress > 0)
        BY DEF FactoryInv, MachineInv
      <4> QED BY <4>1, <4>2
    <3> QED BY <3>1, <3>2 DEF FactoryInv, MachineInv, F!TypeOK, F!NoTask
  <2>2. F!OpenIsListed
    BY DEF FactoryInv, PagesInv, F!OpenIsListed, Elems, NoRepeats
  <2> QED BY <2>1, <2>2 DEF F!FactorySound
<1> QED BY <1>1, FactoryInvariant, PTL

-----------------------------------------------------------------------------
(* Web requests                                                            *)

(* Each step is one of a part and leaves the others alone. *)
LEMMA OnePart ==
  RequestsNext =>
    InSources(SourceNext) \/ InZeroBus(ControlNext) \/ InFactory(F!Next)
<1> SUFFICES ASSUME RequestsNext
             PROVE  InSources(SourceNext) \/ InZeroBus(ControlNext) \/ InFactory(F!Next)
  OBVIOUS
<1>0. part \in {"sources", "zerobus", "factory"}
  BY DEF RequestsNext, InSources, InZeroBus, InFactory
<1>1. CASE part = "sources"
  <2>1. InSources(SourceNext)
    BY <1>1 DEF RequestsNext, SourceNext, Task, InSources, InZeroBus, InFactory
  <2> QED BY <2>1
<1>2. CASE part = "zerobus"
  <2>1. InZeroBus(ControlNext)
    BY <1>2 DEF RequestsNext, ControlNext, InSources, InZeroBus, InFactory
  <2> QED BY <2>1
<1>3. CASE part = "factory"
  <2>1. InFactory(F!Next)
    BY <1>3 DEF RequestsNext, F!Next, InSources, InZeroBus, InFactory
  <2> QED BY <2>1
<1> QED BY <1>0, <1>1, <1>2, <1>3

(* What one part does among the others is what it does alone. *)
LEMMA SourcePart == RequestsSpec => SourceInit /\ [][SourceNext]_sourceVars
<1>1. RequestsInit => SourceInit
  BY DEF RequestsInit
<1>2. [RequestsNext]_requests => [SourceNext]_sourceVars
  <2>1. UNCHANGED requests => UNCHANGED sourceVars
    BY DEF requests
  <2>2. RequestsNext => SourceNext \/ UNCHANGED sourceVars
    BY OnePart DEF InSources, InZeroBus, InFactory
  <2> QED BY <2>1, <2>2
<1> QED BY <1>1, <1>2, PTL DEF RequestsSpec

LEMMA ControlPart == RequestsSpec => ControlInit /\ [][ControlNext]_controlVars
<1>1. RequestsInit => ControlInit
  BY DEF RequestsInit
<1>2. [RequestsNext]_requests => [ControlNext]_controlVars
  <2>1. UNCHANGED requests => UNCHANGED controlVars
    BY DEF requests
  <2>2. RequestsNext => ControlNext \/ UNCHANGED controlVars
    BY OnePart DEF InSources, InZeroBus, InFactory
  <2> QED BY <2>1, <2>2
<1> QED BY <1>1, <1>2, PTL DEF RequestsSpec

LEMMA FactoryPart == RequestsSpec => F!Spec
<1>1. RequestsInit => F!Init
  BY DEF RequestsInit
<1>2. [RequestsNext]_requests => [F!Next]_F!factoryVars
  <2>1. UNCHANGED factory => UNCHANGED F!factoryVars
    BY DEF factory, F!factoryVars
  <2>2. UNCHANGED requests => UNCHANGED factory
    BY DEF requests
  <2>3. RequestsNext => F!Next \/ UNCHANGED factory
    BY OnePart DEF InSources, InZeroBus, InFactory
  <2> QED BY <2>1, <2>2, <2>3
<1> QED BY <1>1, <1>2, PTL DEF RequestsSpec, F!Spec

(* However web requests overlap, the sources, the ZeroBus clients and the  *)
(* list of pages stay in step with the tasks that use them: in the model   *)
(* that the run checks, for every number of each (core/unified_bridge.py,  *)
(* demos/smart_factory/src/app.py).                                        *)
THEOREM RequestsCorrect ==
  ASSUME RequestsAssumption
  PROVE  RequestsSpec => []RequestsSound
<1>1. SourceAssumption /\ ControlAssumption /\ F!FactoryAssumption
  BY DEF RequestsAssumption
<1>2. SourceInv => SourcesSound
  BY DEF SourceInv
<1>3. RequestsSpec => []SourcesSound
  BY <1>1, <1>2, SourcePart, SourcesRun, PTL
<1>4. RequestsSpec => []ControlSound
  BY <1>1, ControlPart, ControlRuns, ControlIsSound, PTL
<1>5. RequestsSpec => []F!FactorySound
  BY <1>1, FactoryPart, FactoryCorrect, PTL
<1> QED BY <1>3, <1>4, <1>5, PTL DEF RequestsSound

(* In that model, too, a stop_source that returns leaves nothing behind.   *)
THEOREM RequestsStop ==
  ASSUME RequestsAssumption
  PROVE  RequestsSpec => StopMeansStopped
<1>1. SourceAssumption
  BY DEF RequestsAssumption
<1> QED BY <1>1, SourcePart, StopsRun, PTL
===============================================================================
