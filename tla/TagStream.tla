------------------------------ MODULE TagStream ------------------------------
(***************************************************************************)
(* The readings of one source on their way through its protocol client and *)
(* the bridge's _on_record: polled Modbus registers, polled OPC-UA nodes,  *)
(* or the messages and data changes that a broker or server sends; the     *)
(* normalizer in the client, whose dictionaries _on_record cannot take, so *)
(* that the client sends the raw record again; the normalizer in the       *)
(* bridge, whose raw data have neither identifier nor context; and the     *)
(* filter on unchanged values, one memory per normalized path.             *)
(***************************************************************************)
EXTENDS TagPaths

CONSTANTS
  Sources,    \* the sources considered: see Source
  Values,     \* what a variable or register holds
  Nothing,    \* no value
  BatchSize,  \* variables read at the same time by an OPC-UA poll
  MaxChanges, \* bound: changes in the plant
  MaxFaults   \* bound: reads that fail

(* A source: how it is read, and its variables in the order they are read. *)
(* The registers of one block share its name.                              *)
IsSource(s) ==
  /\ s.protocol \in {"opcua", "modbus", "mqtt"}
  /\ s.mode \in {"poll", "subscribe"}
  /\ \A i \in DOMAIN s.items :
       DOMAIN s.items[i] = {"id", "browse", "config", "name", "status", "block"}

StreamAssumption ==
  /\ Nothing \notin Values /\ BatchSize \in Nat \ {0}
  /\ MaxChanges \in Nat /\ MaxFaults \in Nat
  /\ \A s \in Sources :
       IsSource(s) /\ Len(s.items) \in Nat /\ DOMAIN s.items = 1 .. Len(s.items)

VARIABLES
  source,   \* the source
  enabled,  \* normalization.enabled of the configuration
  plant,    \* the value of every variable
  notified, \* messages and notifications that are not handled yet
  position, \* poll: variables of this poll that are dealt with
  answers,  \* poll: the answers to the reads under way
  last,     \* last_emitted_by_key
  got,      \* history: the value of every variable that was sent on last
  named,    \* history: the tag that the client's normalizer made of every variable
  filed,    \* history: the tag that the bridge filed it under
  changes, faults

vars == <<source, enabled, plant, notified, position, answers, last, got, named, filed,
          changes, faults>>
streamVars == vars
recordVars == <<last, got, named, filed>>

Items == DOMAIN source.items
Unnamed == [path |-> <<>>, quality |-> "none"]
Paths == DOMAIN last
Put(f, x, v) == [y \in DOMAIN f \union {x} |-> IF y = x THEN v ELSE f[y]]

TypeOK ==
  /\ source \in Sources /\ IsSource(source) /\ enabled \in BOOLEAN
  /\ plant \in [Items -> Values] /\ got \in [Items -> Values \union {Nothing}]
  /\ notified \in Seq(Items \X (Values \union {Nothing}))
  /\ position \in 0 .. Len(source.items)
  /\ DOMAIN answers \subseteq Items
  /\ \A i \in DOMAIN answers : answers[i] \in Values \union {Nothing}
  /\ \A p \in Paths : last[p] \in Values
  /\ DOMAIN named = Items /\ DOMAIN filed = Items
  /\ changes \in 0 .. MaxChanges /\ faults \in 0 .. MaxFaults

Init ==
  /\ source \in Sources
  /\ enabled \in BOOLEAN
  /\ plant \in {[i \in Items |-> v] : v \in Values}
  /\ notified = <<>> /\ position = 0
  /\ answers = [i \in {} |-> Nothing] /\ last = [p \in {} |-> Nothing]
  /\ got = [i \in Items |-> Nothing]
  /\ named = [i \in Items |-> Unnamed] /\ filed = [i \in Items |-> Unnamed]
  /\ changes = 0 /\ faults = 0
------------------------------------------------------------------------------
(* The raw data that the clients make of a reading: what they know of the  *)
(* variable.  Registers have no name in the device.                        *)
RegisterRawData(i) == [source.items[i] EXCEPT !.id = <<>>, !.browse = <<>>]

CreateRawData(i) ==
  IF source.protocol = "modbus" THEN RegisterRawData(i) ELSE source.items[i]

(* The raw data that the bridge makes of a record have other keys than the *)
(* normalizers look for.                                                   *)
ProtocolRecordToRawData(i) ==
  [id |-> <<>>, browse |-> <<>>, config |-> NoContext, name |-> "register_0",
   status |-> "none", block |-> 0]

(* Only polled OPC-UA values bypass the client's normalizer. *)
ClientNormalizes == enabled /\ ~(source.protocol = "opcua" /\ source.mode = "poll")

TopicOrPath(i) ==
  CASE source.protocol = "opcua" -> source.items[i].browse
    [] source.protocol = "mqtt" -> source.items[i].id
    [] source.protocol = "modbus" -> <<source.items[i].name, ToString(i)>>

Tag(i) ==
  IF enabled
  THEN Normalize(source.protocol, ProtocolRecordToRawData(i))
  ELSE [path |-> TopicOrPath(i), quality |-> source.items[i].status]

TagPath(i) == Tag(i).path

(* What one reading leaves of the memory of the filter and of the          *)
(* receiver's values, for values that are no numbers or a policy of        *)
(* change_only.  A read that failed is passed over.                        *)
Filter(memory, reading) ==
  LET i == reading[1]
      v == reading[2]
      p == TagPath(i)
  IN  IF v = Nothing \/ (p \in DOMAIN memory.last /\ memory.last[p] = v)
      THEN memory
      ELSE [last |-> Put(memory.last, p, v), got |-> [memory.got EXCEPT ![i] = v]]

Filtered(seq) ==
  LET memory[n \in 0 .. Len(seq)] ==
        IF n = 0 THEN [last |-> last, got |-> got] ELSE Filter(memory[n - 1], seq[n])
  IN  memory

(* The clients call on_record for one reading after the other.  _on_record *)
(* counts the client's dictionary, then raises, and is called again with   *)
(* the record, which is sent on unless its path had this value last.       *)
OnRecord(seq) ==
  LET memory == Filtered(seq)[Len(seq)]
      read == {seq[k][1] : k \in {n \in DOMAIN seq : seq[n][2] # Nothing}}
  IN  /\ last' = memory.last /\ got' = memory.got
      /\ named' = [i \in Items |->
                     IF i \in read
                     THEN Normalize(source.protocol, CreateRawData(i))
                     ELSE named[i]]
      /\ filed' = [i \in Items |-> IF i \in read THEN Tag(i) ELSE filed[i]]
------------------------------------------------------------------------------
(* The plant: the broker and the server tell of a change, a device does not. *)
Change(i, v) ==
  /\ changes < MaxChanges /\ v # plant[i]
  /\ changes' = changes + 1
  /\ plant' = [plant EXCEPT ![i] = v]
  /\ notified' = IF source.mode = "subscribe" THEN Append(notified, <<i, v>>) ELSE notified
  /\ UNCHANGED <<source, enabled, position, answers, recordVars, faults>>

(* A device publishes a payload that cannot be parsed. *)
Garble(i) ==
  /\ source.protocol = "mqtt"
  /\ faults < MaxFaults /\ faults' = faults + 1
  /\ notified' = Append(notified, <<i, Nothing>>)
  /\ UNCHANGED <<source, enabled, plant, position, answers, recordVars, changes>>

(* MQTTClient.subscribe, for the next message: one that cannot be parsed   *)
(* with payload_format "json" makes no record.                             *)
HandleMessage ==
  /\ source.protocol = "mqtt" /\ notified # <<>>
  /\ OnRecord(<<Head(notified)>>)
  /\ notified' = Tail(notified)
  /\ UNCHANGED <<source, enabled, plant, position, answers, changes, faults>>

(* OPCUAClient._on_datachange. *)
OnDataChange ==
  /\ source.protocol = "opcua" /\ notified # <<>>
  /\ OnRecord(<<Head(notified)>>)
  /\ notified' = Tail(notified)
  /\ UNCHANGED <<source, enabled, plant, position, answers, changes, faults>>

(* The variables of the batch that the poll is at: the registers of one    *)
(* block, or the next few nodes.                                           *)
Batch ==
  LET first == position + 1
      rest == {i \in Items : i >= first}
  IN  IF source.protocol = "modbus"
      THEN {i \in rest : source.items[i].block = source.items[first].block}
      ELSE {i \in rest : i < first + BatchSize}

Polling == source.mode = "poll" /\ position < Len(source.items)

(* _poll_register: one answer for the whole block, or none for it. *)
PollRegister ==
  /\ Polling /\ source.protocol = "modbus"
  /\ \/ /\ OnRecord([k \in 1 .. Cardinality(Batch) |-> <<position + k, plant[position + k]>>])
        /\ UNCHANGED faults
     \/ /\ faults < MaxFaults /\ faults' = faults + 1
        /\ UNCHANGED recordVars
  /\ position' = position + Cardinality(Batch)
  /\ UNCHANGED <<source, enabled, plant, notified, answers, changes>>

(* _poll_loop: the reads of a batch end in any order. *)
ReadOne(i) ==
  /\ Polling /\ source.protocol = "opcua"
  /\ i \in Batch \ DOMAIN answers
  /\ \/ answers' = Put(answers, i, plant[i]) /\ UNCHANGED faults
     \/ /\ faults < MaxFaults /\ faults' = faults + 1
        /\ answers' = Put(answers, i, Nothing)
  /\ UNCHANGED <<source, enabled, plant, notified, position, recordVars, changes>>

Answered == [k \in 1 .. Cardinality(Batch) |-> <<position + k, answers[position + k]>>]

BatchRead ==
  /\ Polling /\ source.protocol = "opcua" /\ Batch \subseteq DOMAIN answers
  /\ OnRecord(Answered)
  /\ position' = position + Cardinality(Batch)
  /\ answers' = [i \in {} |-> Nothing]
  /\ UNCHANGED <<source, enabled, plant, notified, changes, faults>>

(* Faulty version: a poll that read nothing is the last one. *)
IntervalEnds_IfRead ==
  /\ source.mode = "poll" /\ position = Len(source.items) /\ Paths # {}
  /\ position' = 0
  /\ UNCHANGED <<source, enabled, plant, notified, answers, recordVars, changes, faults>>

(* The next poll begins. *)
IntervalEnds ==
  /\ source.mode = "poll" /\ position = Len(source.items)
  /\ position' = 0
  /\ UNCHANGED <<source, enabled, plant, notified, answers, recordVars, changes, faults>>

Next ==
  \/ \E i \in Items, v \in Values : Change(i, v)
  \/ \E i \in Items : Garble(i)
  \/ HandleMessage
  \/ OnDataChange
  \/ PollRegister
  \/ \E i \in Items : ReadOne(i)
  \/ BatchRead
  \/ IntervalEnds

(* The event loop runs the client; every read is answered or fails. *)
Client ==
  HandleMessage \/ OnDataChange \/ PollRegister \/ BatchRead \/ IntervalEnds
    \/ \E i \in Items : ReadOne(i)

Spec == Init /\ [][Next]_vars /\ WF_vars(Client)
------------------------------------------------------------------------------
(* What the receiver holds of a variable that has its path for itself is    *)
(* what the filter remembers of it.                                        *)
Alone(i) == \A j \in Items \ {i} : TagPath(j) # TagPath(i)

StreamSound ==
  /\ TypeOK
  /\ \A i \in Items : Alone(i) /\ filed[i] # Unnamed => last[filed[i].path] = got[i]

(* The receiver of a variable that has its path for itself ends with the   *)
(* value the variable has, whatever reads failed in between: always if it  *)
(* is polled, as soon as a change was sent on if it is subscribed to.      *)
ReceiverCatchesUp ==
  []<>(\A i \in Items :
         Alone(i) /\ (source.mode = "poll" \/ filed[i] # Unnamed) => got[i] = plant[i])

(* Two variables whose paths the client's normalizer keeps apart are kept  *)
(* apart by the bridge.                                                    *)
TagsStayApart ==
  \A i, j \in Items :
    named[i].path # named[j].path /\ Unnamed \notin {named[i], named[j]} =>
      filed[i].path # filed[j].path
==============================================================================
