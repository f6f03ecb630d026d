------------------------------ MODULE TagPaths ------------------------------
(***************************************************************************)
(* How the normalizers of normalizer/ name a tag: the levels of the plant  *)
(* that they read off a topic, a browse path or a register, the template   *)
(* site/line/equipment/signal that the levels fill, and the path used when *)
(* a level is missing; and how they grade what was read.                   *)
(* A topic, a node id after ";s=" and a browse path are sequences of       *)
(* segments; a path is a sequence of segments too, and the hash of it, the *)
(* tag id, is taken to be the path.                                        *)
(***************************************************************************)
EXTENDS Naturals, Sequences, SequencesExt, FiniteSetsExt

CONSTANTS
  Lower,   \* function: the lower-case form of a segment
  Matches  \* function: what the patterns of the configuration find in an identifier

Levels == <<"site_id", "line_id", "equipment_id", "signal_type">>
Roots == {"objects", "root", "server"}

LowerOf(s) == IF s \in DOMAIN Lower THEN Lower[s] ELSE s
NoContext == [l \in {} |-> l]

(* Segments name the levels from the signal upwards. *)
Upwards(parts) ==
  LET n == Min({4, Len(parts)})
      From(i) == Len(parts) - (4 - i)
  IN  [l \in {Levels[i] : i \in 5 - n .. 4} |->
         LowerOf(parts[From(CHOOSE i \in 1 .. 4 : Levels[i] = l)])]

(* Four levels are the head of a topic, fewer its end. *)
ExtractContextFromTopic(topic) ==
  Upwards(SubSeq(topic, 1, Min({4, Len(topic)})))

ExtractContextFromBrowsePath(browse, node) ==
  Upwards(SelectSeq(IF browse = <<>> THEN node ELSE browse,
                    LAMBDA p : LowerOf(p) \notin Roots))

(* TagPathBuilder._extract_components: the patterns come first. Every      *)
(* protocol has some, as in the shipped configuration: without any the     *)
(* code would read nothing.                                                *)
ExtractComponents(protocol, id) ==
  LET found == IF id \in DOMAIN Matches THEN Matches[id] ELSE NoContext
      n == Len(id)
      read == CASE protocol = "mqtt" /\ n >= 4 -> Upwards(SubSeq(id, 1, 4))
                [] protocol = "mqtt" /\ n \in 2 .. 3 -> Upwards(<<id[n]>>)
                [] protocol = "opcua" /\ n >= 2 -> Upwards(SubSeq(id, Max({1, n - 2}), n))
                [] OTHER -> NoContext
  IN  found @@ read

BuildFallbackPath(protocol, id, components) ==
  <<IF "site_id" \in DOMAIN components THEN components["site_id"] ELSE "unknown_site",
    protocol>>
    \o IF "signal_type" \in DOMAIN components
       THEN <<components["signal_type"]>>
       ELSE [i \in DOMAIN id |-> LowerOf(id[i])]

(* The context of the record wins over what the identifier tells. *)
BuildPath(protocol, id, context) ==
  LET components == context @@ ExtractComponents(protocol, id)
  IN  IF \A i \in 1 .. 4 : Levels[i] \in DOMAIN components
      THEN [i \in 1 .. 4 |-> components[Levels[i]]]
      ELSE BuildFallbackPath(protocol, id, components)

(* MQTTNormalizer.normalize: the context of the configuration wins over    *)
(* the topic's; retained messages may be stale.                            *)
NormalizeMqtt(raw) ==
  [path |-> BuildPath("mqtt", raw.id, raw.config @@ ExtractContextFromTopic(raw.id)),
   quality |-> IF raw.status = "retained" THEN "uncertain" ELSE "good"]

(* OPCUANormalizer.normalize: no status code is a good one. *)
NormalizeOpcua(raw) ==
  [path |-> BuildPath("opcua", raw.id,
                      raw.config @@ ExtractContextFromBrowsePath(raw.browse, raw.id)),
   quality |-> IF raw.status = "none" THEN "good" ELSE raw.status]

(* ModbusNormalizer.normalize: no configured signal type replaces the name *)
(* of a register; what is not known to have succeeded is bad.              *)
NormalizeModbus(raw) ==
  [path |-> BuildPath("modbus", raw.id,
                      [l \in {"signal_type"} |-> raw.name] @@ raw.config),
   quality |-> IF raw.status = "success" THEN "good" ELSE "bad"]

Normalize(protocol, raw) ==
  CASE protocol = "mqtt" -> NormalizeMqtt(raw)
    [] protocol = "opcua" -> NormalizeOpcua(raw)
    [] protocol = "modbus" -> NormalizeModbus(raw)
=============================================================================
