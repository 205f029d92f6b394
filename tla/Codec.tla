-------------------------------- MODULE Codec --------------------------------
(***************************************************************************)
(* The archive on disk, word by word: the serde code of record.rs, partly   *)
(* derived and partly written by hand, the derived code of format.rs, and   *)
(* bincode (external).  A word is a u8, u32 or u64.                         *)
(***************************************************************************)
EXTENDS StateHash

-----------------------------------------------------------------------------
(* Serde's data model, as far as the archive uses it: a value of a struct is *)
(* the tuple of its fields, one of an enum its variant number and fields.    *)

Word             == [kind |-> "word"]
Bytes            == [kind |-> "bytes"]
Vec(type)        == [kind |-> "vec", of |-> type]
Struct(types)    == [kind |-> "struct", of |-> types]
Enum(variants)   == [kind |-> "enum", of |-> variants]

\* AlignedMemory is written as bytes and read as a Vec<u8>.
AlignedMemoryWritten == Bytes
AlignedMemoryRead    == Vec(Word)

\* register_serde: the 16 bytes of a WHV_REGISTER_VALUE, of which the first
\* eight are Reg64.
Register == Struct(<<Word, Word>>)

\* Syscall, Rdtsc, Cpuid, ContextSwitch.
EventType == Enum(<<Struct(<<Word, Vec(Struct(<<Word, Vec(Word)>>))>>),
                    Struct(<<Word, Word>>),
                    Struct(<<Word, Word, Word, Word>>),
                    Struct(<<Word>>)>>)

\* instruction_count and event.
TraceEvent == Struct(<<Word, EventType>>)

\* memory_regions and registers.
Snapshot(memory) == Struct(<<Vec(Struct(<<Word, memory>>)), Vec(Register)>>)

\* Snapshot, events and final hash.
ArchiveType(memory) == Struct(<<Snapshot(memory), Vec(TraceEvent), Word>>)

-----------------------------------------------------------------------------
(* bincode: a sequence is its length and its elements, an enum the number of *)
(* its variant and the fields.                                               *)

RECURSIVE Encode(_, _)
Encode(value, type) ==
  LET EncodeAll(types) == FlattenSeq([i \in DOMAIN value |-> Encode(value[i], types[i])])
  IN CASE type.kind = "word"   -> <<value>>
       [] type.kind = "bytes"  -> <<Len(value)>> \o value
       [] type.kind = "vec"    -> <<Len(value)>> \o EncodeAll([i \in DOMAIN value |-> type.of])
       [] type.kind = "struct" -> EncodeAll(type.of)
       [] type.kind = "enum"   -> <<value[1]>> \o Encode(value[2], type.of[value[1] + 1])

\* A reader at word `at` of f yields a value and where it stopped, or fails.
Ok(val, at) == [ok |-> TRUE, val |-> val, at |-> at]
Failed      == [ok |-> FALSE, val |-> <<>>, at |-> 0]

RECURSIVE Decode(_, _, _)
Decode(f, at, type) ==
  LET Fields(from, types) ==   \* one value of each type, in order
        LET upTo[k \in 0..Len(types)] ==
              IF k = 0 THEN Ok(<<>>, from)
              ELSE LET before == upTo[k - 1]
                       field  == Decode(f, before.at, types[k])
                   IN IF before.ok /\ field.ok
                      THEN Ok(Append(before.val, field.val), field.at)
                      ELSE Failed
        IN upTo[Len(types)]
      variant == Decode(f, at + 1, type.of[f[at] + 1])
  IN IF type.kind = "struct" THEN Fields(at, type.of)
     ELSE IF at \notin DOMAIN f THEN Failed
     ELSE CASE type.kind = "word" -> Ok(f[at], at + 1)
            [] type.kind = "vec"  -> Fields(at + 1, [i \in 1..f[at] |-> type.of])
            [] type.kind = "enum" -> IF f[at] < Len(type.of) /\ variant.ok
                                     THEN Ok(<<f[at], variant.val>>, variant.at)
                                     ELSE Failed

-----------------------------------------------------------------------------
(* The archive in memory: a HashMap from addresses to buffers, the registers,*)
(* the events and the hash.                                                  *)

\* order: the sequence in which the HashMap yields its keys.
serialize(a, order) ==
  Encode(<<<<[i \in DOMAIN order |-> <<order[i], a.memory_regions[order[i]]>>], a.registers>>,
           a.events, a.hash>>,
         ArchiveType(AlignedMemoryWritten))

\* What bincode::serialize yields in each order of the HashMap.
serializations(a) == {serialize(a, order) : order \in Orders(a)}

\* The HashMap is filled in file order, so of equal keys the last one counts.
HashMap(pairs) ==
  [g \in {pairs[k][1] : k \in DOMAIN pairs} |->
     pairs[Max({k \in DOMAIN pairs : pairs[k][1] = g})][2]]

\* Words after the last field are not looked at.
deserialize(f) ==
  LET d == Decode(f, 1, ArchiveType(AlignedMemoryRead))
  IN IF d.ok
     THEN Ok([memory_regions |-> HashMap(d.val[1][1]), registers |-> d.val[1][2],
              events |-> d.val[2], hash |-> d.val[3]], d.at)
     ELSE Failed
=============================================================================
